-------------------------- MODULE MetadataProjection --------------------------
(***************************************************************************)
(* The metadata writer: it consumes every request and status topic and     *)
(* projects each event into PostgreSQL, so the events of one request       *)
(* arrive in no particular order.  One event takes several database calls: *)
(* upsert_request reads the row, merges and writes it, append_event adds   *)
(* the audit row keyed by the event's hash (for a dead letter it comes     *)
(* first), a requested event then upserts its raw report metadata, which   *)
(* may conflict.  A structural failure is dead-lettered, and the metadata  *)
(* writer consumes that dead letter too.                                   *)
(*                                                                         *)
(* One request.  The offsets are abstracted to the set of events a writer  *)
(* of the group has committed; an event may be delivered again until then, *)
(* by a restart or to another writer.                                      *)
(***************************************************************************)
EXTENDS RequestMetadata

CONSTANTS
    Writers,        \* metadata writer processes
    Published,      \* events the other components may publish
    Conflicting,    \* events whose raw report metadata conflicts
    MaxRedeliveries,\* bound on deliveries that do not reach their commit
    MaxFaults       \* bound on failed database or broker calls

ASSUME MetadataProjectionAssumption ==
    /\ Published \subseteq Events \ {"dlq_metadata"}
    /\ Conflicting \subseteq {"requested"}
    /\ MaxRedeliveries \in Nat /\ MaxFaults \in Nat

VARIABLES
    published,      \* events on the topics
    committed,      \* events the group is done with
    durable,        \* the feature_requests row
    audit,          \* request_events
    pc, event, seen,\* per writer: step, event in hand, row read
    overwritten,    \* history: an upsert replaced a row it had not read
    redeliveries, faults

bounds == <<redeliveries, faults>>
vars == <<published, committed, durable, audit, pc, event, seen, overwritten, bounds>>

Init ==
    /\ published = {} /\ committed = {} /\ durable = NoRow /\ audit = {}
    /\ pc = [w \in Writers |-> "poll"]
    /\ event = [w \in Writers |-> None]
    /\ seen = [w \in Writers |-> NoRow]
    /\ overwritten = FALSE /\ redeliveries = 0 /\ faults = 0

Goto(w, step) == pc' = [pc EXCEPT ![w] = step]

(* process_next returns; its locals are gone.                              *)
Return(w) ==
    /\ Goto(w, "poll")
    /\ event' = [event EXCEPT ![w] = None]
    /\ seen' = [seen EXCEPT ![w] = NoRow]

(* The API, the online worker and the offline writer publish: a request    *)
(* first, its offline event before its completion.  A redelivered request  *)
(* may complete and expire, or complete and be dead-lettered.              *)
Publish(e) ==
    /\ e \in Published \ published
    /\ e # "requested" => "requested" \in published
    /\ e \in {"completed", "dlq_offline"} => "offline_requested" \in published
    /\ published' = published \cup {e}
    /\ UNCHANGED <<committed, durable, audit, pc, event, seen, overwritten, bounds>>

(* _project_dlq appends the audit row before anything else.                *)
AuditFirst(e) == e \in {"dlq_online", "dlq_offline", "dlq_metadata"}

(* Wrong version: a row that exists is taken for a replay and left alone.  *)
SkipSeenRow(w, e) ==
    /\ pc[w] = "poll" /\ e \in published \ committed
    /\ event' = [event EXCEPT ![w] = e]
    /\ Goto(w, IF projection(e) = NoRow \/ durable # NoRow THEN "append_event" ELSE "select")
    /\ UNCHANGED <<published, committed, durable, audit, seen, overwritten, bounds>>

(* A writer receives an event; one that another writer holds is delivered  *)
(* again only by a rebalance.                                              *)
Poll(w, e) ==
    /\ pc[w] = "poll"
    /\ e \in published \ committed
    /\ \/ /\ \A v \in Writers : pc[v] = "poll" \/ event[v] # e
          /\ UNCHANGED redeliveries
       \/ /\ \E v \in Writers : pc[v] # "poll" /\ event[v] = e
          /\ redeliveries < MaxRedeliveries /\ redeliveries' = redeliveries + 1
    /\ event' = [event EXCEPT ![w] = e]
    /\ Goto(w, IF AuditFirst(e) THEN "append_event" ELSE "select")
    /\ UNCHANGED <<published, committed, durable, audit, seen, overwritten, faults>>

(* The process dies, or loses the partition: the event is delivered again. *)
Abandon(w) ==
    /\ pc[w] # "poll"
    /\ redeliveries < MaxRedeliveries /\ redeliveries' = redeliveries + 1
    /\ Return(w)
    /\ UNCHANGED <<published, committed, durable, audit, overwritten, faults>>

(* A database or broker call fails: store_failed, dlq_publish_failed.  The *)
(* runner polls on without a commit; the event is delivered again after a  *)
(* restart, unless a later commit on its partition has passed it by then.  *)
Fail(w) ==
    /\ pc[w] \in {"select", "upsert", "append_event", "dead_letter"}
    /\ faults < MaxFaults /\ faults' = faults + 1
    /\ committed' \in {committed, committed \cup {event[w]}}
    /\ Return(w)
    /\ UNCHANGED <<published, durable, audit, overwritten, redeliveries>>

(* upsert_request: the read ...                                            *)
SelectRequest(w) ==
    /\ pc[w] = "select"
    /\ seen' = [seen EXCEPT ![w] = durable]
    /\ Goto(w, "upsert")
    /\ UNCHANGED <<published, committed, durable, audit, event, overwritten, bounds>>

(* ... and the write of the merged row.                                    *)
UpsertRequest(w) ==
    /\ pc[w] = "upsert"
    /\ overwritten' = (overwritten \/ seen[w] # durable)
    /\ durable' = merge_request(seen[w], projection(event[w]))
    /\ seen' = [seen EXCEPT ![w] = NoRow]
    /\ Goto(w, IF AuditFirst(event[w]) THEN "commit" ELSE "append_event")
    /\ UNCHANGED <<published, committed, audit, event, bounds>>

(* append_event, ON CONFLICT DO NOTHING; then the raw report metadata, or  *)
(* the request a dead letter is about.                                     *)
AppendEvent(w) ==
    /\ pc[w] = "append_event"
    /\ audit' = audit \cup {event[w]}
    /\ Goto(w, IF event[w] \in Conflicting THEN "dead_letter"
               ELSE IF AuditFirst(event[w]) /\ projection(event[w]) # NoRow THEN "select"
               ELSE "commit")
    /\ UNCHANGED <<published, committed, durable, event, seen, overwritten, bounds>>

(* structural_conflict: a dead letter with failure_stage metadata_writer.  *)
DeadLetter(w) ==
    /\ pc[w] = "dead_letter"
    /\ published' = published \cup {"dlq_metadata"}
    /\ Goto(w, "commit")
    /\ UNCHANGED <<committed, durable, audit, event, seen, overwritten, bounds>>

Commit(w) ==
    /\ pc[w] = "commit"
    /\ committed' = committed \cup {event[w]}
    /\ Return(w)
    /\ UNCHANGED <<published, durable, audit, overwritten, bounds>>

Step(w) ==
    \/ \E e \in Events : Poll(w, e)
    \/ SelectRequest(w) \/ UpsertRequest(w) \/ AppendEvent(w)
    \/ DeadLetter(w) \/ Commit(w)

Next ==
    \/ \E e \in Published : Publish(e)
    \/ \E w \in Writers : Step(w) \/ Abandon(w) \/ Fail(w)

Spec == Init /\ [][Next]_vars

(* A writer process keeps running.                                         *)
FairSpec == Spec /\ \A w \in Writers : WF_vars(Step(w))

-----------------------------------------------------------------------------
TypeOK ==
    /\ published \subseteq Events /\ committed \subseteq published
    /\ durable \in Snapshot /\ audit \subseteq published
    /\ pc \in [Writers -> {"poll", "select", "upsert", "append_event",
                           "dead_letter", "commit"}]
    /\ event \in [Writers -> Events \cup {None}]
    /\ \A w \in Writers : pc[w] # "poll" => event[w] \in published
    /\ seen \in [Writers -> Snapshot] /\ overwritten \in BOOLEAN
    /\ redeliveries \in 0..MaxRedeliveries /\ faults \in 0..MaxFaults

Regresses == durable.status \in TERMINAL /\ durable'.status \notin TERMINAL

(* "status never regresses from a terminal (completed/failed) back to      *)
(* accepted/running", whatever the order and the number of deliveries, as  *)
(* long as no upsert replaces a row another writer changed since its read. *)
TerminalNeverRegresses == [][overwritten' \/ ~Regresses]_vars

(* The projection is eventually consistent: once every event is committed, *)
(* in whichever order, the row says what became of the request.  Where two *)
(* events decide the same column, either may have been the last.           *)
Converges ==
    (published # {} /\ committed = published /\ ~overwritten /\ faults = 0) =>
        LET outcomes == {projection(e).status : e \in published} \cap TERMINAL
            writes == {projection(e).online : e \in published} \ {None}
            histories == {projection(e).offline : e \in published} \ {None}
        IN  /\ durable.status \in (IF outcomes = {} THEN {"accepted"} ELSE outcomes)
            /\ durable.online \in (IF writes = {} THEN {None} ELSE writes)
            /\ durable.offline \in (IF histories = {} THEN {None} ELSE histories)

(* A published outcome is eventually on the durable row, unless a database *)
(* or broker call fails.                                                   *)
OutcomeProjected ==
    (published \cap {"completed", "expired", "dlq_online"} # {})
        ~> (durable.status \in TERMINAL \/ overwritten \/ faults > 0)
=============================================================================
