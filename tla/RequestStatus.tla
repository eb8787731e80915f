---------------------------- MODULE RequestStatus ----------------------------
(***************************************************************************)
(* The operational status of one request: an entry in Valkey that the API, *)
(* the online worker, the offline writer, the metadata writer and the      *)
(* status endpoint all write.  An update is a get followed by a set of the *)
(* whole entry, with nothing in between that notices another writer; it is *)
(* best effort, and it is dropped when there is no entry yet.  The status  *)
(* endpoint reconciles metadata_write_status with the durable projection   *)
(* and repairs the entry, again with a set of the whole entry.  The hybrid *)
(* endpoint submits, waits on the entry and answers with the request's own *)
(* result.                                                                 *)
(*                                                                         *)
(* The consumers are modelled as far as the entry depends on them; their   *)
(* offsets are in OnlineWorker, OfflineWriter and MetadataProjection.  The *)
(* metadata writers project into the durable row as they do there: a read, *)
(* a merge and an upsert of the whole row that another writer may change   *)
(* in between.                                                             *)
(***************************************************************************)
EXTENDS RequestMetadata

CONSTANTS
    Instances,     \* requests to follow: what handling one may come to (outcomes)
                   \* and what its offline write may (appends), whether a client
                   \* asks for its status (polled) or waits in the hybrid endpoint
                   \* (hybrid), the metadata writers that run (writers) and the
                   \* bounds on consumer deaths and lost status calls
    MetadataWriters,   \* metadata writer processes
    MaxAttempts        \* kafka_max_attempts

ASSUME RequestStatusAssumption ==
    /\ \A i \in Instances :
          /\ i.outcomes \subseteq {"ok", "deadline_expired", "compute_failed"}
          /\ i.appends \subseteq {"written", "retrying", "failed_dlq"}
          /\ i.writers \subseteq MetadataWriters
          /\ {i.polled, i.hybrid} \subseteq BOOLEAN /\ {i.max_crashes, i.max_lost} \subseteq Nat
    /\ MetadataWriters \cap {"api", "online", "offline", "get"} = {}
    /\ MaxAttempts \in Nat \ {0}

VARIABLES
    entry,              \* fs:request-status:<id>, or NoEntry
    result,             \* fs:request-result:<id> exists
    history,            \* the request's rows are in offline history
    published,          \* events published so far
    toWrite,            \* an offline-write event waits for the offline writer
    toProject,          \* events the metadata writers have not committed
    durable,            \* the feature_requests row
    held,               \* per metadata writer: the event between its read and its
                        \* write of the row, and the row it read
    overwritten,        \* history: an upsert replaced a row it had not read
    response,           \* what the last GET claimed of other stores
    answer,             \* what the hybrid endpoint answered
    pc, upd, ret, seen, \* per process: step, changes, return step, entry read
    attempt, crashes, lost,
    instance            \* which of Instances this behaviour is about

rows == <<durable, held, overwritten>>
data == <<result, history, published, toWrite, toProject, rows, response, answer>>
bounds == <<attempt, crashes, lost, instance>>
vars == <<entry, data, pc, upd, ret, seen, bounds>>

Processes == {"api", "online", "offline", "get"} \cup MetadataWriters
Fields == {"status", "online", "offline", "metadata"}
Entry(s, on, off, meta) ==
    [status |-> s, online |-> on, offline |-> off, metadata |-> meta]
NoEntry == Entry(None, None, None, None)
Claims(e) == [online |-> e.online, offline |-> e.offline, metadata |-> e.metadata]
NoWork == [event |-> None, row |-> NoRow]
Nothing == [f \in {} |-> None]
Answer(s, values, off) == [status |-> s, values |-> values, offline |-> off]

Init ==
    /\ entry = NoEntry /\ result = FALSE /\ history = FALSE
    /\ published = {} /\ toWrite = FALSE /\ toProject = {}
    /\ durable = NoRow /\ held = [w \in MetadataWriters |-> NoWork] /\ overwritten = FALSE
    /\ response = Claims(NoEntry)
    /\ answer = Answer(None, FALSE, None)
    /\ pc = [p \in Processes |-> IF p = "api" THEN "submit" ELSE "poll"]
    /\ upd = [p \in Processes |-> Nothing]
    /\ ret = [p \in Processes |-> "poll"]
    /\ seen = [p \in Processes |-> NoEntry]
    /\ attempt = 0 /\ crashes = 0 /\ lost = 0 /\ instance \in Instances

Goto(p, step) == pc' = [pc EXCEPT ![p] = step]
Locals == <<upd, ret, seen>>

(* The status call is over; what it read is forgotten.                     *)
Return(p, step) ==
    /\ Goto(p, step)
    /\ upd' = [upd EXCEPT ![p] = Nothing]
    /\ ret' = [ret EXCEPT ![p] = "poll"]
    /\ seen' = [seen EXCEPT ![p] = NoEntry]

AfterAccept == IF instance.hybrid THEN "wait" ELSE "end"

publish(e) ==
    /\ published' = published \cup {e}
    /\ toProject' = toProject \cup {e}

-----------------------------------------------------------------------------
(* RequestStatusStore.update(changes), called from process p.              *)
Update(p, changes, next) ==
    /\ Goto(p, "status_get")
    /\ upd' = [upd EXCEPT ![p] = changes]
    /\ ret' = [ret EXCEPT ![p] = next]
    /\ UNCHANGED seen

(* The get.  Without an entry there is nothing to update: the changes do   *)
(* not carry the fields an entry needs.  _mark_metadata_written also stops *)
(* at an entry that says written.                                          *)
StatusGet(p) ==
    /\ pc[p] = "status_get"
    /\ IF \/ entry = NoEntry
          \/ p \in MetadataWriters /\ entry.metadata = "written"
       THEN Return(p, ret[p])
       ELSE /\ Goto(p, "status_put")
            /\ seen' = [seen EXCEPT ![p] = entry]
            /\ UNCHANGED <<upd, ret>>
    /\ UNCHANGED <<entry, data, bounds>>

(* _apply_changes: the changes on the entry that was read.                 *)
apply_changes(existing, changes) ==
    [f \in Fields |-> IF f \in DOMAIN changes THEN changes[f] ELSE existing[f]]

(* The set.                                                                *)
StatusPut(p) ==
    /\ pc[p] = "status_put"
    /\ entry' = apply_changes(seen[p], upd[p])
    /\ Return(p, ret[p])
    /\ UNCHANGED <<data, bounds>>

(* _safe_update swallows a failed get or set.                              *)
StatusLost(p) ==
    /\ pc[p] \in {"status_get", "status_put", "put_accepted"}
    /\ lost < instance.max_lost /\ lost' = lost + 1
    /\ Return(p, IF p = "api" THEN AfterAccept ELSE ret[p])
    /\ UNCHANGED <<entry, data, attempt, crashes, instance>>

-----------------------------------------------------------------------------
(* _submit_feature_request: check, store the reports, publish, and only    *)
(* then the first status entry.                                            *)
Submit ==
    /\ pc["api"] = "submit"
    /\ publish("requested")
    /\ Goto("api", "put_accepted")
    /\ UNCHANGED <<entry, result, history, toWrite, rows, response, answer, Locals, bounds>>

PutAccepted ==
    /\ pc["api"] = "put_accepted"
    /\ entry' = Entry("accepted", None, None, "pending")
    /\ Goto("api", AfterAccept)
    /\ UNCHANGED <<data, Locals, bounds>>

(* compute_feature_request: poll the entry until it is final ...           *)
HybridPoll ==
    LET e == entry IN
    /\ pc["api"] = "wait"
    /\ \/ /\ e.status = "completed" /\ e.online # "deadline_expired"
          /\ seen' = [seen EXCEPT !["api"] = e]
          /\ Goto("api", "read_result") /\ UNCHANGED <<answer, upd, ret>>
       \/ /\ e.status = "completed" /\ e.online = "deadline_expired"
          /\ answer' = Answer("deadline_expired", FALSE, e.offline) /\ Return("api", "end")
       \/ /\ e.status = "failed"
          /\ answer' = Answer("failed", FALSE, None) /\ Return("api", "end")
    /\ UNCHANGED <<entry, result, history, published, toWrite, toProject, rows, response, bounds>>

(* ... _read_request_result: the request's own values, or result_missing,  *)
(* also when the read fails; never what the online store has by then.      *)
HybridReadResult ==
    /\ pc["api"] = "read_result"
    /\ \E read \in {result, FALSE} :
           answer' = Answer("completed", read, seen["api"].offline)
    /\ Return("api", "end")
    /\ UNCHANGED <<entry, result, history, published, toWrite, toProject, rows, response,
                   bounds>>

(* The wait is over: past the deadline or not.                             *)
HybridTimeout ==
    /\ pc["api"] = "wait"
    /\ answer' \in {Answer("pending", FALSE, None), Answer("deadline_passed", FALSE, None)}
    /\ Goto("api", "end")
    /\ UNCHANGED <<entry, result, history, published, toWrite, toProject, rows, response,
                   Locals, bounds>>

(* The online worker: mark the request running, then handle it.            *)
OnlinePoll ==
    /\ pc["online"] = "poll" /\ "requested" \in published
    /\ Update("online", [status |-> "running"], "handle")
    /\ UNCHANGED <<entry, data, bounds>>

(* Computed and served online; the offline-write event is acknowledged.    *)
HandleOk ==
    /\ pc["online"] = "handle" /\ "ok" \in instance.outcomes
    /\ publish("offline_requested") /\ toWrite' = TRUE
    /\ Goto("online", "publish_completed")
    /\ UNCHANGED <<entry, result, history, rows, response, answer, Locals, bounds>>

PublishCompleted ==
    /\ pc["online"] = "publish_completed"
    /\ publish("completed")
    /\ Goto("online", "put_result")
    /\ UNCHANGED <<entry, result, history, toWrite, rows, response, answer, Locals, bounds>>

PutResult ==
    /\ pc["online"] = "put_result"
    /\ result' = TRUE
    /\ Goto("online", "commit_ok")
    /\ UNCHANGED <<entry, history, published, toWrite, toProject, rows,
                   response, answer, Locals, bounds>>

(* Past its deadline: the completion event only.                           *)
HandleExpired ==
    /\ pc["online"] = "handle" /\ "deadline_expired" \in instance.outcomes
    /\ publish("expired")
    /\ Goto("online", "commit_expired")
    /\ UNCHANGED <<entry, result, history, toWrite, rows, response, answer, Locals, bounds>>

(* The commit, then the terminal status.                                   *)
CommitOk ==
    /\ pc["online"] = "commit_ok"
    /\ Update("online", Entry("completed", "written", "pending", "pending"), "end")
    /\ UNCHANGED <<entry, data, bounds>>

CommitExpired ==
    /\ pc["online"] = "commit_expired"
    /\ Update("online", Entry("completed", "deadline_expired", None, "pending"), "end")
    /\ UNCHANGED <<entry, data, bounds>>

(* _retry_or_dlq and _status_after_retry_or_dlq.                           *)
HandleFailed ==
    /\ pc["online"] = "handle" /\ "compute_failed" \in instance.outcomes
    /\ attempt < MaxAttempts /\ attempt' = attempt + 1
    /\ \/ /\ attempt' < MaxAttempts
          /\ Update("online", [status |-> "running"], "poll")
          /\ UNCHANGED <<published, toProject>>
       \/ /\ attempt' = MaxAttempts
          /\ publish("dlq_online")
          /\ Update("online", [status |-> "failed"], "end")
    /\ UNCHANGED <<entry, result, history, toWrite, rows, response, answer, crashes, lost, instance>>

(* The offline writer appends, commits and reports.                        *)
OfflineWrite ==
    /\ pc["offline"] = "poll" /\ toWrite /\ "written" \in instance.appends
    /\ toWrite' = FALSE /\ history' = TRUE
    /\ Update("offline", [status |-> "completed", offline |-> "written"], "poll")
    /\ UNCHANGED <<entry, result, published, toProject, rows, response, answer, bounds>>

(* An unexpected error: the event is republished (the limit on attempts is *)
(* in OfflineWriter).                                                      *)
OfflineRetry ==
    /\ pc["offline"] = "poll" /\ toWrite /\ "retrying" \in instance.appends
    /\ Update("offline", [offline |-> "retrying"], "poll")
    /\ UNCHANGED <<entry, data, bounds>>

(* A poison event: only the offline sub-status moves.                      *)
OfflineDeadLetter ==
    /\ pc["offline"] = "poll" /\ toWrite /\ "failed_dlq" \in instance.appends
    /\ toWrite' = FALSE /\ publish("dlq_offline")
    /\ Update("offline", [offline |-> "failed_dlq"], "poll")
    /\ UNCHANGED <<entry, result, history, rows, response, answer, bounds>>

(* A metadata writer receives an event - one that another writer holds     *)
(* only by a rebalance - and reads the row ...                             *)
SelectRequest(w, e) ==
    /\ w \in instance.writers /\ pc[w] = "poll" /\ held[w] = NoWork
    /\ e \in toProject
    /\ \/ (\A v \in MetadataWriters : held[v].event # e) /\ UNCHANGED crashes
       \/ /\ \E v \in MetadataWriters : held[v].event = e
          /\ crashes < instance.max_crashes /\ crashes' = crashes + 1
    /\ held' = [held EXCEPT ![w] = [event |-> e, row |-> durable]]
    /\ UNCHANGED <<entry, result, history, published, toWrite, toProject, durable, overwritten,
                   response, answer, pc, Locals, attempt, lost, instance>>

(* ... writes the merged row and commits, or dies before the commit, and   *)
(* the event is delivered again.                                           *)
Upsert(w) ==
    /\ held[w] # NoWork
    /\ durable' = merge_request(held[w].row, projection(held[w].event))
    /\ overwritten' = (overwritten \/ held[w].row # durable)
    /\ \/ toProject' = toProject \ {held[w].event} /\ UNCHANGED crashes
       \/ toProject' = toProject /\ crashes < instance.max_crashes /\ crashes' = crashes + 1
    /\ held' = [held EXCEPT ![w] = NoWork]
    /\ UNCHANGED <<entry, result, history, published, toWrite, response, answer, attempt, lost,
                   instance>>

(* Wrong version: every projected event marks the request as written.      *)
MarkAlways(w) ==
    /\ Upsert(w)
    /\ Update(w, [metadata |-> "written"], "poll")

(* In between, a projected completion marks the entry.                     *)
UpsertRequest(w) ==
    /\ Upsert(w)
    /\ IF held[w].event \in {"completed", "expired"}
       THEN Update(w, [metadata |-> "written"], "poll")
       ELSE UNCHANGED <<pc, Locals>>

(* A death or a failed call between the two: nothing is written.           *)
AbandonEvent(w) ==
    /\ held[w] # NoWork
    /\ crashes < instance.max_crashes /\ crashes' = crashes + 1
    /\ held' = [held EXCEPT ![w] = NoWork]
    /\ UNCHANGED <<entry, result, history, published, toWrite, toProject, durable, overwritten,
                   response, answer, pc, Locals, attempt, lost, instance>>

(* GET: read the entry ...                                                 *)
GetStatus ==
    /\ instance.polled /\ pc["get"] = "poll" /\ entry # NoEntry
    /\ seen' = [seen EXCEPT !["get"] = entry]
    /\ Goto("get", "reconcile")
    /\ UNCHANGED <<entry, data, upd, ret, bounds>>

(* Wrong version: the durable row is consulted for a completed entry only. *)
ReconcileCompletedOnly ==
    /\ pc["get"] = "reconcile"
    /\ LET proven == /\ seen["get"].metadata = "pending" /\ durable.status = "completed"
                     /\ seen["get"].status = "completed"
       IN  response' = Claims(IF proven THEN [seen["get"] EXCEPT !.metadata = "written"]
                              ELSE seen["get"])
    /\ Return("get", "poll")
    /\ UNCHANGED <<entry, result, history, published, toWrite, toProject, rows, answer, bounds>>

(* ... _reconcile_metadata_status: a pending entry is compared with the    *)
(* durable row; a completed row proves it written, and the repaired entry  *)
(* is put back (best effort) before the response.                          *)
Reconcile ==
    /\ pc["get"] = "reconcile"
    /\ LET proven == seen["get"].metadata = "pending" /\ durable.status = "completed"
           repaired == [seen["get"] EXCEPT !.metadata = "written"]
       IN  /\ response' = Claims(IF proven THEN repaired ELSE seen["get"])
           /\ IF proven
              THEN /\ upd' = [upd EXCEPT !["get"] = [metadata |-> "written"]]
                   /\ ret' = [ret EXCEPT !["get"] = "poll"]
                   /\ Goto("get", "status_put")
                   /\ UNCHANGED seen
              ELSE Return("get", "poll")
    /\ UNCHANGED <<entry, result, history, published, toWrite, toProject, rows, answer, bounds>>

(* The online worker dies: before its commit the request is delivered      *)
(* again, after it the terminal status is never set.                       *)
CrashOnline ==
    /\ pc["online"] \notin {"poll", "end"}
    /\ crashes < instance.max_crashes /\ crashes' = crashes + 1
    /\ Return("online", IF ret["online"] = "end" THEN "end" ELSE "poll")
    /\ UNCHANGED <<entry, data, attempt, lost, instance>>

-----------------------------------------------------------------------------
OnlineStep ==
    \/ OnlinePoll \/ HandleOk \/ PublishCompleted \/ PutResult \/ HandleExpired
    \/ CommitOk \/ CommitExpired \/ HandleFailed
    \/ StatusGet("online") \/ StatusPut("online")
OfflineStep ==
    \/ OfflineWrite \/ OfflineRetry \/ OfflineDeadLetter
    \/ StatusGet("offline") \/ StatusPut("offline")
MetadataStep ==
    \E w \in MetadataWriters :
        \/ \E e \in Events : SelectRequest(w, e)
        \/ UpsertRequest(w) \/ StatusGet(w) \/ StatusPut(w)
GetStep == GetStatus \/ Reconcile \/ StatusPut("get")

Next ==
    \/ Submit \/ PutAccepted \/ HybridPoll \/ HybridReadResult \/ HybridTimeout
    \/ OnlineStep \/ OfflineStep \/ MetadataStep \/ GetStep
    \/ CrashOnline \/ \E w \in MetadataWriters : AbandonEvent(w)
    \/ \E p \in Processes : StatusLost(p)

Spec == Init /\ [][Next]_vars

(* A client that asks keeps asking; nothing is assumed of the consumers.   *)
FairSpec == Spec /\ WF_vars(GetStep)

-----------------------------------------------------------------------------
Column(f) ==
    CASE f = "status"   -> {None, "accepted", "running", "completed", "failed"}
      [] f = "online"   -> OnlineStatuses
      [] f = "offline"  -> {None, "pending", "written", "retrying", "failed_dlq"}
      [] f = "metadata" -> {None, "pending", "written"}
Entries == [status : Column("status"), online : Column("online"),
            offline : Column("offline"), metadata : Column("metadata")]
Steps == {"submit", "put_accepted", "wait", "read_result", "poll", "handle",
          "publish_completed", "put_result", "commit_ok", "commit_expired",
          "reconcile", "status_get", "status_put", "end"}

TypeOK ==
    /\ entry \in Entries /\ {result, history, toWrite} \subseteq BOOLEAN
    /\ published \subseteq Events \ {"dlq_metadata"} /\ toProject \subseteq published
    /\ durable \in Snapshot /\ overwritten \in BOOLEAN
    /\ held \in [MetadataWriters -> [event : Events \cup {None}, row : Snapshot]]
    /\ pc \in [Processes -> Steps] /\ ret \in [Processes -> {"poll", "handle", "end"}]
    /\ seen \in [Processes -> Entries] /\ DOMAIN upd = Processes
    /\ \A p \in Processes : DOMAIN upd[p] \subseteq Fields
                             /\ \A f \in DOMAIN upd[p] : upd[p][f] \in Column(f)
    /\ instance \in Instances
    /\ attempt \in 0..MaxAttempts
    /\ crashes \in 0..instance.max_crashes /\ lost \in 0..instance.max_lost

(* What the entry and every GET claim of other stores is true, whichever   *)
(* stale copy was put back: online written means that the request's own    *)
(* result is stored, offline written that the rows are in history, and     *)
(* metadata written that the request completed and that its durable row    *)
(* says so - unless an upsert has replaced a row it had not read.  A       *)
(* hybrid answer that the entry decides is what became of the request.     *)
(* (A completed status alone promises no result: the offline writer sets   *)
(* it as well, and may do so before the worker has stored the result.)     *)
ClaimsAreTrue ==
    \A c \in {Claims(entry), response} :
        /\ c.metadata = "written" =>
              /\ {"completed", "expired"} \cap published # {}
              /\ durable.online # None \/ overwritten
        /\ c.online = "written" => result
        /\ c.offline = "written" => history
        /\ answer.offline = "written" => history
        /\ answer.status = "deadline_expired" => "expired" \in published
        /\ answer.status = "failed" => "dlq_online" \in published
        /\ answer.values => result /\ "offline_requested" \in published

(* "a lost operational update can never leave a permanent false pending":  *)
(* once the durable row says completed, a client that keeps asking is told *)
(* written - unless the request never got an entry.                        *)
NoPermanentFalsePending ==
    (instance.polled /\ durable.status = "completed" /\ entry # NoEntry)
        ~> (response.metadata = "written" \/ durable.status # "completed")
=============================================================================
