---------------------------- MODULE OnlineWorker ----------------------------
(***************************************************************************)
(* The online feature worker: process_next polls one FeatureComputeRequested *)
(* message, the handler checks the deadline, computes, writes Valkey and   *)
(* publishes the offline-write and completion events, the runner stores    *)
(* the request-scoped result and commits the offset.  Event-deterministic  *)
(* failures are republished with an attempt header, then dead-lettered;    *)
(* infrastructure failures return without a commit.                        *)
(*                                                                         *)
(* One partition of the topic and the workers of its consumer group.  The  *)
(* partition's owner reads at `position`; poll advances it, and nothing in *)
(* the code ever moves it back except a restart or a rebalance, which      *)
(* starts again at the committed offset.  A worker that lost the partition *)
(* while it was handling a message carries on to its commit, which the     *)
(* broker may or may not refuse.  Request status: see RequestStatus.       *)
(***************************************************************************)
EXTENDS WriteGuard, Sequences

CONSTANTS
    Requests,       \* request ids; all for one entity and view
    Poison,         \* requests whose message does not deserialize
    Broken,         \* requests the compute step rejects every time
    Features,       \* the view's features
    DataTs,         \* request -> freshness of the report it was sent with
    Workers,
    MaxAttempts,    \* kafka_max_attempts
    MaxCrashes,     \* bound on crashes
    MaxRebalances,  \* bound on partition moves
    MaxFaults       \* bound on failed store or broker calls

ASSUME OnlineWorkerAssumption ==
    /\ Requests \subseteq STRING
    /\ Poison \subseteq Requests /\ Broken \subseteq Requests
    /\ DataTs \in [Requests -> Nat]
    /\ Absent \notin ResultType
    /\ Workers # {}
    /\ MaxAttempts \in Nat \ {0}
    /\ MaxCrashes \in Nat /\ MaxRebalances \in Nat /\ MaxFaults \in Nat

VARIABLES
    topic,      \* fp.feature-compute.online: sequence of messages
    owner,      \* worker the partition is assigned to
    position,   \* messages the owner has polled
    committed,  \* committed offset
    pc, cur, outcomes,        \* per worker: step, message offset, D9 outcomes
    online,                   \* Valkey: feature -> record or Absent
    offline,                  \* requests with an offline-write event
    completed,                \* <<request, online_write_status>> events
    results,                  \* requests with a stored result
    dlq,                      \* requests dead-lettered
    expired,                  \* requests whose expires_at has passed
    crashes, rebalances, faults

downstream == <<online, offline, completed, results, dlq>>
env == <<expired, crashes, rebalances, faults>>
broker == <<topic, owner, position, committed>>
vars == <<broker, pc, cur, outcomes, downstream, env>>

Message == [req : Requests, attempt : 0..(MaxAttempts - 1)]
NoOutcomes == [f \in Features |-> "none"]

(* The result a request computes for any of its features: deterministic in *)
(* its reports, whose content hashes make the fingerprint.                 *)
ResultOf(r) ==
    [data_ts |-> DataTs[r], max_input_data_ts |-> NoTs, input_fingerprint |-> r,
     available_at |-> NoAv, availability_source |-> "ingestion_time"]

Init ==
    /\ topic = <<>> /\ position = 0 /\ committed = 0
    /\ owner = CHOOSE w \in Workers : TRUE    \* the workers are alike
    /\ pc = [w \in Workers |-> "poll"]
    /\ cur = [w \in Workers |-> 0]
    /\ outcomes = [w \in Workers |-> NoOutcomes]
    /\ online = [f \in Features |-> Absent]
    /\ offline = {} /\ completed = {} /\ results = {} /\ dlq = {}
    /\ expired = {} /\ crashes = 0 /\ rebalances = 0 /\ faults = 0

Req(w) == topic[cur[w]].req
Attempt(w) == topic[cur[w]].attempt
Goto(w, step) == pc' = [pc EXCEPT ![w] = step]
Local == <<cur, outcomes>>
Return(w) ==
    /\ Goto(w, "poll")
    /\ cur' = [cur EXCEPT ![w] = 0] /\ outcomes' = [outcomes EXCEPT ![w] = NoOutcomes]

-----------------------------------------------------------------------------
(* The environment.                                                        *)

(* _submit_feature_request: the request is checked and planned, its        *)
(* reports are stored, and its event is published.                         *)
Submit(r) ==
    /\ \A i \in DOMAIN topic : topic[i].req # r
    /\ topic' = Append(topic, [req |-> r, attempt |-> 0])
    /\ UNCHANGED <<owner, position, committed, pc, Local, downstream, env>>

(* The request's absolute deadline passes.                                 *)
Expire(r) ==
    /\ r \notin expired
    /\ expired' = expired \cup {r}
    /\ UNCHANGED <<broker, pc, Local, downstream, crashes, rebalances, faults>>

(* A worker dies and is restarted.  The owner resumes at the committed     *)
(* offset.  A commit call that raises ends process_next and the process.   *)
Crash(w) ==
    /\ crashes < MaxCrashes
    /\ pc[w] # "poll" \/ (w = owner /\ position # committed)
    /\ crashes' = crashes + 1
    /\ Return(w)
    /\ position' = IF w = owner THEN committed ELSE position
    /\ UNCHANGED <<topic, owner, committed, downstream, expired, rebalances, faults>>

(* The group moves the partition to a worker that is polling; the previous *)
(* owner may be in the middle of a message and does not notice.            *)
Rebalance(w) ==
    /\ rebalances < MaxRebalances
    /\ w # owner /\ pc[w] = "poll"
    /\ rebalances' = rebalances + 1
    /\ owner' = w
    /\ position' = committed
    /\ UNCHANGED <<topic, committed, pc, Local, downstream, expired, crashes, faults>>

-----------------------------------------------------------------------------
(* Infrastructure calls that may fail: the handler returns                 *)
(* online_write_failed, publish_failed, result_store_failed,               *)
(* retry_publish_failed or dlq_publish_failed, and process_next returns    *)
(* without a commit.  A publish that raises (flush timeout) may still have *)
(* been delivered.                                                         *)
Fault(w) ==
    /\ faults < MaxFaults
    /\ faults' = faults + 1
    /\ Return(w)
    /\ UNCHANGED <<owner, position, committed, expired, crashes, rebalances>>

NoFault == UNCHANGED env

-----------------------------------------------------------------------------
(* process_next: poll one message; a message that does not deserialize     *)
(* goes straight to the dead-letter queue.                                 *)
Poll(w) ==
    /\ pc[w] = "poll" /\ w = owner
    /\ position < Len(topic)
    /\ position' = position + 1
    /\ cur' = [cur EXCEPT ![w] = position + 1]
    /\ outcomes' = [outcomes EXCEPT ![w] = NoOutcomes]
    /\ Goto(w, IF topic[position + 1].req \in Poison THEN "dead_letter" ELSE "deadline")
    /\ UNCHANGED <<topic, owner, committed, downstream, env>>

(* Wrong version: a request already announced as expired is not expired    *)
(* again when its message is redelivered.                                  *)
DeadlineOnce(w) ==
    /\ pc[w] = "deadline"
    /\ Goto(w, IF /\ Req(w) \in expired
                  /\ <<Req(w), "deadline_expired">> \notin completed
               THEN "publish_expired" ELSE "compute")
    /\ UNCHANGED <<broker, Local, downstream, env>>

(* The deadline is compared with the clock once, before anything else.     *)
CheckDeadline(w) ==
    /\ pc[w] = "deadline"
    /\ Goto(w, IF Req(w) \in expired THEN "publish_expired" ELSE "compute")
    /\ UNCHANGED <<broker, Local, downstream, env>>

(* publish(FEATURE_COMPUTE_COMPLETED) with deadline_expired.               *)
PublishExpired(w) ==
    LET done == completed \cup {<<Req(w), "deadline_expired">>}
    IN  /\ pc[w] = "publish_expired"
        /\ \/ completed' = done /\ Goto(w, "commit")
              /\ NoFault /\ UNCHANGED <<broker, Local>>
           \/ completed' \in {completed, done} /\ Fault(w) /\ UNCHANGED topic
        /\ UNCHANGED <<online, offline, results, dlq>>

(* Planner, loader and UDFs: no store is written.  A rejection by the      *)
(* planner or a UDF is deterministic in the event; a failing payload read  *)
(* is not, but is counted as an attempt all the same.                      *)
Compute(w) ==
    /\ pc[w] = "compute"
    /\ \/ /\ Goto(w, IF Req(w) \in Broken THEN "retry_or_dlq" ELSE "write_online")
          /\ NoFault
       \/ /\ faults < MaxFaults /\ faults' = faults + 1
          /\ Goto(w, "retry_or_dlq")
          /\ UNCHANGED <<expired, crashes, rebalances>>
    /\ UNCHANGED <<broker, Local, downstream>>

(* write_many, one guarded write at a time.                                *)
WriteOnline(w, f) ==
    LET r == ResultOf(Req(w))
        d == D9_SCRIPT(r, online[f])
    IN  /\ pc[w] = "write_online"
        /\ outcomes[w][f] = "none"
        /\ \/ /\ online' = IF d \in WRITE_OUTCOMES
                           THEN [online EXCEPT ![f] = r] ELSE online
              /\ outcomes' = [outcomes EXCEPT ![w][f] = d]
              /\ Goto(w, IF \E g \in Features \ {f} : outcomes[w][g] = "none"
                         THEN "write_online" ELSE "publish_offline")
              /\ NoFault /\ UNCHANGED <<broker, cur>>
           \/ Fault(w) /\ UNCHANGED <<topic, online>>
        /\ UNCHANGED <<offline, completed, results, dlq>>

(* Wrong version: nothing changed online, so nothing is sent offline.      *)
SkipOfflineOnNoop(w) ==
    /\ pc[w] = "publish_offline"
    /\ offline' = IF \A f \in Features : outcomes[w][f] = "noop"
                  THEN offline ELSE offline \cup {Req(w)}
    /\ Goto(w, "publish_completed")
    /\ NoFault /\ UNCHANGED <<broker, Local, online, completed, results, dlq>>

(* publish(FEATURE_WRITE_OFFLINE): the values for the offline writer.      *)
PublishOffline(w) ==
    LET done == offline \cup {Req(w)}
    IN  /\ pc[w] = "publish_offline"
        /\ \/ offline' = done /\ Goto(w, "publish_completed")
              /\ NoFault /\ UNCHANGED <<broker, Local>>
           \/ offline' \in {offline, done} /\ Fault(w) /\ UNCHANGED topic
        /\ UNCHANGED <<online, completed, results, dlq>>

(* publish(FEATURE_COMPUTE_COMPLETED) with the aggregate of the outcomes.  *)
PublishCompleted(w) ==
    LET st == aggregate_online_status({outcomes[w][f] : f \in Features})
        done == completed \cup {<<Req(w), st>>}
    IN  /\ pc[w] = "publish_completed"
        /\ \/ completed' = done /\ Goto(w, "put_result")
              /\ NoFault /\ UNCHANGED <<broker, Local>>
           \/ completed' \in {completed, done} /\ Fault(w) /\ UNCHANGED topic
        /\ UNCHANGED <<online, offline, results, dlq>>

(* results.put before the commit and before status=completed.              *)
PutResult(w) ==
    /\ pc[w] = "put_result"
    /\ \/ results' = results \cup {Req(w)} /\ Goto(w, "commit")
          /\ NoFault /\ UNCHANGED <<broker, Local>>
       \/ Fault(w) /\ UNCHANGED <<topic, results>>
    /\ UNCHANGED <<online, offline, completed, dlq>>

(* Wrong version: a message at its limit is committed, not dead-lettered.  *)
DropAtLimit(w) ==
    /\ pc[w] = "retry_or_dlq"
    /\ topic' = IF Attempt(w) + 1 < MaxAttempts
                THEN Append(topic, [req |-> Req(w), attempt |-> Attempt(w) + 1])
                ELSE topic
    /\ Goto(w, "commit") /\ NoFault
    /\ UNCHANGED <<owner, position, committed, Local, downstream>>

(* _retry_or_dlq: republish to the source topic with the next attempt      *)
(* number, or leave it to the dead-letter queue at max_attempts.           *)
RetryOrDlq(w) ==
    LET failed_attempt == Attempt(w) + 1
        retry == Append(topic, [req |-> Req(w), attempt |-> failed_attempt])
    IN  /\ pc[w] = "retry_or_dlq"
        /\ \/ /\ failed_attempt < MaxAttempts
              /\ \/ topic' = retry /\ Goto(w, "commit") /\ NoFault
                    /\ UNCHANGED <<owner, position, committed, Local>>
                 \/ topic' \in {topic, retry} /\ Fault(w)
           \/ /\ failed_attempt >= MaxAttempts
              /\ Goto(w, "dead_letter") /\ NoFault /\ UNCHANGED <<broker, Local>>
        /\ UNCHANGED downstream

(* route_to_dlq; the source message is committed once it is acknowledged.  *)
DeadLetter(w) ==
    LET done == dlq \cup {Req(w)}
    IN  /\ pc[w] = "dead_letter"
        /\ \/ dlq' = done /\ Goto(w, "commit") /\ NoFault /\ UNCHANGED <<broker, Local>>
           \/ dlq' \in {dlq, done} /\ Fault(w) /\ UNCHANGED topic
        /\ UNCHANGED <<online, offline, completed, results>>

(* Wrong version: commits the position instead of the message.             *)
CommitPosition(w) ==
    /\ pc[w] = "commit"
    /\ committed' = position + (IF position < Len(topic) THEN 1 ELSE 0)
    /\ Return(w)
    /\ UNCHANGED <<topic, owner, position, downstream, env>>

(* consumer.commit(message): synchronous, sets the group's offset behind   *)
(* this message, and with it behind every message before it.  The broker   *)
(* may refuse a worker that lost the partition (commit raises and ends the *)
(* process), or accept its commit when it is a member of the group again.  *)
Commit(w) ==
    /\ pc[w] = "commit"
    /\ \/ committed' = cur[w]
       \/ w # owner /\ committed' = committed
    /\ Return(w)
    /\ UNCHANGED <<topic, owner, position, downstream, env>>

-----------------------------------------------------------------------------
Step(w) ==
    \/ Poll(w) \/ CheckDeadline(w) \/ PublishExpired(w) \/ Compute(w)
    \/ \E f \in Features : WriteOnline(w, f)
    \/ PublishOffline(w) \/ PublishCompleted(w) \/ PutResult(w)
    \/ RetryOrDlq(w) \/ DeadLetter(w) \/ Commit(w)

Next ==
    \/ \E r \in Requests : Submit(r) \/ Expire(r)
    \/ \E w \in Workers : Step(w) \/ Crash(w) \/ Rebalance(w)

Spec == Init /\ [][Next]_vars

(* Each worker process keeps running: a step that stays possible is taken. *)
FairSpec == Spec /\ \A w \in Workers : WF_vars(Step(w))

-----------------------------------------------------------------------------
TypeOK ==
    /\ topic \in Seq(Message)
    /\ owner \in Workers
    /\ committed \in 0..Len(topic) /\ position \in 0..Len(topic)
    /\ pc \in [Workers -> {"poll", "deadline", "publish_expired", "compute",
                           "write_online", "publish_offline", "publish_completed",
                           "put_result", "retry_or_dlq", "dead_letter", "commit"}]
    /\ cur \in [Workers -> 0..Len(topic)]
    /\ \A w \in Workers : pc[w] = "poll" <=> cur[w] = 0
    /\ outcomes \in [Workers -> [Features -> Outcomes \cup {"none"}]]
    /\ online \in [Features -> {ResultOf(r) : r \in Requests} \cup {Absent}]
    /\ offline \subseteq Requests
    /\ completed \subseteq Requests \X (Outcomes \cup {"deadline_expired"})
    /\ results \subseteq Requests /\ dlq \subseteq Requests /\ expired \subseteq Requests
    /\ crashes \in 0..MaxCrashes /\ rebalances \in 0..MaxRebalances
    /\ faults \in 0..MaxFaults

(* A request has reached one of its terminal outcomes.                     *)
Settled(r) ==
    r \in results \/ r \in dlq \/ <<r, "deadline_expired">> \in completed

(* The request of every message behind the group's offset is settled, or a *)
(* retry of it still lies ahead.                                           *)
Accounted ==
    \A i \in 1..committed :
        \/ Settled(topic[i].req)
        \/ \E j \in (committed + 1)..Len(topic) : topic[j].req = topic[i].req

(* Crashes and partition moves lose no request: as long as no call of the  *)
(* handler has failed, whatever the offset has passed is accounted for.    *)
NoSilentLoss == faults = 0 => Accounted

(* "an uncommitted event is re-polled automatically": the same when a call *)
(* has failed and process_next has returned without a commit.              *)
UncommittedIsReplayed == Accounted

(* A stored result - the condition for status=completed - implies that the *)
(* offline write is durably enqueued, that a completion was published, and *)
(* that every feature is served at least as fresh as the request's value.  *)
ResultImpliesDownstream ==
    \A r \in results :
        /\ r \in offline
        /\ \E s \in Outcomes : <<r, s>> \in completed
        /\ \A f \in Features :
              online[f] # Absent /\ TupleLeq(guard_tuple(ResultOf(r)), guard_tuple(online[f]))

(* "the outcome is terminal ... the request will never complete later":    *)
(* after its deadline_expired completion a request leaves no new trace, as *)
(* long as the partition has not moved under a worker in mid-request.      *)
ExpiredIsFinal ==
    [][\A r \in Requests : (rebalances = 0 /\ <<r, "deadline_expired">> \in completed) =>
          /\ r \in offline' => r \in offline
          /\ r \in results' => r \in results
          /\ \A s \in Outcomes : <<r, s>> \in completed' => <<r, s>> \in completed]_vars

(* Every published request is eventually settled, unless a call fails.     *)
EveryRequestSettles ==
    (topic # <<>>) ~> ((\A i \in DOMAIN topic : Settled(topic[i].req)) \/ faults > 0)
=============================================================================
