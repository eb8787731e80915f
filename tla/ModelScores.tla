----------------------------- MODULE ModelScores -----------------------------
(***************************************************************************)
(* Scores that a model computed elsewhere.  The API checks a write against *)
(* the registry and publishes it, every time it is called: the idempotency *)
(* key is an id and nothing remembers it.  The model score writer takes    *)
(* one message at a time: it checks it again, writes Valkey under the D9   *)
(* guard, publishes the offline-write event and commits.  There is no      *)
(* retry header: a failing call returns without a commit, and the loop     *)
(* polls the next message.                                                 *)
(***************************************************************************)
EXTENDS WriteGuard, Sequences

CONSTANTS
    Writes,         \* score writes, by idempotency key; all for one entity
    Scores,         \* write -> (feature -> data_ts)
    Unusable,       \* those that do not deserialize in the writer, or that its
                    \* registry rejects (drift)
    write_online, write_offline,  \* the API accepts none that is in neither
    MaxPosts, MaxInterruptions

Features == UNION {DOMAIN Scores[s] : s \in Writes}

(* What is materialized carries neither inputs nor availability, so the    *)
(* guard comes down to data_ts.                                            *)
Record ==
    [data_ts : Nat, max_input_data_ts : {NoTs}, input_fingerprint : {NoFp},
     available_at : {NoAv}, availability_source : {"none"}]
ResultOf(s, f) ==
    [data_ts |-> Scores[s][f], max_input_data_ts |-> NoTs, input_fingerprint |-> NoFp,
     available_at |-> NoAv, availability_source |-> "none"]

(* A write has at least one score; "no record" is not a record.            *)
ScoresAssumption ==
    /\ \A s \in Writes : Scores[s] \in [DOMAIN Scores[s] -> Nat] /\ DOMAIN Scores[s] # {}
    /\ Absent \notin Record
    /\ MaxPosts \in Nat /\ MaxInterruptions \in Nat

VARIABLES
    topic, position, committed,  \* fp.model-score.write, one partition
    pc, pending,                 \* step; features write_many has still to write
    online,                      \* Valkey
    offline, dlq,                \* offline-write events, dead letters
    faults, crashes

vars == <<topic, position, committed, pc, pending, online, offline, dlq, faults, crashes>>

Init ==
    /\ topic = <<>> /\ position = 0 /\ committed = 0
    /\ pc = "poll" /\ pending = {}
    /\ online = [f \in Features |-> Absent] /\ offline = {} /\ dlq = {}
    /\ faults = 0 /\ crashes = 0

Cur == topic[position]
Return == pc' = "poll" /\ pending' = {}

(* write_model_scores: validated and published.                            *)
write_model_scores(s) ==
    /\ Len(topic) < MaxPosts
    /\ topic' = Append(topic, s)
    /\ UNCHANGED <<position, committed, pc, pending, online, offline, dlq, faults, crashes>>

(* A call that fails, perhaps after delivery: no commit.                   *)
Fault ==
    /\ faults + crashes < MaxInterruptions /\ faults' = faults + 1
    /\ Return

AfterOnline(s) == IF s \in write_offline THEN "publish" ELSE "commit"

(* process_next and the checks of handle_model_score_write.                *)
Poll ==
    LET s == topic[position + 1] IN
    /\ pc = "poll" /\ position < Len(topic)
    /\ position' = position + 1
    /\ \/ s \in Unusable /\ pc' = "dead_letter" /\ pending' = {}
       \/ /\ s \notin Unusable
          /\ pending' = IF s \in write_online THEN DOMAIN Scores[s] ELSE {}
          /\ pc' = IF s \in write_online THEN "write_online" ELSE AfterOnline(s)
    /\ UNCHANGED <<topic, committed, online, offline, dlq, faults, crashes>>

(* write_many, one guarded write after the other.                          *)
WriteOnline(f) ==
    LET r == ResultOf(Cur, f) IN
    /\ pc = "write_online" /\ f \in pending
    /\ \/ /\ online' = IF D9_SCRIPT(r, online[f]) \in WRITE_OUTCOMES
                       THEN [online EXCEPT ![f] = r] ELSE online
          /\ pending' = pending \ {f}
          /\ pc' = IF pending = {f} THEN AfterOnline(Cur) ELSE pc
          /\ UNCHANGED faults
       \/ Fault /\ UNCHANGED online
    /\ UNCHANGED <<topic, position, committed, offline, dlq, crashes>>

Covered(s) == \A f \in DOMAIN Scores[s] : online[f] # Absent /\ online[f].data_ts >= Scores[s][f]

(* Wrong version: only what is the latest score goes to history.           *)
PublishLatestOnly ==
    /\ pc = "publish" /\ pc' = "commit"
    /\ offline' = IF \/ Cur \notin write_online
                     \/ \E f \in DOMAIN Scores[Cur] : online[f] = ResultOf(Cur, f)
                  THEN offline \cup {Cur} ELSE offline
    /\ UNCHANGED <<topic, position, committed, pending, online, dlq, faults, crashes>>

(* The offline-write event, whatever the guard has decided.                *)
PublishOffline ==
    /\ pc = "publish"
    /\ \/ offline' = offline \cup {Cur} /\ pc' = "commit" /\ UNCHANGED <<pending, faults>>
       \/ offline' \in {offline, offline \cup {Cur}} /\ Fault
    /\ UNCHANGED <<topic, position, committed, online, dlq, crashes>>

(* _dead_letter: commit if the publish is acknowledged.                    *)
DeadLetter ==
    /\ pc = "dead_letter"
    /\ \/ dlq' = dlq \cup {Cur} /\ pc' = "commit" /\ UNCHANGED <<pending, faults>>
       \/ dlq' \in {dlq, dlq \cup {Cur}} /\ Fault
    /\ UNCHANGED <<topic, position, committed, online, offline, crashes>>

Commit ==
    /\ pc = "commit"
    /\ committed' = position /\ Return
    /\ UNCHANGED <<topic, position, online, offline, dlq, faults, crashes>>

(* The process dies, or its commit raises; it resumes at the commit.       *)
Crash ==
    /\ faults + crashes < MaxInterruptions /\ crashes' = crashes + 1
    /\ position # committed /\ position' = committed /\ Return
    /\ UNCHANGED <<topic, committed, online, offline, dlq, faults>>

Next ==
    \/ \E s \in Writes : write_model_scores(s)
    \/ Poll \/ \E f \in Features : WriteOnline(f)
    \/ PublishOffline \/ DeadLetter \/ Commit \/ Crash

Spec == Init /\ [][Next]_vars

-----------------------------------------------------------------------------
TypeOK ==
    /\ topic \in Seq(Writes)
    /\ position \in 0..Len(topic) /\ committed \in 0..position
    /\ pc \in {"poll", "write_online", "publish", "dead_letter", "commit"}
    /\ pc # "poll" => position # 0
    /\ pending \subseteq IF pc = "write_online" THEN DOMAIN Scores[Cur] ELSE {}
    /\ online \in [Features -> Record \cup {Absent}]
    /\ offline \subseteq Writes /\ dlq \subseteq Writes
    /\ faults \in Nat /\ crashes \in Nat /\ faults + crashes <= MaxInterruptions

Settled(s) ==
    \/ s \in Unusable /\ s \in dlq
    \/ /\ s \in write_online => Covered(s)
       /\ s \in write_offline => s \in offline

(* A score write behind the committed offset is settled: what is served is *)
(* at least as fresh, its history is on its way although it may not be the *)
(* latest, or it is in the dead-letter queue; however often the writer     *)
(* dies or the client repeats itself.  A failing call voids it, as the     *)
(* commit of the next message covers the one that was given up.            *)
ScoresSettled == faults = 0 => \A o \in 1..committed : Settled(topic[o])
=============================================================================
