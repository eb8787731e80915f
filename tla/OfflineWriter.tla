---------------------------- MODULE OfflineWriter ----------------------------
(***************************************************************************)
(* Offline history and the processes that append to it: the offline writer *)
(* consumes the values-bearing events the online worker and the score      *)
(* writer publish, drops the rows history already has, appends the rest in *)
(* one transaction, announces the features other features react to, and    *)
(* commits its offset.  The read that finds the duplicates and the append  *)
(* are two database calls.  A direct compute (batch-inline item, backfill) *)
(* appends to the same history in the same two calls.                      *)
(*                                                                         *)
(* The consumer is the one of OnlineWorker: one partition, poll advances   *)
(* the position, a restart or a rebalance returns it to the commit.        *)
(***************************************************************************)
EXTENDS Naturals, FiniteSets, Sequences, SequencesExt

CONSTANTS
    Events,          \* offline-write events that may be published
    RowsOf,          \* event -> its rows, at most one per feature
    Poison,          \* events that do not deserialize or are invalid
    Broken,          \* events on which the handler raises
    Reactive,        \* features with a reactive dependent
    NoFp, NoAv,      \* "this row carries no fingerprint / trusted availability"
    Rerunners,       \* processes that compute directly
    RerunEvents,     \* events whose rows a direct compute produces again
    Workers,
    MaxCopies,       \* bound on publications of one event (replayed online)
    MaxAttempts, MaxFaults, MaxReruns,
    MaxRestarts      \* bound on crashes and rebalances together

ASSUME OfflineWriterAssumption ==
    /\ Poison \subseteq Events /\ Broken \subseteq Events \ Poison
    /\ RerunEvents \subseteq Events
    /\ \A e \in Events :
          /\ IsFiniteSet(RowsOf[e])
          /\ \A a, b \in RowsOf[e] : a.feature = b.feature => a = b
    /\ Workers # {}
    /\ MaxAttempts \in Nat \ {0}
    /\ {MaxCopies, MaxRestarts, MaxFaults, MaxReruns} \subseteq Nat

VARIABLES
    topic, owner, position, committed,   \* fp.feature-write.offline
    pc, cur, fresh,                      \* worker: step, offset, rows found new
    history,                             \* features_offline, in row_id order
    updates,                             \* <<event, feature>> on fp.feature-updates
    dlq,                                 \* events dead-lettered
    rerun,                               \* rerunner -> rows found new, or Idle
    crashes, rebalances, faults, reruns

broker == <<topic, owner, position, committed>>
local  == <<cur, fresh>>
stores == <<history, updates, dlq>>
bounds == <<crashes, rebalances, faults, reruns>>
vars   == <<broker, pc, local, stores, rerun, bounds>>

Idle == <<>>
Message == [ev : Events, attempt : 0..(MaxAttempts - 1)]
Ev(w) == topic[cur[w]].ev
Goto(w, step) == pc' = [pc EXCEPT ![w] = step]
Return(w) ==
    /\ Goto(w, "poll")
    /\ cur' = [cur EXCEPT ![w] = 0] /\ fresh' = [fresh EXCEPT ![w] = {}]

-----------------------------------------------------------------------------
(* _exists_in_offline: feature, data_ts and value agree, and fingerprint   *)
(* and trusted availability agree unless one side carries none.            *)
SameRow(a, b) ==
    /\ a.feature = b.feature /\ a.data_ts = b.data_ts /\ a.value = b.value
    /\ a.fp = b.fp \/ a.fp = NoFp \/ b.fp = NoFp
    /\ a.av = b.av \/ a.av = NoAv \/ b.av = NoAv

InHistory(r) == \E i \in DOMAIN history : SameRow(history[i], r)

(* Wrong version: every row is taken for new.                              *)
NoDedup(rows) == rows

(* partition_new_results: the rows history does not have yet.              *)
partition_new_results(rows) == {r \in rows : ~InHistory(r)}

(* append_many: one COPY in one transaction.                               *)
append_many(rows) == history' = history \o SetToSeq(rows)

-----------------------------------------------------------------------------
Init ==
    /\ topic = <<>> /\ position = 0 /\ committed = 0
    /\ owner = CHOOSE w \in Workers : TRUE    \* the workers are alike
    /\ pc = [w \in Workers |-> "poll"]
    /\ cur = [w \in Workers |-> 0]
    /\ fresh = [w \in Workers |-> {}]
    /\ history = <<>> /\ updates = {} /\ dlq = {}
    /\ rerun = [d \in Rerunners |-> Idle]
    /\ crashes = 0 /\ rebalances = 0 /\ faults = 0 /\ reruns = 0

(* The online worker publishes an event; after a crash before its commit   *)
(* it publishes the same values again.                                     *)
Publish(e) ==
    /\ Cardinality({i \in DOMAIN topic : topic[i].ev = e /\ topic[i].attempt = 0}) < MaxCopies
    /\ topic' = Append(topic, [ev |-> e, attempt |-> 0])
    /\ UNCHANGED <<owner, position, committed, pc, local, stores, rerun, bounds>>

(* A worker dies and restarts at the committed offset.                     *)
Crash(w) ==
    /\ crashes + rebalances < MaxRestarts
    /\ pc[w] # "poll" \/ (w = owner /\ position # committed)
    /\ crashes' = crashes + 1
    /\ Return(w)
    /\ position' = IF w = owner THEN committed ELSE position
    /\ UNCHANGED <<topic, owner, committed, stores, rerun, rebalances, faults, reruns>>

(* The partition moves; the previous owner does not notice.                *)
Rebalance(w) ==
    /\ crashes + rebalances < MaxRestarts
    /\ w # owner /\ pc[w] = "poll"
    /\ rebalances' = rebalances + 1
    /\ owner' = w /\ position' = committed
    /\ UNCHANGED <<topic, committed, pc, local, stores, rerun, crashes, faults, reruns>>

(* A failed database or broker call: append_failed,                        *)
(* propagation_publish_failed, dlq_publish_failed, retry_publish_failed.   *)
(* process_next returns without a commit.                                  *)
Fault(w) ==
    /\ faults < MaxFaults
    /\ faults' = faults + 1
    /\ Return(w)
    /\ UNCHANGED <<owner, position, committed, rerun, crashes, rebalances, reruns>>

Unfailing == UNCHANGED <<rerun, bounds>>

-----------------------------------------------------------------------------
(* Wrong version: a message that does not deserialize is skipped.          *)
SkipPoison(w) ==
    /\ pc[w] = "poll" /\ w = owner
    /\ position < Len(topic)
    /\ position' = position + 1
    /\ cur' = [cur EXCEPT ![w] = position + 1]
    /\ Goto(w, IF topic[position + 1].ev \in Poison THEN "commit" ELSE "partition")
    /\ Unfailing /\ UNCHANGED <<topic, owner, committed, fresh, stores>>

(* process_next: poll, deserialize, validate.                              *)
Poll(w) ==
    /\ pc[w] = "poll" /\ w = owner
    /\ position < Len(topic)
    /\ position' = position + 1
    /\ cur' = [cur EXCEPT ![w] = position + 1]
    /\ Goto(w, IF topic[position + 1].ev \in Poison THEN "dead_letter" ELSE "partition")
    /\ Unfailing /\ UNCHANGED <<topic, owner, committed, fresh, stores>>

(* partition_new_results: the read.                                        *)
Partition(w) ==
    /\ pc[w] = "partition"
    /\ \/ /\ fresh' = [fresh EXCEPT ![w] = partition_new_results(RowsOf[Ev(w)])]
          /\ Goto(w, "append")
          /\ Unfailing /\ UNCHANGED <<broker, cur, stores>>
       \/ Fault(w) /\ UNCHANGED <<topic, stores>>

(* A failed append persists nothing.                                       *)
AppendRows(w) ==
    /\ pc[w] = "append"
    /\ \/ /\ append_many(fresh[w])
          /\ Goto(w, "emit")
          /\ Unfailing /\ UNCHANGED <<broker, local>>
       \/ Fault(w) /\ UNCHANGED <<topic, history>>
    /\ UNCHANGED <<updates, dlq>>

Announcements(e) ==
    {<<e, r.feature>> : r \in {x \in RowsOf[e] : x.feature \in Reactive}}

(* Wrong version: only rows appended by this delivery are announced.       *)
EmitOnlyNew(w) ==
    /\ pc[w] = "emit"
    /\ \/ /\ updates' = updates \cup
                 {a \in Announcements(Ev(w)) : \E r \in fresh[w] : r.feature = a[2]}
          /\ Goto(w, "commit") /\ Unfailing /\ UNCHANGED <<broker, local>>
       \/ Fault(w) /\ UNCHANGED <<topic, updates>>
    /\ UNCHANGED <<history, dlq>>

(* emit_feature_updates: every result with a reactive dependent, new or    *)
(* not, one publish after the other; a failure leaves some published.      *)
EmitUpdates(w) ==
    /\ pc[w] = "emit" /\ Ev(w) \notin Broken
    /\ \/ /\ updates' = updates \cup Announcements(Ev(w))
          /\ Goto(w, "commit") /\ Unfailing /\ UNCHANGED <<broker, local>>
       \/ /\ \E A \in SUBSET Announcements(Ev(w)) : updates' = updates \cup A
          /\ Fault(w) /\ UNCHANGED topic
    /\ UNCHANGED <<history, dlq>>

(* The handler raises outside its own try blocks: unexpected_error.        *)
Raise(w) ==
    /\ pc[w] = "emit" /\ Ev(w) \in Broken
    /\ Goto(w, "retry_or_dlq")
    /\ Unfailing /\ UNCHANGED <<broker, local, stores>>

(* _retry_or_dlq, as in OnlineWorker.                                      *)
RetryOrDlq(w) ==
    LET failed_attempt == topic[cur[w]].attempt + 1
        retry == Append(topic, [ev |-> Ev(w), attempt |-> failed_attempt])
    IN  /\ pc[w] = "retry_or_dlq"
        /\ \/ /\ failed_attempt < MaxAttempts
              /\ \/ topic' = retry /\ Goto(w, "commit") /\ Unfailing
                    /\ UNCHANGED <<owner, position, committed, local>>
                 \/ topic' \in {topic, retry} /\ Fault(w)
           \/ /\ failed_attempt >= MaxAttempts
              /\ Goto(w, "dead_letter") /\ Unfailing /\ UNCHANGED <<broker, local>>
        /\ UNCHANGED stores

(* _dead_letter: committed once the dead letter is acknowledged.           *)
DeadLetter(w) ==
    /\ pc[w] = "dead_letter"
    /\ \/ dlq' = dlq \cup {Ev(w)} /\ Goto(w, "commit")
          /\ Unfailing /\ UNCHANGED <<broker, local>>
       \/ dlq' \in {dlq, dlq \cup {Ev(w)}} /\ Fault(w) /\ UNCHANGED topic
    /\ UNCHANGED <<history, updates>>

(* The commit, as in OnlineWorker.                                         *)
Commit(w) ==
    /\ pc[w] = "commit"
    /\ \/ committed' = cur[w]
       \/ w # owner /\ committed' = committed
    /\ Return(w)
    /\ Unfailing /\ UNCHANGED <<topic, owner, position, stores>>

(* FeatureStore.compute with skip_duplicate_offline: read, then append.    *)
RerunRead(d, e) ==
    /\ rerun[d] = Idle /\ reruns < MaxReruns
    /\ reruns' = reruns + 1
    /\ rerun' = [rerun EXCEPT ![d] = <<partition_new_results(RowsOf[e])>>]
    /\ UNCHANGED <<broker, pc, local, stores, crashes, rebalances, faults>>

RerunAppend(d) ==
    /\ rerun[d] # Idle
    /\ append_many(rerun[d][1])
    /\ rerun' = [rerun EXCEPT ![d] = Idle]
    /\ UNCHANGED <<broker, pc, local, updates, dlq, bounds>>

-----------------------------------------------------------------------------
Step(w) ==
    \/ Poll(w) \/ Partition(w) \/ AppendRows(w) \/ EmitUpdates(w) \/ Raise(w)
    \/ RetryOrDlq(w) \/ DeadLetter(w) \/ Commit(w)

Next ==
    \/ \E e \in Events : Publish(e)
    \/ \E w \in Workers : Step(w) \/ Crash(w) \/ Rebalance(w)
    \/ \E d \in Rerunners : RerunAppend(d) \/ \E e \in RerunEvents : RerunRead(d, e)

Spec == Init /\ [][Next]_vars

FairSpec == Spec /\ \A w \in Workers : WF_vars(Step(w))

-----------------------------------------------------------------------------
Row == UNION {RowsOf[e] : e \in Events}
RowSet == {S \in SUBSET Row : IsFiniteSet(S)}

TypeOK ==
    /\ topic \in Seq(Message) /\ owner \in Workers
    /\ committed \in 0..Len(topic) /\ position \in 0..Len(topic)
    /\ pc \in [Workers -> {"poll", "partition", "append", "emit", "retry_or_dlq",
                           "dead_letter", "commit"}]
    /\ cur \in [Workers -> 0..Len(topic)]
    /\ \A w \in Workers : pc[w] = "poll" <=> cur[w] = 0
    /\ fresh \in [Workers -> RowSet]
    /\ history \in Seq(Row)
    /\ updates \subseteq UNION {Announcements(e) : e \in Events}
    /\ dlq \subseteq Events
    /\ rerun \in [Rerunners -> {Idle} \cup {<<S>> : S \in RowSet}]
    /\ crashes \in Nat /\ rebalances \in Nat /\ crashes + rebalances <= MaxRestarts
    /\ faults \in 0..MaxFaults /\ reruns \in 0..MaxReruns

ExactRowsOnce ==
    \A i, j \in DOMAIN history : i < j => ~SameRow(history[i], history[j])

(* Replays after crashes and failed calls write no row twice, as long as   *)
(* no other process reads and appends between this writer's read and its   *)
(* append (a partition move, a direct compute of the same rows).           *)
NoDuplicateRows == (rebalances = 0 /\ reruns = 0) => ExactRowsOnce

Durable(e) == \A r \in RowsOf[e] : InHistory(r)

Settled(e) == (Durable(e) /\ Announcements(e) \subseteq updates) \/ e \in dlq

(* Crashes and partition moves lose no event: as long as no call has       *)
(* failed, an event behind the offset is in history with its reactive      *)
(* features announced, or dead-lettered, or a retry of it still lies ahead.*)
CommittedIsSettled ==
    faults = 0 =>
        \A i \in 1..committed :
            LET e == topic[i].ev IN
            \/ Settled(e)
            \/ \E j \in (committed + 1)..Len(topic) : topic[j].ev = e

(* Every published event ends in history, announced, or in the dead-letter *)
(* queue, unless a call fails.                                             *)
EveryEventSettles ==
    (topic # <<>>) ~>
        ((\A i \in DOMAIN topic : Settled(topic[i].ev)) \/ faults > 0)
=============================================================================
