------------------------- MODULE OfflineWriterProofs -------------------------
(***************************************************************************)
(* What the offline writer guarantees for any set of events, rows, workers *)
(* and direct computes, and any number of crashes, partition moves, failed *)
(* calls and retries.                                                      *)
(***************************************************************************)
EXTENDS OfflineWriter, FiniteSetTheorems, SequenceTheorems, TLAPS

-----------------------------------------------------------------------------
(* Facts about the model's operators.                                      *)

(* A finite set written as a sequence: every element once.                 *)
LEMMA SetToSeqFacts ==
    ASSUME NEW T, NEW S \in SUBSET T, IsFiniteSet(S)
    PROVE  /\ SetToSeq(S) \in Seq(T)
           /\ \A i \in 1..Len(SetToSeq(S)) : SetToSeq(S)[i] \in S
           /\ \A x \in S : \E i \in 1..Len(SetToSeq(S)) : SetToSeq(S)[i] = x
           /\ \A i, j \in 1..Len(SetToSeq(S)) : SetToSeq(S)[i] = SetToSeq(S)[j] => i = j
  <1> DEFINE n == Cardinality(S)
             q == SetToSeq(S)
  <1>1. n \in Nat /\ ExistsBijection(1..n, S)
    BY FS_CardinalityType
  <1>2. \E f \in [1..n -> S] : IsInjective(f)
    BY <1>1 DEF ExistsBijection, Bijection, Injection
  <1>3. q \in [1..n -> S] /\ IsInjective(q)
    BY <1>2 DEF SetToSeq
  <1>4. q \in Seq(T) /\ Len(q) = n
    BY <1>1, <1>3
  <1>5. q \in Injection(1..n, S) /\ Cardinality(1..n) = Cardinality(S)
    BY <1>1, <1>3, FS_Interval DEF Injection
  <1>6. q \in Surjection(1..n, S)
    BY <1>5, FS_Injection
  <1>7. \A x \in S : \E i \in 1..n : q[i] = x
    BY <1>6 DEF Surjection
  <1> QED
    BY <1>3, <1>4, <1>7 DEF IsInjective

(* append_many keeps what history holds, in its place, and adds each row   *)
(* it is given once.                                                       *)
LEMMA Appended ==
    ASSUME history \in Seq(Row), NEW S \in RowSet, append_many(S)
    PROVE  /\ history' \in Seq(Row)
           /\ Len(history') >= Len(history)
           /\ \A i \in 1..Len(history) : history'[i] = history[i]
           /\ \A i \in (Len(history) + 1)..Len(history') : history'[i] \in S
           /\ \A i, j \in (Len(history) + 1)..Len(history') : history'[i] = history'[j] => i = j
           /\ \A x \in S : \E i \in 1..Len(history') : history'[i] = x
  <1> DEFINE q == SetToSeq(S)
             n == Len(history)
  <1>1. /\ S \in SUBSET Row /\ IsFiniteSet(S)
    BY DEF RowSet
  <1>2. /\ q \in Seq(Row)
        /\ \A i \in 1..Len(q) : q[i] \in S
        /\ \A x \in S : \E i \in 1..Len(q) : q[i] = x
        /\ \A i, j \in 1..Len(q) : q[i] = q[j] => i = j
    BY <1>1, SetToSeqFacts
  <1>3. history' = history \o q
    BY DEF append_many
  <1> HIDE DEF q
  <1>4. /\ history' \in Seq(Row) /\ Len(history') = n + Len(q)
        /\ \A i \in 1..n + Len(q) : history'[i] = IF i <= n THEN history[i] ELSE q[i - n]
    BY <1>2, <1>3, ConcatProperties
  <1>5. n \in Nat /\ Len(q) \in Nat
    BY <1>2
  <1>6. \A i \in (n + 1)..(n + Len(q)) : i - n \in 1..Len(q) /\ history'[i] = q[i - n]
    BY <1>4, <1>5
  <1>7. ASSUME NEW x \in S PROVE \E i \in 1..(n + Len(q)) : history'[i] = x
    <2>1. PICK i \in 1..Len(q) : q[i] = x
      BY <1>2
    <2>2. n + i \in (n + 1)..(n + Len(q)) /\ (n + i) - n = i
      BY <1>5
    <2>3. history'[n + i] = x
      BY <1>6, <2>1, <2>2
    <2> QED
      BY <1>5, <2>2, <2>3
  <1>8. ASSUME NEW i \in (n + 1)..(n + Len(q)), NEW j \in (n + 1)..(n + Len(q)),
               history'[i] = history'[j]
        PROVE  i = j
    <2>1. i - n = j - n
      BY <1>2, <1>6, <1>8
    <2> QED
      BY <1>5, <2>1
  <1>9. Len(history') >= n /\ \A i \in 1..n : history'[i] = history[i]
    BY <1>4, <1>5
  <1>10. \A i \in (n + 1)..(n + Len(q)) : history'[i] \in S
    BY <1>2, <1>6
  <1>11. history' \in Seq(Row) /\ Len(history') = n + Len(q)
    BY <1>4
  <1> QED
    BY <1>7, <1>8, <1>9, <1>10, <1>11

(* What partition_new_results returns can be appended.                     *)
LEMMA PartitionType ==
    ASSUME NEW e \in Events
    PROVE  partition_new_results(RowsOf[e]) \in RowSet
  <1>1. IsFiniteSet(RowsOf[e]) /\ RowsOf[e] \subseteq Row
    BY OfflineWriterAssumption DEF Row
  <1>2. partition_new_results(RowsOf[e]) \in SUBSET RowsOf[e]
    BY DEF partition_new_results
  <1> QED
    BY <1>1, <1>2, FS_Subset DEF RowSet

(* A worker that is not polling holds a message of the topic.              *)
LEMMA Handling ==
    ASSUME TypeOK, NEW w \in Workers, pc[w] # "poll"
    PROVE  /\ cur[w] \in 1..Len(topic)
           /\ Ev(w) \in Events
           /\ topic[cur[w]].attempt \in 0..(MaxAttempts - 1)
  <1>1. cur[w] \in 1..Len(topic)
    BY DEF TypeOK
  <1>2. topic[cur[w]] \in Message
    BY <1>1 DEF TypeOK
  <1> QED
    BY <1>1, <1>2 DEF Ev, Message

-----------------------------------------------------------------------------
(* Types.                                                                  *)

StoresOK ==
    /\ history \in Seq(Row)
    /\ updates \subseteq UNION {Announcements(e) : e \in Events}
    /\ dlq \subseteq Events

(* Returning from process_next leaves a well-typed idle worker.            *)
LEMMA ReturnType ==
    ASSUME TypeOK, NEW w \in Workers, Return(w),
           topic' \in Seq(Message), Len(topic') >= Len(topic), owner' = owner,
           position' \in 0..Len(topic'), committed' \in 0..Len(topic'),
           StoresOK', UNCHANGED <<rerun, rebalances, reruns>>,
           crashes' \in Nat, crashes' + rebalances <= MaxRestarts, faults' \in 0..MaxFaults
    PROVE  TypeOK'
  <1>1. /\ pc' = [pc EXCEPT ![w] = "poll"] /\ cur' = [cur EXCEPT ![w] = 0]
        /\ fresh' = [fresh EXCEPT ![w] = {}]
    BY DEF Return, Goto
  <1>2. Len(topic) \in Nat /\ Len(topic') \in Nat /\ {} \in RowSet
    BY FS_EmptySet DEF TypeOK, RowSet
  <1>t. /\ cur \in [Workers -> 0..Len(topic)] /\ DOMAIN pc = Workers
        /\ \A v \in Workers : pc[v] = "poll" <=> cur[v] = 0
    BY DEF TypeOK
  <1>3. /\ cur' \in [Workers -> 0..Len(topic')]
        /\ \A v \in Workers : pc'[v] = "poll" <=> cur'[v] = 0
    BY <1>1, <1>2, <1>t
  <1>4. fresh' \in [Workers -> RowSet]
    BY <1>1, <1>2 DEF TypeOK
  <1>5. rerun' \in [Rerunners -> {Idle} \cup {<<S>> : S \in RowSet}]
    BY DEF TypeOK
  <1> QED
    BY <1>1, <1>3, <1>4, <1>5 DEF TypeOK, StoresOK

(* A failed call is such a return.                                         *)
LEMMA FaultType ==
    ASSUME TypeOK, NEW w \in Workers, Fault(w),
           topic' \in Seq(Message), Len(topic') >= Len(topic), StoresOK'
    PROVE  TypeOK'
  <1>1. /\ Return(w)
        /\ UNCHANGED <<owner, position, committed, rerun, crashes, rebalances, reruns>>
    BY DEF Fault
  <1>2. faults' \in 0..MaxFaults
    BY OfflineWriterAssumption DEF Fault, TypeOK
  <1>3. /\ position' \in 0..Len(topic') /\ committed' \in 0..Len(topic')
        /\ crashes' \in Nat /\ crashes' + rebalances <= MaxRestarts
    BY <1>1 DEF TypeOK
  <1> QED
    BY <1>1, <1>2, <1>3, ReturnType

(* A step that only moves a busy worker on keeps the types when what it    *)
(* wrote is well typed.                                                    *)
LEMMA GotoType ==
    ASSUME TypeOK, NEW w \in Workers, pc[w] # "poll",
           NEW s \in {"partition", "append", "emit", "retry_or_dlq", "dead_letter", "commit"},
           Goto(w, s), Unfailing, UNCHANGED <<owner, position, committed, cur>>,
           fresh' \in [Workers -> RowSet],
           topic' \in Seq(Message), Len(topic') >= Len(topic), StoresOK'
    PROVE  TypeOK'
  <1>1. pc' = [pc EXCEPT ![w] = s] /\ UNCHANGED <<rerun, crashes, rebalances, faults, reruns>>
    BY DEF Goto, Unfailing, bounds
  <1>2. Len(topic) \in Nat /\ Len(topic') \in Nat
    BY DEF TypeOK
  <1>3. /\ cur' \in [Workers -> 0..Len(topic')]
        /\ \A v \in Workers : pc'[v] = "poll" <=> cur'[v] = 0
    BY <1>1, <1>2 DEF TypeOK
  <1>4. rerun' \in [Rerunners -> {Idle} \cup {<<S>> : S \in RowSet}]
    BY <1>1 DEF TypeOK
  <1> QED
    BY <1>1, <1>2, <1>3, <1>4 DEF TypeOK, StoresOK

(* Each step keeps the types.                                              *)
LEMMA TypeStep == TypeOK /\ [Next]_vars => TypeOK'
  <1> SUFFICES ASSUME TypeOK, [Next]_vars PROVE TypeOK'
    OBVIOUS
  <1>d. /\ StoresOK /\ Len(topic) >= Len(topic) /\ topic \in Seq(Message)
        /\ fresh \in [Workers -> RowSet]
    BY DEF StoresOK, TypeOK
  <1>1. ASSUME NEW e \in Events, Publish(e)
        PROVE  TypeOK'
    <2>1. [ev |-> e, attempt |-> 0] \in Message
      BY OfflineWriterAssumption DEF Message
    <2>2. topic' \in Seq(Message) /\ Len(topic') = Len(topic) + 1
      BY <1>1, <2>1 DEF Publish, TypeOK
    <2>3. UNCHANGED <<owner, position, committed, pc, cur, fresh, history, updates, dlq,
                      rerun, crashes, rebalances, faults, reruns>>
      BY <1>1 DEF Publish, local, stores, bounds
    <2> QED
      BY <2>2, <2>3 DEF TypeOK
  <1>2. ASSUME NEW w \in Workers, Poll(w)
        PROVE  TypeOK'
    <2>1. /\ position' = position + 1 /\ position < Len(topic)
          /\ cur' = [cur EXCEPT ![w] = position + 1]
          /\ \E s \in {"dead_letter", "partition"} : pc' = [pc EXCEPT ![w] = s]
          /\ UNCHANGED <<topic, owner, committed, fresh, history, updates, dlq,
                         rerun, crashes, rebalances, faults, reruns>>
      BY <1>2 DEF Poll, Goto, Unfailing, stores, bounds
    <2>2. /\ position' \in 0..Len(topic) /\ cur' \in [Workers -> 0..Len(topic)]
          /\ \A v \in Workers : pc'[v] = "poll" <=> cur'[v] = 0
      BY <2>1 DEF TypeOK
    <2> QED
      BY <2>1, <2>2 DEF TypeOK
  <1>3. ASSUME NEW w \in Workers, Partition(w)
        PROVE  TypeOK'
    <2>1. Ev(w) \in Events /\ pc[w] # "poll"
      BY <1>3, Handling DEF Partition
    <2>2. StoresOK' /\ topic' = topic
      BY <1>3, <1>d DEF Partition, StoresOK, stores, broker
    <2>3. CASE Fault(w)
      BY <1>d, <2>2, <2>3, FaultType
    <2>4. CASE /\ fresh' = [fresh EXCEPT ![w] = partition_new_results(RowsOf[Ev(w)])]
               /\ Goto(w, "append") /\ Unfailing /\ UNCHANGED <<broker, cur, stores>>
      <3>1. fresh' \in [Workers -> RowSet]
        BY <1>d, <2>1, <2>4, PartitionType
      <3> QED
        BY <1>d, <2>1, <2>2, <2>4, <3>1, GotoType DEF broker
    <2> QED
      BY <1>3, <2>3, <2>4 DEF Partition
  <1>4. ASSUME NEW w \in Workers, AppendRows(w)
        PROVE  TypeOK'
    <2>1. fresh[w] \in RowSet
      BY DEF TypeOK
    <2>2. history' \in Seq(Row)
      BY <1>4, <1>d, <2>1, Appended DEF AppendRows, StoresOK
    <2>3. StoresOK' /\ topic' = topic
      BY <1>4, <1>d, <2>2 DEF AppendRows, StoresOK, broker
    <2> QED
      BY <1>4, <1>d, <2>3, FaultType, GotoType DEF AppendRows, local, broker
  <1>5. ASSUME NEW w \in Workers, EmitUpdates(w)
        PROVE  TypeOK'
    <2>1. Ev(w) \in Events
      BY <1>5, Handling DEF EmitUpdates
    <2>2. \E A \in SUBSET Announcements(Ev(w)) : updates' = updates \cup A
      BY <1>5 DEF EmitUpdates
    <2>3. updates' \subseteq UNION {Announcements(e) : e \in Events}
      BY <1>d, <2>1, <2>2 DEF StoresOK
    <2>4. StoresOK' /\ topic' = topic
      BY <1>5, <1>d, <2>3 DEF EmitUpdates, StoresOK, broker
    <2> QED
      BY <1>5, <1>d, <2>4, FaultType, GotoType DEF EmitUpdates, local, broker
  <1>6. ASSUME NEW w \in Workers, Raise(w)
        PROVE  TypeOK'
    <2>1. StoresOK' /\ topic' = topic
      BY <1>6, <1>d DEF Raise, StoresOK, stores, broker
    <2> QED
      BY <1>6, <1>d, <2>1, GotoType DEF Raise, local, broker
  <1>7. ASSUME NEW w \in Workers, RetryOrDlq(w)
        PROVE  TypeOK'
    <2> DEFINE a == topic[cur[w]].attempt + 1
               retry == Append(topic, [ev |-> Ev(w), attempt |-> a])
    <2>1. /\ Ev(w) \in Events /\ a \in 1..MaxAttempts /\ pc[w] # "poll"
      BY <1>7, Handling, OfflineWriterAssumption DEF RetryOrDlq
    <2>2. StoresOK'
      BY <1>7, <1>d DEF RetryOrDlq, stores, StoresOK
    <2>3. CASE a < MaxAttempts
      <3>1. [ev |-> Ev(w), attempt |-> a] \in Message
        BY <2>1, <2>3, OfflineWriterAssumption DEF Message
      <3>2. /\ topic' \in {topic, retry}
            /\ \/ Fault(w)
               \/ /\ Goto(w, "commit") /\ Unfailing
                  /\ UNCHANGED <<owner, position, committed, local>>
        BY <1>7, <2>1, <2>3, OfflineWriterAssumption DEF RetryOrDlq
      <3>3. topic' \in Seq(Message) /\ Len(topic') >= Len(topic)
        BY <1>d, <3>1, <3>2
      <3> QED
        BY <1>d, <2>1, <2>2, <3>2, <3>3, FaultType, GotoType DEF local
    <2>4. CASE ~(a < MaxAttempts)
      <3>1. Goto(w, "dead_letter") /\ Unfailing /\ UNCHANGED <<broker, local>>
        BY <1>7, <2>1, <2>4 DEF RetryOrDlq
      <3> QED
        BY <1>d, <2>1, <2>2, <3>1, GotoType DEF local, broker
    <2> QED
      BY <2>3, <2>4
  <1>8. ASSUME NEW w \in Workers, DeadLetter(w)
        PROVE  TypeOK'
    <2>1. Ev(w) \in Events
      BY <1>8, Handling DEF DeadLetter
    <2>2. StoresOK' /\ topic' = topic
      BY <1>8, <1>d, <2>1 DEF DeadLetter, StoresOK, broker
    <2> QED
      BY <1>8, <1>d, <2>2, FaultType, GotoType DEF DeadLetter, local, broker
  <1>9. ASSUME NEW w \in Workers, Commit(w)
        PROVE  TypeOK'
    <2>1. StoresOK' /\ committed' \in 0..Len(topic)
      BY <1>9, <1>d DEF Commit, stores, StoresOK, TypeOK
    <2>2. /\ Return(w)
          /\ UNCHANGED <<topic, owner, position, rerun, crashes, rebalances, faults, reruns>>
      BY <1>9 DEF Commit, Unfailing, bounds
    <2>3. /\ position \in 0..Len(topic) /\ crashes \in Nat /\ faults \in 0..MaxFaults
          /\ crashes + rebalances <= MaxRestarts
      BY DEF TypeOK
    <2> QED
      BY <1>d, <2>1, <2>2, <2>3, ReturnType
  <1>10. ASSUME NEW w \in Workers, Crash(w)
         PROVE  TypeOK'
    <2>1. StoresOK'
      BY <1>10, <1>d DEF Crash, stores, StoresOK
    <2>2. /\ Return(w) /\ UNCHANGED <<topic, owner, committed, rerun, rebalances, faults, reruns>>
          /\ position' = (IF w = owner THEN committed ELSE position)
          /\ crashes' = crashes + 1 /\ crashes + rebalances < MaxRestarts
      BY <1>10 DEF Crash
    <2>3. /\ position' \in 0..Len(topic) /\ committed \in 0..Len(topic)
          /\ crashes' \in Nat /\ crashes' + rebalances <= MaxRestarts /\ faults \in 0..MaxFaults
      BY <2>2, OfflineWriterAssumption DEF TypeOK
    <2> QED
      BY <1>d, <2>1, <2>2, <2>3, ReturnType
  <1>11. ASSUME NEW w \in Workers, Rebalance(w)
         PROVE  TypeOK'
    <2>1. /\ UNCHANGED <<topic, committed, pc, cur, fresh, history, updates, dlq, rerun,
                         crashes, faults, reruns>>
          /\ owner' = w /\ position' = committed
          /\ rebalances' = rebalances + 1 /\ crashes + rebalances < MaxRestarts
      BY <1>11 DEF Rebalance, local, stores
    <2> QED
      BY <2>1, OfflineWriterAssumption DEF TypeOK
  <1>12. ASSUME NEW d \in Rerunners, NEW e \in RerunEvents, RerunRead(d, e)
         PROVE  TypeOK'
    <2>1. partition_new_results(RowsOf[e]) \in RowSet
      BY PartitionType, OfflineWriterAssumption
    <2>2. rerun' \in [Rerunners -> {Idle} \cup {<<S>> : S \in RowSet}]
      BY <1>12, <2>1 DEF RerunRead, TypeOK
    <2>3. /\ UNCHANGED <<topic, owner, position, committed, pc, cur, fresh, history, updates,
                         dlq, crashes, rebalances, faults>>
          /\ reruns' = reruns + 1 /\ reruns < MaxReruns
      BY <1>12 DEF RerunRead, broker, local, stores
    <2>4. reruns' \in 0..MaxReruns
      BY <2>3, OfflineWriterAssumption DEF TypeOK
    <2> QED
      BY <2>2, <2>3, <2>4 DEF TypeOK
  <1>13. ASSUME NEW d \in Rerunners, RerunAppend(d)
         PROVE  TypeOK'
    <2>1. PICK S \in RowSet : rerun[d] = <<S>>
      BY <1>13 DEF RerunAppend, TypeOK
    <2>2. history' \in Seq(Row)
      BY <1>13, <1>d, <2>1, Appended DEF RerunAppend, StoresOK
    <2>3. rerun' \in [Rerunners -> {Idle} \cup {<<Q>> : Q \in RowSet}]
      BY <1>13 DEF RerunAppend, TypeOK
    <2>4. UNCHANGED <<topic, owner, position, committed, pc, cur, fresh, updates, dlq,
                      crashes, rebalances, faults, reruns>>
      BY <1>13 DEF RerunAppend, broker, local, bounds
    <2> QED
      BY <2>2, <2>3, <2>4 DEF TypeOK
  <1>14. CASE UNCHANGED vars
    BY <1>14 DEF vars, broker, local, stores, bounds, TypeOK
  <1>15. ASSUME NEW w \in Workers, Step(w) PROVE TypeOK'
    BY <1>2, <1>3, <1>4, <1>5, <1>6, <1>7, <1>8, <1>9, <1>15 DEF Step
  <1> QED
    BY <1>1, <1>10, <1>11, <1>12, <1>13, <1>14, <1>15 DEF Next

(* Every variable keeps its type, through every crash, partition move,     *)
(* failed call and direct compute.                                         *)
THEOREM TypeCorrect == Spec => []TypeOK
  <1>1. Init => TypeOK
    <2> SUFFICES ASSUME Init PROVE TypeOK
      OBVIOUS
    <2>1. owner \in Workers /\ {} \in RowSet
      BY OfflineWriterAssumption, FS_EmptySet DEF Init, RowSet
    <2>2. rerun \in [Rerunners -> {Idle} \cup {<<S>> : S \in RowSet}]
      BY DEF Init
    <2> QED
      BY <2>1, <2>2, OfflineWriterAssumption DEF Init, TypeOK
  <1> QED
    BY <1>1, TypeStep, PTL DEF Spec

-----------------------------------------------------------------------------
(* What any step may do, cited by the theorems below.                      *)

(* Messages and rows stay where they are; announcements and dead letters   *)
(* stay.                                                                   *)
LEMMA Monotone ==
    ASSUME TypeOK, [Next]_vars
    PROVE  /\ Len(topic') >= Len(topic)
           /\ \A i \in 1..Len(topic) : topic'[i] = topic[i]
           /\ Len(history') >= Len(history)
           /\ \A i \in 1..Len(history) : history'[i] = history[i]
           /\ updates \subseteq updates' /\ dlq \subseteq dlq'
  <1> DEFINE Grown == /\ Len(topic') >= Len(topic)
                      /\ \A i \in 1..Len(topic) : topic'[i] = topic[i]
             Longer == /\ Len(history') >= Len(history)
                       /\ \A i \in 1..Len(history) : history'[i] = history[i]
             Kept == updates \subseteq updates' /\ dlq \subseteq dlq'
  <1>t. topic \in Seq(Message) /\ history \in Seq(Row)
    BY DEF TypeOK
  <1>g. topic' = topic => Grown
    BY <1>t
  <1>h. history' = history => Longer
    BY <1>t
  <1>1. ASSUME NEW e \in Events, Publish(e) PROVE Grown /\ Longer /\ Kept
    BY <1>1, <1>t, <1>h DEF Publish, stores
  <1>2. ASSUME NEW w \in Workers,
               Poll(w) \/ Partition(w) \/ Raise(w) \/ Commit(w) \/ Crash(w) \/ Rebalance(w)
        PROVE  Grown /\ Longer /\ Kept
    BY <1>2, <1>g, <1>h DEF Poll, Partition, Raise, Commit, Crash, Rebalance, stores, broker
  <1>3. ASSUME NEW w \in Workers, AppendRows(w) PROVE Grown /\ Longer /\ Kept
    <2>1. fresh[w] \in RowSet
      BY DEF TypeOK
    <2>2. Longer
      BY <1>3, <1>t, <1>h, <2>1, Appended DEF AppendRows
    <2> QED
      BY <1>3, <1>g, <2>2 DEF AppendRows, broker
  <1>4. ASSUME NEW w \in Workers, EmitUpdates(w) PROVE Grown /\ Longer /\ Kept
    BY <1>4, <1>g, <1>h DEF EmitUpdates, broker
  <1>5. ASSUME NEW w \in Workers, RetryOrDlq(w) PROVE Grown /\ Longer /\ Kept
    <2>1. \/ topic' = topic
          \/ topic' = Append(topic, [ev |-> Ev(w), attempt |-> topic[cur[w]].attempt + 1])
      BY <1>5 DEF RetryOrDlq, broker
    <2>2. Grown
      BY <1>t, <2>1
    <2> QED
      BY <1>5, <1>h, <2>2 DEF RetryOrDlq, stores
  <1>6. ASSUME NEW w \in Workers, DeadLetter(w) PROVE Grown /\ Longer /\ Kept
    BY <1>6, <1>g, <1>h DEF DeadLetter, broker
  <1>7. ASSUME NEW d \in Rerunners, NEW e \in RerunEvents, RerunRead(d, e)
        PROVE  Grown /\ Longer /\ Kept
    BY <1>7, <1>g, <1>h DEF RerunRead, broker, stores
  <1>8. ASSUME NEW d \in Rerunners, RerunAppend(d) PROVE Grown /\ Longer /\ Kept
    <2>1. rerun[d][1] \in RowSet
      BY <1>8 DEF RerunAppend, TypeOK
    <2> QED
      BY <1>8, <1>t, <1>g, <2>1, Appended DEF RerunAppend, broker
  <1>9. ASSUME UNCHANGED vars PROVE Grown /\ Longer /\ Kept
    BY <1>9, <1>g, <1>h DEF vars, broker, stores
  <1> HIDE DEF Grown, Longer, Kept
  <1>10. ASSUME NEW w \in Workers, Step(w) PROVE Grown /\ Longer /\ Kept
    BY <1>2, <1>3, <1>4, <1>5, <1>6, <1>10 DEF Step
  <1>11. Grown /\ Longer /\ Kept
    BY <1>1, <1>2, <1>7, <1>8, <1>9, <1>10 DEF Next
  <1> QED
    BY <1>11 DEF Grown, Longer, Kept

(* A row once in history stays there.                                      *)
LEMMA HistoryKept ==
    ASSUME TypeOK, [Next]_vars, NEW r, InHistory(r)
    PROVE  InHistory(r)'
  <1>1. history \in Seq(Row)
    BY DEF TypeOK
  <1>2. PICK i \in DOMAIN history : SameRow(history[i], r)
    BY DEF InHistory
  <1>3. i \in 1..Len(history)
    BY <1>1
  <1>4. TypeOK'
    BY TypeStep
  <1>5. history' \in Seq(Row)
    BY <1>4 DEF TypeOK
  <1> QED
    BY <1>2, <1>3, <1>5, Monotone DEF InHistory, SameRow

(* A step leaves a worker alone, ends what it was doing, or is its own.    *)
LEMMA StepOf ==
    ASSUME TypeOK, [Next]_vars, NEW w \in Workers
    PROVE  \/ pc'[w] = pc[w] /\ cur'[w] = cur[w] /\ fresh'[w] = fresh[w]
           \/ pc'[w] = "poll"
           \/ Step(w)
  <1> DEFINE Same == pc'[w] = pc[w] /\ cur'[w] = cur[w] /\ fresh'[w] = fresh[w]
  <1>t. DOMAIN pc = Workers /\ DOMAIN cur = Workers /\ DOMAIN fresh = Workers
    BY DEF TypeOK
  <1>1. ASSUME NEW e \in Events, Publish(e) PROVE Same
    BY <1>1 DEF Publish, local
  <1>2. ASSUME NEW v \in Workers, v # w, Return(v) PROVE Same
    BY <1>2, <1>t DEF Return, Goto
  <1>3. ASSUME NEW v \in Workers, Crash(v) PROVE Same \/ pc'[w] = "poll"
    BY <1>2, <1>3, <1>t DEF Crash, Return, Goto
  <1>4. ASSUME NEW v \in Workers, Rebalance(v) PROVE Same
    BY <1>4 DEF Rebalance, local
  <1>5. ASSUME NEW v \in Workers, v # w, Step(v) PROVE Same
    <2>1. CASE Return(v)
      BY <1>2, <1>5, <2>1
    <2>2. CASE ~Return(v)
      <3>1. CASE Poll(v)
        BY <1>5, <1>t, <3>1 DEF Poll, Goto
      <3>2. CASE Partition(v)
        BY <1>5, <1>t, <2>2, <3>2 DEF Partition, Goto, Fault
      <3>3. CASE \/ AppendRows(v) \/ EmitUpdates(v) \/ Raise(v) \/ RetryOrDlq(v) \/ DeadLetter(v)
        <4>1. UNCHANGED <<cur, fresh>> /\ \E x : Goto(v, x)
          BY <2>2, <3>3, Zenon
          DEF AppendRows, EmitUpdates, Raise, RetryOrDlq, DeadLetter, local, Fault
        <4> QED
          BY <1>5, <1>t, <4>1 DEF Goto
      <3> QED
        BY <1>5, <2>2, <3>1, <3>2, <3>3 DEF Step, Commit
    <2> QED
      BY <2>1, <2>2
  <1>6. ASSUME NEW d \in Rerunners, RerunAppend(d) \/ \E e \in RerunEvents : RerunRead(d, e)
        PROVE  Same
    BY <1>6 DEF RerunAppend, RerunRead, local
  <1>7. CASE UNCHANGED vars
    BY <1>7 DEF vars, local
  <1> QED
    BY <1>1, <1>3, <1>4, <1>5, <1>6, <1>7 DEF Next

(* The message a worker is handling stays the same until it returns.       *)
LEMMA SameEvent ==
    ASSUME TypeOK, [Next]_vars, NEW w \in Workers, pc[w] # "poll", cur'[w] = cur[w]
    PROVE  Ev(w)' = Ev(w) /\ topic'[cur[w]] = topic[cur[w]]
  <1>1. cur[w] \in 1..Len(topic)
    BY Handling
  <1>2. topic'[cur[w]] = topic[cur[w]]
    BY <1>1, Monotone
  <1> QED
    BY <1>2 DEF Ev

-----------------------------------------------------------------------------
(* What a worker knows of its event between the read and the commit: the   *)
(* rows it did not find new are in history, after the append all of them.  *)
RowsSafe ==
    \A w \in Workers :
        /\ pc[w] = "append" =>
              /\ fresh[w] \subseteq RowsOf[Ev(w)]
              /\ \A r \in RowsOf[Ev(w)] : InHistory(r) \/ r \in fresh[w]
        /\ pc[w] = "emit" => Durable(Ev(w))

(* Each step keeps it: between the check and the append nobody removes a   *)
(* row from history.                                                       *)
LEMMA RowsSafeStep ==
    TypeOK /\ RowsSafe /\ [Next]_vars => RowsSafe'
  <1> SUFFICES ASSUME TypeOK, RowsSafe, [Next]_vars, NEW w \in Workers
               PROVE  /\ pc'[w] = "append" =>
                            /\ fresh'[w] \subseteq RowsOf[Ev(w)']
                            /\ \A r \in RowsOf[Ev(w)'] : InHistory(r)' \/ r \in fresh'[w]
                      /\ pc'[w] = "emit" => \A r \in RowsOf[Ev(w)'] : InHistory(r)'
    BY DEF RowsSafe, Durable
  <1>t. DOMAIN pc = Workers /\ DOMAIN cur = Workers /\ DOMAIN fresh = Workers
    BY DEF TypeOK
  <1>k. \A r : InHistory(r) => InHistory(r)'
    BY HistoryKept
  <1>1. CASE pc'[w] = pc[w] /\ cur'[w] = cur[w] /\ fresh'[w] = fresh[w]
    <2>1. pc[w] # "poll" => Ev(w)' = Ev(w)
      BY <1>1, SameEvent
    <2> QED
      BY <1>1, <1>k, <2>1 DEF RowsSafe, Durable
  <1>2. CASE pc'[w] \notin {"append", "emit"}
    BY <1>2
  <1>3. CASE Partition(w) /\ pc'[w] # "poll"
    <2>1. /\ fresh' = [fresh EXCEPT ![w] = partition_new_results(RowsOf[Ev(w)])]
          /\ pc[w] = "partition" /\ cur' = cur /\ UNCHANGED history
          /\ pc' = [pc EXCEPT ![w] = "append"]
      BY <1>3, <1>t DEF Partition, Fault, Return, Goto, broker, stores
    <2>2. Ev(w)' = Ev(w)
      BY <2>1, SameEvent
    <2>3. fresh'[w] = {r \in RowsOf[Ev(w)] : ~InHistory(r)} /\ pc'[w] = "append"
      BY <1>t, <2>1 DEF partition_new_results
    <2>4. \A r \in RowsOf[Ev(w)] : InHistory(r)' \/ r \in fresh'[w]
      BY <1>k, <2>3
    <2> QED
      BY <2>2, <2>3, <2>4
  <1>4. CASE AppendRows(w) /\ pc'[w] # "poll"
    <2>1. append_many(fresh[w]) /\ pc[w] = "append" /\ cur' = cur /\ pc'[w] = "emit"
      BY <1>4, <1>t DEF AppendRows, Fault, Return, Goto, local
    <2>2. Ev(w)' = Ev(w)
      BY <2>1, SameEvent
    <2>3. fresh[w] \in RowSet /\ history \in Seq(Row)
      BY DEF TypeOK
    <2>4. ASSUME NEW r \in fresh[w] PROVE InHistory(r)'
      <3>1. PICK i \in 1..Len(history') : history'[i] = r
        BY <2>1, <2>3, Appended
      <3>2. i \in DOMAIN history'
        BY <2>1, <2>3, Appended
      <3> QED
        BY <3>1, <3>2 DEF InHistory, SameRow
    <2>5. \A r \in RowsOf[Ev(w)] : InHistory(r) \/ r \in fresh[w]
      BY <2>1 DEF RowsSafe
    <2> QED
      BY <1>k, <2>1, <2>2, <2>4, <2>5
  <1>5. CASE Step(w) /\ ~Partition(w) /\ ~AppendRows(w)
    <2>1. pc'[w] \notin {"append", "emit"}
      BY <1>5, <1>t
      DEF Step, Poll, EmitUpdates, Raise, RetryOrDlq, DeadLetter, Commit, Fault, Return, Goto
    <2> QED
      BY <2>1
  <1> QED
    BY <1>1, <1>2, <1>3, <1>4, <1>5, StepOf

(* Between its check and its announcement a worker never loses a row: what *)
(* the check found in history is still there, what it found missing is in  *)
(* the batch it appends, and nothing is announced before history has it.   *)
THEOREM RowsAreSafe == Spec => []RowsSafe
  <1>1. Init => RowsSafe
    BY DEF Init, RowsSafe
  <1> QED
    BY <1>1, RowsSafeStep, TypeCorrect, PTL DEF Spec

(* What is settled stays settled.                                          *)
LEMMA SettledKept ==
    ASSUME TypeOK, [Next]_vars, NEW e, Settled(e)
    PROVE  Settled(e)'
  <1>1. \A r : InHistory(r) => InHistory(r)'
    BY HistoryKept
  <1>2. Durable(e) => Durable(e)'
    BY <1>1 DEF Durable
  <1> QED
    BY <1>2, Monotone DEF Settled, Announcements

(* The messages up to n are settled or have a retry behind n.              *)
AccountedUpTo(n) ==
    \A i \in 1..n :
        \/ Settled(topic[i].ev)
        \/ \E j \in (n + 1)..Len(topic) : topic[j].ev = topic[i].ev

(* The strengthening CommittedIsSettled needs, as for the online worker.   *)
NothingSkipped ==
    /\ AccountedUpTo(committed)
    /\ \A w \in Workers :
          /\ pc[w] # "poll" => AccountedUpTo(cur[w] - 1)
          /\ pc[w] = "commit" => AccountedUpTo(cur[w])
    /\ IF pc[owner] = "poll" THEN AccountedUpTo(position) ELSE position = cur[owner]
LossInv == faults = 0 => NothingSkipped

(* What is accounted for stays accounted for.                              *)
LEMMA AccountedKept ==
    ASSUME TypeOK, [Next]_vars, NEW n \in 0..Len(topic), AccountedUpTo(n)
    PROVE  AccountedUpTo(n)'
  <1> SUFFICES ASSUME NEW i \in 1..n
               PROVE  \/ Settled(topic[i].ev)'
                      \/ \E j \in (n + 1)..Len(topic') : topic'[j].ev = topic'[i].ev
    BY DEF AccountedUpTo
  <1>0. TypeOK'
    BY TypeStep
  <1>t. topic \in Seq(Message) /\ topic' \in Seq(Message)
    BY <1>0 DEF TypeOK
  <1>1. Len(topic) \in Nat /\ Len(topic') \in Nat
    BY <1>t
  <1>2. topic'[i] = topic[i] /\ i \in 1..Len(topic)
    BY <1>1, Monotone
  <1>3. CASE Settled(topic[i].ev)
    BY <1>2, <1>3, SettledKept
  <1>4. CASE \E j \in (n + 1)..Len(topic) : topic[j].ev = topic[i].ev
    <2>1. PICK j \in (n + 1)..Len(topic) : topic[j].ev = topic[i].ev
      BY <1>4
    <2>2. topic'[j] = topic[j] /\ j \in (n + 1)..Len(topic')
      BY <1>1, Monotone
    <2> QED
      BY <1>2, <2>1, <2>2
  <1> QED
    BY <1>3, <1>4 DEF AccountedUpTo

(* A message joins the accounted ones when its request is settled or tried *)
(* again further on.                                                       *)
LEMMA AccountMessage ==
    ASSUME TypeOK', NEW n \in 1..Len(topic'), AccountedUpTo(n - 1)',
           \/ Settled(topic[n].ev)'
           \/ \E j \in (n + 1)..Len(topic') : topic'[j].ev = topic'[n].ev
    PROVE  AccountedUpTo(n)'
  <1> SUFFICES ASSUME NEW i \in 1..n
               PROVE  \/ Settled(topic[i].ev)'
                      \/ \E j \in (n + 1)..Len(topic') : topic'[j].ev = topic'[i].ev
    BY DEF AccountedUpTo
  <1>1. Len(topic') \in Nat
    BY DEF TypeOK
  <1>2. CASE i = n
    BY <1>2
  <1>3. CASE i # n
    <2>1. i \in 1..(n - 1)
      BY <1>1, <1>3
    <2>2. \/ Settled(topic[i].ev)'
          \/ \E j \in n..Len(topic') : topic'[j].ev = topic'[i].ev
      BY <2>1 DEF AccountedUpTo
    <2>3. CASE \E j \in n..Len(topic') : topic'[j].ev = topic'[i].ev
      <3>1. PICK j \in n..Len(topic') : topic'[j].ev = topic'[i].ev
        BY <2>3
      <3>2. CASE j = n
        BY <3>1, <3>2 DEF Settled
      <3>3. CASE j # n
        BY <1>1, <3>1, <3>3
      <3> QED
        BY <3>2, <3>3
    <2> QED
      BY <2>2, <2>3
  <1> QED
    BY <1>2, <1>3

(* A busy worker that goes on to its next step skips nothing, if it goes   *)
(* to its commit only with its message accounted for.                      *)
LEMMA MoveOn ==
    ASSUME TypeOK, NothingSkipped, [Next]_vars, NEW w \in Workers, pc[w] # "poll",
           NEW s, s # "poll", pc' = [pc EXCEPT ![w] = s],
           UNCHANGED <<owner, position, committed, cur>>,
           s = "commit" => AccountedUpTo(cur[w])'
    PROVE  NothingSkipped'
  <1>1. AccountedUpTo(committed)'
    BY AccountedKept DEF NothingSkipped, TypeOK
  <1>2. ASSUME NEW v \in Workers, pc'[v] # "poll"
        PROVE  AccountedUpTo(cur[v] - 1)'
    <2>1. pc[v] # "poll"
      BY <1>2 DEF TypeOK
    <2>2. cur[v] \in 1..Len(topic) /\ AccountedUpTo(cur[v] - 1)
      BY <2>1, Handling DEF NothingSkipped
    <2>3. cur[v] - 1 \in 0..Len(topic)
      BY <2>2 DEF TypeOK
    <2> QED
      BY <2>2, <2>3, AccountedKept
  <1>3. ASSUME NEW v \in Workers, pc'[v] = "commit"
        PROVE  AccountedUpTo(cur[v])'
    <2>1. CASE v = w
      BY <1>3, <2>1 DEF TypeOK
    <2>2. CASE v # w
      <3>1. pc[v] = "commit"
        BY <1>3, <2>2 DEF TypeOK
      <3>2. cur[v] \in 0..Len(topic) /\ AccountedUpTo(cur[v])
        BY <3>1 DEF NothingSkipped, TypeOK
      <3> QED
        BY <3>2, AccountedKept
    <2> QED
      BY <2>1, <2>2
  <1>4. IF pc'[owner'] = "poll" THEN AccountedUpTo(position)' ELSE position' = cur'[owner']
    <2>1. pc'[owner'] = "poll" <=> pc[owner] = "poll"
      BY DEF TypeOK
    <2> QED
      BY <2>1, AccountedKept DEF NothingSkipped, TypeOK
  <1> QED
    BY <1>1, <1>2, <1>3, <1>4 DEF NothingSkipped

(* Each step keeps it: only a failed call, which counts as a fault, leaves *)
(* a message behind without a commit.                                      *)
LEMMA LossStep ==
    TypeOK /\ TypeOK' /\ RowsSafe /\ LossInv /\ [Next]_vars => LossInv'
  <1> SUFFICES ASSUME TypeOK, TypeOK', RowsSafe, LossInv, [Next]_vars, faults' = 0
               PROVE  NothingSkipped'
    BY DEF LossInv
  <1>t. topic \in Seq(Message) /\ topic' \in Seq(Message) /\ faults \in 0..MaxFaults
    BY DEF TypeOK
  <1>1. faults = 0 /\ \A w \in Workers : ~Fault(w)
    <2>1. faults' = faults \/ faults' = faults + 1
      BY DEF Next, Publish, Step, Crash, Rebalance, Poll, Partition, AppendRows, EmitUpdates,
       Raise, RetryOrDlq, DeadLetter, Commit, Fault, Unfailing, RerunRead, RerunAppend,
       bounds, vars
    <2> QED
      BY <1>t, <2>1 DEF Fault
  <1>2. NothingSkipped
    BY <1>1 DEF LossInv
  <1>3. /\ AccountedUpTo(committed) /\ committed \in 0..Len(topic)
        /\ Len(topic) \in Nat /\ position \in 0..Len(topic)
    BY <1>2 DEF NothingSkipped, TypeOK
  <1>4. ASSUME NEW w \in Workers, pc[w] # "poll", NEW s, s # "poll", Goto(w, s),
               UNCHANGED <<owner, position, committed, cur>>,
               s = "commit" =>
                  \/ Settled(Ev(w))'
                  \/ \E j \in (cur[w] + 1)..Len(topic') : topic'[j].ev = Ev(w)
        PROVE  NothingSkipped'
    <2>1. cur[w] \in 1..Len(topic) /\ AccountedUpTo(cur[w] - 1)
      BY <1>2, <1>4, Handling DEF NothingSkipped
    <2>2. cur[w] - 1 \in 0..Len(topic) /\ cur[w] \in 1..Len(topic')
      BY <1>t, <1>3, <2>1, Monotone
    <2>3. AccountedUpTo(cur[w] - 1)'
      BY <1>4, <2>1, <2>2, AccountedKept
    <2>4. Ev(w)' = Ev(w) /\ Ev(w)' = topic'[cur[w]].ev
      BY <1>4, SameEvent DEF Ev
    <2>5. s = "commit" => AccountedUpTo(cur[w])'
      BY <1>4, <2>2, <2>3, <2>4, AccountMessage
    <2> QED
      BY <1>2, <1>4, <2>5, MoveOn DEF Goto
  <1>5. ASSUME NEW w \in Workers, Return(w), UNCHANGED <<topic, owner>>,
               AccountedUpTo(committed)',
               position' = IF w = owner /\ Crash(w) THEN committed ELSE position,
               w = owner => AccountedUpTo(position)'
        PROVE  NothingSkipped'
    <2>1. /\ pc' = [pc EXCEPT ![w] = "poll"] /\ cur' = [cur EXCEPT ![w] = 0]
      BY <1>5 DEF Return, Goto
    <2>2. ASSUME NEW v \in Workers, pc'[v] # "poll"
          PROVE  /\ AccountedUpTo(cur[v] - 1)'
                 /\ pc'[v] = "commit" => AccountedUpTo(cur[v])'
      <3>1. pc[v] = pc'[v] /\ cur'[v] = cur[v]
        BY <2>1, <2>2 DEF TypeOK
      <3>2. /\ cur[v] \in 1..Len(topic) /\ AccountedUpTo(cur[v] - 1)
            /\ pc[v] = "commit" => AccountedUpTo(cur[v])
        BY <1>2, <2>2, <3>1, Handling DEF NothingSkipped
      <3>3. cur[v] - 1 \in 0..Len(topic) /\ cur[v] \in 0..Len(topic)
        BY <1>3, <3>2
      <3> QED
        BY <3>1, <3>2, <3>3, AccountedKept
    <2>3. IF pc'[owner'] = "poll" THEN AccountedUpTo(position)' ELSE position' = cur'[owner']
      <3>1. CASE w = owner
        BY <1>5, <2>1, <3>1 DEF TypeOK
      <3>2. CASE w # owner
        <4>1. pc'[owner] = pc[owner] /\ cur'[owner] = cur[owner] /\ position' = position
          BY <1>5, <2>1, <3>2 DEF TypeOK
        <4>2. pc[owner] = "poll" => AccountedUpTo(position)'
          BY <1>2, <1>3, <4>1, AccountedKept DEF NothingSkipped
        <4> QED
          BY <1>2, <1>5, <4>1, <4>2 DEF NothingSkipped
      <3> QED
        BY <3>1, <3>2
    <2> QED
      BY <1>5, <2>2, <2>3 DEF NothingSkipped
  <1>6. ASSUME UNCHANGED <<owner, position, committed, pc, cur>>
        PROVE  NothingSkipped'
    <2>1. AccountedUpTo(committed)'
      BY <1>3, <1>6, AccountedKept
    <2>2. ASSUME NEW v \in Workers, pc[v] # "poll"
          PROVE  /\ AccountedUpTo(cur[v] - 1)'
                 /\ pc[v] = "commit" => AccountedUpTo(cur[v])'
      <3>1. /\ cur[v] \in 1..Len(topic) /\ AccountedUpTo(cur[v] - 1)
            /\ pc[v] = "commit" => AccountedUpTo(cur[v])
        BY <1>2, <2>2, Handling DEF NothingSkipped
      <3>2. cur[v] - 1 \in 0..Len(topic) /\ cur[v] \in 0..Len(topic)
        BY <1>3, <3>1
      <3> QED
        BY <1>6, <3>1, <3>2, AccountedKept
    <2>3. IF pc[owner] = "poll" THEN AccountedUpTo(position)' ELSE position = cur[owner]
      BY <1>2, <1>3, <1>6, AccountedKept DEF NothingSkipped
    <2> QED
      BY <1>6, <2>1, <2>2, <2>3 DEF NothingSkipped
  <1>7. ASSUME NEW e \in Events, Publish(e)
        PROVE  NothingSkipped'
    BY <1>6, <1>7 DEF Publish, local
  <1>8. ASSUME NEW w \in Workers, Poll(w)
        PROVE  NothingSkipped'
    <2>1. /\ w = owner /\ pc[w] = "poll" /\ position' = position + 1
          /\ cur' = [cur EXCEPT ![w] = position + 1] /\ UNCHANGED <<topic, owner, committed>>
          /\ \E s \in {"dead_letter", "partition"} : pc' = [pc EXCEPT ![w] = s]
      BY <1>8 DEF Poll, Goto
    <2>2. AccountedUpTo(position)
      BY <1>2, <2>1 DEF NothingSkipped
    <2>3. AccountedUpTo(committed)'
      BY <1>3, <2>1, AccountedKept
    <2>4. ASSUME NEW v \in Workers, pc'[v] # "poll"
          PROVE  /\ AccountedUpTo(cur[v] - 1)'
                 /\ pc'[v] = "commit" => AccountedUpTo(cur[v])'
      <3>1. CASE v = w
        <4>1. cur'[v] - 1 = position /\ pc'[v] # "commit"
          BY <1>3, <2>1, <3>1 DEF TypeOK
        <4>2. \A n \in 0..Len(topic) : AccountedUpTo(n) => AccountedUpTo(n)'
          BY AccountedKept
        <4> QED
          BY <1>3, <2>2, <4>1, <4>2 DEF AccountedUpTo
      <3>2. CASE v # w
        <4>1. pc[v] = pc'[v] /\ cur'[v] = cur[v]
          BY <2>1, <3>2 DEF TypeOK
        <4>2. /\ cur[v] \in 1..Len(topic) /\ AccountedUpTo(cur[v] - 1)
              /\ pc[v] = "commit" => AccountedUpTo(cur[v])
          BY <1>2, <2>4, <4>1, Handling DEF NothingSkipped
        <4>3. cur[v] - 1 \in 0..Len(topic) /\ cur[v] \in 0..Len(topic)
          BY <1>3, <4>2
        <4> QED
          BY <4>1, <4>2, <4>3, AccountedKept
      <3> QED
        BY <3>1, <3>2
    <2>5. pc'[owner'] # "poll" /\ position' = cur'[owner']
      BY <2>1 DEF TypeOK
    <2> QED
      BY <2>3, <2>4, <2>5 DEF NothingSkipped
  <1>9. ASSUME NEW w \in Workers, Partition(w) \/ AppendRows(w) \/ Raise(w)
        PROVE  NothingSkipped'
    <2>1. /\ pc[w] # "poll" /\ UNCHANGED <<owner, position, committed, cur>>
          /\ \E s \in {"append", "emit", "retry_or_dlq"} : Goto(w, s)
      BY <1>1, <1>9 DEF Partition, AppendRows, Raise, broker, local
    <2> QED
      BY <1>4, <2>1
  <1>10. ASSUME NEW w \in Workers, EmitUpdates(w)
         PROVE  NothingSkipped'
    <2>1. /\ pc[w] = "emit" /\ UNCHANGED <<owner, position, committed, cur>>
          /\ updates' = updates \cup Announcements(Ev(w)) /\ Goto(w, "commit")
      BY <1>1, <1>10 DEF EmitUpdates, broker, local
    <2>2. Durable(Ev(w)) /\ Ev(w)' = Ev(w)
      BY <2>1, SameEvent DEF RowsSafe
    <2>3. \A r : InHistory(r) => InHistory(r)'
      BY HistoryKept
    <2>4. \A r \in RowsOf[Ev(w)'] : InHistory(r)'
      BY <2>2, <2>3 DEF Durable
    <2>5. Announcements(Ev(w))' \subseteq updates'
      BY <2>1, <2>2 DEF Announcements
    <2>6. Settled(Ev(w))'
      BY <2>4, <2>5 DEF Settled, Durable
    <2> QED
      BY <1>4, <2>1, <2>6
  <1>11. ASSUME NEW w \in Workers, DeadLetter(w)
         PROVE  NothingSkipped'
    <2>1. /\ pc[w] # "poll" /\ UNCHANGED <<owner, position, committed, cur>>
          /\ Ev(w) \in dlq' /\ Goto(w, "commit")
      BY <1>1, <1>11 DEF DeadLetter, broker, local
    <2>2. Settled(Ev(w))'
      BY <2>1, SameEvent DEF Settled
    <2> QED
      BY <1>4, <2>1, <2>2
  <1>12. ASSUME NEW d \in Rerunners, RerunAppend(d) \/ \E e \in RerunEvents : RerunRead(d, e)
         PROVE  NothingSkipped'
    BY <1>6, <1>12 DEF RerunAppend, RerunRead, local, broker
  <1>14. ASSUME NEW w \in Workers, RetryOrDlq(w)
         PROVE  NothingSkipped'
    <2>1. pc[w] # "poll" /\ UNCHANGED <<owner, position, committed, cur>>
      BY <1>1, <1>14 DEF RetryOrDlq, broker, local
    <2>2. CASE Goto(w, "dead_letter")
      BY <1>4, <2>1, <2>2
    <2>3. CASE /\ topic' = Append(topic, [ev |-> Ev(w), attempt |-> topic[cur[w]].attempt + 1])
               /\ Goto(w, "commit")
      <3>1. /\ Len(topic') = Len(topic) + 1 /\ topic'[Len(topic) + 1].ev = Ev(w)
            /\ cur[w] \in 1..Len(topic)
        BY <1>t, <2>1, <2>3, Handling
      <3>2. \E j \in (cur[w] + 1)..Len(topic') : topic'[j].ev = Ev(w)
        BY <1>3, <3>1
      <3> QED
        BY <1>4, <2>1, <2>3, <3>2
    <2> QED
      BY <1>1, <1>14, <2>2, <2>3 DEF RetryOrDlq
  <1>15. ASSUME NEW w \in Workers, Commit(w)
         PROVE  NothingSkipped'
    <2>1. pc[w] = "commit" /\ Return(w) /\ UNCHANGED <<topic, owner, position>> /\ ~Crash(w)
      BY <1>15 DEF Commit, Crash, Unfailing, bounds, TypeOK
    <2>2. AccountedUpTo(cur[w]) /\ cur[w] \in 0..Len(topic)
      BY <1>2, <2>1 DEF NothingSkipped, TypeOK
    <2>3. AccountedUpTo(committed)'
      <3>1. \A n \in 0..Len(topic) : AccountedUpTo(n) => AccountedUpTo(n)'
        BY AccountedKept
      <3>2. committed' = cur[w] \/ committed' = committed
        BY <1>15 DEF Commit
      <3>3. CASE committed' = committed
        BY <1>3, <3>1, <3>3 DEF AccountedUpTo
      <3>4. CASE committed' = cur[w]
        <4>1. \A i \in 1..cur[w] :
                \/ Settled(topic[i].ev)'
                \/ \E j \in (cur[w] + 1)..Len(topic') : topic'[j].ev = topic'[i].ev
          BY <2>2, <3>1 DEF AccountedUpTo
        <4> QED
          BY <3>4, <4>1 DEF AccountedUpTo
      <3> QED
        BY <3>2, <3>3, <3>4
    <2>4. w = owner => AccountedUpTo(position)'
      <3>1. w = owner => position = cur[w]
        BY <1>2, <2>1 DEF NothingSkipped
      <3> QED
        BY <1>3, <2>1, <2>2, <3>1, AccountedKept
    <2> QED
      BY <1>5, <2>1, <2>3, <2>4
  <1>16. ASSUME NEW w \in Workers, Crash(w)
         PROVE  NothingSkipped'
    <2>1. /\ Return(w) /\ UNCHANGED <<topic, owner, committed>>
          /\ position' = IF w = owner THEN committed ELSE position
      BY <1>16 DEF Crash
    <2>2. AccountedUpTo(committed)'
      BY <1>3, <2>1, AccountedKept
    <2>3. w = owner => AccountedUpTo(position)'
      BY <2>1, <2>2 DEF AccountedUpTo
    <2> QED
      BY <1>5, <1>16, <2>1, <2>2, <2>3
  <1>17. ASSUME NEW w \in Workers, Rebalance(w)
         PROVE  NothingSkipped'
    <2>1. /\ UNCHANGED <<topic, committed, pc, cur>> /\ owner' = w /\ position' = committed
          /\ pc[w] = "poll"
      BY <1>17 DEF Rebalance, local
    <2>2. AccountedUpTo(committed)' /\ AccountedUpTo(position)'
      <3>1. AccountedUpTo(committed)'
        BY <1>3, <2>1, AccountedKept
      <3> QED
        BY <2>1, <3>1 DEF AccountedUpTo
    <2>3. ASSUME NEW v \in Workers, pc[v] # "poll"
          PROVE  /\ AccountedUpTo(cur[v] - 1)'
                 /\ pc[v] = "commit" => AccountedUpTo(cur[v])'
      <3>1. /\ cur[v] \in 1..Len(topic) /\ AccountedUpTo(cur[v] - 1)
            /\ pc[v] = "commit" => AccountedUpTo(cur[v])
        BY <1>2, <2>3, Handling DEF NothingSkipped
      <3>2. cur[v] - 1 \in 0..Len(topic) /\ cur[v] \in 0..Len(topic)
        BY <1>3, <3>1
      <3> QED
        BY <2>1, <3>1, <3>2, AccountedKept
    <2> QED
      BY <2>1, <2>2, <2>3 DEF NothingSkipped
  <1>18. CASE UNCHANGED vars
    BY <1>6, <1>18 DEF vars, broker, local
  <1>19. ASSUME NEW w \in Workers, Step(w) PROVE NothingSkipped'
    BY <1>8, <1>9, <1>10, <1>11, <1>14, <1>15, <1>19 DEF Step
  <1> QED
    BY <1>7, <1>12, <1>16, <1>17, <1>18, <1>19 DEF Next

(* As long as no call has failed, the offset never passes an event that is *)
(* neither durable and announced, nor dead-lettered, nor about to be tried *)
(* again, through any crashes, partition moves, stale commits and direct   *)
(* computes.                                                               *)
THEOREM CommittedEventsSettled == Spec => []CommittedIsSettled
  <1>1. Init => LossInv
    <2> SUFFICES ASSUME Init PROVE NothingSkipped
      BY DEF LossInv
    <2>1. owner \in Workers
      BY OfflineWriterAssumption DEF Init
    <2> QED
      BY <2>1 DEF Init, NothingSkipped, AccountedUpTo
  <1>2. LossInv => CommittedIsSettled
    BY DEF LossInv, NothingSkipped, AccountedUpTo, CommittedIsSettled
  <1> QED
    BY <1>1, <1>2, LossStep, RowsAreSafe, TypeCorrect, PTL DEF Spec

-----------------------------------------------------------------------------
(* The strengthening NoDuplicateRows needs: until the partition moves or a *)
(* direct compute runs, only the owner is between a read and an append,    *)
(* and what it found new is still new.                                     *)
OnceInv ==
    (rebalances = 0 /\ reruns = 0) =>
        /\ ExactRowsOnce
        /\ \A w \in Workers :
              /\ w # owner => pc[w] = "poll"
              /\ pc[w] = "append" => \A r \in fresh[w] : ~InHistory(r)
        /\ \A d \in Rerunners : rerun[d] = Idle

(* Two rows of one event are never the same row, and the comparison does   *)
(* not depend on the side.                                                 *)
LEMMA RowsDiffer ==
    ASSUME NEW e \in Events, NEW a \in RowsOf[e], NEW b \in RowsOf[e], SameRow(a, b)
    PROVE  a = b
  BY OfflineWriterAssumption DEF SameRow

(* Appending new rows of one event keeps every row once.                   *)
LEMMA AppendOnce ==
    ASSUME TypeOK, ExactRowsOnce, NEW e \in Events, NEW S \in RowSet, S \subseteq RowsOf[e],
           \A r \in S : ~InHistory(r), append_many(S)
    PROVE  ExactRowsOnce'
  <1> DEFINE n == Len(history)
             m == Len(history')
  <1>1. history \in Seq(Row)
    BY DEF TypeOK
  <1>2. /\ history' \in Seq(Row) /\ m >= n
        /\ \A i \in 1..n : history'[i] = history[i]
        /\ \A i \in (n + 1)..m : history'[i] \in S
        /\ \A i, j \in (n + 1)..m : history'[i] = history'[j] => i = j
    BY <1>1, Appended
  <1>3. n \in Nat /\ m \in Nat /\ DOMAIN history = 1..n /\ DOMAIN history' = 1..m
    BY <1>1, <1>2
  <1> SUFFICES ASSUME NEW i \in 1..m, NEW j \in 1..m, i < j,
                      SameRow(history'[i], history'[j])
               PROVE  FALSE
    BY <1>3 DEF ExactRowsOnce, SameRow
  <1> HIDE DEF n, m
  <1>4. CASE j <= n
    <2>1. i \in 1..n /\ j \in 1..n
      BY <1>3, <1>4
    <2> QED
      BY <1>2, <1>3, <2>1 DEF ExactRowsOnce
  <1>5. CASE i <= n /\ ~(j <= n)
    <2>1. i \in DOMAIN history /\ j \in (n + 1)..m
      BY <1>3, <1>5
    <2>2. history'[j] \in S /\ history'[i] = history[i]
      BY <1>2, <1>3, <2>1
    <2> QED
      BY <2>1, <2>2 DEF InHistory
  <1>6. CASE ~(i <= n)
    <2>1. i \in (n + 1)..m /\ j \in (n + 1)..m
      BY <1>3, <1>6
    <2>2. history'[i] = history'[j]
      BY <1>2, <2>1, RowsDiffer
    <2>3. i = j
      BY <1>2, <2>1, <2>2
    <2> QED
      BY <1>3, <2>1, <2>3
  <1> QED
    BY <1>4, <1>5, <1>6

(* Each step keeps it.                                                     *)
LEMMA OnceStep ==
    TypeOK /\ RowsSafe /\ OnceInv /\ [Next]_vars => OnceInv'
  <1> SUFFICES ASSUME TypeOK, RowsSafe, OnceInv, [Next]_vars,
                      rebalances' = 0, reruns' = 0
               PROVE  /\ ExactRowsOnce'
                      /\ \A w \in Workers :
                            /\ w # owner' => pc'[w] = "poll"
                            /\ pc'[w] = "append" => \A r \in fresh'[w] : ~InHistory(r)'
                      /\ \A d \in Rerunners : rerun'[d] = Idle
    BY DEF OnceInv
  <1>t. /\ DOMAIN pc = Workers /\ DOMAIN cur = Workers /\ DOMAIN fresh = Workers
        /\ rebalances \in Nat /\ reruns \in Nat
    BY DEF TypeOK
  <1>1. /\ rebalances = 0 /\ reruns = 0 /\ owner' = owner
        /\ \A w \in Workers : ~Rebalance(w)
        /\ \A d \in Rerunners, e \in RerunEvents : ~RerunRead(d, e)
    <2>1. \/ /\ rebalances' = rebalances /\ reruns' = reruns /\ owner' = owner
             /\ \A w \in Workers : ~Rebalance(w)
             /\ \A d \in Rerunners, e \in RerunEvents : ~RerunRead(d, e)
          \/ rebalances' = rebalances + 1 \/ reruns' = reruns + 1
      BY DEF Next, Publish, Step, Crash, Rebalance, Poll, Partition, AppendRows, EmitUpdates,
       Raise, RetryOrDlq, DeadLetter, Commit, Fault, Unfailing, RerunRead, RerunAppend,
       bounds, vars, broker
    <2> QED
      BY <1>t, <2>1
  <1>2. /\ ExactRowsOnce
        /\ \A w \in Workers :
              /\ w # owner => pc[w] = "poll"
              /\ pc[w] = "append" => \A r \in fresh[w] : ~InHistory(r)
        /\ \A d \in Rerunners : rerun[d] = Idle
    BY <1>1 DEF OnceInv
  <1>3. \A d \in Rerunners : rerun'[d] = Idle
    <2>1. \A d \in Rerunners : ~RerunAppend(d)
      BY <1>2 DEF RerunAppend
    <2>2. rerun' = rerun
      BY <1>1, <2>1
      DEF Next, Publish, Step, Crash, Rebalance, Poll, Partition, AppendRows, EmitUpdates,
       Raise, RetryOrDlq, DeadLetter, Commit, Fault, Unfailing, vars
    <2> QED
      BY <1>2, <2>2
  <1>4. ASSUME NEW w \in Workers, w # owner' PROVE pc'[w] = "poll"
    <2>1. pc[w] = "poll" /\ w # owner
      BY <1>1, <1>2, <1>4
    <2>2. ~Step(w)
      BY <2>1 DEF Step, Poll, Partition, AppendRows, EmitUpdates, Raise, RetryOrDlq,
         DeadLetter, Commit
    <2> QED
      BY <2>1, <2>2, StepOf
  <1>5. CASE \E w \in Workers : AppendRows(w) /\ pc'[w] # "poll"
    <2>1. PICK w \in Workers : AppendRows(w) /\ pc'[w] # "poll"
      BY <1>5
    <2>2. append_many(fresh[w]) /\ pc[w] = "append" /\ pc' = [pc EXCEPT ![w] = "emit"]
      BY <1>t, <2>1 DEF AppendRows, Fault, Return, Goto
    <2>3. /\ fresh[w] \in RowSet /\ fresh[w] \subseteq RowsOf[Ev(w)] /\ Ev(w) \in Events
          /\ \A r \in fresh[w] : ~InHistory(r)
      BY <1>2, <2>2, Handling DEF TypeOK, RowsSafe
    <2>4. ExactRowsOnce'
      BY <1>2, <2>2, <2>3, AppendOnce
    <2>5. ASSUME NEW v \in Workers, pc'[v] = "append" PROVE FALSE
      BY <1>t, <1>2, <2>2, <2>5
    <2> QED
      BY <1>3, <1>4, <2>4, <2>5
  <1>6. CASE ~ \E w \in Workers : AppendRows(w) /\ pc'[w] # "poll"
    <2>1. history' = history
      <3>1. \A d \in Rerunners : ~RerunAppend(d)
        BY <1>2 DEF RerunAppend
      <3>2. \A w \in Workers : AppendRows(w) => history' = history
        BY <1>t, <1>6 DEF AppendRows, Goto
      <3> QED
        BY <1>1, <3>1, <3>2
        DEF Next, Publish, Step, Crash, Rebalance, Poll, Partition, EmitUpdates,
            Raise, RetryOrDlq, DeadLetter, Commit, vars, stores
    <2>2. ExactRowsOnce'
      BY <1>2, <2>1 DEF ExactRowsOnce, SameRow
    <2>3. ASSUME NEW w \in Workers, pc'[w] = "append", NEW r \in fresh'[w]
          PROVE  ~InHistory(r)'
      <3>1. InHistory(r)' = InHistory(r)
        BY <2>1 DEF InHistory, SameRow
      <3>2. CASE pc'[w] = pc[w] /\ fresh'[w] = fresh[w]
        BY <1>2, <2>3, <3>1, <3>2
      <3>3. CASE Partition(w)
        <4>1. fresh'[w] = {x \in RowsOf[Ev(w)] : ~InHistory(x)}
          BY <1>t, <2>3, <3>3 DEF Partition, Fault, Return, Goto, partition_new_results
        <4> QED
          BY <2>3, <3>1, <4>1
      <3>4. CASE Step(w) /\ ~Partition(w)
        <4>1. pc'[w] # "append"
          BY <1>t, <3>4
          DEF Step, Poll, AppendRows, EmitUpdates, Raise, RetryOrDlq, DeadLetter, Commit,
              Fault, Return, Goto
        <4> QED
          BY <2>3, <4>1
      <3> QED
        BY <2>3, <3>2, <3>3, <3>4, StepOf
    <2> QED
      BY <1>3, <1>4, <2>2, <2>3
  <1> QED
    BY <1>5, <1>6

(* Redelivered events write no row twice, through any crashes, failed      *)
(* calls and retries, until the partition moves or a direct compute runs.  *)
THEOREM RowsAppendedOnce == Spec => []NoDuplicateRows
  <1>1. Init => OnceInv
    BY DEF Init, OnceInv, ExactRowsOnce
  <1>2. OnceInv => NoDuplicateRows
    BY DEF OnceInv, NoDuplicateRows
  <1> QED
    BY <1>1, <1>2, OnceStep, RowsAreSafe, TypeCorrect, PTL DEF Spec
=============================================================================
