-------------------------- MODULE OnlineWorkerProofs --------------------------
(***************************************************************************)
(* What the online worker guarantees for any set of requests, features and *)
(* workers, any attempt limit and any number of crashes, partition moves   *)
(* and failed calls.                                                       *)
(***************************************************************************)
EXTENDS OnlineWorker, TLAPS

-----------------------------------------------------------------------------
(* Facts about the model's operators.                                      *)

(* What a request computes is a result the guard knows, never Absent, and  *)
(* its freshness tuple repeats the freshness of its report.                *)
LEMMA ResultOfType ==
    ASSUME NEW r \in Requests
    PROVE  /\ ResultOf(r) \in ResultType /\ ResultOf(r) # Absent
           /\ guard_tuple(ResultOf(r)) = <<DataTs[r], DataTs[r]>>
           /\ DataTs[r] \in Nat
  <1>1. DataTs[r] \in Nat /\ r \in STRING
    BY OnlineWorkerAssumption
  <1>2. NoAv \in Availability
    BY DEF Availability
  <1>3. ResultOf(r) \in ResultType
    BY <1>1, <1>2 DEF ResultOf, ResultType, NoTs
  <1> QED
    BY <1>1, <1>3, OnlineWorkerAssumption DEF ResultOf, guard_tuple, NoTs

(* Under one feature the worker's write leaves a value at least as fresh   *)
(* as the one it offers and as the one it found.                           *)
AtLeast(r, c) == c # Absent /\ TupleLeq(guard_tuple(ResultOf(r)), guard_tuple(c))

(* The step of write_many on one feature: the record left is a request's   *)
(* result, at least as fresh as the one offered, and freshness is kept.    *)
LEMMA GuardedWrite ==
    ASSUME NEW r \in Requests, NEW c \in {ResultOf(q) : q \in Requests} \cup {Absent},
           NEW d, d = IF D9_SCRIPT(ResultOf(r), c) \in WRITE_OUTCOMES THEN ResultOf(r) ELSE c
    PROVE  /\ D9_SCRIPT(ResultOf(r), c) \in Outcomes
           /\ d \in {ResultOf(q) : q \in Requests}
           /\ AtLeast(r, d)
           /\ \A q \in Requests : AtLeast(q, c) => AtLeast(q, d)
  <1>1. D9_SCRIPT(ResultOf(r), c) \in Outcomes
    BY DEF D9_SCRIPT, Outcomes
  <1>2. CASE c = Absent
    BY <1>1, <1>2, ResultOfType DEF D9_SCRIPT, WRITE_OUTCOMES, AtLeast, TupleLeq
  <1>3. CASE c # Absent
    <2>1. PICK p \in Requests : c = ResultOf(p)
      BY <1>3
    <2>2. /\ D9_SCRIPT(ResultOf(r), c) \in WRITE_OUTCOMES => DataTs[p] <= DataTs[r]
          /\ D9_SCRIPT(ResultOf(r), c) \notin WRITE_OUTCOMES => DataTs[r] <= DataTs[p]
      <3>1. DataTs[p] \in Nat /\ DataTs[r] \in Nat
        BY ResultOfType
      <3>2. /\ LuaArgs(ResultOf(r)).dts = DataTs[r] /\ LuaArgs(ResultOf(r)).max = DataTs[r]
            /\ LuaArgs(c).dts = DataTs[p] /\ LuaArgs(c).max = DataTs[p]
        BY <2>1 DEF LuaArgs, ResultOf, NoTs
      <3> QED
        BY <1>3, <3>1, <3>2 DEF D9_SCRIPT, WRITE_OUTCOMES
    <2>3. /\ d \in {ResultOf(q) : q \in Requests} /\ d # Absent
          /\ AtLeast(r, d)
      BY <2>1, <2>2, ResultOfType DEF AtLeast, TupleLeq, TupleLess
    <2>4. ASSUME NEW q \in Requests, AtLeast(q, c)
          PROVE  AtLeast(q, d)
      BY <2>1, <2>2, <2>4, ResultOfType DEF AtLeast, TupleLeq, TupleLess
    <2> QED
      BY <1>1, <2>3, <2>4
  <1> QED
    BY <1>2, <1>3

-----------------------------------------------------------------------------
(* What holds of every worker that is handling a message.                  *)

(* A worker that is not polling holds a message of the topic.              *)
LEMMA Handling ==
    ASSUME TypeOK, NEW w \in Workers, pc[w] # "poll"
    PROVE  /\ cur[w] \in 1..Len(topic)
           /\ topic[cur[w]] \in Message
           /\ Req(w) \in Requests
           /\ Attempt(w) \in 0..(MaxAttempts - 1)
  <1>1. cur[w] \in 1..Len(topic)
    BY DEF TypeOK
  <1>2. topic[cur[w]] \in Message
    BY <1>1 DEF TypeOK
  <1> QED
    BY <1>1, <1>2 DEF Req, Attempt, Message

(* The stores and topics the worker writes hold what they should.          *)
DownstreamOK ==
    /\ online \in [Features -> {ResultOf(r) : r \in Requests} \cup {Absent}]
    /\ offline \subseteq Requests
    /\ completed \subseteq Requests \X (Outcomes \cup {"deadline_expired"})
    /\ results \subseteq Requests /\ dlq \subseteq Requests

(* Returning from process_next, after a commit, a crash or a failed call,  *)
(* leaves a well-typed idle worker.                                        *)
LEMMA ReturnType ==
    ASSUME TypeOK, NEW w \in Workers, Return(w),
           topic' \in Seq(Message), Len(topic') >= Len(topic), owner' = owner,
           position' \in 0..Len(topic'), committed' \in 0..Len(topic'),
           DownstreamOK', UNCHANGED expired,
           crashes' \in 0..MaxCrashes, rebalances' = rebalances, faults' \in 0..MaxFaults
    PROVE  TypeOK'
  <1>1. /\ pc' = [pc EXCEPT ![w] = "poll"] /\ cur' = [cur EXCEPT ![w] = 0]
        /\ outcomes' = [outcomes EXCEPT ![w] = NoOutcomes]
    BY DEF Return, Goto
  <1>2. /\ Len(topic) \in Nat /\ Len(topic') \in Nat
        /\ NoOutcomes \in [Features -> Outcomes \cup {"none"}]
    BY DEF TypeOK, NoOutcomes
  <1>3. /\ cur' \in [Workers -> 0..Len(topic')]
        /\ \A v \in Workers : pc'[v] = "poll" <=> cur'[v] = 0
    BY <1>1, <1>2 DEF TypeOK
  <1>4. outcomes' \in [Workers -> [Features -> Outcomes \cup {"none"}]]
    BY <1>1, <1>2 DEF TypeOK
  <1> QED
    BY <1>1, <1>3, <1>4 DEF TypeOK, DownstreamOK

(* A failed call is such a return.                                         *)
LEMMA FaultType ==
    ASSUME TypeOK, NEW w \in Workers, Fault(w),
           topic' \in Seq(Message), Len(topic') >= Len(topic), DownstreamOK'
    PROVE  TypeOK'
  <1>1. Return(w) /\ UNCHANGED <<owner, position, committed, expired, crashes, rebalances>>
    BY DEF Fault
  <1>2. faults' \in 0..MaxFaults
    BY OnlineWorkerAssumption DEF Fault, TypeOK
  <1>3. /\ position' \in 0..Len(topic') /\ committed' \in 0..Len(topic')
        /\ crashes' \in 0..MaxCrashes
    BY <1>1 DEF TypeOK
  <1> QED
    BY <1>1, <1>2, <1>3, ReturnType

(* A step that only moves a busy worker on keeps the types when what it    *)
(* wrote is well typed.                                                    *)
LEMMA GotoType ==
    ASSUME TypeOK, NEW w \in Workers, pc[w] # "poll",
           NEW s \in {"deadline", "publish_expired", "compute", "write_online",
                      "publish_offline", "publish_completed", "put_result",
                      "retry_or_dlq", "dead_letter", "commit"},
           Goto(w, s), NoFault, UNCHANGED <<owner, position, committed, cur>>,
           outcomes' \in [Workers -> [Features -> Outcomes \cup {"none"}]],
           topic' \in Seq(Message), Len(topic') >= Len(topic), DownstreamOK'
    PROVE  TypeOK'
  <1>1. pc' = [pc EXCEPT ![w] = s] /\ UNCHANGED <<expired, crashes, rebalances, faults>>
    BY DEF Goto, NoFault, env
  <1>2. Len(topic) \in Nat /\ Len(topic') \in Nat
    BY DEF TypeOK
  <1>3. /\ cur' \in [Workers -> 0..Len(topic')]
        /\ \A v \in Workers : pc'[v] = "poll" <=> cur'[v] = 0
    BY <1>1, <1>2 DEF TypeOK
  <1> QED
    BY <1>1, <1>2, <1>3 DEF TypeOK, DownstreamOK

(* Every variable keeps its type, through every crash, partition move and  *)
(* failed call.                                                            *)
THEOREM TypeCorrect == Spec => []TypeOK
  <1>1. Init => TypeOK
    <2> SUFFICES ASSUME Init PROVE TypeOK
      OBVIOUS
    <2>1. owner \in Workers
      BY OnlineWorkerAssumption DEF Init
    <2> QED
      BY <2>1, OnlineWorkerAssumption DEF Init, TypeOK, NoOutcomes
  <1>2. TypeOK /\ [Next]_vars => TypeOK'
    <2> SUFFICES ASSUME TypeOK, [Next]_vars PROVE TypeOK'
      OBVIOUS
    <2> USE OnlineWorkerAssumption
    <2>d. DownstreamOK /\ Len(topic) >= Len(topic)
      BY DEF DownstreamOK, TypeOK
    <2>1. ASSUME NEW r \in Requests, Submit(r)
          PROVE  TypeOK'
      <3>1. [req |-> r, attempt |-> 0] \in Message
        BY DEF Message
      <3>2. topic' \in Seq(Message) /\ Len(topic') = Len(topic) + 1
        BY <2>1, <3>1 DEF Submit, TypeOK
      <3> QED
        BY <2>1, <3>2 DEF Submit, TypeOK, Local, downstream, env
    <2>2. ASSUME NEW r \in Requests, Expire(r)
          PROVE  TypeOK'
      BY <2>2 DEF Expire, TypeOK, Local, downstream, broker
    <2>3. ASSUME NEW w \in Workers, Poll(w)
          PROVE  TypeOK'
      BY <2>3 DEF Poll, Goto, TypeOK, downstream, env, NoOutcomes
    <2>4. ASSUME NEW w \in Workers, CheckDeadline(w)
          PROVE  TypeOK'
      BY <2>4 DEF CheckDeadline, Goto, TypeOK, downstream, env, broker, Local
    <2>5. ASSUME NEW w \in Workers, PublishExpired(w)
          PROVE  TypeOK'
      <3>1. Req(w) \in Requests
        BY <2>5, Handling DEF PublishExpired
      <3>2. DownstreamOK' /\ topic' = topic
        BY <2>5, <2>d, <3>1 DEF PublishExpired, DownstreamOK, broker
      <3> QED
        BY <2>5, <2>d, <3>2, FaultType, GotoType DEF PublishExpired, TypeOK, broker, Local
    <2>6. ASSUME NEW w \in Workers, Compute(w)
          PROVE  TypeOK'
      <3>1. faults' \in 0..MaxFaults
        BY <2>6 DEF Compute, NoFault, env, TypeOK
      <3>2. PICK s \in {"retry_or_dlq", "write_online"} : pc' = [pc EXCEPT ![w] = s]
        BY <2>6 DEF Compute, Goto
      <3>3. /\ pc[w] # "poll"
            /\ UNCHANGED <<broker, Local, downstream, expired, crashes, rebalances>>
        BY <2>6 DEF Compute, NoFault, env
      <3> QED
        BY <3>1, <3>2, <3>3 DEF TypeOK, downstream, broker, Local
    <2>7. ASSUME NEW w \in Workers, NEW f \in Features, WriteOnline(w, f)
          PROVE  TypeOK'
      <3> DEFINE d == D9_SCRIPT(ResultOf(Req(w)), online[f])
      <3>1. Req(w) \in Requests /\ pc[w] # "poll"
        BY <2>7, Handling DEF WriteOnline
      <3>2. d \in Outcomes
        BY DEF D9_SCRIPT, Outcomes
      <3>3. CASE Fault(w) /\ UNCHANGED <<topic, online>>
        <4>1. DownstreamOK' /\ topic' = topic
          BY <2>7, <2>d, <3>3 DEF WriteOnline, DownstreamOK
        <4> QED
          BY <2>d, <3>3, <4>1, FaultType DEF TypeOK
      <3>4. CASE /\ online' = IF d \in WRITE_OUTCOMES
                              THEN [online EXCEPT ![f] = ResultOf(Req(w))] ELSE online
                 /\ outcomes' = [outcomes EXCEPT ![w][f] = d]
                 /\ Goto(w, IF \E g \in Features \ {f} : outcomes[w][g] = "none"
                            THEN "write_online" ELSE "publish_offline")
                 /\ NoFault /\ UNCHANGED <<broker, cur>>
        <4> HIDE DEF d
        <4>1. online' \in [Features -> {ResultOf(q) : q \in Requests} \cup {Absent}]
          BY <2>d, <3>1, <3>4 DEF DownstreamOK
        <4>2. outcomes' \in [Workers -> [Features -> Outcomes \cup {"none"}]]
          BY <3>2, <3>4 DEF TypeOK
        <4>3. DownstreamOK'
          BY <2>7, <2>d, <4>1 DEF WriteOnline, DownstreamOK
        <4> QED
          BY <2>d, <3>1, <3>4, <4>2, <4>3, GotoType DEF TypeOK, broker
      <3> QED
        BY <2>7, <3>3, <3>4 DEF WriteOnline
    <2>8. ASSUME NEW w \in Workers, PublishOffline(w)
          PROVE  TypeOK'
      <3>1. Req(w) \in Requests
        BY <2>8, Handling DEF PublishOffline
      <3>2. DownstreamOK' /\ topic' = topic
        BY <2>8, <2>d, <3>1 DEF PublishOffline, DownstreamOK, broker
      <3> QED
        BY <2>8, <2>d, <3>2, FaultType, GotoType DEF PublishOffline, TypeOK, broker, Local
    <2>9. ASSUME NEW w \in Workers, PublishCompleted(w)
          PROVE  TypeOK'
      <3>1. Req(w) \in Requests
        BY <2>9, Handling DEF PublishCompleted
      <3>2. PICK st \in Outcomes : completed' \in {completed, completed \cup {<<Req(w), st>>}}
        <4> DEFINE st == aggregate_online_status({outcomes[w][f] : f \in Features})
        <4>1. st \in Outcomes
          BY DEF aggregate_online_status, Outcomes
        <4>2. completed' \in {completed, completed \cup {<<Req(w), st>>}}
          BY <2>9 DEF PublishCompleted
        <4> QED
          BY <4>1, <4>2, Zenon
      <3>3. DownstreamOK' /\ topic' = topic
        <4>1. UNCHANGED <<online, offline, results, dlq, topic>>
          BY <2>9 DEF PublishCompleted, broker
        <4> QED
          BY <2>d, <3>1, <3>2, <4>1 DEF DownstreamOK
      <3>4. CASE Fault(w)
        BY <2>d, <3>3, <3>4, FaultType DEF TypeOK
      <3>5. CASE Goto(w, "put_result") /\ NoFault /\ UNCHANGED <<broker, Local>>
        BY <2>9, <2>d, <3>3, <3>5, GotoType DEF PublishCompleted, TypeOK, broker, Local
      <3> QED
        BY <2>9, <3>4, <3>5 DEF PublishCompleted
    <2>10. ASSUME NEW w \in Workers, PutResult(w)
           PROVE  TypeOK'
      <3>1. Req(w) \in Requests
        BY <2>10, Handling DEF PutResult
      <3>2. DownstreamOK' /\ topic' = topic
        BY <2>10, <2>d, <3>1 DEF PutResult, DownstreamOK, broker
      <3> QED
        BY <2>10, <2>d, <3>2, FaultType, GotoType DEF PutResult, TypeOK, broker, Local
    <2>11. ASSUME NEW w \in Workers, RetryOrDlq(w)
           PROVE  TypeOK'
      <3> DEFINE retry == Append(topic, [req |-> Req(w), attempt |-> Attempt(w) + 1])
      <3>1. /\ Req(w) \in Requests /\ Attempt(w) \in 0..(MaxAttempts - 1)
            /\ pc[w] # "poll"
        BY <2>11, Handling DEF RetryOrDlq
      <3>2. DownstreamOK'
        BY <2>11, <2>d DEF RetryOrDlq, downstream, DownstreamOK
      <3>3. CASE Attempt(w) + 1 < MaxAttempts
        <4>1. [req |-> Req(w), attempt |-> Attempt(w) + 1] \in Message
          BY <3>1, <3>3 DEF Message
        <4>2. /\ topic' \in {topic, retry}
              /\ \/ Fault(w)
                 \/ /\ Goto(w, "commit") /\ NoFault
                    /\ UNCHANGED <<owner, position, committed, Local>>
          BY <2>11, <3>1, <3>3 DEF RetryOrDlq
        <4>3. topic' \in Seq(Message) /\ Len(topic') >= Len(topic)
          BY <4>1, <4>2 DEF TypeOK
        <4> QED
          BY <3>1, <3>2, <4>2, <4>3, FaultType, GotoType DEF TypeOK, Local
      <3>4. CASE Attempt(w) + 1 >= MaxAttempts
        <4>1. Goto(w, "dead_letter") /\ NoFault /\ UNCHANGED <<broker, Local>>
          BY <2>11, <3>1, <3>4 DEF RetryOrDlq
        <4> QED
          BY <2>d, <3>1, <3>2, <4>1, GotoType DEF TypeOK, Local, broker
      <3> QED
        BY <3>1, <3>3, <3>4
    <2>12. ASSUME NEW w \in Workers, DeadLetter(w)
           PROVE  TypeOK'
      <3>1. Req(w) \in Requests
        BY <2>12, Handling DEF DeadLetter
      <3>2. DownstreamOK' /\ topic' = topic
        BY <2>12, <2>d, <3>1 DEF DeadLetter, DownstreamOK, broker
      <3> QED
        BY <2>12, <2>d, <3>2, FaultType, GotoType DEF DeadLetter, TypeOK, broker, Local
    <2>13. ASSUME NEW w \in Workers, Commit(w)
           PROVE  TypeOK'
      <3>1. DownstreamOK' /\ committed' \in 0..Len(topic)
        BY <2>13, <2>d DEF Commit, downstream, DownstreamOK, TypeOK
      <3> QED
        BY <2>13, <2>d, <3>1, ReturnType DEF Commit, TypeOK, env
    <2>14. ASSUME NEW w \in Workers, Crash(w)
           PROVE  TypeOK'
      <3>1. DownstreamOK' /\ position' \in 0..Len(topic) /\ crashes' \in 0..MaxCrashes
        BY <2>14, <2>d DEF Crash, downstream, DownstreamOK, TypeOK
      <3> QED
        BY <2>14, <2>d, <3>1, ReturnType DEF Crash, TypeOK
    <2>15. ASSUME NEW w \in Workers, Rebalance(w)
           PROVE  TypeOK'
      BY <2>15 DEF Rebalance, TypeOK, downstream, Local
    <2>16. CASE UNCHANGED vars
      BY <2>16 DEF vars, broker, downstream, env, TypeOK
    <2> QED
      BY <2>1, <2>2, <2>3, <2>4, <2>5, <2>6, <2>7, <2>8, <2>9, <2>10, <2>11,
         <2>12, <2>13, <2>14, <2>15, <2>16 DEF Next, Step
  <1> QED
    BY <1>1, <1>2, PTL DEF Spec

-----------------------------------------------------------------------------
(* What any step may do, cited by the theorems below.                      *)

(* Messages stay where they are, published events, results and             *)
(* dead-lettered messages stay, and a feature is never served less fresh.  *)
LEMMA Monotone ==
    ASSUME TypeOK, [Next]_vars
    PROVE  /\ Len(topic') >= Len(topic)
           /\ \A i \in 1..Len(topic) : topic'[i] = topic[i]
           /\ offline \subseteq offline' /\ completed \subseteq completed'
           /\ results \subseteq results' /\ dlq \subseteq dlq'
           /\ \A q \in Requests, f \in Features :
                 AtLeast(q, online[f]) => AtLeast(q, online'[f])
  <1> DEFINE Kept == /\ offline \subseteq offline' /\ completed \subseteq completed'
                     /\ results \subseteq results' /\ dlq \subseteq dlq'
             Grown == /\ Len(topic') >= Len(topic)
                      /\ \A i \in 1..Len(topic) : topic'[i] = topic[i]
             Fresh == \A q \in Requests, f \in Features :
                         AtLeast(q, online[f]) => AtLeast(q, online'[f])
  <1>g. topic' = topic => Grown
    BY DEF TypeOK
  <1>f. online' = online => Fresh
    OBVIOUS
  <1>1. ASSUME NEW r \in Requests, Submit(r) PROVE Grown /\ Kept /\ Fresh
    BY <1>1, <1>f DEF Submit, TypeOK, downstream
  <1>2. ASSUME NEW r \in Requests, Expire(r) PROVE Grown /\ Kept /\ Fresh
    BY <1>2, <1>g, <1>f DEF Expire, downstream, broker
  <1>3. ASSUME NEW w \in Workers,
               Poll(w) \/ CheckDeadline(w) \/ Compute(w) \/ Commit(w) \/ Crash(w) \/ Rebalance(w)
        PROVE  Grown /\ Kept /\ Fresh
    BY <1>3, <1>g, <1>f
    DEF Poll, CheckDeadline, Compute, Commit, Crash, Rebalance, downstream, broker
  <1>4. ASSUME NEW w \in Workers, PublishExpired(w) PROVE Grown /\ Kept /\ Fresh
    BY <1>4, <1>g, <1>f DEF PublishExpired, broker
  <1>5. ASSUME NEW w \in Workers, NEW g \in Features, WriteOnline(w, g)
        PROVE  Grown /\ Kept /\ Fresh
    <2>1. Grown /\ Kept
      BY <1>5, <1>g DEF WriteOnline, broker
    <2>2. CASE online' = online
      BY <2>1, <2>2, <1>f
    <2>3. CASE online' = [online EXCEPT ![g] = ResultOf(Req(w))]
               /\ D9_SCRIPT(ResultOf(Req(w)), online[g]) \in WRITE_OUTCOMES
      <3>1. Req(w) \in Requests
        BY <1>5, Handling DEF WriteOnline
      <3>2. online[g] \in {ResultOf(q) : q \in Requests} \cup {Absent}
        BY DEF TypeOK
      <3>3. \A q \in Requests : AtLeast(q, online[g]) => AtLeast(q, ResultOf(Req(w)))
        BY <2>3, <3>1, <3>2, GuardedWrite
      <3> QED
        BY <2>1, <2>3, <3>3 DEF TypeOK
    <2> QED
      BY <1>5, <2>2, <2>3 DEF WriteOnline
  <1>6. ASSUME NEW w \in Workers, PublishOffline(w) PROVE Grown /\ Kept /\ Fresh
    BY <1>6, <1>g, <1>f DEF PublishOffline, broker
  <1>7. ASSUME NEW w \in Workers, PublishCompleted(w) PROVE Grown /\ Kept /\ Fresh
    <2>1. UNCHANGED <<topic, online, offline, results, dlq>>
      BY <1>7 DEF PublishCompleted, broker
    <2>2. \E st : completed' \in {completed, completed \cup {<<Req(w), st>>}}
      BY <1>7, Zenon DEF PublishCompleted
    <2> QED
      BY <1>g, <1>f, <2>1, <2>2
  <1>8. ASSUME NEW w \in Workers, PutResult(w) PROVE Grown /\ Kept /\ Fresh
    BY <1>8, <1>g, <1>f DEF PutResult, broker
  <1>9. ASSUME NEW w \in Workers, RetryOrDlq(w) PROVE Grown /\ Kept /\ Fresh
    <2>1. UNCHANGED <<online, offline, completed, results, dlq>>
      BY <1>9 DEF RetryOrDlq, downstream
    <2>2. \/ topic' = topic
          \/ topic' = Append(topic, [req |-> Req(w), attempt |-> Attempt(w) + 1])
      BY <1>9 DEF RetryOrDlq, broker
    <2>3. Grown
      BY <2>2 DEF TypeOK
    <2> QED
      BY <1>f, <2>1, <2>3
  <1>10. ASSUME NEW w \in Workers, DeadLetter(w) PROVE Grown /\ Kept /\ Fresh
    BY <1>10, <1>g, <1>f DEF DeadLetter, broker
  <1>11. ASSUME UNCHANGED vars PROVE Grown /\ Kept /\ Fresh
    BY <1>11, <1>g, <1>f DEF vars, broker, downstream
  <1> HIDE DEF Grown, Kept, Fresh
  <1>12. ASSUME NEW w \in Workers, Step(w) PROVE Grown /\ Kept /\ Fresh
    BY <1>3, <1>4, <1>5, <1>6, <1>7, <1>8, <1>9, <1>10, <1>12 DEF Step
  <1>13. Grown /\ Kept /\ Fresh
    BY <1>1, <1>2, <1>3, <1>11, <1>12 DEF Next
  <1> QED
    BY <1>13 DEF Grown, Kept, Fresh

(* A step leaves a worker alone, ends what it was doing, or is its own.    *)
LEMMA StepOf ==
    ASSUME TypeOK, [Next]_vars, NEW w \in Workers
    PROVE  \/ pc'[w] = pc[w] /\ cur'[w] = cur[w] /\ outcomes'[w] = outcomes[w]
           \/ pc'[w] = "poll"
           \/ Step(w)
  <1> DEFINE Same == pc'[w] = pc[w] /\ cur'[w] = cur[w] /\ outcomes'[w] = outcomes[w]
  <1>1. ASSUME NEW r \in Requests, Submit(r) \/ Expire(r) PROVE Same
    BY <1>1 DEF Submit, Expire, Local
  <1>2. ASSUME NEW v \in Workers, v # w, Return(v) PROVE Same
    BY <1>2 DEF Return, Goto, TypeOK
  <1>3. ASSUME NEW v \in Workers, Crash(v) PROVE Same \/ pc'[w] = "poll"
    BY <1>2, <1>3 DEF Crash, Return, Goto, TypeOK
  <1>4. ASSUME NEW v \in Workers, Rebalance(v) PROVE Same
    BY <1>4 DEF Rebalance, Local
  <1>5. ASSUME NEW v \in Workers, v # w, Step(v) PROVE Same
    <2>1. CASE Return(v)
      BY <1>2, <1>5, <2>1
    <2>2. CASE ~Return(v)
      <3>1. CASE Poll(v)
        BY <1>5, <3>1 DEF Poll, Goto, TypeOK
      <3>2. ASSUME NEW f \in Features, WriteOnline(v, f) PROVE Same
        <4>1. /\ \E x : pc' = [pc EXCEPT ![v] = x]
              /\ \E y : outcomes' = [outcomes EXCEPT ![v] = y]
              /\ cur' = cur
          <5>1. \E y : outcomes' = [outcomes EXCEPT ![v][f] = y]
            BY <2>2, <3>2 DEF WriteOnline, Fault
          <5>2. \E x : Goto(v, x) /\ cur' = cur
            BY <2>2, <3>2, Zenon DEF WriteOnline, Fault
          <5> QED
            BY <5>1, <5>2 DEF Goto
        <4> QED
          BY <1>5, <4>1 DEF TypeOK
      <3>3. CASE \/ CheckDeadline(v) \/ PublishExpired(v) \/ Compute(v) \/ PublishOffline(v)
                 \/ PublishCompleted(v) \/ PutResult(v) \/ RetryOrDlq(v) \/ DeadLetter(v)
        <4>1. UNCHANGED <<cur, outcomes>> /\ \E x : Goto(v, x)
          BY <2>2, <3>3, Zenon
          DEF CheckDeadline, PublishExpired, Compute, PublishOffline, PublishCompleted,
              PutResult, RetryOrDlq, DeadLetter, Local, Fault
        <4> QED
          BY <1>5, <4>1 DEF Goto, TypeOK
      <3> QED
        BY <1>5, <2>2, <3>1, <3>2, <3>3 DEF Step, Commit
    <2> QED
      BY <2>1, <2>2
  <1>6. CASE UNCHANGED vars
    BY <1>6 DEF vars
  <1> QED
    BY <1>1, <1>3, <1>4, <1>5, <1>6 DEF Next

(* The message a worker is handling stays the same until it returns.       *)
LEMMA SameRequest ==
    ASSUME TypeOK, [Next]_vars, NEW w \in Workers, pc[w] # "poll", cur'[w] = cur[w]
    PROVE  Req(w)' = Req(w) /\ Attempt(w)' = Attempt(w)
  <1>1. cur[w] \in 1..Len(topic)
    BY Handling
  <1>2. topic'[cur[w]] = topic[cur[w]]
    BY <1>1, Monotone
  <1> QED
    BY <1>2 DEF Req, Attempt

-----------------------------------------------------------------------------
(* How far a worker's own request has come downstream, by the step it is   *)
(* at: the strengthening ResultImpliesDownstream needs.                    *)
Reached(w) ==
    /\ \A f \in Features : outcomes[w][f] # "none" => AtLeast(Req(w), online[f])
    /\ pc[w] \in {"publish_offline", "publish_completed", "put_result"} =>
          \A f \in Features : outcomes[w][f] # "none"
    /\ pc[w] \in {"publish_completed", "put_result"} => Req(w) \in offline
    /\ pc[w] = "put_result" => \E s \in Outcomes : <<Req(w), s>> \in completed
DownstreamReached == \A w \in Workers : pc[w] # "poll" => Reached(w)

(* Each step of any worker, crash or partition move keeps it.              *)
LEMMA DownstreamStep ==
    TypeOK /\ DownstreamReached /\ [Next]_vars => DownstreamReached'
  <1> SUFFICES ASSUME TypeOK, DownstreamReached, [Next]_vars,
                      NEW w \in Workers, pc'[w] # "poll"
               PROVE  Reached(w)'
    BY DEF DownstreamReached
  <1> DEFINE Busy == pc[w] # "poll" /\ cur'[w] = cur[w] /\ outcomes'[w] = outcomes[w]
  <1>1. ASSUME Busy
        PROVE  /\ Req(w)' = Req(w) /\ Reached(w) /\ Req(w) \in Requests
               /\ \A f \in Features : outcomes'[w][f] # "none" => AtLeast(Req(w), online'[f])
    BY <1>1, SameRequest, Handling, Monotone DEF DownstreamReached, Reached
  <1>2. CASE Busy /\ pc'[w] = pc[w]
    BY <1>1, <1>2, Monotone DEF Reached
  <1>3. CASE Poll(w)
    <2>1. outcomes'[w] = NoOutcomes /\ pc'[w] \in {"dead_letter", "deadline"}
      BY <1>3 DEF Poll, Goto, TypeOK
    <2> QED
      BY <2>1 DEF Reached, NoOutcomes
  <1>4. CASE \/ CheckDeadline(w) \/ Compute(w) \/ PublishExpired(w)
             \/ RetryOrDlq(w) \/ DeadLetter(w) \/ PutResult(w)
    <2>1. Busy
      BY <1>4 DEF CheckDeadline, Compute, PublishExpired, RetryOrDlq, DeadLetter, PutResult,
                  Fault, Return, Goto, Local, TypeOK
    <2>2. pc'[w] \in {"publish_expired", "compute", "commit", "retry_or_dlq", "write_online",
                      "dead_letter"}
      BY <1>4 DEF CheckDeadline, Compute, PublishExpired, RetryOrDlq, DeadLetter, PutResult,
                  Fault, Return, Goto, TypeOK
    <2> QED
      BY <1>1, <2>1, <2>2 DEF Reached
  <1>5. ASSUME NEW f \in Features, WriteOnline(w, f)
        PROVE  Reached(w)'
    <2> DEFINE r == Req(w)
               d == D9_SCRIPT(ResultOf(r), online[f])
    <2>1. /\ pc[w] = "write_online" /\ cur' = cur
          /\ online' = IF d \in WRITE_OUTCOMES
                       THEN [online EXCEPT ![f] = ResultOf(r)] ELSE online
          /\ outcomes' = [outcomes EXCEPT ![w][f] = d]
          /\ Goto(w, IF \E g \in Features \ {f} : outcomes[w][g] = "none"
                     THEN "write_online" ELSE "publish_offline")
      BY <1>5 DEF WriteOnline, Fault, Return, Goto, TypeOK
    <2>2. r \in Requests /\ Req(w)' = r
      BY <2>1, Handling, SameRequest
    <2>3. online[f] \in {ResultOf(q) : q \in Requests} \cup {Absent}
      BY DEF TypeOK
    <2>4. d \in Outcomes /\ AtLeast(r, online'[f])
      BY <2>1, <2>2, <2>3, GuardedWrite DEF TypeOK
    <2> HIDE DEF d, r
    <2>5. ASSUME NEW g \in Features, outcomes'[w][g] # "none"
          PROVE  AtLeast(r, online'[g])
      <3>1. CASE g = f
        BY <2>4, <3>1
      <3>2. CASE g # f
        <4>1. outcomes[w][g] # "none"
          BY <2>1, <2>5, <3>2 DEF TypeOK
        <4>2. AtLeast(r, online[g])
          BY <2>1, <4>1 DEF DownstreamReached, Reached, r
        <4> QED
          BY <2>2, <4>2, Monotone
      <3> QED
        BY <3>1, <3>2
    <2>6. CASE \E g \in Features \ {f} : outcomes[w][g] = "none"
      <3>1. pc'[w] = "write_online"
        BY <2>1, <2>6 DEF Goto, TypeOK
      <3> QED
        BY <2>2, <2>5, <3>1 DEF Reached
    <2>7. CASE ~ \E g \in Features \ {f} : outcomes[w][g] = "none"
      <3>1. pc'[w] = "publish_offline"
        BY <2>1, <2>7 DEF Goto, TypeOK
      <3>2. \A g \in Features : outcomes'[w][g] # "none"
        BY <2>1, <2>4, <2>7 DEF TypeOK, Outcomes
      <3> QED
        BY <2>2, <2>5, <3>1, <3>2 DEF Reached
    <2> QED
      BY <2>6, <2>7
  <1>6. CASE PublishOffline(w)
    <2>1. /\ Busy /\ pc[w] = "publish_offline"
          /\ offline' = offline \cup {Req(w)} /\ pc'[w] = "publish_completed"
      BY <1>6 DEF PublishOffline, Fault, Return, Goto, Local, TypeOK
    <2> QED
      BY <1>1, <2>1 DEF Reached
  <1>7. CASE PublishCompleted(w)
    <2> DEFINE st == aggregate_online_status({outcomes[w][f] : f \in Features})
    <2>1. st \in Outcomes
      BY DEF aggregate_online_status, Outcomes
    <2>2. ~Fault(w)
      BY DEF Fault, Return, Goto, TypeOK
    <2>3. /\ completed' = completed \cup {<<Req(w), st>>} /\ Goto(w, "put_result")
          /\ UNCHANGED Local /\ pc[w] = "publish_completed" /\ offline' = offline
      BY <1>7, <2>2 DEF PublishCompleted
    <2>4. Busy /\ pc'[w] = "put_result"
      BY <2>3 DEF Goto, Local, TypeOK
    <2>5. <<Req(w), st>> \in completed'
      BY <2>3
    <2> HIDE DEF st
    <2> QED
      BY <1>1, <2>1, <2>3, <2>4, <2>5 DEF Reached
  <1>8. CASE Commit(w)
    BY <1>8 DEF Commit, Return, Goto, TypeOK
  <1>9. CASE Step(w)
    BY <1>3, <1>4, <1>5, <1>6, <1>7, <1>8, <1>9 DEF Step
  <1> QED
    BY <1>2, <1>9, StepOf

(* A stored result implies the offline write, the completion event and a   *)
(* value at least as fresh under every feature, in whichever way the       *)
(* redeliveries of its message and the other requests interleave.          *)
THEOREM ResultsAreBackedDownstream == Spec => []ResultImpliesDownstream
  <1>1. Init => DownstreamReached /\ ResultImpliesDownstream
    BY DEF Init, DownstreamReached, ResultImpliesDownstream
  <1>2. TypeOK /\ DownstreamReached /\ ResultImpliesDownstream /\ [Next]_vars
           => ResultImpliesDownstream'
    <2> SUFFICES ASSUME TypeOK, DownstreamReached, ResultImpliesDownstream, [Next]_vars,
                        NEW r \in results'
                 PROVE  /\ r \in offline'
                        /\ \E s \in Outcomes : <<r, s>> \in completed'
                        /\ \A f \in Features : AtLeast(r, online'[f])
      BY DEF ResultImpliesDownstream, AtLeast
    <2>1. CASE r \in results
      <3>1. r \in Requests /\ r \in offline /\ \E s \in Outcomes : <<r, s>> \in completed
        BY <2>1 DEF ResultImpliesDownstream, TypeOK
      <3>2. \A f \in Features : AtLeast(r, online[f])
        BY <2>1 DEF ResultImpliesDownstream, AtLeast
      <3> QED
        BY <3>1, <3>2, Monotone
    <2>2. CASE r \notin results
      <3>1. PICK w \in Workers : PutResult(w) /\ r = Req(w)
        <4>1. PICK w \in Workers : PutResult(w)
          BY <2>2 DEF Next, Step, Submit, Expire, Crash, Rebalance, Poll, CheckDeadline,
             PublishExpired, Compute, WriteOnline, PublishOffline, PublishCompleted,
             RetryOrDlq, DeadLetter, Commit, downstream, vars
        <4> QED
          BY <2>2, <4>1 DEF PutResult
      <3>2. Reached(w) /\ pc[w] = "put_result" /\ r \in Requests
        BY <3>1, Handling DEF PutResult, DownstreamReached
      <3>3. /\ r \in offline /\ \E s \in Outcomes : <<r, s>> \in completed
            /\ \A f \in Features : AtLeast(r, online[f])
        BY <3>1, <3>2 DEF Reached
      <3> QED
        BY <3>2, <3>3, Monotone
    <2> QED
      BY <2>1, <2>2
  <1> QED
    BY <1>1, <1>2, DownstreamStep, TypeCorrect, PTL DEF Spec

-----------------------------------------------------------------------------
(* The messages up to n are settled or have a retry behind n.              *)
AccountedUpTo(n) ==
    \A i \in 1..n :
        \/ Settled(topic[i].req)
        \/ \E j \in (n + 1)..Len(topic) : topic[j].req = topic[i].req

(* The strengthening NoSilentLoss needs: what lies before the message a    *)
(* worker is handling is accounted for, at its commit the message too; and *)
(* the owner reads on from there.                                          *)
NothingSkipped ==
    /\ AccountedUpTo(committed)
    /\ \A w \in Workers :
          /\ pc[w] # "poll" => AccountedUpTo(cur[w] - 1)
          /\ pc[w] = "commit" => AccountedUpTo(cur[w])
    /\ IF pc[owner] = "poll" THEN AccountedUpTo(position) ELSE position = cur[owner]
LossInv == faults = 0 => NothingSkipped

(* What is accounted for stays accounted for.                              *)
LEMMA AccountedKept ==
    ASSUME TypeOK, [Next]_vars, NEW n \in 0..Len(topic), AccountedUpTo(n)
    PROVE  AccountedUpTo(n)'
  <1> SUFFICES ASSUME NEW i \in 1..n
               PROVE  \/ Settled(topic[i].req)'
                      \/ \E j \in (n + 1)..Len(topic') : topic'[j].req = topic'[i].req
    BY DEF AccountedUpTo
  <1>1. Len(topic) \in Nat /\ Len(topic') \in Nat
    BY DEF TypeOK, Next, Submit, Expire, Step, Crash, Rebalance, Poll, CheckDeadline,
       PublishExpired, Compute, WriteOnline, PublishOffline, PublishCompleted, PutResult,
       RetryOrDlq, DeadLetter, Commit, broker, vars
  <1>2. topic'[i] = topic[i] /\ i \in 1..Len(topic)
    BY <1>1, Monotone
  <1>3. CASE Settled(topic[i].req)
    BY <1>2, <1>3, Monotone DEF Settled
  <1>4. CASE \E j \in (n + 1)..Len(topic) : topic[j].req = topic[i].req
    <2>1. PICK j \in (n + 1)..Len(topic) : topic[j].req = topic[i].req
      BY <1>4
    <2>2. topic'[j] = topic[j] /\ j \in (n + 1)..Len(topic')
      BY <1>1, Monotone
    <2> QED
      BY <1>2, <2>1, <2>2
  <1> QED
    BY <1>3, <1>4 DEF AccountedUpTo

(* A message joins the accounted ones when its request is settled or tried *)
(* again further on.                                                       *)
LEMMA AccountMessage ==
    ASSUME TypeOK', NEW n \in 1..Len(topic'), AccountedUpTo(n - 1)',
           \/ Settled(topic[n].req)'
           \/ \E j \in (n + 1)..Len(topic') : topic'[j].req = topic'[n].req
    PROVE  AccountedUpTo(n)'
  <1> SUFFICES ASSUME NEW i \in 1..n
               PROVE  \/ Settled(topic[i].req)'
                      \/ \E j \in (n + 1)..Len(topic') : topic'[j].req = topic'[i].req
    BY DEF AccountedUpTo
  <1>1. Len(topic') \in Nat
    BY DEF TypeOK
  <1>2. CASE i = n
    BY <1>2
  <1>3. CASE i # n
    <2>1. i \in 1..(n - 1)
      BY <1>1, <1>3
    <2>2. \/ Settled(topic[i].req)'
          \/ \E j \in n..Len(topic') : topic'[j].req = topic'[i].req
      BY <2>1 DEF AccountedUpTo
    <2>3. CASE \E j \in n..Len(topic') : topic'[j].req = topic'[i].req
      <3>1. PICK j \in n..Len(topic') : topic'[j].req = topic'[i].req
        BY <2>3
      <3>2. CASE j = n
        BY <3>1, <3>2 DEF Settled
      <3>3. CASE j # n
        BY <1>1, <3>1, <3>3
      <3> QED
        BY <3>2, <3>3
    <2> QED
      BY <2>2, <2>3
  <1> QED
    BY <1>2, <1>3

(* A busy worker that goes on to its next step skips nothing, if it goes   *)
(* to its commit only with its message accounted for.                      *)
LEMMA MoveOn ==
    ASSUME TypeOK, NothingSkipped, [Next]_vars, NEW w \in Workers, pc[w] # "poll",
           NEW s, s # "poll", pc' = [pc EXCEPT ![w] = s],
           UNCHANGED <<owner, position, committed, cur>>,
           s = "commit" => AccountedUpTo(cur[w])'
    PROVE  NothingSkipped'
  <1>1. AccountedUpTo(committed)'
    BY AccountedKept DEF NothingSkipped, TypeOK
  <1>2. ASSUME NEW v \in Workers, pc'[v] # "poll"
        PROVE  AccountedUpTo(cur[v] - 1)'
    <2>1. pc[v] # "poll"
      BY <1>2 DEF TypeOK
    <2>2. cur[v] \in 1..Len(topic) /\ AccountedUpTo(cur[v] - 1)
      BY <2>1, Handling DEF NothingSkipped
    <2>3. cur[v] - 1 \in 0..Len(topic)
      BY <2>2 DEF TypeOK
    <2> QED
      BY <2>2, <2>3, AccountedKept
  <1>3. ASSUME NEW v \in Workers, pc'[v] = "commit"
        PROVE  AccountedUpTo(cur[v])'
    <2>1. CASE v = w
      BY <1>3, <2>1 DEF TypeOK
    <2>2. CASE v # w
      <3>1. pc[v] = "commit"
        BY <1>3, <2>2 DEF TypeOK
      <3>2. cur[v] \in 0..Len(topic) /\ AccountedUpTo(cur[v])
        BY <3>1 DEF NothingSkipped, TypeOK
      <3> QED
        BY <3>2, AccountedKept
    <2> QED
      BY <2>1, <2>2
  <1>4. IF pc'[owner'] = "poll" THEN AccountedUpTo(position)' ELSE position' = cur'[owner']
    <2>1. pc'[owner'] = "poll" <=> pc[owner] = "poll"
      BY DEF TypeOK
    <2> QED
      BY <2>1, AccountedKept DEF NothingSkipped, TypeOK
  <1> QED
    BY <1>1, <1>2, <1>3, <1>4 DEF NothingSkipped

(* Each step keeps it: only a failed call, which counts as a fault, leaves *)
(* a message behind without a commit.                                      *)
LEMMA LossStep ==
    TypeOK /\ TypeOK' /\ LossInv /\ [Next]_vars => LossInv'
  <1> SUFFICES ASSUME TypeOK, TypeOK', LossInv, [Next]_vars, faults' = 0
               PROVE  NothingSkipped'
    BY DEF LossInv
  <1>1. faults = 0 /\ \A w \in Workers : ~Fault(w)
    <2>1. faults' = faults \/ faults' = faults + 1
      BY DEF Next, Submit, Expire, Step, Crash, Rebalance, Poll, CheckDeadline,
       PublishExpired, Compute, WriteOnline, PublishOffline, PublishCompleted, PutResult,
       RetryOrDlq, DeadLetter, Commit, Fault, NoFault, env, vars
    <2> QED
      BY <2>1 DEF Fault, TypeOK
  <1>2. NothingSkipped
    BY <1>1 DEF LossInv
  <1>3. /\ AccountedUpTo(committed) /\ committed \in 0..Len(topic)
        /\ Len(topic) \in Nat /\ position \in 0..Len(topic)
    BY <1>2 DEF NothingSkipped, TypeOK
  <1>4. ASSUME NEW w \in Workers, pc[w] # "poll", NEW s, s # "poll", Goto(w, s),
               UNCHANGED <<owner, position, committed, cur>>,
               s = "commit" =>
                  \/ Settled(Req(w))'
                  \/ \E j \in (cur[w] + 1)..Len(topic') : topic'[j].req = Req(w)
        PROVE  NothingSkipped'
    <2>1. cur[w] \in 1..Len(topic) /\ AccountedUpTo(cur[w] - 1)
      BY <1>2, <1>4, Handling DEF NothingSkipped
    <2>2. cur[w] - 1 \in 0..Len(topic) /\ cur[w] \in 1..Len(topic')
      <3>1. Len(topic') \in Nat
        BY DEF TypeOK
      <3>2. Len(topic') >= Len(topic)
        BY Monotone
      <3> QED
        BY <1>3, <2>1, <3>1, <3>2
    <2>3. AccountedUpTo(cur[w] - 1)'
      BY <1>4, <2>1, <2>2, AccountedKept
    <2>4. Req(w)' = Req(w) /\ Req(w)' = topic'[cur[w]].req
      BY <1>4, SameRequest DEF Req
    <2>5. s = "commit" => AccountedUpTo(cur[w])'
      BY <1>4, <2>2, <2>3, <2>4, AccountMessage
    <2> QED
      BY <1>2, <1>4, <2>5, MoveOn DEF Goto
  <1>5. ASSUME NEW w \in Workers, Return(w), UNCHANGED <<topic, owner>>,
               AccountedUpTo(committed)',
               position' = IF w = owner /\ Crash(w) THEN committed ELSE position,
               w = owner => AccountedUpTo(position)'
        PROVE  NothingSkipped'
    <2>1. /\ pc' = [pc EXCEPT ![w] = "poll"] /\ cur' = [cur EXCEPT ![w] = 0]
      BY <1>5 DEF Return, Goto
    <2>2. ASSUME NEW v \in Workers, pc'[v] # "poll"
          PROVE  /\ AccountedUpTo(cur[v] - 1)'
                 /\ pc'[v] = "commit" => AccountedUpTo(cur[v])'
      <3>1. pc[v] = pc'[v] /\ cur'[v] = cur[v]
        BY <2>1, <2>2 DEF TypeOK
      <3>2. /\ cur[v] \in 1..Len(topic) /\ AccountedUpTo(cur[v] - 1)
            /\ pc[v] = "commit" => AccountedUpTo(cur[v])
        BY <1>2, <2>2, <3>1, Handling DEF NothingSkipped
      <3>3. cur[v] - 1 \in 0..Len(topic) /\ cur[v] \in 0..Len(topic)
        BY <1>3, <3>2
      <3> QED
        BY <3>1, <3>2, <3>3, AccountedKept
    <2>3. IF pc'[owner'] = "poll" THEN AccountedUpTo(position)' ELSE position' = cur'[owner']
      <3>1. CASE w = owner
        BY <1>5, <2>1, <3>1 DEF TypeOK
      <3>2. CASE w # owner
        <4>1. pc'[owner] = pc[owner] /\ cur'[owner] = cur[owner] /\ position' = position
          BY <1>5, <2>1, <3>2 DEF TypeOK
        <4>2. pc[owner] = "poll" => AccountedUpTo(position)'
          BY <1>2, <1>3, <4>1, AccountedKept DEF NothingSkipped
        <4> QED
          BY <1>2, <1>5, <4>1, <4>2 DEF NothingSkipped
      <3> QED
        BY <3>1, <3>2
    <2> QED
      BY <1>5, <2>2, <2>3 DEF NothingSkipped
  <1>6. ASSUME UNCHANGED <<owner, position, committed, pc, cur>>
        PROVE  NothingSkipped'
    <2>1. AccountedUpTo(committed)'
      BY <1>3, <1>6, AccountedKept
    <2>2. ASSUME NEW v \in Workers, pc[v] # "poll"
          PROVE  /\ AccountedUpTo(cur[v] - 1)'
                 /\ pc[v] = "commit" => AccountedUpTo(cur[v])'
      <3>1. /\ cur[v] \in 1..Len(topic) /\ AccountedUpTo(cur[v] - 1)
            /\ pc[v] = "commit" => AccountedUpTo(cur[v])
        BY <1>2, <2>2, Handling DEF NothingSkipped
      <3>2. cur[v] - 1 \in 0..Len(topic) /\ cur[v] \in 0..Len(topic)
        BY <1>3, <3>1
      <3> QED
        BY <1>6, <3>1, <3>2, AccountedKept
    <2>3. IF pc[owner] = "poll" THEN AccountedUpTo(position)' ELSE position = cur[owner]
      BY <1>2, <1>3, <1>6, AccountedKept DEF NothingSkipped
    <2> QED
      BY <1>6, <2>1, <2>2, <2>3 DEF NothingSkipped
  <1>7. ASSUME NEW r \in Requests, Submit(r) \/ Expire(r)
        PROVE  NothingSkipped'
    BY <1>6, <1>7 DEF Submit, Expire, Local, broker
  <1>8. ASSUME NEW w \in Workers, Poll(w)
        PROVE  NothingSkipped'
    <2>1. /\ w = owner /\ pc[w] = "poll" /\ position' = position + 1
          /\ cur' = [cur EXCEPT ![w] = position + 1] /\ UNCHANGED <<topic, owner, committed>>
          /\ \E s \in {"dead_letter", "deadline"} : pc' = [pc EXCEPT ![w] = s]
      BY <1>8 DEF Poll, Goto
    <2>2. AccountedUpTo(position)
      BY <1>2, <2>1 DEF NothingSkipped
    <2>3. AccountedUpTo(committed)'
      BY <1>3, <2>1, AccountedKept
    <2>4. ASSUME NEW v \in Workers, pc'[v] # "poll"
          PROVE  /\ AccountedUpTo(cur[v] - 1)'
                 /\ pc'[v] = "commit" => AccountedUpTo(cur[v])'
      <3>1. CASE v = w
        <4>1. cur'[v] - 1 = position /\ pc'[v] # "commit"
          BY <1>3, <2>1, <3>1 DEF TypeOK
        <4>2. \A n \in 0..Len(topic) : AccountedUpTo(n) => AccountedUpTo(n)'
          BY AccountedKept
        <4> QED
          BY <1>3, <2>2, <4>1, <4>2 DEF AccountedUpTo
      <3>2. CASE v # w
        <4>1. pc[v] = pc'[v] /\ cur'[v] = cur[v]
          BY <2>1, <3>2 DEF TypeOK
        <4>2. /\ cur[v] \in 1..Len(topic) /\ AccountedUpTo(cur[v] - 1)
              /\ pc[v] = "commit" => AccountedUpTo(cur[v])
          BY <1>2, <2>4, <4>1, Handling DEF NothingSkipped
        <4>3. cur[v] - 1 \in 0..Len(topic) /\ cur[v] \in 0..Len(topic)
          BY <1>3, <4>2
        <4> QED
          BY <4>1, <4>2, <4>3, AccountedKept
      <3> QED
        BY <3>1, <3>2
    <2>5. pc'[owner'] # "poll" /\ position' = cur'[owner']
      BY <2>1 DEF TypeOK
    <2> QED
      BY <2>3, <2>4, <2>5 DEF NothingSkipped
  <1>9. ASSUME NEW w \in Workers, CheckDeadline(w) \/ Compute(w)
        PROVE  NothingSkipped'
    <2>1. /\ pc[w] # "poll" /\ UNCHANGED <<owner, position, committed, cur>>
          /\ \E s \in {"publish_expired", "compute", "retry_or_dlq", "write_online"} : Goto(w, s)
      BY <1>9 DEF CheckDeadline, Compute, broker, Local
    <2> QED
      BY <1>4, <2>1
  <1>10. ASSUME NEW w \in Workers, PublishExpired(w)
         PROVE  NothingSkipped'
    <2>1. /\ pc[w] # "poll" /\ UNCHANGED <<owner, position, committed, cur>>
          /\ <<Req(w), "deadline_expired">> \in completed' /\ Goto(w, "commit")
      BY <1>1, <1>10 DEF PublishExpired, broker, Local
    <2>2. Settled(Req(w))'
      BY <2>1, SameRequest DEF Settled
    <2> QED
      BY <1>4, <2>1, <2>2
  <1>11. ASSUME NEW w \in Workers, NEW f \in Features, WriteOnline(w, f)
         PROVE  NothingSkipped'
    <2>1. /\ pc[w] # "poll" /\ UNCHANGED <<owner, position, committed, cur>>
          /\ \E s \in {"write_online", "publish_offline"} : Goto(w, s)
      BY <1>1, <1>11 DEF WriteOnline, broker
    <2> QED
      BY <1>4, <2>1
  <1>12. ASSUME NEW w \in Workers, PublishOffline(w) \/ PublishCompleted(w)
         PROVE  NothingSkipped'
    <2>1. /\ pc[w] # "poll" /\ UNCHANGED <<owner, position, committed, cur>>
          /\ \E s \in {"publish_completed", "put_result"} : Goto(w, s)
      BY <1>1, <1>12 DEF PublishOffline, PublishCompleted, broker, Local
    <2> QED
      BY <1>4, <2>1
  <1>13. ASSUME NEW w \in Workers, PutResult(w) \/ DeadLetter(w)
         PROVE  NothingSkipped'
    <2>1. /\ pc[w] # "poll" /\ UNCHANGED <<owner, position, committed, cur>>
          /\ Req(w) \in results' \cup dlq' /\ Goto(w, "commit")
      BY <1>1, <1>13 DEF PutResult, DeadLetter, broker, Local
    <2>2. Settled(Req(w))'
      BY <2>1, SameRequest DEF Settled
    <2> QED
      BY <1>4, <2>1, <2>2
  <1>14. ASSUME NEW w \in Workers, RetryOrDlq(w)
         PROVE  NothingSkipped'
    <2>1. pc[w] # "poll" /\ UNCHANGED <<owner, position, committed, cur>>
      BY <1>1, <1>14 DEF RetryOrDlq, broker, Local
    <2>2. CASE Goto(w, "dead_letter")
      BY <1>4, <2>1, <2>2
    <2>3. CASE /\ topic' = Append(topic, [req |-> Req(w), attempt |-> Attempt(w) + 1])
               /\ Goto(w, "commit")
      <3>1. /\ Len(topic') = Len(topic) + 1 /\ topic'[Len(topic) + 1].req = Req(w)
            /\ cur[w] \in 1..Len(topic)
        BY <2>1, <2>3, Handling DEF TypeOK
      <3>2. \E j \in (cur[w] + 1)..Len(topic') : topic'[j].req = Req(w)
        BY <1>3, <3>1
      <3> QED
        BY <1>4, <2>1, <2>3, <3>2
    <2> QED
      BY <1>1, <1>14, <2>2, <2>3 DEF RetryOrDlq
  <1>15. ASSUME NEW w \in Workers, Commit(w)
         PROVE  NothingSkipped'
    <2>1. pc[w] = "commit" /\ Return(w) /\ UNCHANGED <<topic, owner, position>> /\ ~Crash(w)
      BY <1>15 DEF Commit, Crash, env, TypeOK
    <2>2. AccountedUpTo(cur[w]) /\ cur[w] \in 0..Len(topic)
      BY <1>2, <2>1 DEF NothingSkipped, TypeOK
    <2>3. AccountedUpTo(committed)'
      <3>1. \A n \in 0..Len(topic) : AccountedUpTo(n) => AccountedUpTo(n)'
        BY AccountedKept
      <3>2. committed' = cur[w] \/ committed' = committed
        BY <1>15 DEF Commit
      <3>3. CASE committed' = committed
        BY <1>3, <3>1, <3>3 DEF AccountedUpTo
      <3>4. CASE committed' = cur[w]
        <4>1. \A i \in 1..cur[w] :
                \/ Settled(topic[i].req)'
                \/ \E j \in (cur[w] + 1)..Len(topic') : topic'[j].req = topic'[i].req
          BY <2>2, <3>1 DEF AccountedUpTo
        <4> QED
          BY <3>4, <4>1 DEF AccountedUpTo
      <3> QED
        BY <3>2, <3>3, <3>4
    <2>4. w = owner => AccountedUpTo(position)'
      <3>1. w = owner => position = cur[w]
        BY <1>2, <2>1 DEF NothingSkipped
      <3> QED
        BY <1>3, <2>1, <2>2, <3>1, AccountedKept
    <2> QED
      BY <1>5, <2>1, <2>3, <2>4
  <1>16. ASSUME NEW w \in Workers, Crash(w)
         PROVE  NothingSkipped'
    <2>1. /\ Return(w) /\ UNCHANGED <<topic, owner, committed>>
          /\ position' = IF w = owner THEN committed ELSE position
      BY <1>16 DEF Crash
    <2>2. AccountedUpTo(committed)'
      BY <1>3, <2>1, AccountedKept
    <2>3. w = owner => AccountedUpTo(position)'
      BY <2>1, <2>2 DEF AccountedUpTo
    <2> QED
      BY <1>5, <1>16, <2>1, <2>2, <2>3
  <1>17. ASSUME NEW w \in Workers, Rebalance(w)
         PROVE  NothingSkipped'
    <2>1. /\ UNCHANGED <<topic, committed, pc, cur>> /\ owner' = w /\ position' = committed
          /\ pc[w] = "poll"
      BY <1>17 DEF Rebalance, Local
    <2>2. AccountedUpTo(committed)' /\ AccountedUpTo(position)'
      <3>1. AccountedUpTo(committed)'
        BY <1>3, <2>1, AccountedKept
      <3> QED
        BY <2>1, <3>1 DEF AccountedUpTo
    <2>3. ASSUME NEW v \in Workers, pc[v] # "poll"
          PROVE  /\ AccountedUpTo(cur[v] - 1)'
                 /\ pc[v] = "commit" => AccountedUpTo(cur[v])'
      <3>1. /\ cur[v] \in 1..Len(topic) /\ AccountedUpTo(cur[v] - 1)
            /\ pc[v] = "commit" => AccountedUpTo(cur[v])
        BY <1>2, <2>3, Handling DEF NothingSkipped
      <3>2. cur[v] - 1 \in 0..Len(topic) /\ cur[v] \in 0..Len(topic)
        BY <1>3, <3>1
      <3> QED
        BY <2>1, <3>1, <3>2, AccountedKept
    <2> QED
      BY <2>1, <2>2, <2>3 DEF NothingSkipped
  <1>18. CASE UNCHANGED vars
    BY <1>6, <1>18 DEF vars, broker
  <1>19. ASSUME NEW w \in Workers, Step(w) PROVE NothingSkipped'
    BY <1>8, <1>9, <1>10, <1>11, <1>12, <1>13, <1>14, <1>15, <1>19 DEF Step
  <1> QED
    BY <1>7, <1>16, <1>17, <1>18, <1>19 DEF Next

(* As long as no call has failed, the offset never passes a request that   *)
(* is neither settled nor about to be tried again: not through crashes,    *)
(* partition moves, stale commits or retries, however many there are.      *)
THEOREM NothingIsSilentlyLost == Spec => []NoSilentLoss
  <1>1. Init => LossInv
    <2> SUFFICES ASSUME Init PROVE NothingSkipped
      BY DEF LossInv
    <2>1. owner \in Workers
      BY OnlineWorkerAssumption DEF Init
    <2> QED
      BY <2>1 DEF Init, NothingSkipped, AccountedUpTo
  <1>2. TypeOK /\ LossInv => NoSilentLoss
    BY DEF LossInv, NothingSkipped, AccountedUpTo, NoSilentLoss, Accounted
  <1> QED
    BY <1>1, <1>2, LossStep, TypeCorrect, PTL DEF Spec

-----------------------------------------------------------------------------
(* The strengthening ExpiredIsFinal needs: only a request that has expired *)
(* is announced as expired; and until the partition moves only its owner   *)
(* handles messages, and is never past the deadline check with a request   *)
(* that was announced as expired.                                          *)
PastDeadline ==
    {"compute", "write_online", "publish_offline", "publish_completed", "put_result"}
ExpiredInv ==
    /\ \A r \in Requests : <<r, "deadline_expired">> \in completed => r \in expired
    /\ \A w \in Workers : pc[w] = "publish_expired" => Req(w) \in expired
    /\ rebalances = 0 =>
          \A w \in Workers :
              /\ w # owner => pc[w] = "poll"
              /\ pc[w] \in PastDeadline => <<Req(w), "deadline_expired">> \notin completed

(* A request is announced as expired by PublishExpired only.               *)
LEMMA AnnouncedExpired ==
    ASSUME TypeOK, [Next]_vars, NEW r \in Requests,
           <<r, "deadline_expired">> \in completed',
           <<r, "deadline_expired">> \notin completed
    PROVE  \E w \in Workers : PublishExpired(w) /\ r = Req(w)
  <1>1. \E w \in Workers : PublishExpired(w) \/ PublishCompleted(w)
    BY DEF Next, Step, Submit, Expire, Crash, Rebalance, Poll, CheckDeadline, PutResult,
       Compute, WriteOnline, PublishOffline, RetryOrDlq, DeadLetter, Commit, downstream, vars
  <1>2. PICK w \in Workers : PublishExpired(w) \/ PublishCompleted(w)
    BY <1>1
  <1>3. CASE PublishExpired(w)
    BY <1>3 DEF PublishExpired
  <1>4. CASE PublishCompleted(w)
    <2> DEFINE st == aggregate_online_status({outcomes[w][f] : f \in Features})
    <2>1. st # "deadline_expired"
      BY DEF aggregate_online_status
    <2>2. completed' \subseteq completed \cup {<<Req(w), st>>}
      BY <1>4 DEF PublishCompleted
    <2> HIDE DEF st
    <2> QED
      BY <2>1, <2>2
  <1> QED
    BY <1>2, <1>3, <1>4

(* How a worker comes past the deadline check, and to its announcement.    *)
LEMMA DeadlineDecided ==
    ASSUME TypeOK, [Next]_vars, NEW w \in Workers, pc'[w] # pc[w],
           pc'[w] \in PastDeadline \cup {"publish_expired"}
    PROVE  /\ pc[w] # "poll" /\ cur'[w] = cur[w]
           /\ pc'[w] = "publish_expired" => Req(w) \in expired
           /\ pc'[w] \in PastDeadline =>
                 pc[w] \in PastDeadline \/ (pc[w] = "deadline" /\ Req(w) \notin expired)
  <1>1. pc'[w] # "poll" /\ pc'[w] # "commit" /\ pc'[w] # "dead_letter" /\ pc'[w] # "deadline"
        /\ pc'[w] # "retry_or_dlq"
    BY DEF PastDeadline
  <1>2. ~Return(w) /\ ~Fault(w)
    BY <1>1 DEF Return, Fault, Goto, TypeOK
  <1>3. Step(w)
    BY <1>1, StepOf
  <1>4. \/ CheckDeadline(w) \/ Compute(w) \/ \E f \in Features : WriteOnline(w, f)
        \/ PublishOffline(w) \/ PublishCompleted(w)
    BY <1>1, <1>2, <1>3
    DEF Step, Poll, PublishExpired, PutResult, RetryOrDlq, DeadLetter, Commit, Goto, TypeOK
  <1>5. CASE CheckDeadline(w)
    BY <1>5 DEF CheckDeadline, Goto, Local, TypeOK, PastDeadline
  <1>6. CASE Compute(w)
    BY <1>6 DEF Compute, Goto, Local, TypeOK, PastDeadline
  <1>7. CASE \E f \in Features : WriteOnline(w, f)
    <2>1. /\ pc[w] = "write_online" /\ cur' = cur
          /\ Goto(w, "write_online") \/ Goto(w, "publish_offline")
      BY <1>2, <1>7 DEF WriteOnline
    <2> QED
      BY <2>1 DEF Goto, TypeOK, PastDeadline
  <1>8. CASE PublishOffline(w) \/ PublishCompleted(w)
    <2>1. /\ pc[w] \in {"publish_offline", "publish_completed"} /\ cur' = cur
          /\ Goto(w, "publish_completed") \/ Goto(w, "put_result")
      BY <1>2, <1>8 DEF PublishOffline, PublishCompleted, Local
    <2> QED
      BY <2>1 DEF Goto, TypeOK, PastDeadline
  <1> QED
    BY <1>4, <1>5, <1>6, <1>7, <1>8

(* Each step keeps it.                                                     *)
LEMMA ExpiredStep ==
    TypeOK /\ ExpiredInv /\ [Next]_vars => ExpiredInv'
  <1> SUFFICES ASSUME TypeOK, ExpiredInv, [Next]_vars
               PROVE  ExpiredInv'
    OBVIOUS
  <1>1. expired \subseteq expired'
    BY DEF Next, Step, Submit, Expire, Crash, Rebalance, Poll, CheckDeadline, PublishExpired,
       Compute, WriteOnline, PublishOffline, PublishCompleted, PutResult, RetryOrDlq,
       DeadLetter, Commit, Fault, NoFault, env, vars
  <1>2. ASSUME NEW r \in Requests, <<r, "deadline_expired">> \in completed'
        PROVE  r \in expired'
    <2>1. CASE <<r, "deadline_expired">> \in completed
      BY <1>1, <2>1 DEF ExpiredInv
    <2>2. CASE <<r, "deadline_expired">> \notin completed
      <3>1. PICK w \in Workers : PublishExpired(w) /\ r = Req(w)
        BY <1>2, <2>2, AnnouncedExpired
      <3> QED
        BY <1>1, <3>1 DEF ExpiredInv, PublishExpired
    <2> QED
      BY <2>1, <2>2
  <1>3. ASSUME NEW w \in Workers,
               pc'[w] \in PastDeadline \cup {"publish_expired"}
        PROVE  /\ pc[w] # "poll" /\ Req(w)' = Req(w) /\ Req(w) \in Requests
               /\ pc'[w] = "publish_expired" => Req(w) \in expired
               /\ pc'[w] \in PastDeadline =>
                     pc[w] \in PastDeadline \/ (pc[w] = "deadline" /\ Req(w) \notin expired)
    <2>1. CASE pc'[w] = pc[w]
      <3>1. pc[w] # "poll" /\ pc'[w] # "poll"
        BY <1>3, <2>1 DEF PastDeadline
      <3>2. cur'[w] = cur[w]
        <4>1. CASE Step(w)
          BY <3>1, <4>1
          DEF Step, Poll, CheckDeadline, PublishExpired, Compute, WriteOnline, PublishOffline,
              PublishCompleted, PutResult, RetryOrDlq, DeadLetter, Commit, Fault, Return, Goto,
              Local, TypeOK
        <4> QED
          BY <3>1, <4>1, StepOf
      <3> QED
        BY <1>3, <2>1, <3>1, <3>2, SameRequest, Handling DEF ExpiredInv, PastDeadline
    <2>2. CASE pc'[w] # pc[w]
      BY <1>3, <2>2, DeadlineDecided, SameRequest, Handling
    <2> QED
      BY <2>1, <2>2
  <1>4. ASSUME NEW w \in Workers, pc'[w] = "publish_expired"
        PROVE  Req(w)' \in expired'
    BY <1>1, <1>3, <1>4
  <1>5. ASSUME rebalances' = 0
        PROVE  rebalances = 0 /\ owner' = owner
    <2>1. \/ rebalances' = rebalances /\ owner' = owner
          \/ rebalances' = rebalances + 1
      BY DEF Next, Step, Submit, Expire, Crash, Rebalance, Poll, CheckDeadline, PublishExpired,
         Compute, WriteOnline, PublishOffline, PublishCompleted, PutResult, RetryOrDlq,
         DeadLetter, Commit, Fault, NoFault, env, broker, vars
    <2> QED
      BY <1>5, <2>1 DEF TypeOK
  <1>6. ASSUME rebalances' = 0, NEW w \in Workers, w # owner'
        PROVE  pc'[w] = "poll"
    <2>1. pc[w] = "poll" /\ w # owner
      BY <1>5, <1>6 DEF ExpiredInv
    <2>2. ~Step(w)
      BY <2>1 DEF Step, Poll, CheckDeadline, PublishExpired, Compute, WriteOnline,
         PublishOffline, PublishCompleted, PutResult, RetryOrDlq, DeadLetter, Commit
    <2> QED
      BY <2>1, <2>2, StepOf
  <1>7. ASSUME rebalances' = 0, NEW w \in Workers, pc'[w] \in PastDeadline,
               <<Req(w), "deadline_expired">> \in completed'
        PROVE  FALSE
    <2>1. /\ rebalances = 0 /\ pc[w] # "poll" /\ Req(w) \in Requests
          /\ pc[w] \in PastDeadline \/ (pc[w] = "deadline" /\ Req(w) \notin expired)
      BY <1>3, <1>5, <1>7
    <2>2. <<Req(w), "deadline_expired">> \notin completed
      BY <2>1 DEF ExpiredInv
    <2>3. PICK v \in Workers : PublishExpired(v)
      BY <1>7, <2>1, <2>2, AnnouncedExpired
    <2>4. pc[v] = "publish_expired"
      BY <2>3 DEF PublishExpired
    <2>5. v = owner /\ w = owner
      BY <2>1, <2>4 DEF ExpiredInv
    <2> QED
      BY <2>1, <2>4, <2>5 DEF PastDeadline
  <1> QED
    BY <1>2, <1>3, <1>4, <1>6, <1>7 DEF ExpiredInv

(* An announced expiry is final: after it the request publishes no offline *)
(* write and no other completion and stores no result, whatever retries of *)
(* it are still in the topic, as long as the partition has not moved.      *)
THEOREM ExpiryIsFinal == Spec => ExpiredIsFinal
  <1>1. Init => ExpiredInv
    BY DEF Init, ExpiredInv, PastDeadline
  <1>2. TypeOK /\ ExpiredInv /\ [Next]_vars =>
          [\A r \in Requests : (rebalances = 0 /\ <<r, "deadline_expired">> \in completed) =>
              /\ r \in offline' => r \in offline
              /\ r \in results' => r \in results
              /\ \A s \in Outcomes : <<r, s>> \in completed' => <<r, s>> \in completed]_vars
    <2> SUFFICES ASSUME TypeOK, ExpiredInv, Next, NEW r \in Requests,
                        rebalances = 0, <<r, "deadline_expired">> \in completed
                 PROVE  /\ r \in offline' => r \in offline
                        /\ r \in results' => r \in results
                        /\ \A s \in Outcomes : <<r, s>> \in completed' => <<r, s>> \in completed
      OBVIOUS
    <2>1. \A w \in Workers : pc[w] \in PastDeadline => Req(w) # r
      BY DEF ExpiredInv
    <2>2. ASSUME r \in offline', r \notin offline PROVE FALSE
      <3>1. PICK w \in Workers : PublishOffline(w)
        BY <2>2 DEF Next, Step, Submit, Expire, Crash, Rebalance, Poll, CheckDeadline,
           PublishExpired, Compute, WriteOnline, PublishCompleted, PutResult, RetryOrDlq,
           DeadLetter, Commit, downstream
      <3> QED
        BY <2>1, <2>2, <3>1 DEF PublishOffline, PastDeadline
    <2>3. ASSUME r \in results', r \notin results PROVE FALSE
      <3>1. PICK w \in Workers : PutResult(w)
        BY <2>3 DEF Next, Step, Submit, Expire, Crash, Rebalance, Poll, CheckDeadline,
           PublishExpired, Compute, WriteOnline, PublishOffline, PublishCompleted, RetryOrDlq,
           DeadLetter, Commit, downstream
      <3> QED
        BY <2>1, <2>3, <3>1 DEF PutResult, PastDeadline
    <2>4. ASSUME NEW s \in Outcomes, <<r, s>> \in completed', <<r, s>> \notin completed
          PROVE  FALSE
      <3>1. PICK w \in Workers : PublishCompleted(w) \/ PublishExpired(w)
        BY <2>4 DEF Next, Step, Submit, Expire, Crash, Rebalance, Poll, CheckDeadline,
           Compute, WriteOnline, PublishOffline, PutResult, RetryOrDlq, DeadLetter, Commit,
           downstream
      <3>2. CASE PublishExpired(w)
        BY <2>4, <3>2 DEF PublishExpired, Outcomes
      <3>3. CASE PublishCompleted(w)
        <4>1. /\ pc[w] = "publish_completed"
              /\ \E st : completed' \in {completed, completed \cup {<<Req(w), st>>}}
          BY <3>3, Zenon DEF PublishCompleted
        <4> QED
          BY <2>1, <2>4, <4>1 DEF PastDeadline
      <3> QED
        BY <3>1, <3>2, <3>3
    <2> QED
      BY <2>2, <2>3, <2>4
  <1> QED
    BY <1>1, <1>2, ExpiredStep, TypeCorrect, PTL DEF Spec, ExpiredIsFinal
=============================================================================
