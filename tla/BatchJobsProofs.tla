--------------------------- MODULE BatchJobsProofs ---------------------------
(***************************************************************************)
(* What the batch workers guarantee for any job, any placement of its      *)
(* chunks and any number of workers, crashes, failed calls and             *)
(* resubmissions.                                                          *)
(***************************************************************************)
EXTENDS BatchJobs, TLAPS

-----------------------------------------------------------------------------
(* Facts about the status entry.                                           *)

(* The job's status, derived from its chunks, is a job status.             *)
LEMMA DeriveType ==
    ASSUME NEW S
    PROVE  derive_job_status(S) \in JobStates
  BY DEF derive_job_status, JobStates, ChunkStates, TERMINAL_CHUNK

(* Merging the state of a chunk changes that chunk only, and a job keeps   *)
(* being one.                                                              *)
LEMMA MergeChunk ==
    ASSUME NEW e \in JobEntry, NEW c \in Chunks, NEW s \in ChunkStates
    PROVE  /\ merge_chunk(e, c, s) \in JobEntry
           /\ \A d \in Chunks : merge_chunk(e, c, s).chunks[d] \in TERMINAL_CHUNK =>
                 \/ e.chunks[d] \in TERMINAL_CHUNK
                 \/ d = c /\ s \in TERMINAL_CHUNK
  <1>1. e.chunks \in [Chunks -> ChunkStates]
    <2>1. CASE e = NoJob
      <3>1. e.chunks = [d \in Chunks |-> "accepted"]
        BY <2>1 DEF NoJob
      <3> QED
        BY <3>1 DEF ChunkStates
    <2>2. CASE e \in [status : JobStates, chunks : [Chunks -> ChunkStates]]
      BY <2>2
    <2> QED
      BY <2>1, <2>2 DEF JobEntry
  <1> DEFINE chunks == [e.chunks EXCEPT ![c] = s]
             status == derive_job_status({chunks[d] : d \in Chunks})
  <1>2. chunks \in [Chunks -> ChunkStates] /\ status \in JobStates
    BY <1>1, DeriveType
  <1>3. With(e, c, s) = [status |-> status, chunks |-> chunks]
    BY DEF With
  <1>4. \A d \in Chunks : chunks[d] = IF d = c THEN s ELSE e.chunks[d]
    BY <1>1
  <1> HIDE DEF chunks, status
  <1>5. With(e, c, s) \in JobEntry /\ With(e, c, s).chunks = chunks
    BY <1>2, <1>3 DEF JobEntry
  <1> QED
    BY <1>4, <1>5 DEF merge_chunk

(* _safe_set_chunk keeps the entry well typed, and only a terminal state   *)
(* of that chunk can be new in it.                                         *)
LEMMA SetChunkFacts ==
    ASSUME NEW w \in Workers, Chunk(w) \in Chunks, NEW s \in ChunkStates,
           entry \in JobEntry, SetChunk(w, s)
    PROVE  /\ entry' \in JobEntry
           /\ \A d \in Chunks : entry'.chunks[d] \in TERMINAL_CHUNK =>
                 \/ entry.chunks[d] \in TERMINAL_CHUNK
                 \/ d = Chunk(w) /\ s \in TERMINAL_CHUNK
  BY MergeChunk DEF SetChunk

(* The entry the API puts: a job, with no chunk finished.                  *)
LEMMA AcceptedType ==
    ASSUME NEW s \in JobStates
    PROVE  /\ Accepted(s) \in JobEntry
           /\ \A c \in Chunks : Accepted(s).chunks[c] \notin TERMINAL_CHUNK
  BY DEF Accepted, JobEntry, ChunkStates, TERMINAL_CHUNK

(* A chunk's own result is a terminal state.                               *)
LEMMA ResultType ==
    ASSUME NEW c
    PROVE  Result(c) \in ChunkStates /\ Result(c) \in TERMINAL_CHUNK
  BY DEF Result, ChunkStates, TERMINAL_CHUNK

(* The computable items of a chunk are items that are not bad.             *)
LEMMA GoodType ==
    ASSUME NEW c \in Chunks
    PROVE  Good(c) \subseteq (Chunks \X (1..ItemCount)) \ Bad
  BY DEF Good

(* A worker that is not polling holds a chunk of its partition.            *)
LEMMA Handling ==
    ASSUME TypeOK, NEW w \in Workers, pc[w] # "poll"
    PROVE  cur[w] \in 1..Len(topic[w]) /\ Chunk(w) \in Chunks
  <1>1. /\ topic[w] \in Seq(Chunks) /\ cur[w] \in Nat /\ position[w] \in Nat
        /\ cur[w] # 0 /\ cur[w] <= position[w] /\ position[w] <= Len(topic[w])
    BY DEF TypeOK
  <1>2. cur[w] \in 1..Len(topic[w])
    BY <1>1
  <1> QED
    BY <1>1, <1>2 DEF Chunk

-----------------------------------------------------------------------------
(* Types.                                                                  *)

JobOK ==
    /\ scope \in {"inline", "manifest"} /\ write_online \in BOOLEAN /\ valid \in BOOLEAN
    /\ ownerOf \in [Chunks -> Workers]
CallOK ==
    /\ api \in [Calls -> {"idle", "put", "publish", "publish_failed"}]
    /\ next \in [Calls -> 1..Len(Order)]
    /\ response \in [Calls -> {"none", "accepted", "error"}] /\ restarted \in BOOLEAN
TopicOK ==
    /\ topic \in [Workers -> Seq(Chunks)]
    /\ \A w \in Workers : \A i \in 1..Len(topic[w]) : ownerOf[topic[w][i]] = w
Pcs == {"poll", "running", "append", "item", "item_online", "emit",
        "refresh", "finished", "publish", "dead_letter", "commit"}
WorkersOK ==
    /\ position \in [Workers -> Nat] /\ committed \in [Workers -> Nat]
    /\ pc \in [Workers -> Pcs]
    /\ cur \in [Workers -> Nat] /\ done \in [Workers -> 0..ItemCount]
    /\ fresh \in [Workers -> BOOLEAN]
    /\ \A w \in Workers :
          /\ committed[w] <= position[w] /\ position[w] <= Len(topic[w])
          /\ cur[w] <= position[w] /\ (cur[w] = 0 <=> pc[w] = "poll")
          /\ pc[w] = "item_online" => done[w] < ItemCount
StoresOK ==
    /\ history \subseteq (Chunks \X (1..ItemCount)) \ Bad
    /\ online \subseteq Chunks \X (1..ItemCount)
    /\ updates \cup processed \cup dlq \subseteq Chunks
BoundsOK ==
    /\ submits \in 0..MaxSubmits /\ crashes \in 0..MaxCrashes
    /\ faults \in 0..MaxFaults /\ pauses \in 0..MaxFaults

(* The type invariant, part by part.                                       *)
LEMMA TypeParts ==
    /\ TypeOK <=> /\ JobOK /\ entry \in JobEntry /\ CallOK /\ TopicOK
                  /\ WorkersOK /\ StoresOK /\ BoundsOK
    /\ TypeOK' <=> /\ JobOK' /\ entry' \in JobEntry /\ CallOK' /\ TopicOK'
                   /\ WorkersOK' /\ StoresOK' /\ BoundsOK'
  BY DEF TypeOK, JobOK, CallOK, TopicOK, WorkersOK, StoresOK, BoundsOK, Pcs

(* The bounds are natural numbers.                                         *)
LEMMA BoundsNat ==
    /\ MaxSubmits \in Nat /\ MaxCrashes \in Nat /\ MaxFaults \in Nat
    /\ ItemCount \in Nat \ {0}
    /\ Order \in Seq(Chunks) /\ Len(Order) \in Nat \ {0}
    /\ \A i \in 1..Len(Order) : Order[i] \in Chunks
  <1>1. Order \in Seq(Chunks) /\ Order # <<>>
    BY BatchJobsAssumption
  <1>2. Len(Order) \in Nat \ {0} /\ \A i \in 1..Len(Order) : Order[i] \in Chunks
    BY <1>1
  <1> QED
    BY <1>1, <1>2, BatchJobsAssumption

(* Returning to the poll loop leaves a well-typed idle worker.             *)
LEMMA ReturnType ==
    ASSUME WorkersOK, TopicOK, NEW w \in Workers, Return(w),
           UNCHANGED <<topic, committed>>,
           \/ UNCHANGED position
           \/ position' = [position EXCEPT ![w] = committed[w]]
    PROVE  WorkersOK'
  <1>1. /\ cur' = [cur EXCEPT ![w] = 0] /\ done' = [done EXCEPT ![w] = 0]
        /\ fresh' = [fresh EXCEPT ![w] = FALSE] /\ pc' = [pc EXCEPT ![w] = "poll"]
        /\ topic' = topic /\ committed' = committed
    BY DEF Return, Goto
  <1>2. /\ cur' \in [Workers -> Nat] /\ done' \in [Workers -> 0..ItemCount]
        /\ fresh' \in [Workers -> BOOLEAN] /\ pc' \in [Workers -> Pcs]
    BY <1>1, BoundsNat DEF WorkersOK, Pcs
  <1>3. position' \in [Workers -> Nat] /\ committed' \in [Workers -> Nat]
    BY <1>1 DEF WorkersOK
  <1>4. ASSUME NEW v \in Workers
        PROVE  /\ committed'[v] <= position'[v] /\ position'[v] <= Len(topic'[v])
               /\ cur'[v] <= position'[v] /\ (cur'[v] = 0 <=> pc'[v] = "poll")
               /\ pc'[v] = "item_online" => done'[v] < ItemCount
    <2>1. /\ committed[v] \in Nat /\ position[v] \in Nat
          /\ committed[v] <= position[v] /\ position[v] <= Len(topic[v])
      BY DEF WorkersOK
    <2>2. CASE v = w
      <3>1. cur'[v] = 0 /\ pc'[v] = "poll"
        BY <1>1, <2>2 DEF WorkersOK
      <3>2. position'[v] \in {position[v], committed[v]}
        BY <2>2 DEF WorkersOK
      <3>3. committed'[v] <= position'[v]
        BY <1>1, <2>1, <3>2
      <3>4. position'[v] <= Len(topic'[v])
        <4>1. CASE position'[v] = position[v]
          BY <1>1, <2>1, <4>1
        <4>2. CASE position'[v] = committed[v]
          BY <1>1, <2>1, <4>2, Len(topic[v]) \in Nat DEF TopicOK
        <4> QED
          BY <3>2, <4>1, <4>2
      <3> QED
        BY <1>3, <3>1, <3>3, <3>4
    <2>3. CASE v # w
      <3>1. /\ cur'[v] = cur[v] /\ pc'[v] = pc[v] /\ done'[v] = done[v]
            /\ position'[v] = position[v]
        BY <1>1, <2>3 DEF WorkersOK
      <3> QED
        BY <1>1, <3>1 DEF WorkersOK
    <2> QED
      BY <2>2, <2>3
  <1> QED
    BY <1>2, <1>3, <1>4 DEF WorkersOK

(* A step that only moves a busy worker on keeps the worker's types.       *)
LEMMA GotoType ==
    ASSUME WorkersOK, NEW w \in Workers, NEW step \in Pcs \ {"poll", "item_online"},
           pc[w] # "poll", Goto(w, step),
           UNCHANGED <<broker, local>>
    PROVE  WorkersOK'
  BY DEF WorkersOK, Goto, broker, local

(* A failed call: the worker returns, and one more fault is counted.       *)
LEMMA FaultType ==
    ASSUME WorkersOK, TopicOK, BoundsOK, NEW w \in Workers, Fault(w)
    PROVE  WorkersOK' /\ BoundsOK' /\ entry' = entry /\ UNCHANGED <<job, call, topic>>
  <1>1. WorkersOK'
    BY ReturnType DEF Fault, broker
  <1>2. BoundsOK'
    BY BoundsNat DEF BoundsOK, MayFail, Fault
  <1> QED
    BY <1>1, <1>2 DEF Fault, broker

(* A step of one call of create_batch_job.                                 *)
ApiCall(a) == Submit(a) \/ ApiStep(a) \/ ApiAborts(a)

(* A call of the API touches the entry, its own state and counters, and at *)
(* most appends one chunk to the partition it falls on.                    *)
LEMMA ApiTouches ==
    ASSUME TypeOK, NEW a \in Calls, ApiCall(a)
    PROVE  /\ UNCHANGED <<job, pc, local, stores, position, committed, pauses>>
           /\ faults' = faults \/ faults' = faults + 1
           /\ entry' \in {entry, Accepted("accepted"), Accepted("publish_failed")}
           /\ \/ UNCHANGED topic
              \/ \E c \in Chunks : topic' = [topic EXCEPT ![ownerOf[c]] = Append(@, c)]
  <1>1. Order[next[a]] \in Chunks
    BY BoundsNat DEF TypeOK
  <1>2. CASE Submit(a)
    BY <1>2 DEF Submit, broker
  <1>3. CASE PutJob(a)
    BY <1>3 DEF PutJob, broker, bounds
  <1>4. CASE PublishChunk(a)
    BY <1>1, <1>4 DEF PublishChunk
  <1>5. CASE PutPublishFailed(a) \/ ApiAborts(a)
    BY <1>5 DEF PutPublishFailed, ApiAborts, broker, bounds
  <1> QED
    BY <1>2, <1>3, <1>4, <1>5 DEF ApiCall, ApiStep

(* The calls of the API keep the types.                                    *)
LEMMA ApiTypes ==
    ASSUME TypeOK, NEW a \in Calls, ApiCall(a)
    PROVE  TypeOK'
  <1>0. /\ JobOK /\ entry \in JobEntry /\ CallOK /\ TopicOK
        /\ WorkersOK /\ StoresOK /\ BoundsOK
    BY TypeParts
  <1>s. UNCHANGED <<job, pc, local, stores, position, committed>>
    BY ApiTouches
  <1>1. JobOK' /\ StoresOK'
    BY <1>0, <1>s DEF JobOK, StoresOK, job, stores
  <1>2. BoundsOK'
    <2>1. a \in Nat /\ a <= MaxSubmits
      BY BoundsNat DEF Calls
    <2> QED
      BY <1>0, <2>1, BoundsNat
         DEF BoundsOK, MayFail, ApiCall, Submit, ApiStep, PutJob, PublishChunk,
             PutPublishFailed, ApiAborts, bounds
  <1>3. CallOK'
    <2>1. next[a] \in 1..Len(Order) /\ Len(Order) \in Nat \ {0} /\ 1 \in 1..Len(Order)
      BY <1>0, BoundsNat DEF CallOK
    <2>2. \A r \in {"accepted", "error"} : Answer(a, r) /\ restarted' = restarted => CallOK'
      BY <1>0, <2>1 DEF CallOK, Answer
    <2>3. CASE Submit(a)
      BY <1>0, <2>2, <2>3 DEF CallOK, Submit
    <2>4. CASE PutJob(a)
      BY <1>0, <2>4 DEF CallOK, PutJob
    <2>5. CASE PublishChunk(a)
      <3>1. next[a] # Len(Order) => next[a] + 1 \in 1..Len(Order)
        BY <2>1
      <3> QED
        BY <1>0, <2>2, <2>5, <3>1 DEF CallOK, PublishChunk
    <2>6. CASE PutPublishFailed(a) \/ ApiAborts(a)
      BY <2>2, <2>6 DEF PutPublishFailed, ApiAborts
    <2> QED
      BY <2>3, <2>4, <2>5, <2>6 DEF ApiCall, ApiStep
  <1>4. entry' \in JobEntry
    <2>1. "accepted" \in JobStates /\ "publish_failed" \in JobStates
      BY DEF JobStates, ChunkStates
    <2> QED
      BY <1>0, <2>1, AcceptedType, ApiTouches
  <1>5. ASSUME UNCHANGED topic PROVE TopicOK' /\ WorkersOK'
    BY <1>0, <1>1, <1>5, <1>s DEF TopicOK, WorkersOK, local, job
  <1>6. ASSUME NEW c \in Chunks, topic' = [topic EXCEPT ![ownerOf[c]] = Append(@, c)]
        PROVE  TopicOK' /\ WorkersOK'
    <2> DEFINE o == ownerOf[c]
    <2>1. c \in Chunks /\ o \in Workers
      BY <1>0 DEF JobOK
    <2>2. \A v \in Workers : /\ topic[v] \in Seq(Chunks)
                             /\ \A i \in 1..Len(topic[v]) : ownerOf[topic[v][i]] = v
      BY <1>0 DEF TopicOK
    <2>3. topic' \in [Workers -> Seq(Chunks)]
      BY <1>0, <1>6, <2>1, <2>2 DEF TopicOK
    <2>4. ASSUME NEW v \in Workers
          PROVE  /\ Len(topic'[v]) >= Len(topic[v])
                 /\ \A i \in 1..Len(topic'[v]) : ownerOf[topic'[v][i]] = v
      <3>1. CASE v = o
        <4>1. topic'[v] = Append(topic[v], c)
          BY <1>0, <1>6, <3>1 DEF TopicOK
        <4>2. Len(topic'[v]) = Len(topic[v]) + 1
          BY <2>1, <2>2, <4>1
        <4>3. \A i \in 1..Len(topic[v]) + 1 :
                 topic'[v][i] = IF i <= Len(topic[v]) THEN topic[v][i] ELSE c
          BY <2>1, <2>2, <4>1
        <4>4. Len(topic[v]) \in Nat
          BY <2>2
        <4>5. ASSUME NEW i \in 1..Len(topic'[v]) PROVE ownerOf[topic'[v][i]] = v
          <5>1. CASE i <= Len(topic[v])
            BY <2>2, <4>2, <4>3, <4>4, <5>1
          <5>2. CASE i > Len(topic[v])
            BY <3>1, <4>2, <4>3, <4>4, <5>2
          <5> QED
            BY <4>2, <4>4, <5>1, <5>2
        <4> QED
          BY <4>2, <4>4, <4>5
      <3>2. CASE v # o
        BY <1>0, <1>6, <2>2, <3>2 DEF TopicOK
      <3> QED
        BY <3>1, <3>2
    <2>5. TopicOK'
      BY <2>3, <2>4, <1>s DEF TopicOK, job
    <2>6. \A v \in Workers : Len(topic[v]) \in Nat /\ Len(topic'[v]) \in Nat
      BY <2>2, <2>3
    <2>7. ASSUME NEW v \in Workers PROVE position[v] <= Len(topic'[v])
      BY <1>0, <2>4, <2>6 DEF WorkersOK
    <2>8. WorkersOK'
      BY <1>0, <2>7, <1>s DEF WorkersOK, local
    <2> QED
      BY <2>5, <2>8
  <1>7. TopicOK' /\ WorkersOK'
    BY <1>5, <1>6, ApiTouches
  <1> QED
    BY <1>1, <1>2, <1>3, <1>4, <1>7, TypeParts

(* A worker's steps leave the job, the API's call and the topic alone.     *)
LEMMA WorkerTouches ==
    ASSUME NEW w \in Workers, Step(w) \/ Crash(w)
    PROVE  UNCHANGED <<job, call, topic>>
  BY DEF Step, Crash, Poll, SetRunning, AppendChunk, ComputeItem, WriteItemOnline,
         EmitUpdates, RefreshOnline, SetFinished, PublishProcessed, DeadLetter, Commit,
         Fault, Quiet, broker

(* A worker's step keeps every worker well typed.                          *)
LEMMA WorkerTypes ==
    ASSUME TypeOK, NEW w \in Workers, Step(w) \/ Crash(w)
    PROVE  WorkersOK'
  <1>0. WorkersOK /\ TopicOK /\ BoundsOK
    BY TypeParts
  <1>f. Fault(w) => WorkersOK'
    BY <1>0, FaultType
  <1>g. \A step \in Pcs \ {"poll", "item_online"} :
           Goto(w, step) /\ pc[w] # "poll" /\ UNCHANGED <<broker, local>> => WorkersOK'
    BY <1>0, GotoType
  <1>p. Pcs \ {"poll", "item_online"} =
           {"running", "append", "item", "emit", "refresh", "finished", "publish",
            "dead_letter", "commit"}
    BY DEF Pcs
  <1>1. CASE Poll(w)
    <2>1. CASE UNCHANGED <<pc, local>>
      <3>1. /\ position' = [position EXCEPT ![w] = @ + 1] /\ UNCHANGED <<topic, committed>>
            /\ position[w] < Len(topic[w])
        BY <1>1 DEF Poll
      <3>2. Len(topic[w]) \in Nat
        BY <1>0 DEF TopicOK
      <3> QED
        BY <1>0, <2>1, <3>1, <3>2 DEF WorkersOK, local
    <2>2. CASE ~UNCHANGED <<pc, local>>
      <3>1. PICK step \in {"running", "dead_letter"} :
               /\ position' = [position EXCEPT ![w] = @ + 1] /\ UNCHANGED <<topic, committed>>
               /\ position[w] < Len(topic[w])
               /\ cur' = [cur EXCEPT ![w] = position[w] + 1]
               /\ done' = [done EXCEPT ![w] = 0] /\ fresh' = [fresh EXCEPT ![w] = FALSE]
               /\ pc' = [pc EXCEPT ![w] = step]
        BY <1>1, <2>2 DEF Poll, Goto
      <3>2. Len(topic[w]) \in Nat /\ 0 \in 0..ItemCount
        BY <1>0, BoundsNat DEF TopicOK
      <3>3. step \in Pcs
        BY DEF Pcs
      <3> QED
        BY <1>0, <3>1, <3>2, <3>3 DEF WorkersOK
    <2> QED
      BY <2>1, <2>2
  <1>2. CASE SetRunning(w)
    <2>1. \/ Goto(w, "item")
          \/ Goto(w, "append")
      BY <1>2 DEF SetRunning
    <2> QED
      BY <1>2, <1>g, <1>p, <2>1 DEF SetRunning
  <1>3. CASE AppendChunk(w)
    BY <1>3, <1>f, <1>g, <1>p DEF AppendChunk, Quiet
  <1>4. CASE ComputeItem(w) /\ ~Fault(w)
    <2>1. /\ pc[w] = "item" /\ UNCHANGED <<broker, cur>>
          /\ \/ Goto(w, "emit") /\ UNCHANGED <<done, fresh>>
             \/ done[w] # ItemCount /\ done' = [done EXCEPT ![w] = @ + 1] /\ UNCHANGED <<pc, fresh>>
             \/ /\ done[w] # ItemCount
                /\ fresh' = [fresh EXCEPT ![w] = <<Chunk(w), done[w] + 1>> \notin history]
                /\ Goto(w, "item_online") /\ UNCHANGED done
      BY <1>4 DEF ComputeItem, Quiet
    <2>2. CASE Goto(w, "emit") /\ UNCHANGED <<done, fresh>>
      BY <1>g, <1>p, <2>1, <2>2 DEF local
    <2>3. CASE done[w] # ItemCount /\ done' = [done EXCEPT ![w] = @ + 1] /\ UNCHANGED <<pc, fresh>>
      BY <1>0, <2>1, <2>3, BoundsNat DEF WorkersOK, broker
    <2>4. CASE /\ done[w] # ItemCount
               /\ fresh' = [fresh EXCEPT ![w] = <<Chunk(w), done[w] + 1>> \notin history]
               /\ Goto(w, "item_online") /\ UNCHANGED done
      <3>1. fresh' \in [Workers -> BOOLEAN]
        BY <1>0, <2>4 DEF WorkersOK
      <3>2. pc' = [pc EXCEPT ![w] = "item_online"] /\ "item_online" \in Pcs
        BY <2>4 DEF Goto, Pcs
      <3>3. done[w] < ItemCount
        BY <1>0, <2>4, BoundsNat DEF WorkersOK
      <3> QED
        BY <1>0, <2>1, <2>4, <3>1, <3>2, <3>3 DEF WorkersOK, broker
    <2> QED
      BY <2>1, <2>2, <2>3, <2>4
  <1>5. CASE WriteItemOnline(w) /\ ~Fault(w)
    <2>1. /\ pc[w] = "item_online" /\ UNCHANGED <<broker, cur>>
          /\ done' = [done EXCEPT ![w] = @ + 1] /\ fresh' = [fresh EXCEPT ![w] = FALSE]
          /\ pc' = [pc EXCEPT ![w] = "item"] /\ "item" \in Pcs
      BY <1>5 DEF WriteItemOnline, Quiet, Goto, Pcs
    <2> QED
      BY <1>0, <2>1, BoundsNat DEF WorkersOK, broker
  <1>6. CASE EmitUpdates(w)
    <2>1. Fault(w) \/ Goto(w, "refresh") \/ Goto(w, "finished")
      BY <1>6 DEF EmitUpdates
    <2> QED
      BY <1>6, <1>f, <1>g, <1>p, <2>1 DEF EmitUpdates, Quiet
  <1>7. CASE RefreshOnline(w)
    BY <1>7, <1>g, <1>p DEF RefreshOnline, Quiet
  <1>8. CASE SetFinished(w)
    BY <1>8, <1>g, <1>p DEF SetFinished
  <1>9. CASE PublishProcessed(w)
    BY <1>9, <1>f, <1>g, <1>p DEF PublishProcessed, Quiet
  <1>10. CASE DeadLetter(w)
    BY <1>10, <1>f, <1>g, <1>p DEF DeadLetter, Quiet
  <1>11. CASE Commit(w)
    <2>1. /\ pc[w] = "commit" /\ committed' = [committed EXCEPT ![w] = cur[w]]
          /\ cur' = [cur EXCEPT ![w] = 0] /\ done' = [done EXCEPT ![w] = 0]
          /\ fresh' = [fresh EXCEPT ![w] = FALSE] /\ pc' = [pc EXCEPT ![w] = "poll"]
          /\ UNCHANGED <<topic, position>> /\ "poll" \in Pcs
      BY <1>11 DEF Commit, Return, Goto, Pcs
    <2> QED
      BY <1>0, <2>1, BoundsNat DEF WorkersOK
  <1>12. CASE Crash(w)
    BY <1>0, <1>12, ReturnType DEF Crash
  <1> QED
    BY <1>1, <1>2, <1>3, <1>4, <1>5, <1>6, <1>7, <1>8, <1>9, <1>10, <1>11, <1>12, <1>f
       DEF Step

(* A worker's step keeps the stores, the entry and the counters typed.     *)
LEMMA WorkerWrites ==
    ASSUME TypeOK, NEW w \in Workers, Step(w) \/ Crash(w)
    PROVE  entry' \in JobEntry /\ StoresOK' /\ BoundsOK'
  <1>0. entry \in JobEntry /\ StoresOK /\ BoundsOK
    BY TypeParts
  <1>h. pc[w] # "poll" => Chunk(w) \in Chunks
    BY Handling
  <1>1. entry' \in JobEntry
    <2>1. \A s \in ChunkStates : pc[w] # "poll" /\ SetChunk(w, s) => entry' \in JobEntry
      BY <1>0, <1>h, SetChunkFacts
    <2>2. "running" \in ChunkStates /\ Result(Chunk(w)) \in ChunkStates
      BY ResultType DEF ChunkStates
    <2>3. CASE SetRunning(w)
      BY <2>1, <2>2, <2>3 DEF SetRunning
    <2>4. CASE SetFinished(w)
      BY <2>1, <2>2, <2>4 DEF SetFinished
    <2>5. CASE ~SetRunning(w) /\ ~SetFinished(w)
      BY <1>0, <2>5
         DEF Step, Crash, Poll, AppendChunk, ComputeItem, WriteItemOnline,
             EmitUpdates, RefreshOnline, PublishProcessed, DeadLetter, Commit, Fault
    <2> QED
      BY <2>3, <2>4, <2>5
  <1>2. BoundsOK'
    <2>1. CASE Poll(w) \/ Crash(w)
      BY <1>0, <2>1, BoundsNat DEF BoundsOK, MayFail, Poll, Crash
    <2>2. CASE SetRunning(w) \/ SetFinished(w)
      BY <1>0, <2>2, BoundsNat DEF BoundsOK, MayFail, SetRunning, SetFinished, SetChunk
    <2>3. CASE Fault(w)
      BY <1>0, <2>3, BoundsNat DEF BoundsOK, MayFail, Fault
    <2>4. ASSUME UNCHANGED bounds PROVE BoundsOK'
      BY <1>0, <2>4 DEF BoundsOK, bounds
    <2>5. Poll(w) \/ Crash(w) \/ SetRunning(w) \/ SetFinished(w) \/ Fault(w) \/ UNCHANGED bounds
      BY DEF Step, AppendChunk, ComputeItem, WriteItemOnline,
             EmitUpdates, RefreshOnline, PublishProcessed, DeadLetter, Commit, Quiet
    <2> QED
      BY <2>1, <2>2, <2>3, <2>4, <2>5
  <1>3. StoresOK'
    <2>g. pc[w] # "poll" => Good(Chunk(w)) \subseteq (Chunks \X (1..ItemCount)) \ Bad
      BY <1>h, GoodType
    <2>1. CASE AppendChunk(w)
      BY <1>0, <2>1, <2>g DEF StoresOK, AppendChunk
    <2>2. CASE ComputeItem(w)
      <3>1. /\ updates' = updates /\ processed' = processed /\ dlq' = dlq /\ online' = online
            /\ \/ history' = history
               \/ /\ history' = history \cup {<<Chunk(w), done[w] + 1>>}
                  /\ <<Chunk(w), done[w] + 1>> \notin Bad /\ done[w] # ItemCount
        BY <2>2 DEF ComputeItem
      <3>2. done[w] \in 0..ItemCount /\ Chunk(w) \in Chunks
        BY <1>h, <2>2 DEF TypeOK, ComputeItem
      <3>3. done[w] # ItemCount => done[w] + 1 \in 1..ItemCount
        BY <3>2, BoundsNat
      <3> QED
        BY <1>0, <3>1, <3>2, <3>3 DEF StoresOK
    <2>3. CASE WriteItemOnline(w)
      <3>1. /\ updates' = updates /\ processed' = processed /\ dlq' = dlq /\ history' = history
            /\ \/ online' = online
               \/ online' = online \cup {<<Chunk(w), done[w] + 1>>}
        BY <2>3 DEF WriteItemOnline
      <3>2. done[w] + 1 \in 1..ItemCount /\ Chunk(w) \in Chunks
        <4>1. pc[w] = "item_online" /\ done[w] \in 0..ItemCount /\ done[w] < ItemCount
          BY <2>3 DEF TypeOK, WriteItemOnline
        <4> QED
          BY <1>h, <4>1, BoundsNat
      <3> QED
        BY <1>0, <3>1, <3>2 DEF StoresOK
    <2>4. CASE EmitUpdates(w)
      BY <1>0, <1>h, <2>4 DEF StoresOK, EmitUpdates
    <2>5. CASE RefreshOnline(w)
      <3>1. PICK S \in SUBSET Good(Chunk(w)) : online' = online \cup S
        BY <2>5 DEF RefreshOnline
      <3>2. pc[w] # "poll" /\ UNCHANGED <<history, updates, processed, dlq>>
        BY <2>5 DEF RefreshOnline
      <3> QED
        BY <1>0, <2>g, <3>1, <3>2 DEF StoresOK
    <2>6. CASE PublishProcessed(w) \/ DeadLetter(w)
      BY <1>0, <1>h, <2>6 DEF StoresOK, PublishProcessed, DeadLetter
    <2>7. CASE Poll(w) \/ Crash(w) \/ SetRunning(w) \/ SetFinished(w) \/ Commit(w)
      BY <1>0, <2>7 DEF StoresOK, Poll, Crash, SetRunning, SetFinished, Commit, stores
    <2> QED
      BY <2>1, <2>2, <2>3, <2>4, <2>5, <2>6, <2>7 DEF Step
  <1> QED
    BY <1>1, <1>2, <1>3

(* Each step keeps the types.                                              *)
LEMMA TypeStep == TypeOK /\ [Next]_vars => TypeOK'
  <1> SUFFICES ASSUME TypeOK, [Next]_vars PROVE TypeOK'
    OBVIOUS
  <1>0. JobOK /\ CallOK /\ TopicOK
    BY TypeParts
  <1>1. CASE \E a \in Calls : ApiCall(a)
    BY <1>1, ApiTypes
  <1>2. ASSUME NEW w \in Workers, Step(w) \/ Crash(w) PROVE TypeOK'
    <2>1. JobOK' /\ CallOK' /\ TopicOK'
      BY <1>0, <1>2, WorkerTouches DEF JobOK, CallOK, TopicOK, job, call
    <2> QED
      BY <1>2, <2>1, WorkerTypes, WorkerWrites, TypeParts
  <1>3. CASE UNCHANGED vars
    BY <1>3 DEF TypeOK, vars, job, call, broker, local, stores, bounds
  <1> QED
    BY <1>1, <1>2, <1>3 DEF Next, ApiCall

(* Every variable keeps its type: a worker's offsets never pass the end of *)
(* its partition, its locals are set only while it handles a chunk, and no *)
(* bad item reaches a store.                                               *)
THEOREM TypeCorrect == Spec => []TypeOK
  <1>1. Init => TypeOK
    <2> SUFFICES ASSUME Init PROVE TypeOK
      OBVIOUS
    <2>1. JobOK /\ CallOK /\ entry \in JobEntry
      <3>1. PICK j \in Jobs : /\ scope = j.scope /\ write_online = j.write_online
                              /\ valid = j.valid /\ ownerOf = j.ownerOf
        BY DEF Init
      <3>2. JobOK
        BY <3>1, BatchJobsAssumption DEF JobOK
      <3>3. 1 \in 1..Len(Order)
        BY BoundsNat
      <3>4. CallOK
        BY <3>3 DEF Init, CallOK
      <3> QED
        BY <3>2, <3>4 DEF Init, JobEntry
    <2>2. TopicOK /\ WorkersOK
      BY BoundsNat DEF Init, TopicOK, WorkersOK, Pcs
    <2>3. StoresOK /\ BoundsOK
      BY BoundsNat DEF Init, StoresOK, BoundsOK
    <2> QED
      BY <2>1, <2>2, <2>3, TypeParts
  <1> QED
    BY <1>1, TypeStep, PTL DEF Spec

-----------------------------------------------------------------------------
(* Finished chunks are durable.                                            *)

(* Stored items, announcements and outcomes stay; so do the chunks of a    *)
(* partition, in their places.                                             *)
LEMMA Monotone ==
    ASSUME TypeOK, [Next]_vars
    PROVE  /\ history \subseteq history' /\ updates \subseteq updates'
           /\ processed \subseteq processed' /\ dlq \subseteq dlq'
           /\ \A w \in Workers : \A i \in 1..Len(topic[w]) : topic'[w][i] = topic[w][i]
  <1>1. ASSUME NEW w \in Workers, NEW i \in 1..Len(topic[w])
        PROVE  topic'[w][i] = topic[w][i]
    <2>1. topic[w] \in Seq(Chunks) /\ topic \in [Workers -> Seq(Chunks)]
      BY DEF TypeOK
    <2>2. \/ UNCHANGED topic
          \/ \E c \in Chunks : topic' = [topic EXCEPT ![ownerOf[c]] = Append(@, c)]
      <3>1. CASE \E a \in Calls : ApiCall(a)
        BY <3>1, ApiTouches
      <3>2. ASSUME NEW v \in Workers, Step(v) \/ Crash(v) PROVE UNCHANGED topic
        BY <3>2, WorkerTouches
      <3>3. CASE UNCHANGED vars
        BY <3>3 DEF vars, broker
      <3> QED
        BY <3>1, <3>2, <3>3 DEF Next, ApiCall
    <2>3. ASSUME NEW c \in Chunks, topic' = [topic EXCEPT ![ownerOf[c]] = Append(@, c)]
          PROVE  topic'[w][i] = topic[w][i]
      <3>1. CASE w # ownerOf[c]
        BY <2>1, <2>3, <3>1
      <3>2. CASE w = ownerOf[c]
        <4>1. topic'[w] = Append(topic[w], c)
          BY <2>1, <2>3, <3>2
        <4> QED
          BY <2>1, <4>1
      <3> QED
        BY <3>1, <3>2
    <2> QED
      BY <2>2, <2>3
  <1>2. /\ history \subseteq history' /\ updates \subseteq updates'
        /\ processed \subseteq processed' /\ dlq \subseteq dlq'
    <2>1. CASE \E a \in Calls : ApiCall(a)
      BY <2>1, ApiTouches DEF stores
    <2>2. ASSUME NEW v \in Workers, Step(v) \/ Crash(v)
          PROVE  /\ history \subseteq history' /\ updates \subseteq updates'
                 /\ processed \subseteq processed' /\ dlq \subseteq dlq'
      BY <2>2 DEF Step, Crash, Poll, SetRunning, AppendChunk, ComputeItem, WriteItemOnline,
                  EmitUpdates, RefreshOnline, SetFinished, PublishProcessed, DeadLetter,
                  Commit, stores
    <2>3. CASE UNCHANGED vars
      BY <2>3 DEF vars, stores
    <2> QED
      BY <2>1, <2>2, <2>3 DEF Next, ApiCall
  <1> QED
    BY <1>1, <1>2

(* A step leaves a worker alone, returns it to its poll loop, or is its    *)
(* own next step.                                                          *)
LEMMA StepOf ==
    ASSUME TypeOK, [Next]_vars, NEW w \in Workers
    PROVE  \/ /\ pc'[w] = pc[w] /\ cur'[w] = cur[w] /\ done'[w] = done[w]
              /\ position'[w] = position[w] /\ committed'[w] = committed[w]
           \/ Step(w) \/ Crash(w)
  <1>1. CASE \E a \in Calls : ApiCall(a)
    BY <1>1, ApiTouches DEF local
  <1>2. ASSUME NEW v \in Workers, Step(v) \/ Crash(v), v # w
        PROVE  /\ pc'[w] = pc[w] /\ cur'[w] = cur[w] /\ done'[w] = done[w]
               /\ position'[w] = position[w] /\ committed'[w] = committed[w]
    <2>t. /\ pc \in [Workers -> Pcs] /\ cur \in [Workers -> Nat]
          /\ done \in [Workers -> 0..ItemCount]
          /\ position \in [Workers -> Nat] /\ committed \in [Workers -> Nat]
      BY DEF TypeOK, Pcs
    <2>1. /\ \/ pc' = pc
             \/ \E step \in Pcs : pc' = [pc EXCEPT ![v] = step]
          /\ \/ cur' = cur
             \/ \E n \in Nat : cur' = [cur EXCEPT ![v] = n]
          /\ \/ done' = done
             \/ \E n \in Nat : done' = [done EXCEPT ![v] = n]
          /\ \/ position' = position
             \/ \E n \in Nat : position' = [position EXCEPT ![v] = n]
          /\ \/ committed' = committed
             \/ \E n \in Nat : committed' = [committed EXCEPT ![v] = n]
      <3>1. /\ cur[v] \in Nat /\ done[v] \in Nat /\ position[v] \in Nat /\ committed[v] \in Nat
            /\ cur[v] + 1 \in Nat /\ done[v] + 1 \in Nat /\ position[v] + 1 \in Nat
        BY <2>t
      <3>2. CASE Poll(v)
        BY <3>1, <3>2 DEF Poll, Goto, local, Pcs
      <3>3. CASE Commit(v) \/ Crash(v) \/ Fault(v)
        BY <3>1, <3>3 DEF Commit, Crash, Fault, Return, Goto, broker, Pcs
      <3>4. CASE ComputeItem(v) /\ ~Fault(v)
        BY <3>1, <3>4 DEF ComputeItem, Goto, Quiet, broker, Pcs
      <3>5. CASE WriteItemOnline(v) /\ ~Fault(v)
        BY <3>1, <3>5 DEF WriteItemOnline, Goto, Quiet, broker, Pcs
      <3>6. CASE /\ ~Fault(v)
                 /\ \/ SetRunning(v) \/ AppendChunk(v) \/ EmitUpdates(v) \/ RefreshOnline(v)
                    \/ SetFinished(v) \/ PublishProcessed(v) \/ DeadLetter(v)
        BY <3>6 DEF SetRunning, AppendChunk, EmitUpdates, RefreshOnline, SetFinished,
                    PublishProcessed, DeadLetter, Goto, Quiet, broker, local, Pcs
      <3> QED
        BY <1>2, <3>2, <3>3, <3>4, <3>5, <3>6 DEF Step
    <2> QED
      BY <1>2, <2>1, <2>t
  <1>3. CASE UNCHANGED vars
    BY <1>3 DEF vars, local, broker
  <1> QED
    BY <1>1, <1>2, <1>3 DEF Next, ApiCall

(* What a worker has done for its chunk at each of its steps: the items it *)
(* passed are stored or bad, then all computable ones are stored, then     *)
(* they are also announced.                                                *)
ItemsStored(w) ==
    \A i \in 1..done[w] : <<Chunk(w), i>> \in Bad \/ <<Chunk(w), i>> \in history

Reached(w) ==
    /\ pc[w] = "running" => done[w] = 0
    /\ pc[w] \in {"item", "item_online"} => ItemsStored(w)
    /\ pc[w] = "item_online" => <<Chunk(w), done[w] + 1>> \in history
    /\ pc[w] = "emit" => Good(Chunk(w)) \subseteq history
    /\ pc[w] \in {"refresh", "finished", "publish"} => Durable(Chunk(w))

(* The inductive invariant: that, and what is reported or served has been  *)
(* stored.                                                                 *)
DurableInv ==
    /\ FinishedIsDurable
    /\ online \subseteq history
    /\ \A w \in Workers : Reached(w)


(* The chunk a worker is handling stays the same until it returns.         *)
LEMMA SameChunk ==
    ASSUME TypeOK, [Next]_vars, NEW w \in Workers, pc[w] # "poll", cur'[w] = cur[w]
    PROVE  Chunk(w)' = Chunk(w) /\ Chunk(w) \in Chunks
  <1>1. cur[w] \in 1..Len(topic[w]) /\ Chunk(w) \in Chunks
    BY Handling
  <1>2. topic'[w][cur[w]] = topic[w][cur[w]]
    BY <1>1, Monotone
  <1> QED
    BY <1>1, <1>2 DEF Chunk

(* Each step keeps what every worker has reached.                          *)
LEMMA ReachedStep ==
    ASSUME TypeOK, DurableInv, [Next]_vars, NEW w \in Workers
    PROVE  Reached(w)'
  <1> DEFINE c == Chunk(w)
  <1>t. /\ DOMAIN pc = Workers /\ DOMAIN cur = Workers /\ DOMAIN done = Workers
        /\ done[w] \in 0..ItemCount /\ ItemCount \in Nat
    BY BoundsNat DEF TypeOK
  <1>m. history \subseteq history' /\ updates \subseteq updates'
    BY Monotone
  <1>r. Reached(w)
    BY DEF DurableInv
  <1>c. pc[w] # "poll" /\ cur'[w] = cur[w] => c' = c
    BY SameChunk
  <1>q. ASSUME pc'[w] \in {"poll", "append", "dead_letter", "commit"}
        PROVE  Reached(w)'
    BY <1>q DEF Reached
  <1>1. CASE /\ pc'[w] = pc[w] /\ cur'[w] = cur[w] /\ done'[w] = done[w]
    <2>1. CASE pc[w] = "poll"
      BY <1>1, <1>q, <2>1
    <2>2. CASE pc[w] # "poll"
      BY <1>1, <1>c, <1>m, <1>r, <2>2 DEF Reached, ItemsStored, Good, Durable
    <2> QED
      BY <2>1, <2>2
  <1>2. CASE Poll(w)
    <2>1. \/ pc'[w] \in {"poll", "dead_letter"}
          \/ pc'[w] = "running" /\ done'[w] = 0
      BY <1>2, <1>t DEF Poll, Goto
    <2> QED
      BY <1>q, <2>1 DEF Reached
  <1>3. CASE Commit(w) \/ Crash(w) \/ Fault(w)
    <2>1. pc'[w] = "poll"
      BY <1>3, <1>t DEF Commit, Crash, Fault, Return, Goto
    <2> QED
      BY <1>q, <2>1
  <1>4. CASE DeadLetter(w) \/ PublishProcessed(w)
    <2>1. pc'[w] \in {"poll", "commit"}
      BY <1>4, <1>t DEF DeadLetter, PublishProcessed, Fault, Return, Goto
    <2> QED
      BY <1>q, <2>1
  <1>5. CASE SetRunning(w)
    <2>1. done' = done /\ pc[w] = "running" /\ pc'[w] \in {"item", "append"}
      BY <1>5, <1>t DEF SetRunning, Goto, local
    <2>2. done'[w] = 0
      BY <1>r, <2>1 DEF Reached
    <2> QED
      BY <2>1, <2>2 DEF Reached, ItemsStored
  <1>6. CASE AppendChunk(w) /\ ~Fault(w)
    <2>1. /\ pc[w] = "append" /\ pc'[w] = "emit" /\ cur' = cur
          /\ history' = history \cup Good(c)
      BY <1>6, <1>t DEF AppendChunk, Goto, local
    <2>2. Good(c') \subseteq history'
      BY <1>c, <2>1
    <2> QED
      BY <2>1, <2>2 DEF Reached
  <1>7. CASE ComputeItem(w) /\ ~Fault(w)
    <2>1. pc[w] = "item" /\ cur' = cur /\ c' = c /\ ItemsStored(w)
      BY <1>7, <1>c, <1>r DEF ComputeItem, Reached
    <2>2. CASE done[w] = ItemCount
      <3>1. pc'[w] = "emit"
        BY <1>7, <1>t, <2>2 DEF ComputeItem, Goto
      <3>2. Good(c) \subseteq history
        BY <2>1, <2>2 DEF Good, ItemsStored
      <3> QED
        BY <1>m, <2>1, <3>1, <3>2 DEF Reached
    <2>3. CASE done[w] # ItemCount /\ <<c, done[w] + 1>> \in Bad
      <3>1. pc'[w] = "item" /\ done'[w] = done[w] + 1
        BY <1>7, <1>t, <2>1, <2>3 DEF ComputeItem
      <3>2. \A i \in 1..(done[w] + 1) : <<c, i>> \in Bad \/ <<c, i>> \in history
        BY <1>t, <2>1, <2>3 DEF ItemsStored
      <3> QED
        BY <1>m, <2>1, <3>1, <3>2 DEF Reached, ItemsStored
    <2>4. CASE done[w] # ItemCount /\ <<c, done[w] + 1>> \notin Bad
      <3>1. /\ pc'[w] = "item_online" /\ done'[w] = done[w]
            /\ history' = history \cup {<<c, done[w] + 1>>}
        BY <1>7, <1>t, <2>4 DEF ComputeItem, Goto
      <3> QED
        BY <1>m, <2>1, <3>1 DEF Reached, ItemsStored
    <2> QED
      BY <2>2, <2>3, <2>4
  <1>8. CASE WriteItemOnline(w) /\ ~Fault(w)
    <2>1. /\ pc[w] = "item_online" /\ cur' = cur /\ c' = c /\ ItemsStored(w)
          /\ <<c, done[w] + 1>> \in history
      BY <1>8, <1>c, <1>r DEF WriteItemOnline, Reached
    <2>2. pc'[w] = "item" /\ done'[w] = done[w] + 1
      BY <1>8, <1>t DEF WriteItemOnline, Goto
    <2>3. \A i \in 1..(done[w] + 1) : <<c, i>> \in Bad \/ <<c, i>> \in history
      BY <1>t, <2>1 DEF ItemsStored
    <2> QED
      BY <1>m, <2>1, <2>2, <2>3 DEF Reached, ItemsStored
  <1>9. CASE EmitUpdates(w) /\ ~Fault(w)
    <2>1. /\ pc[w] = "emit" /\ cur' = cur /\ c' = c /\ updates' = updates \cup {c}
          /\ Good(c) \subseteq history
      BY <1>9, <1>c, <1>r DEF EmitUpdates, Reached, local
    <2>2. pc'[w] \in {"refresh", "finished"}
      BY <1>9, <1>t DEF EmitUpdates, Goto
    <2>3. Durable(c)'
      BY <1>m, <2>1 DEF Durable, Good
    <2> QED
      BY <2>2, <2>3 DEF Reached
  <1>10. CASE RefreshOnline(w) \/ SetFinished(w)
    <2>1. /\ pc[w] \in {"refresh", "finished"} /\ cur' = cur /\ c' = c /\ Durable(c)
      BY <1>10, <1>c, <1>r DEF RefreshOnline, SetFinished, Reached, local
    <2>2. pc'[w] \in {"finished", "publish"}
      BY <1>10, <1>t DEF RefreshOnline, SetFinished, Goto
    <2>3. Durable(c)'
      BY <1>m, <2>1 DEF Durable, Good
    <2> QED
      BY <2>2, <2>3 DEF Reached
  <1> QED
    BY <1>1, <1>2, <1>3, <1>4, <1>5, <1>6, <1>7, <1>8, <1>9, <1>10, StepOf DEF Step

(* Nothing is reported as finished before it is durable.                   *)
LEMMA FinishedStep ==
    ASSUME TypeOK, DurableInv, [Next]_vars
    PROVE  FinishedIsDurable'
  <1> SUFFICES ASSUME NEW c \in Chunks,
                      entry'.chunks[c] \in TERMINAL_CHUNK \/ c \in processed'
               PROVE  Durable(c)'
    BY DEF FinishedIsDurable
  <1>m. history \subseteq history' /\ updates \subseteq updates'
    BY Monotone
  <1>k. Durable(c) => Durable(c)'
    BY <1>m DEF Durable, Good
  <1>f. entry.chunks[c] \in TERMINAL_CHUNK \/ c \in processed => Durable(c)
    BY DEF DurableInv, FinishedIsDurable
  <1>1. CASE \E a \in Calls : ApiCall(a)
    <2>1. processed' = processed
      BY <1>1, ApiTouches DEF stores
    <2>2. \/ entry' = entry
          \/ entry' = Accepted("accepted")
          \/ entry' = Accepted("publish_failed")
      BY <1>1, ApiTouches
    <2>3. "accepted" \in JobStates /\ "publish_failed" \in JobStates
      BY DEF JobStates, ChunkStates
    <2> QED
      BY <1>f, <1>k, <2>1, <2>2, <2>3, AcceptedType
  <1>2. ASSUME NEW w \in Workers, SetRunning(w) PROVE Durable(c)'
    <2>1. pc[w] = "running" /\ SetChunk(w, "running") /\ processed' = processed
      BY <1>2 DEF SetRunning, stores
    <2>2. "running" \in ChunkStates /\ "running" \notin TERMINAL_CHUNK
      BY DEF ChunkStates, TERMINAL_CHUNK
    <2>3. Chunk(w) \in Chunks /\ entry \in JobEntry
      BY <2>1, Handling DEF TypeOK
    <2>4. entry'.chunks[c] \in TERMINAL_CHUNK => entry.chunks[c] \in TERMINAL_CHUNK
      BY <2>1, <2>2, <2>3, SetChunkFacts
    <2> QED
      BY <1>f, <1>k, <2>1, <2>4
  <1>3. ASSUME NEW w \in Workers, SetFinished(w) PROVE Durable(c)'
    <2>1. pc[w] = "finished" /\ SetChunk(w, Result(Chunk(w))) /\ processed' = processed
      BY <1>3 DEF SetFinished, stores
    <2>2. Chunk(w) \in Chunks /\ entry \in JobEntry
      BY <2>1, Handling DEF TypeOK
    <2>3. Durable(Chunk(w))
      BY <2>1 DEF DurableInv, Reached
    <2>4. entry'.chunks[c] \in TERMINAL_CHUNK =>
             entry.chunks[c] \in TERMINAL_CHUNK \/ c = Chunk(w)
      BY <2>1, <2>2, SetChunkFacts, ResultType
    <2> QED
      BY <1>f, <1>k, <2>1, <2>3, <2>4
  <1>4. ASSUME NEW w \in Workers, PublishProcessed(w) PROVE Durable(c)'
    <2>1. pc[w] = "publish" /\ entry' = entry /\ processed' \subseteq processed \cup {Chunk(w)}
      BY <1>4 DEF PublishProcessed, Fault
    <2>2. Durable(Chunk(w))
      BY <2>1 DEF DurableInv, Reached
    <2> QED
      BY <1>f, <1>k, <2>1, <2>2
  <1>5. ASSUME UNCHANGED <<entry, processed>> PROVE Durable(c)'
    BY <1>5, <1>f, <1>k
  <1>6. ASSUME NEW w \in Workers, Step(w) \/ Crash(w),
               ~SetRunning(w), ~SetFinished(w), ~PublishProcessed(w)
        PROVE  UNCHANGED <<entry, processed>>
    BY <1>6 DEF Step, Crash, Poll, AppendChunk, ComputeItem, WriteItemOnline, EmitUpdates,
                RefreshOnline, DeadLetter, Commit, Fault, stores
  <1>7. UNCHANGED vars => UNCHANGED <<entry, processed>>
    BY DEF vars, stores
  <1> QED
    BY <1>1, <1>2, <1>3, <1>4, <1>5, <1>6, <1>7 DEF Next, ApiCall

(* Nothing is served online that history does not have.                    *)
LEMMA OnlineStep ==
    ASSUME TypeOK, DurableInv, [Next]_vars
    PROVE  online' \subseteq history'
  <1>m. history \subseteq history'
    BY Monotone
  <1>o. online \subseteq history
    BY DEF DurableInv
  <1>1. ASSUME online' = online PROVE online' \subseteq history'
    BY <1>1, <1>m, <1>o
  <1>2. ASSUME NEW w \in Workers, WriteItemOnline(w) PROVE online' \subseteq history'
    <2>1. pc[w] = "item_online" /\ online' \subseteq online \cup {<<Chunk(w), done[w] + 1>>}
      BY <1>2 DEF WriteItemOnline
    <2>2. <<Chunk(w), done[w] + 1>> \in history
      BY <2>1 DEF DurableInv, Reached
    <2> QED
      BY <1>m, <1>o, <2>1, <2>2
  <1>3. ASSUME NEW w \in Workers, RefreshOnline(w) PROVE online' \subseteq history'
    <2>1. pc[w] = "refresh" /\ online' \subseteq online \cup Good(Chunk(w))
      BY <1>3 DEF RefreshOnline
    <2>2. Good(Chunk(w)) \subseteq history
      BY <2>1 DEF DurableInv, Reached, Durable
    <2> QED
      BY <1>m, <1>o, <2>1, <2>2
  <1>4. ASSUME NEW w \in Workers, Step(w) \/ Crash(w), ~WriteItemOnline(w), ~RefreshOnline(w)
        PROVE  online' = online
    BY <1>4 DEF Step, Crash, Poll, SetRunning, AppendChunk, ComputeItem, EmitUpdates,
                SetFinished, PublishProcessed, DeadLetter, Commit, stores
  <1>5. (\E a \in Calls : ApiCall(a)) \/ UNCHANGED vars => online' = online
    BY ApiTouches DEF stores, vars
  <1> QED
    BY <1>1, <1>2, <1>3, <1>4, <1>5 DEF Next, ApiCall

(* A chunk reported as finished, in the job's entry or to the audit trail, *)
(* has all its computable items in history and announced, whatever crashed,*)
(* failed or was submitted again on the way; and no item is served online  *)
(* that history does not have.                                             *)
THEOREM FinishedChunksAreDurable ==
    Spec => [](FinishedIsDurable /\ online \subseteq history)
  <1>1. Init => DurableInv
    <2> SUFFICES ASSUME Init PROVE DurableInv
      OBVIOUS
    <2>1. \A c \in Chunks : entry.chunks[c] \notin TERMINAL_CHUNK /\ c \notin processed
      BY DEF Init, NoJob, TERMINAL_CHUNK
    <2>2. \A w \in Workers : pc[w] = "poll"
      BY DEF Init
    <2> QED
      BY <2>1, <2>2 DEF Init, DurableInv, FinishedIsDurable, Reached
  <1>2. TypeOK /\ DurableInv /\ [Next]_vars => DurableInv'
    BY ReachedStep, FinishedStep, OnlineStep DEF DurableInv
  <1>3. DurableInv => FinishedIsDurable /\ online \subseteq history
    BY DEF DurableInv
  <1> QED
    BY <1>1, <1>2, <1>3, TypeCorrect, PTL DEF Spec

-----------------------------------------------------------------------------
(* No chunk is passed over.                                                *)

Settled == processed \cup dlq

(* As long as no call failed and no chunk was held back, a worker is never *)
(* more than one chunk ahead of its committed offset, and its commit is    *)
(* for a settled chunk.                                                    *)
InStep(w) ==
    /\ \A i \in 1..committed[w] : topic[w][i] \in Settled
    /\ pc[w] = "poll" => position[w] = committed[w]
    /\ pc[w] # "poll" => cur[w] = position[w] /\ position[w] = committed[w] + 1
    /\ pc[w] = "commit" => Chunk(w) \in Settled

LostInv == faults = 0 /\ pauses = 0 => \A w \in Workers : InStep(w)

(* Faults and pauses are never forgotten.                                  *)
LEMMA CountersGrow ==
    ASSUME TypeOK, [Next]_vars, faults' = 0, pauses' = 0
    PROVE  /\ faults = 0 /\ pauses = 0
           /\ \A w \in Workers : ~Fault(w)
  <1>t. faults \in Nat /\ pauses \in Nat
    BY BoundsNat DEF TypeOK
  <1>1. \A w \in Workers : ~Fault(w)
    BY <1>t DEF Fault
  <1>2. faults' = faults \/ faults' = faults + 1
    <2>1. CASE (\E a \in Calls : ApiCall(a)) \/ UNCHANGED vars
      BY <2>1, ApiTouches DEF vars, bounds
    <2>2. ASSUME NEW w \in Workers, Step(w) \/ Crash(w)
          PROVE  faults' = faults \/ faults' = faults + 1
      BY <2>2 DEF Step, Crash, Poll, SetRunning, SetFinished, SetChunk, AppendChunk,
                  ComputeItem, WriteItemOnline, EmitUpdates, RefreshOnline,
                  PublishProcessed, DeadLetter, Commit, Fault, Quiet, bounds
    <2> QED
      BY <2>1, <2>2 DEF Next, ApiCall
  <1>3. pauses' = pauses \/ pauses' = pauses + 1
    <2>1. CASE (\E a \in Calls : ApiCall(a)) \/ UNCHANGED vars
      BY <2>1, ApiTouches DEF vars, bounds
    <2>2. ASSUME NEW w \in Workers, Step(w) \/ Crash(w)
          PROVE  pauses' = pauses \/ pauses' = pauses + 1
      BY <2>2 DEF Step, Crash, Poll, SetRunning, SetFinished, AppendChunk,
                  ComputeItem, WriteItemOnline, EmitUpdates, RefreshOnline,
                  PublishProcessed, DeadLetter, Commit, Fault, Quiet, bounds
    <2> QED
      BY <2>1, <2>2 DEF Next, ApiCall
  <1> QED
    BY <1>1, <1>2, <1>3, <1>t

(* Each step keeps it.                                                     *)
LEMMA LostStep ==
    TypeOK /\ LostInv /\ [Next]_vars => LostInv'
  <1> SUFFICES ASSUME TypeOK, LostInv, [Next]_vars, faults' = 0, pauses' = 0,
                      NEW w \in Workers
               PROVE  InStep(w)'
    BY DEF LostInv
  <1> DEFINE c == Chunk(w)
  <1>f. faults = 0 /\ pauses = 0 /\ ~Fault(w)
    BY CountersGrow
  <1>i. InStep(w)
    BY <1>f DEF LostInv
  <1>t. /\ DOMAIN pc = Workers /\ DOMAIN cur = Workers
        /\ DOMAIN position = Workers /\ DOMAIN committed = Workers
        /\ committed[w] \in Nat /\ position[w] \in Nat /\ cur[w] \in Nat
        /\ committed[w] <= position[w] /\ position[w] <= Len(topic[w])
        /\ Len(topic[w]) \in Nat
    BY DEF TypeOK
  <1>k. Settled \subseteq Settled'
    BY Monotone DEF Settled
  <1>s. \A i \in 1..committed[w] : topic'[w][i] \in Settled'
    <2>1. \A i \in 1..committed[w] : i \in 1..Len(topic[w]) /\ topic[w][i] \in Settled
      BY <1>i, <1>t DEF InStep
    <2>2. \A i \in 1..Len(topic[w]) : topic'[w][i] = topic[w][i]
      BY Monotone
    <2> QED
      BY <1>k, <2>1, <2>2
  <1>c. pc[w] # "poll" /\ cur'[w] = cur[w] => c' = c
    BY SameChunk
  <1> HIDE DEF c
  <1>d. c = topic[w][cur[w]]
    BY DEF c, Chunk
  <1>1. CASE /\ pc'[w] = pc[w] /\ cur'[w] = cur[w]
             /\ position'[w] = position[w] /\ committed'[w] = committed[w]
    BY <1>1, <1>c, <1>i, <1>k, <1>s DEF InStep, c
  <1>2. CASE Poll(w)
    <2>1. /\ pc[w] = "poll" /\ pc'[w] \in {"running", "dead_letter"}
          /\ position'[w] = position[w] + 1 /\ cur'[w] = position[w] + 1
          /\ committed'[w] = committed[w]
      BY <1>2, <1>f, <1>t DEF Poll, Goto
    <2> QED
      BY <1>i, <1>s, <2>1 DEF InStep
  <1>3. CASE Crash(w)
    <2>1. pc'[w] = "poll" /\ position'[w] = committed[w] /\ committed'[w] = committed[w]
      BY <1>3, <1>t DEF Crash, Return, Goto
    <2> QED
      BY <1>s, <2>1 DEF InStep
  <1>4. CASE Commit(w)
    <2>1. /\ pc[w] = "commit" /\ pc'[w] = "poll"
          /\ committed'[w] = cur[w] /\ position'[w] = position[w] /\ topic' = topic
      BY <1>4, <1>t DEF Commit, Return, Goto
    <2>2. cur[w] = committed[w] + 1 /\ position[w] = cur[w] /\ c \in Settled
      BY <1>i, <2>1 DEF InStep, c
    <2>3. ASSUME NEW i \in 1..cur[w] PROVE topic'[w][i] \in Settled'
      <3>1. CASE i = cur[w]
        BY <1>d, <1>k, <2>1, <2>2, <3>1
      <3>2. CASE i # cur[w]
        BY <1>s, <1>t, <2>2, <3>2
      <3> QED
        BY <3>1, <3>2
    <2> QED
      BY <2>1, <2>2, <2>3 DEF InStep
  <1>5. ASSUME pc[w] # "poll", UNCHANGED <<broker, cur>>,
               pc'[w] # "poll", pc'[w] = "commit" => c \in Settled'
        PROVE  InStep(w)'
    <2>1. cur'[w] = cur[w] /\ position' = position /\ committed' = committed /\ c' = c
      BY <1>5, <1>c DEF broker
    <2> QED
      BY <1>5, <1>i, <1>s, <2>1 DEF InStep, c
  <1>6. CASE PublishProcessed(w)
    <2>1. /\ pc[w] = "publish" /\ pc'[w] = "commit" /\ UNCHANGED <<broker, cur>>
          /\ c \in processed'
      BY <1>6, <1>f, <1>t DEF PublishProcessed, Goto, Quiet, local, c
    <2> QED
      BY <1>5, <1>c, <2>1 DEF Settled
  <1>7. CASE DeadLetter(w)
    <2>1. /\ pc[w] = "dead_letter" /\ pc'[w] = "commit" /\ UNCHANGED <<broker, cur>>
          /\ c \in dlq'
      BY <1>7, <1>f, <1>t DEF DeadLetter, Goto, Quiet, local, c
    <2> QED
      BY <1>5, <1>c, <2>1 DEF Settled
  <1>8. CASE \/ SetRunning(w) \/ AppendChunk(w) \/ ComputeItem(w) \/ WriteItemOnline(w)
             \/ EmitUpdates(w) \/ RefreshOnline(w) \/ SetFinished(w)
    <2>1. /\ pc[w] # "poll" /\ UNCHANGED <<broker, cur>>
          /\ pc'[w] \notin {"poll", "commit"}
      BY <1>8, <1>f, <1>t
         DEF SetRunning, AppendChunk, ComputeItem, WriteItemOnline, EmitUpdates,
             RefreshOnline, SetFinished, Goto, Quiet, local
    <2> QED
      BY <1>5, <2>1
  <1> QED
    BY <1>1, <1>2, <1>3, <1>4, <1>6, <1>7, <1>8, StepOf DEF Step

(* As long as no call has failed and no chunk was held back, every chunk   *)
(* behind a worker's offset is processed or dead-lettered, through any     *)
(* number of crashes and resubmissions.                                    *)
THEOREM ChunksAreNotLost == Spec => []NoChunkLost
  <1>1. Init => LostInv
    BY DEF Init, LostInv, InStep
  <1>2. LostInv => NoChunkLost
    BY DEF LostInv, InStep, Settled, NoChunkLost
  <1> QED
    BY <1>1, <1>2, LostStep, TypeCorrect, PTL DEF Spec
=============================================================================
