------------------------------ MODULE BatchJobs ------------------------------
(***************************************************************************)
(* One batch job from its submission to its last chunk.  The API stores    *)
(* the job's status entry and publishes one event per chunk; an identical  *)
(* resubmission replays the existing job, or publishes again when the      *)
(* entry says publish_failed.  Each batch worker consumes a partition of   *)
(* the chunk topic: it may be paused or rate limited, marks the chunk      *)
(* running, computes its items, appends them to offline history, announces *)
(* them, refreshes the online store, marks the chunk finished, publishes   *)
(* BatchChunkProcessed and commits.  An inline chunk stores its items one  *)
(* by one, a chunk of a manifest in one append.                            *)
(*                                                                         *)
(* set_chunk is atomic (WATCH/MULTI, retried), put is not conditional: two *)
(* calls that both saw no job both store one and publish all its chunks.   *)
(* The deduplicated append is the one of OfflineWriter, the durable audit  *)
(* of the events is in BatchMetadata.                                      *)
(***************************************************************************)
EXTENDS BatchStatus, Sequences

CONSTANTS
    Order,         \* the chunks in the order of their index
    Jobs,          \* the jobs that may be submitted, and where their chunks fall
    Workers,
    ItemCount,     \* items per chunk
    Bad,           \* <<chunk, item>> that cannot be computed
    MaxRefresh,    \* online refreshes a chunk's budget allows
    MaxSubmits, MaxCrashes,
    MaxFaults      \* bound on failing calls and pauses together

ASSUME BatchJobsAssumption ==
    /\ Order \in Seq(Chunks) /\ Order # <<>>   \* a job without items is refused
    /\ Chunks = {Order[i] : i \in DOMAIN Order}
    /\ Jobs \subseteq [scope : {"inline", "manifest"}, write_online : BOOLEAN, valid : BOOLEAN,
                      ownerOf : [Chunks -> Workers]]
    /\ ItemCount \in Nat \ {0} /\ Bad \subseteq Chunks \X (1..ItemCount)
    /\ {MaxRefresh, MaxSubmits, MaxCrashes, MaxFaults} \subseteq Nat

Calls == 1..MaxSubmits   \* calls of create_batch_job with the job's key

VARIABLES
    scope, write_online, valid, \* the job; valid: the workers know its view
    ownerOf,                    \* chunk -> the worker that owns its partition
    entry,                      \* fs:batch-job:<id>
    api, next, response,        \* per call: step, chunk index, answer
    restarted,                  \* history: a call put the job although it was under way
    topic, position, committed, \* per worker: its partition
    pc, cur, done, fresh,       \* per worker: step, offset, items, item is new
    history, online, updates, processed, dlq,
    submits, crashes, faults, pauses

job == <<scope, write_online, valid, ownerOf>>
call == <<api, next, response, restarted>>
broker == <<topic, position, committed>>
local == <<cur, done, fresh>>
stores == <<history, online, updates, processed, dlq>>
bounds == <<submits, crashes, faults, pauses>>
vars == <<job, entry, call, broker, pc, local, stores, bounds>>

Init ==
    /\ \E j \in Jobs : /\ scope = j.scope /\ write_online = j.write_online
                       /\ valid = j.valid /\ ownerOf = j.ownerOf
    /\ entry = NoJob
    /\ api = [a \in Calls |-> "idle"] /\ next = [a \in Calls |-> 1]
    /\ response = [a \in Calls |-> "none"] /\ restarted = FALSE
    /\ topic = [w \in Workers |-> <<>>]
    /\ position = [w \in Workers |-> 0] /\ committed = [w \in Workers |-> 0]
    /\ pc = [w \in Workers |-> "poll"]
    /\ cur = [w \in Workers |-> 0] /\ done = [w \in Workers |-> 0]
    /\ fresh = [w \in Workers |-> FALSE]
    /\ history = {} /\ online = {} /\ updates = {} /\ processed = {} /\ dlq = {}
    /\ submits = 0 /\ crashes = 0 /\ faults = 0 /\ pauses = 0

Chunk(w) == topic[w][cur[w]]
Good(c) == {<<c, i>> : i \in 1..ItemCount} \ Bad
Result(c) == IF \E i \in 1..ItemCount : <<c, i>> \in Bad
             THEN "completed_with_errors" ELSE "completed"
MayFail == faults + pauses < MaxFaults
Goto(w, step) == pc' = [pc EXCEPT ![w] = step]
Return(w) ==      \* back to the poll loop; the locals are gone
    /\ Goto(w, "poll")
    /\ cur' = [cur EXCEPT ![w] = 0] /\ done' = [done EXCEPT ![w] = 0]
    /\ fresh' = [fresh EXCEPT ![w] = FALSE]

-----------------------------------------------------------------------------
(* create_batch_job.  The entry decides whether the call creates the job   *)
(* or replays it.                                                          *)
UnderWay == entry # NoJob /\ entry.status # "publish_failed"

Answer(a, r) ==
    /\ api' = [api EXCEPT ![a] = "idle"] /\ next' = [next EXCEPT ![a] = 1]
    /\ response' = [response EXCEPT ![a] = r]

Submit(a) ==
    /\ a = submits + 1
    /\ submits' = a
    /\ IF UnderWay THEN Answer(a, "accepted")
       ELSE /\ api' = [api EXCEPT ![a] = "put"]
            /\ UNCHANGED <<next, response>>
    /\ UNCHANGED <<job, entry, restarted, broker, pc, local, stores, crashes, faults, pauses>>

PutJob(a) ==
    /\ api[a] = "put"
    /\ entry' = Accepted("accepted")
    /\ restarted' = (restarted \/ UnderWay)
    /\ api' = [api EXCEPT ![a] = "publish"]
    /\ UNCHANGED <<job, next, response, broker, pc, local, stores, bounds>>

(* The chunk events one by one.  A publish that raises may have been       *)
(* delivered; the job is then put back as publish_failed.                  *)
PublishChunk(a) ==
    LET c == Order[next[a]]
        sent == [topic EXCEPT ![ownerOf[c]] = Append(@, c)]
    IN  /\ api[a] = "publish"
        /\ \/ /\ topic' = sent
              /\ IF next[a] = Len(Order) THEN Answer(a, "accepted")
                 ELSE next' = [next EXCEPT ![a] = @ + 1] /\ UNCHANGED <<api, response>>
              /\ UNCHANGED faults
           \/ /\ MayFail /\ faults' = faults + 1
              /\ topic' \in {topic, sent}
              /\ api' = [api EXCEPT ![a] = "publish_failed"] /\ UNCHANGED <<next, response>>
        /\ UNCHANGED <<job, entry, restarted, position, committed, pc, local, stores,
                       submits, crashes, pauses>>

PutPublishFailed(a) ==
    /\ api[a] = "publish_failed"
    /\ entry' = Accepted("publish_failed")
    /\ Answer(a, "error")
    /\ UNCHANGED <<job, restarted, broker, pc, local, stores, bounds>>

(* The API process dies, or a put of the entry raises: the call ends where *)
(* it is.                                                                  *)
ApiAborts(a) ==
    /\ api[a] # "idle"
    /\ \/ crashes < MaxCrashes /\ crashes' = crashes + 1 /\ UNCHANGED faults
       \/ api[a] # "publish" /\ MayFail /\ faults' = faults + 1 /\ UNCHANGED crashes
    /\ Answer(a, "error")
    /\ UNCHANGED <<job, entry, restarted, broker, pc, local, stores, submits, pauses>>

-----------------------------------------------------------------------------
(* A worker dies and resumes its partition at the committed offset.        *)
Crash(w) ==
    /\ crashes < MaxCrashes /\ crashes' = crashes + 1
    /\ pc[w] # "poll" \/ position[w] # committed[w]
    /\ Return(w)
    /\ position' = [position EXCEPT ![w] = committed[w]]
    /\ UNCHANGED <<job, entry, call, topic, committed, stores,
                   submits, faults, pauses>>

(* infra_failed, publish_failed, dlq_publish_failed: no commit.            *)
Fault(w) ==
    /\ MayFail /\ faults' = faults + 1
    /\ Return(w)
    /\ UNCHANGED <<job, entry, call, broker, submits, crashes, pauses>>

Quiet == UNCHANGED <<job, call, broker, bounds>>

(* process_next: poll, then the isolation gate (paused, rate_limited): the *)
(* message is left without a commit, and the loop polls on.                *)
Poll(w) ==
    /\ pc[w] = "poll" /\ position[w] < Len(topic[w])
    /\ position' = [position EXCEPT ![w] = @ + 1]
    /\ \/ MayFail /\ pauses' = pauses + 1 /\ UNCHANGED <<pc, local>>
       \/ /\ cur' = [cur EXCEPT ![w] = position[w] + 1]
          /\ done' = [done EXCEPT ![w] = 0] /\ fresh' = [fresh EXCEPT ![w] = FALSE]
          /\ Goto(w, IF valid THEN "running" ELSE "dead_letter")
          /\ UNCHANGED pauses
    /\ UNCHANGED <<job, entry, call, topic, committed, stores, submits, crashes, faults>>

(* _safe_set_chunk: nothing without an entry; a failure is swallowed.      *)
SetChunk(w, s) ==
    \/ /\ entry' = IF entry = NoJob THEN entry ELSE merge_chunk(entry, Chunk(w), s)
       /\ UNCHANGED faults
    \/ MayFail /\ faults' = faults + 1 /\ UNCHANGED entry

SetRunning(w) ==
    /\ pc[w] = "running"
    /\ SetChunk(w, "running")
    /\ Goto(w, IF scope = "inline" THEN "item" ELSE "append")
    /\ UNCHANGED <<job, call, broker, local, stores, submits, crashes, pauses>>

(* Manifest chunk: the computed items, less the ones history has, in one   *)
(* append.                                                                 *)
AppendChunk(w) ==
    /\ pc[w] = "append"
    /\ \/ history' = history \cup Good(Chunk(w)) /\ Goto(w, "emit")
          /\ Quiet /\ UNCHANGED <<entry, local>>
       \/ Fault(w) /\ UNCHANGED history
    /\ UNCHANGED <<online, updates, processed, dlq>>

(* Inline chunk: persist_and_compute item by item.  A bad item is counted  *)
(* and passed over; a good one is appended unless history has it.          *)
ComputeItem(w) ==
    LET x == <<Chunk(w), done[w] + 1>>
        Skip == done' = [done EXCEPT ![w] = @ + 1] /\ UNCHANGED <<pc, fresh, history>>
    IN  /\ pc[w] = "item"
        /\ \/ /\ IF done[w] = ItemCount
                 THEN Goto(w, "emit") /\ UNCHANGED <<done, fresh, history>>
                 ELSE IF x \in Bad THEN Skip
                 ELSE /\ fresh' = [fresh EXCEPT ![w] = x \notin history]
                      /\ history' = history \cup {x}
                      /\ Goto(w, "item_online") /\ UNCHANGED done
              /\ Quiet /\ UNCHANGED <<entry, cur>>
           \/ Fault(w) /\ UNCHANGED history
        /\ UNCHANGED <<online, updates, processed, dlq>>

(* ... and written online, if the job wants it and the row was new.        *)
WriteItemOnline(w) ==
    /\ pc[w] = "item_online"
    /\ \/ /\ online' = IF write_online /\ fresh[w]
                       THEN online \cup {<<Chunk(w), done[w] + 1>>} ELSE online
          /\ done' = [done EXCEPT ![w] = @ + 1]
          /\ fresh' = [fresh EXCEPT ![w] = FALSE]
          /\ Goto(w, "item")
          /\ Quiet /\ UNCHANGED <<entry, cur>>
       \/ write_online /\ fresh[w] /\ Fault(w) /\ UNCHANGED online
    /\ UNCHANGED <<history, updates, processed, dlq>>

(* Wrong version: a failed announcement is swallowed.                      *)
SwallowEmitError(w) ==
    /\ pc[w] = "emit"
    /\ \/ updates' = updates \cup {Chunk(w)} /\ UNCHANGED faults
       \/ MayFail /\ faults' = faults + 1 /\ UNCHANGED updates
    /\ Goto(w, IF scope = "manifest" /\ write_online THEN "refresh" ELSE "finished")
    /\ UNCHANGED <<job, call, broker, entry, local, history, online, processed, dlq,
                   submits, crashes, pauses>>

(* emit_feature_updates, after the append and before the completion.       *)
EmitUpdates(w) ==
    /\ pc[w] = "emit"
    /\ \/ /\ updates' = updates \cup {Chunk(w)}
          /\ Goto(w, IF scope = "manifest" /\ write_online THEN "refresh" ELSE "finished")
          /\ Quiet /\ UNCHANGED <<entry, local>>
       \/ Fault(w) /\ UNCHANGED updates
    /\ UNCHANGED <<history, online, processed, dlq>>

(* _guarded_online_refresh: within the budget, each write may fail; none   *)
(* of it fails the chunk.                                                  *)
RefreshOnline(w) ==
    /\ pc[w] = "refresh"
    /\ \E S \in SUBSET Good(Chunk(w)) :
          Cardinality(S) <= MaxRefresh /\ online' = online \cup S
    /\ Goto(w, "finished")
    /\ Quiet /\ UNCHANGED <<entry, local, history, updates, processed, dlq>>

SetFinished(w) ==
    /\ pc[w] = "finished"
    /\ SetChunk(w, Result(Chunk(w)))
    /\ Goto(w, "publish")
    /\ UNCHANGED <<job, call, broker, local, stores, submits, crashes, pauses>>

(* BatchChunkProcessed, acknowledged before the commit.                    *)
PublishProcessed(w) ==
    LET sent == processed \cup {Chunk(w)}
    IN  /\ pc[w] = "publish"
        /\ \/ processed' = sent /\ Goto(w, "commit") /\ Quiet /\ UNCHANGED <<entry, local>>
           \/ processed' \in {processed, sent} /\ Fault(w)
        /\ UNCHANGED <<history, online, updates, dlq>>

(* _dead_letter: no chunk state is set.                                    *)
DeadLetter(w) ==
    LET sent == dlq \cup {Chunk(w)}
    IN  /\ pc[w] = "dead_letter"
        /\ \/ dlq' = sent /\ Goto(w, "commit") /\ Quiet /\ UNCHANGED <<entry, local>>
           \/ dlq' \in {dlq, sent} /\ Fault(w)
        /\ UNCHANGED <<history, online, updates, processed>>

(* Wrong version: commits everything that was fetched.                     *)
CommitFetched(w) ==
    /\ pc[w] = "commit"
    /\ committed' = [committed EXCEPT ![w] = Len(topic[w])]
    /\ position' = committed'
    /\ Return(w)
    /\ UNCHANGED <<job, entry, call, topic, stores, bounds>>

Commit(w) ==
    /\ pc[w] = "commit"
    /\ committed' = [committed EXCEPT ![w] = cur[w]]
    /\ Return(w)
    /\ UNCHANGED <<job, entry, call, topic, position, stores, bounds>>

-----------------------------------------------------------------------------
ApiStep(a) == PutJob(a) \/ PublishChunk(a) \/ PutPublishFailed(a)

Step(w) ==
    \/ Poll(w) \/ SetRunning(w) \/ AppendChunk(w) \/ ComputeItem(w)
    \/ WriteItemOnline(w) \/ EmitUpdates(w) \/ RefreshOnline(w)
    \/ SetFinished(w) \/ PublishProcessed(w) \/ DeadLetter(w) \/ Commit(w)

Next ==
    \/ \E a \in Calls : Submit(a) \/ ApiStep(a) \/ ApiAborts(a)
    \/ \E w \in Workers : Step(w) \/ Crash(w)

Spec == Init /\ [][Next]_vars

(* The API calls run to their end and the workers keep running.            *)
FairSpec ==
    /\ Spec
    /\ \A a \in Calls : WF_vars(ApiStep(a))
    /\ \A w \in Workers : WF_vars(Step(w))

-----------------------------------------------------------------------------
TypeOK ==
    /\ scope \in {"inline", "manifest"} /\ write_online \in BOOLEAN /\ valid \in BOOLEAN
    /\ ownerOf \in [Chunks -> Workers]
    /\ entry \in JobEntry
    /\ api \in [Calls -> {"idle", "put", "publish", "publish_failed"}]
    /\ next \in [Calls -> 1..Len(Order)]
    /\ response \in [Calls -> {"none", "accepted", "error"}] /\ restarted \in BOOLEAN
    /\ topic \in [Workers -> Seq(Chunks)]
    /\ position \in [Workers -> Nat] /\ committed \in [Workers -> Nat]
    /\ pc \in [Workers -> {"poll", "running", "append", "item", "item_online", "emit",
                           "refresh", "finished", "publish", "dead_letter", "commit"}]
    /\ cur \in [Workers -> Nat] /\ done \in [Workers -> 0..ItemCount]
    /\ fresh \in [Workers -> BOOLEAN]
    /\ \A w \in Workers :
          /\ \A i \in 1..Len(topic[w]) : ownerOf[topic[w][i]] = w
          /\ committed[w] <= position[w] /\ position[w] <= Len(topic[w])
          /\ cur[w] <= position[w] /\ (cur[w] = 0 <=> pc[w] = "poll")
          /\ pc[w] = "item_online" => done[w] < ItemCount
    /\ history \subseteq (Chunks \X (1..ItemCount)) \ Bad
    /\ online \subseteq Chunks \X (1..ItemCount)
    /\ updates \cup processed \cup dlq \subseteq Chunks
    /\ submits \in 0..MaxSubmits /\ crashes \in 0..MaxCrashes
    /\ faults \in 0..MaxFaults /\ pauses \in 0..MaxFaults

Durable(c) == Good(c) \subseteq history /\ c \in updates

(* A chunk reported as finished, to the client or to the audit trail, has  *)
(* all its computable items in history and announced, whatever crashed,    *)
(* failed or was submitted twice on the way.                               *)
FinishedIsDurable ==
    \A c \in Chunks :
        (entry.chunks[c] \in TERMINAL_CHUNK \/ c \in processed) => Durable(c)

(* As long as no call has failed and no chunk was held back, every chunk   *)
(* behind the offset is processed or dead-lettered.                        *)
NoChunkLost ==
    faults = 0 /\ pauses = 0 =>
        \A w \in Workers : \A i \in 1..committed[w] : topic[w][i] \in processed \cup dlq

Published ==
    \A c \in Chunks : \E i \in DOMAIN topic[ownerOf[c]] : topic[ownerOf[c]][i] = c

(* An accepted job the workers can compute, all of it published, is        *)
(* eventually reported finished, although calls race and chunks are done   *)
(* twice, and through crashes of API and workers, unless a call fails or a *)
(* chunk is held back, or a call dies that has put the job back to the     *)
(* start behind another one.                                               *)
JobFinishes ==
    ((\E a \in Calls : response[a] = "accepted") /\ Published /\ valid) ~>
        (entry.status \in TERMINAL_CHUNK \/ faults > 0 \/ pauses > 0 \/ (restarted /\ crashes > 0))
=============================================================================
