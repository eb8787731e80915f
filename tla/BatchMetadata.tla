---------------------------- MODULE BatchMetadata ----------------------------
(***************************************************************************)
(* The durable audit of a batch job: the metadata writer projects each     *)
(* BatchChunkRequested and BatchChunkProcessed event into batch_chunks and *)
(* batch_jobs.  Every upsert reads a row, merges in Python and writes it   *)
(* in a transaction of its own; the job's status is then recomputed from   *)
(* the chunk rows, in another.  The two event types are on different       *)
(* topics, so they arrive in any order, to any writer of the group.        *)
(*                                                                         *)
(* One job.  Deliveries are abstracted as in MetadataProjection.           *)
(***************************************************************************)
EXTENDS Naturals, FiniteSets

CONSTANTS
    Chunks,
    ResultsOf,      \* chunk -> the results its deliveries may come to
    Writers,
    MaxInterruptions   \* redeliveries and failing calls, together

TERMINAL == {"completed", "completed_with_errors", "failed"}
None == "none"
ChunkState == {None, "requested"} \cup TERMINAL
Result == {"completed", "completed_with_errors"}

BatchMetadataAssumption ==
    /\ Chunks # {} /\ IsFiniteSet(Chunks)
    /\ ResultsOf \in [Chunks -> SUBSET Result]
    /\ MaxInterruptions \in Nat

Event == [chunk : Chunks, result : {None} \cup Result]   \* None: requested
NoEvent == [chunk |-> None, result |-> None]

VARIABLES
    published, committed,
    chunkRow,       \* batch_chunks: chunk -> status
    jobRow,         \* batch_jobs: status and chunk_count; status None: no row
    dlq,            \* conflicting processed events
    pc, event,      \* per writer: step, event in hand
    seenChunk,      \* per writer: the chunk's status it read
    seenJob,        \* per writer: the job row it read
    derived,        \* per writer: the job status it derived
    overwritten,    \* history: a write replaced a row it had not read
    interruptions   \* writers that died or failed

rows == <<chunkRow, jobRow>>
events == <<published, committed, dlq>>
local == <<event, seenChunk, seenJob, derived>>
bounds == <<interruptions>>
vars == <<events, rows, pc, local, overwritten, bounds>>

NoJobRow == [status |-> None, chunk_count |-> 0]
Count == Cardinality(Chunks)

Init ==
    /\ published = {} /\ committed = {} /\ dlq = {}
    /\ chunkRow = [c \in Chunks |-> None] /\ jobRow = NoJobRow
    /\ pc = [w \in Writers |-> "poll"]
    /\ event = [w \in Writers |-> NoEvent]
    /\ seenChunk = [w \in Writers |-> None]
    /\ seenJob = [w \in Writers |-> NoJobRow]
    /\ derived = [w \in Writers |-> None]
    /\ overwritten = FALSE /\ interruptions = 0

Goto(w, step) == pc' = [pc EXCEPT ![w] = step]
Forget(w) ==
    /\ seenChunk' = [seenChunk EXCEPT ![w] = None]
    /\ seenJob' = [seenJob EXCEPT ![w] = NoJobRow]
    /\ derived' = [derived EXCEPT ![w] = None]
Return(w) ==
    /\ Goto(w, "poll") /\ Forget(w)
    /\ event' = [event EXCEPT ![w] = NoEvent]

Interrupt == interruptions < MaxInterruptions /\ interruptions' = interruptions + 1

-----------------------------------------------------------------------------

(* Wrong version: waits for one chunk more than there are.                 *)
DeriveOffByOne(row, chunk_count) ==
    LET known == {c \in Chunks : row[c] # None}
        states == {row[c] : c \in known}
    IN  IF ~(Cardinality(known) > chunk_count /\ states \subseteq TERMINAL)
        THEN IF states \subseteq {"accepted", "requested"} THEN "accepted" ELSE "running"
        ELSE "completed"

derive_job_status(row, chunk_count) ==
    LET known == {c \in Chunks : row[c] # None}
        states == {row[c] : c \in known}
    IN  IF known = {} THEN "accepted"
        ELSE IF ~(Cardinality(known) >= chunk_count /\ states \subseteq TERMINAL)
             THEN IF states \subseteq {"accepted", "requested"} THEN "accepted" ELSE "running"
        ELSE IF states = {"failed"} THEN "failed"
        ELSE IF states \cap {"failed", "completed_with_errors"} # {}
             THEN "completed_with_errors"
        ELSE "completed"

(* merge_job_snapshot: a new row is accepted; an existing one keeps its    *)
(* status, its chunk count is filled in.                                   *)
merge_job_snapshot(existing) ==
    [status |-> IF existing.status = None THEN "accepted" ELSE existing.status,
     chunk_count |-> Count]

-----------------------------------------------------------------------------
(* The API publishes each chunk, a batch worker its result; a redelivered  *)
(* chunk may publish a result again, and not always the same.              *)
Publish(e) ==
    /\ e \in Event \ published
    /\ e.result # None =>
          e.result \in ResultsOf[e.chunk] /\ [e EXCEPT !.result = None] \in published
    /\ published' = published \cup {e}
    /\ UNCHANGED <<committed, dlq, rows, pc, local, overwritten, bounds>>

(* project_event: a requested event starts with the job, a processed one   *)
(* with its chunk.                                                         *)
Poll(w, e) ==
    /\ pc[w] = "poll"
    /\ e \in published \ committed
    /\ \A v \in Writers : event[v] # e
    /\ event' = [event EXCEPT ![w] = e]
    /\ Goto(w, IF e.result = None THEN "job_read" ELSE "chunk_read")
    /\ UNCHANGED <<events, rows, seenChunk, seenJob, derived, overwritten, bounds>>

(* The process dies: the event is delivered again.                         *)
Abandon(w) ==
    /\ pc[w] # "poll"
    /\ Interrupt /\ Return(w)
    /\ UNCHANGED <<events, rows, overwritten>>

(* A database call fails: store_failed, and the runner polls on.           *)
Fail(w) ==
    /\ pc[w] \notin {"poll", "commit"}
    /\ Interrupt
    /\ committed' \in {committed, committed \cup {event[w]}}
    /\ Return(w)
    /\ UNCHANGED <<published, dlq, rows, overwritten>>

(* upsert_job: get_job, then the merged snapshot.                          *)
ReadJob(w) ==
    /\ pc[w] = "job_read"
    /\ seenJob' = [seenJob EXCEPT ![w] = jobRow]
    /\ Goto(w, "job_write")
    /\ UNCHANGED <<events, rows, event, seenChunk, derived, overwritten, bounds>>

WriteJob(w) ==
    /\ pc[w] = "job_write"
    /\ overwritten' = (overwritten \/ seenJob[w] # jobRow)
    /\ jobRow' = merge_job_snapshot(seenJob[w])
    /\ Forget(w) /\ Goto(w, "job_derive")
    /\ UNCHANGED <<events, chunkRow, event, bounds>>

(* _recompute_job_status: list_chunks and get_job, in one step, since all  *)
(* that is used of the job row is whether it exists ...                    *)
Derive(w) ==
    /\ pc[w] \in {"job_derive", "chunk_derive"}
    /\ seenJob' = [seenJob EXCEPT ![w] = jobRow]
    /\ derived' = [derived EXCEPT ![w] = derive_job_status(chunkRow,
            IF jobRow.chunk_count # 0 THEN jobRow.chunk_count ELSE Count)]
    /\ Goto(w, IF pc[w] = "job_derive" THEN "job_status" ELSE "chunk_status")
    /\ UNCHANGED <<events, rows, event, seenChunk, overwritten, bounds>>

(* ... and the write of the job row.                                       *)
WriteStatus(w) ==
    /\ pc[w] \in {"job_status", "chunk_status"}
    /\ overwritten' = (overwritten \/ seenJob[w] # jobRow
                          \/ derived[w] # derive_job_status(chunkRow, Count))
    /\ jobRow' = [status |-> derived[w],
                  chunk_count |-> IF seenJob[w].status = None THEN Count
                                  ELSE seenJob[w].chunk_count]
    /\ Forget(w)
    /\ Goto(w, IF pc[w] = "job_status" THEN "chunk_read" ELSE "commit")
    /\ UNCHANGED <<events, chunkRow, event, bounds>>

(* upsert_chunk_requested and upsert_chunk_processed: a terminal row is    *)
(* not downgraded; an identical result is a no-op, another one a conflict. *)
ReadChunk(w) ==
    LET c == event[w].chunk
        r == event[w].result
    IN  /\ pc[w] = "chunk_read"
        /\ seenChunk' = [seenChunk EXCEPT ![w] = chunkRow[c]]
        /\ Goto(w, IF chunkRow[c] \notin TERMINAL THEN "chunk_write"
                   ELSE IF r \in {None, chunkRow[c]} THEN "commit" ELSE "dead_letter")
        /\ UNCHANGED <<events, rows, event, seenJob, derived, overwritten, bounds>>

(* Wrong version: the job is recomputed only for requested chunks.         *)
WriteChunkOnly(w) ==
    LET c == event[w].chunk
        r == event[w].result
    IN  /\ pc[w] = "chunk_write"
        /\ overwritten' = (overwritten \/ seenChunk[w] # chunkRow[c])
        /\ chunkRow' = [chunkRow EXCEPT ![c] = IF r = None THEN "requested" ELSE r]
        /\ Forget(w) /\ Goto(w, IF r = None THEN "chunk_derive" ELSE "commit")
        /\ UNCHANGED <<events, jobRow, event, bounds>>

WriteChunk(w) ==
    LET c == event[w].chunk
        r == event[w].result
    IN  /\ pc[w] = "chunk_write"
        /\ overwritten' = (overwritten \/ seenChunk[w] # chunkRow[c])
        /\ chunkRow' = [chunkRow EXCEPT ![c] = IF r = None THEN "requested" ELSE r]
        /\ Forget(w) /\ Goto(w, "chunk_derive")
        /\ UNCHANGED <<events, jobRow, event, bounds>>

(* BatchMetadataConflictError is a structural_conflict.                    *)
DeadLetter(w) ==
    /\ pc[w] = "dead_letter"
    /\ dlq' = dlq \cup {event[w]}
    /\ Goto(w, "commit")
    /\ UNCHANGED <<published, committed, rows, local, overwritten, bounds>>

Commit(w) ==
    /\ pc[w] = "commit"
    /\ committed' = committed \cup {event[w]}
    /\ Return(w)
    /\ UNCHANGED <<published, dlq, rows, overwritten, bounds>>

-----------------------------------------------------------------------------
Step(w) ==
    \/ \E e \in Event : Poll(w, e)
    \/ ReadJob(w) \/ WriteJob(w) \/ Derive(w) \/ WriteStatus(w)
    \/ ReadChunk(w) \/ WriteChunk(w) \/ DeadLetter(w) \/ Commit(w)

Next ==
    \/ \E e \in Event : Publish(e)
    \/ \E w \in Writers : Step(w) \/ Abandon(w) \/ Fail(w)

Spec == Init /\ [][Next]_vars

(* The metadata writers keep running.                                      *)
FairSpec == Spec /\ \A w \in Writers : WF_vars(Step(w))

-----------------------------------------------------------------------------
JobStatuses == {"accepted", "running"} \cup TERMINAL
JobRows == {NoJobRow} \cup [status : JobStatuses, chunk_count : {Count}]
Steps == {"poll", "job_read", "job_write", "job_derive", "job_status", "chunk_read",
          "chunk_write", "chunk_derive", "chunk_status", "dead_letter", "commit"}

TypeOK ==
    /\ published \subseteq Event /\ committed \subseteq published /\ dlq \subseteq published
    /\ chunkRow \in [Chunks -> ChunkState] /\ jobRow \in JobRows
    /\ pc \in [Writers -> Steps]
    /\ event \in [Writers -> Event \cup {NoEvent}]
    /\ \A w \in Writers : pc[w] # "poll" => event[w] \in published
    /\ seenChunk \in [Writers -> ChunkState] /\ seenJob \in [Writers -> JobRows]
    /\ derived \in [Writers -> JobStatuses \cup {None}]
    /\ \A w \in Writers : pc[w] \in {"job_status", "chunk_status"} => derived[w] # None
    /\ overwritten \in BOOLEAN /\ interruptions \in Nat

Settled == published # {} /\ committed = published
FollowsChunks == jobRow.status = derive_job_status(chunkRow, Count)

(* "order-independent": once every event is projected, in any order and by *)
(* several writers, the job row says what the chunk rows say - as long as  *)
(* no writer died or failed between its two transactions.                  *)
JobFollowsChunks ==
    (Settled /\ ~overwritten /\ interruptions = 0) => FollowsChunks

(* A job all of whose results are published is eventually audited as       *)
(* finished, unless a writer dies, fails or is overwritten.                *)
JobIsAudited ==
    (\A c \in Chunks : \E e \in published : e.chunk = c /\ e.result # None)
        ~> (jobRow.status \in TERMINAL \/ overwritten \/ interruptions > 0)
=============================================================================
