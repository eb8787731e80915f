----------------------------- MODULE BatchStatus -----------------------------
(***************************************************************************)
(* The operational status of a batch job: how a chunk's state is merged    *)
(* into the job's entry and how the job's status follows from the states   *)
(* of its chunks.  Counts and timestamps are derived from the same states. *)
(***************************************************************************)
EXTENDS Naturals, FiniteSets

CONSTANT Chunks      \* the chunks of the job

TERMINAL_CHUNK == {"completed", "completed_with_errors", "failed"}
ChunkStates == {"accepted", "running"} \cup TERMINAL_CHUNK
JobStates == ChunkStates \cup {"publish_failed"}

NoJob == [status |-> "no job", chunks |-> [c \in Chunks |-> "accepted"]]
JobEntry == [status : JobStates, chunks : [Chunks -> ChunkStates]] \cup {NoJob}

(* create_batch_job pre-populates every chunk, so none is ever missing.    *)
Accepted(status) == [status |-> status, chunks |-> [c \in Chunks |-> "accepted"]]

(* Wrong version: a chunk with errors keeps the job from finishing.        *)
DeriveStrict(states) ==
    IF states = {"accepted"} THEN "accepted"
    ELSE IF states = {"completed"} THEN "completed" ELSE "running"

derive_job_status(states) ==
    IF states = {"accepted"} THEN "accepted"
    ELSE IF states \cap {"accepted", "running"} # {} THEN "running"
    ELSE IF states = {"failed"} THEN "failed"
    ELSE IF states \cap {"failed", "completed_with_errors"} # {}
         THEN "completed_with_errors"
    ELSE "completed"

With(job, c, s) ==
    LET chunks == [job.chunks EXCEPT ![c] = s]
    IN  [status |-> derive_job_status({chunks[d] : d \in Chunks}), chunks |-> chunks]

(* merge_chunk: a terminal chunk is not taken back.                        *)
merge_chunk(job, c, s) ==
    IF job.chunks[c] \in TERMINAL_CHUNK /\ s \notin TERMINAL_CHUNK
    THEN job ELSE With(job, c, s)
=============================================================================
