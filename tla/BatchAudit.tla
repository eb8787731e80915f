------------------------------ MODULE BatchAudit ------------------------------
(***************************************************************************)
(* BatchMetadata under names of its own, so that it can stand beside       *)
(* MetadataProjection: the two projections of the metadata writer have no  *)
(* topic and no row in common.                                             *)
(***************************************************************************)
CONSTANTS Chunks, ResultsOf, AuditWriters, MaxInterruptions

VARIABLES
    batchPublished, batchCommitted, chunkRow, jobRow, dlq, batchStep, batchEvent,
    seenChunk, seenJob, derived, batchOverwritten, batchInterruptions

B == INSTANCE BatchMetadata WITH
        Writers <- AuditWriters,
        published <- batchPublished, committed <- batchCommitted, pc <- batchStep, event <- batchEvent,
        overwritten <- batchOverwritten, interruptions <- batchInterruptions

ASSUME AuditAssumption == B!BatchMetadataAssumption

AuditSpec == B!Spec
AuditFairSpec == B!FairSpec

-----------------------------------------------------------------------------
(* BatchMetadata: once all is projected the job row follows the chunk rows.*)
JobFollowsChunks == B!JobFollowsChunks

(* BatchMetadata: a job whose results are all published ends as finished.  *)
JobIsAudited == B!JobIsAudited
=============================================================================
