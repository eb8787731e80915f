--------------------------- MODULE MCBatchMetadata ---------------------------
(* Two chunks; the second may come to either result.                       *)
EXTENDS BatchAudit

MCResultsOf ==
    [c \in Chunks |-> IF c = "c1" THEN {"completed"} ELSE {"completed", "completed_with_errors"}]
=============================================================================
