----------------------------- MODULE MCBatchJobs -----------------------------
(* Two chunks, on one worker's partition or on two; the second item of the *)
(* second chunk is bad.  Inline jobs, jobs of a manifest with and without  *)
(* an online refresh, and one the workers have no view for.                *)
EXTENDS BatchJobs

MCOrder == <<"c1", "c2">>
Together == [c \in Chunks |-> "w1"]
Apart == [c \in Chunks |-> IF c = "c1" THEN "w1" ELSE "w2"]
Job(s, o, v, p) == [scope |-> s, write_online |-> o, valid |-> v, ownerOf |-> p]
MCJobs ==
    {Job("inline", TRUE, TRUE, Together), Job("inline", TRUE, TRUE, Apart),
     Job("manifest", TRUE, TRUE, Together), Job("manifest", FALSE, TRUE, Apart),
     Job("inline", TRUE, FALSE, Together)}
MCBad == {<<"c2", 2>>}
=============================================================================
