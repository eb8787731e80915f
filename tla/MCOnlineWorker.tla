--------------------------- MODULE MCOnlineWorker ---------------------------
(* Requests for one entity, the second one fresher.                        *)
EXTENDS OnlineWorker

MCDataTs == [r \in Requests |-> IF r = "r2" THEN 2 ELSE 1]
=============================================================================
