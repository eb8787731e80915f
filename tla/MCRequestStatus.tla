--------------------------- MODULE MCRequestStatus ---------------------------
(* A request handled well or not while a consumer may die, one that        *)
(* succeeds while a client asks and a status call is lost, one, of any     *)
(* outcome, whose client waits in the hybrid endpoint, and two that two    *)
(* metadata writers project while a client asks: one that succeeds, one    *)
(* that expires while a writer may die or lose its partition.              *)
EXTENDS RequestStatus

MCInstances ==
    {[outcomes |-> {"ok", "compute_failed"}, appends |-> {"written"}, polled |-> FALSE,
      hybrid |-> FALSE, writers |-> {"m1"}, max_crashes |-> 1, max_lost |-> 0],
     [outcomes |-> {"ok"}, appends |-> {"written"}, polled |-> TRUE,
      hybrid |-> FALSE, writers |-> {"m1"}, max_crashes |-> 0, max_lost |-> 1],
     [outcomes |-> {"ok", "deadline_expired", "compute_failed"},
      appends |-> {"written", "retrying", "failed_dlq"}, polled |-> FALSE,
      hybrid |-> TRUE, writers |-> {"m1"}, max_crashes |-> 0, max_lost |-> 0],
     [outcomes |-> {"ok"}, appends |-> {"written"}, polled |-> TRUE,
      hybrid |-> FALSE, writers |-> {"m1", "m2"}, max_crashes |-> 0, max_lost |-> 0],
     [outcomes |-> {"deadline_expired"}, appends |-> {"written"}, polled |-> TRUE,
      hybrid |-> FALSE, writers |-> {"m1", "m2"}, max_crashes |-> 1, max_lost |-> 0]}
=============================================================================
