--------------------------- MODULE RequestMetadata ---------------------------
(***************************************************************************)
(* The durable request snapshot in feature_requests: how an incoming       *)
(* partial snapshot is merged onto the stored one, and the partial         *)
(* snapshot each event type projects.  Of the snapshot's columns the ones  *)
(* that report an outcome are kept; the descriptive ones (job, entity,     *)
(* view, requested features, timestamps, error) follow `pick`.             *)
(***************************************************************************)
EXTENDS Naturals, FiniteSets

None == "none"            \* SQL NULL, Python None
NoRow == [status |-> "no row", online |-> None, offline |-> None]
TERMINAL == {"completed", "failed"}

OnlineStatuses == {None, "written", "deadline_expired"}
Snapshot ==
    [status : {None, "accepted"} \cup TERMINAL, online : OnlineStatuses,
     offline : {None, "pending", "failed_dlq"}] \cup {NoRow}

(* The events that concern one request, by what their handler projects.    *)
Events == {"requested", "offline_requested", "completed", "expired",
           "dlq_online", "dlq_offline", "dlq_metadata"}

pick(inc, exi) == IF inc # None THEN inc ELSE exi

(* Wrong version: the incoming status always wins.                         *)
LastStatusWins(existing, incoming) ==
    IF existing = NoRow THEN incoming
    ELSE [f \in DOMAIN existing |-> pick(incoming[f], existing[f])]

(* Wrong version: the first status is kept for good.                       *)
FirstStatusWins(existing, incoming) ==
    IF existing = NoRow THEN incoming
    ELSE [f \in DOMAIN existing |->
            IF f = "status" THEN pick(existing.status, incoming.status)
            ELSE pick(incoming[f], existing[f])]

(* upsert_request: insert, or merge_request onto the row that was read.    *)
merge_request(existing, incoming) ==
    IF existing = NoRow THEN incoming
    ELSE [f \in DOMAIN existing |->
            IF /\ f = "status" /\ existing.status \in TERMINAL
               /\ incoming.status \in {"accepted", "running"}
            THEN existing.status
            ELSE pick(incoming[f], existing[f])]

Partial(s, on, off) == [status |-> s, online |-> on, offline |-> off]

(* What each handler of the projection upserts; NoRow: nothing.            *)
projection(e) ==
    CASE e = "requested"         -> Partial("accepted", None, None)
      [] e = "offline_requested" -> Partial(None, None, "pending")
      [] e = "completed"         -> Partial("completed", "written", None)
      [] e = "expired"           -> Partial("completed", "deadline_expired", None)
      [] e = "dlq_online"        -> Partial("failed", None, None)
      [] e = "dlq_offline"       -> Partial(None, None, "failed_dlq")
      [] e = "dlq_metadata"      -> NoRow
=============================================================================
