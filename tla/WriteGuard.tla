----------------------------- MODULE WriteGuard -----------------------------
(***************************************************************************)
(* The D9 write guard: the pure rule that decides whether an incoming      *)
(* feature value may replace the one the online store holds.               *)
(*                                                                         *)
(* The rule exists twice in the code: decide_write is the Python function  *)
(* the in-memory store calls, D9_SCRIPT the script the Valkey store runs   *)
(* on the server.  A timestamp is a natural number, NoTs stands for None;  *)
(* a fingerprint is a string, NoFp for None and for "" alike (the code     *)
(* compares both through `or ""`).                                         *)
(***************************************************************************)
EXTENDS Integers, FiniteSets

CONSTANT Absent          \* "no record under this serving key"

NoTs == -1
NoFp == ""

(* An availability is an instant and the UTC offset it was given in: the   *)
(* platform keeps the offset, Python compares the instants, the script the *)
(* ISO texts.                                                              *)
NoAv == [at |-> NoTs, tz |-> 0]
Availability == [at : Nat, tz : Int] \cup {NoAv}

(* What the guard reads of a FeatureResult.  data_ts is the minimum and    *)
(* max_input_data_ts the maximum over the feature's inputs, so the second  *)
(* is never below the first when it is present.                            *)
ResultType ==
    {r \in [data_ts : Nat, max_input_data_ts : Nat \cup {NoTs},
            input_fingerprint : STRING, available_at : Availability,
            availability_source : {"source_provided", "ingestion_time", "none"}] :
        r.max_input_data_ts # NoTs => r.data_ts <= r.max_input_data_ts}

Outcomes == {"written", "written_recompute", "skipped_stale", "noop"}
WRITE_OUTCOMES == {"written", "written_recompute"}

-----------------------------------------------------------------------------
(* Plausible wrong versions, used only to show that the checks can fail.   *)
BareDataTs(r) == <<r.data_ts, r.data_ts>>
StaleIsRecompute(inc, cur) ==
    IF cur = Absent THEN "written"
    ELSE IF inc = cur THEN "noop" ELSE "written_recompute"
MixedIsPartial(outcomes) ==
    IF Cardinality(outcomes) > 1 THEN "partial" ELSE CHOOSE o \in outcomes : TRUE
StaleHidesWritten(outcomes) ==
    IF "skipped_stale" \in outcomes THEN "skipped_stale"
    ELSE IF outcomes \cap WRITE_OUTCOMES # {} THEN "written" ELSE "noop"
AlwaysRecompute(inc, cur) ==
    IF cur = Absent THEN "written"
    ELSE IF inc.data_ts < cur.data_ts THEN "skipped_stale" ELSE "written_recompute"

-----------------------------------------------------------------------------
(* Only a source-provided availability takes part in replay identity.      *)
trusted_available_at(r) ==
    IF r.availability_source = "source_provided" THEN r.available_at ELSE NoAv

(* The freshness tuple; a missing maximum degenerates to data_ts.          *)
guard_tuple(r) ==
    <<r.data_ts,
      IF r.max_input_data_ts # NoTs THEN r.max_input_data_ts ELSE r.data_ts>>

(* Python's lexicographic order on the two components.                     *)
TupleLess(s, t) == s[1] < t[1] \/ (s[1] = t[1] /\ s[2] < t[2])
TupleLeq(s, t)  == s = t \/ TupleLess(s, t)

(* Both sides claim a trusted availability and the claims differ.          *)
AvailabilityCorrected(inc, cur) ==
    /\ trusted_available_at(inc) # NoAv
    /\ trusted_available_at(cur) # NoAv
    /\ trusted_available_at(inc).at # trusted_available_at(cur).at

decide_write(inc, cur) ==
    IF cur = Absent THEN "written"
    ELSE IF TupleLess(guard_tuple(cur), guard_tuple(inc)) THEN "written"
    ELSE IF TupleLess(guard_tuple(inc), guard_tuple(cur)) THEN "skipped_stale"
    ELSE IF inc.input_fingerprint # cur.input_fingerprint THEN "written_recompute"
    ELSE IF AvailabilityCorrected(inc, cur) THEN "written_recompute"
    ELSE "noop"

(* The argument list ValkeyOnlineStore.write passes to the script, and the *)
(* record it stores: the degenerate maximum is resolved before the call,   *)
(* an untrusted availability is sent as the empty string, but the stored   *)
(* record keeps available_at beside its availability_source.               *)
LuaArgs(r) ==
    [dts |-> r.data_ts,
     max |-> IF r.max_input_data_ts # NoTs THEN r.max_input_data_ts ELSE r.data_ts,
     fp |-> r.input_fingerprint,
     av |-> trusted_available_at(r)]
LuaCurAv(c) ==
    IF c.availability_source = "source_provided" /\ c.available_at # NoAv
    THEN c.available_at ELSE NoAv

(* The server-side script, branch by branch.                               *)
D9_SCRIPT(inc, cur) ==
    LET a == LuaArgs(inc)
        c == LuaArgs(cur)
    IN  IF cur = Absent THEN "written"
        ELSE IF a.dts < c.dts \/ (a.dts = c.dts /\ a.max < c.max)
             THEN "skipped_stale"
        ELSE IF a.dts = c.dts /\ a.max = c.max
             THEN IF a.fp # c.fp THEN "written_recompute"
                  ELSE IF /\ a.av # NoAv /\ LuaCurAv(cur) # NoAv
                          /\ a.av # LuaCurAv(cur)
                       THEN "written_recompute" ELSE "noop"
        ELSE "written"

(* Equal instants are written in the same offset.                          *)
SpelledAlike(r, c) ==
    (c # Absent /\ r.available_at.at = c.available_at.at) => r.available_at = c.available_at

(* Request-level status from the per-feature outcomes.                     *)
aggregate_online_status(outcomes) ==
    IF outcomes \cap WRITE_OUTCOMES # {} THEN "written"
    ELSE IF "skipped_stale" \in outcomes THEN "skipped_stale"
    ELSE "noop"
=============================================================================
