----------------------------- MODULE PointInTime -----------------------------
(***************************************************************************)
(* Reading history: the rule that keeps training sets free of lookahead,   *)
(* in its two versions (select_pit over the rows in append order, and the  *)
(* query of the PostgreSQL store), the training set built on it, and the   *)
(* comparison of history with what is served online.                       *)
(***************************************************************************)
EXTENDS WriteGuard, Sequences, SequencesExt, FiniteSetsExt

(* OfflineStore.get: the rows of one feature, in append order.             *)
get(rows, f) == SelectSeq(rows, LAMBDA r : r.feature = f)

effective_available(r) == IF r.available_at # NoAv THEN r.available_at.at ELSE r.calc_ts

effective_data_cutoff(observation_ts, safety_gap) == observation_ts - safety_gap

(* Wrong version: the data clock alone.                                    *)
DataClockOnly(r, observation_ts, safety_gap) ==
    r.data_ts <= effective_data_cutoff(observation_ts, safety_gap)

is_pit_eligible(r, observation_ts, safety_gap) ==
    /\ r.data_ts <= effective_data_cutoff(observation_ts, safety_gap)
    /\ effective_available(r) <= observation_ts

NotAfter(r, s) == r.data_ts < s.data_ts \/ (r.data_ts = s.data_ts /\ r.calc_ts <= s.calc_ts)

(* Wrong version: an exact tie keeps the first row.                        *)
FirstOfTies(rows, observation_ts, safety_gap) ==
    FoldLeft(LAMBDA selected, r :
                 IF /\ is_pit_eligible(r, observation_ts, safety_gap)
                    /\ selected = Absent \/ ~NotAfter(r, selected)
                 THEN r ELSE selected, Absent, rows)

(* select_pit: latest by (data_ts, calc_ts), the last of exact ties.       *)
select_pit(rows, observation_ts, safety_gap) ==
    FoldLeft(LAMBDA selected, r :
                 IF /\ is_pit_eligible(r, observation_ts, safety_gap)
                    /\ selected = Absent \/ NotAfter(selected, r)
                 THEN r ELSE selected, Absent, rows)

(* PostgresOfflineStore.get_pit: WHERE ..., ORDER BY data_ts DESC, calc_ts *)
(* DESC, row_id DESC LIMIT 1.                                              *)
get_pit(rows, f, observation_ts, safety_gap) ==
    LET where == {i \in DOMAIN rows :
                     /\ rows[i].feature = f
                     /\ rows[i].data_ts <= observation_ts - safety_gap
                     /\ effective_available(rows[i]) <= observation_ts}
        before(i, j) == \/ rows[i].data_ts > rows[j].data_ts
                        \/ /\ rows[i].data_ts = rows[j].data_ts
                           /\ \/ rows[i].calc_ts > rows[j].calc_ts
                              \/ rows[i].calc_ts = rows[j].calc_ts /\ i > j
    IN  IF where = {} THEN Absent
        ELSE rows[CHOOSE i \in where : \A j \in where \ {i} : before(i, j)]

(* build_training_dataset: one cell per observation and feature, and       *)
(* ValueError if a cell is missing under missing_policy "error".           *)
TrainingFeatureCell(rows, f, observation_ts, safety_gap) ==
    LET selected == select_pit(get(rows, f), observation_ts, safety_gap)
    IN  [status |-> IF selected = Absent THEN "missing" ELSE "ok", row |-> selected]

build_training_dataset(rows, features, observations, missing_policy, safety_gap) ==
    LET cells == [o \in observations, f \in features |->
                     TrainingFeatureCell(rows, f, o, safety_gap)]
    IN  IF /\ missing_policy = "error"
           /\ \E c \in DOMAIN cells : cells[c].status = "missing"
        THEN <<>> ELSE cells

-----------------------------------------------------------------------------
(* check_online_offline_consistency.                                       *)
latest_offline(rows) ==
    FoldLeft(LAMBDA latest, r :
                 IF latest = Absent \/ r.data_ts >= latest.data_ts THEN r ELSE latest,
             Absent, rows)

classify(offline, online) ==
    IF offline = Absent /\ online = Absent THEN "missing_both"
    ELSE IF online = Absent THEN "missing_online"
    ELSE IF offline = Absent THEN "missing_offline"
    ELSE IF online.data_ts < offline.data_ts THEN "stale_online"
    ELSE IF online.data_ts > offline.data_ts THEN "online_newer_than_offline"
    ELSE IF offline.value # online.value THEN "value_mismatch"
    ELSE "ok"
=============================================================================
