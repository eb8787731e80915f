--------------------------- MODULE FeatureHistory ---------------------------
(***************************************************************************)
(* A registry is loaded; reports arrive; workers compute features from     *)
(* them, recompute dependents from history, and score models over it; the  *)
(* results go to history and, for requests, online.  One entity.  What a   *)
(* training set may read at any observation time is stated over every      *)
(* history this can produce.                                               *)
(***************************************************************************)
EXTENDS ComputeCore, PointInTime

CONSTANTS
    Views,           \* candidate views
    Serving,         \* those of them that are also run
    Claims,          \* source -> how it may vouch for availability
    Workers,
    Gaps,            \* safety gaps to read with
    MaxClock, MaxReports, MaxComputes, MaxDeaths

VARIABLES
    view,            \* the candidate, and whether it loaded
    loaded,
    clock,
    reports,         \* source -> its latest report, for the sources that have one
    history,         \* offline rows in append order
    online,          \* feature -> row or Absent
    job,             \* worker -> what it has in hand
    counts           \* [reports, computes, deaths] so far

vars == <<view, loaded, clock, reports, history, online, job, counts>>

Idle == [pc |-> "idle", rows |-> <<>>, write_online |-> FALSE]

Init ==
    /\ view \in Views /\ loaded = "no"
    /\ clock = 1 /\ reports = <<>> /\ history = <<>>
    /\ online = [f \in Names(view) |-> Absent]
    /\ job = [w \in Workers |-> Idle]
    /\ counts = [reports |-> 0, computes |-> 0, deaths |-> 0]

Count(what, bound) ==
    counts[what] < bound /\ counts' = [counts EXCEPT ![what] = @ + 1]

-----------------------------------------------------------------------------
LoadRegistry ==
    /\ loaded = "no"
    /\ loaded' = IF build_registry(view) THEN "accepted" ELSE "rejected"
    /\ UNCHANGED <<view, clock, reports, history, online, job, counts>>

(* The processes start with the registry that loaded.                      *)
Serve ==
    /\ loaded = "accepted" /\ view \in Serving
    /\ loaded' = "serving"
    /\ UNCHANGED <<view, clock, reports, history, online, job, counts>>

Up == loaded = "serving"

Tick ==
    /\ Up /\ clock < MaxClock
    /\ clock' = clock + 1
    /\ UNCHANGED <<view, loaded, reports, history, online, job, counts>>

(* A SourceStamp: the report's own time, which may lie in the future, and  *)
(* its availability: unknown, the time of ingestion, or what the source    *)
(* says, which may be later than now but not before report_ts.             *)
Availabilities(s, report_ts) ==
    {a \in {[at |-> NoAv, by |-> "none"],
            [at |-> [at |-> clock, tz |-> 0], by |-> "ingestion_time"]}
           \cup {[at |-> [at |-> t, tz |-> 0], by |-> "source_provided"] : t \in report_ts..MaxClock} :
        a.by \in Claims[s]}

Arrive(s, report_ts, av) ==
    /\ Up /\ Count("reports", MaxReports)
    /\ reports' = [x \in DOMAIN reports \cup {s} |->
          IF x = s THEN [source |-> s, content |-> counts.reports, report_ts |-> report_ts,
                         available_at |-> av.at, availability_source |-> av.by,
                         arrived |-> clock]
          ELSE reports[x]]
    /\ UNCHANGED <<view, loaded, clock, history, online, job>>

Take(w, rows, write_online) ==
    /\ Up /\ job[w] = Idle /\ rows # <<>>
    /\ Count("computes", MaxComputes)
    /\ job' = [job EXCEPT ![w] = [pc |-> "check", rows |-> rows, write_online |-> write_online]]
    /\ UNCHANGED <<view, loaded, clock, reports, history, online>>

(* FeatureStore.compute of an inline batch item or a backfilled row: plan, *)
(* compute_write_set, and the rows in hand.                                *)
Compute(w, f) ==
    LET plan == plan_features(view, <<f>>, <<>>, FALSE)
    IN  /\ Up /\ plan # PlannerError
        /\ ~Raises(view, plan, reports, clock, <<>>)
        /\ Take(w, compute(view, plan, reports, clock, <<>>), TRUE)

(* compute_dependent_from_offline: the dependencies are read point in time *)
(* and cached; a missing one, required or not, skips the dependent.        *)
Recompute(w, f) ==
    LET read == [g \in DepNames(view, f) |-> get_pit(history, g, clock, 0)]
        cached == [g \in DepNames(view, f) |->
                      [status |-> "OK", data_ts |-> read[g].data_ts,
                       max_input_data_ts |-> read[g].max_input_data_ts,
                       available_at |-> read[g].available_at,
                       availability_source |-> read[g].availability_source,
                       value |-> read[g].value]]
    IN  /\ Up /\ Deps(view, f) # {} /\ view.features[f].inputs = {}
        /\ view.features[f].kind = "udf"
        /\ \A g \in DOMAIN read : read[g] # Absent
        /\ Take(w, compute(view, <<f>>, <<>>, clock, cached), FALSE)

(* compute_model_feature_batch: inputs eligible at observation_ts, which   *)
(* becomes the calc_ts of the score; an optional one may be missing.       *)
ScoreModel(w, f, observation_ts, safety_gap) ==
    LET read(g) == get_pit(history, g, observation_ts, safety_gap)
        found == {g \in DepNames(view, f) : read(g) # Absent}
        ts == {read(g).data_ts : g \in found}
    IN  /\ Up /\ view.features[f].kind = "model" /\ observation_ts <= clock
        /\ found # {} /\ \A d \in Deps(view, f) : d.required => d.feature \in found
        /\ Take(w, <<[feature |-> f, data_ts |-> Min(ts), calc_ts |-> observation_ts,
                      max_input_data_ts |-> Max(ts), available_at |-> NoAv,
                      availability_source |-> "none",
                      input_fingerprint |-> UNION {read(g).value : g \in found},
                      value |-> UNION {read(g).value : g \in found}]>>, FALSE)

(* partition_new_results: an exact duplicate differs at most in calc_ts,   *)
(* or in an availability that one side does not vouch for.                 *)
Known(r) ==
    \E i \in DOMAIN history :
        LET h == history[i] IN
        /\ h.feature = r.feature /\ h.data_ts = r.data_ts /\ h.value = r.value
        /\ ~AvailabilityCorrected(r, h)

partition_new_results(w) ==
    /\ job[w].pc = "check"
    /\ job' = [job EXCEPT ![w].pc = "append",
                          ![w].rows = SelectSeq(@, LAMBDA r : ~Known(r))]
    /\ UNCHANGED <<view, loaded, clock, reports, history, online, counts>>

(* Wrong version: online before offline.                                   *)
OnlineFirst(w) ==
    LET served(f) == {i \in DOMAIN job[w].rows : job[w].rows[i].feature = f}
    IN  /\ job[w].pc = "append"
        /\ online' = [f \in DOMAIN online |->
              IF served(f) = {} \/ ~job[w].write_online THEN online[f]
              ELSE job[w].rows[Min(served(f))]]
        /\ history' = history \o SelectSeq(job[w].rows, LAMBDA r : ~job[w].write_online)
        /\ job' = [job EXCEPT ![w] = Idle]
        /\ UNCHANGED <<view, loaded, clock, reports, counts>>

(* append_many of the rows that were new when they were checked.           *)
AppendRows(w) ==
    /\ job[w].pc = "append"
    /\ history' = history \o job[w].rows
    /\ job' = [job EXCEPT ![w] = IF job[w].write_online THEN [@ EXCEPT !.pc = "online"] ELSE Idle]
    /\ UNCHANGED <<view, loaded, clock, reports, online, counts>>

(* write_many under the guard.                                             *)
WriteOnline(w) ==
    LET offered(f) == {i \in DOMAIN job[w].rows :
                           /\ job[w].rows[i].feature = f
                           /\ decide_write(job[w].rows[i], online[f]) \in WRITE_OUTCOMES}
    IN  /\ job[w].pc = "online"
        /\ online' = [f \in DOMAIN online |->
              IF offered(f) = {} THEN online[f] ELSE job[w].rows[Min(offered(f))]]
        /\ job' = [job EXCEPT ![w] = Idle]
        /\ UNCHANGED <<view, loaded, clock, reports, history, counts>>

Die(w) ==
    /\ job[w] # Idle /\ Count("deaths", MaxDeaths)
    /\ job' = [job EXCEPT ![w] = Idle]
    /\ UNCHANGED <<view, loaded, clock, reports, history, online>>

Next ==
    \/ LoadRegistry \/ Serve \/ Tick
    \/ \E s \in Sources, t \in 1..MaxClock : \E av \in Availabilities(s, t) : Arrive(s, t, av)
    \/ \E w \in Workers :
        \/ \E f \in Names(view) :
            \/ Compute(w, f) \/ Recompute(w, f)
            \/ \E o \in 1..clock, g \in Gaps : ScoreModel(w, f, o, g)
        \/ partition_new_results(w) \/ AppendRows(w) \/ WriteOnline(w) \/ Die(w)

Spec == Init /\ [][Next]_vars

-----------------------------------------------------------------------------
(* The dependency graph as a relation, for the reference definition.       *)
Chains(n) ==
    {c \in [1..n -> Names(view)] : \A i \in 1..(n - 1) : c[i + 1] \in DepNames(view, c[i])}

Below(f) == {g \in Names(view) : \E n \in 1..(Cap(view) + 1) :
                \E c \in Chains(n) : c[1] = f /\ c[n] = g}

(* A registry that loads is sound as a whole although its checks are one   *)
(* edge, or one walk, at a time: no chain of dependencies is longer than   *)
(* the cap (so none is a cycle), and nothing that a live feature rests on, *)
(* however deep, is not live itself.                                       *)
LoadedIsSound ==
    loaded = "accepted" =>
        /\ Chains(Cap(view) + 2) = {}
        /\ \A f \in Names(view) : view.features[f].lifecycle = "live" =>
               \A g \in Below(f) : view.features[g].lifecycle = "live"

(* A first report of each of these sources.                                *)
Stamped(sources) ==
    [s \in sources |-> [source |-> s, report_ts |-> 1, available_at |-> NoAv,
                        availability_source |-> "none"]]

(* A plan the planner accepts for online serving runs: only live udf       *)
(* features come out, and the engine does not raise when every source has  *)
(* a report, unless a model score or nothing but optional inputs is below. *)
PlansRun ==
    loaded = "accepted" =>
        \A S \in SUBSET Names(view), gs \in {<<>>} \cup {<<g>> : g \in DOMAIN view.groups} :
            LET plan == plan_features(view, SetToSeq(S), gs, FALSE)
                unsupported == {f \in Names(view) :
                    \/ view.features[f].kind = "model_score"
                    \/ view.features[f].inputs = {} /\ \A d \in Deps(view, f) : ~d.required}
            IN  \A i \in DOMAIN plan :
                    /\ view.features[plan[i]].lifecycle = "live"
                    /\ Below(plan[i]) \cap unsupported = {} =>
                           \A t \in 1..MaxClock :
                               resolve(view, Stamped(Sources), t, <<>>)[plan[i]] # RAISED

(* The registries one edit away from v.                                    *)
Edits(v) ==
    {[v EXCEPT !.groups[g] = Reverse(@)] : g \in DOMAIN v.groups} \cup
    UNION {{[v EXCEPT !.features[f].deps = Reverse(@)]} \cup
           {[v EXCEPT !.features[f].lifecycle = l] : l \in FEATURE_LIFECYCLES} \cup
           UNION {{[v EXCEPT !.features[f].deps[i].version = 1],
                   [v EXCEPT !.features[f].deps[i].required = ~@],
                   [v EXCEPT !.features[f].deps[i].max_input_age_seconds = 0]} :
                       i \in DOMAIN v.features[f].deps} : f \in Names(v)}

(* A digest stands for a meaning: a registry that loads with the digest of *)
(* this one plans the same features for every request, by name or group,   *)
(* and computes the same from the same sources, however its lists are      *)
(* ordered and its pins are written.  Where a feature below raises, for    *)
(* want of a source, the order of the edges decides whether one that stops *)
(* there is skipped or raises too, and with it whether what needs it only  *)
(* optionally is computed; two different values never come out.            *)
DigestIsMeaning ==
    loaded = "accepted" =>
        \A w \in Edits(view) :
            (build_registry(w) /\ canonical_registry_content(w) = canonical_registry_content(view)) =>
                /\ \A S \in SUBSET Names(view), G \in SUBSET DOMAIN view.groups, shadow \in BOOLEAN :
                       ToSet(plan_features(w, SetToSeq(S), SetToSeq(G), shadow))
                           = ToSet(plan_features(view, SetToSeq(S), SetToSeq(G), shadow))
                /\ \A given \in SUBSET Sources, t \in 1..MaxClock :
                       LET p == resolve(w, Stamped(given), t, <<>>)
                           q == resolve(view, Stamped(given), t, <<>>)
                       IN  \A f \in Names(view) :
                               \/ p[f] = q[f]
                               \/ ~(Computed(p[f]) /\ Computed(q[f]))
                                  /\ \E g \in Below(f) : q[g] = RAISED

Observations == 1..MaxClock

(* No training set sees the future: whatever history holds, from requests, *)
(* recomputations and scores in any order, the row selected for an         *)
(* observation rests only on reports that were by then declared available  *)
(* or in the platform's hands, and dated by then.  A report that was dated *)
(* in the future when it arrived escapes the last part if the row rests on *)
(* an older one too, whose date the row then bears.                        *)
NoLookahead ==
    \A o \in Observations, g \in Gaps :
        LET data == build_training_dataset(history, Names(view), {o}, "keep_null", g) IN
        \A f \in Names(view) : data[o, f].status = "ok" =>
            \A x \in data[o, f].row.value :
                /\ (x.available_at # NoAv /\ x.available_at.at <= o) \/ x.arrived <= o
                /\ \/ x.report_ts <= o
                   \/ /\ x.report_ts > x.arrived
                      /\ \E y \in data[o, f].row.value : y.report_ts <= o - g

(* The two versions of the point-in-time rule select the same row.         *)
PitTwinsAgree ==
    \A f \in Names(view), o \in Observations, g \in Gaps :
        get_pit(history, f, o, g) = select_pit(get(history, f), o, g)

Quiet == \A w \in Workers : job[w] = Idle
Report(f) == classify(latest_offline(get(history, f)), online[f])

(* FeatureStore.compute is offline first: online never holds what history  *)
(* has not, and once every worker is done, and none died, a feature that   *)
(* only it computes is neither missing nor stale online.                   *)
OnlineFollowsHistory ==
    \A f \in Names(view) :
        /\ Report(f) \notin {"missing_offline", "online_newer_than_offline"}
        /\ (Quiet /\ counts.deaths = 0 /\ view.features[f].inputs # {}) =>
               Report(f) \notin {"missing_online", "stale_online"}

(* a rests on older reports than b: of every source no newer one, of some  *)
(* an older one.                                                           *)
Staler(a, b) ==
    /\ a # Absent /\ b # Absent
    /\ \A x \in a.value : \E y \in b.value : x.source = y.source /\ x.report_ts <= y.report_ts
    /\ \E x \in a.value, y \in b.value : x.source = y.source /\ x.report_ts < y.report_ts

Overwritten(f) == online'[f] # online[f] /\ Staler(online'[f], online[f])

(* Late results do not set a served feature back: a feature that reads     *)
(* sources only, at most two, is never overwritten by one from older       *)
(* reports, in whatever order workers finish.                              *)
NoStaleOverwrite ==
    [][\A f \in Names(view) :
          (view.features[f].deps = <<>> /\ Cardinality(view.features[f].inputs) <= 2)
              => ~Overwritten(f)]_vars
=============================================================================
