----------------------------- MODULE ComputeCore -----------------------------
(***************************************************************************)
(* ComputeCore: one request's features from a loaded view, the stamps of   *)
(* its sources, and what is already cached.  A value is what it was        *)
(* computed from: the set of reports below it.  That makes the fingerprint *)
(* and the hash of the code, which only tell values and inputs apart, the  *)
(* value itself.                                                           *)
(***************************************************************************)
EXTENDS Registry, WriteGuard

(* FeatureComputation, and the two ways not to get one: a SKIPPED feature  *)
(* (None in the code) and a raised ValueError.                             *)
NotComputed(status) ==
    [status |-> status, data_ts |-> NoTs, max_input_data_ts |-> NoTs,
     available_at |-> NoAv, availability_source |-> "none", value |-> {}]
SKIPPED == NotComputed("SKIPPED")
RAISED  == NotComputed("RAISED")
Computed(c) == c.status \in {"OK", "DEGRADED"}

(* _edge_is_stale.                                                         *)
edge_is_stale(dep, input_data_ts, calc_ts) ==
    /\ dep.max_input_age_seconds # NoBound
    /\ calc_ts - input_data_ts > dep.max_input_age_seconds

(* What a source contributes as an input.                                  *)
SourceInput(stamp) ==
    [data_ts |-> stamp.report_ts, available_at |-> stamp.available_at,
     availability_source |-> stamp.availability_source, value |-> {stamp}]

(* ... and what a dependency does: its own metadata, not its inputs'.      *)
DependencyInput(c) ==
    [data_ts |-> c.data_ts, available_at |-> c.available_at,
     availability_source |-> c.availability_source, value |-> c.value]

(* Wrong version: available as soon as the first input was.                *)
AvailableWithFirst(inputs) ==
    IF \E i \in inputs : i.available_at = NoAv THEN NoAv
    ELSE [at |-> Min({i.available_at.at : i \in inputs}), tz |-> 0]

(* Available only when the last input was; unknown if any input's is.      *)
AvailableAt(inputs) ==
    IF \E i \in inputs : i.available_at = NoAv THEN NoAv
    ELSE [at |-> Max({i.available_at.at : i \in inputs}), tz |-> 0]

(* The temporal metadata of a feature, from its own inputs.                *)
Computation(inputs, degraded) ==
    LET available == AvailableAt(inputs)
    IN  [status |-> IF degraded THEN "DEGRADED" ELSE "OK",
         data_ts |-> Min({i.data_ts : i \in inputs}),
         max_input_data_ts |-> Max({i.data_ts : i \in inputs}),
         available_at |-> available,
         availability_source |->
            IF available = NoAv THEN "none"
            ELSE IF \A i \in inputs : i.availability_source = "source_provided"
                 THEN "source_provided" ELSE "ingestion_time",
         value |-> UNION {i.value : i \in inputs}]

(* The first edge with a required input missing or stale stops a feature.  *)
Stops(dep, c, calc_ts) ==
    \/ c = RAISED
    \/ dep.required /\ (c = SKIPPED \/ edge_is_stale(dep, c.data_ts, calc_ts))

(* _resolve: sources first, then the edges in order.  A missing optional   *)
(* input is left out, a stale one is kept, either degrades the feature.    *)
(* Without a single input left the minimum of nothing raises; so does the  *)
(* lookup of a udf a model score does not have.                            *)
resolve(v, stamps, calc_ts, cached) ==
    LET r[f \in Names(v)] ==
        LET def == v.features[f]
            deps == def.deps
            comp(i) == r[deps[i].feature]
            stop == {i \in DOMAIN deps : Stops(deps[i], comp(i), calc_ts)}
            kept == {i \in DOMAIN deps : Computed(comp(i))}
            inputs == {SourceInput(stamps[s]) : s \in def.inputs}
                          \cup {DependencyInput(comp(i)) : i \in kept}
            degraded == \E i \in DOMAIN deps :
                            \/ ~Computed(comp(i)) \/ comp(i).status = "DEGRADED"
                            \/ edge_is_stale(deps[i], comp(i).data_ts, calc_ts)
        IN  IF f \in DOMAIN cached THEN cached[f]
            ELSE IF ~(def.inputs \subseteq DOMAIN stamps) THEN RAISED
            ELSE IF stop # {} THEN IF comp(Min(stop)) = RAISED THEN RAISED ELSE SKIPPED
            ELSE IF def.kind # "udf" \/ inputs = {} THEN RAISED
            ELSE Computation(inputs, degraded)
    IN  r

(* FeatureResult, one row of a write set.                                  *)
FeatureResult(f, c, calc_ts) ==
    [feature |-> f, data_ts |-> c.data_ts, calc_ts |-> calc_ts,
     max_input_data_ts |-> c.max_input_data_ts, input_fingerprint |-> c.value,
     available_at |-> c.available_at, availability_source |-> c.availability_source,
     value |-> c.value]

(* compute: if any requested feature raises, so does the request; a        *)
(* skipped one gives no result.                                            *)
Raises(v, plan, stamps, calc_ts, cached) ==
    \E i \in DOMAIN plan : resolve(v, stamps, calc_ts, cached)[plan[i]] = RAISED

compute(v, plan, stamps, calc_ts, cached) ==
    LET r == resolve(v, stamps, calc_ts, cached)
        done == SelectSeq(plan, LAMBDA f : Computed(r[f]))
    IN  [i \in DOMAIN done |-> FeatureResult(done[i], r[done[i]], calc_ts)]
=============================================================================
