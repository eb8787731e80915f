------------------------------ MODULE Registry ------------------------------
(***************************************************************************)
(* The registry contract and the planner: which feature views load, and    *)
(* what a request against a loaded view may compute.  Both walk the        *)
(* dependency graph depth first; here each walk is a recursive function of *)
(* the feature and of the set of features being visited.                   *)
(*                                                                         *)
(* A view is a record of its features (name -> definition), its groups     *)
(* (name -> list of features) and its max_dependency_depth (0: default).   *)
(* Names, owners and the like, whose checks are local, are left out.       *)
(***************************************************************************)
EXTENDS Integers, Sequences, FiniteSets, FiniteSetsExt, SequencesExt

CONSTANT Sources         \* the source names the registry declares

DEFAULT_DEPENDENCY_DEPTH_CAP == 3
MAX_DEPENDENCY_DEPTH_CAP == 5

FEATURE_LIFECYCLES == {"draft", "shadow", "live", "deprecated"}

(* Wrong version: a live feature may lean on a shadow one.                 *)
LiveOnShadow(lifecycle) ==
    CASE lifecycle \in {"live", "shadow"} -> {"live", "shadow"}
      [] lifecycle = "draft" -> {"live", "shadow", "draft"}
      [] OTHER -> FEATURE_LIFECYCLES

ALLOWED_DEPENDENCY_LIFECYCLES(lifecycle) ==
    CASE lifecycle = "live" -> {"live"}
      [] lifecycle = "shadow" -> {"live", "shadow"}
      [] lifecycle = "draft" -> {"live", "shadow", "draft"}
      [] OTHER -> FEATURE_LIFECYCLES

(* FeatureDependency: no pin is 0, no bound on the age is NoBound.         *)
NoPin == 0
NoBound == -1
FeatureDependency(f, pin, required, max_age) ==
    [feature |-> f, version |-> pin, required |-> required,
     max_input_age_seconds |-> max_age]

Names(v) == DOMAIN v.features
Deps(v, f) == ToSet(v.features[f].deps)
DepNames(v, f) == {d.feature : d \in Deps(v, f)}

(* FeatureDef: what each kind of feature must and must not declare.        *)
FeatureDef(d) ==
    /\ d.lifecycle \in FEATURE_LIFECYCLES /\ d.feature_version >= 1
    /\ CASE d.kind = "udf" -> d.inputs # {} \/ d.deps # <<>>
         [] d.kind = "model" -> d.inputs = {} /\ d.deps # <<>>
         [] d.kind = "model_score" -> d.inputs = {} /\ d.deps = <<>>
         [] OTHER -> FALSE

FeatureViewDef(v) ==
    /\ v.features # <<>>
    /\ v.max_dependency_depth \in 0..MAX_DEPENDENCY_DEPTH_CAP
    /\ \A g \in DOMAIN v.groups : v.groups[g] # <<>> /\ IsInjective(v.groups[g])

Cap(v) ==
    IF v.max_dependency_depth = 0 THEN DEFAULT_DEPENDENCY_DEPTH_CAP
    ELSE v.max_dependency_depth

(* A cycle has no depth: a number above every cap stands for the error.    *)
Cyclic == 100

(* Wrong version: the chain is counted in edges below the first one.       *)
DepthOffByOne(v) ==
    LET d[f \in Names(v), visiting \in SUBSET Names(v)] ==
            IF f \in visiting THEN Cyclic
            ELSE Max({0} \cup {1 + d[g, visiting \cup {f}] : g \in DepNames(v, f)})
    IN  \A f \in Names(v) : d[f, {}] <= Cap(v) + 1

(* _validate_dependency_graph: depth 0 without dependencies, else one more *)
(* than the deepest; no cycle, and no chain longer than the cap.           *)
validate_dependency_graph(v) ==
    LET d[f \in Names(v), visiting \in SUBSET Names(v)] ==
            IF f \in visiting THEN Cyclic
            ELSE Max({0} \cup {1 + d[g, visiting \cup {f}] : g \in DepNames(v, f)})
    IN  \A f \in Names(v) : d[f, {}] <= Cap(v)

(* What one edge must satisfy: a known target, its exact version, and a    *)
(* lifecycle the feature may depend on.                                    *)
ValidDependency(v, f, dep) ==
    /\ dep.feature \in Names(v)
    /\ dep.version \in {NoPin, v.features[dep.feature].feature_version}
    /\ v.features[dep.feature].lifecycle
           \in ALLOWED_DEPENDENCY_LIFECYCLES(v.features[f].lifecycle)

validate_registry(v) ==
    /\ \A f \in Names(v) :
           v.features[f].inputs \subseteq Sources /\ \A d \in Deps(v, f) : ValidDependency(v, f, d)
    /\ validate_dependency_graph(v)
    /\ \A g \in DOMAIN v.groups : ToSet(v.groups[g]) \subseteq Names(v)

(* build_registry: every object is well formed, then the cross checks.     *)
build_registry(v) ==
    /\ FeatureViewDef(v) /\ \A f \in Names(v) : FeatureDef(v.features[f])
    /\ validate_registry(v)

-----------------------------------------------------------------------------
(* Wrong version: the digest leaves out whether an edge is required.       *)
DigestOmitsRequired(v, f) ==
    [v.features[f] EXCEPT !.deps =
        {[d EXCEPT !.version = v.features[d.feature].feature_version, !.required = TRUE] :
            d \in Deps(v, f)}]

(* _canonical_feature: dependencies in any order, their pins resolved.     *)
canonical_feature(v, f) ==
    [v.features[f] EXCEPT !.deps =
        {[d EXCEPT !.version = IF @ = NoPin THEN v.features[d.feature].feature_version ELSE @] :
            d \in Deps(v, f)}]

(* canonical_registry_content: what the bundle digest is taken of.         *)
canonical_registry_content(v) ==
    [max_dependency_depth |-> v.max_dependency_depth,
     groups |-> [g \in DOMAIN v.groups |-> ToSet(v.groups[g])],
     features |-> [f \in Names(v) |-> canonical_feature(v, f)]]

-----------------------------------------------------------------------------
(* plan_features.  A plan is the list of features to compute; <<>> stands  *)
(* for PlannerError, which also covers a request that expands to nothing.  *)
PlannerError == <<>>

(* _check_computable.                                                      *)
Computable(v, f, allow_shadow) ==
    /\ v.features[f].kind = "udf"
    /\ v.features[f].lifecycle \in IF allow_shadow THEN {"live", "shadow"} ELSE {"live"}

(* _validate_deps: no unknown feature, no cycle, and no batch-only model   *)
(* feature below the requested ones.                                       *)
validate_deps(v, names) ==
    LET ok[f \in Names(v), visiting \in SUBSET Names(v)] ==
            /\ f \notin visiting
            /\ \A g \in DepNames(v, f) :
                   /\ g \in Names(v)
                   /\ v.features[g].kind # "model"
                   /\ ok[g, visiting \cup {f}]
    IN  \A f \in names : ok[f, {}]

(* Wrong version: a requested group is not gated, only named features are. *)
GroupsUngated(v, requested_features, requested_feature_groups, allow_shadow) ==
    LET ordered == FoldLeft(LAMBDA acc, f : IF f \in ToSet(acc) THEN acc ELSE Append(acc, f),
                            <<>>, requested_features \o
                                  FlattenSeq([i \in DOMAIN requested_feature_groups |->
                                                 v.groups[requested_feature_groups[i]]]))
    IN  IF /\ \A f \in ToSet(requested_features) : Computable(v, f, allow_shadow)
           /\ validate_deps(v, ToSet(ordered))
        THEN ordered ELSE PlannerError

(* Named features in request order, then the members of the groups, each   *)
(* once.                                                                   *)
plan_features(v, requested_features, requested_feature_groups, allow_shadow) ==
    LET known == ToSet(requested_feature_groups) \subseteq DOMAIN v.groups
        names == requested_features \o
                 FlattenSeq([i \in DOMAIN requested_feature_groups |->
                                v.groups[requested_feature_groups[i]]])
        ordered == FoldLeft(LAMBDA acc, f : IF f \in ToSet(acc) THEN acc ELSE Append(acc, f),
                            <<>>, names)
    IN  IF /\ known /\ ToSet(names) \subseteq Names(v)
           /\ \A f \in ToSet(ordered) : Computable(v, f, allow_shadow)
           /\ validate_deps(v, ToSet(ordered))
        THEN ordered ELSE PlannerError
=============================================================================
