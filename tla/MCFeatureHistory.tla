-------------------------- MODULE MCFeatureHistory --------------------------
(* Candidate views: every dependency graph over three live features, and   *)
(* one chain under all lifecycles and kinds, with bad pins, unknown names, *)
(* unknown sources and depth caps, and a feature whose two inputs stop it  *)
(* differently.  Some of those that load are also run.                     *)
EXTENDS FeatureHistory

Dep(f) == FeatureDependency(f, NoPin, TRUE, NoBound)
Def(inputs, deps, kind, lifecycle) ==
    [inputs |-> inputs, deps |-> deps, kind |-> kind, lifecycle |-> lifecycle,
     feature_version |-> 1]
View(features, groups, cap) ==
    [features |-> features, groups |-> groups, max_dependency_depth |-> cap]

N == {"f1", "f2", "f3"}
Udf(inputs, deps) == Def(inputs, deps, "udf", "live")

Graphs == [N -> SUBSET N]
GraphViews ==
    {View([f \in N |-> Udf({"s1"}, SetToSeq({Dep(d) : d \in g[f]}))],
          [all |-> <<"f1", "f3">>], cap) : g \in Graphs, cap \in {0, 1}}

Chain(kinds, lives, cap) ==
    [f \in N |-> Def(IF f = "f1" /\ kinds[f] = "udf" THEN {"s1"} ELSE {},
                     IF f = "f2" THEN <<Dep("f1")>>
                     ELSE IF f = "f3" THEN <<Dep("f2")>> ELSE <<>>, kinds[f], lives[f])]
ChainViews ==
    {View(Chain(k, l, 2), [g |-> <<"f3", "f1">>], 2) :
        k \in [N -> {"udf", "model"}], l \in [N -> FEATURE_LIFECYCLES]}

OneDep(dep, cap, group) ==
    View([f \in {"f1", "f2"} |-> IF f = "f1" THEN Udf({"s1"}, <<>>) ELSE Udf({}, <<dep>>)],
         [g |-> group], cap)
OddViews ==
    {OneDep(FeatureDependency(f, pin, req, age), cap, g) :
        f \in {"f1", "f2", "zz"}, pin \in {NoPin, 1, 2}, req \in BOOLEAN, age \in {NoBound, 0},
        cap \in {0, 6}, g \in {<<"f1">>, <<"zz">>, <<"f1", "f1">>}}
    \cup {View([f \in {"f1"} |-> Udf({"s1", "zz"}, <<>>)], <<>>, 0),
          View([f \in {"f1"} |-> Def({}, <<>>, "model_score", "live")], <<>>, 0)}

(* f3 reads f1, which may be too old, and f2, whose source may be missing; *)
(* f4 reads f3 and can do without.                                         *)
TwoStops(r1, r2, first) ==
    LET edges == <<FeatureDependency("f1", NoPin, r1, 0), FeatureDependency("f2", 1, r2, NoBound)>>
    IN  View([f \in N \cup {"f4"} |->
                CASE f = "f1" -> Udf({"s1"}, <<>>)
                  [] f = "f2" -> Udf({"s2"}, <<>>)
                  [] f = "f3" -> Udf({}, IF first = "f1" THEN edges ELSE Reverse(edges))
                  [] f = "f4" -> Udf({"s1"}, <<FeatureDependency("f3", NoPin, FALSE, NoBound)>>)],
             [g |-> <<"f4", "f1", "f3">>, h |-> <<"f2", "f1">>], 0)
StopViews == {TwoStops(r1, r2, first) : r1, r2 \in BOOLEAN, first \in {"f1", "f2"}}

(* Run: a feature of two sources; a dependency whose age is bounded; a     *)
(* model over a feature.                                                   *)
Flat == View([f \in {"f1"} |-> Udf({"s1", "s2"}, <<>>)], <<>>, 0)
Dependent ==
    View([f \in {"f1", "f2"} |->
            IF f = "f1" THEN Udf({"s1"}, <<>>)
            ELSE Udf({}, <<FeatureDependency("f1", 1, TRUE, 0)>>)], <<>>, 0)
Model ==
    View([f \in {"f1", "m"} |->
            IF f = "f1" THEN Udf({"s1"}, <<>>)
            ELSE Def({}, <<Dep("f1")>>, "model", "live")], <<>>, 0)

MCServing == {Flat, Dependent, Model}
MCViews == MCServing \cup GraphViews \cup ChainViews \cup OddViews \cup StopViews

(* Every worker is like the others.                                        *)
WorkerSymmetry == Permutations(Workers)

MCClaims == [s1 |-> {"source_provided", "none"}, s2 |-> {"ingestion_time"}]
=============================================================================
