------------------------------ MODULE MCEntrances ------------------------------
(* Small inputs for each of the four parts; the releases are MCRelease's.  *)
EXTENDS Entrances, MCRelease, TLC

(* Which of the publishers is which does not matter.                       *)
PublisherSymmetry == Permutations(Publishers)

(* Landing: two files that overlap; the second knows more of availability, *)
(* and has a conflicting and a malformed row.  The third has another       *)
(* report of the first entity, future-dated.                               *)
R(ref, entity, content, event_ts, available_at) ==
    [ref |-> ref, entity |-> entity, content |-> content, event_ts |-> event_ts,
     available_at |-> available_at]
MCReports ==
    [l1 |-> <<R("r1", "e1", "x", 1, 0), R("r2", "e2", "y", 2, 3)>>,
     l2 |-> <<R("r1", "e1", "x", 1, 2), R("r2", "e2", "z", 2, 3), R("", "e1", "x", 1, 2),
              R("r2", "e2", "y", 2, 4)>>,
     l3 |-> <<R("r3", "e1", "y", 7, 0)>>]
MCCreated == [l \in Landings |-> 5]
MCSource == [l1 |-> "a", l2 |-> "b", l3 |-> "a"]

(* Import: the three kinds, over rows of which some are the same.          *)
MCKind == [d |-> "dwh", t |-> "table", b |-> "backfill"]
MCGroups ==
    [d |-> <<{"x1", "x2"}>>, t |-> <<{"x1"}, {}, {"x3", "x4"}>>, b |-> <<{"x3"}, {"x5"}>>]

(* Scores: older and newer ones, one for history only, one unusable.       *)
MCScores ==
    [s1 |-> [f |-> 1, g |-> 2], s2 |-> [f |-> 2], s3 |-> [g |-> 3], s4 |-> [g |-> 1],
     bad |-> [f |-> 3]]
=============================================================================
