---------------------------- MODULE MCPropagation ----------------------------
(* Base features a and z; c reacts to a; b reacts to a and to c (a         *)
(* diamond) and comes before c in a wave, which skips it at first, and     *)
(* does not take an old c; d reacts to c and reads z, which nothing reacts *)
(* to; e is a model feature that reacts to c.  The emitters write a late   *)
(* row, a correction of the same date that the source had made available   *)
(* before, the same when it is available only later, a row dated in the    *)
(* future, and a row of an older version.                                  *)
EXTENDS Propagation

Reacts(f) == [feature |-> f, version |-> NoPin, reactive |-> TRUE, max_age |-> NoLimit]
Pinned(f) == [Reacts(f) EXCEPT !.version = 2]
Lazy(f)   == [Reacts(f) EXCEPT !.reactive = FALSE]
Young(f)  == [Reacts(f) EXCEPT !.max_age = 2]

MCDerived == <<"b", "c", "d", "e">>
MCDeps ==
    [x \in Dependents |->
        CASE x = "b" -> <<Reacts("a"), Young("c")>>
          [] x = "c" -> <<Pinned("a")>>
          [] x = "d" -> <<Lazy("z"), Reacts("c")>>
          [] x = "e" -> <<Reacts("c")>>]
MCVersion == [f \in Features |-> IF f = "a" THEN 2 ELSE 1]

W(v, t, x) == [feature |-> "a", version |-> v, data_ts |-> t, value |-> x,
               available_at |-> Unknown, trusted |-> FALSE]
Trusted(w, t) == [w EXCEPT !.available_at = t, !.trusted = TRUE]
MCRows ==
    {W(2, 1, "x"), W(2, 2, "x"), Trusted(W(2, 2, "y"), 2), Trusted(W(2, 2, "y"), 5), W(2, 6, "x"),
     W(1, 1, "x"), [W(1, 2, "x") EXCEPT !.feature = "z"]}
=============================================================================
