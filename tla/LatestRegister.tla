--------------------------- MODULE LatestRegister ---------------------------
(***************************************************************************)
(* What the online store promises its readers, and nothing about how: per  *)
(* serving key a register that, once it holds a value, always holds one,   *)
(* and whose freshness never goes back.  An equally fresh value may        *)
(* replace the one held (a same-freshness recompute).                      *)
(***************************************************************************)
EXTENDS WriteGuard

CONSTANTS Keys, Results

VARIABLE reg

RegInit == reg = [k \in Keys |-> Absent]

Accept(k, r) ==
    /\ \/ reg[k] = Absent
       \/ TupleLeq(guard_tuple(reg[k]), guard_tuple(r))
    /\ reg' = [reg EXCEPT ![k] = r]

RegNext == \E k \in Keys, r \in Results : Accept(k, r)

RegSpec == RegInit /\ [][RegNext]_reg
=============================================================================
