-------------------------- MODULE MCOfflineWriter --------------------------
(* Event e1 carries rows of f and g; e2 does not parse; the handler raises *)
(* on e3.  A direct compute gives the rows of e1 again, or a row of f      *)
(* without a fingerprint, an exact duplicate of the one in e1.             *)
EXTENDS OfflineWriter

R(f, v, fp) == [feature |-> f, data_ts |-> 1, value |-> v, fp |-> fp, av |-> NoAv]

MCRowsOf ==
    [e \in Events |->
        CASE e = "e1" -> {R("f", "x", "a"), R("g", "y", "a")}
          [] e = "e2" -> {R("g", "z", "b")}
          [] OTHER    -> {R("f", "x", NoFp)}]
=============================================================================
