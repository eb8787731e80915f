---------------------------- MODULE MCOnlineStore ----------------------------
(* Two serving keys, two writers and results chosen so that every branch   *)
(* of the guard is taken: staler, fresher in the first or only in the      *)
(* second component, equal with another fingerprint, equal with another    *)
(* trusted availability, the same instant in another offset, equal with an *)
(* untrusted availability, legacy.                                         *)
EXTENDS OnlineStore, TLC

At(t, tz) == [at |-> t, tz |-> tz]
Res(d, m, fp, av, src) ==
    [data_ts |-> d, max_input_data_ts |-> m, input_fingerprint |-> fp,
     available_at |-> av, availability_source |-> src]

MCResults ==
    {Res(1, 2, "a", At(2, 0), "source_provided"),
     Res(1, 2, "a", At(3, 0), "source_provided"),
     Res(1, 2, "a", At(3, 1), "source_provided"),
     Res(1, 2, "a", At(3, 0), "ingestion_time"),
     Res(1, 3, "a", NoAv, "none"),
     Res(2, NoTs, "b", NoAv, "none"),
     Res(2, 2, NoFp, NoAv, "none")}

MCSymmetry == Permutations(Keys) \cup Permutations(Writers)
=============================================================================
