------------------------------ MODULE MCRelease ------------------------------
(* One version, two codes and two registries; the second code does not     *)
(* pass its tests with the first registry.                                 *)
EXTENDS Release

MCFirst == [version |-> 1, code |-> "c1", defs |-> "d1"]
MCCores == {<<1, 9>>, <<1, 10, 0>>}
MCRequires == [c1 |-> <<<<">=", <<1, 2>>>>, <<"<", <<1, 10>>>>>>, c2 |-> <<<<"==", <<1, 10>>>>>>]
MCGolden == {<<"c1", "d1">>, <<"c2", "d2">>, <<"c1", "d2">>}
=============================================================================
