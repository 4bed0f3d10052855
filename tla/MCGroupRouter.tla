--------------------------- MODULE MCGroupRouter ----------------------------
(* Small instances of GroupRouter for TLC. *)
EXTENDS GroupRouter, TLC

CONSTANTS u1, u2, i1, i2, p1

MCOwner == i1 :> u1 @@ i2 :> u1
MCSpace == i1 :> <<"a">> @@ i2 :> <<"a", "_">>
MCTool == {<<"b", "_", "_", "t">>}
MCHolder == p1 :> u1

Symmetry == Permutations(Gid) \cup Permutations(Sess) \cup Permutations(Task)
=============================================================================
