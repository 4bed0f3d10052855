---------------------------- MODULE MCBackendPool ----------------------------
(* Small instances of BackendPool for TLC. *)
EXTENDS BackendPool, TLC

Symmetry == Permutations(Inst) \cup Permutations(Sess)
=============================================================================
