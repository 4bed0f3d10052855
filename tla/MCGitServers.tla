---------------------------- MODULE MCGitServers ----------------------------
(* The instance of GitServers for TLC; its run checks liveness, so commits and *)
(* handlers are not taken as symmetric.                                        *)
EXTENDS GitServers
=============================================================================
