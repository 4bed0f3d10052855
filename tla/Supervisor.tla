----------------------------- MODULE Supervisor -----------------------------
(***************************************************************************)
(* What the backend pool promises of the children it supervises, with no   *)
(* sessions, locks, spawn tasks, permits or backoffs: each entry has at    *)
(* most one child per server, a child is launched only while there is room *)
(* under the user's cap and always at the server's current version, and it *)
(* then arrives or is given up.  A launch replaces the child that ran.     *)
(***************************************************************************)
EXTENDS Naturals, FiniteSets

CONSTANTS Inst, Entries, Cap

VARIABLES
    version,    \* version[i]: how often server i was asked to reload
    stage,      \* stage[e][i]: i's child in entry e is down, starting or up
    runs        \* runs[e][i]: the version that child was launched at, if any

Occupied(e) == {i \in Inst : stage[e][i] # "down"}

Init ==
    /\ version = [i \in Inst |-> 0]
    /\ stage = [e \in Entries |-> [i \in Inst |-> "down"]]
    /\ runs = [e \in Entries |-> [i \in Inst |-> {}]]

Reload(i) ==
    /\ version' = [version EXCEPT ![i] = @ + 1]
    /\ UNCHANGED <<stage, runs>>

Launch(e, i) ==
    /\ stage[e][i] # "starting"
    /\ Cardinality(Occupied(e)) < Cap
    /\ stage' = [stage EXCEPT ![e][i] = "starting"]
    /\ runs' = [runs EXCEPT ![e][i] = {version[i]}]
    /\ UNCHANGED version

Arrive(e, i) ==
    /\ stage[e][i] = "starting"
    /\ stage' = [stage EXCEPT ![e][i] = "up"]
    /\ UNCHANGED <<version, runs>>

GiveUp(e, i) ==
    /\ stage[e][i] = "starting"
    /\ stage' = [stage EXCEPT ![e][i] = "down"]
    /\ runs' = [runs EXCEPT ![e][i] = {}]
    /\ UNCHANGED version

\* children that are up are stopped, several at once; a starting one is not
Stop(e, gone) ==
    /\ \A i \in gone : stage[e][i] = "up"
    /\ stage' = [stage EXCEPT ![e] = [i \in Inst |->
                   IF i \in gone THEN "down" ELSE stage[e][i]]]
    /\ runs' = [runs EXCEPT ![e] = [i \in Inst |->
                  IF i \in gone THEN {} ELSE runs[e][i]]]
    /\ UNCHANGED version

Next ==
    \/ \E i \in Inst : Reload(i)
    \/ \E e \in Entries, i \in Inst :
          Launch(e, i) \/ Arrive(e, i) \/ GiveUp(e, i)
    \/ \E e \in Entries, gone \in SUBSET Inst : Stop(e, gone)

Spec == Init /\ [][Next]_<<version, stage, runs>>
=============================================================================
