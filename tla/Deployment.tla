----------------------------- MODULE Deployment -----------------------------
(***************************************************************************)
(* What rebuilding a git-sourced server promises, with no handlers, no     *)
(* scratch directories and no tools: a site changes in its turn only, a    *)
(* build is put up only where nothing usable stands, and what is written   *)
(* down about a site is never a build other than the one that stands       *)
(* there.  Taking a site away for good needs no turn.                      *)
(***************************************************************************)
CONSTANTS Inst, Commit, None, Spoiled

VARIABLES
    turn,       \* the instance being rebuilt, or None
    site,       \* site[i]: the commit whose build stands, None, or Spoiled
    record      \* record[i]: the build the database vouches for, or None

Init ==
    /\ turn = None
    /\ site \in [Inst -> Commit \cup {None}]
    /\ record = site

Begin(i) == turn = None /\ turn' = i /\ UNCHANGED <<site, record>>

Abandon == turn' = None /\ UNCHANGED <<site, record>>

\* the old build goes, perhaps only in part
TakeDown(i) ==
    /\ turn = i
    /\ \E rest \in {None, Spoiled} : site' = [site EXCEPT ![i] = rest]
    /\ UNCHANGED <<turn, record>>

PutUp(i, what) ==
    /\ turn = i
    /\ site[i] \in {None, Spoiled}
    /\ site' = [site EXCEPT ![i] = what]
    /\ UNCHANGED <<turn, record>>

Finish(i, c) ==
    /\ turn = i
    /\ site[i] \in {c, None, Spoiled}
    /\ record' = [record EXCEPT ![i] = c]
    /\ turn' = None
    /\ UNCHANGED site

Fail(i) ==
    /\ turn = i
    /\ record' = [record EXCEPT ![i] = None]
    /\ turn' = None
    /\ UNCHANGED site

\* sites go for good, perhaps only in part
Dismantle(gone) ==
    /\ \E rest \in [Inst -> {None, Spoiled}] :
          site' = [i \in Inst |-> IF i \in gone THEN rest[i] ELSE site[i]]
    /\ UNCHANGED <<turn, record>>

Next ==
    \/ Abandon
    \/ \E i \in Inst :
          \/ Begin(i) \/ TakeDown(i) \/ Fail(i)
          \/ \E c \in Commit : Finish(i, c)
          \/ \E what \in Commit \cup {Spoiled} : PutUp(i, what)
    \/ \E gone \in SUBSET Inst : Dismantle(gone)

Spec == Init /\ [][Next]_<<turn, site, record>>
=============================================================================
