-------------------------- MODULE SupervisorProofs ---------------------------
(***************************************************************************)
(* BackendPool implements Supervisor.  The mapping reads only the pooled   *)
(* backends, the connecting markers and the fleet, so most steps are seen  *)
(* as stutters; a claim is a launch, a settled spawn an arrival or a child *)
(* given up, and everything that drops pooled backends is a stop.          *)
(***************************************************************************)
EXTENDS PoolServingProofs

USE DEF dbVars, innerVars, lockVars, sessVars, envVars, lapses

-----------------------------------------------------------------------------
(* The mapping, point by point. *)

\* the stage and the runs of every child but those of `but` are what they were
SameBut(but) ==
    \A e \in Entries, i \in Inst :
        <<e, i>> \notin but =>
            StageOf(e, i)' = StageOf(e, i) /\ RunsOf(e, i)' = RunsOf(e, i)

\* Nothing seen of any child: a stutter.
LEMMA MapsStutter ==
    ASSUME epoch' = epoch, SameBut({})
    PROVE  UNCHANGED <<epoch, Stage, Runs>>
BY DEF SameBut, Stage, Runs

\* Supervisor counts as the pool does.
LEMMA SameCount ==
    ASSUME NEW S
    PROVE  Promise!Cardinality(S) = Cardinality(S)
BY DEF Promise!Cardinality, Cardinality

\* One child started where there was room: a launch.
LEMMA MapsLaunch ==
    ASSUME NEW e \in Entries, NEW i \in Inst, epoch' = epoch,
           SameBut({<<e, i>>}),
           StageOf(e, i) # "starting",
           Cardinality({j \in Inst : StageOf(e, j) # "down"}) < PerUserCap,
           StageOf(e, i)' = "starting", RunsOf(e, i)' = {epoch[i]}
    PROVE  Promise!Launch(e, i)
<1>1. {j \in Inst : StageOf(e, j) # "down"} = Promise!Occupied(e)
  BY DEF Promise!Occupied, Stage
<1>2. Stage' = [Stage EXCEPT ![e][i] = "starting"] BY DEF SameBut, Stage
<1>3. Runs' = [Runs EXCEPT ![e][i] = {epoch[i]}] BY DEF SameBut, Runs
<1>4. Stage[e][i] # "starting" BY DEF Stage
<1>5. Promise!Cardinality(Promise!Occupied(e)) < PerUserCap BY <1>1, SameCount
<1> QED BY <1>2, <1>3, <1>4, <1>5 DEF Promise!Launch

\* One starting child up, launched as before: an arrival.
LEMMA MapsArrive ==
    ASSUME NEW e \in Entries, NEW i \in Inst, epoch' = epoch,
           SameBut({<<e, i>>}), StageOf(e, i) = "starting",
           StageOf(e, i)' = "up", RunsOf(e, i)' = RunsOf(e, i)
    PROVE  Promise!Arrive(e, i)
<1>1. Stage' = [Stage EXCEPT ![e][i] = "up"] BY DEF SameBut, Stage
<1>2. Runs' = Runs BY DEF SameBut, Runs
<1>3. Stage[e][i] = "starting" BY DEF Stage
<1> QED BY <1>1, <1>2, <1>3 DEF Promise!Arrive

\* One starting child gone: given up.
LEMMA MapsGiveUp ==
    ASSUME NEW e \in Entries, NEW i \in Inst, epoch' = epoch,
           SameBut({<<e, i>>}), StageOf(e, i) = "starting",
           StageOf(e, i)' = "down", RunsOf(e, i)' = {}
    PROVE  Promise!GiveUp(e, i)
<1>1. Stage' = [Stage EXCEPT ![e][i] = "down"] BY DEF SameBut, Stage
<1>2. Runs' = [Runs EXCEPT ![e][i] = {}] BY DEF SameBut, Runs
<1>3. Stage[e][i] = "starting" BY DEF Stage
<1> QED BY <1>1, <1>2, <1>3 DEF Promise!GiveUp

\* Children of one entry that were up are down: a stop.
LEMMA MapsStop ==
    ASSUME NEW e \in Entries, NEW gone \in SUBSET Inst, epoch' = epoch,
           SameBut({<<e, i>> : i \in gone}),
           \A i \in gone : /\ StageOf(e, i) = "up"
                           /\ StageOf(e, i)' = "down"
                           /\ RunsOf(e, i)' = {}
    PROVE  Promise!Stop(e, gone)
<1>1. ASSUME NEW f \in Entries, NEW i \in Inst
      PROVE  /\ StageOf(f, i)' = IF f = e /\ i \in gone THEN "down" ELSE StageOf(f, i)
             /\ RunsOf(f, i)' = IF f = e /\ i \in gone THEN {} ELSE RunsOf(f, i)
  BY DEF SameBut
<1>2. Stage' = [Stage EXCEPT ![e] = [i \in Inst |->
                  IF i \in gone THEN "down" ELSE Stage[e][i]]]
  BY <1>1 DEF Stage
<1>3. Runs' = [Runs EXCEPT ![e] = [i \in Inst |->
                 IF i \in gone THEN {} ELSE Runs[e][i]]]
  BY <1>1 DEF Runs
<1>4. \A i \in gone : Stage[e][i] = "up" BY DEF Stage
<1> QED BY <1>2, <1>3, <1>4 DEF Promise!Stop

-----------------------------------------------------------------------------
(* What a stage says of the fleet. *)

\* What an entry's fleet holds is pooled or marked connecting, never both.
LEMMA FleetStages ==
    ASSUME IInv, NEW e \in Entries, NEW b \in Fleet(e)
    PROVE  /\ b.inst \in Inst
           /\ \/ b \in backends[e] /\ StageOf(e, b.inst) = "up"
              \/ b \notin backends[e] /\ StageOf(e, b.inst) = "starting"
<1>1. b.inst \in Inst
  <2>1. TypeOK BY DEF IInv
  <2> QED BY <2>1, FleetType DEF Backend
<1>2. CASE b \in backends[e]
  <2>1. b.inst \notin connecting[e]
    BY <1>2 DEF IInv, SpawnInv, NoDuplicateBackends
  <2> QED BY <1>1, <1>2, <2>1 DEF StageOf
<1>3. CASE b \notin backends[e]
  <2>1. b.inst \in connecting[e]
    BY <1>3 DEF Fleet, IInv, SpawnInv, ClaimsMarked, TasksMarked
  <2> QED BY <1>1, <1>3, <2>1 DEF StageOf
<1> QED BY <1>2, <1>3

\* The same children in the fleet run the same versions.
LEMMA SameMates ==
    ASSUME NEW e \in Entries, NEW i \in Inst, Mates(e, i)' = Mates(e, i)
    PROVE  RunsOf(e, i)' = RunsOf(e, i)
BY DEF RunsOf

\* What keeps a fleet as it is: claims turned into spawns included.
LEMMA FleetKept ==
    ASSUME NEW e \in Entries, Fleet(e)' \subseteq Fleet(e),
           backends[e] \subseteq backends'[e],
           \A t \in tasks : \E u \in tasks' : u.entry = t.entry /\ u.be = t.be,
           \A q \in Sess : \A c \in claimed[q] :
               \/ at'[q] = at[q] /\ c \in claimed'[q]
               \/ \E u \in tasks' : u.entry = at[q] /\ u.be = c
    PROVE  Fleet(e)' = Fleet(e)
<1> SUFFICES ASSUME NEW b \in Fleet(e) PROVE b \in Fleet(e)'
    OBVIOUS
<1>1. Fleet(e)' = backends'[e] \cup {t.be : t \in {u \in tasks' : u.entry = e}}
                    \cup UNION {claimed'[r] : r \in {q \in Sess : at'[q] = e}}
  BY DEF Fleet
<1>2. CASE b \in backends[e] BY <1>1, <1>2
<1>3. CASE \E t \in tasks : t.entry = e /\ t.be = b BY <1>1, <1>3
<1>4. CASE \E q \in Sess : at[q] = e /\ b \in claimed[q] BY <1>1, <1>4
<1> QED BY <1>2, <1>3, <1>4 DEF Fleet

\* A step that moves no backend and no marker shows nothing.
LEMMA NothingSeen ==
    ASSUME UNCHANGED <<backends, connecting>>,
           \A e \in Entries : Fleet(e)' = Fleet(e)
    PROVE  SameBut({})
BY DEF SameBut, StageOf, RunsOf, Mates

\* Dropping pooled backends of one entry, and nothing else, is a stop.
LEMMA DropsStop ==
    ASSUME IInv, NEW e \in Entries, NEW S \in SUBSET backends[e],
           backends' = [backends EXCEPT ![e] = @ \ S],
           UNCHANGED <<epoch, connecting, claimed, tasks>>,
           \A q \in Sess : claimed[q] # {} => at'[q] = at[q]
    PROVE  Promise!Stop(e, {b.inst : b \in S})
<1> DEFINE gone == {b.inst : b \in S}
<1>1. /\ backends \in [Entries -> SUBSET Backend]
      /\ \A b \in backends[e] : b.inst \in Inst
  BY DEF IInv, TypeOK, Backend
<1>2. backends'[e] = backends[e] \ S
      /\ \A f \in Entries \ {e} : backends'[f] = backends[f]
  BY <1>1
<1>3. ASSUME NEW f \in Entries PROVE Fleet(f)' \subseteq Fleet(f)
  BY <1>2, FleetParts, FleetFrom
<1>4. ASSUME NEW f \in Entries \ {e} PROVE Fleet(f)' = Fleet(f)
  BY <1>2, <1>3, FleetKept
<1>5. \A b \in backends[e] : /\ b.inst \notin connecting[e]
                             /\ \A c \in backends[e] : b.inst = c.inst => b = c
  BY DEF IInv, SpawnInv, NoDuplicateBackends
<1>6. ASSUME NEW i \in gone
      PROVE  /\ i \in Inst
             /\ StageOf(e, i) = "up"
             /\ StageOf(e, i)' = "down"
             /\ RunsOf(e, i)' = {}
  <2>1. PICK b \in S : b.inst = i OBVIOUS
  <2>2. i \in Inst /\ i \notin connecting[e] /\ b \in backends[e]
    BY <1>1, <1>5, <2>1
  <2>3. \A c \in backends'[e] : c.inst # i BY <1>2, <1>5, <2>1
  <2>4. Mates(e, i)' = {}
    <3> SUFFICES ASSUME NEW c \in Fleet(e)', c.inst = i PROVE FALSE
      BY DEF Mates
    <3>1. c \in Fleet(e) BY <1>3
    <3>2. c \in backends[e] BY <2>2, <3>1, FleetStages DEF StageOf
    <3>3. c \notin backends'[e] BY <2>3
    <3>4. \/ \E t \in tasks : t.entry = e /\ t.be = c
          \/ \E q \in Sess : at'[q] = e /\ c \in claimed[q]
      BY <3>3 DEF Fleet
    <3>5. \/ \E t \in tasks : t.entry = e /\ t.be = c
          \/ \E q \in Sess : at[q] = e /\ c \in claimed[q]
      BY <3>4
    <3>6. c.inst \in connecting[e]
      BY <3>5 DEF IInv, SpawnInv, ClaimsMarked, TasksMarked
    <3> QED BY <2>2, <3>6
  <2>5. StageOf(e, i) = "up" BY <2>1, <2>2 DEF StageOf
  <2>6. StageOf(e, i)' = "down" BY <2>2, <2>3 DEF StageOf
  <2> QED BY <2>2, <2>4, <2>5, <2>6 DEF RunsOf
<1>7. SameBut({<<e, i>> : i \in gone})
  <2> SUFFICES ASSUME NEW f \in Entries, NEW i \in Inst,
                      ~(f = e /\ i \in gone)
               PROVE  StageOf(f, i)' = StageOf(f, i) /\ RunsOf(f, i)' = RunsOf(f, i)
    BY DEF SameBut
  <2>1. CASE f # e
    <3>1. Fleet(f)' = Fleet(f) /\ backends'[f] = backends[f] BY <1>2, <1>4, <2>1
    <3> QED BY <3>1 DEF StageOf, RunsOf, Mates
  <2>2. CASE f = e /\ i \notin gone
    <3>1. \A b \in backends[e] : b.inst = i => b \in backends'[e]
      BY <1>2, <2>2
    <3>2. StageOf(e, i)' = StageOf(e, i) BY <1>2, <3>1 DEF StageOf
    <3>3. Mates(e, i)' = Mates(e, i)
      <4>1. \A b \in Fleet(e) : b.inst = i => b \in Fleet(e)'
        <5> SUFFICES ASSUME NEW b \in Fleet(e), b.inst = i PROVE b \in Fleet(e)'
          OBVIOUS
        <5>1. CASE b \in backends[e] BY <3>1, <5>1 DEF Fleet
        <5>2. CASE \E t \in tasks : t.entry = e /\ t.be = b BY <5>2 DEF Fleet
        <5>3. CASE \E q \in Sess : at[q] = e /\ b \in claimed[q]
          <6>1. PICK q \in Sess : at[q] = e /\ b \in claimed[q] BY <5>3
          <6>2. at'[q] = e /\ b \in claimed'[q] BY <6>1
          <6> QED BY <6>2 DEF Fleet
        <5> QED BY <5>1, <5>2, <5>3 DEF Fleet
      <4> QED BY <1>3, <4>1 DEF Mates
    <3> QED BY <2>2, <3>2, <3>3, SameMates
  <2> QED BY <2>1, <2>2
<1>8. gone \in SUBSET Inst BY <1>6
<1> HIDE DEF gone
<1>9. Promise!Stop(e, gone) BY <1>6, <1>7, <1>8, MapsStop
<1> QED BY <1>9 DEF gone

-----------------------------------------------------------------------------
(* The steps. *)

\* The servers that are not down are no more than the backends and the markers,
\* which is what the cap test of reconcile counts.
LEMMA OccupiedCounted ==
    ASSUME IInv, NEW e \in Entries
    PROVE  /\ Cardinality(backends[e]) \in Nat
           /\ Cardinality(connecting[e]) \in Nat
           /\ Cardinality({j \in Inst : StageOf(e, j) # "down"}) \in Nat
           /\ Cardinality({j \in Inst : StageOf(e, j) # "down"})
                <= Cardinality(backends[e]) + Cardinality(connecting[e])
<1> DEFINE up == {b.inst : b \in backends[e]}
<1>1. IsFiniteSet(backends[e]) /\ IsFiniteSet(connecting[e])
  BY PoolAssumption, FS_Subset DEF IInv, FiniteBackends, TypeOK
<1>2. backends[e] \subseteq Backend /\ connecting[e] \subseteq Inst
  BY DEF IInv, TypeOK
<1>3. {j \in Inst : StageOf(e, j) # "down"} = up \cup connecting[e]
  BY <1>2 DEF StageOf, Backend
<1>4. IsFiniteSet(up) /\ Cardinality(up) <= Cardinality(backends[e])
  <2> DEFINE f == [b \in backends[e] |-> b.inst]
  <2>1. f \in Surjection(backends[e], up) BY DEF Surjection
  <2> HIDE DEF f, up
  <2> QED BY <1>1, <2>1, FS_Surjection
<1> HIDE DEF up
<1>5. /\ IsFiniteSet(up \cup connecting[e])
      /\ Cardinality(up \cup connecting[e]) =
           Cardinality(up) + Cardinality(connecting[e])
              - Cardinality(up \cap connecting[e])
  BY <1>1, <1>4, FS_Union
<1>6. IsFiniteSet(up \cap connecting[e])
  <2>1. up \cap connecting[e] \in SUBSET up OBVIOUS
  <2> QED BY <1>4, <2>1, FS_Subset
<1>7. /\ Cardinality(backends[e]) \in Nat /\ Cardinality(connecting[e]) \in Nat
      /\ Cardinality(up) \in Nat /\ Cardinality(up \cup connecting[e]) \in Nat
      /\ Cardinality(up \cap connecting[e]) \in Nat
  BY <1>1, <1>4, <1>5, <1>6, FS_CardinalityType
<1>8. Cardinality(up \cup connecting[e])
         <= Cardinality(backends[e]) + Cardinality(connecting[e])
  BY <1>4, <1>5, <1>7
<1> QED BY <1>3, <1>7, <1>8

\* The claims of a decide section are finitely many.
LEMMA ClaimsCounted ==
    ASSUME IInv, NEW r \in Sess
    PROVE  Cardinality(claimed[r]) \in Nat
<1> DEFINE f == [c \in claimed[r] |-> c.inst]
<1>1. f \in Injection(claimed[r], Inst)
  <2>1. f \in [claimed[r] -> Inst] BY DEF IInv, TypeOK, Backend
  <2>2. IsInjective(f) BY DEF IsInjective, IInv, SpawnInv, ClaimsMarked
  <2> QED BY <2>1, <2>2 DEF Injection
<1> HIDE DEF f
<1>2. IsFiniteSet(claimed[r]) BY <1>1, PoolAssumption, FS_Injection
<1> QED BY <1>2, FS_CardinalityType

\* A claim (permit taken, old backend dropped, marker set) is a launch at the
\* server's current epoch, under the cap.
LEMMA ClaimLaunches ==
    ASSUME IInv, NEW r \in Sess, NEW x \in todo[r], DecideClaim(r, x)
    PROVE  Promise!Launch(at[r], x.inst)
<1>1. at[r] \in Entries /\ x.inst \in Inst /\ x.inst \notin connecting[at[r]]
  BY ClaimTypes
<1>2. PICK e \in Entries, i \in Inst : e = at[r] /\ i = x.inst BY <1>1
<1> DEFINE n == [slot |-> TryAcquire, inst |-> i, def |-> x.def, epoch |-> epoch[i]]
<1>3. /\ UNCHANGED <<epoch, at, tasks>>
      /\ claimed' = [claimed EXCEPT ![r] = @ \cup {n}]
      /\ backends' = [backends EXCEPT ![e] = {b \in @ : b.inst # i}]
      /\ connecting' = [connecting EXCEPT ![e] = @ \cup {i}]
      /\ ~AtUserCap(r, e)
  BY <1>2 DEF DecideClaim
<1>4. n.inst = i /\ n.epoch = epoch[i] OBVIOUS
<1> HIDE DEF n
<1>5. /\ claimed \in [Sess -> SUBSET Backend]
      /\ backends \in [Entries -> SUBSET Backend]
      /\ connecting \in [Entries -> SUBSET Inst]
  BY DEF IInv, TypeOK
<1>6. StageOf(e, i) # "starting" /\ StageOf(e, i)' = "starting"
  BY <1>1, <1>2, <1>3, <1>5 DEF StageOf
<1>7. Cardinality({j \in Inst : StageOf(e, j) # "down"}) < PerUserCap
  BY <1>3, OccupiedCounted, ClaimsCounted, PoolAssumption DEF AtUserCap
<1>8. \A f \in Entries : \A b \in Fleet(f)' :
         \/ b \in Fleet(f) /\ ~(f = e /\ b.inst = i)
         \/ f = e /\ b.inst = i /\ b.epoch = epoch[i]
  BY <1>2, FleetClaim
<1>9. RunsOf(e, i)' = {epoch[i]}
  <2>1. n \in claimed'[r] /\ at'[r] = e BY <1>2, <1>3, <1>5
  <2>2. n \in Mates(e, i)' BY <1>4, <2>1 DEF Mates, Fleet
  <2>3. \A b \in Mates(e, i)' : b.epoch = epoch[i] BY <1>8 DEF Mates
  <2> QED BY <1>4, <2>2, <2>3 DEF RunsOf
<1>10. SameBut({<<e, i>>})
  <2> SUFFICES ASSUME NEW f \in Entries, NEW j \in Inst, ~(f = e /\ j = i)
               PROVE  StageOf(f, j)' = StageOf(f, j) /\ RunsOf(f, j)' = RunsOf(f, j)
    BY DEF SameBut
  <2>1. j \in connecting'[f] <=> j \in connecting[f] BY <1>3, <1>5
  <2>2. \A b \in backends[f] : b.inst = j => b \in backends'[f] BY <1>3, <1>5
  <2>3. backends'[f] \subseteq backends[f] BY <1>3, <1>5
  <2>4. \A b \in Fleet(f) : b.inst = j => b \in Fleet(f)'
    <3> SUFFICES ASSUME NEW b \in Fleet(f), b.inst = j PROVE b \in Fleet(f)'
      OBVIOUS
    <3>1. CASE b \in backends[f] BY <2>2, <3>1 DEF Fleet
    <3>2. CASE \E t \in tasks : t.entry = f /\ t.be = b BY <1>3, <3>2 DEF Fleet
    <3>3. CASE \E q \in Sess : at[q] = f /\ b \in claimed[q]
      <4>1. PICK q \in Sess : at[q] = f /\ b \in claimed[q] BY <3>3
      <4>2. at'[q] = f /\ b \in claimed'[q] BY <1>3, <1>5, <4>1
      <4> QED BY <4>2 DEF Fleet
    <3> QED BY <3>1, <3>2, <3>3 DEF Fleet
  <2>5. \A b \in Fleet(f)' : b.inst = j => b \in Fleet(f) BY <1>8
  <2>6. Mates(f, j)' = Mates(f, j) BY <2>4, <2>5 DEF Mates
  <2>7. StageOf(f, j)' = StageOf(f, j) BY <2>1, <2>2, <2>3 DEF StageOf
  <2> QED BY <2>6, <2>7, SameMates
<1>11. Promise!Launch(e, i) BY <1>3, <1>6, <1>7, <1>9, <1>10, MapsLaunch
<1> QED BY <1>2, <1>11

\* A spawn task that settles is an arrival if it joins the pool, and otherwise a
\* child given up.
LEMMA SettleSeen ==
    ASSUME IInv, NEW t \in tasks, Settle(t)
    PROVE  \E e \in Entries, i \in Inst : Promise!Arrive(e, i) \/ Promise!GiveUp(e, i)
<1>1. PICK e \in Entries, i \in Inst : e = t.entry /\ i = t.be.inst
  BY DEF IInv, TypeOK, Task, Backend
<1>2. /\ UNCHANGED <<epoch, at, claimed>>
      /\ tasks' = tasks \ {t}
      /\ connecting' = [connecting EXCEPT ![e] = @ \ {i}]
      /\ \/ backends' = [backends EXCEPT ![e] = @ \cup {t.be}]
         \/ backends' = backends
  BY <1>1 DEF Settle, Arrived
<1>3. /\ backends \in [Entries -> SUBSET Backend]
      /\ connecting \in [Entries -> SUBSET Inst]
  BY DEF IInv, TypeOK
<1>4. i \in connecting[e] BY <1>1 DEF IInv, SpawnInv, TasksMarked
<1>5. StageOf(e, i) = "starting" BY <1>4 DEF StageOf
\* t is the whole of i's fleet in e
<1>6. Mates(e, i) = {t.be}
  <2>1. t.be \in Mates(e, i) BY <1>1, FleetParts DEF Mates
  <2>2. ASSUME NEW b \in Fleet(e), b.inst = i PROVE b = t.be
    <3>1. CASE b \in backends[e]
      BY <1>4, <2>2, <3>1 DEF IInv, SpawnInv, NoDuplicateBackends
    <3>2. CASE \E u \in tasks : u.entry = e /\ u.be = b
      BY <1>1, <2>2, <3>2 DEF IInv, SpawnInv, NoDuplicateBackends
    <3>3. CASE \E q \in Sess : at[q] = e /\ b \in claimed[q]
      BY <1>1, <2>2, <3>3 DEF IInv, SpawnInv, ClaimsMarked
    <3> QED BY <3>1, <3>2, <3>3 DEF Fleet
  <2> QED BY <2>1, <2>2 DEF Mates
<1>7. \A f \in Entries : Fleet(f)' \subseteq Fleet(f)
  <2>1. Keeping BY DEF Keeping, Steady, SpawnTask
  <2> QED BY <2>1, FleetStep
<1>8. SameBut({<<e, i>>})
  <2> SUFFICES ASSUME NEW f \in Entries, NEW j \in Inst, ~(f = e /\ j = i)
               PROVE  StageOf(f, j)' = StageOf(f, j) /\ RunsOf(f, j)' = RunsOf(f, j)
    BY DEF SameBut
  <2>1. j \in connecting'[f] <=> j \in connecting[f] BY <1>2, <1>3
  <2>2. \A b : b.inst = j => (b \in backends'[f] <=> b \in backends[f])
    BY <1>1, <1>2, <1>3
  <2>3. \A b \in Fleet(f) : b.inst = j => b \in Fleet(f)'
    <3> SUFFICES ASSUME NEW b \in Fleet(f), b.inst = j PROVE b \in Fleet(f)'
      OBVIOUS
    <3>1. CASE b \in backends[f] BY <2>2, <3>1 DEF Fleet
    <3>2. CASE \E u \in tasks : u.entry = f /\ u.be = b
      <4>1. PICK u \in tasks : u.entry = f /\ u.be = b BY <3>2
      <4>2. u \in tasks' BY <1>1, <1>2, <4>1
      <4> QED BY <4>1, <4>2 DEF Fleet
    <3>3. CASE \E q \in Sess : at[q] = f /\ b \in claimed[q]
      BY <1>2, <3>3 DEF Fleet
    <3> QED BY <3>1, <3>2, <3>3 DEF Fleet
  <2>4. Mates(f, j)' = Mates(f, j) BY <1>7, <2>3 DEF Mates
  <2>5. StageOf(f, j)' = StageOf(f, j) BY <2>1, <2>2 DEF StageOf
  <2> QED BY <2>4, <2>5, SameMates
<1>9. i \notin connecting'[e] BY <1>2, <1>3
<1>10. CASE backends' = [backends EXCEPT ![e] = @ \cup {t.be}]
  <2>1. t.be \in backends'[e] BY <1>3, <1>10
  <2>2. StageOf(e, i)' = "up" BY <1>1, <1>9, <2>1 DEF StageOf
  <2>3. Mates(e, i)' = Mates(e, i)
    <3>1. t.be \in Mates(e, i)' BY <1>1, <2>1 DEF Mates, Fleet
    <3>2. Mates(e, i)' \subseteq Mates(e, i) BY <1>7 DEF Mates
    <3> QED BY <1>6, <3>1, <3>2
  <2>4. Promise!Arrive(e, i) BY <1>2, <1>5, <1>8, <2>2, <2>3, SameMates, MapsArrive
  <2> QED BY <2>4
<1>11. CASE backends' = backends
  <2>1. \A b \in backends[e] : b.inst # i
    BY <1>4 DEF IInv, SpawnInv, NoDuplicateBackends
  <2>2. StageOf(e, i)' = "down" BY <1>9, <1>11, <2>1 DEF StageOf
  <2>3. Mates(e, i)' = {}
    <3> SUFFICES ASSUME NEW b \in Fleet(e)', b.inst = i PROVE FALSE
      BY DEF Mates
    <3>1. b = t.be BY <1>6, <1>7 DEF Mates
    <3>2. CASE \E u \in tasks' : u.entry = e /\ u.be = b
      BY <1>1, <1>2, <3>1, <3>2 DEF IInv, SpawnInv, NoDuplicateBackends
    <3>3. CASE \E q \in Sess : at[q] = e /\ b \in claimed[q]
      BY <1>1, <3>1, <3>3 DEF IInv, SpawnInv, ClaimsMarked
    <3> QED BY <1>2, <1>11, <2>1, <3>2, <3>3 DEF Fleet
  <2>4. RunsOf(e, i)' = {} BY <2>3 DEF RunsOf
  <2>5. Promise!GiveUp(e, i) BY <1>2, <1>5, <1>8, <2>2, <2>4, MapsGiveUp
  <2> QED BY <2>5
<1> QED BY <1>2, <1>10, <1>11

\* The steps that move no backend and no marker are not seen, though some turn
\* claims into spawn tasks or rewrite a task's flag and phase.
LEMMA QuietSteps ==
    ASSUME IInv, Keeping,
           UNCHANGED <<epoch, backends, connecting>>,
           \A t \in tasks : \E u \in tasks' : u.entry = t.entry /\ u.be = t.be,
           \A q \in Sess : \A c \in claimed[q] :
               \/ at'[q] = at[q] /\ c \in claimed'[q]
               \/ \E u \in tasks' : u.entry = at[q] /\ u.be = c
    PROVE  UNCHANGED <<epoch, Stage, Runs>>
<1>1. \A e \in Entries : Fleet(e)' = Fleet(e) BY FleetStep, FleetKept
<1>2. SameBut({}) BY <1>1, NothingSeen
<1> QED BY <1>2, MapsStutter

\* A new entry stops what the forgotten one of the same identity still listed.
LEMMA NewStops ==
    ASSUME IInv, NEW r \in Sess, CallNew(r)
    PROVE  \E e \in Entries, gone \in SUBSET Inst : Promise!Stop(e, gone)
<1>1. PICK e \in Entries :
         /\ ~Alive(e)
         /\ backends' = [backends EXCEPT ![e] = {}]
         /\ connecting' = [connecting EXCEPT ![e] = {}]
         /\ at' = [at EXCEPT ![r] = e]
  BY DEF CallNew
<1>2. UNCHANGED <<epoch, claimed, tasks>> /\ pc[r] = "idle" BY DEF CallNew
<1>3. (\A q \in Sess : at[q] # e) /\ (\A t \in tasks : t.entry # e)
  BY <1>1 DEF Alive
<1>4. /\ backends \in [Entries -> SUBSET Backend]
      /\ connecting \in [Entries -> SUBSET Inst]
      /\ at \in [Sess -> Entries \cup {NoEntry}]
  BY DEF IInv, TypeOK
<1>5. connecting[e] = {} BY <1>3 DEF IInv, SpawnInv, ConnectingIsReal
<1>6. connecting' = connecting BY <1>1, <1>4, <1>5
<1>7. backends' = [backends EXCEPT ![e] = @ \ backends[e]] BY <1>1, <1>4
<1>8. \A q \in Sess : claimed[q] # {} => at'[q] = at[q]
  BY <1>1, <1>2, <1>4 DEF IInv, SpawnInv, ClaimsMarked
<1>9. Promise!Stop(e, {b.inst : b \in backends[e]})
  BY <1>2, <1>6, <1>7, <1>8, DropsStop
<1>10. {b.inst : b \in backends[e]} \in SUBSET Inst BY <1>4 DEF Backend
<1> QED BY <1>9, <1>10

\* Every step of the pool is a step of Supervisor or a stutter.
LEMMA RefinesStep ==
    ASSUME IInv, [Next]_vars
    PROVE  [Promise!Next]_<<epoch, Stage, Runs>>
<1>0. TypeOK /\ ClaimsMarked BY DEF IInv, SpawnInv
<1>1. ASSUME NEW r \in Sess, CallNew(r) PROVE Promise!Next
  BY <1>1, NewStops DEF Promise!Next
<1>2. ASSUME NEW r \in Sess, NEW x \in todo[r], DecideClaim(r, x)
      PROVE  Promise!Next
  BY <1>2, ClaimTypes, ClaimLaunches DEF Promise!Next
<1>3. ASSUME NEW t \in tasks, Settle(t) PROVE Promise!Next
  BY <1>3, SettleSeen DEF Promise!Next
<1>4. ASSUME NEW r \in Sess, BeginDecide(r) PROVE Promise!Next
  <2>1. PICK e \in Entries : e = at[r]
    BY <1>4 DEF IInv, AtEntry, BeginDecide, Binding
  <2> DEFINE S == {b \in backends[e] : b.inst \notin Listed(r)}
  <2>2. /\ UNCHANGED <<epoch, connecting, claimed, tasks, at>>
        /\ backends' = [backends EXCEPT ![e] = {b \in @ : b.inst \in Listed(r)}]
    BY <1>4, <2>1 DEF BeginDecide
  <2>3. backends' = [backends EXCEPT ![e] = @ \ S] BY <2>2
  <2>4. S \in SUBSET backends[e] OBVIOUS
  <2>5. {b.inst : b \in S} \in SUBSET Inst BY <1>0 DEF TypeOK, Backend
  <2> HIDE DEF S
  <2>6. Promise!Stop(e, {b.inst : b \in S}) BY <2>2, <2>3, <2>4, DropsStop
  <2> QED BY <2>5, <2>6 DEF Promise!Next
<1>5. CASE HeartbeatApply
  <2>1. PICK e \in Entries : e = hb.entry BY <1>0, <1>5 DEF TypeOK, HeartbeatApply
  <2> DEFINE S == backends[e] \cap StruckOut(e)
  <2>2. /\ UNCHANGED <<epoch, connecting, claimed, tasks, at>>
        /\ backends' = [backends EXCEPT ![e] = @ \ StruckOut(e)]
    BY <1>5, <2>1 DEF HeartbeatApply
  <2>3. backends' = [backends EXCEPT ![e] = @ \ S] BY <2>2
  <2>4. S \in SUBSET backends[e] OBVIOUS
  <2>5. {b.inst : b \in S} \in SUBSET Inst BY <1>0 DEF TypeOK, Backend
  <2> HIDE DEF S
  <2>6. Promise!Stop(e, {b.inst : b \in S}) BY <2>2, <2>3, <2>4, DropsStop
  <2> QED BY <2>5, <2>6 DEF Promise!Next
<1>6. ASSUME NEW r \in Sess, Walks(r) PROVE UNCHANGED <<epoch, Stage, Runs>>
  <2>1. UNCHANGED <<backends, connecting, claimed, tasks>> BY <1>6, WalksFrame
  <2>2. \A q \in Sess : claimed[q] # {} => at'[q] = at[q]
    BY <1>0, <1>6, WalksMove DEF ClaimsMarked
  <2>3. epoch' = epoch
    BY <1>6 DEF Walks, CallFresh, CallStale, Recheck, RecheckFresh, RecheckStale,
       EndUse, ListInstances, ListFails, SandboxFails, DecideKeep, DecideSkip, BindDone
  <2>4. Keeping BY <1>6 DEF Keeping, Steady, Serves, Walks
  <2> QED BY <2>1, <2>2, <2>3, <2>4, QuietSteps
<1>7. ASSUME NEW r \in Sess, EndDecide(r) PROVE UNCHANGED <<epoch, Stage, Runs>>
  <2> DEFINE task(c) == [entry |-> at[r], be |-> c, by |-> r, late |-> FALSE,
                         phase |-> "spawning"]
  <2>1. /\ UNCHANGED <<epoch, backends, connecting, at>>
        /\ tasks' = tasks \cup {task(c) : c \in claimed[r]}
        /\ claimed' = [claimed EXCEPT ![r] = {}]
    BY <1>7 DEF EndDecide
  <2>2. \A c \in claimed[r] : \E u \in tasks' : u.entry = at[r] /\ u.be = c
    <3> SUFFICES ASSUME NEW c \in claimed[r]
                 PROVE  \E u \in tasks' : u.entry = at[r] /\ u.be = c
      OBVIOUS
    <3>1. task(c) \in tasks' BY <2>1
    <3>2. task(c).entry = at[r] /\ task(c).be = c OBVIOUS
    <3> QED BY <3>1, <3>2
  <2>3. \A q \in Sess \ {r} : claimed'[q] = claimed[q] BY <1>0, <2>1 DEF TypeOK
  <2>4. Keeping BY <1>7 DEF Keeping, Steady, Serves
  <2>5. \A t \in tasks : \E u \in tasks' : u.entry = t.entry /\ u.be = t.be
    BY <2>1
  <2> HIDE DEF task
  <2> QED BY <2>1, <2>2, <2>3, <2>4, <2>5, QuietSteps
<1>8. ASSUME NEW r \in Sess, BudgetExpires(r) PROVE UNCHANGED <<epoch, Stage, Runs>>
  <2>1. /\ UNCHANGED <<epoch, backends, connecting, claimed, at>>
        /\ tasks' = (tasks \ Pending(r))
                      \cup {[t EXCEPT !.late = TRUE] : t \in Pending(r)}
    BY <1>8 DEF BudgetExpires
  <2>2. ASSUME NEW t \in tasks
        PROVE  \E u \in tasks' : u.entry = t.entry /\ u.be = t.be
    <3>1. CASE t \notin Pending(r) BY <2>1, <3>1
    <3>2. CASE t \in Pending(r)
      <4>1. t \in Task BY <1>0 DEF TypeOK
      <4>2. [t EXCEPT !.late = TRUE].entry = t.entry
            /\ [t EXCEPT !.late = TRUE].be = t.be
        BY <4>1, TaskExceptFields
      <4>3. [t EXCEPT !.late = TRUE] \in tasks' BY <2>1, <3>2
      <4> QED BY <4>2, <4>3
    <3> QED BY <3>1, <3>2
  <2>3. Keeping BY <1>8 DEF Keeping, Steady, Serves
  <2> QED BY <2>1, <2>2, <2>3, QuietSteps
<1>9. ASSUME NEW t \in tasks, Connects(t) \/ SpawnFails(t)
      PROVE  UNCHANGED <<epoch, Stage, Runs>>
  <2>1. /\ UNCHANGED <<epoch, backends, connecting, claimed, at>>
        /\ \/ tasks' = (tasks \ {t}) \cup {[t EXCEPT !.phase = "connected"]}
           \/ tasks' = (tasks \ {t}) \cup {[t EXCEPT !.phase = "failed"]}
    BY <1>9 DEF Connects, SpawnFails
  <2>2. t \in Task BY <1>0 DEF TypeOK
  <2>3. \A v \in tasks : \E u \in tasks' : u.entry = v.entry /\ u.be = v.be
    BY <2>1, <2>2, TaskExceptFields
  <2>4. Keeping BY <1>9 DEF Keeping, Steady, SpawnTask
  <2> QED BY <2>1, <2>3, <2>4, QuietSteps
<1>10. CASE Outside
  <2>1. UNCHANGED <<backends, tracked, connecting, lockVars, sessVars, tasks>>
    BY <1>10, OutsideFrame
  <2>2. Keeping BY <1>10 DEF Keeping, Steady, Outside
  <2>3. CASE epoch' = epoch BY <2>1, <2>2, <2>3, QuietSteps
  <2>4. ASSUME NEW h \in web, BumpReload(h.inst) PROVE Promise!Next
    <3>1. h.inst \in Inst BY <1>0 DEF TypeOK, Handler
    <3>2. \A e \in Entries : Fleet(e)' = Fleet(e) BY <2>1 DEF Fleet
    <3>3. UNCHANGED <<Stage, Runs>>
      BY <2>1, <3>2 DEF Stage, Runs, StageOf, RunsOf, Mates
    <3>4. Promise!Reload(h.inst)
      BY <2>4, <3>3 DEF Promise!Reload, BumpReload
    <3> QED BY <3>1, <3>4 DEF Promise!Next
  <2>5. epoch' = epoch \/ \E h \in web : BumpReload(h.inst)
    BY <1>10 DEF Outside, WebStart, WebWrite, Publish, WriteFails, WebFails, PublishSet,
       PublishRestart, HeartbeatStart, ReapIdle, BackoffElapses, Crash, OtherTakes,
       OtherReturns, vars
  <2> QED BY <2>3, <2>4, <2>5
<1> QED
  BY <1>1, <1>2, <1>3, <1>4, <1>5, <1>6, <1>7, <1>8, <1>9, <1>10
  DEF Next, Call, Reconcile, Decide, SpawnTask, Walks, Outside

\* The empty pool is a supervisor with nothing launched.
LEMMA RefinesInit == Init => Promise!Init
<1> SUFFICES ASSUME Init PROVE Promise!Init
    OBVIOUS
<1>1. \A e \in Entries : Fleet(e) = {} BY DEF Init, Fleet
<1>2. Stage = [e \in Entries |-> [i \in Inst |-> "down"]]
  BY DEF Init, Stage, StageOf
<1>3. Runs = [e \in Entries |-> [i \in Inst |-> {}]]
  BY <1>1 DEF Runs, RunsOf, Mates
<1> QED BY <1>2, <1>3 DEF Init, Promise!Init

\* BackendPool implements Supervisor: whatever its callers, handlers, late spawns
\* and heartbeats do, an entry has one child per server, launched under the cap
\* at the version the server then has.
THEOREM Supervised == Spec => ImplementsSupervisor
<1>1. IInv /\ [Next]_vars => [Promise!Next]_<<epoch, Stage, Runs>>
  BY RefinesStep
<1>2. Spec => Promise!Init /\ [][Promise!Next]_<<epoch, Stage, Runs>>
  BY <1>1, RefinesInit, Inductive, PTL DEF Spec
<1> QED BY <1>2, PTL DEF ImplementsSupervisor, Promise!Spec
=============================================================================
