-------------------------- MODULE PoolServingProofs --------------------------
(***************************************************************************)
(* Theorems about what the hot path of BackendPool serves: a restart, a    *)
(* switch-off and an edit reach the children, except where the code lets   *)
(* the change pass, which the history variables record.  The invariants    *)
(* speak of an entry's whole fleet (pooled, starting, claimed), because a  *)
(* spawn joins the pool long after it was decided.                         *)
(***************************************************************************)
EXTENDS BackendPoolProofs

USE DEF dbVars, innerVars, lockVars, sessVars, envVars, lapses

\* the row says the server runs, or its handler has yet to tell the pool
Wanted(i) == row[i] = "on" \/ Telling({"disable", "delete"}, i)

\* nothing was launched from the future
FleetEpochs == \A e \in Entries : \A b \in Fleet(e) : b.epoch <= epoch[b.inst]

\* applied_epochs is the epoch of what runs, or the reload was forgone
RestartInv ==
    \A e \in Entries : \A b \in Fleet(e) :
        b.inst \in tracked[e] =>
            b.epoch = applied[e][b.inst] \/ b.inst \in forgone[e]

\* what runs has the stored definition, or a restart is due, or none will come
EditInv ==
    \A e \in Entries : \A b \in Fleet(e) :
        \/ b.def = def[b.inst]
        \/ Telling({"edit"}, b.inst)
        \/ b.epoch < epoch[b.inst]
        \/ b.inst \in outdated[e]

\* what a bind of e has listed is still wanted, or its handler marked the entry
ListedWanted(e, r) ==
    /\ pc[r] = "sandbox" => \A x \in todo[r] : Wanted(x.inst) \/ dirty[e]
    /\ pc[r] = "decide" =>
          \A x \in todo[r] :
              Wanted(x.inst) \/ dirty[e] \/ x.inst \in overlooked[e]

FleetWanted(e) ==
    \A b \in Fleet(e) :
        b.inst \in tracked[e] =>
            Wanted(b.inst) \/ dirty[e] \/ b.inst \in overlooked[e]

DisableInv ==
    \A e \in Entries :
        users = e =>
            FleetWanted(e) /\ \A r \in Sess : at[r] = e => ListedWanted(e, r)

\* the steps that stamp nothing, mark nothing and change no row
Serves(r) ==
    \/ CallFresh(r) \/ CallStale(r) \/ Recheck(r) \/ EndUse(r)
    \/ ListInstances(r) \/ ListFails(r)
    \/ \E x \in todo[r] : DecideKeep(r, x)
    \/ EndDecide(r) \/ BudgetExpires(r) \/ BindDone(r)

Steady ==
    \/ \E r \in Sess : Serves(r)
    \/ \E t \in tasks : SpawnTask(t)
    \/ \E w \in Web, k \in Kinds, i \in Inst : WebStart(w, k, i)
    \/ HeartbeatStart \/ HeartbeatApply \/ ReapIdle
    \/ \E e \in Entries, i \in Inst : BackoffElapses(e, i)
    \/ \E s \in Slots : Crash(s) \/ OtherTakes(s) \/ OtherReturns(s)
    \/ UNCHANGED vars

\* the steps that take nobody's permit: no claim, and no new entry
Keeping ==
    \/ Steady
    \/ \E r \in Sess : SandboxFails(r) \/ BeginDecide(r)
    \/ \E r \in Sess : \E x \in todo[r] : DecideSkip(r, x)
    \/ \E h \in web : WebWrite(h) \/ Publish(h)

-----------------------------------------------------------------------------
(* Steps and the fleet of an entry. *)

\* Every step is steady, opens an entry, stamps reloads or is a handler's.
LEMMA StepKinds ==
    ASSUME [Next]_vars
    PROVE  \/ Keeping
           \/ \E r \in Sess : CallNew(r)
           \/ \E r \in Sess : \E x \in todo[r] : DecideClaim(r, x)
BY DEF Next, Call, Reconcile, Decide, Keeping, Steady, Serves

\* What a steady step leaves alone.
LEMMA SteadyFrame ==
    ASSUME Steady
    PROVE  /\ UNCHANGED <<dbVars, tracked, applied, dirty, lapses>>
           /\ web \subseteq web'
           /\ users' = users \/ users' = NoEntry
<1>1. ASSUME NEW r \in Sess, Serves(r)
      PROVE  UNCHANGED <<dbVars, tracked, applied, dirty, lapses, web, users>>
  BY <1>1 DEF Serves, CallFresh, CallStale, Recheck, RecheckFresh, RecheckStale,
     EndUse, ListInstances, ListFails, DecideKeep, EndDecide, BudgetExpires, BindDone
<1>2. ASSUME NEW t \in tasks, SpawnTask(t)
      PROVE  UNCHANGED <<dbVars, tracked, applied, dirty, lapses, web, users>>
  BY <1>2 DEF SpawnTask, Connects, SpawnFails, Settle
<1>3. ASSUME NEW w \in Web, NEW k \in Kinds, NEW i \in Inst, WebStart(w, k, i)
      PROVE  UNCHANGED <<dbVars, tracked, applied, dirty, lapses, users>>
             /\ web \subseteq web'
  BY <1>3 DEF WebStart
<1>4. CASE HeartbeatStart \/ HeartbeatApply \/ ReapIdle
  BY <1>4 DEF HeartbeatStart, HeartbeatApply, ReapIdle
<1>5. ASSUME NEW e \in Entries, NEW i \in Inst, BackoffElapses(e, i)
      PROVE  UNCHANGED <<dbVars, tracked, applied, dirty, lapses, web, users>>
  BY <1>5 DEF BackoffElapses
<1>6. ASSUME NEW s \in Slots, Crash(s) \/ OtherTakes(s) \/ OtherReturns(s)
      PROVE  UNCHANGED <<dbVars, tracked, applied, dirty, lapses, web, users>>
  BY <1>6 DEF Crash, OtherTakes, OtherReturns
<1>7. CASE UNCHANGED vars BY <1>7 DEF vars
<1> QED BY <1>1, <1>2, <1>3, <1>4, <1>5, <1>6, <1>7 DEF Steady

\* Where a fleet comes from: if every part of it was there before, it shrinks.
LEMMA FleetFrom ==
    ASSUME NEW e \in Entries,
           backends'[e] \subseteq Fleet(e),
           \A u \in tasks' : u.entry = e => u.be \in Fleet(e),
           \A q \in Sess : at'[q] = e => claimed'[q] \subseteq Fleet(e)
    PROVE  Fleet(e)' \subseteq Fleet(e)
<1>1. Fleet(e)' = backends'[e] \cup {t.be : t \in {u \in tasks' : u.entry = e}}
                    \cup UNION {claimed'[r] : r \in {q \in Sess : at'[q] = e}}
  BY DEF Fleet
<1> QED BY <1>1

\* The parts of a fleet.
LEMMA FleetParts ==
    ASSUME NEW e \in Entries
    PROVE  /\ backends[e] \subseteq Fleet(e)
           /\ \A t \in tasks : t.entry = e => t.be \in Fleet(e)
           /\ \A q \in Sess : at[q] = e => claimed[q] \subseteq Fleet(e)
BY DEF Fleet

\* A new entry (entry().or_insert_with) has nothing running and nobody in it.
LEMMA FleetNew ==
    ASSUME IInv, NEW r \in Sess, CallNew(r)
    PROVE  \E e \in Entries :
              /\ users' = e
              /\ Fleet(e)' = {}
              /\ \A f \in Entries \ {e} : Fleet(f)' \subseteq Fleet(f)
              /\ \A q \in Sess : at'[q] = e => q = r
              /\ pc'[r] = "await"
<1>1. PICK e \in Entries :
         /\ ~Alive(e)
         /\ users' = e
         /\ backends' = [backends EXCEPT ![e] = {}]
         /\ pc' = [pc EXCEPT ![r] = "await"]
         /\ at' = [at EXCEPT ![r] = e]
  BY DEF CallNew
<1>2. UNCHANGED <<claimed, tasks>> /\ pc[r] = "idle" BY DEF CallNew
<1>3. claimed[r] = {} BY <1>2 DEF IInv, SpawnInv, ClaimsMarked
<1>4. (\A q \in Sess : at[q] # e) /\ (\A t \in tasks : t.entry # e)
  BY <1>1 DEF Alive
<1>5. /\ backends \in [Entries -> SUBSET Backend]
      /\ at \in [Sess -> Entries \cup {NoEntry}]
      /\ pc \in [Sess -> {"idle", "await", "use"} \cup Binding]
  BY DEF IInv, TypeOK
<1>6. \A q \in Sess : at'[q] = e => q = r BY <1>1, <1>4, <1>5
<1>7. Fleet(e)' = {}
  <2>1. backends'[e] = {} BY <1>1, <1>5
  <2>2. {u \in tasks' : u.entry = e} = {} BY <1>2, <1>4
  <2>3. \A q \in Sess : at'[q] = e => claimed'[q] = {} BY <1>2, <1>3, <1>6
  <2> QED BY <2>1, <2>2, <2>3 DEF Fleet
<1>8. ASSUME NEW f \in Entries \ {e} PROVE Fleet(f)' \subseteq Fleet(f)
  <2>1. backends'[f] = backends[f] BY <1>1, <1>5
  <2>2. \A q \in Sess : at'[q] = f => at[q] = f /\ claimed'[q] = claimed[q]
    BY <1>1, <1>2, <1>5
  <2> QED BY <2>1, <2>2, <1>2, FleetParts, FleetFrom
<1> QED BY <1>1, <1>5, <1>6, <1>7, <1>8

\* No step but a claim or a new entry puts a backend into a fleet: spawning,
\* connecting and settling only move it along.
LEMMA FleetStep ==
    ASSUME IInv, Keeping, NEW e \in Entries
    PROVE  Fleet(e)' \subseteq Fleet(e)
<1> USE FleetParts
<1>0. TypeOK /\ ClaimsMarked BY DEF IInv, SpawnInv
<1>1. ASSUME NEW r \in Sess, Walks(r) PROVE Fleet(e)' \subseteq Fleet(e)
  <2>1. UNCHANGED <<backends, claimed, tasks>> BY <1>1, WalksFrame
  <2>2. \A q \in Sess : claimed[q] # {} => at'[q] = at[q]
    BY <1>0, <1>1, WalksMove DEF ClaimsMarked
  <2> QED BY <2>1, <2>2, FleetFrom
<1>2. ASSUME NEW r \in Sess, BeginDecide(r) PROVE Fleet(e)' \subseteq Fleet(e)
  <2>1. UNCHANGED <<claimed, tasks, at>>
        /\ backends' = [backends EXCEPT ![at[r]] =
                          {b \in backends[at[r]] : b.inst \in Listed(r)}]
    BY <1>2 DEF BeginDecide
  <2>2. backends'[e] \subseteq backends[e] BY <2>1, <1>0 DEF TypeOK
  <2> QED BY <2>1, <2>2, FleetFrom
<1>3. ASSUME NEW r \in Sess, EndDecide(r) PROVE Fleet(e)' \subseteq Fleet(e)
  <2>1. /\ UNCHANGED <<backends, at>>
        /\ tasks' = tasks \cup
              {[entry |-> at[r], be |-> c, by |-> r, late |-> FALSE,
                phase |-> "spawning"] : c \in claimed[r]}
        /\ claimed' = [claimed EXCEPT ![r] = {}]
    BY <1>3 DEF EndDecide
  <2>2. \A u \in tasks' : u \in tasks \/ (u.entry = at[r] /\ u.be \in claimed[r])
    BY <2>1
  <2>3. \A q \in Sess : claimed'[q] \subseteq claimed[q] BY <2>1, <1>0 DEF TypeOK
  <2> QED BY <2>1, <2>2, <2>3, FleetFrom
<1>4. ASSUME NEW r \in Sess, BudgetExpires(r) PROVE Fleet(e)' \subseteq Fleet(e)
  <2>1. /\ UNCHANGED <<backends, claimed, at>>
        /\ tasks' = (tasks \ Pending(r))
                      \cup {[t EXCEPT !.late = TRUE] : t \in Pending(r)}
    BY <1>4 DEF BudgetExpires
  <2>2. ASSUME NEW t \in Pending(r)
        PROVE  [t EXCEPT !.late = TRUE].entry = t.entry
               /\ [t EXCEPT !.late = TRUE].be = t.be /\ t \in tasks
    <3>1. t \in Task /\ t \in tasks BY <1>0 DEF TypeOK, Pending
    <3> QED BY <3>1, TaskExceptFields
  <2>3. \A u \in tasks' : \E t \in tasks : u.entry = t.entry /\ u.be = t.be
    BY <2>1, <2>2
  <2> QED BY <2>1, <2>3, FleetFrom
<1>5. ASSUME NEW t \in tasks, Connects(t) \/ SpawnFails(t)
      PROVE  Fleet(e)' \subseteq Fleet(e)
  <2>1. /\ UNCHANGED <<backends, claimed, at>>
        /\ \/ tasks' = (tasks \ {t}) \cup {[t EXCEPT !.phase = "connected"]}
           \/ tasks' = (tasks \ {t}) \cup {[t EXCEPT !.phase = "failed"]}
    BY <1>5 DEF Connects, SpawnFails
  <2>2. t \in Task BY <1>0 DEF TypeOK
  <2>3. \A u \in tasks' : \E v \in tasks : u.entry = v.entry /\ u.be = v.be
    BY <2>1, <2>2, TaskExceptFields
  <2> QED BY <2>1, <2>3, FleetFrom
<1>6. ASSUME NEW t \in tasks, Settle(t) PROVE Fleet(e)' \subseteq Fleet(e)
  <2>1. /\ UNCHANGED <<claimed, at>>
        /\ tasks' = tasks \ {t}
        /\ \/ backends' = backends
           \/ backends' = [backends EXCEPT ![t.entry] = @ \cup {t.be}]
    BY <1>6 DEF Settle
  <2>2. t.entry \in Entries /\ backends \in [Entries -> SUBSET Backend]
    BY <1>0 DEF TypeOK, Task
  <2>3. backends'[e] \subseteq Fleet(e)
    <3>1. CASE backends' = backends BY <3>1
    <3>2. CASE backends' = [backends EXCEPT ![t.entry] = @ \cup {t.be}]
      <4>1. backends'[e] = IF e = t.entry THEN backends[e] \cup {t.be}
                                          ELSE backends[e]
        BY <3>2, <2>2
      <4> QED BY <4>1
    <3> QED BY <2>1, <3>1, <3>2
  <2> QED BY <2>1, <2>3, FleetFrom
<1>7. CASE HeartbeatApply
  <2>1. /\ UNCHANGED <<claimed, at, tasks>>
        /\ backends' = [backends EXCEPT ![hb.entry] = @ \ StruckOut(hb.entry)]
    BY <1>7 DEF HeartbeatApply
  <2>2. backends'[e] \subseteq backends[e] BY <2>1, <1>0 DEF TypeOK
  <2> QED BY <2>1, <2>2, FleetFrom
<1>8. CASE Outside
  <2>1. UNCHANGED <<backends, claimed, at, tasks>> BY <1>8, OutsideFrame
  <2> QED BY <2>1, FleetFrom
<1> QED
  BY <1>1, <1>2, <1>3, <1>4, <1>5, <1>6, <1>7, <1>8
  DEF Keeping, Steady, Serves, SpawnTask, Walks, Outside

\* A claim works on a real entry, for a listed instance that is not connecting.
LEMMA ClaimTypes ==
    ASSUME IInv, NEW r \in Sess, NEW x \in todo[r], DecideClaim(r, x)
    PROVE  at[r] \in Entries /\ x.inst \in Inst /\ x.inst \notin connecting[at[r]]
BY DEF IInv, DecideClaim, AtEntry, Binding, Keeps, TypeOK, Row

\* A claim puts one backend into the fleet, launched at the current epoch, and
\* nothing else of that instance stays.
LEMMA FleetClaim ==
    ASSUME IInv, NEW r \in Sess, NEW x \in todo[r], DecideClaim(r, x),
           NEW e \in Entries, NEW b \in Fleet(e)'
    PROVE  \/ b \in Fleet(e) /\ ~(e = at[r] /\ b.inst = x.inst)
           \/ /\ e = at[r] /\ b.inst = x.inst
              /\ b.def = x.def /\ b.epoch = epoch[x.inst]
<1> DEFINE n == [slot |-> TryAcquire, inst |-> x.inst, def |-> x.def,
                 epoch |-> epoch[x.inst]]
<1>1. /\ at[r] \in Entries
      /\ x.inst \in Inst
      /\ x.inst \notin connecting[at[r]]
  BY ClaimTypes
<1>2. /\ UNCHANGED <<at, tasks>>
      /\ claimed' = [claimed EXCEPT ![r] = @ \cup {n}]
      /\ backends' = [backends EXCEPT ![at[r]] = {c \in @ : c.inst # x.inst}]
  BY DEF DecideClaim
<1>3. n.inst = x.inst /\ n.def = x.def /\ n.epoch = epoch[x.inst] OBVIOUS
<1> HIDE DEF n
<1>4. /\ claimed \in [Sess -> SUBSET Backend]
      /\ backends \in [Entries -> SUBSET Backend]
  BY DEF IInv, TypeOK
<1>5. \/ b \in backends'[e]
      \/ \E t \in tasks : t.entry = e /\ b = t.be
      \/ \E q \in Sess : at[q] = e /\ b \in claimed'[q]
  BY <1>2 DEF Fleet
<1>6. CASE b \in backends'[e]
  <2>1. b \in backends[e] /\ ~(e = at[r] /\ b.inst = x.inst)
    BY <1>6, <1>1, <1>2, <1>4
  <2> QED BY <2>1, FleetParts
<1>7. ASSUME NEW t \in tasks, t.entry = e, b = t.be
      PROVE  b \in Fleet(e) /\ ~(e = at[r] /\ b.inst = x.inst)
  <2>1. b.inst \in connecting[e] BY <1>7 DEF IInv, SpawnInv, TasksMarked
  <2> QED BY <2>1, <1>7, <1>1, FleetParts
<1>8. ASSUME NEW q \in Sess, at[q] = e, b \in claimed'[q]
      PROVE  \/ b \in Fleet(e) /\ ~(e = at[r] /\ b.inst = x.inst)
             \/ b = n /\ e = at[r]
  <2>1. b \in claimed[q] \/ (b = n /\ q = r) BY <1>8, <1>2, <1>4
  <2>2. b \in claimed[q] => b.inst \in connecting[e]
    BY <1>8 DEF IInv, SpawnInv, ClaimsMarked
  <2> QED BY <2>1, <2>2, <1>8, <1>1, FleetParts
<1> QED BY <1>3, <1>5, <1>6, <1>7, <1>8

-----------------------------------------------------------------------------
(* Restarts. *)

\* Reload epochs only grow (bump_reload).
LEMMA EpochGrows ==
    ASSUME TypeOK, [Next]_vars
    PROVE  \A i \in Inst : epoch[i] <= epoch'[i]
<1>1. epoch \in [Inst -> Nat] BY DEF TypeOK
<1>2. epoch' = epoch \/ \E h \in web : BumpReload(h.inst)
  <2>1. CASE Steady BY <2>1, SteadyFrame
  <2>2. CASE \E r \in Sess : CallNew(r) \/ SandboxFails(r) \/ BeginDecide(r)
    BY <2>2 DEF CallNew, SandboxFails, BeginDecide
  <2>3. CASE \E r \in Sess : \E x \in todo[r] : DecideSkip(r, x)
    BY <2>3 DEF DecideSkip
  <2>4. CASE \E r \in Sess : \E x \in todo[r] : DecideClaim(r, x)
    BY <2>4 DEF DecideClaim
  <2>5. CASE \E h \in web : WebWrite(h) \/ Publish(h)
    BY <2>5 DEF WebWrite, Publish, WriteFails, WebFails, PublishSet, PublishRestart
  <2> QED BY <2>1, <2>2, <2>3, <2>4, <2>5, StepKinds DEF Keeping
<1> QED BY <1>1, <1>2 DEF BumpReload

\* No step launches anything from the future.
LEMMA EpochStep ==
    ASSUME IInv, FleetEpochs, [Next]_vars
    PROVE  FleetEpochs'
<1>0. TypeOK /\ epoch \in [Inst -> Nat] BY DEF IInv, TypeOK
<1>1. epoch' \in [Inst -> Nat]
  <2>1. TypeOK' BY TypeStep DEF IInv
  <2> QED BY <2>1 DEF TypeOK
<1>2. \A i \in Inst : epoch[i] <= epoch'[i] BY <1>0, EpochGrows
<1>3. ASSUME NEW e \in Entries, NEW b \in Fleet(e)
      PROVE  b.epoch <= epoch'[b.inst]
  <2>1. b \in Backend BY <1>0, FleetType
  <2>2. b.inst \in Inst /\ b.epoch \in Nat BY <2>1 DEF Backend
  <2>3. b.epoch <= epoch[b.inst] BY <1>3 DEF FleetEpochs
  <2> QED BY <1>0, <1>1, <1>2, <2>2, <2>3
<1>4. ASSUME NEW e \in Entries, NEW b \in Fleet(e)'
      PROVE  b.epoch <= epoch'[b.inst]
  <2>1. CASE Keeping BY <2>1, <1>3, <1>4, FleetStep
  <2>2. ASSUME NEW r \in Sess, CallNew(r) PROVE b \in Fleet(e)
    <3>1. PICK f \in Entries :
             /\ Fleet(f)' = {}
             /\ \A g \in Entries \ {f} : Fleet(g)' \subseteq Fleet(g)
      BY <2>2, FleetNew
    <3> QED BY <1>4, <3>1
  <2>3. ASSUME NEW r \in Sess, NEW x \in todo[r], DecideClaim(r, x)
        PROVE  b.epoch <= epoch'[b.inst]
    <3>1. \/ b \in Fleet(e)
          \/ b.inst = x.inst /\ b.epoch = epoch[x.inst] /\ x.inst \in Inst
      BY <1>4, <2>3, FleetClaim, ClaimTypes
    <3>2. CASE b \in Fleet(e) BY <3>2, <1>3
    <3>3. CASE b.inst = x.inst /\ b.epoch = epoch[x.inst] /\ x.inst \in Inst
      BY <3>3, <1>2
    <3> QED BY <3>1, <3>2, <3>3
  <2> QED BY <2>1, <2>2, <2>3, <1>3, StepKinds
<1> QED BY <1>4 DEF FleetEpochs

\* Every step keeps applied_epochs honest, or records the reload as forgone.
LEMMA RestartStep ==
    ASSUME IInv, RestartInv, [Next]_vars
    PROVE  RestartInv'
<1>0. /\ TypeOK
      /\ tracked \in [Entries -> SUBSET Inst]
      /\ applied \in [Entries -> [Inst -> Nat]]
      /\ forgone \in [Entries -> SUBSET Inst]
  BY DEF IInv, TypeOK
<1> SUFFICES ASSUME NEW e \in Entries, NEW b \in Fleet(e)', b.inst \in tracked'[e]
             PROVE  b.epoch = applied'[e][b.inst] \/ b.inst \in forgone'[e]
  BY DEF RestartInv
<1>1. CASE Steady \/ \E h \in web : WebWrite(h) \/ Publish(h)
  <2>1. UNCHANGED <<tracked, applied, forgone>>
    <3>1. CASE Steady BY <3>1, SteadyFrame
    <3>2. CASE \E h \in web : WebWrite(h) \/ Publish(h)
      BY <3>2 DEF WebWrite, Publish, WriteFails, WebFails, PublishSet, PublishRestart
    <3> QED BY <1>1, <3>1, <3>2
  <2>2. b \in Fleet(e) BY <1>1, FleetStep DEF Keeping
  <2> QED BY <2>1, <2>2 DEF RestartInv
<1>2. ASSUME NEW r \in Sess, CallNew(r)
      PROVE  b.epoch = applied'[e][b.inst] \/ b.inst \in forgone'[e]
  <2>1. PICK f \in Entries :
           /\ users' = f
           /\ Fleet(f)' = {}
           /\ \A g \in Entries \ {f} : Fleet(g)' \subseteq Fleet(g)
    BY <1>2, FleetNew
  <2>2. e # f /\ b \in Fleet(e) BY <2>1
  <2>3. tracked'[e] = tracked[e] /\ applied'[e] = applied[e]
        /\ forgone'[e] = forgone[e]
    BY <1>0, <1>2, <2>1, <2>2 DEF CallNew
  <2> QED BY <2>2, <2>3 DEF RestartInv
<1>3. ASSUME NEW r \in Sess, SandboxFails(r)
      PROVE  b.epoch = applied'[e][b.inst] \/ b.inst \in forgone'[e]
  <2>1. b \in Fleet(e) BY <1>3, FleetStep DEF Keeping
  <2>2. b.inst \in Inst BY <1>0, <2>1, FleetType DEF Backend
  <2>3. at[r] \in Entries BY <1>3 DEF IInv, AtEntry, SandboxFails, Binding
  <2>4. CASE e # at[r] 
    BY <1>0, <1>3, <2>1, <2>3, <2>4 DEF SandboxFails, RestartInv
  <2>5. CASE e = at[r]
    <3>1. /\ tracked'[e] = tracked[e] \cup Listed(r)
          /\ applied'[e][b.inst] = IF b.inst \in Listed(r) THEN epoch[b.inst]
                                   ELSE applied[e][b.inst]
          /\ forgone'[e] = forgone[e] \cup {i \in Listed(r) : RunsOlder(e, i)}
      BY <1>0, <1>3, <2>2, <2>3, <2>5 DEF SandboxFails
    <3>2. b.epoch # epoch[b.inst] => RunsOlder(e, b.inst)
      BY <2>1 DEF RunsOlder
    <3> QED BY <2>1, <3>1, <3>2 DEF RestartInv
  <2> QED BY <2>4, <2>5
<1>4. ASSUME NEW r \in Sess, BeginDecide(r)
      PROVE  b.epoch = applied'[e][b.inst] \/ b.inst \in forgone'[e]
  <2>1. b \in Fleet(e) BY <1>4, FleetStep DEF Keeping
  <2>2. b.inst \in Inst BY <1>0, <2>1, FleetType DEF Backend
  <2>3. at[r] \in Entries BY <1>4 DEF IInv, AtEntry, BeginDecide, Binding
  <2>4. b.inst \in tracked[e] /\ applied'[e][b.inst] = applied[e][b.inst]
    BY <1>0, <1>4, <2>2, <2>3 DEF BeginDecide
  <2>5. forgone' = forgone BY <1>4 DEF BeginDecide
  <2> QED BY <2>1, <2>4, <2>5 DEF RestartInv
<1>5. ASSUME NEW r \in Sess, NEW x \in todo[r], DecideSkip(r, x)
      PROVE  b.epoch = applied'[e][b.inst] \/ b.inst \in forgone'[e]
  <2>1. b \in Fleet(e) BY <1>5, FleetStep DEF Keeping
  <2>2. b.inst \in Inst BY <1>0, <2>1, FleetType DEF Backend
  <2>3. at[r] \in Entries BY <1>5 DEF IInv, AtEntry, DecideSkip, Binding
  <2>4. x.inst \in Inst BY <1>0 DEF TypeOK, Row
  <2>5. CASE e = at[r] /\ b.inst = x.inst
    <3>1. applied'[e][b.inst] = epoch[b.inst]
      BY <1>0, <1>5, <2>3, <2>4, <2>5 DEF DecideSkip, Stamp
    <3>2. b.epoch # epoch[b.inst] => RunsOlder(e, b.inst)
      BY <2>1 DEF RunsOlder
    <3>3. RunsOlder(e, b.inst) => b.inst \in forgone'[e]
      BY <1>0, <1>5, <2>3, <2>4, <2>5 DEF DecideSkip
    <3> QED BY <3>1, <3>2, <3>3
  <2>6. CASE ~(e = at[r] /\ b.inst = x.inst)
    <3>1. b.inst \in tracked[e] /\ applied'[e][b.inst] = applied[e][b.inst]
      BY <1>0, <1>5, <2>2, <2>3, <2>4, <2>6 DEF DecideSkip, Stamp
    <3>2. forgone[e] \subseteq forgone'[e]
      <4>1. forgone' = forgone
            \/ forgone' = [forgone EXCEPT ![at[r]] = @ \cup {x.inst}]
        BY <1>5 DEF DecideSkip
      <4> QED BY <4>1, <1>0, <2>3
    <3> QED BY <2>1, <3>1, <3>2 DEF RestartInv
  <2> QED BY <2>5, <2>6
<1>6. ASSUME NEW r \in Sess, NEW x \in todo[r], DecideClaim(r, x)
      PROVE  b.epoch = applied'[e][b.inst] \/ b.inst \in forgone'[e]
  <2>1. /\ tracked' = [tracked EXCEPT ![at[r]] = @ \cup {x.inst}]
        /\ applied' = [applied EXCEPT ![at[r]][x.inst] = epoch[x.inst]]
        /\ forgone' = [forgone EXCEPT ![at[r]] = @ \ {x.inst}]
    BY <1>6 DEF DecideClaim, Stamp
  <2>2. at[r] \in Entries /\ x.inst \in Inst BY <1>6, ClaimTypes
  <2>3. \/ b \in Fleet(e) /\ ~(e = at[r] /\ b.inst = x.inst)
        \/ e = at[r] /\ b.inst = x.inst /\ b.epoch = epoch[x.inst]
    BY <1>6, FleetClaim
  <2>4. CASE b \in Fleet(e) /\ ~(e = at[r] /\ b.inst = x.inst)
    <3>1. b.inst \in Inst BY <1>0, <2>4, FleetType DEF Backend
    <3>2. /\ b.inst \in tracked[e] /\ applied'[e][b.inst] = applied[e][b.inst]
          /\ b.inst \in forgone[e] => b.inst \in forgone'[e]
      BY <1>0, <2>1, <2>2, <2>4, <3>1
    <3> QED BY <2>4, <3>2 DEF RestartInv
  <2>5. CASE e = at[r] /\ b.inst = x.inst /\ b.epoch = epoch[x.inst]
    BY <1>0, <2>1, <2>2, <2>5
  <2> QED BY <2>3, <2>4, <2>5
<1> QED BY <1>1, <1>2, <1>3, <1>4, <1>5, <1>6, StepKinds DEF Keeping

-----------------------------------------------------------------------------
(* Edits. *)

\* A handler that has to tell the pool still has to after any step but its own.
LEMMA TellingKept ==
    ASSUME NEW kinds, NEW i, Telling(kinds, i),
           \/ web \subseteq web'
           \/ \E h \in web : WebWrite(h) \/ WriteFails(h)
           \/ \E h \in web : web' = web \ {h} /\ (h.kind \notin kinds \/ h.inst # i)
    PROVE  Telling(kinds, i)'
<1>1. PICK g \in web : g.kind \in kinds /\ g.inst = i /\ g.pc = "publish"
  BY DEF Telling
<1>2. g \in web'
  <2>1. ASSUME NEW h \in web, WebWrite(h) \/ WriteFails(h) PROVE g \in web'
    <3>1. h.pc = "write" /\ web \ {h} \subseteq web'
      BY <2>1 DEF WebWrite, WriteFails
    <3> QED BY <1>1, <3>1
  <2> QED BY <1>1, <2>1
<1> QED BY <1>1, <1>2 DEF Telling

\* A handler that has just written is about to tell the pool.
LEMMA WriteTells ==
    ASSUME TypeOK, NEW h \in web, WebWrite(h), NEW kinds, h.kind \in kinds
    PROVE  Telling(kinds, h.inst)'
<1> DEFINE g == [h EXCEPT !.pc = "publish"]
<1>1. h \in Handler BY DEF TypeOK
<1>2. g.kind = h.kind /\ g.inst = h.inst /\ g.pc = "publish"
  BY <1>1 DEF Handler
<1>3. g \in web' BY DEF WebWrite
<1> QED BY <1>2, <1>3 DEF Telling

\* A write of a handler changes the definition of its own instance at most, and
\* only when it is an edit (save_config).
LEMMA WriteDefs ==
    ASSUME TypeOK, NEW h \in web, WebWrite(h)
    PROVE  \A i \in Inst : def'[i] = def[i] \/ (h.kind = "edit" /\ i = h.inst)
<1>1. def \in [Inst -> Nat] BY DEF TypeOK
<1>2. def' = def \/ (h.kind = "edit" /\ def' = [def EXCEPT ![h.inst] = @ + 1])
  BY DEF WebWrite, CreateServer, SetEnabled, DeleteServer, SaveConfig, RestartServer
<1> QED BY <1>1, <1>2

\* Every step keeps EditInv: an edit is followed by a restart of what runs, or
\* what runs is recorded as outdated.
LEMMA EditStep ==
    ASSUME IInv, FleetEpochs, EditInv, [Next]_vars
    PROVE  EditInv'
<1>0. /\ TypeOK
      /\ outdated \in [Entries -> SUBSET Inst]
      /\ epoch \in [Inst -> Nat]
  BY DEF IInv, TypeOK
<1> DEFINE Told(e, b) == \/ b.def = def'[b.inst]
                         \/ Telling({"edit"}, b.inst)'
                         \/ b.epoch < epoch'[b.inst]
                         \/ b.inst \in outdated'[e]
<1> SUFFICES ASSUME NEW e \in Entries, NEW b \in Fleet(e)'
             PROVE  Told(e, b)
  BY DEF EditInv
<1>1. CASE Steady
  <2>1. b \in Fleet(e) BY <1>1, FleetStep DEF Keeping
  <2>2. UNCHANGED <<def, epoch, outdated>> /\ web \subseteq web'
    BY <1>1, SteadyFrame
  <2> QED BY <2>1, <2>2, TellingKept DEF EditInv
<1>2. ASSUME NEW r \in Sess, CallNew(r) PROVE Told(e, b)
  <2>1. PICK f \in Entries :
           /\ users' = f
           /\ Fleet(f)' = {}
           /\ \A g \in Entries \ {f} : Fleet(g)' \subseteq Fleet(g)
    BY <1>2, FleetNew
  <2>2. e # f /\ b \in Fleet(e) BY <2>1
  <2>3. UNCHANGED <<def, epoch, web>> /\ outdated'[e] = outdated[e]
    BY <1>0, <1>2, <2>1, <2>2 DEF CallNew
  <2> QED BY <2>2, <2>3, TellingKept DEF EditInv
<1>3. ASSUME NEW r \in Sess,
             \/ SandboxFails(r) \/ BeginDecide(r)
             \/ \E x \in todo[r] : DecideSkip(r, x)
      PROVE  Told(e, b)
  <2>1. b \in Fleet(e) BY <1>3, FleetStep DEF Keeping
  <2>2. UNCHANGED <<def, epoch, web, outdated>>
    BY <1>3 DEF SandboxFails, BeginDecide, DecideSkip
  <2> QED BY <2>1, <2>2, TellingKept DEF EditInv
<1>4. ASSUME NEW r \in Sess, NEW x \in todo[r], DecideClaim(r, x)
      PROVE  Told(e, b)
  <2>1. /\ UNCHANGED <<def, epoch, web>>
        /\ outdated' = [outdated EXCEPT ![at[r]] =
             IF x.def = def[x.inst] \/ Telling({"edit"}, x.inst)
             THEN @ \ {x.inst} ELSE @ \cup {x.inst}]
    BY <1>4 DEF DecideClaim
  <2>2. at[r] \in Entries /\ x.inst \in Inst BY <1>4, ClaimTypes
  <2>3. CASE b \in Fleet(e) /\ ~(e = at[r] /\ b.inst = x.inst)
    <3>1. b.inst \in outdated[e] => b.inst \in outdated'[e]
      BY <1>0, <2>1, <2>2, <2>3
    <3> QED BY <2>1, <2>3, <3>1, TellingKept DEF EditInv
  <2>4. CASE e = at[r] /\ b.inst = x.inst /\ b.def = x.def
    <3>1. CASE x.def = def[x.inst] BY <2>1, <2>4, <3>1
    <3>2. CASE Telling({"edit"}, x.inst) BY <2>1, <2>4, <3>2, TellingKept
    <3>3. CASE x.def # def[x.inst] /\ ~Telling({"edit"}, x.inst)
      BY <1>0, <2>1, <2>2, <2>4, <3>3
    <3> QED BY <3>1, <3>2, <3>3
  <2> QED BY <1>4, <2>3, <2>4, FleetClaim
<1>5. ASSUME NEW h \in web, WebWrite(h) \/ Publish(h) PROVE Told(e, b)
  <2>1. b \in Fleet(e) BY <1>5, FleetStep DEF Keeping
  <2>2. b.inst \in Inst /\ b.epoch \in Nat BY <1>0, <2>1, FleetType DEF Backend
  <2>3. CASE WebWrite(h)
    <3>1. UNCHANGED <<epoch, outdated>> BY <2>3 DEF WebWrite
    <3>2. def'[b.inst] = def[b.inst] \/ (h.kind = "edit" /\ b.inst = h.inst)
      BY <1>0, <2>2, <2>3, WriteDefs
    <3>3. CASE h.kind = "edit" /\ b.inst = h.inst
      BY <1>0, <2>3, <3>3, WriteTells
    <3>4. CASE def'[b.inst] = def[b.inst]
      BY <2>1, <2>3, <3>1, <3>4, TellingKept DEF EditInv
    <3> QED BY <3>2, <3>3, <3>4
  <2>4. CASE WriteFails(h)
    <3>1. UNCHANGED <<def, epoch, outdated>> BY <2>4 DEF WriteFails
    <3> QED BY <2>1, <2>4, <3>1, TellingKept DEF EditInv
  <2>5. CASE PublishSet(h)
    <3>1. /\ UNCHANGED <<def, epoch, outdated>>
          /\ web' = web \ {h} /\ h.kind \notin {"edit"}
      BY <2>5 DEF PublishSet
    <3> QED BY <2>1, <3>1, TellingKept DEF EditInv
  <2>6. ASSUME UNCHANGED <<def, epoch>>, web' = web \ {h}, Untold(h)
        PROVE  Told(e, b)
    <3>1. outdated'[e] = IF h.kind = "edit" /\ RunsOutdated(e, h.inst)
                         THEN outdated[e] \cup {h.inst} ELSE outdated[e]
      BY <2>6 DEF Untold
    <3>2. CASE h.kind = "edit" /\ h.inst = b.inst
      <4>1. b.def # def[b.inst] => RunsOutdated(e, b.inst)
        BY <2>1 DEF RunsOutdated
      <4> QED BY <2>6, <3>1, <3>2, <4>1
    <3>3. CASE ~(h.kind = "edit" /\ h.inst = b.inst)
      <4>1. Telling({"edit"}, b.inst) => Telling({"edit"}, b.inst)'
        BY <2>6, <3>3, TellingKept
      <4> QED BY <2>1, <2>6, <3>1, <4>1 DEF EditInv
    <3> QED BY <3>2, <3>3
  <2>7. CASE WebFails(h) BY <2>6, <2>7 DEF WebFails
  <2>8. CASE PublishRestart(h)
    <3>1. CASE Untold(h) /\ epoch' = epoch
      BY <2>6, <2>8, <3>1 DEF PublishRestart
    <3>2. CASE BumpReload(h.inst) /\ UNCHANGED outdated
      <4>1. UNCHANGED def /\ web' = web \ {h} BY <2>8 DEF PublishRestart
      <4>2. epoch' = [epoch EXCEPT ![h.inst] = @ + 1] BY <3>2 DEF BumpReload
      <4>3. b.epoch <= epoch[b.inst] BY <2>1 DEF FleetEpochs
      <4>4. CASE h.inst = b.inst
        <5>1. epoch'[b.inst] = epoch[b.inst] + 1 /\ epoch[b.inst] \in Nat
          BY <1>0, <2>2, <4>2, <4>4
        <5> QED BY <2>2, <4>3, <5>1
      <4>5. CASE h.inst # b.inst
        <5>1. epoch'[b.inst] = epoch[b.inst] BY <1>0, <2>2, <4>2, <4>5
        <5>2. Telling({"edit"}, b.inst) => Telling({"edit"}, b.inst)'
          BY <4>1, <4>5, TellingKept
        <5> QED BY <2>1, <3>2, <4>1, <5>1, <5>2 DEF EditInv
      <4> QED BY <4>4, <4>5
    <3> QED BY <2>8, <3>1, <3>2 DEF PublishRestart
  <2> QED BY <1>5, <2>3, <2>4, <2>5, <2>7, <2>8 DEF Publish
<1> QED BY <1>1, <1>2, <1>3, <1>4, <1>5, StepKinds DEF Keeping

-----------------------------------------------------------------------------
(* Switching off. *)

\* A steady step lets a bind list only rows that are on, and only shortens what
\* a bind has still to decide.
LEMMA SteadyLists ==
    ASSUME TypeOK, Steady, NEW q \in Sess, pc'[q] \in {"sandbox", "decide"}
    PROVE  /\ at'[q] = at[q]
           /\ \/ pc'[q] = pc[q] /\ todo'[q] \subseteq todo[q]
              \/ \A x \in todo'[q] : row[x.inst] = "on"
<1>0. /\ pc \in [Sess -> {"idle", "await", "use"} \cup Binding]
      /\ at \in [Sess -> Entries \cup {NoEntry}]
      /\ todo \in [Sess -> SUBSET Row]
  BY DEF TypeOK
<1>1. ASSUME NEW r \in Sess, ListInstances(r)
      PROVE  /\ at'[q] = at[q]
             /\ \/ pc'[q] = pc[q] /\ todo'[q] = todo[q]
                \/ \A x \in todo'[q] : row[x.inst] = "on"
  <2>1. /\ at' = at
        /\ pc' = [pc EXCEPT ![r] = "sandbox"]
        /\ todo' = [todo EXCEPT ![r] = {[inst |-> i, def |-> def[i]] :
                                           i \in {j \in Inst : row[j] = "on"}}]
    BY <1>1 DEF ListInstances
  <2>2. CASE q = r
    <3>1. todo'[q] = {[inst |-> i, def |-> def[i]] :
                        i \in {j \in Inst : row[j] = "on"}}
      BY <1>0, <2>1, <2>2
    <3> QED BY <2>1, <3>1
  <2>3. CASE q # r BY <1>0, <2>1, <2>3
  <2> QED BY <2>2, <2>3
<1>2. ASSUME NEW r \in Sess, NEW x \in todo[r], DecideKeep(r, x)
      PROVE  at' = at /\ pc' = pc /\ todo'[q] \subseteq todo[q]
  BY <1>0, <1>2 DEF DecideKeep
<1>3. ASSUME NEW r \in Sess, Serves(r), ~ListInstances(r),
             \A x \in todo[r] : ~DecideKeep(r, x)
      PROVE  at'[q] = at[q] /\ pc'[q] = pc[q] /\ todo'[q] = todo[q]
  <2>1. \A p \in Sess \ {r} : pc'[p] = pc[p] /\ at'[p] = at[p] /\ todo'[p] = todo[p]
    BY <1>0, <1>3 DEF Serves, CallFresh, CallStale, Recheck, RecheckFresh, RecheckStale,
       EndUse, ListFails, EndDecide, BudgetExpires, BindDone, Answer
  <2>2. pc'[r] \notin {"sandbox", "decide"}
    BY <1>0, <1>3 DEF Serves, CallFresh, CallStale, Recheck, RecheckFresh, RecheckStale,
       EndUse, ListFails, EndDecide, BudgetExpires, BindDone, Answer
  <2> QED BY <2>1, <2>2
<1>4. ASSUME NEW t \in tasks, SpawnTask(t) PROVE UNCHANGED <<pc, at, todo>>
  BY <1>4 DEF SpawnTask, Connects, SpawnFails, Settle
<1>5. CASE HeartbeatApply BY <1>5 DEF HeartbeatApply
<1>6. CASE Outside BY <1>6, OutsideFrame
<1> QED BY <1>1, <1>2, <1>3, <1>4, <1>5, <1>6 DEF Steady, Serves, Outside

\* A server stays wanted until its handler tells the pool.
LEMMA WantedKept ==
    ASSUME TypeOK, NEW i \in Inst, Wanted(i),
           \/ row' = row /\ web \subseteq web'
           \/ \E h \in web : WebWrite(h) \/ WriteFails(h)
           \/ \E h \in web : /\ row' = row /\ web' = web \ {h}
                             /\ h.kind \notin {"disable", "delete"}
    PROVE  Wanted(i)'
<1>1. CASE Telling({"disable", "delete"}, i) BY <1>1, TellingKept DEF Wanted
<1>2. CASE row[i] = "on"
  <2>1. ASSUME NEW h \in web, WebWrite(h) PROVE Wanted(i)'
    <3>1. row \in [Inst -> {"absent", "off", "on", "deleted"}] BY DEF TypeOK
    <3>2. CASE h.kind \in {"disable", "delete"} /\ h.inst = i
      BY <2>1, <3>2, WriteTells DEF Wanted
    <3>3. CASE ~(h.kind \in {"disable", "delete"} /\ h.inst = i)
      <4>1. row'[i] = "on"
        BY <1>2, <2>1, <3>1, <3>3 DEF WebWrite, CreateServer, SetEnabled, DeleteServer,
           SaveConfig, RestartServer
      <4> QED BY <4>1 DEF Wanted
    <3> QED BY <3>2, <3>3
  <2>2. row' = row => Wanted(i)' BY <1>2 DEF Wanted
  <2> QED BY <2>1, <2>2 DEF WriteFails
<1> QED BY <1>1, <1>2 DEF Wanted

\* One reconcile at a time: nobody else has listed anything for r's entry.
LEMMA OneBinder ==
    ASSUME IInv, NEW r \in Sess, NEW q \in Sess, pc[r] \in Binding,
           pc[q] \in Binding, at[q] = at[r]
    PROVE  q = r
BY DEF IInv, HoldsLocks

\* Every step keeps DisableInv.
LEMMA DisableStep ==
    ASSUME IInv, DisableInv, [Next]_vars
    PROVE  DisableInv'
<1>0. /\ TypeOK
      /\ tracked \in [Entries -> SUBSET Inst]
      /\ dirty \in [Entries -> BOOLEAN]
      /\ overlooked \in [Entries -> SUBSET Inst]
      /\ pc \in [Sess -> {"idle", "await", "use"} \cup Binding]
      /\ at \in [Sess -> Entries \cup {NoEntry}]
      /\ users \in Entries \cup {NoEntry}
      /\ \A r \in Sess : \A x \in todo[r] : x.inst \in Inst
  BY DEF IInv, TypeOK, Row
<1>1. ASSUME NEW e \in Entries PROVE \A b \in Fleet(e) : b.inst \in Inst
  BY <1>0, FleetType DEF Backend
<1> SUFFICES ASSUME NEW e \in Entries, users' = e
             PROVE  FleetWanted(e)' /\ \A q \in Sess : at'[q] = e => ListedWanted(e, q)'
  BY DEF DisableInv
<1>2. ASSUME users = e, Steady
      PROVE  FleetWanted(e)' /\ \A q \in Sess : at'[q] = e => ListedWanted(e, q)'
  <2>1. UNCHANGED <<row, tracked, dirty, overlooked>> /\ web \subseteq web'
    BY <1>2, SteadyFrame
  <2>2. \A i \in Inst : Wanted(i) => Wanted(i)' BY <1>0, <2>1, WantedKept
  <2>3. FleetWanted(e)'
    <3>1. Fleet(e)' \subseteq Fleet(e) BY <1>2, FleetStep DEF Keeping
    <3> QED BY <1>1, <1>2, <2>1, <2>2, <3>1 DEF DisableInv, FleetWanted
  <2>4. ASSUME NEW q \in Sess, at'[q] = e PROVE ListedWanted(e, q)'
    <3>1. CASE pc'[q] \notin {"sandbox", "decide"} BY <3>1 DEF ListedWanted
    <3>2. CASE pc'[q] \in {"sandbox", "decide"}
      <4>1. /\ at[q] = e
            /\ \/ pc'[q] = pc[q] /\ todo'[q] \subseteq todo[q]
               \/ \A x \in todo'[q] : row[x.inst] = "on"
        BY <1>0, <1>2, <2>4, <3>2, SteadyLists
      <4>2. CASE pc'[q] = pc[q] /\ todo'[q] \subseteq todo[q]
        <5>1. ListedWanted(e, q) BY <1>2, <4>1 DEF DisableInv
        <5> QED BY <1>0, <2>1, <2>2, <4>2, <5>1 DEF ListedWanted
      <4>3. CASE \A x \in todo'[q] : row[x.inst] = "on"
        BY <2>1, <4>3 DEF ListedWanted, Wanted
      <4> QED BY <4>1, <4>2, <4>3
    <3> QED BY <3>1, <3>2
  <2> QED BY <2>3, <2>4
<1>3. ASSUME NEW r \in Sess, CallNew(r)
      PROVE  FleetWanted(e)' /\ \A q \in Sess : at'[q] = e => ListedWanted(e, q)'
  <2>1. PICK f \in Entries :
           /\ users' = f
           /\ Fleet(f)' = {}
           /\ \A q \in Sess : at'[q] = f => q = r
           /\ pc'[r] = "await"
    BY <1>3, FleetNew
  <2> QED BY <2>1 DEF FleetWanted, ListedWanted
<1>4. ASSUME NEW r \in Sess, users = e,
             SandboxFails(r) \/ BeginDecide(r)
      PROVE  FleetWanted(e)' /\ \A q \in Sess : at'[q] = e => ListedWanted(e, q)'
  <2>1. /\ UNCHANGED <<row, web>>
        /\ pc[r] = "sandbox"
        /\ at[r] \in Entries
        /\ \A q \in Sess \ {r} : /\ pc'[q] = pc[q] /\ at'[q] = at[q]
                                 /\ todo'[q] = todo[q]
    BY <1>0, <1>4 DEF SandboxFails, BeginDecide, Answer, IInv, AtEntry, Binding, TypeOK
  <2>2. \A i \in Inst : Wanted(i) => Wanted(i)' BY <2>1, <1>0, WantedKept
  <2>3. \A b \in Fleet(e)' : b \in Fleet(e)
    BY <1>4, FleetStep DEF Keeping
  <2>4. CASE at[r] # e
    <3>1. tracked'[e] = tracked[e] /\ dirty'[e] = dirty[e]
          /\ overlooked'[e] = overlooked[e]
      BY <1>0, <1>4, <2>1, <2>4 DEF SandboxFails, BeginDecide
    <3>2. FleetWanted(e)'
      BY <1>1, <1>4, <2>2, <2>3, <3>1 DEF DisableInv, FleetWanted
    <3>3. ASSUME NEW q \in Sess, at'[q] = e PROVE ListedWanted(e, q)'
      <4>1. CASE q = r
        <5>1. pc'[r] \notin {"sandbox", "decide"}
          <6>1. CASE SandboxFails(r) BY <1>0, <6>1 DEF SandboxFails, Answer
          <6>2. CASE BeginDecide(r) BY <2>4, <3>3, <4>1, <6>2 DEF BeginDecide
          <6> QED BY <1>4, <6>1, <6>2
        <5> QED BY <4>1, <5>1 DEF ListedWanted
      <4>2. CASE q # r
        <5>1. ListedWanted(e, q) BY <1>4, <2>1, <3>3, <4>2 DEF DisableInv
        <5>2. pc'[q] = pc[q] /\ todo'[q] = todo[q] BY <2>1, <4>2
        <5> QED BY <1>0, <2>2, <3>1, <5>1, <5>2 DEF ListedWanted
      <4> QED BY <4>1, <4>2
    <3> QED BY <3>2, <3>3
  <2>5. CASE at[r] = e
    <3>1. \A q \in Sess \ {r} : at[q] = e => pc[q] \notin {"sandbox", "decide"}
      BY <2>1, <2>5, OneBinder DEF Binding
    <3>2. \A q \in Sess \ {r} : at'[q] = e => ListedWanted(e, q)'
      BY <2>1, <3>1 DEF ListedWanted
    <3>3. /\ FleetWanted(e)
          /\ \A i \in Listed(r) : Wanted(i) \/ dirty[e]
          /\ Listed(r) \subseteq Inst
      BY <1>0, <1>4, <2>1, <2>5, ListedType DEF DisableInv, ListedWanted, Listed
    <3>4. CASE SandboxFails(r)
      <4>1. /\ tracked'[e] = tracked[e] \cup Listed(r)
            /\ overlooked'[e] = overlooked[e] \cup
                  {i \in {b.inst : b \in Fleet(e)} : dirty[e] /\ row[i] # "on"}
        BY <1>0, <2>5, <3>4 DEF SandboxFails
      <4>2. FleetWanted(e)'
        <5> SUFFICES ASSUME NEW b \in Fleet(e), b.inst \in tracked'[e]
                     PROVE  Wanted(b.inst)' \/ b.inst \in overlooked'[e]
          BY <2>3 DEF FleetWanted
        <5>1. b.inst \in Inst BY <1>1
        <5>2. Wanted(b.inst) \/ dirty[e] \/ b.inst \in overlooked[e]
          BY <3>3, <4>1 DEF FleetWanted
        <5>3. dirty[e] /\ ~Wanted(b.inst) => b.inst \in overlooked'[e]
          BY <4>1 DEF Wanted
        <5> QED BY <2>2, <4>1, <5>1, <5>2, <5>3
      <4>3. pc'[r] = "use" BY <1>0, <3>4 DEF SandboxFails, Answer
      <4> QED BY <3>2, <4>2, <4>3 DEF ListedWanted
    <3>5. CASE BeginDecide(r)
      <4>1. /\ tracked'[e] = tracked[e] \cap Listed(r)
            /\ overlooked'[e] = {i \in Listed(r) : dirty[e] /\ row[i] # "on"}
            /\ pc'[r] = "decide" /\ todo' = todo
        BY <1>0, <2>5, <3>5 DEF BeginDecide
      <4>2. \A i \in Listed(r) : Wanted(i)' \/ i \in overlooked'[e]
        <5>1. \A i \in Listed(r) : Wanted(i) \/ i \in overlooked'[e]
          BY <3>3, <4>1 DEF Wanted
        <5> QED BY <2>2, <3>3, <5>1
      <4>3. FleetWanted(e)' BY <4>1, <4>2 DEF FleetWanted
      <4>4. ListedWanted(e, r)'
        <5>1. \A x \in todo[r] : x.inst \in Listed(r) BY DEF Listed
        <5> QED BY <4>1, <4>2, <5>1 DEF ListedWanted
      <4> QED BY <3>2, <4>3, <4>4
    <3> QED BY <1>4, <3>4, <3>5
  <2> QED BY <2>4, <2>5
<1>5. ASSUME NEW r \in Sess, NEW x \in todo[r], users = e,
             DecideSkip(r, x) \/ DecideClaim(r, x)
      PROVE  FleetWanted(e)' /\ \A q \in Sess : at'[q] = e => ListedWanted(e, q)'
  <2>1. /\ UNCHANGED <<row, web, pc, at, dirty, overlooked>>
        /\ pc[r] = "decide"
        /\ at[r] \in Entries
        /\ tracked' = [tracked EXCEPT ![at[r]] = @ \cup {x.inst}]
        /\ todo' = [todo EXCEPT ![r] = @ \ {x}]
    BY <1>5 DEF DecideSkip, DecideClaim, Stamp, IInv, AtEntry, Binding
  <2>2. \A i \in Inst : Wanted(i) => Wanted(i)' BY <2>1, <1>0, WantedKept
  <2>3. \A q \in Sess : todo'[q] \subseteq todo[q] BY <1>0, <2>1 DEF TypeOK
  <2>4. \A q \in Sess : at[q] = e => ListedWanted(e, q)' 
    BY <1>0, <1>5, <2>1, <2>2, <2>3 DEF DisableInv, ListedWanted
  <2>5. at[r] = e => Wanted(x.inst) \/ dirty[e] \/ x.inst \in overlooked[e]
    BY <1>5, <2>1 DEF DisableInv, ListedWanted
  <2>6. FleetWanted(e)'
    <3> SUFFICES ASSUME NEW b \in Fleet(e)', b.inst \in tracked'[e]
                 PROVE  Wanted(b.inst)' \/ dirty[e] \/ b.inst \in overlooked[e]
      BY <2>1 DEF FleetWanted
    <3>1. b \in Fleet(e) \/ (e = at[r] /\ b.inst = x.inst)
      <4>1. CASE DecideSkip(r, x) BY <4>1, FleetStep DEF Keeping
      <4>2. CASE DecideClaim(r, x) BY <4>2, FleetClaim
      <4> QED BY <1>5, <4>1, <4>2
    <3>2. CASE e = at[r] /\ b.inst = x.inst
      BY <1>0, <2>2, <2>5, <3>2
    <3>3. CASE b \in Fleet(e) /\ ~(e = at[r] /\ b.inst = x.inst)
      <4>1. b.inst \in tracked[e] BY <1>0, <2>1, <3>3
      <4>2. Wanted(b.inst) \/ dirty[e] \/ b.inst \in overlooked[e]
        BY <1>5, <3>3, <4>1 DEF DisableInv, FleetWanted
      <4> QED BY <1>1, <2>2, <3>3, <4>2
    <3> QED BY <3>1, <3>2, <3>3
  <2> QED BY <2>1, <2>4, <2>6
<1>6. ASSUME NEW h \in web, WebWrite(h) \/ Publish(h)
      PROVE  FleetWanted(e)' /\ \A q \in Sess : at'[q] = e => ListedWanted(e, q)'
  <2>1. UNCHANGED <<users, tracked, overlooked, pc, at, todo>>
    BY <1>6 DEF WebWrite, Publish, WriteFails, WebFails, PublishSet, PublishRestart
  <2>2. CASE PublishSet(h)
    <3>1. dirty'[e] = TRUE
      BY <1>0, <2>1, <2>2, PoolAssumption DEF PublishSet, MarkDirty
    <3> QED BY <3>1 DEF FleetWanted, ListedWanted
  <2>3. CASE ~PublishSet(h)
    <3>1. /\ dirty' = dirty
          /\ \/ WebWrite(h) \/ WriteFails(h)
             \/ row' = row /\ web' = web \ {h} /\ h.kind \notin {"disable", "delete"}
      BY <1>6, <2>3 DEF WebWrite, Publish, WriteFails, WebFails, PublishRestart
    <3>2. \A i \in Inst : Wanted(i) => Wanted(i)' BY <3>1, <1>0, WantedKept
    <3>3. \A b \in Fleet(e)' : b \in Fleet(e) BY <1>6, FleetStep DEF Keeping
    <3>4. FleetWanted(e)'
      BY <1>1, <2>1, <3>1, <3>2, <3>3 DEF DisableInv, FleetWanted
    <3>5. \A q \in Sess : at[q] = e => ListedWanted(e, q)'
      BY <1>0, <2>1, <3>1, <3>2 DEF DisableInv, ListedWanted
    <3> QED BY <2>1, <3>4, <3>5
  <2> QED BY <2>2, <2>3
<1>7. Keeping \/ (\E r \in Sess : \E x \in todo[r] : DecideClaim(r, x)) => users = e
  <2>1. Steady => users = e BY SteadyFrame, PoolAssumption
  <2> QED
    BY <2>1 DEF Keeping, SandboxFails, BeginDecide, DecideSkip, DecideClaim, WebWrite,
       Publish, WriteFails, WebFails, PublishSet, PublishRestart
<1> QED BY <1>2, <1>3, <1>4, <1>5, <1>6, <1>7, StepKinds DEF Keeping

-----------------------------------------------------------------------------
(* The theorems. *)

ServingInv == FleetEpochs /\ RestartInv /\ EditInv /\ DisableInv

\* An empty pool serves nothing.
LEMMA ServingInit == Init => ServingInv
<1> SUFFICES ASSUME Init PROVE ServingInv
    OBVIOUS
<1>1. \A e \in Entries : Fleet(e) = {} BY DEF Init, Fleet
<1>2. users = NoEntry BY DEF Init
<1> QED BY <1>1, <1>2, PoolAssumption
        DEF ServingInv, FleetEpochs, RestartInv, EditInv, DisableInv

\* What the hot path serves rests on the fleet invariants, at every step.
THEOREM ServingInductive == Spec => []ServingInv
<1>1. ServingInv /\ IInv /\ [Next]_vars => ServingInv'
  BY EpochStep, RestartStep, EditStep, DisableStep DEF ServingInv
<1> QED BY <1>1, ServingInit, Inductive, PTL DEF Spec

\* bump_reload reaches every running child: the hot path serves nothing older
\* than the last reload, unless the reload was stamped without a restart.
THEOREM RestartsHonoured == Spec => []RestartHonoured
<1>1. ServingInv /\ IInv => RestartHonoured
  <2> SUFFICES ASSUME ServingInv, IInv, users # NoEntry, IsFresh(users),
                      NEW b \in backends[users]
               PROVE  b.epoch = epoch[b.inst] \/ b.inst \in forgone[users]
    BY DEF RestartHonoured
  <2>1. users \in Entries BY DEF IInv, TypeOK
  <2>2. b \in Fleet(users) BY <2>1, FleetParts
  <2>3. b.inst \in tracked[users] BY <2>1 DEF IInv, TrackedBackends
  <2>4. applied[users][b.inst] = epoch[b.inst] BY <2>3 DEF IsFresh
  <2> QED BY <2>1, <2>2, <2>3, <2>4 DEF ServingInv, RestartInv
<1> QED BY <1>1, ServingInductive, Inductive, PTL

\* mark_dirty reaches every running child: the hot path serves a server that is
\* switched off only until its handler has told the pool, or the mark was wiped.
THEOREM DisablesHonoured == Spec => []DisableHonoured
<1>1. ServingInv /\ IInv => DisableHonoured
  <2> SUFFICES ASSUME ServingInv, IInv, users # NoEntry, IsFresh(users),
                      NEW b \in backends[users]
               PROVE  \/ row[b.inst] = "on"
                      \/ Telling({"disable", "delete"}, b.inst)
                      \/ b.inst \in overlooked[users]
    BY DEF DisableHonoured
  <2>1. users \in Entries BY DEF IInv, TypeOK
  <2>2. b \in Fleet(users) BY <2>1, FleetParts
  <2>3. b.inst \in tracked[users] BY <2>1 DEF IInv, TrackedBackends
  <2>4. ~dirty[users] BY DEF IsFresh
  <2> QED BY <2>1, <2>2, <2>3, <2>4 DEF ServingInv, DisableInv, FleetWanted, Wanted
<1> QED BY <1>1, ServingInductive, Inductive, PTL

\* An edit reaches every running child: the hot path serves the stored definition
\* once the handler has told the pool, or the restart was forgone or never asked.
THEOREM EditsHonoured == Spec => []EditHonoured
<1>1. ServingInv /\ IInv => EditHonoured
  <2> SUFFICES ASSUME ServingInv, IInv, users # NoEntry, IsFresh(users),
                      NEW b \in backends[users]
               PROVE  \/ b.def = def[b.inst]
                      \/ Telling({"edit"}, b.inst)
                      \/ b.inst \in forgone[users] \cup outdated[users]
    BY DEF EditHonoured
  <2>1. users \in Entries BY DEF IInv, TypeOK
  <2>2. b \in Fleet(users) BY <2>1, FleetParts
  <2>3. b.inst \in tracked[users] BY <2>1 DEF IInv, TrackedBackends
  <2>4. b.epoch = epoch[b.inst] \/ b.inst \in forgone[users]
    BY <2>1, <2>2, <2>3 DEF IsFresh, ServingInv, RestartInv
  <2>5. b.inst \in Inst /\ epoch[b.inst] \in Nat
    BY <2>1, <2>2, FleetType DEF IInv, TypeOK, Backend
  <2> QED BY <2>1, <2>2, <2>4, <2>5 DEF ServingInv, EditInv
<1> QED BY <1>1, ServingInductive, Inductive, PTL
=============================================================================
