-------------------------- MODULE BackendPoolProofs --------------------------
(***************************************************************************)
(* Theorems about BackendPool, for every number of instances, sessions,    *)
(* slots and entries and every cap.  The inductive invariant IInv adds to  *)
(* the properties what they rest on: who holds which lock, and that the    *)
(* claims and spawns of an entry are exactly its connecting markers.       *)
(***************************************************************************)
EXTENDS BackendPool, FiniteSetTheorems, TLAPS

\* a request past the fast path works on a real entry
AtEntry == \A r \in Sess : pc[r] \in {"await"} \cup Binding => at[r] \in Entries

\* reconcile runs under bind_lock, its decide section under the inner mutex
HoldsLocks ==
    \A r \in Sess :
        /\ pc[r] \in Binding => bindLock[at[r]] = r
        /\ pc[r] = "decide" => innerLock[at[r]] = r

\* claims exist only in the decide section; each is marked connecting, is the
\* only one of its instance, and has no spawn task beside it
ClaimsMarked ==
    \A r \in Sess : \A c \in claimed[r] :
        /\ pc[r] = "decide"
        /\ c.inst \in connecting[at[r]]
        /\ \A d \in claimed[r] : c.inst = d.inst => c = d
        /\ \A t \in tasks : t.entry = at[r] => t.be.inst # c.inst

TasksMarked == \A t \in tasks : t.be.inst \in connecting[t.entry]

SpawnInv == ClaimsMarked /\ TasksMarked /\ NoDuplicateBackends /\ ConnectingIsReal

FiniteBackends == \A e \in Entries : IsFiniteSet(backends[e])

IInv ==
    /\ TypeOK
    /\ AtEntry
    /\ HoldsLocks
    /\ SpawnInv
    /\ TrackedBackends
    /\ InSnapshotOrAnnounced
    /\ FiniteBackends
    /\ WithinUserCap

\* the steps that touch none of what IInv relates, beyond their types
Outside ==
    \/ \E w \in Web, k \in Kinds, i \in Inst : WebStart(w, k, i)
    \/ \E h \in web : WebWrite(h) \/ Publish(h)
    \/ HeartbeatStart \/ ReapIdle
    \/ \E e \in Entries, i \in Inst : BackoffElapses(e, i)
    \/ \E s \in Slots : Crash(s) \/ OtherTakes(s) \/ OtherReturns(s)
    \/ UNCHANGED vars

\* the steps of a session that claim and spawn nothing and drop no backend
Walks(r) ==
    \/ CallFresh(r) \/ CallStale(r) \/ Recheck(r) \/ EndUse(r)
    \/ ListInstances(r) \/ ListFails(r) \/ SandboxFails(r)
    \/ \E x \in todo[r] : DecideKeep(r, x) \/ DecideSkip(r, x)
    \/ BindDone(r)

USE DEF dbVars, innerVars, lockVars, sessVars, envVars, lapses

-----------------------------------------------------------------------------
(* Types. *)

\* The slots of a set of backends are permits of the semaphore.
LEMMA SlotsOfType ==
    ASSUME NEW bs \in SUBSET Backend
    PROVE  SlotsOf(bs) \in SUBSET Slots
BY DEF SlotsOf, Backend

\* Answering a request (the returns of backends_for) keeps the types.
LEMMA AnswerType ==
    ASSUME TypeOK, NEW r \in Sess, NEW e \in Entries, Answer(r, e)
    PROVE  /\ pc' \in [Sess -> {"idle", "await", "use"} \cup Binding]
           /\ at' \in [Sess -> Entries \cup {NoEntry}]
           /\ snap' \in [Sess -> SUBSET Slots]
           /\ bindLock' \in [Entries -> Sess \cup {NoSess}]
           /\ todo' \in [Sess -> SUBSET Row]
           /\ claimed' = claimed
           /\ innerLock' = innerLock
<1>1. SlotsOf(backends[e]) \in SUBSET Slots
    BY SlotsOfType DEF TypeOK
<1> QED BY <1>1 DEF TypeOK, Answer

\* Dropping unreferenced backends (Rust's drop) keeps closed a set of permits.
LEMMA DropType ==
    ASSUME TypeOK, DropUnheld
    PROVE  closed' \in SUBSET Slots
BY DEF TypeOK, DropUnheld

\* A spawn task that becomes late, connected or failed is still a spawn task.
LEMMA TaskExcept ==
    ASSUME NEW t \in Task
    PROVE  /\ [t EXCEPT !.late = TRUE] \in Task
           /\ [t EXCEPT !.phase = "connected"] \in Task
           /\ [t EXCEPT !.phase = "failed"] \in Task
BY DEF Task

\* ... of the same entry, backend and binder.
LEMMA TaskExceptFields ==
    ASSUME NEW t \in Task,
           NEW u \in {[t EXCEPT !.late = TRUE], [t EXCEPT !.phase = "connected"],
                      [t EXCEPT !.phase = "failed"]}
    PROVE  u.entry = t.entry /\ u.be = t.be /\ u.by = t.by
BY DEF Task

\* The instances a bind listed are instances.
LEMMA ListedType ==
    ASSUME TypeOK, NEW r \in Sess
    PROVE  Listed(r) \in SUBSET Inst
BY DEF TypeOK, Listed, Row

\* What an entry runs or is starting are backends.
LEMMA FleetType ==
    ASSUME TypeOK, NEW e \in Entries
    PROVE  Fleet(e) \in SUBSET Backend
BY DEF TypeOK, Fleet, Task

\* Recording that an edit was not announced keeps the history's type.
LEMMA UntoldType ==
    ASSUME TypeOK, NEW h \in web, Untold(h)
    PROVE  outdated' \in [Entries -> SUBSET Inst]
<1>1. h.inst \in Inst BY DEF TypeOK, Handler
<1> QED BY <1>1 DEF TypeOK, Untold

\* Every walking step of a session (backends_for, reconcile) keeps the types.
LEMMA WalksType ==
    ASSUME TypeOK, AtEntry, NEW r \in Sess, Walks(r)
    PROVE  TypeOK'
<1>1. CASE CallFresh(r)
  <2>1. users \in Entries BY <1>1 DEF TypeOK, CallFresh
  <2>2. closed' \in SUBSET Slots BY <1>1, DropType DEF CallFresh
  <2>3. Answer(r, users) BY <1>1 DEF CallFresh
  <2> QED BY <1>1, <2>1, <2>2, <2>3, AnswerType DEF TypeOK, CallFresh
<1>2. CASE CallStale(r)
  BY <1>2 DEF TypeOK, CallStale
<1>3. CASE RecheckFresh(r)
  <2>1. at[r] \in Entries BY <1>3 DEF AtEntry, RecheckFresh
  <2>2. closed' \in SUBSET Slots BY <1>3, DropType DEF RecheckFresh
  <2>3. Answer(r, at[r]) BY <1>3 DEF RecheckFresh
  <2> QED BY <1>3, <2>1, <2>2, <2>3, AnswerType DEF TypeOK, RecheckFresh
<1>4. CASE RecheckStale(r)
  BY <1>4 DEF TypeOK, RecheckStale, Binding
<1>5. CASE EndUse(r)
  <2>1. closed' \in SUBSET Slots BY <1>5, DropType DEF EndUse
  <2> QED BY <1>5, <2>1 DEF TypeOK, EndUse
<1>6. CASE ListInstances(r)
  <2>1. {[inst |-> i, def |-> def[i]] : i \in {j \in Inst : row[j] = "on"}}
            \in SUBSET Row
    BY DEF TypeOK, Row
  <2> QED BY <1>6, <2>1 DEF TypeOK, ListInstances, Binding
<1>7. CASE ListFails(r)
  <2>1. at[r] \in Entries BY <1>7 DEF AtEntry, ListFails, Binding
  <2>2. closed' \in SUBSET Slots BY <1>7, DropType DEF ListFails
  <2>3. Answer(r, at[r]) BY <1>7 DEF ListFails
  <2> QED BY <1>7, <2>1, <2>2, <2>3, AnswerType DEF TypeOK, ListFails
<1>8. CASE SandboxFails(r)
  <2>1. at[r] \in Entries BY <1>8 DEF AtEntry, SandboxFails, Binding
  <2>2. closed' \in SUBSET Slots BY <1>8, DropType DEF SandboxFails
  <2>3. Answer(r, at[r]) BY <1>8 DEF SandboxFails
  <2>4. {b.inst : b \in Fleet(at[r])} \in SUBSET Inst
    BY <2>1, FleetType DEF Backend
  <2>5. forgone' \in [Entries -> SUBSET Inst]
    BY <1>8, <2>1, ListedType DEF TypeOK, SandboxFails
  <2>6. overlooked' \in [Entries -> SUBSET Inst]
    BY <1>8, <2>1, <2>4 DEF TypeOK, SandboxFails
  <2>7. /\ tracked' \in [Entries -> SUBSET Inst]
        /\ cooling' \in [Entries -> SUBSET Inst]
        /\ applied' \in [Entries -> [Inst -> Nat]]
        /\ dirty' \in [Entries -> BOOLEAN]
        /\ initialized' \in [Entries -> BOOLEAN]
    BY <1>8, <2>1, ListedType DEF TypeOK, SandboxFails
  <2>8. UNCHANGED <<dbVars, web, users, backends, connecting, strikes, tasks,
                    others, hb, outdated>>
    BY <1>8 DEF SandboxFails
  <2> QED BY <2>1, <2>2, <2>3, <2>5, <2>6, <2>7, <2>8, AnswerType DEF TypeOK
<1>9. ASSUME NEW x \in todo[r], DecideKeep(r, x) PROVE TypeOK'
  BY <1>9 DEF TypeOK, DecideKeep
<1>10. ASSUME NEW x \in todo[r], DecideSkip(r, x) PROVE TypeOK'
  <2>1. at[r] \in Entries BY <1>10 DEF AtEntry, DecideSkip, Binding
  <2>2. x \in Row BY DEF TypeOK
  <2> QED BY <1>10, <2>1, <2>2 DEF TypeOK, DecideSkip, Stamp, Row
<1>11. CASE BindDone(r)
  <2>1. at[r] \in Entries BY <1>11 DEF AtEntry, BindDone, Binding
  <2>2. closed' \in SUBSET Slots BY <1>11, DropType DEF BindDone
  <2>3. Answer(r, at[r]) BY <1>11 DEF BindDone
  <2> QED BY <1>11, <2>1, <2>2, <2>3, AnswerType DEF TypeOK, BindDone
<1> QED
  BY <1>1, <1>2, <1>3, <1>4, <1>5, <1>6, <1>7, <1>8, <1>9, <1>10, <1>11
  DEF Walks, Recheck

\* So do the steps outside the sessions: handlers, warmer, reaper, world.
LEMMA OutsideType ==
    ASSUME TypeOK, Outside
    PROVE  TypeOK'
<1>1. ASSUME NEW w \in Web, NEW k \in Kinds, NEW i \in Inst, WebStart(w, k, i)
      PROVE  TypeOK'
  <2>1. [who |-> w, kind |-> k, inst |-> i, saw |-> row[i] = "on",
         pc |-> "write"] \in Handler
    BY DEF Handler
  <2> QED BY <1>1, <2>1 DEF TypeOK, WebStart
<1>2. ASSUME NEW h \in web, WebWrite(h) PROVE TypeOK'
  <2>1. h \in Handler BY DEF TypeOK
  <2>2. h.inst \in Inst /\ [h EXCEPT !.pc = "publish"] \in Handler
    BY <2>1 DEF Handler
  <2>3. row' \in [Inst -> {"absent", "off", "on", "deleted"}]
    <3>1. CASE CreateServer(h) BY <2>2, <3>1 DEF TypeOK, CreateServer
    <3>2. CASE SetEnabled(h) BY <2>2, <3>2 DEF TypeOK, SetEnabled
    <3>3. CASE DeleteServer(h) BY <2>2, <3>3 DEF TypeOK, DeleteServer
    <3>4. CASE SaveConfig(h) \/ RestartServer(h)
      BY <3>4 DEF TypeOK, SaveConfig, RestartServer
    <3> QED BY <1>2, <3>1, <3>2, <3>3, <3>4 DEF WebWrite
  <2>4. def' \in [Inst -> Nat]
    <3>1. CASE SaveConfig(h) BY <2>2, <3>1 DEF TypeOK, SaveConfig
    <3>2. CASE def' = def BY <3>2 DEF TypeOK
    <3> QED BY <1>2, <3>1, <3>2 DEF WebWrite, CreateServer, SetEnabled,
            DeleteServer, RestartServer
  <2> QED BY <1>2, <2>2, <2>3, <2>4 DEF TypeOK, WebWrite
<1>3. ASSUME NEW h \in web, Publish(h) PROVE TypeOK'
  <2>1. h.inst \in Inst BY DEF TypeOK, Handler
  <2>5. CASE WriteFails(h)
    <3>1. h \in Handler BY DEF TypeOK
    <3>2. [h EXCEPT !.pc = "publish"] \in Handler BY <3>1 DEF Handler
    <3> QED BY <2>5, <3>2 DEF TypeOK, WriteFails
  <2>2. CASE WebFails(h) BY <2>2, UntoldType DEF TypeOK, WebFails
  <2>3. CASE PublishSet(h) BY <2>3 DEF TypeOK, PublishSet, MarkDirty
  <2>4. CASE PublishRestart(h)
    <3>1. outdated' \in [Entries -> SUBSET Inst]
      BY <2>4, UntoldType DEF TypeOK, PublishRestart
    <3>2. epoch' \in [Inst -> Nat]
      <4>1. epoch' = epoch \/ BumpReload(h.inst) BY <2>4 DEF PublishRestart
      <4>2. epoch \in [Inst -> Nat] BY DEF TypeOK
      <4> QED BY <2>1, <4>1, <4>2 DEF BumpReload
    <3>3. /\ web' = web \ {h}
          /\ UNCHANGED <<row, def, users, innerVars, lockVars, sessVars, tasks,
                         envVars, forgone, overlooked>>
      BY <2>4 DEF PublishRestart
    <3> QED BY <3>1, <3>2, <3>3 DEF TypeOK
  <2> QED BY <1>3, <2>2, <2>3, <2>4, <2>5 DEF Publish
<1>4. CASE HeartbeatStart
  BY <1>4 DEF TypeOK, HeartbeatStart
<1>5. CASE ReapIdle
  <2>1. closed' \in SUBSET Slots BY <1>5, DropType DEF ReapIdle
  <2> QED BY <1>5, <2>1 DEF TypeOK, ReapIdle
<1>6. ASSUME NEW e \in Entries, NEW i \in Inst, BackoffElapses(e, i)
      PROVE  TypeOK'
  BY <1>6 DEF TypeOK, BackoffElapses
<1>7. ASSUME NEW s \in Slots, Crash(s) \/ OtherTakes(s) \/ OtherReturns(s)
      PROVE  TypeOK'
  BY <1>7 DEF TypeOK, Crash, OtherTakes, OtherReturns
<1>8. CASE UNCHANGED vars
  BY <1>8 DEF TypeOK, vars
<1> QED
  BY <1>1, <1>2, <1>3, <1>4, <1>5, <1>6, <1>7, <1>8 DEF Outside

\* Every step of the pool keeps the types.
LEMMA TypeStep ==
    ASSUME TypeOK, AtEntry, [Next]_vars
    PROVE  TypeOK'
<1>1. ASSUME NEW r \in Sess, CallNew(r) PROVE TypeOK'
  BY <1>1 DEF TypeOK, CallNew
<1>2. ASSUME NEW r \in Sess, Walks(r) PROVE TypeOK'
  BY <1>2, WalksType
<1>3. ASSUME NEW r \in Sess, BeginDecide(r) PROVE TypeOK'
  <2>1. at[r] \in Entries BY <1>3 DEF AtEntry, BeginDecide, Binding
  <2>2. closed' \in SUBSET Slots BY <1>3, DropType DEF BeginDecide
  <2>3. /\ backends' \in [Entries -> SUBSET Backend]
        /\ tracked' \in [Entries -> SUBSET Inst]
        /\ overlooked' \in [Entries -> SUBSET Inst]
    BY <1>3, <2>1, ListedType DEF TypeOK, BeginDecide
  <2>4. /\ applied' \in [Entries -> [Inst -> Nat]]
        /\ strikes' \in [Entries -> [Inst -> Nat]]
    BY <1>3, <2>1 DEF TypeOK, BeginDecide
  <2>5. /\ dirty' \in [Entries -> BOOLEAN]
        /\ innerLock' \in [Entries -> Sess \cup {NoSess}]
        /\ pc' \in [Sess -> {"idle", "await", "use"} \cup Binding]
    BY <1>3, <2>1 DEF TypeOK, BeginDecide, Binding
  <2> QED BY <1>3, <2>2, <2>3, <2>4, <2>5 DEF TypeOK, BeginDecide
<1>4. ASSUME NEW r \in Sess, NEW x \in todo[r], DecideClaim(r, x) PROVE TypeOK'
  <2>1. at[r] \in Entries BY <1>4 DEF AtEntry, DecideClaim, Binding
  <2>2. closed' \in SUBSET Slots BY <1>4, DropType DEF DecideClaim
  <2>3. x \in Row BY DEF TypeOK
  <2>4. TryAcquire \in Slots BY <1>4 DEF TryAcquire, FreeSlots, DecideClaim
  <2>5. [slot |-> TryAcquire, inst |-> x.inst, def |-> x.def,
         epoch |-> epoch[x.inst]] \in Backend
    BY <2>3, <2>4 DEF Backend, Row, TypeOK
  <2> QED BY <1>4, <2>1, <2>2, <2>3, <2>5 DEF TypeOK, DecideClaim, Stamp, Row
<1>5. ASSUME NEW r \in Sess, EndDecide(r) PROVE TypeOK'
  <2>1. at[r] \in Entries BY <1>5 DEF AtEntry, EndDecide, Binding
  <2>2. {[entry |-> at[r], be |-> c, by |-> r, late |-> FALSE,
          phase |-> "spawning"] : c \in claimed[r]} \in SUBSET Task
    <3> SUFFICES ASSUME NEW c \in claimed[r]
                 PROVE  [entry |-> at[r], be |-> c, by |-> r, late |-> FALSE,
                         phase |-> "spawning"] \in Task
      OBVIOUS
    <3>1. c \in Backend BY DEF TypeOK
    <3> QED BY <2>1, <3>1 DEF Task
  <2> QED BY <1>5, <2>1, <2>2 DEF TypeOK, EndDecide, Binding
<1>6. ASSUME NEW r \in Sess, BudgetExpires(r) PROVE TypeOK'
  <2>1. {[t EXCEPT !.late = TRUE] : t \in Pending(r)} \in SUBSET Task
    <3> SUFFICES ASSUME NEW t \in Pending(r)
                 PROVE  [t EXCEPT !.late = TRUE] \in Task
      OBVIOUS
    <3>1. t \in Task BY DEF TypeOK, Pending
    <3> QED BY <3>1, TaskExcept
  <2> QED BY <1>6, <2>1 DEF TypeOK, BudgetExpires, Binding
<1>7. ASSUME NEW t \in tasks, Connects(t) \/ SpawnFails(t) PROVE TypeOK'
  <2>1. t \in Task BY DEF TypeOK
  <2> QED BY <1>7, <2>1, TaskExcept DEF TypeOK, Connects, SpawnFails
<1>8. ASSUME NEW t \in tasks, Settle(t) PROVE TypeOK'
  <2>1. t.entry \in Entries /\ t.be \in Backend BY DEF TypeOK, Task
  <2>2. closed' \in SUBSET Slots BY <1>8, DropType DEF Settle
  <2>3. connecting' \in [Entries -> SUBSET Inst]
    BY <1>8, <2>1 DEF TypeOK, Settle, Arrived
  <2>4. backends' \in [Entries -> SUBSET Backend]
    <3>1. \/ backends' = backends
          \/ backends' = [backends EXCEPT ![t.entry] = @ \cup {t.be}]
      BY <1>8 DEF Settle
    <3>2. backends \in [Entries -> SUBSET Backend] BY DEF TypeOK
    <3> QED BY <2>1, <3>1, <3>2
  <2> QED BY <1>8, <2>2, <2>3, <2>4 DEF TypeOK, Settle
<1>9. CASE HeartbeatApply
  <2>1. closed' \in SUBSET Slots BY <1>9, DropType DEF HeartbeatApply
  <2>2. hb.entry \in Entries BY <1>9 DEF TypeOK, HeartbeatApply
  <2>3. strikes' \in [Entries -> [Inst -> Nat]]
    BY <1>9, <2>2 DEF TypeOK, HeartbeatApply
  <2> QED BY <1>9, <2>1, <2>2, <2>3 DEF TypeOK, HeartbeatApply
<1>10. CASE Outside
  BY <1>10, OutsideType
<1> QED
  BY <1>1, <1>2, <1>3, <1>4, <1>5, <1>6, <1>7, <1>8, <1>9, <1>10
  DEF Next, Call, Reconcile, Decide, SpawnTask, Walks, Outside

-----------------------------------------------------------------------------
(* Locks. *)

\* What the steps outside the sessions leave alone.
LEMMA OutsideFrame ==
    ASSUME Outside
    PROVE  UNCHANGED <<backends, tracked, connecting, lockVars, sessVars, tasks>>
BY DEF Outside, WebStart, WebWrite, Publish, WriteFails, WebFails, PublishSet,
       PublishRestart, HeartbeatStart, ReapIdle, BackoffElapses, Crash, OtherTakes, OtherReturns,
       vars

\* What a walking session leaves alone: it spawns, claims and drops nothing.
LEMMA WalksFrame ==
    ASSUME NEW r \in Sess, Walks(r)
    PROVE  UNCHANGED <<backends, connecting, claimed, tasks, innerLock>>
BY DEF Walks, CallFresh, CallStale, Recheck, RecheckFresh, RecheckStale, EndUse,
       ListInstances, ListFails, SandboxFails, DecideKeep, DecideSkip, BindDone,
       Answer

\* A walking session moves only itself; it never enters or leaves the decide
\* section, and it leaves the wait only when nothing is pending.
LEMMA WalksMove ==
    ASSUME TypeOK, NEW r \in Sess, Walks(r)
    PROVE  /\ \A q \in Sess \ {r} : pc'[q] = pc[q] /\ at'[q] = at[q]
           /\ pc'[r] = "decide" <=> pc[r] = "decide"
           /\ pc[r] = "decide" => at'[r] = at[r]
           /\ pc'[r] # "wait"
           /\ pc[r] = "wait" => Pending(r) = {}
<1>1. CASE CallFresh(r) BY <1>1 DEF TypeOK, CallFresh, Answer
<1>2. CASE CallStale(r) BY <1>2 DEF TypeOK, CallStale
<1>3. CASE RecheckFresh(r) BY <1>3 DEF TypeOK, RecheckFresh, Answer
<1>4. CASE RecheckStale(r) BY <1>4 DEF TypeOK, RecheckStale
<1>5. CASE EndUse(r) BY <1>5 DEF TypeOK, EndUse
<1>6. CASE ListInstances(r) BY <1>6 DEF TypeOK, ListInstances
<1>7. CASE ListFails(r) BY <1>7 DEF TypeOK, ListFails, Answer
<1>8. CASE SandboxFails(r) BY <1>8 DEF TypeOK, SandboxFails, Answer
<1>9. ASSUME NEW x \in todo[r], DecideKeep(r, x) \/ DecideSkip(r, x)
      PROVE  UNCHANGED <<pc, at>> /\ pc[r] = "decide"
  BY <1>9 DEF DecideKeep, DecideSkip
<1>10. CASE BindDone(r) BY <1>10 DEF TypeOK, BindDone, Answer
<1> QED
  BY <1>1, <1>2, <1>3, <1>4, <1>5, <1>6, <1>7, <1>8, <1>9, <1>10
  DEF Walks, Recheck

\* Answering releases bind_lock for nobody but its holder.
LEMMA AnswerLocks ==
    ASSUME TypeOK, AtEntry, HoldsLocks, NEW r \in Sess, NEW e \in Entries,
           Answer(r, e)
    PROVE  AtEntry' /\ HoldsLocks'
BY PoolAssumption DEF TypeOK, AtEntry, HoldsLocks, Answer, Binding

\* Every step keeps the lock discipline: bind_lock and the inner mutex are held
\* by the one session whose program counter says so.
LEMMA LockStep ==
    ASSUME TypeOK, AtEntry, HoldsLocks, [Next]_vars
    PROVE  AtEntry' /\ HoldsLocks'
<1>1. ASSUME NEW r \in Sess, CallNew(r) PROVE AtEntry' /\ HoldsLocks'
  BY <1>1 DEF TypeOK, AtEntry, HoldsLocks, CallNew, Binding
<1>2. ASSUME NEW r \in Sess, CallFresh(r) PROVE AtEntry' /\ HoldsLocks'
  BY <1>2, AnswerLocks DEF TypeOK, CallFresh
<1>3. ASSUME NEW r \in Sess, CallStale(r) PROVE AtEntry' /\ HoldsLocks'
  BY <1>3 DEF TypeOK, AtEntry, HoldsLocks, CallStale, Binding
<1>4. ASSUME NEW r \in Sess, RecheckFresh(r) PROVE AtEntry' /\ HoldsLocks'
  BY <1>4, AnswerLocks DEF AtEntry, RecheckFresh
<1>5. ASSUME NEW r \in Sess, RecheckStale(r) PROVE AtEntry' /\ HoldsLocks'
  BY <1>5, PoolAssumption DEF TypeOK, AtEntry, HoldsLocks, RecheckStale, Binding
<1>6. ASSUME NEW r \in Sess, EndUse(r) PROVE AtEntry' /\ HoldsLocks'
  BY <1>6 DEF TypeOK, AtEntry, HoldsLocks, EndUse, Binding
<1>7. ASSUME NEW r \in Sess, ListInstances(r) PROVE AtEntry' /\ HoldsLocks'
  BY <1>7 DEF TypeOK, AtEntry, HoldsLocks, ListInstances, Binding
<1>8. ASSUME NEW r \in Sess, ListFails(r) \/ SandboxFails(r) \/ BindDone(r)
      PROVE  AtEntry' /\ HoldsLocks'
  <2>1. at[r] \in Entries /\ Answer(r, at[r])
    BY <1>8 DEF AtEntry, ListFails, SandboxFails, BindDone, Binding
  <2> QED BY <2>1, AnswerLocks
<1>9. ASSUME NEW r \in Sess, BeginDecide(r) PROVE AtEntry' /\ HoldsLocks'
  BY <1>9, PoolAssumption DEF TypeOK, AtEntry, HoldsLocks, BeginDecide, Binding
<1>10. ASSUME NEW r \in Sess, Decide(r) PROVE AtEntry' /\ HoldsLocks'
  <2>1. UNCHANGED <<pc, at, lockVars>>
    BY <1>10 DEF Decide, DecideKeep, DecideSkip, DecideClaim
  <2> QED BY <2>1 DEF AtEntry, HoldsLocks
<1>11. ASSUME NEW r \in Sess, EndDecide(r) PROVE AtEntry' /\ HoldsLocks'
  BY <1>11, PoolAssumption DEF TypeOK, AtEntry, HoldsLocks, EndDecide, Binding
<1>12. ASSUME NEW r \in Sess, BudgetExpires(r) PROVE AtEntry' /\ HoldsLocks'
  BY <1>12 DEF TypeOK, AtEntry, HoldsLocks, BudgetExpires, Binding
<1>13. ASSUME NEW t \in tasks, SpawnTask(t) PROVE AtEntry' /\ HoldsLocks'
  BY <1>13 DEF SpawnTask, Connects, SpawnFails, Settle, AtEntry, HoldsLocks
<1>14. CASE HeartbeatApply
  BY <1>14 DEF HeartbeatApply, AtEntry, HoldsLocks
<1>15. CASE Outside
  BY <1>15, OutsideFrame DEF AtEntry, HoldsLocks
<1> QED
  BY <1>1, <1>2, <1>3, <1>4, <1>5, <1>6, <1>7, <1>8, <1>9, <1>10, <1>11,
     <1>12, <1>13, <1>14, <1>15
  DEF Next, Call, Recheck, Reconcile, Outside

-----------------------------------------------------------------------------
(* Spawns. *)

\* What every entry keeps when a spawn task, a claim and a marker change
\* together; SpawnInv reads only these variables.
LEMMA SpawnFrame ==
    ASSUME SpawnInv, UNCHANGED <<backends, connecting, claimed, tasks>>,
           \A r \in Sess : claimed[r] # {} => pc'[r] = pc[r] /\ at'[r] = at[r]
    PROVE  SpawnInv'
BY DEF SpawnInv, ClaimsMarked, TasksMarked, NoDuplicateBackends, ConnectingIsReal

\* Spawn tasks may change their flag and phase: SpawnInv reads only whose they
\* are and what they start.
LEMMA TasksRewritten ==
    ASSUME TypeOK, SpawnInv, NEW S \in SUBSET tasks, NEW f \in [S -> Task],
           \A t \in S : f[t].entry = t.entry /\ f[t].be = t.be,
           tasks' = (tasks \ S) \cup {f[t] : t \in S},
           UNCHANGED <<backends, connecting, claimed, at>>,
           \A r \in Sess : claimed[r] # {} => pc'[r] = pc[r]
    PROVE  SpawnInv'
<1>1. \A u \in tasks' : \E t \in tasks :
          /\ u.entry = t.entry /\ u.be = t.be
          /\ IF t \in S THEN u = f[t] ELSE u = t
  OBVIOUS
<1>2. \A t \in tasks : \E u \in tasks' : u.entry = t.entry /\ u.be = t.be
  OBVIOUS
<1>3. ClaimsMarked' BY <1>1 DEF SpawnInv, ClaimsMarked
<1>4. TasksMarked' BY <1>1 DEF SpawnInv, TasksMarked
<1>5. NoDuplicateBackends' BY <1>1 DEF SpawnInv, NoDuplicateBackends
<1>6. ConnectingIsReal' BY <1>2 DEF SpawnInv, ConnectingIsReal
<1> QED BY <1>3, <1>4, <1>5, <1>6 DEF SpawnInv

\* Every step keeps the claims, the spawn tasks and the connecting markers of
\* each entry in step, and so never makes a duplicate backend.
LEMMA SpawnStep ==
    ASSUME TypeOK, AtEntry, HoldsLocks, SpawnInv, [Next]_vars
    PROVE  SpawnInv'
<1>1. ASSUME NEW r \in Sess, CallNew(r) PROVE SpawnInv'
  <2>1. PICK e \in Entries :
           /\ ~Alive(e)
           /\ backends' = [backends EXCEPT ![e] = {}]
           /\ connecting' = [connecting EXCEPT ![e] = {}]
           /\ pc' = [pc EXCEPT ![r] = "await"]
           /\ at' = [at EXCEPT ![r] = e]
    BY <1>1 DEF CallNew
  <2>2. UNCHANGED <<claimed, tasks>> /\ pc[r] = "idle" BY <1>1 DEF CallNew
  <2>3. claimed[r] = {} BY <2>2 DEF SpawnInv, ClaimsMarked
  <2>4. (\A q \in Sess : at[q] # e) /\ (\A t \in tasks : t.entry # e)
    BY <2>1 DEF Alive
  <2>5. ClaimsMarked'
    BY <2>1, <2>2, <2>3, <2>4 DEF SpawnInv, ClaimsMarked, TypeOK
  <2>6. TasksMarked'
    BY <2>1, <2>2, <2>4 DEF SpawnInv, TasksMarked, TypeOK
  <2>7. NoDuplicateBackends'
    BY <2>1, <2>2 DEF SpawnInv, NoDuplicateBackends, TypeOK
  <2>8. ConnectingIsReal'
    <3> SUFFICES ASSUME NEW f \in Entries, NEW i \in connecting'[f]
                 PROVE  \/ \E t \in tasks : t.entry = f /\ t.be.inst = i
                        \/ \E q \in Sess : at'[q] = f
                              /\ \E c \in claimed[q] : c.inst = i
      BY <2>2 DEF ConnectingIsReal
    <3>1. i \in connecting[f] BY <2>1 DEF TypeOK
    <3>2. \A q \in Sess : claimed[q] # {} => at'[q] = at[q]
      BY <2>1, <2>3 DEF TypeOK
    <3> QED BY <3>1, <3>2 DEF SpawnInv, ConnectingIsReal
  <2> QED BY <2>5, <2>6, <2>7, <2>8 DEF SpawnInv
<1>2. ASSUME NEW r \in Sess, Walks(r) PROVE SpawnInv'
  <2>1. UNCHANGED <<backends, connecting, claimed, tasks>>
    BY <1>2, WalksFrame
  <2>2. \A q \in Sess : claimed[q] # {} => pc'[q] = pc[q] /\ at'[q] = at[q]
    BY <1>2, WalksMove DEF SpawnInv, ClaimsMarked
  <2> QED BY <2>1, <2>2, SpawnFrame
<1>3. ASSUME NEW r \in Sess, BeginDecide(r) PROVE SpawnInv'
  <2>1. UNCHANGED <<connecting, claimed, tasks, at>> /\ pc[r] = "sandbox"
        /\ pc' = [pc EXCEPT ![r] = "decide"]
        /\ backends' = [backends EXCEPT ![at[r]] =
                          {b \in backends[at[r]] : b.inst \in Listed(r)}]
    BY <1>3 DEF BeginDecide
  <2>2. \A e \in Entries : backends'[e] \subseteq backends[e]
    BY <2>1 DEF TypeOK
  <2>3. \A q \in Sess : claimed[q] # {} => pc'[q] = pc[q]
    BY <2>1 DEF SpawnInv, ClaimsMarked, TypeOK
  <2> QED BY <2>1, <2>2, <2>3 DEF SpawnInv, ClaimsMarked, TasksMarked,
             NoDuplicateBackends, ConnectingIsReal
<1>4. ASSUME NEW r \in Sess, NEW x \in todo[r], DecideClaim(r, x)
      PROVE  SpawnInv'
  <2> DEFINE e == at[r]
             i == x.inst
             n == [slot |-> TryAcquire, inst |-> i, def |-> x.def,
                   epoch |-> epoch[i]]
  <2>1. /\ e \in Entries
        /\ i \in Inst
        /\ i \notin connecting[e]
        /\ pc[r] = "decide"
    BY <1>4 DEF DecideClaim, AtEntry, Binding, Keeps, TypeOK, Row
  <2>2. /\ UNCHANGED <<pc, at, tasks>>
        /\ claimed' = [claimed EXCEPT ![r] = @ \cup {n}]
        /\ backends' = [backends EXCEPT ![e] = {b \in @ : b.inst # i}]
        /\ connecting' = [connecting EXCEPT ![e] = @ \cup {i}]
    BY <1>4 DEF DecideClaim
  <2>3. n.inst = i OBVIOUS
  <2> HIDE DEF n, e, i
  <2>4. ClaimsMarked'
    <3> SUFFICES ASSUME NEW q \in Sess, NEW c \in claimed'[q]
                 PROVE  /\ pc[q] = "decide"
                        /\ c.inst \in connecting'[at[q]]
                        /\ \A d \in claimed'[q] : c.inst = d.inst => c = d
                        /\ \A t \in tasks : t.entry = at[q] => t.be.inst # c.inst
      BY <2>2 DEF ClaimsMarked
    <3>1. CASE q # r
      BY <3>1, <2>1, <2>2 DEF SpawnInv, ClaimsMarked, TypeOK
    <3>2. CASE q = r
      <4>1. claimed'[r] = claimed[r] \cup {n} BY <2>2 DEF TypeOK
      <4>2. connecting'[e] = connecting[e] \cup {i} BY <2>1, <2>2 DEF TypeOK
      <4>3. \A d \in claimed[r] : d.inst \in connecting[e]
        BY DEF SpawnInv, ClaimsMarked, e
      <4>4. \A t \in tasks : t.entry = e => t.be.inst # i
        BY <2>1 DEF SpawnInv, TasksMarked
      <4> QED BY <3>2, <4>1, <4>2, <4>3, <4>4, <2>1, <2>3
              DEF SpawnInv, ClaimsMarked, e
    <3> QED BY <3>1, <3>2
  <2>5. TasksMarked' BY <2>1, <2>2 DEF SpawnInv, TasksMarked, TypeOK, Task
  <2>6. NoDuplicateBackends'
    BY <2>1, <2>2 DEF SpawnInv, NoDuplicateBackends, TypeOK
  <2>7. ConnectingIsReal'
    <3>1. n \in claimed'[r] /\ \A q \in Sess : claimed[q] \subseteq claimed'[q]
      BY <2>2 DEF TypeOK
    <3>2. \A f \in Entries : \A j \in connecting'[f] :
             j \in connecting[f] \/ (f = e /\ j = i)
      BY <2>1, <2>2 DEF TypeOK
    <3> QED BY <2>2, <2>3, <3>1, <3>2 DEF SpawnInv, ConnectingIsReal, e
  <2> QED BY <2>4, <2>5, <2>6, <2>7 DEF SpawnInv
<1>5. ASSUME NEW r \in Sess, EndDecide(r) PROVE SpawnInv'
  <2> DEFINE task(c) == [entry |-> at[r], be |-> c, by |-> r, late |-> FALSE,
                         phase |-> "spawning"]
             new == {task(c) : c \in claimed[r]}
  <2>1. /\ UNCHANGED <<backends, connecting, at>>
        /\ pc[r] = "decide"
        /\ pc' = [pc EXCEPT ![r] = "wait"]
        /\ tasks' = tasks \cup new
        /\ claimed' = [claimed EXCEPT ![r] = {}]
        /\ at[r] \in Entries
    BY <1>5 DEF EndDecide, AtEntry, Binding
  <2>2. \A t \in new : /\ t.entry = at[r]
                        /\ t.be \in claimed[r]
                        /\ t = task(t.be)
    OBVIOUS
  <2>3. \A c \in claimed[r] : task(c) \in new /\ task(c).entry = at[r]
                               /\ task(c).be = c
    OBVIOUS
  <2>4. \A q \in Sess : at[q] = at[r] /\ claimed[q] # {} => q = r
    BY <2>1 DEF SpawnInv, ClaimsMarked, HoldsLocks
  <2> HIDE DEF task, new
  <2>5. ClaimsMarked'
    <3> SUFFICES ASSUME NEW q \in Sess, NEW c \in claimed'[q]
                 PROVE  /\ pc'[q] = "decide"
                        /\ c.inst \in connecting[at[q]]
                        /\ \A d \in claimed'[q] : c.inst = d.inst => c = d
                        /\ \A t \in tasks' : t.entry = at[q] => t.be.inst # c.inst
      BY <2>1 DEF ClaimsMarked
    <3>1. q # r /\ claimed'[q] = claimed[q] /\ pc'[q] = pc[q] BY <2>1 DEF TypeOK
    <3>2. at[q] # at[r] BY <3>1, <2>4
    <3> QED BY <3>1, <3>2, <2>1, <2>2 DEF SpawnInv, ClaimsMarked
  <2>6. TasksMarked'
    BY <2>1, <2>2 DEF SpawnInv, TasksMarked, ClaimsMarked
  <2>7. NoDuplicateBackends'
    <3>1. \A t, u \in tasks' :
             t.entry = u.entry /\ t.be.inst = u.be.inst => t = u
      BY <2>1, <2>2 DEF SpawnInv, NoDuplicateBackends, ClaimsMarked
    <3> QED BY <2>1, <3>1 DEF SpawnInv, NoDuplicateBackends
  <2>8. ConnectingIsReal'
    <3> SUFFICES ASSUME NEW e \in Entries, NEW i \in connecting[e]
                 PROVE  \/ \E t \in tasks' : t.entry = e /\ t.be.inst = i
                        \/ \E q \in Sess : at[q] = e
                              /\ \E c \in claimed'[q] : c.inst = i
      BY <2>1 DEF ConnectingIsReal
    <3>1. CASE \E t \in tasks : t.entry = e /\ t.be.inst = i
      BY <3>1, <2>1
    <3>2. ASSUME NEW q \in Sess, at[q] = e, NEW c \in claimed[q], c.inst = i
          PROVE  \/ \E t \in tasks' : t.entry = e /\ t.be.inst = i
                 \/ \E p \in Sess : at[p] = e
                       /\ \E d \in claimed'[p] : d.inst = i
      <4>1. CASE q = r BY <3>2, <4>1, <2>1, <2>3
      <4>2. CASE q # r
        <5>1. claimed'[q] = claimed[q] BY <4>2, <2>1 DEF TypeOK
        <5> QED BY <3>2, <5>1
      <4> QED BY <4>1, <4>2
    <3> QED BY <3>1, <3>2 DEF SpawnInv, ConnectingIsReal
  <2> QED BY <2>5, <2>6, <2>7, <2>8 DEF SpawnInv
<1>6. ASSUME NEW r \in Sess, BudgetExpires(r) PROVE SpawnInv'
  <2> DEFINE S == Pending(r)
             f == [t \in S |-> [t EXCEPT !.late = TRUE]]
  <2>1. S \in SUBSET tasks /\ S \in SUBSET Task BY DEF Pending, TypeOK
  <2>2. f \in [S -> Task] BY <2>1, TaskExcept
  <2>3. \A t \in S : f[t].entry = t.entry /\ f[t].be = t.be
    BY <2>1, TaskExceptFields
  <2>4. {f[t] : t \in S} = {[t EXCEPT !.late = TRUE] : t \in S} OBVIOUS
  <2>5. /\ tasks' = (tasks \ S) \cup {f[t] : t \in S}
        /\ UNCHANGED <<backends, connecting, claimed, at>>
        /\ pc[r] = "wait"
        /\ pc' = [pc EXCEPT ![r] = "finish"]
    BY <1>6, <2>4 DEF BudgetExpires
  <2>6. \A q \in Sess : claimed[q] # {} => pc'[q] = pc[q]
    BY <2>5 DEF SpawnInv, ClaimsMarked, TypeOK
  <2> HIDE DEF S, f
  <2> QED BY <2>1, <2>2, <2>3, <2>5, <2>6, TasksRewritten
<1>7. ASSUME NEW t \in tasks, Connects(t) \/ SpawnFails(t) PROVE SpawnInv'
  <2>1. t \in Task BY DEF TypeOK
  <2>2. PICK u \in {[t EXCEPT !.phase = "connected"],
                    [t EXCEPT !.phase = "failed"]} :
           tasks' = (tasks \ {t}) \cup {u}
    BY <1>7 DEF Connects, SpawnFails
  <2>3. u \in Task /\ u.entry = t.entry /\ u.be = t.be
    BY <2>1, <2>2, TaskExcept, TaskExceptFields
  <2>4. UNCHANGED <<backends, connecting, claimed, at, pc>>
    BY <1>7 DEF Connects, SpawnFails
  <2> DEFINE S == {t}
             f == [v \in S |-> u]
  <2>5. /\ S \in SUBSET tasks
        /\ f \in [S -> Task]
        /\ \A v \in S : f[v].entry = v.entry /\ f[v].be = v.be
        /\ tasks' = (tasks \ S) \cup {f[v] : v \in S}
    BY <2>2, <2>3
  <2> HIDE DEF S, f
  <2> QED BY <2>4, <2>5, TasksRewritten
<1>8. ASSUME NEW t \in tasks, Settle(t) PROVE SpawnInv'
  <2> DEFINE e == t.entry
             i == t.be.inst
  <2>1. e \in Entries /\ i \in Inst /\ t.be \in Backend
    BY DEF TypeOK, Task, Backend
  <2>2. /\ tasks' = tasks \ {t}
        /\ connecting' = [connecting EXCEPT ![e] = @ \ {i}]
        /\ UNCHANGED <<claimed, pc, at>>
        /\ \/ backends' = [backends EXCEPT ![e] = @ \cup {t.be}]
           \/ backends' = backends
    BY <1>8 DEF Settle, Arrived
  <2>3. \A u \in tasks' : u.entry # e \/ u.be.inst # i
    BY <2>2 DEF SpawnInv, NoDuplicateBackends
  <2>4. \A r \in Sess : \A c \in claimed[r] : at[r] # e \/ c.inst # i
    BY DEF SpawnInv, ClaimsMarked
  <2>5. i \in connecting[e] BY DEF SpawnInv, TasksMarked
  <2>6. \A f \in Entries : connecting'[f] =
           IF f = e THEN connecting[f] \ {i} ELSE connecting[f]
    BY <2>1, <2>2 DEF TypeOK
  <2>7. \A f \in Entries : \A b \in backends'[f] :
           b \in backends[f] \/ (f = e /\ b = t.be)
    BY <2>1, <2>2 DEF TypeOK
  <2>8. ClaimsMarked'
    <3> SUFFICES ASSUME NEW r \in Sess, NEW c \in claimed[r]
                 PROVE  c.inst \in connecting'[at[r]]
      BY <2>2 DEF SpawnInv, ClaimsMarked
    <3>1. at[r] \in Entries BY DEF SpawnInv, ClaimsMarked, AtEntry, Binding
    <3> QED BY <3>1, <2>4, <2>6 DEF SpawnInv, ClaimsMarked
  <2>9. TasksMarked'
    <3> SUFFICES ASSUME NEW u \in tasks'
                 PROVE  u.be.inst \in connecting'[u.entry]
      BY DEF TasksMarked
    <3>1. u \in tasks /\ u.entry \in Entries BY <2>2 DEF TypeOK, Task
    <3> QED BY <3>1, <2>3, <2>6 DEF SpawnInv, TasksMarked
  <2>10. NoDuplicateBackends'
    <3>1. \A f \in Entries : \A b \in backends'[f] :
             /\ b.inst \notin connecting'[f]
             /\ \A c \in backends'[f] : b.inst = c.inst => b = c
      <4> SUFFICES ASSUME NEW f \in Entries, NEW b \in backends'[f],
                          NEW c \in backends'[f]
                   PROVE  /\ b.inst \notin connecting'[f]
                          /\ b.inst = c.inst => b = c
        OBVIOUS
      <4>1. \A d \in backends[f] : d.inst \notin connecting[f]
        BY DEF SpawnInv, NoDuplicateBackends
      <4>2. CASE b \in backends[f] /\ c \in backends[f]
        BY <4>1, <4>2, <2>6 DEF SpawnInv, NoDuplicateBackends
      <4>3. CASE f = e /\ (b = t.be \/ c = t.be)
        BY <4>1, <4>3, <2>5, <2>6, <2>7
      <4> QED BY <4>2, <4>3, <2>7
    <3> QED BY <3>1, <2>2 DEF SpawnInv, NoDuplicateBackends
  <2>11. ConnectingIsReal'
    <3> SUFFICES ASSUME NEW f \in Entries, NEW j \in connecting'[f]
                 PROVE  \/ \E u \in tasks' : u.entry = f /\ u.be.inst = j
                        \/ \E q \in Sess : at[q] = f
                              /\ \E c \in claimed[q] : c.inst = j
      BY <2>2 DEF ConnectingIsReal
    <3>1. j \in connecting[f] /\ (f # e \/ j # i) BY <2>6
    <3> QED BY <3>1, <2>2 DEF SpawnInv, ConnectingIsReal
  <2> QED BY <2>8, <2>9, <2>10, <2>11 DEF SpawnInv
<1>9. CASE HeartbeatApply
  <2>1. hb.entry \in Entries BY <1>9 DEF TypeOK, HeartbeatApply
  <2>2. \A e \in Entries : backends'[e] \subseteq backends[e]
    BY <1>9, <2>1 DEF TypeOK, HeartbeatApply
  <2>3. UNCHANGED <<connecting, claimed, tasks, pc, at>>
    BY <1>9 DEF HeartbeatApply
  <2> QED BY <2>2, <2>3 DEF SpawnInv, ClaimsMarked, TasksMarked,
             NoDuplicateBackends, ConnectingIsReal
<1>10. CASE Outside
  BY <1>10, OutsideFrame, SpawnFrame
<1> QED
  BY <1>1, <1>2, <1>3, <1>4, <1>5, <1>6, <1>7, <1>8, <1>9, <1>10
  DEF Next, Call, Reconcile, Decide, SpawnTask, Walks, Outside

-----------------------------------------------------------------------------
(* Tracking, and the late flag. *)

\* Every step keeps pooled backends tracked.
LEMMA TrackedStep ==
    ASSUME TypeOK, AtEntry, TrackedBackends, [Next]_vars
    PROVE  TrackedBackends'
<1>1. ASSUME NEW r \in Sess, CallNew(r) PROVE TrackedBackends'
  BY <1>1 DEF CallNew, TrackedBackends, TypeOK
<1>2. ASSUME NEW r \in Sess, Walks(r) PROVE TrackedBackends'
  <2>1. backends' = backends BY <1>2, WalksFrame
  <2>2. ASSUME NEW x \in todo[r], DecideKeep(r, x) \/ DecideSkip(r, x)
        PROVE  \A e \in Entries : tracked[e] \subseteq tracked'[e]
    <3>1. at[r] \in Entries
      BY <2>2 DEF DecideKeep, DecideSkip, AtEntry, Binding
    <3>2. \/ tracked' = tracked
          \/ tracked' = [tracked EXCEPT ![at[r]] = @ \cup {x.inst}]
      BY <2>2 DEF DecideKeep, DecideSkip, Stamp
    <3> QED BY <3>1, <3>2 DEF TypeOK
  <2>3. CASE SandboxFails(r) \/ ListFails(r) \/ BindDone(r)
    BY <2>1, <2>3 DEF SandboxFails, ListFails, BindDone, TrackedBackends, TypeOK
  <2>4. CASE CallFresh(r) \/ CallStale(r) \/ Recheck(r) \/ EndUse(r)
             \/ ListInstances(r)
    BY <2>1, <2>4 DEF CallFresh, CallStale, Recheck, RecheckFresh, RecheckStale,
       EndUse, ListInstances, TrackedBackends
  <2> QED BY <1>2, <2>1, <2>2, <2>3, <2>4 DEF Walks, TrackedBackends
<1>3. ASSUME NEW r \in Sess, BeginDecide(r) PROVE TrackedBackends'
  <2>1. at[r] \in Entries BY <1>3 DEF AtEntry, BeginDecide, Binding
  <2> QED BY <1>3, <2>1 DEF BeginDecide, TrackedBackends, TypeOK
<1>4. ASSUME NEW r \in Sess, NEW x \in todo[r], DecideClaim(r, x)
      PROVE  TrackedBackends'
  <2>1. at[r] \in Entries BY <1>4 DEF AtEntry, DecideClaim, Binding
  <2>2. \A e \in Entries : /\ backends'[e] \subseteq backends[e]
                           /\ tracked[e] \subseteq tracked'[e]
    BY <1>4, <2>1 DEF DecideClaim, Stamp, TypeOK
  <2> QED BY <2>2 DEF TrackedBackends
<1>5. ASSUME NEW r \in Sess, EndDecide(r) \/ BudgetExpires(r)
      PROVE  TrackedBackends'
  BY <1>5 DEF EndDecide, BudgetExpires, TrackedBackends
<1>6. ASSUME NEW t \in tasks, SpawnTask(t) PROVE TrackedBackends'
  <2>1. t.entry \in Entries BY DEF TypeOK, Task
  <2>2. tracked' = tracked
    BY <1>6 DEF SpawnTask, Connects, SpawnFails, Settle
  <2>3. \/ backends' = backends
        \/ /\ t.be.inst \in tracked[t.entry]
           /\ backends' = [backends EXCEPT ![t.entry] = @ \cup {t.be}]
    BY <1>6 DEF SpawnTask, Connects, SpawnFails, Settle, Joins
  <2>4. \A e \in Entries : \A b \in backends'[e] :
           b \in backends[e] \/ b.inst \in tracked[e]
    <3>1. CASE backends' = backends BY <3>1
    <3>2. CASE /\ t.be.inst \in tracked[t.entry]
               /\ backends' = [backends EXCEPT ![t.entry] = @ \cup {t.be}]
      <4>1. \A e \in Entries : backends'[e] =
               IF e = t.entry THEN backends[e] \cup {t.be} ELSE backends[e]
        BY <3>2, <2>1 DEF TypeOK
      <4> QED BY <3>2, <4>1
    <3> QED BY <3>1, <3>2, <2>3
  <2> QED BY <2>2, <2>4 DEF TrackedBackends
<1>7. CASE HeartbeatApply
  <2>1. hb.entry \in Entries BY <1>7 DEF TypeOK, HeartbeatApply
  <2> QED BY <1>7, <2>1 DEF HeartbeatApply, TrackedBackends, TypeOK
<1>8. CASE Outside
  BY <1>8, OutsideFrame DEF TrackedBackends
<1> QED
  BY <1>1, <1>2, <1>3, <1>4, <1>5, <1>6, <1>7, <1>8
  DEF Next, Call, Reconcile, Decide, Walks, Outside

\* Every step keeps a spawn that is not late in its binder's sight.
LEMMA AnnouncedStep ==
    ASSUME TypeOK, AtEntry, InSnapshotOrAnnounced, [Next]_vars
    PROVE  InSnapshotOrAnnounced'
<1>1. ASSUME NEW r \in Sess, CallNew(r) PROVE InSnapshotOrAnnounced'
  BY <1>1 DEF CallNew, InSnapshotOrAnnounced, TypeOK, Task
<1>2. ASSUME NEW r \in Sess, Walks(r) PROVE InSnapshotOrAnnounced'
  <2>1. tasks' = tasks BY <1>2, WalksFrame
  <2>2. ASSUME NEW t \in tasks, ~t.late PROVE t.by # r
    <3>1. pc[t.by] = "wait" BY <2>2 DEF InSnapshotOrAnnounced
    <3>2. t.by = r => t \in Pending(r) BY <2>2 DEF Pending
    <3> QED BY <1>2, <3>1, <3>2, WalksMove
  <2>3. \A t \in tasks : t.by \in Sess BY DEF TypeOK, Task
  <2> QED BY <1>2, <2>1, <2>2, <2>3, WalksMove DEF InSnapshotOrAnnounced
<1>3. ASSUME NEW r \in Sess, BeginDecide(r) \/ Decide(r)
      PROVE  InSnapshotOrAnnounced'
  <2>1. /\ UNCHANGED <<tasks, at>>
        /\ pc[r] # "wait"
        /\ pc' = pc \/ pc' = [pc EXCEPT ![r] = "decide"]
    BY <1>3 DEF BeginDecide, Decide, DecideKeep, DecideSkip, DecideClaim
  <2> QED BY <2>1 DEF InSnapshotOrAnnounced, TypeOK, Task
<1>4. ASSUME NEW r \in Sess, EndDecide(r) PROVE InSnapshotOrAnnounced'
  <2>1. /\ at' = at
        /\ pc' = [pc EXCEPT ![r] = "wait"]
        /\ \A t \in tasks' : t \in tasks \/ (t.by = r /\ t.entry = at[r])
    BY <1>4 DEF EndDecide
  <2> QED BY <2>1 DEF InSnapshotOrAnnounced, TypeOK, Task
<1>5. ASSUME NEW r \in Sess, BudgetExpires(r) PROVE InSnapshotOrAnnounced'
  <2>1. Pending(r) \in SUBSET Task BY DEF Pending, TypeOK
  <2>2. \A t \in Pending(r) : [t EXCEPT !.late = TRUE].late
    BY <2>1 DEF Task
  <2>3. \A t \in tasks' : t \in tasks \ Pending(r) \/ t.late
    BY <1>5, <2>2 DEF BudgetExpires
  <2>4. at' = at /\ pc' = [pc EXCEPT ![r] = "finish"]
    BY <1>5 DEF BudgetExpires
  <2> QED BY <2>3, <2>4 DEF InSnapshotOrAnnounced, Pending, TypeOK, Task
<1>6. ASSUME NEW t \in tasks, Connects(t) \/ SpawnFails(t)
      PROVE  InSnapshotOrAnnounced'
  <2>1. t \in Task BY DEF TypeOK
  <2>2. PICK u \in {[t EXCEPT !.phase = "connected"],
                    [t EXCEPT !.phase = "failed"]} :
           tasks' = (tasks \ {t}) \cup {u}
    BY <1>6 DEF Connects, SpawnFails
  <2>3. u.entry = t.entry /\ u.by = t.by /\ u.late = t.late
    BY <2>1, <2>2 DEF Task
  <2>4. UNCHANGED <<pc, at>> BY <1>6 DEF Connects, SpawnFails
  <2> QED BY <2>2, <2>3, <2>4 DEF InSnapshotOrAnnounced
<1>7. ASSUME NEW t \in tasks, Settle(t) PROVE InSnapshotOrAnnounced'
  BY <1>7 DEF Settle, InSnapshotOrAnnounced
<1>8. CASE HeartbeatApply
  BY <1>8 DEF HeartbeatApply, InSnapshotOrAnnounced
<1>9. CASE Outside
  BY <1>9, OutsideFrame DEF InSnapshotOrAnnounced
<1> QED
  BY <1>1, <1>2, <1>3, <1>4, <1>5, <1>6, <1>7, <1>8, <1>9
  DEF Next, Call, Reconcile, SpawnTask, Walks, Outside

-----------------------------------------------------------------------------
(* The per-user cap. *)

\* A subset of a finite set is no larger.
LEMMA Shrinks ==
    ASSUME NEW S, IsFiniteSet(S), NEW T \in SUBSET S
    PROVE  IsFiniteSet(T) /\ Cardinality(T) <= Cardinality(S)
BY FS_Subset

\* One more element makes a finite set larger by at most one.
LEMMA GrowsByOne ==
    ASSUME NEW S, IsFiniteSet(S), NEW x
    PROVE  /\ IsFiniteSet(S \cup {x})
           /\ Cardinality(S \cup {x}) <= Cardinality(S) + 1
<1>1. Cardinality(S) \in Nat BY FS_CardinalityType
<1> QED BY <1>1, FS_AddElement

\* An entry that shrinks on both sides stays within the cap.
LEMMA CapShrinks ==
    ASSUME TypeOK, FiniteBackends, WithinUserCap, TypeOK',
           \A e \in Entries : /\ backends'[e] \subseteq backends[e]
                              /\ connecting'[e] \subseteq connecting[e]
    PROVE  FiniteBackends' /\ WithinUserCap'
<1> SUFFICES ASSUME NEW e \in Entries
             PROVE  /\ IsFiniteSet(backends'[e])
                    /\ Cardinality(backends'[e]) + Cardinality(connecting'[e])
                          <= PerUserCap
    BY DEF FiniteBackends, WithinUserCap
<1>1. IsFiniteSet(backends[e]) /\ IsFiniteSet(connecting[e])
  BY PoolAssumption, FS_Subset DEF FiniteBackends, TypeOK
<1>2. /\ IsFiniteSet(backends'[e]) /\ IsFiniteSet(connecting'[e])
      /\ Cardinality(backends'[e]) <= Cardinality(backends[e])
      /\ Cardinality(connecting'[e]) <= Cardinality(connecting[e])
  BY <1>1, Shrinks
<1>3. /\ Cardinality(backends[e]) \in Nat /\ Cardinality(connecting[e]) \in Nat
      /\ Cardinality(backends'[e]) \in Nat /\ Cardinality(connecting'[e]) \in Nat
  BY <1>1, <1>2, FS_CardinalityType
<1>4. Cardinality(backends[e]) + Cardinality(connecting[e]) <= PerUserCap
  BY DEF WithinUserCap
<1> QED BY <1>2, <1>3, <1>4, PoolAssumption

\* Every step keeps every entry within HUB_MAX_BACKENDS_PER_USER: a claim is made
\* below the cap, and a spawn that joins trades its marker for a backend.
LEMMA CapStep ==
    ASSUME TypeOK, TypeOK', AtEntry, SpawnInv, FiniteBackends, WithinUserCap,
           [Next]_vars
    PROVE  FiniteBackends' /\ WithinUserCap'
<1>1. ASSUME NEW r \in Sess, CallNew(r) PROVE FiniteBackends' /\ WithinUserCap'
  <2>1. \A e \in Entries : /\ backends'[e] \subseteq backends[e]
                           /\ connecting'[e] \subseteq connecting[e]
    BY <1>1 DEF CallNew, TypeOK
  <2> QED BY <2>1, CapShrinks
<1>2. ASSUME NEW r \in Sess, Walks(r) PROVE FiniteBackends' /\ WithinUserCap'
  BY <1>2, WalksFrame, CapShrinks
<1>3. ASSUME NEW r \in Sess, BeginDecide(r)
      PROVE  FiniteBackends' /\ WithinUserCap'
  <2>1. \A e \in Entries : /\ backends'[e] \subseteq backends[e]
                           /\ connecting'[e] \subseteq connecting[e]
    BY <1>3 DEF BeginDecide, TypeOK
  <2> QED BY <2>1, CapShrinks
<1>4. ASSUME NEW r \in Sess, NEW x \in todo[r], DecideClaim(r, x)
      PROVE  FiniteBackends' /\ WithinUserCap'
  <2> DEFINE e == at[r]
  <2>1. e \in Entries BY <1>4 DEF DecideClaim, AtEntry, Binding
  <2>2. /\ backends'[e] \subseteq backends[e]
        /\ connecting'[e] = connecting[e] \cup {x.inst}
        /\ \A f \in Entries \ {e} : /\ backends'[f] = backends[f]
                                    /\ connecting'[f] = connecting[f]
    BY <1>4, <2>1 DEF DecideClaim, TypeOK
  <2>3. IsFiniteSet(backends[e]) /\ IsFiniteSet(connecting[e])
    BY <2>1, PoolAssumption, FS_Subset DEF FiniteBackends, TypeOK
  <2>4. IsFiniteSet(backends'[e])
        /\ Cardinality(backends'[e]) <= Cardinality(backends[e])
    BY <2>2, <2>3, Shrinks
  <2>5. IsFiniteSet(connecting'[e])
        /\ Cardinality(connecting'[e]) <= Cardinality(connecting[e]) + 1
    <3>1. /\ IsFiniteSet(connecting[e] \cup {x.inst})
          /\ Cardinality(connecting[e] \cup {x.inst})
               <= Cardinality(connecting[e]) + 1
      BY <2>3, GrowsByOne
    <3> QED BY <2>2, <3>1
  <2>6. IsFiniteSet(claimed[r])
    <3> DEFINE f == [c \in claimed[r] |-> c.inst]
    <3>1. f \in Injection(claimed[r], Inst)
      <4>1. f \in [claimed[r] -> Inst] BY DEF TypeOK, Backend
      <4>2. IsInjective(f) BY DEF IsInjective, SpawnInv, ClaimsMarked
      <4> QED BY <4>1, <4>2 DEF Injection
    <3> HIDE DEF f
    <3> QED BY <3>1, PoolAssumption, FS_Injection
  <2>7. /\ Cardinality(backends[e]) \in Nat /\ Cardinality(connecting[e]) \in Nat
        /\ Cardinality(backends'[e]) \in Nat /\ Cardinality(connecting'[e]) \in Nat
        /\ Cardinality(claimed[r]) \in Nat
    BY <2>3, <2>4, <2>5, <2>6, FS_CardinalityType
  <2>8. ~(Cardinality(backends[e]) + Cardinality(connecting[e])
            + Cardinality(claimed[r]) >= PerUserCap)
    BY <1>4 DEF DecideClaim, AtUserCap
  <2>9. Cardinality(backends'[e]) + Cardinality(connecting'[e]) <= PerUserCap
    BY <2>4, <2>5, <2>7, <2>8, PoolAssumption
  <2> QED BY <2>1, <2>2, <2>4, <2>9 DEF FiniteBackends, WithinUserCap
<1>5. ASSUME NEW r \in Sess, EndDecide(r) \/ BudgetExpires(r)
      PROVE  FiniteBackends' /\ WithinUserCap'
  BY <1>5 DEF EndDecide, BudgetExpires, FiniteBackends, WithinUserCap
<1>6. ASSUME NEW t \in tasks, Connects(t) \/ SpawnFails(t)
      PROVE  FiniteBackends' /\ WithinUserCap'
  BY <1>6 DEF Connects, SpawnFails, FiniteBackends, WithinUserCap
<1>7. ASSUME NEW t \in tasks, Settle(t) PROVE FiniteBackends' /\ WithinUserCap'
  <2> DEFINE e == t.entry
             i == t.be.inst
  <2>1. e \in Entries BY DEF TypeOK, Task
  <2>2. i \in connecting[e] BY DEF SpawnInv, TasksMarked
  <2>3. /\ backends'[e] \subseteq backends[e] \cup {t.be}
        /\ connecting'[e] = connecting[e] \ {i}
        /\ \A f \in Entries \ {e} : /\ backends'[f] = backends[f]
                                    /\ connecting'[f] = connecting[f]
    BY <1>7, <2>1 DEF Settle, Arrived, TypeOK
  <2>4. IsFiniteSet(backends[e]) /\ IsFiniteSet(connecting[e])
    BY <2>1, PoolAssumption, FS_Subset DEF FiniteBackends, TypeOK
  <2>5. /\ IsFiniteSet(backends[e] \cup {t.be})
        /\ Cardinality(backends[e] \cup {t.be}) <= Cardinality(backends[e]) + 1
    BY <2>4, GrowsByOne
  <2>6. /\ IsFiniteSet(backends'[e])
        /\ Cardinality(backends'[e]) <= Cardinality(backends[e] \cup {t.be})
    BY <2>3, <2>5, Shrinks
  <2>7. /\ IsFiniteSet(connecting'[e])
        /\ Cardinality(connecting'[e]) = Cardinality(connecting[e]) - 1
    <3>1. /\ IsFiniteSet(connecting[e] \ {i})
          /\ Cardinality(connecting[e] \ {i}) = Cardinality(connecting[e]) - 1
      BY <2>2, <2>4, FS_RemoveElement
    <3> QED BY <2>3, <3>1
  <2>8. /\ Cardinality(backends[e]) \in Nat /\ Cardinality(connecting[e]) \in Nat
        /\ Cardinality(backends'[e]) \in Nat /\ Cardinality(connecting'[e]) \in Nat
        /\ Cardinality(backends[e] \cup {t.be}) \in Nat
    BY <2>4, <2>5, <2>6, <2>7, FS_CardinalityType
  <2>9. Cardinality(backends[e]) + Cardinality(connecting[e]) <= PerUserCap
    BY <2>1 DEF WithinUserCap
  <2>10. Cardinality(backends'[e]) + Cardinality(connecting'[e]) <= PerUserCap
    BY <2>5, <2>6, <2>7, <2>8, <2>9, PoolAssumption
  <2> QED BY <2>1, <2>3, <2>6, <2>10 DEF FiniteBackends, WithinUserCap
<1>8. CASE HeartbeatApply
  <2>1. \A e \in Entries : /\ backends'[e] \subseteq backends[e]
                           /\ connecting'[e] \subseteq connecting[e]
    BY <1>8 DEF HeartbeatApply, TypeOK
  <2> QED BY <2>1, CapShrinks
<1>9. CASE Outside
  BY <1>9, OutsideFrame DEF FiniteBackends, WithinUserCap
<1> QED
  BY <1>1, <1>2, <1>3, <1>4, <1>5, <1>6, <1>7, <1>8, <1>9
  DEF Next, Call, Reconcile, Decide, SpawnTask, Walks, Outside

-----------------------------------------------------------------------------
(* The theorems. *)

\* The hub starts with an empty pool, which satisfies the invariant.
LEMMA InitInv == Init => IInv
<1> SUFFICES ASSUME Init PROVE IInv
    OBVIOUS
<1>1. TypeOK BY PoolAssumption DEF Init, TypeOK
<1>2. AtEntry /\ HoldsLocks BY DEF Init, AtEntry, HoldsLocks, Binding
<1>3. SpawnInv
  BY DEF Init, SpawnInv, ClaimsMarked, TasksMarked, NoDuplicateBackends,
         ConnectingIsReal
<1>4. TrackedBackends /\ InSnapshotOrAnnounced
  BY DEF Init, TrackedBackends, InSnapshotOrAnnounced
<1>5. FiniteBackends /\ WithinUserCap
  BY FS_EmptySet, PoolAssumption DEF Init, FiniteBackends, WithinUserCap
<1> QED BY <1>1, <1>2, <1>3, <1>4, <1>5 DEF IInv

\* The invariant is inductive: every step of the pool preserves it.
LEMMA StepInv == IInv /\ [Next]_vars => IInv'
<1> SUFFICES ASSUME IInv, [Next]_vars PROVE IInv'
    OBVIOUS
<1>1. TypeOK' BY TypeStep DEF IInv
<1> QED BY <1>1, LockStep, SpawnStep, TrackedStep, AnnouncedStep, CapStep DEF IInv

\* The inductive invariant holds in every reachable state of the pool.
THEOREM Inductive == Spec => []IInv
BY InitInv, StepInv, PTL DEF Spec

\* The pool's state always has its type.
THEOREM PoolTypes == Spec => []TypeOK
<1>1. IInv => TypeOK BY DEF IInv
<1> QED BY <1>1, Inductive, PTL

\* bind_lock and the connecting set do prevent duplicate backends, whatever the
\* sessions, handlers, crashes and late spawns do.
THEOREM NoDuplicates == Spec => []NoDuplicateBackends
<1>1. IInv => NoDuplicateBackends BY DEF IInv, SpawnInv
<1> QED BY <1>1, Inductive, PTL

\* No connecting marker is ever left behind.
THEOREM MarkersAreReal == Spec => []ConnectingIsReal
<1>1. IInv => ConnectingIsReal BY DEF IInv, SpawnInv
<1> QED BY <1>1, Inductive, PTL

\* is_fresh sees every pooled backend.
THEOREM AllTracked == Spec => []TrackedBackends
<1>1. IInv => TrackedBackends BY DEF IInv
<1> QED BY <1>1, Inductive, PTL

\* No backend falls between a binder's snapshot and its own announcement.
THEOREM NoneSilent == Spec => []InSnapshotOrAnnounced
<1>1. IInv => InSnapshotOrAnnounced BY DEF IInv
<1> QED BY <1>1, Inductive, PTL

\* The per-user cap holds although late spawns join after their bind returned.
THEOREM CapHolds == Spec => []WithinUserCap
<1>1. IInv => WithinUserCap BY DEF IInv
<1> QED BY <1>1, Inductive, PTL

\* exercise_all never drops a respawn that raced in while it was listing.
THEOREM RespawnsSpared == Spec => HeartbeatSparesRespawns
<1>1. ASSUME TypeOK, [Next]_vars, hb.entry # NoEntry, hb'.entry = NoEntry
      PROVE  backends[hb.entry] \ backends'[hb.entry] \subseteq hb.failed
  <2>1. CASE HeartbeatApply
    BY <2>1 DEF HeartbeatApply, StruckOut, TypeOK
  <2>2. CASE ~HeartbeatApply
    <3>1. hb' = hb \/ HeartbeatStart
      <4>1. ASSUME NEW r \in Sess,
                   Call(r) \/ Recheck(r) \/ Reconcile(r) \/ EndUse(r)
            PROVE  hb' = hb
        BY <4>1 DEF Call, Recheck, Reconcile, Decide, CallNew, CallFresh, CallStale,
           RecheckFresh, RecheckStale, EndUse, ListInstances, ListFails,
           SandboxFails, BeginDecide, DecideKeep, DecideSkip, DecideClaim,
           EndDecide, BudgetExpires, BindDone
      <4>2. ASSUME NEW t \in tasks, SpawnTask(t) PROVE hb' = hb
        BY <4>2 DEF SpawnTask, Connects, SpawnFails, Settle
      <4>3. ASSUME NEW h \in web, WebWrite(h) \/ Publish(h) PROVE hb' = hb
        BY <4>3 DEF WebWrite, Publish, WriteFails, WebFails, PublishSet, PublishRestart
      <4>4. ASSUME NEW w \in Web, NEW k \in Kinds, NEW i \in Inst, WebStart(w, k, i)
            PROVE  hb' = hb
        BY <4>4 DEF WebStart
      <4>5. ASSUME NEW e \in Entries, NEW i \in Inst, BackoffElapses(e, i)
            PROVE  hb' = hb
        BY <4>5 DEF BackoffElapses
      <4>6. ASSUME NEW s \in Slots, Crash(s) \/ OtherTakes(s) \/ OtherReturns(s)
            PROVE  hb' = hb
        BY <4>6 DEF Crash, OtherTakes, OtherReturns
      <4>7. ReapIdle \/ UNCHANGED vars => hb' = hb BY DEF ReapIdle, vars
      <4> QED BY <1>1, <2>2, <4>1, <4>2, <4>3, <4>4, <4>5, <4>6, <4>7 DEF Next
    <3> QED BY <1>1, <3>1 DEF HeartbeatStart
  <2> QED BY <2>1, <2>2
<1> QED BY <1>1, PoolTypes, PTL DEF Spec, HeartbeatSparesRespawns
=============================================================================
