----------------------------- MODULE BackendPool -----------------------------
(***************************************************************************)
(* The pool of live backend connections of one user (src/proxy/pool.rs).   *)
(*                                                                         *)
(* A request borrows the pooled backends through backends_for.  When the   *)
(* pooled set is not fresh, one request at a time (bind_lock) reconciles   *)
(* it with the database: it reads the enabled servers, decides under the   *)
(* inner mutex which backends stay, go and must be spawned, starts one     *)
(* detached task per spawn, and waits for them up to the bind budget.      *)
(* Web handlers change the database and only afterwards tell the pool      *)
(* (mark_dirty, bump_reload); the warmer's heartbeat, the idle reaper,     *)
(* crashes of children and the other users of the global slots run beside  *)
(* them.  A step of this module ends where the code awaits, unlocks or     *)
(* lets another thread in.                                                 *)
(*                                                                         *)
(* Abstractions.  Instants become sets: an instance in `cooling` was       *)
(* attempted less than RESPAWN_BACKOFF ago.  A backend is named by the     *)
(* semaphore permit it owns (Backend._permit), so a permit is free exactly *)
(* when nothing references its backend any more, which is Rust's drop.     *)
(* The runtime-status registry, logs and capability snapshots are written  *)
(* by these steps and never read by the pool; they are left out (the       *)
(* snapshot task holds its Arc as a request does).                         *)
(***************************************************************************)
EXTENDS Naturals, FiniteSets

CONSTANTS
    Inst,          \* server instances of the user
    Sess,          \* callers of backends_for: MCP sessions and the warmer
    Warmers,       \* those of them that call again and again: the warmer loop
    Web,           \* web / hub__ handlers that may run at the same time
    Slots,         \* permits of the global semaphore backend_slots
    Entries,       \* identities of UserBackends allocations
    PerUserCap,    \* HUB_MAX_BACKENDS_PER_USER
    MaxStrikes,    \* HEARTBEAT_MAX_STRIKES
    InitialRows,   \* what an instance's row may be at startup
    WebOps,        \* kinds of user operation that are explored
    Sandboxed,     \* HUB_SANDBOX_UID_BASE is set and the hub runs as root
    Reaping,       \* HUB_BACKEND_IDLE_SECS # 0
    DeepWarm,      \* HUB_KEEP_WARM_SECS # 0: heartbeats run
    DbFaults,      \* database calls may fail
    Contended,     \* other users take and return global slots
    MaxEpoch,      \* bound on restarts and edits per instance
    NoEntry, NoSess

Kinds == {"create", "enable", "disable", "delete", "edit", "restart"}

ASSUME PoolAssumption ==
    /\ Warmers \subseteq Sess
    /\ PerUserCap \in Nat
    /\ MaxStrikes \in Nat \ {0}
    /\ MaxEpoch \in Nat
    /\ InitialRows \subseteq {"absent", "off", "on"}
    /\ WebOps \subseteq Kinds
    /\ {Sandboxed, Reaping, DeepWarm, DbFaults, Contended} \subseteq BOOLEAN
    /\ NoEntry \notin Entries
    /\ NoSess \notin Sess
    /\ IsFiniteSet(Inst)
    /\ IsFiniteSet(Slots)

VARIABLES
    \* the database and AppState
    row,           \* row[i]: the instance's row: absent, off, on or deleted
    def,           \* def[i]: version of the definition stored in the row
    epoch,         \* epoch[i]: reload_epochs
    web,           \* the handlers in flight
    \* BackendPool.users and the Inner of every entry
    users, initialized, dirty, backends, tracked, applied, connecting,
    cooling, strikes,
    \* locks
    bindLock,      \* bindLock[e]: the session holding bind_lock
    innerLock,     \* innerLock[e]: the session inside the decide section
    \* the locals of backends_for / reconcile, per session
    pc, at, todo, claimed, snap,
    \* spawn tasks, closed transports, foreign permits, heartbeat pass
    tasks, closed, others, hb,
    \* history, per entry: instances whose change the code let pass
    forgone,       \* a reload stamped as applied with no restart
    overlooked,    \* switched off, and the dirty mark wiped by an older bind
    outdated       \* launched from an edited definition, no restart to come

dbVars   == <<row, def, epoch>>
innerVars == <<initialized, dirty, backends, tracked, applied, connecting,
               cooling, strikes>>
lockVars == <<bindLock, innerLock>>
sessVars == <<pc, at, todo, claimed, snap>>
envVars  == <<closed, others, hb>>
lapses   == <<forgone, overlooked, outdated>>
vars == <<dbVars, web, users, innerVars, lockVars, sessVars, tasks,
          envVars, lapses>>

Row     == [inst : Inst, def : Nat]
Backend == [slot : Slots, inst : Inst, def : Nat, epoch : Nat]
Task    == [entry : Entries, be : Backend, by : Sess, late : BOOLEAN,
            phase : {"spawning", "connected", "failed"}]
Handler == [who : Web, kind : Kinds, inst : Inst, saw : BOOLEAN,
            pc : {"write", "publish"}]

Binding == {"list", "sandbox", "decide", "wait", "finish"}

TypeOK ==
    /\ row \in [Inst -> {"absent", "off", "on", "deleted"}]
    /\ def \in [Inst -> Nat]
    /\ epoch \in [Inst -> Nat]
    /\ web \in SUBSET Handler
    /\ users \in Entries \cup {NoEntry}
    /\ initialized \in [Entries -> BOOLEAN]
    /\ dirty \in [Entries -> BOOLEAN]
    /\ backends \in [Entries -> SUBSET Backend]
    /\ tracked \in [Entries -> SUBSET Inst]
    /\ applied \in [Entries -> [Inst -> Nat]]
    /\ connecting \in [Entries -> SUBSET Inst]
    /\ cooling \in [Entries -> SUBSET Inst]
    /\ strikes \in [Entries -> [Inst -> Nat]]
    /\ bindLock \in [Entries -> Sess \cup {NoSess}]
    /\ innerLock \in [Entries -> Sess \cup {NoSess}]
    /\ pc \in [Sess -> {"idle", "await", "use"} \cup Binding]
    /\ at \in [Sess -> Entries \cup {NoEntry}]
    /\ todo \in [Sess -> SUBSET Row]
    /\ claimed \in [Sess -> SUBSET Backend]
    /\ snap \in [Sess -> SUBSET Slots]
    /\ tasks \in SUBSET Task
    /\ closed \in SUBSET Slots
    /\ others \in SUBSET Slots
    /\ hb \in [entry : Entries \cup {NoEntry}, snap : SUBSET Backend,
               failed : SUBSET Backend]
    /\ forgone \in [Entries -> SUBSET Inst]
    /\ overlooked \in [Entries -> SUBSET Inst]
    /\ outdated \in [Entries -> SUBSET Inst]

-----------------------------------------------------------------------------
(* What the code computes from this state. *)

\* some pooled backend of i has an open transport
Healthy(e, i) ==
    \E b \in backends[e] : b.inst = i /\ b.slot \notin closed

\* last_attempt is absent or older than RESPAWN_BACKOFF
RetryDue(e, i) == i \notin cooling[e]

\* wrong IsFresh: the reload epochs are not compared
IsFreshAnyEpoch(e) ==
    /\ initialized[e] /\ ~dirty[e]
    /\ \A i \in tracked[e] \ connecting[e] : Healthy(e, i) \/ ~RetryDue(e, i)

\* wrong IsFresh: a dead backend does not make the set stale
IsFreshAnyHealth(e) ==
    /\ initialized[e] /\ ~dirty[e]
    /\ \A i \in tracked[e] : applied[e][i] = epoch[i]

\* whether the pooled set can be served without touching the database
IsFresh(e) ==
    /\ initialized[e]
    /\ ~dirty[e]
    /\ \A i \in tracked[e] :
          /\ applied[e][i] = epoch[i]
          /\ (i \notin connecting[e] /\ ~Healthy(e, i)) => ~RetryDue(e, i)

\* an Arc<UserBackends> is still held: by the map, by a request inside
\* backends_for, by a spawn task or by the heartbeat pass
Alive(e) ==
    \/ users = e
    \/ \E r \in Sess : at[r] = e
    \/ \E t \in tasks : t.entry = e
    \/ hb.entry = e

SlotsOf(bs) == {b.slot : b \in bs}

\* permits somebody owns: claimed by a bind, carried by a spawn that has not
\* failed, or inside a backend that a pool entry, a borrow or the heartbeat holds
HeldSlots ==
    UNION ( {others, SlotsOf(hb.snap)}
            \cup {SlotsOf({t.be}) : t \in {u \in tasks : u.phase # "failed"}}
            \cup {SlotsOf(backends[e]) : e \in {x \in Entries : Alive(x)}}
            \cup {SlotsOf(claimed[r]) \cup snap[r] : r \in Sess} )

FreeSlots == Slots \ HeldSlots

\* a step that gives up references: a backend nothing holds any more is dropped
\* with its transport, and its permit returns to the semaphore
DropUnheld == closed' = closed \cap HeldSlots'

\* permits are alike: which free one is taken does not matter
TryAcquire == CHOOSE s \in FreeSlots : TRUE

\* wrong cap test: spawns that are still connecting are not counted
AtUserCapRunning(r, e) ==
    Cardinality(backends[e]) + Cardinality(claimed[r]) >= PerUserCap

\* the per-user cap test.  Claimed instances count in connecting and in to_spawn
AtUserCap(r, e) ==
    Cardinality(backends[e]) + Cardinality(connecting[e])
        + Cardinality(claimed[r]) >= PerUserCap

\* what an entry runs, is starting or is about to start
Fleet(e) ==
    backends[e] \cup {t.be : t \in {u \in tasks : u.entry = e}}
                \cup UNION {claimed[r] : r \in {q \in Sess : at[q] = e}}

\* ... from before i's last reload, or from a definition edited since
RunsOlder(e, i) == \E b \in Fleet(e) : b.inst = i /\ b.epoch # epoch[i]
RunsOutdated(e, i) == \E b \in Fleet(e) : b.inst = i /\ b.def # def[i]

\* a handler has made its change to i and not yet told the pool
Telling(kinds, i) ==
    \E h \in web : h.kind \in kinds /\ h.inst = i /\ h.pc = "publish"

-----------------------------------------------------------------------------
Init ==
    /\ row \in [Inst -> InitialRows]
    /\ def = [i \in Inst |-> 0]
    /\ epoch = [i \in Inst |-> 0]
    /\ web = {}
    /\ users = NoEntry
    /\ initialized = [e \in Entries |-> FALSE]
    /\ dirty = [e \in Entries |-> FALSE]
    /\ backends = [e \in Entries |-> {}]
    /\ tracked = [e \in Entries |-> {}]
    /\ applied = [e \in Entries |-> [i \in Inst |-> 0]]
    /\ connecting = [e \in Entries |-> {}]
    /\ cooling = [e \in Entries |-> {}]
    /\ strikes = [e \in Entries |-> [i \in Inst |-> 0]]
    /\ bindLock = [e \in Entries |-> NoSess]
    /\ innerLock = [e \in Entries |-> NoSess]
    /\ pc = [r \in Sess |-> "idle"]
    /\ at = [r \in Sess |-> NoEntry]
    /\ todo = [r \in Sess |-> {}]
    /\ claimed = [r \in Sess |-> {}]
    /\ snap = [r \in Sess |-> {}]
    /\ tasks = {}
    /\ closed = {}
    /\ others = {}
    /\ hb = [entry |-> NoEntry, snap |-> {}, failed |-> {}]
    /\ forgone = [e \in Entries |-> {}]
    /\ overlooked = [e \in Entries |-> {}]
    /\ outdated = [e \in Entries |-> {}]

-----------------------------------------------------------------------------
(* backends_for: the fast path, and the wait for bind_lock. *)

\* answer r with a snapshot of entry e; the bind lock, if held, is released
Answer(r, e) ==
    /\ pc' = [pc EXCEPT ![r] = "use"]
    /\ at' = [at EXCEPT ![r] = NoEntry]
    /\ snap' = [snap EXCEPT ![r] = SlotsOf(backends[e])]
    /\ bindLock' = IF bindLock[e] = r
                   THEN [bindLock EXCEPT ![e] = NoSess] ELSE bindLock
    /\ todo' = [todo EXCEPT ![r] = {}]
    /\ UNCHANGED <<claimed, innerLock>>

\* the user has no entry: create one (Inner::new is never fresh)
CallNew(r) ==
    /\ pc[r] = "idle"
    /\ users = NoEntry
    /\ \E e \in Entries :
          /\ ~Alive(e)
          /\ users' = e
          /\ initialized' = [initialized EXCEPT ![e] = FALSE]
          /\ dirty' = [dirty EXCEPT ![e] = FALSE]
          /\ backends' = [backends EXCEPT ![e] = {}]
          /\ tracked' = [tracked EXCEPT ![e] = {}]
          /\ applied' = [applied EXCEPT ![e] = [i \in Inst |-> 0]]
          /\ connecting' = [connecting EXCEPT ![e] = {}]
          /\ cooling' = [cooling EXCEPT ![e] = {}]
          /\ strikes' = [strikes EXCEPT ![e] = [i \in Inst |-> 0]]
          /\ forgone' = [forgone EXCEPT ![e] = {}]
          /\ overlooked' = [overlooked EXCEPT ![e] = {}]
          /\ outdated' = [outdated EXCEPT ![e] = {}]
          /\ pc' = [pc EXCEPT ![r] = "await"]
          /\ at' = [at EXCEPT ![r] = e]
    /\ UNCHANGED <<dbVars, web, lockVars, todo, claimed, snap, tasks,
                   envVars>>

\* the hot path: a fresh set is served as it is
CallFresh(r) ==
    /\ pc[r] = "idle"
    /\ users # NoEntry
    /\ innerLock[users] = NoSess
    /\ IsFresh(users)
    /\ Answer(r, users)
    /\ UNCHANGED <<lapses, dbVars, web, users, innerVars, tasks, others, hb>>
    /\ DropUnheld

CallStale(r) ==
    /\ pc[r] = "idle"
    /\ users # NoEntry
    /\ innerLock[users] = NoSess
    /\ ~IsFresh(users)
    /\ pc' = [pc EXCEPT ![r] = "await"]
    /\ at' = [at EXCEPT ![r] = users]
    /\ UNCHANGED <<lapses, dbVars, web, users, innerVars, lockVars, todo,
                   claimed, snap, tasks, envVars>>

\* bind_lock acquired; somebody else's bind made the set fresh meanwhile
RecheckFresh(r) ==
    /\ pc[r] = "await"
    /\ bindLock[at[r]] = NoSess
    /\ IsFresh(at[r])
    /\ Answer(r, at[r])
    /\ UNCHANGED <<lapses, dbVars, web, users, innerVars, tasks, others, hb>>
    /\ DropUnheld

RecheckStale(r) ==
    /\ pc[r] = "await"
    /\ bindLock[at[r]] = NoSess
    /\ ~IsFresh(at[r])
    /\ bindLock' = [bindLock EXCEPT ![at[r]] = r]
    /\ pc' = [pc EXCEPT ![r] = "list"]
    /\ UNCHANGED <<lapses, dbVars, web, users, innerVars, innerLock, at, todo,
                   claimed, snap, tasks, envVars>>

\* the caller drops its borrowed Arcs
EndUse(r) ==
    /\ pc[r] = "use"
    /\ pc' = [pc EXCEPT ![r] = "idle"]
    /\ snap' = [snap EXCEPT ![r] = {}]
    /\ UNCHANGED <<lapses, dbVars, web, users, innerVars, lockVars, at, todo,
                   claimed, tasks, others, hb>>
    /\ DropUnheld

-----------------------------------------------------------------------------
(* reconcile, by the session that holds bind_lock. *)

\* the enabled instances and their definitions, as the database has them now
ListInstances(r) ==
    /\ pc[r] = "list"
    /\ todo' = [todo EXCEPT ![r] = {[inst |-> i, def |-> def[i]] :
                                       i \in {j \in Inst : row[j] = "on"}}]
    /\ pc' = [pc EXCEPT ![r] = "sandbox"]
    /\ UNCHANGED <<lapses, dbVars, web, users, innerVars, lockVars, at,
                   claimed, snap, tasks, envVars>>

Listed(r) == {x.inst : x \in todo[r]}

\* the list failed: the entry is left untouched, the next request retries
ListFails(r) ==
    /\ DbFaults
    /\ pc[r] = "list"
    /\ Answer(r, at[r])
    /\ UNCHANGED <<lapses, dbVars, web, users, innerVars, tasks, others, hb>>
    /\ DropUnheld

\* sandbox_or_fail failed: spawn nothing, stamp every enabled instance
SandboxFails(r) ==
    /\ Sandboxed
    /\ pc[r] = "sandbox"
    /\ LET e == at[r]
       IN  /\ dirty' = [dirty EXCEPT ![e] = FALSE]
           /\ initialized' = [initialized EXCEPT ![e] = TRUE]
           /\ tracked' = [tracked EXCEPT ![e] = @ \cup Listed(r)]
           /\ applied' = [applied EXCEPT
                ![e] = [i \in Inst |->
                          IF i \in Listed(r) THEN epoch[i] ELSE applied[e][i]]]
           /\ cooling' = [cooling EXCEPT ![e] = @ \cup Listed(r)]
           /\ forgone' = [forgone EXCEPT
                ![e] = @ \cup {i \in Listed(r) : RunsOlder(e, i)}]
           /\ overlooked' = [overlooked EXCEPT
                ![e] = @ \cup {i \in {b.inst : b \in Fleet(e)} :
                                 dirty[e] /\ row[i] # "on"}]
           /\ Answer(r, e)
    /\ UNCHANGED <<dbVars, web, users, backends, connecting, strikes, tasks,
                   others, hb, outdated>>
    /\ DropUnheld

\* the decide section opens: forget what is no longer enabled
BeginDecide(r) ==
    /\ pc[r] = "sandbox"
    /\ LET e == at[r]
       IN  /\ innerLock[e] = NoSess
           /\ innerLock' = [innerLock EXCEPT ![e] = r]
           /\ dirty' = [dirty EXCEPT ![e] = FALSE]
           /\ backends' = [backends EXCEPT
                             ![e] = {b \in @ : b.inst \in Listed(r)}]
           /\ tracked' = [tracked EXCEPT ![e] = @ \cap Listed(r)]
           /\ applied' = [applied EXCEPT
                ![e] = [i \in Inst |->
                          IF i \in Listed(r) THEN applied[e][i] ELSE 0]]
           /\ strikes' = [strikes EXCEPT
                ![e] = [i \in Inst |->
                          IF i \in Listed(r) THEN strikes[e][i] ELSE 0]]
           /\ overlooked' = [overlooked EXCEPT
                ![e] = {i \in Listed(r) : dirty[e] /\ row[i] # "on"}]
    /\ pc' = [pc EXCEPT ![r] = "decide"]
    /\ UNCHANGED <<dbVars, web, users, initialized, connecting, cooling,
                   bindLock, at, todo, claimed, snap, tasks, others, hb,
                   forgone, outdated>>
    /\ DropUnheld

EpochOk(e, i) == i \in tracked[e] /\ applied[e][i] = epoch[i]

\* wrong Keeps: an instance that is already connecting is looked at again
KeepsSettled(e, i) == EpochOk(e, i) /\ (Healthy(e, i) \/ ~RetryDue(e, i))

\* one iteration keeps i as it is: on its way, healthy, or backing off
Keeps(e, i) ==
    \/ i \in connecting[e]
    \/ EpochOk(e, i) /\ (Healthy(e, i) \/ ~RetryDue(e, i))

DecideKeep(r, x) ==
    /\ pc[r] = "decide"
    /\ x \in todo[r]
    /\ Keeps(at[r], x.inst)
    /\ todo' = [todo EXCEPT ![r] = @ \ {x}]
    /\ UNCHANGED <<lapses, dbVars, web, users, innerVars, lockVars, pc, at,
                   claimed, snap, tasks, envVars>>

\* the stamp every attempt and every skip leaves: applied_epochs, last_attempt
Stamp(e, i) ==
    /\ tracked' = [tracked EXCEPT ![e] = @ \cup {i}]
    /\ applied' = [applied EXCEPT ![e][i] = epoch[i]]
    /\ cooling' = [cooling EXCEPT ![e] = @ \cup {i}]

\* one iteration finds no capacity, the user's own or the hub's
DecideSkip(r, x) ==
    /\ pc[r] = "decide"
    /\ x \in todo[r]
    /\ ~Keeps(at[r], x.inst)
    /\ AtUserCap(r, at[r]) \/ FreeSlots = {}
    /\ Stamp(at[r], x.inst)
    /\ forgone' = IF RunsOlder(at[r], x.inst)
                  THEN [forgone EXCEPT ![at[r]] = @ \cup {x.inst}]
                  ELSE forgone
    /\ todo' = [todo EXCEPT ![r] = @ \ {x}]
    /\ UNCHANGED <<dbVars, web, users, initialized, dirty, backends,
                   connecting, strikes, lockVars, pc, at, claimed, snap,
                   tasks, envVars, overlooked, outdated>>

\* one iteration takes a permit, then drops the instance's stale or dead
\* backend (the one `position` finds: there is at most one)
DecideClaim(r, x) ==
    /\ pc[r] = "decide"
    /\ x \in todo[r]
    /\ ~Keeps(at[r], x.inst)
    /\ ~AtUserCap(r, at[r])
    /\ FreeSlots # {}
    /\ LET e == at[r]
           i == x.inst
       IN  /\ claimed' = [claimed EXCEPT ![r] = @ \cup
                 {[slot |-> TryAcquire, inst |-> i, def |-> x.def,
                   epoch |-> epoch[i]]}]
           /\ backends' = [backends EXCEPT ![e] = {b \in @ : b.inst # i}]
           /\ Stamp(e, i)
           /\ strikes' = [strikes EXCEPT ![e][i] = 0]
           /\ connecting' = [connecting EXCEPT ![e] = @ \cup {i}]
           /\ forgone' = [forgone EXCEPT ![e] = @ \ {i}]
           /\ outdated' = [outdated EXCEPT
                ![e] = IF x.def = def[i] \/ Telling({"edit"}, i)
                       THEN @ \ {i} ELSE @ \cup {i}]
    /\ todo' = [todo EXCEPT ![r] = @ \ {x}]
    /\ UNCHANGED <<dbVars, web, users, initialized, dirty, lockVars, pc, at,
                   snap, tasks, others, hb, overlooked>>
    /\ DropUnheld

\* the section closes: one detached task per claim
EndDecide(r) ==
    /\ pc[r] = "decide"
    /\ todo[r] = {}
    /\ innerLock' = [innerLock EXCEPT ![at[r]] = NoSess]
    /\ tasks' = tasks \cup
          {[entry |-> at[r], be |-> c, by |-> r, late |-> FALSE,
            phase |-> "spawning"] : c \in claimed[r]}
    /\ claimed' = [claimed EXCEPT ![r] = {}]
    /\ pc' = [pc EXCEPT ![r] = "wait"]
    /\ UNCHANGED <<lapses, dbVars, web, users, innerVars, bindLock, at, todo,
                   snap, envVars>>

Pending(r) == {t \in tasks : t.by = r /\ ~t.late}

\* wrong timeouts: stragglers are not flagged; there is no budget at all
BudgetExpiresSilently(r) ==
    /\ pc[r] = "wait"
    /\ Pending(r) # {}
    /\ pc' = [pc EXCEPT ![r] = "finish"]
    /\ UNCHANGED <<lapses, dbVars, web, users, innerVars, lockVars, at, todo,
                   claimed, snap, tasks, envVars>>

BudgetNever(r) == FALSE

\* the bind budget runs out: the stragglers will announce themselves
BudgetExpires(r) ==
    /\ pc[r] = "wait"
    /\ Pending(r) # {}
    /\ tasks' = (tasks \ Pending(r))
                  \cup {[t EXCEPT !.late = TRUE] : t \in Pending(r)}
    /\ pc' = [pc EXCEPT ![r] = "finish"]
    /\ UNCHANGED <<lapses, dbVars, web, users, innerVars, lockVars, at, todo,
                   claimed, snap, envVars>>

\* the bind ends: every task is done, or the budget ran out.  The two brief lock
\* sections, initialized and the caller's final clone, are one step
BindDone(r) ==
    /\ \/ pc[r] = "wait" /\ Pending(r) = {}
       \/ pc[r] = "finish"
    /\ initialized' = [initialized EXCEPT ![at[r]] = TRUE]
    /\ Answer(r, at[r])
    /\ UNCHANGED <<lapses, dbVars, web, users, dirty, backends, tracked,
                   applied, connecting, cooling, strikes, tasks, others, hb>>
    /\ DropUnheld

-----------------------------------------------------------------------------
(* The detached spawn task of reconcile. *)

\* spawn_one: the handshake completed
Connects(t) ==
    /\ t.phase = "spawning"
    /\ tasks' = (tasks \ {t}) \cup {[t EXCEPT !.phase = "connected"]}
    /\ UNCHANGED <<lapses, dbVars, web, users, innerVars, lockVars, sessVars,
                   envVars>>

\* spawn_one: any failure; the permit is dropped with the attempt
SpawnFails(t) ==
    /\ t.phase = "spawning"
    /\ tasks' = (tasks \ {t}) \cup {[t EXCEPT !.phase = "failed"]}
    /\ UNCHANGED <<lapses, dbVars, web, users, innerVars, lockVars, sessVars,
                   envVars>>

\* wrong Joins: the instance may have been disabled while it was connecting
JoinsAlways(t) == t.phase = "connected"

\* the new backend enters the pool unless its instance is no longer tracked
Joins(t) == t.phase = "connected" /\ t.be.inst \in tracked[t.entry]

\* wrong Arrived: only a backend that joins clears its connecting marker
ArrivedIfJoins(t) ==
    connecting' = IF Joins(t)
                  THEN [connecting EXCEPT ![t.entry] = @ \ {t.be.inst}]
                  ELSE connecting

Arrived(t) == connecting' = [connecting EXCEPT ![t.entry] = @ \ {t.be.inst}]

\* the task joins the pool; an untracked instance's backend is dropped
Settle(t) ==
    /\ t.phase # "spawning"
    /\ innerLock[t.entry] = NoSess
    /\ tasks' = tasks \ {t}
    /\ Arrived(t)
    /\ \/ Joins(t) /\ backends' = [backends EXCEPT ![t.entry] = @ \cup {t.be}]
       \/ ~Joins(t) /\ UNCHANGED backends
    /\ UNCHANGED <<lapses, dbVars, web, users, initialized, dirty, tracked,
                   applied, cooling, strikes, lockVars, sessVars, others, hb>>
    /\ DropUnheld

-----------------------------------------------------------------------------
(* Web and hub__ handlers: read the row, write the database, tell the pool. *)

\* get_owned: the handler works from the row as it is now; create makes a new id
WebStart(w, k, i) ==
    /\ \A h \in web : h.who # w
    /\ k \in WebOps
    /\ IF k = "create"
       THEN row[i] = "absent" /\ \A h \in web : h.inst # i
       ELSE row[i] \in {"on", "off"}
    /\ k \in {"edit", "restart"} => epoch[i] < MaxEpoch /\ def[i] < MaxEpoch
    /\ web' = web \cup {[who |-> w, kind |-> k, inst |-> i,
                         saw |-> row[i] = "on", pc |-> "write"]}
    /\ UNCHANGED <<lapses, dbVars, users, innerVars, lockVars, sessVars,
                   tasks, envVars>>

\* the handlers' writes; an UPDATE or DELETE of a row that is gone does nothing
Present(i) == row[i] \in {"on", "off"}

CreateServer(h) ==
    /\ h.kind = "create"
    /\ row' = [row EXCEPT ![h.inst] = "on"]
    /\ UNCHANGED def

SetEnabled(h) ==
    /\ h.kind \in {"enable", "disable"}
    /\ row' = IF Present(h.inst)
              THEN [row EXCEPT ![h.inst] = IF h.kind = "enable" THEN "on" ELSE "off"]
              ELSE row
    /\ UNCHANGED def

DeleteServer(h) ==
    /\ h.kind = "delete"
    /\ row' = IF Present(h.inst) THEN [row EXCEPT ![h.inst] = "deleted"] ELSE row
    /\ UNCHANGED def

SaveConfig(h) ==
    /\ h.kind = "edit"
    /\ def' = IF Present(h.inst) THEN [def EXCEPT ![h.inst] = @ + 1] ELSE def
    /\ UNCHANGED row

\* the Restart button writes nothing
RestartServer(h) == h.kind = "restart" /\ UNCHANGED <<row, def>>

WebWrite(h) ==
    /\ h.pc = "write"
    /\ \/ CreateServer(h) \/ SetEnabled(h) \/ DeleteServer(h)
       \/ SaveConfig(h) \/ RestartServer(h)
    /\ web' = (web \ {h}) \cup {[h EXCEPT !.pc = "publish"]}
    /\ UNCHANGED <<lapses, epoch, users, innerVars, lockVars, sessVars, tasks,
                   envVars>>

\* the write itself fails: an error answer, but the web pages that enable,
\* disable and delete ignore the error and tell the pool all the same
WriteFails(h) ==
    /\ DbFaults
    /\ h.pc = "write"
    /\ h.kind # "restart"
    /\ \/ web' = web \ {h}
       \/ /\ h.kind \in {"enable", "disable", "delete"}
          /\ web' = (web \ {h}) \cup {[h EXCEPT !.pc = "publish"]}
    /\ UNCHANGED <<lapses, dbVars, users, innerVars, lockVars, sessVars,
                   tasks, envVars>>

\* what runs from before the edit is not restarted for it
Untold(h) ==
    outdated' = [e \in Entries |->
                   IF h.kind = "edit" /\ RunsOutdated(e, h.inst)
                   THEN outdated[e] \cup {h.inst} ELSE outdated[e]]

\* a later write of the same handler fails (env, config file): error page,
\* and the pool is never told
WebFails(h) ==
    /\ DbFaults
    /\ h.pc = "publish"
    /\ h.kind \in {"create", "edit"}
    /\ web' = web \ {h}
    /\ Untold(h)
    /\ UNCHANGED <<dbVars, users, innerVars, lockVars, sessVars, tasks,
                   envVars, forgone, overlooked>>

\* wrong mark_dirty: nobody is told
MarkNothing == UNCHANGED dirty

\* mark_dirty; a user without an entry needs nothing
MarkDirty ==
    IF users = NoEntry
    THEN UNCHANGED dirty
    ELSE innerLock[users] = NoSess /\ dirty' = [dirty EXCEPT ![users] = TRUE]

\* wrong BumpReload: the counter moves the other way
BumpReloadDown(i) == epoch' = [epoch EXCEPT ![i] = @ - 1]

\* wrong BumpReload: a server that was never reloaded is left alone
BumpReloadLater(i) ==
    epoch' = [epoch EXCEPT ![i] = IF @ = 0 THEN 0 ELSE @ + 1]

BumpReload(i) == epoch' = [epoch EXCEPT ![i] = @ + 1]

\* the server set changed: mark_dirty, then notify the user's clients
PublishSet(h) ==
    /\ h.pc = "publish"
    /\ h.kind \in {"create", "enable", "disable", "delete"}
    /\ MarkDirty
    /\ web' = web \ {h}
    /\ UNCHANGED <<lapses, dbVars, users, initialized, backends, tracked,
                   applied, connecting, cooling, strikes, lockVars, sessVars,
                   tasks, envVars>>

\* the server itself changed: restart_backend, unless an edit saw it disabled
PublishRestart(h) ==
    /\ h.pc = "publish"
    /\ h.kind \in {"edit", "restart"}
    /\ IF h.kind = "restart" \/ h.saw
       THEN BumpReload(h.inst) /\ UNCHANGED outdated
       ELSE /\ UNCHANGED epoch
            /\ Untold(h)
    /\ web' = web \ {h}
    /\ UNCHANGED <<row, def, users, innerVars, lockVars, sessVars, tasks,
                   envVars, forgone, overlooked>>

-----------------------------------------------------------------------------
(* The warmer's heartbeat, the reaper, and the world outside. *)

\* exercise_all clones the pooled backends and lists each one's tools: a closed
\* transport always fails, an open one may (a timeout)
HeartbeatStart ==
    /\ DeepWarm
    /\ hb.entry = NoEntry
    /\ users # NoEntry
    /\ innerLock[users] = NoSess
    /\ \E failed \in SUBSET backends[users] :
          /\ \A b \in backends[users] : b.slot \in closed => b \in failed
          /\ hb' = [entry |-> users, snap |-> backends[users],
                    failed |-> failed]
    /\ UNCHANGED <<lapses, dbVars, web, users, innerVars, lockVars, sessVars,
                   tasks, closed, others>>

OutOfStrikes(e, i) == strikes[e][i] + 1 >= MaxStrikes

\* wrong StruckOut: whatever the pool now holds for the failing instance
StruckOutInst(e) ==
    {b \in backends[e] : OutOfStrikes(e, b.inst)
                            /\ \E f \in hb.failed : f.inst = b.inst}

\* the backends a heartbeat pass gives up on: exactly the Arcs it listed
StruckOut(e) == {b \in hb.failed : OutOfStrikes(e, b.inst)}

\* ... and records the strikes; the last one drops the backend
HeartbeatApply ==
    /\ hb.entry # NoEntry
    /\ innerLock[hb.entry] = NoSess
    /\ LET e == hb.entry
       IN  /\ strikes' = [strikes EXCEPT ![e] = [i \in Inst |->
                 IF \E b \in hb.failed : b.inst = i
                 THEN IF OutOfStrikes(e, i) THEN 0 ELSE strikes[e][i] + 1
                 ELSE IF \E b \in hb.snap : b.inst = i
                      THEN 0 ELSE strikes[e][i]]]
           /\ backends' = [backends EXCEPT ![e] = @ \ StruckOut(e)]
    /\ hb' = [entry |-> NoEntry, snap |-> {}, failed |-> {}]
    /\ UNCHANGED <<lapses, dbVars, web, users, initialized, dirty, tracked,
                   applied, connecting, cooling, lockVars, sessVars, tasks,
                   others>>
    /\ DropUnheld

\* reap_idle drops the user's entry from the map
ReapIdle ==
    /\ Reaping
    /\ users # NoEntry
    /\ innerLock[users] = NoSess
    /\ users' = NoEntry
    /\ UNCHANGED <<lapses, dbVars, web, innerVars, lockVars, sessVars, tasks,
                   others, hb>>
    /\ DropUnheld

\* RESPAWN_BACKOFF elapses for i
BackoffElapses(e, i) ==
    /\ Alive(e)
    /\ i \in cooling[e]
    /\ cooling' = [cooling EXCEPT ![e] = @ \ {i}]
    /\ UNCHANGED <<lapses, dbVars, web, users, initialized, dirty, backends,
                   tracked, applied, connecting, strikes, lockVars, sessVars,
                   tasks, envVars>>

\* a connected backend's transport closes (the child died)
Crash(s) ==
    /\ s \notin closed
    /\ \/ \E e \in Entries : Alive(e) /\ s \in SlotsOf(backends[e])
       \/ \E t \in tasks : t.phase = "connected" /\ t.be.slot = s
    /\ closed' = closed \cup {s}
    /\ UNCHANGED <<lapses, dbVars, web, users, innerVars, lockVars, sessVars,
                   tasks, others, hb>>

\* another user's pool takes or returns a global slot
OtherTakes(s) ==
    /\ Contended
    /\ s \in FreeSlots
    /\ others' = others \cup {s}
    /\ UNCHANGED <<lapses, dbVars, web, users, innerVars, lockVars, sessVars,
                   tasks, closed, hb>>

OtherReturns(s) ==
    /\ s \in others
    /\ others' = others \ {s}
    /\ UNCHANGED <<lapses, dbVars, web, users, innerVars, lockVars, sessVars,
                   tasks, closed, hb>>

-----------------------------------------------------------------------------
Call(r) == CallNew(r) \/ CallFresh(r) \/ CallStale(r)

Recheck(r) == RecheckFresh(r) \/ RecheckStale(r)

Decide(r) == \E x \in todo[r] :
    DecideKeep(r, x) \/ DecideSkip(r, x) \/ DecideClaim(r, x)

Reconcile(r) ==
    \/ ListInstances(r) \/ ListFails(r) \/ SandboxFails(r)
    \/ BeginDecide(r) \/ Decide(r) \/ EndDecide(r)
    \/ BudgetExpires(r) \/ BindDone(r)

SpawnTask(t) == Connects(t) \/ SpawnFails(t) \/ Settle(t)

Publish(h) == WriteFails(h) \/ WebFails(h) \/ PublishSet(h) \/ PublishRestart(h)

Next ==
    \/ \E r \in Sess : Call(r) \/ Recheck(r) \/ Reconcile(r) \/ EndUse(r)
    \/ \E t \in tasks : SpawnTask(t)
    \/ \E w \in Web, k \in Kinds, i \in Inst : WebStart(w, k, i)
    \/ \E h \in web : WebWrite(h) \/ Publish(h)
    \/ HeartbeatStart \/ HeartbeatApply \/ ReapIdle
    \/ \E e \in Entries, i \in Inst : BackoffElapses(e, i)
    \/ \E s \in Slots : Crash(s) \/ OtherTakes(s) \/ OtherReturns(s)

Spec == Init /\ [][Next]_vars

-----------------------------------------------------------------------------
(* Safety. *)

\* An instance never has two backends in an entry, nor a backend beside a spawn
\* on its way, nor two spawns: bind_lock and the connecting set are there so
\* that concurrent sessions never spawn duplicates (pool.rs UserBackends).
NoDuplicateBackends ==
    /\ \A e \in Entries : \A b \in backends[e] :
          /\ b.inst \notin connecting[e]
          /\ \A c \in backends[e] : b.inst = c.inst => b = c
    /\ \A t, u \in tasks :
          t.entry = u.entry /\ t.be.inst = u.be.inst => t = u

\* Every pooled backend is tracked in applied_epochs.  is_fresh scans only that
\* map, so an untracked backend would never be restarted or respawned.
TrackedBackends ==
    \A e \in Entries : \A b \in backends[e] : b.inst \in tracked[e]

\* A connecting marker always has a spawn behind it, or a claim about to become
\* one.  is_fresh and reconcile pass over a connecting instance, so a marker
\* nobody clears would keep the server down until the hub restarts.
ConnectingIsReal ==
    \A e \in Entries : \A i \in connecting[e] :
        \/ \E t \in tasks : t.entry = e /\ t.be.inst = i
        \/ \E r \in Sess : at[r] = e /\ \E c \in claimed[r] : c.inst = i

\* What an entry runs or is starting stays within HUB_MAX_BACKENDS_PER_USER,
\* late arrivals of earlier binds included.
WithinUserCap ==
    \A e \in Entries :
        Cardinality(backends[e]) + Cardinality(connecting[e]) <= PerUserCap

\* A spawn whose late flag is unset still has its binder waiting for it, so the
\* backend makes the binder's snapshot; every other one announces itself.
InSnapshotOrAnnounced ==
    \A t \in tasks : ~t.late => pc[t.by] = "wait" /\ at[t.by] = t.entry

\* A heartbeat pass removes only the very backends whose tools/list failed, not
\* a respawn that came in while it was listing (exercise_all).
HeartbeatSparesRespawns ==
    [][(hb.entry # NoEntry /\ hb'.entry = NoEntry)
       => backends[hb.entry] \ backends'[hb.entry] \subseteq hb.failed]_vars

\* A Restart reaches the child (restart_backend: "relaunch its pooled backend on
\* the next request"): a set served on the hot path holds no backend older than
\* the last reload of its instance, except where a skip for lack of room or a
\* failing sandbox stamped the reload as applied.
RestartHonoured ==
    (users # NoEntry /\ IsFresh(users)) =>
        \A b \in backends[users] :
            b.epoch = epoch[b.inst] \/ b.inst \in forgone[users]

\* A disabled or deleted server goes (Inner.dirty: "the next request must
\* reconcile against the DB"): the hot path serves it only until its handler has
\* told the pool, except where a bind that had listed it, or a failing sandbox,
\* wiped the mark.
DisableHonoured ==
    (users # NoEntry /\ IsFresh(users)) =>
        \A b \in backends[users] :
            \/ row[b.inst] = "on"
            \/ Telling({"disable", "delete"}, b.inst)
            \/ b.inst \in overlooked[users]

\* An edit reaches the child (save_config ends in restart_backend): what the hot
\* path serves was launched from the stored definition, or the handler has yet
\* to tell, except where the reload was forgone, a bind launched a definition it
\* had read before the edit, or the handler told nobody.
EditHonoured ==
    (users # NoEntry /\ IsFresh(users)) =>
        \A b \in backends[users] :
            \/ b.def = def[b.inst]
            \/ Telling({"edit"}, b.inst)
            \/ b.inst \in forgone[users] \cup outdated[users]

\* the state of Supervisor that a state of the pool stands for
StageOf(e, i) ==
    IF i \in connecting[e] THEN "starting"
    ELSE IF \E b \in backends[e] : b.inst = i THEN "up" ELSE "down"

Mates(e, i) == {b \in Fleet(e) : b.inst = i}

RunsOf(e, i) == {b.epoch : b \in Mates(e, i)}

Stage == [e \in Entries |-> [i \in Inst |-> StageOf(e, i)]]

Runs == [e \in Entries |-> [i \in Inst |-> RunsOf(e, i)]]

Promise == INSTANCE Supervisor WITH
    Cap <- PerUserCap, version <- epoch, stage <- Stage, runs <- Runs

\* Every behaviour of the pool, whatever its sessions, handlers, late spawns,
\* crashes and heartbeats do, is one of Supervisor: one child per server, never
\* launched beside one that is starting, never over HUB_MAX_BACKENDS_PER_USER,
\* and always at the epoch the server has when it is claimed (reconcile).
ImplementsSupervisor == Promise!Spec

\* Nothing is under way: no handler, no bind, no spawn.
Quiet ==
    /\ web = {}
    /\ tasks = {}
    /\ \A r \in Sess : pc[r] \in {"idle", "use"}

\* After a change of the server set "the next request must reconcile against the
\* DB" (pool.rs, Inner.dirty): once all is quiet, the hot path serves no backend
\* of an instance that is disabled or deleted.
DisabledNotServed ==
    (Quiet /\ users # NoEntry /\ IsFresh(users)) =>
        \A b \in backends[users] : row[b.inst] = "on"

\* restart_backend exists so that no healthy child "keeps serving the old
\* code/config until the hub restarts" (lib.rs): once all is quiet, what the hot
\* path serves was launched from the definition the database holds.
DefinitionCurrent ==
    (Quiet /\ users # NoEntry /\ IsFresh(users)) =>
        \A b \in backends[users] : b.slot \notin closed => b.def = def[b.inst]

-----------------------------------------------------------------------------
(* Liveness. *)

\* What the scheduling guarantees.  A request that holds bind_lock keeps going:
\* its calls return and the budget timer fires.  bind_lock is a FIFO mutex, so a
\* waiter is not overtaken for ever.  Callers drop their borrows, backoffs run
\* out, and the warmer calls every minute and, with DeepWarm, keeps making its
\* heartbeat passes: the inner mutex is held briefly, so it gets it in the end.
\* Nothing is assumed of the spawned servers: they may hang, fail or crash.
Fairness ==
    /\ \A r \in Sess :
          /\ WF_vars(Reconcile(r))
          /\ SF_vars(Recheck(r))
          /\ WF_vars(EndUse(r))
          /\ r \in Warmers => WF_vars(Call(r))
    /\ \A e \in Entries, i \in Inst : WF_vars(BackoffElapses(e, i))
    /\ SF_vars(HeartbeatStart)
    /\ SF_vars(HeartbeatApply)

FairSpec == Spec /\ Fairness

\* Every call of backends_for returns, however slow or stuck the servers are:
\* the promise of the bind budget.
RequestAnswered ==
    \A r \in Sess : pc[r] \in {"await"} \cup Binding ~> pc[r] = "use"

\* "Crashed backends respawn on their own" (README, HUB_KEEP_WARM): an enabled
\* instance is always again running or being started.
EnabledComesBack ==
    \A i \in Inst :
        row[i] = "on" ~>
            \/ row[i] # "on"
            \/ users # NoEntry /\ (i \in connecting[users] \/ Healthy(users, i))
=============================================================================
