----------------------------- MODULE GitServers -----------------------------
(***************************************************************************)
(* The git-sourced servers of one user: how an environment is built,       *)
(* swapped in, recorded, launched and removed (src/gitsrc.rs, gitcreds.rs, *)
(* the handlers of web.rs and management.rs, the launch half of            *)
(* proxy/pool.rs and proxy/backend.rs, status.rs).                         *)
(*                                                                         *)
(* "Update from repository" and a healing "Test connection" read the       *)
(* instance's row, queue on build_lock, resolve the branch, check it out,  *)
(* build into a scratch directory, remove the old environment, rename the  *)
(* new one into place and record the commit.  Deleting a server or a user, *)
(* enabling and disabling, and the pool's launches take no part in that    *)
(* lock.  A step ends where the handler awaits, and may be dropped with    *)
(* its request, or where another thread can see the disk between two       *)
(* calls.                                                                  *)
(*                                                                         *)
(* Abstractions.  Directories are what they hold: a build or a checkout is *)
(* the set of commits whose files it contains, and a build may be torn.    *)
(* The branch may move at any time, so ls-remote answers with any commit.  *)
(* git, uv and go are external: they succeed, fail or time out.  Steps     *)
(* that BackendPool takes apart (enable, disable, reconcile) are single    *)
(* ones here: `owed` is a restart the pool has been told of and has not    *)
(* yet carried out.                                                        *)
(***************************************************************************)
EXTENDS Naturals, FiniteSets

CONSTANTS
    Inst,          \* git-sourced instances of the user
    Commit,        \* commits the branch can name
    Handler,       \* web and hub__ handlers that may run at the same time
    MaxOps,        \* bound on user operations
    MaxLapses,     \* bound on what goes wrong: steps of git, uv, go, the disk or
                   \* the database that fail or time out, dropped requests, crashes
    None, Spoiled

\* an environment on disk
Build == [of : SUBSET Commit, whole : BOOLEAN, legacy : BOOLEAN]

ASSUME GitAssumption ==
    /\ None \notin Commit \cup Handler \cup Inst
    /\ None \notin Build
    /\ Spoiled \notin Commit \cup {None}
    /\ Inst \cap Handler = {}
    /\ Commit # {}
    /\ {MaxOps, MaxLapses} \subseteq Nat

VARIABLES
    \* the database
    row,           \* row[i]: the instance is off, on or gone
    status, built, \* build_status and built_commit
    config,        \* instances with a config file attached
    cred,          \* the user's credential for the repository's host, if any, can be
                   \* opened, or cannot
    \* the disk
    env,           \* env[i]: the environment that launches use
    src, building, \* src[i] and building[i]: the commits in .<id>.src and in
                   \* .<id>.building, {} if absent
    home, workdir, \* instances whose HOME and config-file directory exist
    \* the handlers
    lock, op, pc, inst, saw, commit,
    \* the pool and the status registry
    spawn,         \* spawn[i]: how far a launch of i has come
    fit,           \* instances whose row said ready when the launch began
    loaded,        \* launches (by instance) and probes (by handler) that have
                   \* read a config file and not yet written their copy
    child,         \* child[i]: the commits the running server was started from
    owed,          \* instances whose restart the pool has been told of
    shown,         \* instances with an entry in the status registry
    strays,        \* tools that outlived their handler, and where they write
    ops, lapses,   \* operations and lapses so far
    \* history: environments whose record a fault prevented, rebuilds that no
    \* path of the code announces, files written after a removal or left by one,
    \* builds that a tool which outlived its handler wrote into, or that began in
    \* a directory that could not be removed
    unrecorded, missed, late, mixed

dbVars   == <<row, status, built, config, cred>>
diskVars == <<env, src, building, home, workdir>>
hanVars  == <<lock, op, pc, inst, saw, commit>>
poolVars == <<spawn, fit, loaded, child, owed, shown>>
histVars == <<unrecorded, missed, late, mixed>>
bounds == <<ops, lapses>>
vars == <<dbVars, diskVars, hanVars, poolVars, strays, bounds, histVars>>

\* what a handler keeps of the row it read
Seen == [on : BOOLEAN, ready : BOOLEAN, built : Commit \cup {None}]

\* the steps at which a handler holds build_lock
Building ==
    {"resolve", "clone", "tool", "install", "record", "announce", "failed"}

TypeOK ==
    /\ row \in [Inst -> {"off", "on", "gone"}]
    /\ status \in [Inst -> {"unbuilt", "ready", "error"}]
    /\ built \in [Inst -> Commit \cup {None}]
    /\ config \in SUBSET Inst
    /\ cred \in {"usable", "unreadable"}
    /\ env \in [Inst -> Build \cup {None}]
    /\ src \in [Inst -> SUBSET Commit]
    /\ building \in [Inst -> SUBSET Commit]
    /\ home \in SUBSET Inst
    /\ workdir \in SUBSET Inst
    /\ lock \in Handler \cup {None}
    /\ op \in [Handler -> {"update", "test", None}]
    /\ pc \in [Handler -> Building \cup
                 {"idle", "lock", "probe", "launch", "probed", "clean", "purge",
                  "unfile"}]
    /\ inst \in [Handler -> Inst \cup {None}]
    /\ saw \in [Handler -> Seen]
    /\ commit \in [Handler -> Commit \cup {None}]
    /\ spawn \in [Inst -> {"idle", "check", "exec", "connect"}]
    /\ fit \in SUBSET Inst
    /\ loaded \in SUBSET (Inst \cup Handler)
    /\ child \in [Inst -> SUBSET Commit]
    /\ owed \in SUBSET Inst
    /\ shown \in SUBSET Inst
    /\ strays \in SUBSET (Inst \X Commit \X {"src", "building"})
    /\ ops \in 0..MaxOps
    /\ lapses \in 0..MaxLapses
    /\ unrecorded \in SUBSET Inst
    /\ missed \in SUBSET Inst
    /\ late \in SUBSET Inst
    /\ mixed \in SUBSET Inst

\* the user does something; something goes wrong, or may have
Spend == ops < MaxOps /\ ops' = ops + 1
Lapse == lapses < MaxLapses /\ lapses' = lapses + 1
Slip(wrong) == IF wrong THEN Lapse ELSE UNCHANGED lapses

Exists(i) == row[i] # "gone"

NothingSeen == [on |-> FALSE, ready |-> FALSE, built |-> None]

\* a server just added, or one built in an earlier life of the hub, perhaps before
\* the shared interpreter was introduced
Init ==
    /\ row \in [Inst -> {"off", "on"}]
    /\ \E old \in SUBSET Inst, was \in BOOLEAN, c \in Commit :
          /\ status = [i \in Inst |-> IF i \in old THEN "ready" ELSE "unbuilt"]
          /\ built = [i \in Inst |-> IF i \in old THEN c ELSE None]
          /\ env = [i \in Inst |->
                IF i \in old
                THEN [of |-> {c}, whole |-> TRUE, legacy |-> was] ELSE None]
    /\ config = {}
    /\ cred = "usable"
    /\ src = [i \in Inst |-> {}]
    /\ building = [i \in Inst |-> {}]
    /\ home = {} /\ workdir = {}
    /\ lock = None
    /\ op = [h \in Handler |-> None]
    /\ pc = [h \in Handler |-> "idle"]
    /\ inst = [h \in Handler |-> None]
    /\ saw = [h \in Handler |-> NothingSeen]
    /\ commit = [h \in Handler |-> None]
    /\ spawn = [i \in Inst |-> "idle"]
    /\ child = [i \in Inst |-> {}]
    /\ fit = {} /\ loaded = {} /\ owed = {} /\ shown = {} /\ strays = {}
    /\ ops = 0 /\ lapses = 0
    /\ unrecorded = {} /\ missed = {} /\ late = {} /\ mixed = {}

-----------------------------------------------------------------------------
(* What the code computes from the disk and from a row it has read. *)

\* the built environment's python still points outside the shared directory
IsLegacy(i) == env[i] # None /\ env[i].legacy

\* the row as a handler reads it
RowOf(i) == [on |-> row[i] = "on", ready |-> status[i] = "ready",
             built |-> built[i]]

\* nothing to do: the row the handler read says so, and the disk agrees
AlreadyBuilt(h, c) ==
    /\ saw[h].built = c
    /\ saw[h].ready
    /\ env[inst[h]] # None
    /\ ~IsLegacy(inst[h])

\* files of i are written although the removal of i has begun
TooLate(i) == ~Exists(i) \/ \E h \in Handler : pc[h] = "purge"

\* what remove_dir_all may leave of a directory, its error being ignored
Wiped(left) == {{}, left}

\* an environment of which only part was removed
Torn(e) == IF e = None THEN None ELSE [e EXCEPT !.whole = FALSE]

-----------------------------------------------------------------------------
(* The life of a handler. *)

Goto(h, step) == pc' = [pc EXCEPT ![h] = step]

\* the handler reads the row, and goes on from there
Begin(h, i, kind, step) ==
    /\ pc[h] = "idle"
    /\ Exists(i)
    /\ op' = [op EXCEPT ![h] = kind]
    /\ inst' = [inst EXCEPT ![h] = i]
    /\ saw' = [saw EXCEPT ![h] = RowOf(i)]
    /\ Goto(h, step)
    /\ UNCHANGED <<lock, commit>>

\* wrong Unlocked: the guard is never dropped
StaysLocked(h) == lock

\* build_lock once the guard of h, if it has one, is dropped
Unlocked(h) == IF lock = h THEN None ELSE lock

\* the handler ends, and its guard on build_lock, if it has one, is dropped
Leave(h) ==
    /\ lock' = Unlocked(h)
    /\ op' = [op EXCEPT ![h] = None]
    /\ inst' = [inst EXCEPT ![h] = None]
    /\ saw' = [saw EXCEPT ![h] = NothingSeen]
    /\ commit' = [commit EXCEPT ![h] = None]
    /\ Goto(h, "idle")

\* an error answer; a test also enters it in the status registry
Refuse(h) ==
    /\ Leave(h)
    /\ shown' = IF op[h] = "test" THEN shown \cup {inst[h]} ELSE shown

-----------------------------------------------------------------------------
(* update_server and probe_instance up to the build. *)

\* the row is read before the handler queues for the lock
UpdateStart(h, i) ==
    /\ Spend
    /\ Begin(h, i, "update", "lock")
    /\ UNCHANGED <<lapses, dbVars, diskVars, poolVars, strays, histVars>>

\* a test of a built server: a legacy environment is rebuilt first
TestStart(h, i) ==
    /\ Spend
    /\ status[i] = "ready" /\ env[i] # None
    /\ Begin(h, i, "test", IF IsLegacy(i) THEN "lock" ELSE "probe")
    /\ UNCHANGED <<lapses, dbVars, diskVars, poolVars, strays, histVars>>

\* ... of one that is not built, or without a sandbox: only the registry changes
TestRefused(i) ==
    /\ Spend
    /\ Exists(i)
    /\ Slip(status[i] = "ready" /\ env[i] # None)
    /\ shown' = shown \cup {i}
    /\ UNCHANGED <<dbVars, diskVars, hanVars, spawn, fit, loaded, child, owed, strays,
                   histVars>>

\* wrong Lock: the build does not wait for its turn
LockAnyway(h) == lock' = h

Acquire(h) == lock = None /\ lock' = h

Lock(h) ==
    /\ pc[h] = "lock"
    /\ Acquire(h)
    /\ Goto(h, "resolve")
    /\ UNCHANGED <<bounds, dbVars, diskVars, op, inst, saw, commit, poolVars, strays,
                   histVars>>

\* the sandbox, the credential or ls-remote fails before anything is touched; a
\* credential that cannot be opened never falls back to anonymous access
ResolveFails(h) ==
    /\ pc[h] = "resolve"
    /\ Slip(cred # "unreadable")
    /\ Refuse(h)
    /\ UNCHANGED <<ops, dbVars, diskVars, spawn, fit, loaded, child, owed, strays,
                   histVars>>

\* the build part is over: an update answers, a test goes on without the lock
Proceed(h) ==
    IF op[h] = "test"
    THEN /\ lock' = Unlocked(h)
         /\ saw' = [saw EXCEPT ![h] = NothingSeen]
         /\ commit' = [commit EXCEPT ![h] = None]
         /\ Goto(h, "probe")
         /\ UNCHANGED <<op, inst>>
    ELSE Leave(h)

UpToDate(h) ==
    /\ pc[h] = "resolve"
    /\ cred # "unreadable"
    /\ \E c \in Commit : AlreadyBuilt(h, c)
    /\ Proceed(h)
    /\ UNCHANGED <<bounds, dbVars, diskVars, poolVars, strays, histVars>>

\* the branch has moved to c, or c is not built; git fills a fresh .<id>.src
Resolve(h, c) ==
    /\ pc[h] = "resolve"
    /\ cred # "unreadable"
    /\ ~AlreadyBuilt(h, c)
    /\ commit' = [commit EXCEPT ![h] = c]
    /\ \E rest \in Wiped(src[inst[h]]) :
          /\ Slip(rest # {})
          /\ src' = [src EXCEPT ![inst[h]] = rest \cup {c}]
          /\ mixed' = IF rest = {} THEN mixed ELSE mixed \cup {inst[h]}
    /\ Goto(h, "clone")
    /\ UNCHANGED <<ops, dbVars, env, building, home, workdir, lock, op, inst, saw,
                   poolVars, strays, unrecorded, missed, late>>

-----------------------------------------------------------------------------
(* The build, under the lock. *)

\* wrong Scratch: what an earlier build left is still there
ScratchKept(h, rest) == building[inst[h]] \cup rest \cup {commit[h]}

\* what the build directory will hold, given what could not be removed
Scratch(h, rest) == rest \cup {commit[h]}

\* the checkout of i is removed, or what can be
DropSrc(i) ==
    \E rest \in Wiped(src[i]) : src' = [src EXCEPT ![i] = rest]

\* the checkout is there, and its language known: build_env drops it, for uv
\* fetches its own, build_go_env compiles it; the tool gets a fresh directory
BuildBegins(h) ==
    /\ pc[h] = "clone"
    /\ DropSrc(inst[h])
    /\ \E rest \in Wiped(building[inst[h]]) :
          /\ Slip(rest # {})
          /\ building' = [building EXCEPT ![inst[h]] = Scratch(h, rest)]
          /\ mixed' = IF rest = {} THEN mixed ELSE mixed \cup {inst[h]}
    /\ Goto(h, "tool")
    /\ UNCHANGED <<ops, dbVars, env, home, workdir, lock, op, inst, saw, commit,
                   poolVars, strays, unrecorded, missed, late>>

\* checkout, language, toolchain or target is wrong; the build directory stays
BuildFails(h) ==
    /\ Lapse
    /\ pc[h] \in {"clone", "tool"}
    /\ DropSrc(inst[h])
    /\ Goto(h, "failed")
    /\ UNCHANGED <<ops, dbVars, env, building, home, workdir, lock, op, inst, saw,
                   commit, poolVars, strays, histVars>>

\* the tool that h waits for, should h stop waiting: nothing kills it
Orphan(h) ==
    {<<inst[h], commit[h], dir>> :
        dir \in IF pc[h] = "clone" THEN {"src"}
               ELSE IF pc[h] = "tool" THEN {"building"} ELSE {}}

\* BUILD_TIMEOUT: the handler gives up, the tool runs on
ToolTimesOut(h) ==
    /\ Lapse
    /\ pc[h] \in {"clone", "tool"}
    /\ strays' = strays \cup Orphan(h)
    /\ DropSrc(inst[h])
    /\ Goto(h, "failed")
    /\ UNCHANGED <<ops, dbVars, env, building, home, workdir, lock, op, inst, saw,
                   commit, poolVars, histVars>>

\* ... or, when the shallow fetch timed out, tries a full clone in its place
CloneAgain(h) ==
    /\ Lapse
    /\ pc[h] = "clone"
    /\ strays' = strays \cup Orphan(h)
    /\ src' = [src EXCEPT ![inst[h]] = {commit[h]}]
    /\ UNCHANGED <<ops, dbVars, env, building, home, workdir, hanVars, poolVars,
                   histVars>>

\* a tool nobody waits for writes into the directory that now has its path
StrayWrites(i, c) ==
    /\ \/ /\ <<i, c, "src">> \in strays /\ src[i] # {}
          /\ src' = [src EXCEPT ![i] = @ \cup {c}]
          /\ UNCHANGED building
       \/ /\ <<i, c, "building">> \in strays /\ building[i] # {}
          /\ building' = [building EXCEPT ![i] = @ \cup {c}]
          /\ UNCHANGED src
    /\ mixed' = mixed \cup {i}
    /\ UNCHANGED <<bounds, dbVars, env, home, workdir, hanVars, poolVars, strays,
                   unrecorded, missed, late>>

\* the browser goes away: a web handler is dropped where it awaits, with its
\* lock; what it was about to record, announce or remove is not
RequestDropped(h) ==
    /\ Lapse
    /\ pc[h] \notin {"idle", "install", "launch"}
    /\ strays' = strays \cup Orphan(h)
    /\ unrecorded' = IF pc[h] \in {"record", "failed"}
                     THEN unrecorded \cup {inst[h]} ELSE unrecorded
    /\ missed' = IF pc[h] \in {"record", "announce"}
                 THEN missed \cup {inst[h]} ELSE missed
    /\ late' = IF pc[h] \in {"clean", "unfile"}
               THEN late \cup {inst[h]} ELSE late
    /\ Leave(h)
    /\ UNCHANGED <<ops, dbVars, diskVars, poolVars, mixed>>

\* the tool has succeeded; go compiled what .<id>.src holds.  remove_dir_all of
\* the old environment: others can see it half removed
TakeDown(h) ==
    /\ pc[h] = "tool"
    /\ LET i == inst[h] IN
       /\ building' = [building EXCEPT ![i] = @ \cup src[i]]
       /\ \E rest \in {None, Torn(env[i])} : env' = [env EXCEPT ![i] = rest]
    /\ Goto(h, "install")
    /\ UNCHANGED <<bounds, dbVars, src, home, workdir, lock, op, inst, saw, commit,
                   poolVars, strays, histVars>>

\* ... and the rename
Install(h) ==
    /\ pc[h] = "install"
    /\ LET i == inst[h] IN
       /\ env' = [env EXCEPT ![i] =
                    [of |-> building[i], whole |-> TRUE, legacy |-> FALSE]]
       /\ building' = [building EXCEPT ![i] = {}]
       /\ DropSrc(i) /\ Slip(src'[i] # {})
       /\ late' = IF TooLate(i) THEN late \cup {i} ELSE late
    /\ Goto(h, "record")
    /\ UNCHANGED <<ops, dbVars, home, workdir, lock, op, inst, saw, commit,
                   poolVars, strays, unrecorded, missed, mixed>>

InstallFails(h) ==
    /\ Lapse
    /\ pc[h] = "install"
    /\ DropSrc(inst[h])
    /\ Goto(h, "failed")
    /\ UNCHANGED <<ops, dbVars, env, building, home, workdir, lock, op, inst, saw,
                   commit, poolVars, strays, histVars>>

\* set_build_state: without a row, no effect
SetBuildState(i, st, c) ==
    IF Exists(i)
    THEN /\ status' = [status EXCEPT ![i] = st]
         /\ built' = [built EXCEPT ![i] = c]
    ELSE UNCHANGED <<status, built>>

\* wrong Restarts: the running server is left alone
RestartsNever(h) == FALSE

\* whether restart_backend is called: as the row read before the build had it
Restarts(h) == op[h] = "update" /\ saw[h].on

\* wrong Recorded: what the handler had read
RecordedSaw(h) == saw[h].built

\* wrong Recorded: the branch in place of the commit it names
RecordedRef(h) == "main"

\* the commit that goes into the row
Recorded(h) == commit[h]

\* the build is recorded; gitcreds::touch is still to be awaited
Record(h) ==
    /\ pc[h] = "record"
    /\ SetBuildState(inst[h], "ready", Recorded(h))
    /\ unrecorded' = IF env[inst[h]] = Torn(env[inst[h]])
                     THEN unrecorded ELSE unrecorded \ {inst[h]}
    /\ Goto(h, "announce")
    /\ UNCHANGED <<bounds, row, config, cred, diskVars, lock, op, inst, saw,
                   commit, poolVars, strays, missed, late, mixed>>

\* ... and announced to the pool; the guard goes with the handler or its build
Announce(h) ==
    /\ pc[h] = "announce"
    /\ owed' = IF Restarts(h) THEN owed \cup {inst[h]} ELSE owed
    /\ missed' = IF op[h] = "test" \/ ~saw[h].on
                 THEN missed \cup {inst[h]} ELSE missed
    /\ Proceed(h)
    /\ UNCHANGED <<bounds, dbVars, diskVars, spawn, fit, loaded, child, shown, strays,
                   unrecorded, late, mixed>>

\* the new environment is in place and neither recorded nor announced
RecordFails(h) ==
    /\ Lapse
    /\ pc[h] = "record"
    /\ unrecorded' = unrecorded \cup {inst[h]}
    /\ missed' = missed \cup {inst[h]}
    /\ Refuse(h)
    /\ UNCHANGED <<ops, dbVars, diskVars, spawn, fit, loaded, child, owed, strays, late,
                   mixed>>

\* the build failed: the commit of the row that was read is written back
RecordError(h) ==
    /\ pc[h] = "failed"
    /\ \/ /\ SetBuildState(inst[h], "error", saw[h].built)
          /\ UNCHANGED <<lapses, unrecorded>>
       \/ /\ Lapse
          /\ unrecorded' = unrecorded \cup {inst[h]}
          /\ UNCHANGED <<status, built>>
    /\ Refuse(h)
    /\ UNCHANGED <<ops, row, config, cred, diskVars, spawn, fit, loaded, child,
                   owed, strays, missed, late, mixed>>

-----------------------------------------------------------------------------
(* Backend::probe starts the server once, beside a running one. *)

\* stdio_command prepares HOME and, for a config file, the working directory
Prepares(i, file) ==
    /\ home' = home \cup {i}
    /\ workdir' = IF file THEN workdir \cup {i} ELSE workdir
    /\ late' = IF TooLate(i) \/ (file /\ i \notin config)
               THEN late \cup {i} ELSE late

\* resolved_config_file, and then everything Backend::probe does; reading the
\* configuration may fail
ProbeReads(h) ==
    /\ pc[h] = "probe"
    /\ loaded' = IF inst[h] \in config THEN loaded \cup {h} ELSE loaded
    /\ Goto(h, "launch")
    /\ UNCHANGED <<bounds, dbVars, diskVars, lock, op, inst, saw, commit, spawn, fit,
                   child, owed, shown, strays, histVars>>

ProbeRefused(h) ==
    /\ Lapse
    /\ pc[h] = "probe"
    /\ Refuse(h)
    /\ UNCHANGED <<ops, dbVars, diskVars, spawn, fit, loaded, child, owed, strays,
                   histVars>>

Probe(h) ==
    /\ pc[h] = "launch"
    /\ Prepares(inst[h], h \in loaded)
    /\ loaded' = loaded \ {h}
    /\ Goto(h, "probed")
    /\ UNCHANGED <<bounds, dbVars, env, src, building, lock, op, inst, saw, commit,
                   spawn, fit, child, owed, shown, strays, unrecorded, missed, mixed>>

\* it answers all that is asked of it, or fails; nothing bounds how long it takes
ProbeDone(h) ==
    /\ pc[h] = "probed"
    /\ shown' = shown \cup {inst[h]}
    /\ Leave(h)
    /\ UNCHANGED <<bounds, dbVars, diskVars, spawn, fit, loaded, child, owed,
                   strays, histVars>>

-----------------------------------------------------------------------------
(* Removal: a server by its owner, a user with all servers by an admin. *)

\* the row goes first; the web handler goes on although that may have failed
DeleteServer(h, i) ==
    /\ Spend
    /\ pc[h] = "idle"
    /\ Exists(i)
    /\ \/ /\ row' = [row EXCEPT ![i] = "gone"]
          /\ config' = config \ {i}
          /\ UNCHANGED lapses
       \/ Lapse /\ UNCHANGED <<row, config>>
    /\ inst' = [inst EXCEPT ![h] = i]
    /\ Goto(h, "clean")
    /\ UNCHANGED <<status, built, cred, diskVars, lock, op, saw, commit,
                   poolVars, strays, histVars>>

\* remove_env, of whose removals some do nothing and some stop half way
RemoveEnv(gone, kept, torn) ==
    env' = [i \in Inst |->
              IF i \notin gone \/ i \in kept THEN env[i]
              ELSE IF i \in torn THEN Torn(env[i]) ELSE None]

\* wrong Cleaned: HOME is forgotten
CleanedButHome(i, files, homes) ==
    workdir' = workdir \ ({i} \ files) /\ UNCHANGED home

\* remove_workdir and remove_home, which may fail
Cleaned(i, files, homes) ==
    workdir' = workdir \ ({i} \ files) /\ home' = home \ ({i} \ homes)

\* ... then its status and its files, as far as they can be removed
CleanUp(h) ==
    /\ pc[h] = "clean"
    /\ \E kept, torn, files, homes \in SUBSET {inst[h]} :
          /\ Slip(kept \cup torn \cup files \cup homes # {})
          /\ RemoveEnv({inst[h]}, kept, torn)
          /\ Cleaned(inst[h], files, homes)
          /\ late' = late \cup kept \cup torn \cup files \cup homes
          /\ unrecorded' = unrecorded \cup torn
    /\ shown' = shown \ {inst[h]}
    /\ Leave(h)
    /\ UNCHANGED <<ops, dbVars, src, building, spawn, fit, loaded, child, owed,
                   strays, missed, mixed>>

\* purge_user takes the files first, if it can list the servers at all, and
\* leaves the working directories
PurgeFiles(h) ==
    /\ Spend
    /\ pc[h] = "idle"
    /\ \E i \in Inst : Exists(i)
    /\ LET gone == {i \in Inst : Exists(i)} IN
       \/ /\ \E kept, torn, homes \in SUBSET gone :
                /\ Slip(kept \cup torn \cup homes # {})
                /\ RemoveEnv(gone, kept, torn)
                /\ home' = home \ (gone \ homes)
                /\ late' = late \cup kept \cup torn \cup homes
                                \cup (workdir \cap gone)
                /\ unrecorded' = unrecorded \cup torn
          /\ shown' = shown \ gone
       \/ /\ Lapse
          /\ late' = late \cup gone
          /\ UNCHANGED <<env, home, shown, unrecorded>>
    /\ Goto(h, "purge")
    /\ UNCHANGED <<dbVars, src, building, workdir, lock, op, inst, saw, commit,
                   spawn, fit, loaded, child, owed, strays, missed, mixed>>

\* ... then the user's row and all that cascades from it, unless that fails
PurgeRows(h) ==
    /\ pc[h] = "purge"
    /\ \/ /\ row' = [i \in Inst |-> "gone"]
          /\ config' = {}
          /\ cred' = "usable"
          /\ UNCHANGED lapses
       \/ Lapse /\ UNCHANGED <<row, config, cred>>
    /\ Leave(h)
    /\ UNCHANGED <<ops, status, built, diskVars, poolVars, strays, histVars>>

-----------------------------------------------------------------------------
(* Handlers of one or two statements. *)

\* the write may fail unnoticed; a disabled server's status is forgotten, and the
\* pool is told
SetEnabled(i, to) ==
    /\ Spend
    /\ Exists(i)
    /\ \/ row' = [row EXCEPT ![i] = to] /\ UNCHANGED lapses
       \/ Lapse /\ UNCHANGED row
    /\ shown' = IF to = "off" THEN shown \ {i} ELSE shown
    /\ UNCHANGED <<status, built, config, cred, diskVars, hanVars, spawn, fit,
                   loaded, child, owed, strays, histVars>>

\* a restart if the row read before had it enabled, and the handler gets there
SetConfigFile(i) ==
    /\ Spend
    /\ Exists(i)
    /\ config' = config \cup {i}
    /\ owed' \in {owed, owed \cup {i}}
    /\ UNCHANGED <<lapses, row, status, built, cred, diskVars, hanVars, spawn,
                   fit, loaded, child, shown, strays, histVars>>

\* clearing it goes to the database first
ClearConfigFile(h, i) ==
    /\ Spend
    /\ Begin(h, i, None, "unfile")
    /\ config' = config \ {i}
    /\ UNCHANGED <<lapses, row, status, built, cred, diskVars, poolVars, strays,
                   histVars>>

\* ... then removes the copy in the working directory, as far as that works, and
\* restarts the server if the row that was read had it enabled
FileCleared(h) ==
    /\ pc[h] = "unfile"
    /\ \E files \in SUBSET {inst[h]} :
          /\ Slip(files # {})
          /\ workdir' = workdir \ ({inst[h]} \ files)
          /\ late' = late \cup files
    /\ owed' = IF saw[h].on THEN owed \cup {inst[h]} ELSE owed
    /\ Leave(h)
    /\ UNCHANGED <<ops, dbVars, env, src, building, home, spawn, fit, loaded,
                   child, shown, strays, unrecorded, missed, mixed>>

\* upsert or delete; a changed master key leaves a stored one nobody can open
SetCredential(to) ==
    /\ Spend
    /\ cred' = to
    /\ UNCHANGED <<lapses, row, status, built, config, diskVars, hanVars,
                   poolVars, strays, histVars>>

-----------------------------------------------------------------------------
(* The pool launches what is enabled and not running, or owed a restart. *)

\* reconcile has read the row and claimed the instance
SpawnBegins(i) ==
    /\ spawn[i] = "idle"
    /\ row[i] = "on"
    /\ child[i] = {} \/ i \in owed
    /\ spawn' = [spawn EXCEPT ![i] = "check"]
    /\ fit' = IF status[i] = "ready" THEN fit \cup {i} ELSE fit \ {i}
    /\ child' = [child EXCEPT ![i] = {}]
    /\ owed' = owed \ {i}
    /\ missed' = missed \ {i}
    /\ UNCHANGED <<bounds, dbVars, diskVars, hanVars, loaded, shown, strays, unrecorded,
                   late, mixed>>

\* the launch is over, and the registry says how
SpawnEnds(i) ==
    /\ spawn' = [spawn EXCEPT ![i] = "idle"]
    /\ shown' = shown \cup {i}

\* spawn_one: only a built environment that is not a legacy one is launched
SpawnChecks(i) ==
    /\ spawn[i] = "check"
    /\ \/ /\ i \in fit /\ env[i] # None /\ ~IsLegacy(i)
          /\ spawn' = [spawn EXCEPT ![i] = "exec"]
          /\ loaded' = IF i \in config THEN loaded \cup {i} ELSE loaded
          /\ UNCHANGED <<lapses, shown>>
       \/ /\ Slip(i \in fit /\ env[i] # None /\ ~IsLegacy(i))
          /\ SpawnEnds(i)
          /\ UNCHANGED loaded
    /\ fit' = fit \ {i}
    /\ UNCHANGED <<ops, dbVars, diskVars, hanVars, child, owed, strays, histVars>>

\* the program starts from whatever the environment's path now holds
SpawnExecs(i) ==
    /\ spawn[i] = "exec"
    /\ Prepares(i, i \in loaded)
    /\ loaded' = loaded \ {i}
    /\ missed' = missed \ {i}
    /\ \/ /\ env[i] # None
          /\ child' = [child EXCEPT ![i] = env[i].of]
          /\ spawn' = [spawn EXCEPT ![i] = "connect"]
          /\ UNCHANGED shown
       \/ env[i] = None /\ SpawnEnds(i) /\ UNCHANGED child
    /\ UNCHANGED <<bounds, dbVars, env, src, building, hanVars, fit, owed, strays,
                   unrecorded, mixed>>

\* it answers, or it fails and is dropped
SpawnConnects(i) ==
    /\ spawn[i] = "connect"
    /\ SpawnEnds(i)
    /\ \/ UNCHANGED child
       \/ child' = [child EXCEPT ![i] = {}]
    /\ UNCHANGED <<bounds, dbVars, diskVars, hanVars, fit, loaded, owed, strays,
                   histVars>>

\* a server that runs, or is being probed, may write to its HOME at any time, also
\* while that is removed
ChildWrites(i) ==
    /\ \/ child[i] # {}
       \/ \E h \in Handler : inst[h] = i /\ pc[h] = "probed"
    /\ home' = home \cup {i}
    /\ late' = IF TooLate(i) THEN late \cup {i} ELSE late
    /\ UNCHANGED <<bounds, dbVars, env, src, building, workdir, hanVars, poolVars,
                   strays, unrecorded, missed, mixed>>

\* reconcile drops the backend of a server that is not enabled; a child may die
ChildEnds(i) ==
    /\ spawn[i] = "idle"
    /\ child' = [child EXCEPT ![i] = {}]
    /\ UNCHANGED <<bounds, dbVars, diskVars, hanVars, spawn, fit, loaded, owed, shown,
                   strays, histVars>>

\* wrong Retained: entries of deleted instances stay
RetainedAll == shown

\* StatusRegistry::retain keeps the entries of instances that exist
Retained == {i \in shown : Exists(i)}

KeepWarm ==
    /\ shown' = Retained
    /\ UNCHANGED <<bounds, dbVars, diskVars, hanVars, spawn, fit, loaded, child,
                   owed, strays, histVars>>

\* the hub stops and starts again: handlers, children and memory are gone, but
\* not the tools it was waiting for
Crash ==
    /\ Lapse
    /\ lock' = None
    /\ op' = [h \in Handler |-> None]
    /\ pc' = [h \in Handler |-> "idle"]
    /\ inst' = [h \in Handler |-> None]
    /\ saw' = [h \in Handler |-> NothingSeen]
    /\ commit' = [h \in Handler |-> None]
    /\ spawn' = [i \in Inst |-> "idle"]
    /\ child' = [i \in Inst |-> {}]
    /\ fit' = {} /\ loaded' = {} /\ owed' = {} /\ shown' = {} /\ missed' = {}
    /\ unrecorded' = unrecorded \cup
         {i \in Inst : \E h \in Handler :
             inst[h] = i /\ pc[h] \in {"install", "record", "failed"}}
    /\ late' = late \cup
         {i \in Inst : \E h \in Handler :
             inst[h] = i /\ pc[h] \in {"clean", "unfile"}}
    /\ strays' = strays \cup UNION {Orphan(h) : h \in Handler}
    /\ UNCHANGED <<ops, dbVars, diskVars, mixed>>

-----------------------------------------------------------------------------
Works(h) ==
    \/ ResolveFails(h) \/ UpToDate(h) \/ \E c \in Commit : Resolve(h, c)
    \/ BuildBegins(h) \/ BuildFails(h) \/ ToolTimesOut(h) \/ CloneAgain(h)
    \/ TakeDown(h) \/ Install(h) \/ InstallFails(h)
    \/ Record(h) \/ Announce(h) \/ RecordFails(h) \/ RecordError(h)
    \/ ProbeReads(h) \/ ProbeRefused(h) \/ Probe(h)
    \/ CleanUp(h) \/ PurgeRows(h) \/ FileCleared(h)

Next ==
    \/ \E h \in Handler :
          \/ Works(h) \/ Lock(h) \/ ProbeDone(h)
          \/ RequestDropped(h) \/ PurgeFiles(h)
    \/ \E h \in Handler, i \in Inst :
          \/ UpdateStart(h, i) \/ TestStart(h, i)
          \/ DeleteServer(h, i) \/ ClearConfigFile(h, i)
    \/ \E i \in Inst :
          \/ TestRefused(i) \/ SetConfigFile(i)
          \/ SpawnBegins(i) \/ SpawnChecks(i) \/ SpawnExecs(i)
          \/ SpawnConnects(i) \/ ChildWrites(i) \/ ChildEnds(i)
    \/ \E i \in Inst, to \in {"on", "off"} : SetEnabled(i, to)
    \/ \E to \in {"usable", "unreadable"} : SetCredential(to)
    \/ \E i \in Inst, c \in Commit : StrayWrites(i, c)
    \/ KeepWarm \/ Crash

Spec == Init /\ [][Next]_vars

-----------------------------------------------------------------------------
(* Safety. *)

\* What launches use, and what a running server was started from, is the build
\* of one commit: builds are serialised and start from an empty directory, so
\* no crash, failed build or concurrent update mixes the files of two; only a
\* tool that outlived its handler (nothing kills it) can, or a build in a
\* directory whose removal failed (the error is ignored).
EnvIsOneBuild ==
    \A i \in Inst \ mixed :
        /\ env[i] # None => \E c \in Commit : env[i].of = {c}
        /\ child[i] # {} => \E c \in Commit : child[i] = {c}

\* the holder of the lock is replacing i's environment
Swapping(i) ==
    \E h \in Handler :
        inst[h] = i /\ pc[h] \in {"install", "record", "failed"}

\* A server recorded as ready has the very commit that is recorded, complete,
\* if it has an environment at all, although handlers write back what they read
\* before they had the lock.  The exceptions: a crash, a failed write or a dropped
\* request between the swap and the record (gitsrc.rs, update_instance); a removal
\* that stopped half way; and the mixed builds EnvIsOneBuild excepts.
RecordedIsBuilt ==
    \A i \in Inst :
        (/\ Exists(i) /\ status[i] = "ready" /\ env[i] # None
         /\ i \notin unrecorded \cup mixed
         /\ ~Swapping(i))
        => env[i].whole /\ env[i].of = {built[i]}

\* After a rebuild the running server is relaunched, so that the new code
\* reaches clients: what runs is what is installed, or a restart is owed.  The
\* exceptions are the paths that never announce: a server enabled while its
\* rebuild ran, a healing test, a build whose record failed, and a request
\* dropped before it came to restart_backend (web.rs, update_server).
RebuildRelaunches ==
    \A i \in Inst :
        (/\ spawn[i] = "idle" /\ child[i] # {}
         /\ Exists(i) /\ env[i] # None
         /\ i \notin owed \cup missed
         /\ \A h \in Handler : inst[h] = i => pc[h] \notin {"record", "announce"})
        => child[i] = env[i].of

\* a handler is about to remove files of i
Removing(i, steps) == \E h \in Handler : inst[h] = i /\ pc[h] \in steps

\* Once a removal is over nothing of the server is left on disk, and no copy of
\* a config file outlives the file.  The exceptions: what a build, a launch, a
\* probe or the running server wrote afterwards, what a dropped request (web.rs,
\* delete_server, apply_config_file) or a crash kept from being removed, what
\* could not be removed, and the working directories purge_user passes over.
NothingLingers ==
    \A i \in Inst \ late :
        /\ ~Exists(i) /\ ~Removing(i, {"clean"}) => env[i] = None /\ i \notin home
        /\ i \notin config /\ ~Removing(i, {"clean", "unfile"}) => i \notin workdir

-----------------------------------------------------------------------------
(* The abstract specification. *)

\* what stands where launches look for i's environment
SiteOf(i) ==
    IF env[i] = None THEN None
    ELSE IF env[i].whole /\ \E c \in Commit : env[i].of = {c}
    THEN CHOOSE c \in Commit : env[i].of = {c}
    ELSE Spoiled

Promise == INSTANCE Deployment WITH
    turn   <- IF lock = None \/ pc[lock] = "announce" THEN None ELSE inst[lock],
    site   <- [i \in Inst |-> SiteOf(i)],
    record <- [i \in Inst |-> IF status[i] = "ready" THEN built[i] ELSE None]

\* Every interleaving of updates, tests, deletions, launches and faults is a
\* behaviour of Deployment: only the holder of build_lock changes an environment,
\* after taking the old one down, and set_build_state never vouches for a build
\* other than the one in place.
ImplementsDeployment == Promise!Spec

-----------------------------------------------------------------------------
(* Liveness. *)

\* Every command a build runs has a timeout, and every removal and database call
\* returns, so a handler keeps going up to the probe of its server, which may hang
\* for ever (backend.rs, capture_snapshot; a connect timeout of 0); build_lock is a
\* fair mutex; the keep-warm loop keeps pruning.
Fairness ==
    /\ \A h \in Handler : WF_vars(Works(h)) /\ SF_vars(Lock(h))
    /\ WF_vars(KeepWarm)

FairSpec == Spec /\ Fairness

\* An update or a test that queued for build_lock gets its turn, and its build an
\* outcome: the update is answered, the test goes on to its probe.  A tool may
\* time out and a probe may hang for ever, but nobody keeps the lock.
BuildTurnEnds ==
    \A h \in Handler : pc[h] = "lock" ~> pc[h] \in {"idle", "probe"}

\* The status of a deleted server does not stay on the board, although a launch
\* under way may write it again after the removal (status.rs, retain).
StatusForgotten ==
    \A i \in Inst : <>[](~Exists(i) => i \notin shown)
=============================================================================
