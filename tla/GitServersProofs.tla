-------------------------- MODULE GitServersProofs --------------------------
(***************************************************************************)
(* The safety of GitServers for any number of servers, commits and         *)
(* handlers, and the refinement of Deployment.  The argument: build_lock   *)
(* is held by exactly the handler that is in one of its building steps, so *)
(* what a builder put into the scratch directory and what it took down are *)
(* still so when it renames and records; every other step only launches,   *)
(* or takes environments away.                                             *)
(***************************************************************************)
EXTENDS GitServers, TLAPS

-----------------------------------------------------------------------------
(* The handlers. *)

Steps == Building \cup
           {"idle", "lock", "probe", "launch", "probed", "clean", "purge", "unfile"}

\* the part of TypeOK that is about the handlers, and the rest
HandlersOK ==
    /\ lock \in Handler \cup {None}
    /\ op \in [Handler -> {"update", "test", None}]
    /\ pc \in [Handler -> Steps]
    /\ inst \in [Handler -> Inst \cup {None}]
    /\ saw \in [Handler -> Seen]
    /\ commit \in [Handler -> Commit \cup {None}]

WorldOK ==
    /\ row \in [Inst -> {"off", "on", "gone"}]
    /\ status \in [Inst -> {"unbuilt", "ready", "error"}]
    /\ built \in [Inst -> Commit \cup {None}]
    /\ config \in SUBSET Inst
    /\ cred \in {"usable", "unreadable"}
    /\ env \in [Inst -> Build \cup {None}]
    /\ src \in [Inst -> SUBSET Commit]
    /\ building \in [Inst -> SUBSET Commit]
    /\ home \in SUBSET Inst
    /\ workdir \in SUBSET Inst
    /\ spawn \in [Inst -> {"idle", "check", "exec", "connect"}]
    /\ fit \in SUBSET Inst
    /\ loaded \in SUBSET (Inst \cup Handler)
    /\ child \in [Inst -> SUBSET Commit]
    /\ owed \in SUBSET Inst
    /\ shown \in SUBSET Inst
    /\ strays \in SUBSET (Inst \X Commit \X {"src", "building"})
    /\ ops \in 0..MaxOps
    /\ lapses \in 0..MaxLapses
    /\ unrecorded \in SUBSET Inst
    /\ missed \in SUBSET Inst
    /\ late \in SUBSET Inst
    /\ mixed \in SUBSET Inst

\* exactly the handler in its building steps holds build_lock
LockInv == \A h \in Handler : pc[h] \in Building <=> lock = h

\* the steps at which the commit to build is known
Resolved == {"clone", "tool", "install", "record", "failed"}

\* a handler under way knows its instance, what it is doing and, once resolved,
\* its commit
Named ==
    \A h \in Handler :
        /\ pc[h] \notin {"idle", "purge"} => inst[h] \in Inst
        /\ pc[h] \in Building \cup {"lock"} => op[h] \in {"update", "test"}
        /\ pc[h] \in Resolved => commit[h] \in Commit

HanInv == HandlersOK /\ LockInv /\ Named

\* TypeOK is what is said of the handlers and of everything else.
LEMMA TypeParts == TypeOK <=> HandlersOK /\ WorldOK
  BY DEF TypeOK, HandlersOK, WorldOK, Steps

\* A handler that has read no row has seen something of the right type.
LEMMA NothingIsSeen == NothingSeen \in Seen
  BY DEF NothingSeen, Seen

\* a handler goes from one step to the next
LEMMA GotoKeeps ==
    ASSUME HanInv, NEW h \in Handler, NEW step \in Steps, Goto(h, step),
           UNCHANGED <<lock, op, inst, saw, commit>>,
           pc[h] \in Building <=> step \in Building,
           step \notin {"idle", "purge"} => pc[h] \notin {"idle", "purge"},
           step \in Resolved => pc[h] \in Resolved,
           step # "lock"
    PROVE  HanInv'
  BY DEF HanInv, HandlersOK, LockInv, Named, Goto

\* a handler ends
LEMMA LeaveKeeps ==
    ASSUME HanInv, NEW h \in Handler, Leave(h)
    PROVE  HanInv'
  <1>1. HandlersOK'
    BY NothingIsSeen DEF HanInv, HandlersOK, Leave, Unlocked, Goto, Steps
  <1>2. LockInv'
    BY GitAssumption
    DEF HanInv, HandlersOK, LockInv, Leave, Unlocked, Goto, Steps, Building
  <1>3. Named'
    BY DEF HanInv, HandlersOK, Named, Leave, Goto, Resolved, Building
  <1> QED BY <1>1, <1>2, <1>3 DEF HanInv

\* a test goes on after its build, without the lock
LEMMA ProceedKeeps ==
    ASSUME HanInv, NEW h \in Handler, Proceed(h), pc[h] \in Building
    PROVE  HanInv'
  <1>1. CASE op[h] # "test"
    BY <1>1, LeaveKeeps DEF Proceed
  <1>2. CASE op[h] = "test"
    <2>1. HandlersOK'
      BY <1>2, NothingIsSeen DEF HanInv, HandlersOK, Proceed, Unlocked, Goto, Steps
    <2>2. LockInv'
      BY <1>2, GitAssumption
      DEF HanInv, HandlersOK, LockInv, Proceed, Unlocked, Goto, Steps, Building
    <2>3. Named'
      BY <1>2 DEF HanInv, HandlersOK, Named, Proceed, Goto, Resolved, Building
    <2> QED BY <2>1, <2>2, <2>3 DEF HanInv
  <1> QED BY <1>1, <1>2

\* a handler begins with a row it has read
LEMMA BeginKeeps ==
    ASSUME HanInv, NEW h \in Handler, NEW i \in Inst,
           NEW kind \in {"update", "test", None}, NEW step \in {"lock", "probe", "unfile"},
           step = "lock" => kind \in {"update", "test"},
           Begin(h, i, kind, step), RowOf(i) \in Seen
    PROVE  HanInv'
  <1>1. HandlersOK'
    BY DEF HanInv, HandlersOK, Begin, Goto, Steps
  <1>2. LockInv'
    BY DEF HanInv, HandlersOK, LockInv, Begin, Goto, Building
  <1>3. Named'
    BY DEF HanInv, HandlersOK, Named, Begin, Goto, Resolved, Building
  <1> QED BY <1>1, <1>2, <1>3 DEF HanInv

\* At the start every handler is idle and the lock is free.
LEMMA HanInit == Init => HanInv
  BY GitAssumption, NothingIsSeen
  DEF Init, HanInv, HandlersOK, LockInv, Named, Steps, Building, Resolved

\* Steps that leave the handlers alone keep what is known of them.
LEMMA HanUnchanged == HanInv /\ UNCHANGED hanVars => HanInv'
  BY DEF hanVars, HanInv, HandlersOK, LockInv, Named

\* Every step keeps the handlers well typed and build_lock with exactly the
\* handler that is in its building steps (gitsrc.rs, build_lock).
LEMMA HanStep ==
    ASSUME HanInv, WorldOK, [Next]_vars
    PROVE  HanInv'
  <1> USE DEF hanVars, Steps, Building, Resolved
  <1>1. ASSUME NEW h \in Handler, Works(h) PROVE HanInv'
    <2>1. CASE ResolveFails(h) \/ RecordFails(h) \/ RecordError(h) \/ ProbeRefused(h)
               \/ CleanUp(h) \/ PurgeRows(h) \/ FileCleared(h)
      BY <2>1, LeaveKeeps
      DEF ResolveFails, RecordFails, RecordError, ProbeRefused, CleanUp, PurgeRows,
          FileCleared, Refuse
    <2>2. CASE UpToDate(h) \/ Announce(h)
      BY <2>2, ProceedKeeps DEF UpToDate, Announce
    <2>3. ASSUME NEW c \in Commit, Resolve(h, c) PROVE HanInv'
      <3>1. HandlersOK'
        BY <2>3 DEF Resolve, Goto, HanInv, HandlersOK, WorldOK
      <3>2. LockInv'
        BY <2>3 DEF Resolve, Goto, HanInv, HandlersOK, LockInv
      <3>3. Named'
        BY <2>3 DEF Resolve, Goto, HanInv, HandlersOK, Named, WorldOK
      <3> QED BY <3>1, <3>2, <3>3 DEF HanInv
    <2>4. CASE BuildBegins(h) \/ Record(h)
      BY <2>4, GotoKeeps DEF BuildBegins, Record
    <2>5. CASE BuildFails(h) \/ ToolTimesOut(h) \/ InstallFails(h)
      BY <2>5, GotoKeeps DEF BuildFails, ToolTimesOut, InstallFails
    <2>6. CASE TakeDown(h)
      BY <2>6, GotoKeeps DEF TakeDown
    <2>7. CASE Install(h)
      BY <2>7, GotoKeeps DEF Install
    <2>8. CASE ProbeReads(h)
      BY <2>8, GotoKeeps DEF ProbeReads
    <2>9. CASE Probe(h)
      BY <2>9, GotoKeeps DEF Probe
    <2>10. CASE CloneAgain(h)
      BY <2>10, HanUnchanged DEF CloneAgain
    <2> QED
      BY <1>1, <2>1, <2>2, <2>3, <2>4, <2>5, <2>6, <2>7, <2>8, <2>9, <2>10 DEF Works
  <1>2. ASSUME NEW h \in Handler, Lock(h) PROVE HanInv'
    <2>1. HandlersOK'
      BY <1>2 DEF Lock, Acquire, Goto, HanInv, HandlersOK
    <2>2. LockInv'
      BY <1>2, GitAssumption DEF Lock, Acquire, Goto, HanInv, HandlersOK, LockInv
    <2>3. Named'
      BY <1>2 DEF Lock, Goto, HanInv, HandlersOK, Named
    <2> QED BY <2>1, <2>2, <2>3 DEF HanInv
  <1>3. ASSUME NEW h \in Handler, RequestDropped(h) \/ ProbeDone(h) PROVE HanInv'
    BY <1>3, LeaveKeeps DEF RequestDropped, ProbeDone
  <1>4. ASSUME NEW h \in Handler, PurgeFiles(h) PROVE HanInv'
    BY <1>4, GotoKeeps DEF PurgeFiles
  <1>5. ASSUME NEW h \in Handler, NEW i \in Inst,
               UpdateStart(h, i) \/ TestStart(h, i) \/ ClearConfigFile(h, i)
        PROVE  HanInv'
    <2>1. RowOf(i) \in Seen
      BY DEF RowOf, Seen, WorldOK
    <2> QED BY <1>5, <2>1, BeginKeeps DEF UpdateStart, TestStart, ClearConfigFile
  <1>6. ASSUME NEW h \in Handler, NEW i \in Inst, DeleteServer(h, i) PROVE HanInv'
    <2>1. HandlersOK'
      BY <1>6 DEF DeleteServer, Goto, HanInv, HandlersOK
    <2>2. LockInv'
      BY <1>6 DEF DeleteServer, Goto, HanInv, HandlersOK, LockInv
    <2>3. Named'
      BY <1>6 DEF DeleteServer, Goto, HanInv, HandlersOK, Named
    <2> QED BY <2>1, <2>2, <2>3 DEF HanInv
  <1>7. CASE Crash
    <2>1. HandlersOK' /\ LockInv' /\ Named'
      BY <1>7, NothingIsSeen, GitAssumption
      DEF Crash, HanInv, HandlersOK, LockInv, Named
    <2> QED BY <2>1 DEF HanInv
  <1>8. CASE UNCHANGED hanVars
    BY <1>8, HanUnchanged
  <1>9. ASSUME NEW i \in Inst,
               \/ TestRefused(i) \/ SpawnBegins(i) \/ SpawnChecks(i) \/ SpawnExecs(i)
               \/ SpawnConnects(i) \/ ChildWrites(i) \/ ChildEnds(i) \/ SetConfigFile(i)
               \/ \E to \in {"on", "off"} : SetEnabled(i, to)
               \/ \E c \in Commit : StrayWrites(i, c)
        PROVE  UNCHANGED hanVars
    BY <1>9
    DEF TestRefused, SpawnBegins, SpawnChecks, SpawnExecs, SpawnConnects, ChildWrites,
        ChildEnds, SetConfigFile, SetEnabled, StrayWrites
  <1>10. ASSUME KeepWarm \/ \E to \in {"usable", "unreadable"} : SetCredential(to)
         PROVE  UNCHANGED hanVars
    BY <1>10 DEF SetCredential, KeepWarm
  <1> QED
    BY <1>1, <1>2, <1>3, <1>4, <1>5, <1>6, <1>7, <1>8, <1>9, <1>10 DEF Next, vars

\* The database, the disk and the pool start well typed.
LEMMA WorldInit == Init => WorldOK
  BY GitAssumption DEF Init, WorldOK, Build

\* Something going wrong, or not, keeps the count of lapses within its bound.
LEMMA LapsesBounded ==
    ASSUME lapses \in 0..MaxLapses, NEW wrong \in BOOLEAN, Lapse \/ Slip(wrong)
    PROVE  lapses' \in 0..MaxLapses
  BY GitAssumption DEF Lapse, Slip

\* What is left of an environment is an environment of the same commits that is
\* not whole, or nothing.
LEMMA TornBuild ==
    ASSUME NEW e \in Build \cup {None}
    PROVE  /\ Torn(e) \in Build \cup {None}
           /\ e = None => Torn(e) = None
           /\ e # None => Torn(e) # None /\ ~Torn(e).whole /\ Torn(e).of = e.of
           /\ e # None /\ e # Torn(e) => e.whole
  <1>1. CASE e = None
    BY <1>1 DEF Torn
  <1>2. CASE e # None
    <2>1. e \in Build /\ Torn(e) = [e EXCEPT !.whole = FALSE]
      BY <1>2 DEF Torn
    <2>2. Torn(e) \in Build /\ ~Torn(e).whole /\ Torn(e).of = e.of
      BY <2>1 DEF Build
    <2>3. Torn(e) # None
      BY <2>2, GitAssumption
    <2>4. e.whole = FALSE => e = Torn(e)
      BY <2>1 DEF Build
    <2>5. e.whole \in BOOLEAN
      BY <2>1 DEF Build
    <2> QED BY <1>2, <2>2, <2>3, <2>4, <2>5
  <1> QED BY <1>1, <1>2

\* ... and every step keeps them so.
LEMMA WorldStep ==
    ASSUME HanInv, WorldOK, [Next]_vars
    PROVE  WorldOK'
  <1> USE DEF dbVars, diskVars, poolVars, histVars, bounds
  <1>0. ASSUME Lapse \/ \E wrong \in BOOLEAN : Slip(wrong)
        PROVE  lapses' \in 0..MaxLapses
    BY <1>0, LapsesBounded DEF WorldOK
  <1>1. ASSUME NEW h \in Handler, Works(h) PROVE WorldOK'
    <2>1. CASE ResolveFails(h) \/ UpToDate(h) \/ ProbeRefused(h)
      <3>1. shown' \in SUBSET Inst
        BY <2>1 DEF ResolveFails, UpToDate, ProbeRefused, Refuse, HanInv, Named, WorldOK
      <3>2. lapses' \in 0..MaxLapses
        BY <1>0, <2>1 DEF ResolveFails, UpToDate, ProbeRefused, WorldOK
      <3> QED BY <3>1, <3>2, <2>1 DEF ResolveFails, UpToDate, ProbeRefused, WorldOK
    <2>2. ASSUME NEW c \in Commit, Resolve(h, c) PROVE WorldOK'
      <3>1. inst[h] \in Inst
        BY <2>2 DEF Resolve, HanInv, Named
      <3>2. PICK rest \in Wiped(src[inst[h]]) :
              /\ Slip(rest # {})
              /\ src' = [src EXCEPT ![inst[h]] = rest \cup {c}]
              /\ mixed' = IF rest = {} THEN mixed ELSE mixed \cup {inst[h]}
        BY <2>2 DEF Resolve
      <3>3. rest \in SUBSET Commit /\ lapses' \in 0..MaxLapses
        BY <1>0, <3>1, <3>2 DEF Wiped, WorldOK
      <3> QED BY <2>2, <3>1, <3>2, <3>3 DEF Resolve, WorldOK
    <2>3. CASE BuildBegins(h)
      <3>1. inst[h] \in Inst /\ commit[h] \in Commit
        BY <2>3 DEF BuildBegins, HanInv, Named, Resolved
      <3>2. PICK rest \in Wiped(building[inst[h]]) :
              /\ Slip(rest # {})
              /\ building' = [building EXCEPT ![inst[h]] = Scratch(h, rest)]
              /\ mixed' = IF rest = {} THEN mixed ELSE mixed \cup {inst[h]}
        BY <2>3 DEF BuildBegins
      <3>3. Scratch(h, rest) \in SUBSET Commit /\ lapses' \in 0..MaxLapses
        BY <1>0, <3>1, <3>2 DEF Wiped, Scratch, WorldOK
      <3>4. src' \in [Inst -> SUBSET Commit]
        BY <2>3, <3>1 DEF BuildBegins, DropSrc, Wiped, WorldOK
      <3> QED BY <2>3, <3>1, <3>2, <3>3, <3>4 DEF BuildBegins, WorldOK
    <2>4. CASE BuildFails(h) \/ ToolTimesOut(h) \/ InstallFails(h)
      <3>1. inst[h] \in Inst /\ commit[h] \in Commit
        BY <2>4 DEF BuildFails, ToolTimesOut, InstallFails, HanInv, Named, Resolved
      <3>2. src' \in [Inst -> SUBSET Commit] /\ lapses' \in 0..MaxLapses
        BY <1>0, <2>4, <3>1
        DEF BuildFails, ToolTimesOut, InstallFails, DropSrc, Wiped, WorldOK
      <3>3. strays' \in SUBSET (Inst \X Commit \X {"src", "building"})
        BY <2>4, <3>1 DEF BuildFails, ToolTimesOut, InstallFails, Orphan, WorldOK
      <3> QED
        BY <2>4, <3>2, <3>3 DEF BuildFails, ToolTimesOut, InstallFails, WorldOK
    <2>5. CASE CloneAgain(h)
      <3>1. inst[h] \in Inst /\ commit[h] \in Commit
        BY <2>5 DEF CloneAgain, HanInv, Named, Resolved
      <3>2. lapses' \in 0..MaxLapses
        BY <1>0, <2>5 DEF CloneAgain
      <3>3. strays' \in SUBSET (Inst \X Commit \X {"src", "building"})
        BY <2>5, <3>1 DEF CloneAgain, Orphan, WorldOK
      <3> QED BY <2>5, <3>1, <3>2, <3>3 DEF CloneAgain, WorldOK
    <2>6. CASE TakeDown(h)
      <3>1. inst[h] \in Inst
        BY <2>6 DEF TakeDown, HanInv, Named
      <3>2. env' \in [Inst -> Build \cup {None}]
        BY <2>6, <3>1, TornBuild DEF TakeDown, WorldOK
      <3>3. building' \in [Inst -> SUBSET Commit]
        BY <2>6, <3>1 DEF TakeDown, WorldOK
      <3> QED BY <2>6, <3>2, <3>3 DEF TakeDown, WorldOK
    <2>7. CASE Install(h)
      <3>1. inst[h] \in Inst
        BY <2>7 DEF Install, HanInv, Named
      <3>2. [of |-> building[inst[h]], whole |-> TRUE, legacy |-> FALSE] \in Build
        BY <3>1 DEF Build, WorldOK
      <3>3. src' \in [Inst -> SUBSET Commit] /\ lapses' \in 0..MaxLapses
        BY <1>0, <2>7, <3>1 DEF Install, DropSrc, Wiped, WorldOK
      <3> QED BY <2>7, <3>1, <3>2, <3>3 DEF Install, WorldOK
    <2>8. CASE Record(h)
      <3>1. inst[h] \in Inst /\ commit[h] \in Commit
        BY <2>8 DEF Record, HanInv, Named, Resolved
      <3> QED BY <2>8, <3>1 DEF Record, SetBuildState, Recorded, WorldOK
    <2>9. CASE Announce(h)
      BY <2>9 DEF Announce, WorldOK, HanInv, Named
    <2>10. CASE RecordFails(h)
      <3>1. lapses' \in 0..MaxLapses
        BY <1>0, <2>10 DEF RecordFails
      <3> QED BY <2>10, <3>1 DEF RecordFails, Refuse, WorldOK, HanInv, Named
    <2>11. CASE RecordError(h)
      <3>1. inst[h] \in Inst /\ saw[h].built \in Commit \cup {None}
        BY <2>11 DEF RecordError, HanInv, HandlersOK, Named, Seen
      <3>2. status' \in [Inst -> {"unbuilt", "ready", "error"}]
            /\ built' \in [Inst -> Commit \cup {None}]
        BY <2>11, <3>1 DEF RecordError, SetBuildState, WorldOK
      <3>3. lapses' \in 0..MaxLapses /\ unrecorded' \in SUBSET Inst
        BY <1>0, <2>11, <3>1 DEF RecordError, WorldOK
      <3> QED BY <2>11, <3>1, <3>2, <3>3 DEF RecordError, Refuse, WorldOK
    <2>12. CASE ProbeReads(h)
      BY <2>12 DEF ProbeReads, WorldOK
    <2>13. CASE Probe(h)
      BY <2>13 DEF Probe, Prepares, WorldOK, HanInv, Named
    <2>14. CASE CleanUp(h)
      <3>1. inst[h] \in Inst
        BY <2>14 DEF CleanUp, HanInv, Named
      <3>2. PICK kept, torn, files, homes \in SUBSET {inst[h]} :
              /\ Slip(kept \cup torn \cup files \cup homes # {})
              /\ RemoveEnv({inst[h]}, kept, torn)
              /\ Cleaned(inst[h], files, homes)
              /\ late' = late \cup kept \cup torn \cup files \cup homes
              /\ unrecorded' = unrecorded \cup torn
        BY <2>14 DEF CleanUp
      <3>3. lapses' \in 0..MaxLapses
        BY <1>0, <3>2
      <3>4. env' \in [Inst -> Build \cup {None}]
        BY <3>2, TornBuild DEF RemoveEnv, WorldOK
      <3> QED BY <2>14, <3>1, <3>2, <3>3, <3>4 DEF CleanUp, Cleaned, WorldOK
    <2>15. CASE PurgeRows(h)
      <3>1. lapses' \in 0..MaxLapses
        BY <1>0, <2>15 DEF PurgeRows, WorldOK
      <3> QED BY <2>15, <3>1 DEF PurgeRows, WorldOK
    <2>16. CASE FileCleared(h)
      <3>1. lapses' \in 0..MaxLapses
        BY <1>0, <2>16 DEF FileCleared
      <3> QED BY <2>16, <3>1 DEF FileCleared, WorldOK, HanInv, Named
    <2> QED
      BY <1>1, <2>1, <2>2, <2>3, <2>4, <2>5, <2>6, <2>7, <2>8, <2>9, <2>10, <2>11, <2>12,
         <2>13, <2>14, <2>15, <2>16
      DEF Works
  <1>2. ASSUME NEW h \in Handler,
               Lock(h) \/ ProbeDone(h) \/ RequestDropped(h) \/ PurgeFiles(h)
        PROVE  WorldOK'
    <2>1. CASE Lock(h)
      BY <2>1 DEF Lock, WorldOK
    <2>2. CASE ProbeDone(h)
      BY <2>2 DEF ProbeDone, WorldOK, HanInv, Named
    <2>3. CASE RequestDropped(h)
      <3>1. lapses' \in 0..MaxLapses
        BY <1>0, <2>3 DEF RequestDropped
      <3>2. strays' \in SUBSET (Inst \X Commit \X {"src", "building"})
        BY <2>3 DEF RequestDropped, Orphan, WorldOK, HanInv, Named, Resolved
      <3> QED BY <2>3, <3>1, <3>2 DEF RequestDropped, WorldOK, HanInv, Named
    <2>4. CASE PurgeFiles(h)
      <3> DEFINE gone == {i \in Inst : Exists(i)}
      <3>0. \E wrong \in BOOLEAN : Lapse \/ Slip(wrong)
        BY <2>4 DEF PurgeFiles
      <3>1. ops' \in 0..MaxOps /\ lapses' \in 0..MaxLapses
        BY <1>0, <2>4, <3>0, GitAssumption DEF PurgeFiles, Spend, WorldOK
      <3>2. CASE UNCHANGED <<env, home, shown, unrecorded>> /\ late' = late \cup gone
        BY <2>4, <3>1, <3>2 DEF PurgeFiles, WorldOK
      <3>3. ASSUME NEW kept \in SUBSET gone, NEW torn \in SUBSET gone,
                   NEW homes \in SUBSET gone, RemoveEnv(gone, kept, torn),
                   home' = home \ (gone \ homes), shown' = shown \ gone,
                   late' = late \cup kept \cup torn \cup homes \cup (workdir \cap gone),
                   unrecorded' = unrecorded \cup torn
            PROVE  WorldOK'
        <4>1. env' \in [Inst -> Build \cup {None}]
          BY <3>3, TornBuild DEF RemoveEnv, WorldOK
        <4> QED BY <2>4, <3>1, <3>3, <4>1 DEF PurgeFiles, WorldOK
      <3> QED BY <2>4, <3>2, <3>3 DEF PurgeFiles
    <2> QED BY <1>2, <2>1, <2>2, <2>3, <2>4
  <1>3. ASSUME NEW h \in Handler, NEW i \in Inst,
               \/ UpdateStart(h, i) \/ TestStart(h, i)
               \/ DeleteServer(h, i) \/ ClearConfigFile(h, i)
        PROVE  WorldOK'
    <2>1. lapses' \in 0..MaxLapses
      BY <1>0, <1>3 DEF UpdateStart, TestStart, DeleteServer, ClearConfigFile, WorldOK
    <2> QED
      BY <1>3, <2>1, GitAssumption
      DEF UpdateStart, TestStart, DeleteServer, ClearConfigFile, Spend, WorldOK
  <1>4. ASSUME NEW i \in Inst,
               TestRefused(i) \/ SpawnBegins(i) \/ SpawnChecks(i) \/ SpawnConnects(i)
               \/ ChildWrites(i) \/ ChildEnds(i)
        PROVE  WorldOK'
    <2>1. CASE TestRefused(i)
      <3>1. lapses' \in 0..MaxLapses
        BY <1>0, <2>1 DEF TestRefused
      <3> QED BY <2>1, <3>1, GitAssumption DEF TestRefused, Spend, WorldOK
    <2>2. CASE SpawnBegins(i)
      BY <2>2 DEF SpawnBegins, WorldOK
    <2>3. CASE SpawnChecks(i)
      <3>1. lapses' \in 0..MaxLapses
        BY <1>0, <2>3 DEF SpawnChecks, WorldOK
      <3> QED BY <2>3, <3>1 DEF SpawnChecks, SpawnEnds, WorldOK
    <2>4. CASE SpawnConnects(i)
      BY <2>4 DEF SpawnConnects, SpawnEnds, WorldOK
    <2>5. CASE ChildWrites(i) \/ ChildEnds(i)
      BY <2>5 DEF ChildWrites, ChildEnds, WorldOK
    <2> QED BY <1>4, <2>1, <2>2, <2>3, <2>4, <2>5
  <1>5. ASSUME NEW i \in Inst, SpawnExecs(i) PROVE WorldOK'
    <2>1. env[i] # None => env[i].of \in SUBSET Commit
      BY DEF WorldOK, Build
    <2> QED BY <1>5, <2>1 DEF SpawnExecs, SpawnEnds, Prepares, WorldOK
  <1>6. ASSUME NEW i \in Inst,
               \/ SetConfigFile(i)
               \/ \E to \in {"on", "off"} : SetEnabled(i, to)
        PROVE  WorldOK'
    <2>1. lapses' \in 0..MaxLapses
      BY <1>0, <1>6 DEF SetConfigFile, SetEnabled, WorldOK
    <2> QED BY <1>6, <2>1, GitAssumption DEF SetConfigFile, SetEnabled, Spend, WorldOK
  <1>7. ASSUME NEW to \in {"usable", "unreadable"}, SetCredential(to)
        PROVE  WorldOK'
    BY <1>7, GitAssumption DEF SetCredential, Spend, WorldOK
  <1>8. ASSUME NEW i \in Inst, NEW c \in Commit, StrayWrites(i, c) PROVE WorldOK'
    BY <1>8 DEF StrayWrites, WorldOK
  <1>9. CASE KeepWarm
    BY <1>9 DEF KeepWarm, Retained, WorldOK
  <1>10. CASE Crash
    <2>1. lapses' \in 0..MaxLapses
      BY <1>0, <1>10 DEF Crash
    <2>2. \A h \in Handler : Orphan(h) \in SUBSET (Inst \X Commit \X {"src", "building"})
      BY DEF Orphan, HanInv, Named, Resolved
    <2>3. strays' \in SUBSET (Inst \X Commit \X {"src", "building"})
      BY <1>10, <2>2 DEF Crash, WorldOK
    <2> QED BY <1>10, <2>1, <2>3 DEF Crash, WorldOK
  <1>11. CASE UNCHANGED vars
    BY <1>11 DEF vars, WorldOK
  <1> QED
    BY <1>1, <1>2, <1>3, <1>4, <1>5, <1>6, <1>7, <1>8, <1>9, <1>10, <1>11
    DEF Next

-----------------------------------------------------------------------------
(* Builds. *)

\* the checkout and the scratch directory of a build under way hold that build
ScratchInv ==
    \A h \in Handler :
        /\ pc[h] \in {"clone", "tool"} /\ inst[h] \notin mixed =>
              src[inst[h]] \subseteq {commit[h]}
        /\ pc[h] \in {"tool", "install"} =>
              /\ commit[h] \in building[inst[h]]
              /\ inst[h] \notin mixed => building[inst[h]] = {commit[h]}

\* between removal and rename no usable environment stands; after it, the new one
\* stands unless the server was removed, in whole or in part
SwapInv ==
    \A h \in Handler :
        /\ pc[h] = "install" => env[inst[h]] = None \/ ~env[inst[h]].whole
        /\ pc[h] = "record" =>
              \/ env[inst[h]] = None
              \/ /\ env[inst[h]].whole \/ inst[h] \in unrecorded
                 /\ commit[h] \in env[inst[h]].of
                 /\ inst[h] \notin mixed => env[inst[h]].of = {commit[h]}

BuildInv == ScratchInv /\ SwapInv /\ EnvIsOneBuild

\* the environment of i stays, or goes, perhaps only in part
Removed(i) ==
    \/ env'[i] = env[i] \/ env'[i] = None
    \/ env'[i] = Torn(env[i]) /\ i \in unrecorded'

\* remove_env removes, or fails to.
LEMMA RemoveEnvRemoves ==
    ASSUME NEW gone \in SUBSET Inst, NEW kept, NEW torn,
           RemoveEnv(gone, kept, torn), torn \subseteq unrecorded'
    PROVE  \A i \in Inst : Removed(i)
  BY DEF RemoveEnv, Removed

\* a step that builds and swaps nothing
Calm ==
    /\ UNCHANGED <<building, mixed>>
    /\ unrecorded \subseteq unrecorded'
    /\ \A i \in Inst : src'[i] \subseteq src[i]
    /\ \A i \in Inst : Removed(i)
    /\ \A i \in Inst : child'[i] = child[i] \/ child'[i] = {}
    /\ \A h \in Handler : pc'[h] \in {"clone", "tool", "install", "record"} =>
          pc'[h] = pc[h] /\ inst'[h] = inst[h] /\ commit'[h] = commit[h]

\* the steps that do
Stirs ==
    \/ \E h \in Handler :
          \/ \E c \in Commit : Resolve(h, c)
          \/ CloneAgain(h) \/ BuildBegins(h) \/ TakeDown(h) \/ Install(h) \/ Record(h)
    \/ \E i \in Inst : SpawnExecs(i) \/ \E c \in Commit : StrayWrites(i, c)

\* Only a build, a swap, a launch and a tool left running touch a build.
LEMMA CalmOrStirs ==
    ASSUME HanInv, WorldOK, [Next]_vars
    PROVE  Calm \/ Stirs
  <1> USE DEF HanInv, HandlersOK, WorldOK, Calm,
              dbVars, diskVars, hanVars, poolVars, histVars
  <1>0. ASSUME env' = env PROVE \A i \in Inst : Removed(i)
    BY <1>0 DEF Removed
  <1>1. ASSUME NEW h \in Handler, Works(h) PROVE Calm \/ Stirs
    <2>1. CASE ResolveFails(h) \/ RecordFails(h) \/ RecordError(h)
      BY <1>0, <2>1 DEF ResolveFails, RecordFails, RecordError, Refuse, Leave, Goto
    <2>2. CASE UpToDate(h)
      BY <1>0, <2>2 DEF UpToDate, Proceed, Leave, Goto
    <2>3. CASE Announce(h)
      BY <1>0, <2>3 DEF Announce, Proceed, Leave, Goto
    <2>4. CASE BuildFails(h) \/ ToolTimesOut(h) \/ InstallFails(h)
      <3>1. inst[h] \in Inst
        BY <2>4 DEF BuildFails, ToolTimesOut, InstallFails, Named
      <3>2. \A i \in Inst : src'[i] \subseteq src[i]
        BY <2>4, <3>1 DEF BuildFails, ToolTimesOut, InstallFails, DropSrc, Wiped
      <3> QED
        BY <1>0, <2>4, <3>2 DEF BuildFails, ToolTimesOut, InstallFails, Goto
    <2>5. CASE ProbeReads(h) \/ Probe(h)
      BY <1>0, <2>5 DEF ProbeReads, Probe, Goto
    <2>6. CASE ProbeRefused(h)
      BY <1>0, <2>6 DEF ProbeRefused, Refuse, Leave, Goto
    <2>7. CASE CleanUp(h)
      <3>1. inst[h] \in Inst
        BY <2>7 DEF CleanUp, Named
      <3>2. PICK kept, torn \in SUBSET {inst[h]} :
              RemoveEnv({inst[h]}, kept, torn) /\ unrecorded' = unrecorded \cup torn
        BY <2>7 DEF CleanUp
      <3>3. \A i \in Inst : Removed(i)
        BY <3>1, <3>2, RemoveEnvRemoves
      <3> QED BY <2>7, <3>2, <3>3 DEF CleanUp, Leave, Goto
    <2>8. CASE PurgeRows(h) \/ FileCleared(h)
      BY <1>0, <2>8 DEF PurgeRows, FileCleared, Leave, Goto
    <2>9. CASE (\E c \in Commit : Resolve(h, c)) \/ CloneAgain(h) \/ BuildBegins(h)
               \/ TakeDown(h) \/ Install(h) \/ Record(h)
      BY <2>9 DEF Stirs
    <2> QED
      BY <1>1, <2>1, <2>2, <2>3, <2>4, <2>5, <2>6, <2>7, <2>8, <2>9 DEF Works
  <1>2. ASSUME NEW h \in Handler, Lock(h) \/ ProbeDone(h) \/ RequestDropped(h)
        PROVE  Calm
    BY <1>0, <1>2 DEF Lock, ProbeDone, RequestDropped, Leave, Goto
  <1>3. ASSUME NEW h \in Handler, PurgeFiles(h) PROVE Calm
    <2> DEFINE gone == {i \in Inst : Exists(i)}
    <2>1. unrecorded \subseteq unrecorded' /\ \A i \in Inst : Removed(i)
      <3>1. CASE UNCHANGED <<env, unrecorded>>
        BY <1>0, <3>1
      <3>2. ASSUME NEW kept, NEW torn, RemoveEnv(gone, kept, torn),
                   unrecorded' = unrecorded \cup torn
            PROVE  unrecorded \subseteq unrecorded' /\ \A i \in Inst : Removed(i)
        BY <3>2, RemoveEnvRemoves
      <3> QED BY <1>3, <3>1, <3>2 DEF PurgeFiles
    <2> QED BY <1>3, <2>1 DEF PurgeFiles, Goto
  <1>4. ASSUME NEW h \in Handler, NEW i \in Inst,
               \/ UpdateStart(h, i) \/ TestStart(h, i)
               \/ DeleteServer(h, i) \/ ClearConfigFile(h, i)
        PROVE  Calm
    BY <1>0, <1>4 DEF UpdateStart, TestStart, DeleteServer, ClearConfigFile, Begin, Goto
  <1>5. ASSUME NEW i \in Inst,
               \/ TestRefused(i) \/ SpawnBegins(i) \/ SpawnChecks(i)
               \/ SpawnConnects(i) \/ ChildWrites(i) \/ ChildEnds(i) \/ SetConfigFile(i)
               \/ \E to \in {"on", "off"} : SetEnabled(i, to)
        PROVE  Calm
    BY <1>0, <1>5
    DEF TestRefused, SpawnBegins, SpawnChecks, SpawnConnects, ChildWrites, ChildEnds,
        SetConfigFile, SetEnabled
  <1>6. ASSUME KeepWarm \/ \E to \in {"usable", "unreadable"} : SetCredential(to)
        PROVE  Calm
    BY <1>0, <1>6 DEF SetCredential, KeepWarm
  <1>7. CASE Crash
    BY <1>0, <1>7 DEF Crash
  <1>8. CASE UNCHANGED vars
    BY <1>0, <1>8 DEF vars
  <1> QED
    BY <1>1, <1>2, <1>3, <1>4, <1>5, <1>6, <1>7, <1>8 DEF Next, Stirs

\* What an earlier life of the hub left is the build of one commit.
LEMMA BuildInit == Init => BuildInv
  BY GitAssumption DEF Init, BuildInv, ScratchInv, SwapInv, EnvIsOneBuild

\* Builds are never mixed: the lock makes the wiped scratch directory the
\* builder's own, and the swap puts exactly that directory up.
LEMMA BuildStep ==
    ASSUME HanInv, WorldOK, BuildInv, [Next]_vars
    PROVE  BuildInv'
  <1> USE DEF HanInv, HandlersOK, WorldOK
  <1>1. CASE Calm
    <2>1. ASSUME NEW h \in Handler, pc'[h] \in {"clone", "tool", "install", "record"}
          PROVE  pc'[h] = pc[h] /\ inst'[h] = inst[h] /\ commit'[h] = commit[h]
                 /\ inst[h] \in Inst
      BY <1>1, <2>1 DEF Calm, Named
    <2>2. ScratchInv'
      BY <1>1, <2>1 DEF BuildInv, ScratchInv, Calm
    <2>3. ASSUME NEW i \in Inst, env'[i] # None
          PROVE  /\ env[i] # None /\ env'[i].of = env[i].of
                 /\ ~env[i].whole => ~env'[i].whole
                 /\ env[i].whole => env'[i].whole \/ i \in unrecorded'
      BY <1>1, <2>3, TornBuild DEF Calm, Removed
    <2>4. SwapInv'
      BY <1>1, <2>1, <2>3 DEF BuildInv, SwapInv, Calm
    <2>5. EnvIsOneBuild'
      BY <1>1, <2>3 DEF BuildInv, EnvIsOneBuild, Calm
    <2> QED BY <2>2, <2>4, <2>5 DEF BuildInv
  <1>2. ASSUME NEW h \in Handler, NEW c \in Commit,
               Resolve(h, c) \/ CloneAgain(h) \/ BuildBegins(h) \/ Record(h)
        PROVE  BuildInv'
    <2> inst[h] \in Inst
      BY <1>2 DEF Resolve, CloneAgain, BuildBegins, Record, Named
    <2>0. lock = h
      BY <1>2 DEF Resolve, CloneAgain, BuildBegins, Record, LockInv, Building
    <2>1. \A g \in Handler \ {h} : pc[g] \notin Building
      BY <2>0 DEF LockInv
    <2>2. \A g \in Handler \ {h} : pc'[g] \notin Building
      BY <1>2, <2>1 DEF Resolve, CloneAgain, BuildBegins, Record, Goto, hanVars
    <2>3. ScratchInv'
      <3>1. CASE Resolve(h, c)
        BY <2>2, <3>1 DEF Resolve, Wiped, Goto, ScratchInv, Building
      <3>2. CASE CloneAgain(h)
        BY <2>2, <3>2 DEF CloneAgain, ScratchInv, Building, hanVars
      <3>3. CASE BuildBegins(h)
        <4>1. \A i \in Inst : src'[i] \subseteq src[i]
          BY <3>3 DEF BuildBegins, DropSrc, Wiped
        <4>2. commit[h] \in building'[inst[h]]
              /\ (inst[h] \notin mixed' => building'[inst[h]] = {commit[h]})
          BY <3>3 DEF BuildBegins, Wiped, Scratch
        <4>3. inst[h] \notin mixed' => inst[h] \notin mixed
          BY <3>3 DEF BuildBegins
        <4>4. pc'[h] = "tool" /\ UNCHANGED <<inst, commit>>
          BY <3>3 DEF BuildBegins, Goto
        <4>5. inst[h] \notin mixed => src[inst[h]] \subseteq {commit[h]}
          BY <3>3 DEF BuildBegins, BuildInv, ScratchInv
        <4> QED BY <2>2, <4>1, <4>2, <4>3, <4>4, <4>5 DEF ScratchInv, Building
      <3>4. CASE Record(h)
        BY <2>2, <3>4 DEF Record, Goto, ScratchInv, Building
      <3> QED BY <1>2, <3>1, <3>2, <3>3, <3>4
    <2>4. SwapInv'
      BY <1>2, <2>2
      DEF Resolve, CloneAgain, BuildBegins, Record, Goto, SwapInv, Building, hanVars
    <2>5. UNCHANGED <<env, child>> /\ mixed \subseteq mixed'
      BY <1>2
      DEF Resolve, CloneAgain, BuildBegins, Record, diskVars, histVars, poolVars
    <2>6. EnvIsOneBuild'
      BY <2>5 DEF BuildInv, EnvIsOneBuild
    <2> QED BY <2>3, <2>4, <2>6 DEF BuildInv
  <1>3. ASSUME NEW h \in Handler, TakeDown(h) PROVE BuildInv'
    <2> inst[h] \in Inst
      BY <1>3 DEF TakeDown, Named
    <2>0. lock = h
      BY <1>3 DEF TakeDown, LockInv, Building
    <2>1. \A g \in Handler \ {h} : pc[g] \notin Building
      BY <2>0 DEF LockInv
    <2>2. ScratchInv'
      BY <1>3, <2>1 DEF TakeDown, Goto, BuildInv, ScratchInv, Building, histVars
    <2>3. env'[inst[h]] = None \/ (env[inst[h]] # None /\ ~env'[inst[h]].whole
                                     /\ env'[inst[h]].of = env[inst[h]].of)
      BY <1>3, TornBuild DEF TakeDown
    <2>4. SwapInv'
      BY <1>3, <2>1, <2>3 DEF TakeDown, Goto, SwapInv, Building
    <2>5. \A i \in Inst \ {inst[h]} : env'[i] = env[i]
      BY <1>3 DEF TakeDown
    <2>6. EnvIsOneBuild'
      BY <1>3, <2>3, <2>5 DEF TakeDown, BuildInv, EnvIsOneBuild, histVars, poolVars
    <2> QED BY <2>2, <2>4, <2>6 DEF BuildInv
  <1>4. ASSUME NEW h \in Handler, Install(h) PROVE BuildInv'
    <2> inst[h] \in Inst /\ commit[h] \in Commit
      BY <1>4 DEF Install, Named, Resolved
    <2>0. lock = h
      BY <1>4 DEF Install, LockInv, Building
    <2>1. \A g \in Handler \ {h} : pc[g] \notin Building
      BY <2>0 DEF LockInv
    <2>2. ScratchInv'
      BY <1>4, <2>1 DEF Install, Goto, ScratchInv, Building
    <2>3. /\ env'[inst[h]].whole /\ env'[inst[h]].of = building[inst[h]]
          /\ \A i \in Inst \ {inst[h]} : env'[i] = env[i]
          /\ UNCHANGED <<mixed, child, commit, inst>>
      BY <1>4 DEF Install, poolVars
    <2>4. commit[h] \in building[inst[h]]
          /\ (inst[h] \notin mixed => building[inst[h]] = {commit[h]})
      BY <1>4 DEF Install, BuildInv, ScratchInv
    <2>5. SwapInv'
      BY <1>4, <2>1, <2>3, <2>4 DEF Install, Goto, SwapInv, Building
    <2>6. EnvIsOneBuild'
      BY <2>3, <2>4 DEF BuildInv, EnvIsOneBuild
    <2> QED BY <2>2, <2>5, <2>6 DEF BuildInv
  <1>5. ASSUME NEW i \in Inst, SpawnExecs(i) PROVE BuildInv'
    <2>1. ScratchInv' /\ SwapInv'
      BY <1>5 DEF SpawnExecs, BuildInv, ScratchInv, SwapInv, hanVars
    <2>2. EnvIsOneBuild'
      BY <1>5 DEF SpawnExecs, BuildInv, EnvIsOneBuild
    <2> QED BY <2>1, <2>2 DEF BuildInv
  <1>6. ASSUME NEW i \in Inst, NEW c \in Commit, StrayWrites(i, c) PROVE BuildInv'
    <2>1. ScratchInv'
      BY <1>6 DEF StrayWrites, BuildInv, ScratchInv, hanVars, Named, Building
    <2>2. SwapInv' /\ EnvIsOneBuild'
      BY <1>6 DEF StrayWrites, BuildInv, SwapInv, EnvIsOneBuild, hanVars, poolVars
    <2> QED BY <2>1, <2>2 DEF BuildInv
  <1>7. \E c \in Commit : TRUE
    BY GitAssumption
  <1> QED
    BY <1>1, <1>2, <1>3, <1>4, <1>5, <1>6, <1>7, CalmOrStirs DEF Stirs

-----------------------------------------------------------------------------
(* Records. *)

\* a step that leaves what is recorded and installed of i as it is, takes it away,
\* or is part of a swap
SteadyFor(i) ==
    \/ Swapping(i)' \/ i \in unrecorded'
    \/ /\ env'[i] = env[i] \/ env'[i] = None
       /\ status'[i] = status[i] /\ built'[i] = built[i]
       /\ i \in mixed => i \in mixed'
       /\ i \notin unrecorded
       /\ Exists(i)' => Exists(i)
       /\ ~Swapping(i)

\* Nothing but set_build_state changes a record outside a swap.
LEMMA SteadyOrRecords ==
    ASSUME HanInv, WorldOK, [Next]_vars, NEW i \in Inst
    PROVE  SteadyFor(i) \/ \E h \in Handler : Record(h) \/ RecordError(h)
  <1> USE DEF HanInv, HandlersOK, WorldOK, SteadyFor, Swapping, Exists,
              dbVars, diskVars, hanVars, poolVars, histVars
  <1>1. ASSUME NEW h \in Handler, Works(h), ~Record(h), ~RecordError(h)
        PROVE  SteadyFor(i)
    <2>1. CASE ResolveFails(h)
      BY <2>1 DEF ResolveFails, Refuse, Leave, Goto
    <2>2. CASE UpToDate(h)
      BY <2>2 DEF UpToDate, Proceed, Leave, Goto
    <2>3. CASE (\E c \in Commit : Resolve(h, c)) \/ CloneAgain(h)
      BY <2>3 DEF Resolve, CloneAgain, Goto
    <2>4. CASE BuildBegins(h) \/ ProbeReads(h) \/ Probe(h)
      BY <2>4 DEF BuildBegins, ProbeReads, Probe, Goto
    <2>5. CASE BuildFails(h) \/ ToolTimesOut(h) \/ InstallFails(h)
      BY <2>5 DEF BuildFails, ToolTimesOut, InstallFails, Goto
    <2>6. CASE TakeDown(h)
      BY <2>6 DEF TakeDown, Goto
    <2>7. CASE Install(h)
      BY <2>7 DEF Install, Goto
    <2>8. CASE Announce(h)
      BY <2>8 DEF Announce, Proceed, Leave, Goto
    <2>9. CASE RecordFails(h)
      BY <2>9 DEF RecordFails, Refuse, Leave, Goto
    <2>10. CASE ProbeRefused(h)
      BY <2>10 DEF ProbeRefused, Refuse, Leave, Goto
    <2>11. CASE CleanUp(h)
      <3>1. inst[h] \in Inst
        BY <2>11 DEF CleanUp, Named
      <3>2. PICK kept, torn \in SUBSET {inst[h]} :
              RemoveEnv({inst[h]}, kept, torn) /\ unrecorded' = unrecorded \cup torn
        BY <2>11 DEF CleanUp
      <3>3. Removed(i)
        BY <3>1, <3>2, RemoveEnvRemoves
      <3> QED BY <2>11, <3>2, <3>3 DEF CleanUp, Removed, Leave, Goto
    <2>12. CASE PurgeRows(h) \/ FileCleared(h)
      BY <2>12 DEF PurgeRows, FileCleared, Leave, Goto
    <2> QED
      BY <1>1, <2>1, <2>2, <2>3, <2>4, <2>5, <2>6, <2>7, <2>8, <2>9, <2>10, <2>11,
         <2>12 DEF Works
  <1>2. ASSUME NEW h \in Handler, Lock(h) \/ ProbeDone(h) \/ RequestDropped(h)
        PROVE  SteadyFor(i)
    BY <1>2 DEF Lock, ProbeDone, RequestDropped, Leave, Goto
  <1>3. ASSUME NEW h \in Handler, PurgeFiles(h) PROVE SteadyFor(i)
    <2> DEFINE gone == {j \in Inst : Exists(j)}
    <2>1. unrecorded \subseteq unrecorded' /\ Removed(i)
      <3>1. CASE UNCHANGED <<env, unrecorded>>
        BY <3>1 DEF Removed
      <3>2. ASSUME NEW kept, NEW torn, RemoveEnv(gone, kept, torn),
                   unrecorded' = unrecorded \cup torn
            PROVE  unrecorded \subseteq unrecorded' /\ Removed(i)
        BY <3>2, RemoveEnvRemoves
      <3> QED BY <1>3, <3>1, <3>2 DEF PurgeFiles
    <2> QED BY <1>3, <2>1 DEF PurgeFiles, Removed, Goto
  <1>4. ASSUME NEW h \in Handler, NEW j \in Inst,
               \/ UpdateStart(h, j) \/ TestStart(h, j)
               \/ DeleteServer(h, j) \/ ClearConfigFile(h, j)
        PROVE  SteadyFor(i)
    BY <1>4 DEF UpdateStart, TestStart, DeleteServer, ClearConfigFile, Begin, Goto
  <1>5. ASSUME NEW j \in Inst,
               \/ TestRefused(j) \/ SpawnBegins(j) \/ SpawnChecks(j) \/ SpawnExecs(j)
               \/ SpawnConnects(j) \/ ChildWrites(j) \/ ChildEnds(j) \/ SetConfigFile(j)
               \/ \E to \in {"on", "off"} : SetEnabled(j, to)
               \/ \E c \in Commit : StrayWrites(j, c)
        PROVE  SteadyFor(i)
    BY <1>5
    DEF TestRefused, SpawnBegins, SpawnChecks, SpawnExecs, SpawnConnects, ChildWrites,
        ChildEnds, SetConfigFile, SetEnabled, StrayWrites
  <1>6. ASSUME \/ \E to \in {"usable", "unreadable"} : SetCredential(to)
               \/ KeepWarm \/ UNCHANGED vars
        PROVE  SteadyFor(i)
    BY <1>6 DEF SetCredential, KeepWarm, vars
  <1>7. CASE Crash
    BY <1>7 DEF Crash
  <1> QED
    BY <1>1, <1>2, <1>3, <1>4, <1>5, <1>6, <1>7 DEF Next

\* A step that ends a swap records what it installed, or is a fault.
LEMMA RecordStep ==
    ASSUME HanInv, WorldOK, SwapInv, RecordedIsBuilt, [Next]_vars
    PROVE  RecordedIsBuilt'
  <1> USE DEF HanInv, HandlersOK, WorldOK
  <1>1. SUFFICES ASSUME NEW i \in Inst,
                        Exists(i)', status'[i] = "ready", env'[i] # None,
                        i \notin unrecorded' \cup mixed', ~Swapping(i)'
                 PROVE  env'[i].whole /\ env'[i].of = {built'[i]}
    BY DEF RecordedIsBuilt
  <1>2. CASE SteadyFor(i)
    BY <1>1, <1>2 DEF SteadyFor, RecordedIsBuilt
  <1>3. ASSUME NEW h \in Handler, Record(h)
        PROVE  env'[i].whole /\ env'[i].of = {built'[i]}
    <2>1. inst[h] \in Inst /\ commit[h] \in Commit
      BY <1>3 DEF Record, Named, Resolved
    <2>2. UNCHANGED <<row, env, mixed>>
      BY <1>3 DEF Record, diskVars
    <2>3. CASE i = inst[h]
      <3>1. built'[i] = commit[h]
        BY <1>1, <1>3, <2>1, <2>2, <2>3 DEF Record, SetBuildState, Recorded, Exists
      <3>2. env[i].of = {commit[h]} /\ (env[i].whole \/ i \in unrecorded)
        BY <1>1, <1>3, <2>2, <2>3 DEF Record, SwapInv
      <3>3. env[i] # Torn(env[i]) => env[i].whole
        BY <1>1, <2>2, TornBuild
      <3>4. env[i] = Torn(env[i]) => i \notin unrecorded
        BY <1>1, <1>3, <2>3 DEF Record
      <3> QED BY <2>2, <3>1, <3>2, <3>3, <3>4
    <2>4. CASE i # inst[h]
      <3>1. built'[i] = built[i] /\ status'[i] = status[i] /\ i \notin unrecorded
        BY <1>1, <1>3, <2>1, <2>4 DEF Record, SetBuildState
      <3>2. ~Swapping(i)
        <4>1. \A g \in Handler : g # h => pc'[g] = pc[g] /\ inst'[g] = inst[g]
          BY <1>3 DEF Record, Goto
        <4> QED BY <1>1, <2>4, <4>1 DEF Swapping
      <3> QED BY <1>1, <2>2, <3>1, <3>2 DEF RecordedIsBuilt, Exists
    <2> QED BY <2>3, <2>4
  <1>4. ASSUME NEW h \in Handler, RecordError(h)
        PROVE  env'[i].whole /\ env'[i].of = {built'[i]}
    <2>1. inst[h] \in Inst
      BY <1>4 DEF RecordError, Named
    <2>2. UNCHANGED <<row, env, mixed>>
      BY <1>4 DEF RecordError, diskVars
    <2>3. i # inst[h]
      BY <1>1, <1>4, <2>1, <2>2 DEF RecordError, SetBuildState, Exists
    <2>4. built'[i] = built[i] /\ status'[i] = status[i] /\ i \notin unrecorded
      BY <1>1, <1>4, <2>1, <2>3 DEF RecordError, SetBuildState
    <2>5. \A g \in Handler : g # h => pc'[g] = pc[g] /\ inst'[g] = inst[g]
      BY <1>4 DEF RecordError, Refuse, Leave, Goto
    <2>6. ~Swapping(i)
      BY <1>1, <2>3, <2>5 DEF Swapping
    <2> QED BY <1>1, <2>2, <2>4, <2>6 DEF RecordedIsBuilt, Exists
  <1> QED BY <1>2, <1>3, <1>4, SteadyOrRecords

\* At the start a record tells what is installed.
LEMMA RecordInit == Init => RecordedIsBuilt
  BY GitAssumption DEF Init, RecordedIsBuilt

-----------------------------------------------------------------------------
(* Relaunches. *)

Recording(i) ==
    \E h \in Handler : inst[h] = i /\ pc[h] \in {"record", "announce"}

Excused(i) == i \in owed \cup missed \/ Recording(i)

\* RebuildRelaunches, for launches under way too
RelaunchInv ==
    \A i \in Inst :
        child[i] # {} /\ env[i] # None /\ ~Excused(i) => child[i] = env[i].of

\* a step that changes neither what runs nor what is installed, or stops it, or
\* owes a relaunch
KeepsPace(i) ==
    \/ Excused(i)'
    \/ child'[i] = {}
    \/ env'[i] = None
    \/ child'[i] = env'[i].of
    \/ /\ child'[i] = child[i]
       /\ env[i] # None /\ env'[i].of = env[i].of
       /\ ~Excused(i)

\* A removal, complete or not, never installs anything else.
LEMMA RemovalPaces ==
    ASSUME WorldOK, NEW i \in Inst, Removed(i), env'[i] # None
    PROVE  env[i] # None /\ env'[i].of = env[i].of
  BY TornBuild DEF WorldOK, Removed

\* No step lets a running server fall behind without owing a relaunch.
LEMMA PaceKept ==
    ASSUME HanInv, WorldOK, [Next]_vars, NEW i \in Inst
    PROVE  KeepsPace(i)
  <1> USE DEF HanInv, HandlersOK, WorldOK, KeepsPace, Excused, Recording,
              dbVars, diskVars, hanVars, poolVars, histVars
  <1>1. ASSUME NEW h \in Handler, Works(h) PROVE KeepsPace(i)
    <2>1. CASE ResolveFails(h)
      BY <2>1 DEF ResolveFails, Refuse, Leave, Goto
    <2>2. CASE UpToDate(h)
      BY <2>2 DEF UpToDate, Proceed, Leave, Goto
    <2>3. CASE (\E c \in Commit : Resolve(h, c)) \/ CloneAgain(h)
      BY <2>3 DEF Resolve, CloneAgain, Goto
    <2>4. CASE BuildBegins(h) \/ ProbeReads(h) \/ Probe(h)
      BY <2>4 DEF BuildBegins, ProbeReads, Probe, Goto
    <2>5. CASE BuildFails(h) \/ ToolTimesOut(h) \/ InstallFails(h)
      BY <2>5 DEF BuildFails, ToolTimesOut, InstallFails, Goto
    <2>6. CASE TakeDown(h)
      <3>1. inst[h] \in Inst
        BY <2>6 DEF TakeDown, Named
      <3>2. env'[i] = None \/ (env[i] # None /\ env'[i].of = env[i].of)
        BY <2>6, <3>1, TornBuild DEF TakeDown
      <3> QED BY <2>6, <3>2 DEF TakeDown, Goto
    <2>7. CASE Install(h)
      BY <2>7 DEF Install, Goto
    <2>8. CASE Record(h)
      BY <2>8 DEF Record, Goto
    <2>9. CASE Announce(h)
      <3>1. \A g \in Handler : g # h => pc'[g] = pc[g] /\ inst'[g] = inst[g]
        BY <2>9 DEF Announce, Proceed, Leave, Goto
      <3>2. op[h] \in {"update", "test"}
        BY <2>9 DEF Announce, Named, Building
      <3>3. CASE i = inst[h]
        <4>1. i \in owed' \cup missed'
          BY <2>9, <3>2, <3>3 DEF Announce, Restarts
        <4> QED BY <4>1
      <3>4. CASE i # inst[h]
        <4>1. Excused(i) => Excused(i)'
          BY <2>9, <3>1, <3>4 DEF Announce
        <4> QED BY <2>9, <4>1 DEF Announce
      <3> QED BY <3>3, <3>4
    <2>10. CASE RecordFails(h) \/ RecordError(h)
      BY <2>10 DEF RecordFails, RecordError, Refuse, Leave, Goto
    <2>11. CASE ProbeRefused(h)
      BY <2>11 DEF ProbeRefused, Refuse, Leave, Goto
    <2>12. CASE CleanUp(h)
      <3>1. inst[h] \in Inst
        BY <2>12 DEF CleanUp, Named
      <3>2. PICK kept, torn \in SUBSET {inst[h]} :
              RemoveEnv({inst[h]}, kept, torn) /\ unrecorded' = unrecorded \cup torn
        BY <2>12 DEF CleanUp
      <3>3. env'[i] # None => env[i] # None /\ env'[i].of = env[i].of
        BY <3>1, <3>2, RemoveEnvRemoves, RemovalPaces
      <3> QED BY <2>12, <3>3 DEF CleanUp, Leave, Goto
    <2>13. CASE PurgeRows(h) \/ FileCleared(h)
      BY <2>13 DEF PurgeRows, FileCleared, Leave, Goto
    <2> QED
      BY <1>1, <2>1, <2>2, <2>3, <2>4, <2>5, <2>6, <2>7, <2>8, <2>9, <2>10, <2>11,
         <2>12, <2>13 DEF Works
  <1>2. ASSUME NEW h \in Handler, Lock(h) \/ ProbeDone(h) \/ RequestDropped(h)
        PROVE  KeepsPace(i)
    BY <1>2 DEF Lock, ProbeDone, RequestDropped, Leave, Goto
  <1>3. ASSUME NEW h \in Handler, PurgeFiles(h) PROVE KeepsPace(i)
    <2> DEFINE gone == {j \in Inst : Exists(j)}
    <2>1. env'[i] # None => env[i] # None /\ env'[i].of = env[i].of
      <3>1. CASE UNCHANGED <<env, unrecorded>>
        BY <3>1
      <3>2. ASSUME NEW kept, NEW torn, RemoveEnv(gone, kept, torn),
                   unrecorded' = unrecorded \cup torn
            PROVE  env'[i] # None => env[i] # None /\ env'[i].of = env[i].of
        BY <3>2, RemoveEnvRemoves, RemovalPaces
      <3> QED BY <1>3, <3>1, <3>2 DEF PurgeFiles
    <2> QED BY <1>3, <2>1 DEF PurgeFiles, Goto
  <1>4. ASSUME NEW h \in Handler, NEW j \in Inst,
               \/ UpdateStart(h, j) \/ TestStart(h, j)
               \/ DeleteServer(h, j) \/ ClearConfigFile(h, j)
        PROVE  KeepsPace(i)
    BY <1>4 DEF UpdateStart, TestStart, DeleteServer, ClearConfigFile, Begin, Goto
  <1>5. ASSUME NEW j \in Inst,
               \/ TestRefused(j) \/ SpawnBegins(j) \/ SpawnChecks(j) \/ SpawnExecs(j)
               \/ SpawnConnects(j) \/ ChildWrites(j) \/ ChildEnds(j) \/ SetConfigFile(j)
               \/ \E to \in {"on", "off"} : SetEnabled(j, to)
               \/ \E c \in Commit : StrayWrites(j, c)
        PROVE  KeepsPace(i)
    <2>1. CASE SpawnBegins(j)
      BY <2>1 DEF SpawnBegins
    <2>2. CASE SpawnExecs(j)
      <3>1. CASE i = j /\ env[j] # None
        BY <2>2, <3>1 DEF SpawnExecs
      <3>2. CASE i = j /\ env[j] = None
        BY <2>2, <3>2 DEF SpawnExecs
      <3>3. CASE i # j
        BY <2>2, <3>3 DEF SpawnExecs
      <3> QED BY <3>1, <3>2, <3>3
    <2>3. CASE SpawnConnects(j) \/ ChildWrites(j) \/ ChildEnds(j)
      BY <2>3 DEF SpawnConnects, ChildWrites, ChildEnds
    <2>4. CASE TestRefused(j) \/ SpawnChecks(j) \/ \E c \in Commit : StrayWrites(j, c)
      BY <2>4 DEF TestRefused, SpawnChecks, StrayWrites
    <2>5. CASE SetConfigFile(j) \/ \E to \in {"on", "off"} : SetEnabled(j, to)
      BY <2>5 DEF SetConfigFile, SetEnabled
    <2> QED BY <1>5, <2>1, <2>2, <2>3, <2>4, <2>5
  <1>6. ASSUME \/ \E to \in {"usable", "unreadable"} : SetCredential(to)
               \/ KeepWarm \/ UNCHANGED vars
        PROVE  KeepsPace(i)
    BY <1>6 DEF SetCredential, KeepWarm, vars
  <1>7. CASE Crash
    BY <1>7 DEF Crash
  <1> QED
    BY <1>1, <1>2, <1>3, <1>4, <1>5, <1>6, <1>7 DEF Next

\* Every step keeps what runs level with what is installed, or excused.
LEMMA RelaunchStep ==
    ASSUME HanInv, WorldOK, RelaunchInv, [Next]_vars
    PROVE  RelaunchInv'
  BY PaceKept DEF RelaunchInv, KeepsPace

\* At the start nothing runs.
LEMMA RelaunchInit == Init => RelaunchInv
  BY DEF Init, RelaunchInv
-----------------------------------------------------------------------------
(* Removal. *)

Purging == \E h \in Handler : pc[h] = "purge"

\* a removal of i's environment and HOME, of its working directory, is over, or is
\* over but for the rows
HomeGone(i) == (~Exists(i) \/ Purging) /\ ~Removing(i, {"clean"})
FileGone(i) == (i \notin config \/ Purging) /\ ~Removing(i, {"clean", "unfile"})

\* NothingLingers, and what it rests on while a user is being removed: files go
\* before the rows, so none may be left, or be written unnoticed, in between
LingerInv ==
    /\ \A i \in config : Exists(i)
    /\ \A i \in Inst \ late :
        /\ HomeGone(i) => env[i] = None /\ i \notin home
        /\ FileGone(i) => i \notin workdir

\* a step that writes no file, removes nothing and begins or ends no removal, or
\* gives one up
Tidy ==
    /\ UNCHANGED <<config, home, workdir>>
    /\ late \subseteq late'
    /\ \A i \in Inst : Exists(i)' <=> Exists(i)
    /\ \A i \in Inst : env[i] = None => env'[i] = None
    /\ \A h \in Handler : pc[h] \in {"clean", "unfile"} =>
          (pc'[h] = pc[h] /\ inst'[h] = inst[h]) \/ inst[h] \in late'
    /\ \A h \in Handler : pc'[h] = "purge" => pc[h] = "purge"

\* A tidy step leaves nothing behind.
LEMMA TidyKeeps ==
    ASSUME WorldOK, LingerInv, Tidy PROVE LingerInv'
  <1>1. \A i \in Inst \ late' :
           /\ Removing(i, {"clean"}) => Removing(i, {"clean"})'
           /\ Removing(i, {"clean", "unfile"}) => Removing(i, {"clean", "unfile"})'
    BY DEF Tidy, Removing
  <1>2. Purging' => Purging
    BY DEF Tidy, Purging
  <1>3. \A i \in Inst \ late' : /\ i \notin late
                                /\ HomeGone(i)' => HomeGone(i)
                                /\ FileGone(i)' => FileGone(i)
    BY <1>1, <1>2 DEF HomeGone, FileGone, Tidy
  <1> QED BY <1>3 DEF LingerInv, Tidy, WorldOK

\* steps that begin and end no removal
Undisturbed ==
    /\ UNCHANGED inst
    /\ \A h \in Handler : \A step \in {"clean", "unfile", "purge"} :
          pc'[h] = step <=> pc[h] = step

\* Such a step removes what was being removed.
LEMMA UndisturbedKeeps ==
    ASSUME Undisturbed
    PROVE  /\ Purging' <=> Purging
           /\ \A i \in Inst :
                /\ Removing(i, {"clean"})' <=> Removing(i, {"clean"})
                /\ Removing(i, {"clean", "unfile"})' <=> Removing(i, {"clean", "unfile"})
  BY DEF Undisturbed, Purging, Removing

\* a launch or a probe writes HOME and perhaps a copy of the config file
LEMMA PreparesKeeps ==
    ASSUME WorldOK, LingerInv, NEW i \in Inst, NEW file \in BOOLEAN, Prepares(i, file),
           UNCHANGED <<row, config, env>>, Undisturbed
    PROVE  LingerInv'
  <1>1. \A j \in Inst : /\ Exists(j)' <=> Exists(j)
                        /\ HomeGone(j)' <=> HomeGone(j)
                        /\ FileGone(j)' <=> FileGone(j)
    BY UndisturbedKeeps DEF Exists, HomeGone, FileGone
  <1>2. ASSUME NEW j \in Inst \ late', j # i
        PROVE  /\ HomeGone(j)' => env'[j] = None /\ j \notin home'
               /\ FileGone(j)' => j \notin workdir'
    <2>1. j \notin late
      BY <1>2 DEF Prepares
    <2>2. (j \in home' <=> j \in home) /\ (j \in workdir' <=> j \in workdir)
      BY <1>2 DEF Prepares
    <2> QED BY <1>1, <2>1, <2>2 DEF LingerInv
  <1>3. ASSUME i \notin late'
        PROVE  ~HomeGone(i)' /\ (FileGone(i)' => i \notin workdir')
    <2>1. ~TooLate(i) /\ ~(file /\ i \notin config) /\ i \notin late
      BY <1>3 DEF Prepares
    <2>2. Exists(i) /\ ~Purging
      BY <2>1 DEF TooLate, Purging
    <2>3. FileGone(i) => i \notin workdir
      BY <2>1 DEF LingerInv
    <2>4. FileGone(i) => i \notin config
      BY <2>2 DEF FileGone
    <2>5. ~HomeGone(i)
      BY <2>2 DEF HomeGone
    <2>6. ~file => workdir' = workdir
      BY DEF Prepares
    <2> QED BY <1>1, <2>1, <2>3, <2>4, <2>5, <2>6
  <1>4. \A j \in config' : Exists(j)'
    BY <1>1 DEF LingerInv, WorldOK
  <1> QED BY <1>2, <1>3, <1>4 DEF LingerInv

\* ... which a running server may do as well.
LEMMA HomeKeeps ==
    ASSUME WorldOK, LingerInv, NEW i \in Inst, Undisturbed,
           home' = home \cup {i}, UNCHANGED <<row, config, env, workdir>>,
           late' = IF TooLate(i) THEN late \cup {i} ELSE late
    PROVE  LingerInv'
  <1>1. late' = IF TooLate(i) \/ (FALSE /\ i \notin config) THEN late \cup {i} ELSE late
    OBVIOUS
  <1>2. Prepares(i, FALSE)
    BY <1>1 DEF Prepares
  <1> QED BY <1>2, PreparesKeeps

\* Every step leaves on disk only files of servers that exist, or leaves them
\* late.
LEMMA LingerStep ==
    ASSUME HanInv, WorldOK, LingerInv, [Next]_vars
    PROVE  LingerInv'
  <1> USE DEF HanInv, HandlersOK, WorldOK,
              dbVars, diskVars, hanVars, poolVars, histVars
  <1>1. ASSUME NEW h \in Handler, Works(h) PROVE LingerInv'
    <2>1. CASE ResolveFails(h) \/ RecordFails(h) \/ RecordError(h) \/ ProbeRefused(h)
      <3>1. Tidy
        BY <2>1 DEF ResolveFails, RecordFails, RecordError, ProbeRefused, Refuse, Leave,
                    Goto, Tidy, Exists
      <3> QED BY <3>1, TidyKeeps
    <2>2. CASE UpToDate(h) \/ Announce(h)
      <3>1. Tidy
        BY <2>2 DEF UpToDate, Announce, Proceed, Leave, Goto, Tidy, Exists
      <3> QED BY <3>1, TidyKeeps
    <2>3. CASE (\E c \in Commit : Resolve(h, c)) \/ CloneAgain(h)
      <3>1. Tidy
        BY <2>3 DEF Resolve, CloneAgain, Goto, Tidy, Exists
      <3> QED BY <3>1, TidyKeeps
    <2>4. CASE Record(h)
      <3>1. Tidy
        BY <2>4 DEF Record, Goto, Tidy, Exists
      <3> QED BY <3>1, TidyKeeps
    <2>5. CASE BuildBegins(h) \/ BuildFails(h) \/ ToolTimesOut(h)
               \/ InstallFails(h) \/ ProbeReads(h)
      <3>1. Tidy
        BY <2>5 DEF BuildBegins, BuildFails, ToolTimesOut, InstallFails,
                    ProbeReads, Goto, Tidy, Exists
      <3> QED BY <3>1, TidyKeeps
    <2>6. CASE TakeDown(h)
      <3>1. \A i \in Inst : env[i] = None => env'[i] = None
        BY <2>6, TornBuild DEF TakeDown, Named
      <3>2. Tidy
        BY <2>6, <3>1 DEF TakeDown, Goto, Tidy, Exists
      <3> QED BY <3>2, TidyKeeps
    <2>7. CASE Install(h)
      <3>1. inst[h] \in Inst
        BY <2>7 DEF Install, Named
      <3>2. Undisturbed
        BY <2>7 DEF Install, Goto, Undisturbed
      <3>3. \A i \in Inst : /\ Exists(i)' <=> Exists(i)
                            /\ HomeGone(i)' <=> HomeGone(i)
                            /\ FileGone(i)' <=> FileGone(i)
        BY <2>7, <3>2, UndisturbedKeeps DEF Install, Exists, HomeGone, FileGone
      <3>4. inst[h] \notin late' => ~HomeGone(inst[h])
        BY <2>7 DEF Install, TooLate, Purging, HomeGone
      <3>5. /\ \A i \in Inst \ {inst[h]} : env'[i] = env[i]
            /\ late \subseteq late' /\ UNCHANGED <<config, home, workdir>>
        BY <2>7 DEF Install
      <3> QED BY <3>1, <3>3, <3>4, <3>5 DEF LingerInv
    <2>8. CASE Probe(h)
      <3>1. inst[h] \in Inst
        BY <2>8 DEF Probe, Named
      <3>2. Undisturbed
        BY <2>8 DEF Probe, Goto, Undisturbed
      <3>3. CASE h \in loaded
        <4>1. Prepares(inst[h], TRUE)
          BY <2>8, <3>3 DEF Probe, Prepares
        <4> QED BY <2>8, <3>1, <3>2, <4>1, PreparesKeeps DEF Probe
      <3>4. CASE h \notin loaded
        <4>1. Prepares(inst[h], FALSE)
          BY <2>8, <3>4 DEF Probe, Prepares
        <4> QED BY <2>8, <3>1, <3>2, <4>1, PreparesKeeps DEF Probe
      <3> QED BY <3>3, <3>4
    <2>9. CASE CleanUp(h)
      <3>1. PICK i \in Inst : i = inst[h]
        BY <2>9 DEF CleanUp, Named
      <3>2. PICK kept, torn, files, homes \in SUBSET {i} :
              /\ RemoveEnv({i}, kept, torn)
              /\ Cleaned(i, files, homes)
              /\ late' = late \cup kept \cup torn \cup files \cup homes
        BY <2>9, <3>1 DEF CleanUp
      <3>3. /\ i \notin late' => env'[i] = None /\ i \notin home' \cup workdir'
            /\ \A j \in Inst \ {i} : /\ env'[j] = env[j]
                                     /\ j \in home' <=> j \in home
                                     /\ j \in workdir' <=> j \in workdir
            /\ UNCHANGED config /\ late \subseteq late'
        BY <2>9, <3>2 DEF CleanUp, RemoveEnv, Cleaned
      <3>4. \A j \in Inst : Exists(j)' <=> Exists(j)
        BY <2>9 DEF CleanUp, Exists
      <3>5. Purging' <=> Purging
        BY <2>9 DEF CleanUp, Leave, Goto, Purging
      <3>6. \A j \in Inst \ {i} :
              /\ Removing(j, {"clean"})' <=> Removing(j, {"clean"})
              /\ Removing(j, {"clean", "unfile"})' <=> Removing(j, {"clean", "unfile"})
        BY <2>9, <3>1 DEF CleanUp, Leave, Goto, Removing
      <3>7. \A j \in Inst \ {i} : /\ HomeGone(j)' => HomeGone(j)
                                  /\ FileGone(j)' => FileGone(j)
        BY <3>3, <3>4, <3>5, <3>6 DEF HomeGone, FileGone
      <3> QED BY <3>3, <3>4, <3>7 DEF LingerInv
    <2>10. CASE FileCleared(h)
      <3>1. PICK i \in Inst : i = inst[h]
        BY <2>10 DEF FileCleared, Named
      <3>2. /\ i \notin late' => i \notin workdir'
            /\ \A j \in Inst \ {i} : j \in workdir' <=> j \in workdir
            /\ UNCHANGED <<config, env, home>> /\ late \subseteq late'
        BY <2>10, <3>1 DEF FileCleared
      <3>3. \A j \in Inst : Exists(j)' <=> Exists(j)
        BY <2>10 DEF FileCleared, Exists
      <3>4. Purging' <=> Purging
        BY <2>10 DEF FileCleared, Leave, Goto, Purging
      <3>5. \A j \in Inst : Removing(j, {"clean"})' <=> Removing(j, {"clean"})
        BY <2>10 DEF FileCleared, Leave, Goto, Removing
      <3>6. \A j \in Inst \ {i} :
              Removing(j, {"clean", "unfile"})' <=> Removing(j, {"clean", "unfile"})
        BY <2>10, <3>1 DEF FileCleared, Leave, Goto, Removing
      <3>7. /\ \A j \in Inst : HomeGone(j)' => HomeGone(j)
            /\ \A j \in Inst \ {i} : FileGone(j)' => FileGone(j)
        BY <3>2, <3>3, <3>4, <3>5, <3>6 DEF HomeGone, FileGone
      <3> QED BY <3>2, <3>3, <3>7 DEF LingerInv
    <2>11. CASE PurgeRows(h)
      <3>1. Purging
        BY <2>11 DEF PurgeRows, Purging
      <3>2. \A i \in Inst :
              /\ Removing(i, {"clean"})' <=> Removing(i, {"clean"})
              /\ Removing(i, {"clean", "unfile"})' <=> Removing(i, {"clean", "unfile"})
        BY <2>11 DEF PurgeRows, Leave, Goto, Removing
      <3>3. UNCHANGED <<env, home, workdir, late>>
        BY <2>11 DEF PurgeRows
      <3>4. \A i \in Inst : /\ HomeGone(i)' => HomeGone(i)
                            /\ FileGone(i)' => FileGone(i)
        BY <3>1, <3>2 DEF HomeGone, FileGone
      <3>5. \A i \in config' : Exists(i)'
        BY <2>11 DEF PurgeRows, LingerInv, Exists
      <3> QED BY <3>3, <3>4, <3>5 DEF LingerInv
    <2> QED
      BY <1>1, <2>1, <2>2, <2>3, <2>4, <2>5, <2>6, <2>7, <2>8, <2>9, <2>10, <2>11 DEF Works
  <1>2. ASSUME NEW h \in Handler, Lock(h) \/ ProbeDone(h) \/ RequestDropped(h)
        PROVE  LingerInv'
    <2>1. Tidy
      BY <1>2 DEF Lock, ProbeDone, RequestDropped, Leave, Goto, Tidy, Exists
    <2> QED BY <2>1, TidyKeeps
  <1>3. ASSUME NEW h \in Handler, PurgeFiles(h) PROVE LingerInv'
    <2> DEFINE gone == {i \in Inst : Exists(i)}
    <2>1. \A i \in Inst :
            /\ Exists(i)' <=> Exists(i)
            /\ Removing(i, {"clean"})' <=> Removing(i, {"clean"})
            /\ Removing(i, {"clean", "unfile"})' <=> Removing(i, {"clean", "unfile"})
      BY <1>3 DEF PurgeFiles, Goto, Removing, Exists
    <2>2. UNCHANGED <<config, workdir>>
      BY <1>3 DEF PurgeFiles
    <2>3. \A i \in Inst \ gone : /\ HomeGone(i)' => HomeGone(i)
                                 /\ FileGone(i)' => FileGone(i)
      BY <2>1, <2>2 DEF HomeGone, FileGone, LingerInv
    <2> DEFINE Swept ==
          /\ late \subseteq late'
          /\ \A i \in gone \ late' : env'[i] = None /\ i \notin home' \cup workdir'
          /\ \A i \in Inst \ gone : env'[i] = env[i] /\ (i \in home' <=> i \in home)
    <2>4. Swept
      <3>1. CASE late' = late \cup gone /\ UNCHANGED <<env, home>>
        BY <3>1
      <3>2. ASSUME NEW kept \in SUBSET gone, NEW torn \in SUBSET gone,
                   NEW homes \in SUBSET gone,
                   RemoveEnv(gone, kept, torn),
                   home' = home \ (gone \ homes),
                   late' = late \cup kept \cup torn \cup homes \cup (workdir \cap gone)
            PROVE  Swept
        BY <2>2, <3>2 DEF RemoveEnv
      <3> QED BY <1>3, <3>1, <3>2 DEF PurgeFiles
    <2> QED BY <2>1, <2>2, <2>3, <2>4 DEF LingerInv
  <1>4. ASSUME NEW h \in Handler, NEW i \in Inst, UpdateStart(h, i) \/ TestStart(h, i)
        PROVE  LingerInv'
    <2>1. Tidy
      BY <1>4 DEF UpdateStart, TestStart, Begin, Goto, Tidy, Exists
    <2> QED BY <2>1, TidyKeeps
  <1>5. ASSUME NEW h \in Handler, NEW i \in Inst,
               DeleteServer(h, i) \/ ClearConfigFile(h, i)
        PROVE  LingerInv'
    <2>1. /\ DeleteServer(h, i) => Removing(i, {"clean"})'
          /\ Removing(i, {"clean", "unfile"})'
      BY <1>5 DEF DeleteServer, ClearConfigFile, Begin, Goto, Removing
    <2>2. /\ \A j \in Inst : Removing(j, {"clean"}) => Removing(j, {"clean"})'
          /\ \A j \in Inst \ {i} :
                Removing(j, {"clean", "unfile"}) => Removing(j, {"clean", "unfile"})'
      BY <1>5 DEF DeleteServer, ClearConfigFile, Begin, Goto, Removing
    <2>3. Purging' => Purging
      BY <1>5 DEF DeleteServer, ClearConfigFile, Begin, Goto, Purging
    <2>4. /\ \A j \in Inst \ {i} : (Exists(j)' <=> Exists(j))
                                     /\ (j \in config' <=> j \in config)
          /\ config' \subseteq config
          /\ UNCHANGED <<env, home, workdir, late>>
      BY <1>5 DEF DeleteServer, ClearConfigFile, Exists
    <2>5. i \in config' => Exists(i)'
      BY <1>5 DEF DeleteServer, ClearConfigFile, Exists, LingerInv
    <2>6. HomeGone(i)' => HomeGone(i)
      <3>1. CASE DeleteServer(h, i)
        BY <2>1, <3>1 DEF HomeGone
      <3>2. CASE ClearConfigFile(h, i)
        BY <2>2, <2>3, <3>2 DEF ClearConfigFile, Exists, HomeGone
      <3> QED BY <1>5, <3>1, <3>2
    <2>7. ~FileGone(i)'
      BY <2>1 DEF FileGone
    <2>8. \A j \in Inst \ {i} : /\ HomeGone(j)' => HomeGone(j)
                                /\ FileGone(j)' => FileGone(j)
      BY <2>2, <2>3, <2>4 DEF HomeGone, FileGone
    <2> QED BY <2>4, <2>5, <2>6, <2>7, <2>8 DEF LingerInv
  <1>6. ASSUME NEW i \in Inst,
               \/ TestRefused(i) \/ SpawnBegins(i) \/ SpawnChecks(i)
               \/ SpawnConnects(i) \/ ChildEnds(i)
               \/ \E to \in {"on", "off"} : SetEnabled(i, to)
               \/ \E c \in Commit : StrayWrites(i, c)
        PROVE  LingerInv'
    <2>1. Tidy
      BY <1>6 DEF TestRefused, SpawnBegins, SpawnChecks, SpawnConnects, ChildEnds,
                  SetEnabled, StrayWrites, Tidy, Exists
    <2> QED BY <2>1, TidyKeeps
  <1>7. ASSUME NEW i \in Inst, SpawnExecs(i) PROVE LingerInv'
    <2>0. Undisturbed
      BY <1>7 DEF SpawnExecs, Undisturbed
    <2>1. CASE i \in loaded
      <3>1. Prepares(i, TRUE)
        BY <1>7, <2>1 DEF SpawnExecs, Prepares
      <3> QED BY <1>7, <2>0, <3>1, PreparesKeeps DEF SpawnExecs
    <2>2. CASE i \notin loaded
      <3>1. Prepares(i, FALSE)
        BY <1>7, <2>2 DEF SpawnExecs, Prepares
      <3> QED BY <1>7, <2>0, <3>1, PreparesKeeps DEF SpawnExecs
    <2> QED BY <2>1, <2>2
  <1>8. ASSUME NEW i \in Inst, ChildWrites(i) PROVE LingerInv'
    <2>1. Undisturbed
      BY <1>8 DEF ChildWrites, Undisturbed
    <2> QED BY <1>8, <2>1, HomeKeeps DEF ChildWrites
  <1>9. ASSUME NEW i \in Inst, SetConfigFile(i) PROVE LingerInv'
    <2>1. Undisturbed
      BY <1>9 DEF SetConfigFile, Undisturbed
    <2>2. \A j \in Inst : /\ Exists(j)' <=> Exists(j)
                          /\ HomeGone(j)' => HomeGone(j)
                          /\ FileGone(j)' => FileGone(j)
      BY <1>9, <2>1, UndisturbedKeeps DEF SetConfigFile, Exists, HomeGone, FileGone
    <2> QED BY <1>9, <2>2 DEF SetConfigFile, LingerInv
  <1>10. ASSUME \/ \E to \in {"usable", "unreadable"} : SetCredential(to)
                \/ KeepWarm \/ UNCHANGED vars
         PROVE  LingerInv'
    <2>1. Tidy
      BY <1>10 DEF SetCredential, KeepWarm, vars, Tidy, Exists
    <2> QED BY <2>1, TidyKeeps
  <1>11. CASE Crash
    <2>1. Tidy
      BY <1>11 DEF Crash, Tidy, Exists, Named
    <2> QED BY <2>1, TidyKeeps
  <1> QED
    BY <1>1, <1>2, <1>3, <1>4, <1>5, <1>6, <1>7, <1>8, <1>9, <1>10, <1>11 DEF Next

\* At the start no server has been removed.
LEMMA LingerInit == Init => LingerInv
  BY DEF Init, LingerInv, HomeGone, FileGone, Exists, Purging
-----------------------------------------------------------------------------
(* The refinement. *)

\* the state of Deployment that a state stands for
Turn == IF lock = None \/ pc[lock] = "announce" THEN None ELSE inst[lock]
Site == [i \in Inst |-> SiteOf(i)]
Ledger == [i \in Inst |-> IF status[i] = "ready" THEN built[i] ELSE None]

\* a complete build of one commit stands for that commit
LEMMA SiteOfWhole ==
    ASSUME NEW i \in Inst, NEW c \in Commit,
           env[i] # None, env[i].whole, env[i].of = {c}
    PROVE  SiteOf(i) = c
  <1>1. \A d \in Commit : env[i].of = {d} <=> d = c
    OBVIOUS
  <1>2. (CHOOSE d \in Commit : env[i].of = {d}) = c
    BY <1>1
  <1> QED BY <1>1, <1>2 DEF SiteOf

\* a site depends on its environment alone
SiteFor(e) ==
    IF e = None THEN None
    ELSE IF e.whole /\ \E c \in Commit : e.of = {c}
    THEN CHOOSE c \in Commit : e.of = {c}
    ELSE Spoiled

\* ... and so is the same before and after a step that leaves it alone.
LEMMA SiteDepends ==
    ASSUME NEW i \in Inst
    PROVE  SiteOf(i) = SiteFor(env[i]) /\ SiteOf(i)' = SiteFor(env'[i])
  BY DEF SiteOf, SiteFor

\* what stands at a site is a commit, nothing or something unusable
LEMMA SiteRange ==
    ASSUME NEW e
    PROVE  /\ e = None => SiteFor(e) = None
           /\ e # None => SiteFor(e) \in Commit \cup {Spoiled}
           /\ e # None /\ ~e.whole => SiteFor(e) = Spoiled
  BY DEF SiteFor

\* An initial state stands for an initial state of Deployment.
LEMMA RefinesInit == Init => Promise!Init
  <1> SUFFICES ASSUME Init PROVE Promise!Init
    OBVIOUS
  <1>1. PICK old \in SUBSET Inst, was \in BOOLEAN, c \in Commit :
          /\ status = [i \in Inst |-> IF i \in old THEN "ready" ELSE "unbuilt"]
          /\ built = [i \in Inst |-> IF i \in old THEN c ELSE None]
          /\ env = [i \in Inst |->
                IF i \in old
                THEN [of |-> {c}, whole |-> TRUE, legacy |-> was] ELSE None]
    BY DEF Init
  <1>2. \A i \in Inst : SiteOf(i) = IF i \in old THEN c ELSE None
    <2> TAKE i \in Inst
    <2>1. CASE i \in old
      <3>1. env[i] = [of |-> {c}, whole |-> TRUE, legacy |-> was]
        BY <1>1, <2>1
      <3>2. env[i] # None
        <4>1. [of |-> {c}, whole |-> TRUE, legacy |-> was] \in Build
          BY DEF Build
        <4> QED BY <3>1, <4>1, GitAssumption
      <3> QED BY <2>1, <3>1, <3>2, SiteOfWhole
    <2>2. CASE i \notin old
      BY <1>1, <2>2 DEF SiteOf
    <2> QED BY <2>1, <2>2
  <1>3. Turn = None /\ Site \in [Inst -> Commit \cup {None}] /\ Ledger = Site
    BY <1>1, <1>2 DEF Init, Turn, Site, Ledger
  <1> QED BY <1>3 DEF Promise!Init, Turn, Site, Ledger

\* nobody else holds the lock
LEMMA HolderOnly ==
    ASSUME HanInv, NEW h \in Handler, pc[h] \in Building \ {"announce"}
    PROVE  Turn = inst[h] /\ lock = h
  BY GitAssumption DEF HanInv, HandlersOK, LockInv, Turn

\* a step that Deployment does not see
Unseen == UNCHANGED <<env, status, built>> /\ Turn' = Turn

\* a step that only ends a turn
Ended == UNCHANGED <<env, status, built>> /\ lock' = None

\* An unseen step is a stutter of Deployment.
LEMMA UnseenStutters ==
    ASSUME Unseen
    PROVE  [Promise!Next]_<<Turn, Site, Ledger>>
  BY DEF Unseen, Site, SiteOf, Ledger

\* A build that ends with nothing recorded is an abandoned turn.
LEMMA EndedAbandons ==
    ASSUME Ended
    PROVE  Promise!Abandon
  <1>1. Turn' = None
    BY DEF Ended, Turn
  <1>2. UNCHANGED <<Site, Ledger>>
    BY DEF Ended, Site, SiteOf, Ledger
  <1> QED BY <1>1, <1>2 DEF Promise!Abandon, Turn, Site, Ledger

\* a handler that does not hold the lock takes no turn away
LEMMA OthersTurn ==
    ASSUME HanInv, NEW h \in Handler, lock # h, lock' = lock,
           \A g \in Handler \ {h} : inst'[g] = inst[g] /\ pc'[g] = pc[g]
    PROVE  Turn' = Turn
  BY DEF HanInv, HandlersOK, Turn

\* a handler leaves: either it ends its turn or it had none
LEMMA LeaveSeen ==
    ASSUME HanInv, NEW h \in Handler, Leave(h), UNCHANGED <<env, status, built>>
    PROVE  Unseen \/ Ended
  <1>1. CASE lock = h
    BY <1>1 DEF Leave, Unlocked, Ended
  <1>2. CASE lock # h
    <2>1. lock' = lock /\ \A g \in Handler \ {h} : inst'[g] = inst[g] /\ pc'[g] = pc[g]
      BY <1>2 DEF Leave, Unlocked, Goto, HanInv, HandlersOK
    <2> QED BY <1>2, <2>1, OthersTurn DEF Unseen
  <1> QED BY <1>1, <1>2

\* the holder goes on without its lock, or ends
LEMMA ProceedSeen ==
    ASSUME HanInv, NEW h \in Handler, Proceed(h), pc[h] \in Building
    PROVE  lock' = None
  BY DEF HanInv, LockInv, Proceed, Leave, Unlocked

\* remove_dir_all and rename are a site taken down and put up in its turn.
LEMMA RefinesSwap ==
    ASSUME HanInv, WorldOK, BuildInv, NEW h \in Handler, TakeDown(h) \/ Install(h)
    PROVE  Promise!Next
  <1> USE DEF HanInv, HandlersOK, WorldOK
  <1>0. PICK i \in Inst : i = inst[h]
    BY DEF TakeDown, Install, Named
  <1>1. Turn = i
    BY <1>0, HolderOnly DEF TakeDown, Install, Building
  <1>2. Turn' = Turn /\ Ledger' = Ledger
    <2>1. lock = h /\ pc[h] # "announce" /\ pc'[h] # "announce"
      BY HolderOnly DEF TakeDown, Install, Goto, Building
    <2> QED BY <2>1 DEF TakeDown, Install, dbVars, Turn, Ledger
  <1>3. \A j \in Inst \ {i} : env'[j] = env[j]
    BY <1>0 DEF TakeDown, Install
  <1>4. \A j \in Inst \ {i} : SiteOf(j)' = SiteOf(j)
    BY <1>3, SiteDepends
  <1>5. Site' = [Site EXCEPT ![i] = SiteOf(i)']
    BY <1>4 DEF Site
  <1>6. CASE TakeDown(h)
    <2>1. env'[i] = None \/ (env'[i] # None /\ ~env'[i].whole)
      BY <1>0, <1>6, TornBuild DEF TakeDown
    <2>2. SiteOf(i)' \in {None, Spoiled}
      BY <2>1, SiteDepends, SiteRange
    <2>3. Promise!TakeDown(i)
      BY <1>1, <1>2, <1>5, <2>2 DEF Promise!TakeDown, Turn, Site, Ledger
    <2> QED BY <2>3 DEF Promise!Next
  <1>7. CASE Install(h)
    <2>1. env[i] = None \/ ~env[i].whole
      BY <1>0, <1>7 DEF Install, BuildInv, SwapInv
    <2>2. SiteOf(i) \in {None, Spoiled}
      BY <2>1, SiteDepends, SiteRange
    <2>3. env'[i] # None
      <3>1. env'[i] = [of |-> building[i], whole |-> TRUE, legacy |-> FALSE]
        BY <1>0, <1>7 DEF Install
      <3>2. env'[i] \in Build
        BY <3>1 DEF Build
      <3> QED BY <3>2, GitAssumption
    <2>4. SiteOf(i)' \in Commit \cup {Spoiled}
      BY <2>3, SiteDepends, SiteRange
    <2>5. PICK what \in Commit \cup {Spoiled} : what = SiteOf(i)'
      BY <2>4
    <2>6. Promise!PutUp(i, what)
      BY <1>1, <1>2, <1>5, <2>2, <2>5 DEF Promise!PutUp, Turn, Site, Ledger
    <2> QED BY <2>6 DEF Promise!Next
  <1> QED BY <1>6, <1>7

\* set_build_state ends the turn: it vouches for what stands, or for nothing.
LEMMA RefinesRecord ==
    ASSUME HanInv, WorldOK, BuildInv, NEW h \in Handler, Record(h) \/ RecordError(h)
    PROVE  Promise!Next
  <1> USE DEF HanInv, HandlersOK, WorldOK
  <1>0. PICK i \in Inst, c \in Commit : i = inst[h] /\ c = commit[h]
    BY DEF Record, RecordError, Named, Resolved
  <1>1. Turn = i /\ lock = h
    BY <1>0, HolderOnly DEF Record, RecordError, Building
  <1>2. lock' = None \/ (lock' = h /\ pc'[h] = "announce")
    BY <1>1 DEF Record, RecordError, Refuse, Leave, Unlocked, Goto
  <1>3. Turn' = None
    BY <1>2 DEF Turn
  <1>4. Site' = Site
    BY DEF Record, RecordError, diskVars, Site, SiteOf
  <1>5. CASE UNCHANGED <<status, built>>
    <2>1. Ledger' = Ledger
      BY <1>5 DEF Ledger
    <2>2. Promise!Abandon
      BY <1>3, <1>4, <2>1 DEF Promise!Abandon, Turn, Site, Ledger
    <2> QED BY <2>2 DEF Promise!Next
  <1>6. CASE Record(h) /\ ~UNCHANGED <<status, built>>
    <2>1. /\ status' = [status EXCEPT ![i] = "ready"]
          /\ built' = [built EXCEPT ![i] = c]
      BY <1>0, <1>6 DEF Record, SetBuildState, Recorded
    <2>2. Ledger' = [Ledger EXCEPT ![i] = c]
      BY <1>1, <2>1 DEF Ledger
    <2>3. SiteOf(i) \in {c, None, Spoiled}
      <3>1. CASE env[i] = None
        BY <3>1 DEF SiteOf
      <3>2. CASE env[i] # None /\ env[i].of = {c}
        BY <3>2, SiteOfWhole DEF SiteOf
      <3>3. CASE env[i] # None /\ env[i].of # {c}
        <4>1. c \in env[i].of
          BY <1>0, <1>6, <3>3 DEF Record, BuildInv, SwapInv
        <4>2. ~ \E d \in Commit : env[i].of = {d}
          BY <3>3, <4>1
        <4> QED BY <4>2 DEF SiteOf
      <3> QED BY <3>1, <3>2, <3>3
    <2>4. Promise!Finish(i, c)
      BY <1>1, <1>3, <1>4, <2>2, <2>3 DEF Promise!Finish, Turn, Site, Ledger
    <2> QED BY <2>4 DEF Promise!Next
  <1>7. CASE RecordError(h) /\ ~UNCHANGED <<status, built>>
    <2>1. status' = [status EXCEPT ![i] = "error"]
          /\ built' = [built EXCEPT ![i] = saw[h].built]
      BY <1>0, <1>7 DEF RecordError, SetBuildState
    <2>2. Ledger' = [Ledger EXCEPT ![i] = None]
      BY <1>1, <2>1 DEF Ledger
    <2>3. Promise!Fail(i)
      BY <1>1, <1>3, <1>4, <2>2 DEF Promise!Fail, Turn, Site, Ledger
    <2> QED BY <2>3 DEF Promise!Next
  <1> QED BY <1>5, <1>6, <1>7

\* removing environments, in whole or in part, needs no turn
LEMMA RefinesRemoval ==
    ASSUME HanInv, WorldOK, NEW h \in Handler,
           pc[h] \in {"idle", "clean"}, lock' = lock,
           \A g \in Handler \ {h} : inst'[g] = inst[g] /\ pc'[g] = pc[g],
           \A i \in Inst : Removed(i),
           UNCHANGED <<status, built>>
    PROVE  Promise!Next
  <1> DEFINE gone == {i \in Inst : env'[i] # env[i]}
             rest == [i \in Inst |-> IF i \in gone THEN SiteOf(i)' ELSE None]
  <1>1. lock # h
    BY DEF HanInv, LockInv, Building
  <1>2. Turn' = Turn
    BY <1>1, OthersTurn
  <1>3. Ledger' = Ledger
    BY DEF Ledger
  <1>4. \A i \in gone : SiteOf(i)' \in {None, Spoiled}
    <2> TAKE i \in gone
    <2>1. env'[i] = None \/ (env'[i] # None /\ ~env'[i].whole)
      BY TornBuild DEF Removed, WorldOK
    <2> QED BY <2>1, SiteDepends, SiteRange
  <1>5. \A i \in Inst \ gone : SiteOf(i)' = SiteOf(i)
    BY SiteDepends
  <1>6. rest \in [Inst -> {None, Spoiled}]
    BY <1>4
  <1>7. Site' = [i \in Inst |-> IF i \in gone THEN rest[i] ELSE Site[i]]
    BY <1>5 DEF Site
  <1>8. Promise!Dismantle(gone)
    BY <1>2, <1>3, <1>6, <1>7 DEF Promise!Dismantle, Turn, Site, Ledger
  <1> QED BY <1>8 DEF Promise!Next

\* Every step is a step of Deployment or a stutter.
LEMMA RefinesStep ==
    ASSUME HanInv, WorldOK, BuildInv, [Next]_vars
    PROVE  [Promise!Next]_<<Turn, Site, Ledger>>
  <1> DEFINE Goal == [Promise!Next]_<<Turn, Site, Ledger>>
  <1> USE DEF dbVars, diskVars, hanVars, poolVars, histVars
  <1>0. Ended => Goal
    BY EndedAbandons DEF Promise!Next
  <1>00. Unseen => Goal
    BY UnseenStutters
  <1> HIDE DEF Goal
  <1>1. ASSUME NEW h \in Handler, Works(h) PROVE Goal
    <2>1. CASE ResolveFails(h) \/ RecordFails(h) \/ ProbeRefused(h)
               \/ PurgeRows(h) \/ FileCleared(h)
      BY <1>0, <1>00, <2>1, LeaveSeen
      DEF ResolveFails, RecordFails, ProbeRefused, PurgeRows, FileCleared, Refuse
    <2>2. CASE UpToDate(h) \/ Announce(h)
      BY <1>0, <2>2, ProceedSeen DEF UpToDate, Announce, Building, Ended
    <2>3. CASE (\E c \in Commit : Resolve(h, c)) \/ BuildBegins(h) \/ BuildFails(h)
               \/ ToolTimesOut(h) \/ InstallFails(h)
      <3>1. lock = h /\ lock' = h
        BY <2>3, HolderOnly
        DEF Resolve, BuildBegins, BuildFails, ToolTimesOut, InstallFails, Building
      <3>2. pc[h] # "announce" /\ pc'[h] # "announce" /\ inst' = inst
        BY <2>3 DEF Resolve, BuildBegins, BuildFails, ToolTimesOut, InstallFails, Goto,
                    HanInv, HandlersOK
      <3> QED
        BY <1>00, <2>3, <3>1, <3>2
        DEF Resolve, BuildBegins, BuildFails, ToolTimesOut, InstallFails, Unseen, Turn
    <2>4. CASE ProbeReads(h) \/ Probe(h)
      <3>1. lock # h /\ lock' = lock /\ UNCHANGED <<env, status, built>>
        BY <2>4 DEF ProbeReads, Probe, HanInv, LockInv, Building
      <3>2. \A g \in Handler \ {h} : inst'[g] = inst[g] /\ pc'[g] = pc[g]
        BY <2>4 DEF ProbeReads, Probe, Goto, HanInv, HandlersOK
      <3> QED BY <1>00, <3>1, <3>2, OthersTurn DEF Unseen
    <2>5. CASE CloneAgain(h)
      BY <1>00, <2>5 DEF CloneAgain, Unseen, Turn
    <2>6. CASE TakeDown(h) \/ Install(h)
      BY <2>6, RefinesSwap DEF Goal
    <2>7. CASE Record(h) \/ RecordError(h)
      BY <2>7, RefinesRecord DEF Goal
    <2>8. CASE CleanUp(h)
      <3>1. inst[h] \in Inst /\ lock # h
        BY <2>8 DEF CleanUp, HanInv, Named, LockInv, Building
      <3>2. lock' = lock /\ \A g \in Handler \ {h} : inst'[g] = inst[g] /\ pc'[g] = pc[g]
        BY <2>8, <3>1 DEF CleanUp, Leave, Unlocked, Goto, HanInv, HandlersOK
      <3>3. PICK kept, torn \in SUBSET {inst[h]} :
              RemoveEnv({inst[h]}, kept, torn) /\ unrecorded' = unrecorded \cup torn
        BY <2>8 DEF CleanUp
      <3>4. \A i \in Inst : Removed(i)
        BY <3>1, <3>3, RemoveEnvRemoves
      <3>5. pc[h] \in {"idle", "clean"} /\ UNCHANGED <<status, built>>
        BY <2>8 DEF CleanUp
      <3> QED BY <3>2, <3>4, <3>5, RefinesRemoval DEF Goal
    <2> QED BY <1>1, <2>1, <2>2, <2>3, <2>4, <2>5, <2>6, <2>7, <2>8 DEF Works
  <1>2. ASSUME NEW h \in Handler, Lock(h) PROVE Goal
    <2>1. inst[h] \in Inst /\ pc'[h] = "resolve"
      BY <1>2 DEF Lock, Goto, HanInv, HandlersOK, Named
    <2>2. Turn = None /\ Turn' = inst[h]
      BY <1>2, <2>1, GitAssumption DEF Lock, Acquire, Turn
    <2>3. UNCHANGED <<Site, Ledger>>
      BY <1>2 DEF Lock, Site, SiteOf, Ledger
    <2>4. Promise!Begin(inst[h])
      BY <2>2, <2>3 DEF Promise!Begin, Turn, Site, Ledger
    <2> QED BY <2>1, <2>4 DEF Promise!Next, Goal
  <1>3. ASSUME NEW h \in Handler, RequestDropped(h) \/ ProbeDone(h) PROVE Goal
    BY <1>0, <1>00, <1>3, LeaveSeen DEF RequestDropped, ProbeDone
  <1>4. ASSUME NEW h \in Handler, PurgeFiles(h) PROVE Goal
    <2> DEFINE gone == {i \in Inst : Exists(i)}
    <2>1. lock' = lock /\ pc[h] = "idle" /\ UNCHANGED <<status, built>>
      BY <1>4 DEF PurgeFiles
    <2>2. \A g \in Handler \ {h} : inst'[g] = inst[g] /\ pc'[g] = pc[g]
      BY <1>4 DEF PurgeFiles, Goto, HanInv, HandlersOK
    <2>3. \A i \in Inst : Removed(i)
      <3>1. CASE UNCHANGED <<env, unrecorded>>
        BY <3>1 DEF Removed
      <3>2. ASSUME NEW kept, NEW torn, RemoveEnv(gone, kept, torn),
                   unrecorded' = unrecorded \cup torn
            PROVE  \A i \in Inst : Removed(i)
        BY <3>2, RemoveEnvRemoves
      <3> QED BY <1>4, <3>1, <3>2 DEF PurgeFiles
    <2> QED BY <2>1, <2>2, <2>3, RefinesRemoval DEF Goal
  <1>5. ASSUME NEW h \in Handler, NEW i \in Inst,
               \/ UpdateStart(h, i) \/ TestStart(h, i)
               \/ DeleteServer(h, i) \/ ClearConfigFile(h, i)
        PROVE  Goal
    <2>1. lock # h /\ lock' = lock /\ UNCHANGED <<env, status, built>>
      BY <1>5 DEF UpdateStart, TestStart, DeleteServer, ClearConfigFile, Begin, HanInv,
                  LockInv, Building
    <2>2. \A g \in Handler \ {h} : inst'[g] = inst[g] /\ pc'[g] = pc[g]
      BY <1>5 DEF UpdateStart, TestStart, DeleteServer, ClearConfigFile, Begin, Goto,
                  HanInv, HandlersOK
    <2> QED BY <1>00, <2>1, <2>2, OthersTurn DEF Unseen
  <1>6. ASSUME NEW i \in Inst,
               \/ TestRefused(i) \/ SpawnBegins(i) \/ SpawnChecks(i) \/ SpawnExecs(i)
               \/ SpawnConnects(i) \/ ChildWrites(i) \/ ChildEnds(i) \/ SetConfigFile(i)
               \/ \E to \in {"on", "off"} : SetEnabled(i, to)
               \/ \E c \in Commit : StrayWrites(i, c)
        PROVE  Goal
    <2>1. UNCHANGED <<env, status, built, lock, inst, pc>>
      BY <1>6
      DEF TestRefused, SpawnBegins, SpawnChecks, SpawnExecs, SpawnConnects, ChildWrites,
          ChildEnds, SetConfigFile, SetEnabled, StrayWrites
    <2> QED BY <1>00, <2>1 DEF Unseen, Turn
  <1>7. ASSUME \/ \E to \in {"usable", "unreadable"} : SetCredential(to)
               \/ KeepWarm \/ UNCHANGED vars
        PROVE  Goal
    <2>1. UNCHANGED <<env, status, built, lock, inst, pc>>
      BY <1>7 DEF SetCredential, KeepWarm, vars
    <2> QED BY <1>00, <2>1 DEF Unseen, Turn
  <1>8. CASE Crash
    <2>1. Ended
      BY <1>8 DEF Crash, Ended
    <2> QED BY <1>0, <2>1 DEF Goal
  <1> QED
    BY <1>1, <1>2, <1>3, <1>4, <1>5, <1>6, <1>7, <1>8 DEF Next, Goal

-----------------------------------------------------------------------------
(* The theorems. *)

IInv ==
    /\ HanInv /\ WorldOK
    /\ BuildInv /\ RecordedIsBuilt /\ RelaunchInv /\ LingerInv

\* The inductive invariant behind the theorems below holds in every state: who
\* holds build_lock, what the scratch directory and the environment hold at each
\* step of update_instance, and what is left on disk while a user is removed.
THEOREM Inductive == Spec => []IInv
  <1>1. Init => IInv
    BY HanInit, WorldInit, BuildInit, RecordInit, RelaunchInit, LingerInit DEF IInv
  <1>2. IInv /\ [Next]_vars => IInv'
    <2> SUFFICES ASSUME IInv, [Next]_vars PROVE IInv'
      OBVIOUS
    <2>1. HanInv /\ WorldOK /\ BuildInv /\ SwapInv /\ RecordedIsBuilt /\ RelaunchInv
          /\ LingerInv
      BY DEF IInv, BuildInv
    <2> QED
      BY <2>1, HanStep, WorldStep, BuildStep, RecordStep, RelaunchStep, LingerStep
      DEF IInv
  <1> QED BY <1>1, <1>2, PTL DEF Spec

\* The rows, the directories, the handlers, the launches, the strays and the records
\* of exceptions keep their types.
THEOREM Types == Spec => []TypeOK
  <1>1. IInv => TypeOK
    BY TypeParts DEF IInv, HanInv
  <1> QED BY <1>1, Inductive, PTL

\* For any number of servers, commits and concurrent handlers, what is installed
\* and what runs is the build of one commit, unless a tool that outlived its
\* handler wrote into it, or it was built in a directory that could not be removed
\* (gitsrc.rs, build_env, build_go_env).
THEOREM OneBuild == Spec => []EnvIsOneBuild
  <1>1. IInv => EnvIsOneBuild
    BY DEF IInv, BuildInv
  <1> QED BY <1>1, Inductive, PTL

\* A server whose row says ready has that very commit installed, whole, unless its
\* environment is gone, being swapped or mixed (as OneBuild excepts), was removed
\* only in part, or a crash, a failed write or a dropped request came between the
\* swap and set_build_state (gitsrc.rs, update_instance).
THEOREM RecordTrue == Spec => []RecordedIsBuilt
  <1>1. IInv => RecordedIsBuilt
    BY DEF IInv
  <1> QED BY <1>1, Inductive, PTL

\* After a rebuild the running server is the installed one or is owed a restart,
\* except on the paths that never come to restart_backend: a server enabled while
\* its rebuild ran, a healing test, a record that failed, a dropped request.
THEOREM Relaunched == Spec => []RebuildRelaunches
  <1>1. IInv => RebuildRelaunches
    BY DEF IInv, RelaunchInv, RebuildRelaunches, Excused, Recording
  <1> QED BY <1>1, Inductive, PTL

\* delete_server and purge_user leave nothing of a server on disk, and no copy of a
\* config file outlives it, but for what a build, a launch, a probe or the running
\* server wrote afterwards, what could not be removed, what a dropped request or a
\* crash kept from being removed, and the working directories purge_user leaves.
THEOREM NothingLeft == Spec => []NothingLingers
  <1>1. IInv => NothingLingers
    BY DEF IInv, LingerInv, HomeGone, FileGone, NothingLingers
  <1> QED BY <1>1, Inductive, PTL

\* GitServers implements Deployment: one builder at a time, nothing replaced
\* before it is taken down, nothing vouched for that does not stand.
THEOREM Refinement == Spec => ImplementsDeployment
  <1>1. IInv /\ [Next]_vars => [Promise!Next]_<<Turn, Site, Ledger>>
    BY RefinesStep DEF IInv
  <1>2. Spec => Promise!Init /\ [][Promise!Next]_<<Turn, Site, Ledger>>
    BY <1>1, RefinesInit, Inductive, PTL DEF Spec
  <1> QED BY <1>2, PTL DEF ImplementsDeployment, Promise!Spec, Turn, Site, Ledger
=============================================================================
