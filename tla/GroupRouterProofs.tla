-------------------------- MODULE GroupRouterProofs -------------------------
(***************************************************************************)
(* The safety of GroupRouter for any number of users, servers, sessions    *)
(* and requests.  The argument: a session is bound and registered before   *)
(* its request reads anything and a group's id is never given out twice,   *)
(* so whoever edits the group of a list, made or in the making, is the     *)
(* user its session is registered under.                                   *)
(***************************************************************************)
EXTENDS GroupRouter, SequenceTheorems, TLAPS

-----------------------------------------------------------------------------
(* The inductive invariant. *)

Asking == {"bind", "members", "denials", "answer", "called"}

\* what a task at each of its steps knows
Knows(t) ==
    /\ t.pc = "idle" => t = Idle
    /\ t.kind \in {"list", "call"} =>
          /\ t.pc \in Asking
          /\ t.sess \in Sess /\ t.user \in User /\ t.cred \in Cred /\ t.gid \in Gid
    /\ t.kind = "manage" =>
          t.pc \in Acting \cup {"bind", "act"} /\ t.sess \in Sess /\ t.user \in User
    /\ t.kind = "web" => t.pc \in Acting /\ t.sess = None /\ t.who = t.user
    /\ t.kind = None => t.pc = "idle"
    /\ t.pc = "answer" => t.kind = "list"
    /\ t.pc = "called" => t.kind = "call" /\ t.want # None
    /\ t.pc \in {"members", "denials"} => t.kind \in {"list", "call"}
    /\ t.pc \in Acting => t.who \in User
    /\ t.pc = "save" => t.gid \in Gid
    /\ t.pc = "deny" => t.cred \in Cred

TaskInv == \A q \in Task : Knows(task[q])

\* group ids are never given out twice, and a group has its owner's servers
GroupInv ==
    /\ \A u \in User : group[u] # None => group[u] \in spent
    /\ \A u, v \in User : group[u] # None /\ group[u] = group[v] => u = v
    /\ \A g \in Gid : \A i \in members[g] : group[Owner[i]] = g

\* the group a request was sent to is its user's if it is anybody's
EndpointInv ==
    \A q \in Task : Asks(q) =>
        /\ task[q].gid \in spent
        /\ \A u \in User : group[u] = task[q].gid => u = task[q].user

\* a request past bind has a session that is bound, to its user unless rebound
BoundInv ==
    /\ \A q \in Task : task[q].sess \in Sess /\ task[q].pc # "bind"
          => bound[task[q].sess] # None
    /\ \A q \in Task \ rebound :
          task[q].pc = "act" => bound[task[q].sess] = task[q].user

\* what a request has been granted so far
MayInv ==
    \A q \in Task : Asks(q) =>
        /\ may[q].enabled
        /\ MembersOf(group[task[q].user]) \subseteq may[q].member
        /\ Inst \ DeniedTo(task[q].cred) \subseteq may[q].allowed

\* what it takes of that
GotInv ==
    \A q \in Task :
        /\ task[q].pc \in HasRead \cup {"called"} => \A i \in task[q].got :
              Owner[i] = task[q].user /\ i \in may[q].member
        /\ task[q].pc \in {"answer", "called"} => \A i \in task[q].got :
              i \in may[q].allowed \/ task[q].blind
        /\ task[q].pc = "called" => \A i \in task[q].got :
              Space[i] = RoutedTo(Namespaced(task[q].want[1], task[q].want[2]))

\* sessions are registered under the user they are bound to, or not at all
PeerInv ==
    \A s \in Sess :
        /\ peer[s] \in {None, bound[s]}
        /\ s \notin untold /\ bound[s] # None => peer[s] # None
        /\ bound[s] = None => listed[s] = None
        /\ s \in stale => listed[s] # None
        /\ listed[s] # None => listed[s] \in spent

\* whoever edits what a session has listed, or is listing, tells that session
ListInv ==
    /\ \A s \in Sess \ untold, u \in User :
          listed[s] # None /\ group[u] = listed[s] => u = peer[s]
    /\ \A q \in Task : task[q].kind = "list" /\ task[q].pc # "bind"
          => task[q].sess \in untold \/ peer[task[q].sess] = task[q].user
    /\ \A q, r \in Task :
          task[q].kind = "list" /\ task[r].kind = "list"
          /\ task[q].sess = task[r].sess => q = r

\* a session is told, or about to be
Told(s) ==
    \/ s \in sending \cup unread
    \/ \E q \in Task : task[q].pc = "notify" /\ task[q].who = peer[s]

\* a list overtaken in the making is as good as a stale one
OutdatedInv ==
    \A q \in outdated :
        /\ task[q].pc \in HasRead \cup {"called"}
        /\ task[q].kind = "list" /\ task[q].sess \notin untold => Told(task[q].sess)

-----------------------------------------------------------------------------
(* Types, and what a task knows. *)

TaskRec ==
    [pc : HasRead \cup Acting \cup {"idle", "bind", "members", "called", "act"},
     kind : {"list", "call", "manage", "web", None},
     sess : Sess \cup {None}, user : User \cup {None},
     cred : Cred \cup {None}, gid : Gid \cup {None},
     got : SUBSET Inst, want : (Inst \X Tool) \cup {None},
     blind : BOOLEAN, who : User \cup {None}]

TaskOK == task \in [Task -> TaskRec]

WorldOK ==
    /\ disabled \in SUBSET User
    /\ pat \in [Pat -> {"new", "live", "revoked"}]
    /\ group \in [User -> Gid \cup {None}]
    /\ spent \in SUBSET Gid
    /\ members \in [Gid -> SUBSET Inst]
    /\ denials \in SUBSET (Cred \X Inst)
    /\ exists \in SUBSET Inst
    /\ bound \in [Sess -> User \cup {None}]
    /\ peer \in [Sess -> User \cup {None}]
    /\ listed \in [Sess -> Gid \cup {None}]
    /\ sending \in SUBSET Sess
    /\ unread \in SUBSET Sess
    /\ ops \in 0..MaxOps
    /\ may \in [Task -> [enabled : BOOLEAN, member : SUBSET Inst,
                         allowed : SUBSET Inst]]
    /\ outdated \in SUBSET Task
    /\ stale \in SUBSET Sess
    /\ untold \in SUBSET Sess
    /\ rebound \in SUBSET Task

\* TypeOK is what is said of the tasks and of everything else.
LEMMA TypeParts == TypeOK <=> TaskOK /\ WorldOK
  BY DEF TypeOK, TaskOK, WorldOK, TaskRec

\* A task that does nothing is well typed.
LEMMA IdleIsTask == Idle \in TaskRec
  BY DEF Idle, TaskRec

\* So is one that answers a list ...
LEMMA AnswersTask ==
    ASSUME NEW t \in TaskRec, NEW blind \in BOOLEAN, NEW got \in SUBSET Inst
    PROVE  [t EXCEPT !.pc = "answer", !.blind = blind, !.got = got] \in TaskRec
  <1>1. CASE blind = TRUE
    <2>1. [t EXCEPT !.pc = "answer", !.blind = TRUE, !.got = got] \in TaskRec
      BY DEF TaskRec, HasRead
    <2> QED BY <1>1, <2>1
  <1>2. CASE blind = FALSE
    <2>1. [t EXCEPT !.pc = "answer", !.blind = FALSE, !.got = got] \in TaskRec
      BY ZenonT(60) DEF TaskRec, HasRead
    <2> QED BY <1>2, <2>1
  <1> QED BY <1>1, <1>2

\* ... and one that calls a tool.
LEMMA CallsTask ==
    ASSUME NEW t \in TaskRec, NEW blind \in BOOLEAN, NEW got \in SUBSET Inst,
           NEW want \in Inst \X Tool
    PROVE  [t EXCEPT !.pc = "called", !.blind = blind, !.want = want, !.got = got] \in TaskRec
  <1>1. CASE blind = TRUE
    <2>1. [t EXCEPT !.pc = "called", !.blind = TRUE, !.want = want, !.got = got] \in TaskRec
      BY DEF TaskRec, HasRead
    <2> QED BY <1>1, <2>1
  <1>2. CASE blind = FALSE
    <2>1. [t EXCEPT !.pc = "called", !.blind = FALSE, !.want = want, !.got = got] \in TaskRec
      BY ZenonT(60) DEF TaskRec, HasRead
    <2> QED BY <1>2, <2>1
  <1> QED BY <1>1, <1>2

\* a handler of the web pages starts
Starts(q, u) == WebStart(q, u) \/ DisableUser(q, u)

\* the steps by which a task goes on, its request or handler being the same
Moves(q) ==
    \/ Bind(q) \/ ReadMembers(q) \/ ReadDenials(q) \/ Forward(q) \/ Act(q)
    \/ RenameGroup(q) \/ ReadGroup(q) \/ SetMembers(q) \/ DeleteGroup(q)
    \/ RemoveServer(q) \/ ReadAccess(q)
    \/ CreateGroup(q) /\ task[q].kind = "manage"

\* the steps by which it ends
Ends(q) ==
    \/ AnswerList(q) \/ AnswerCall(q) \/ EditNothing(q) \/ SetMembersFails(q)
    \/ Notify(q) \/ NotifyLost(q) \/ SetDenials(q) \/ CreateToken(q) \/ RevokeToken(q)
    \/ RevokeAllForUser(q)
    \/ CreateGroup(q) /\ task[q].kind = "web"

\* Every step starts a task, takes one on, ends one, or leaves tasks alone.
LEMMA StepKinds ==
    ASSUME Step
    PROVE  \/ \E q \in Task :
                 \/ \E s \in Sess : Request(q, s)
                 \/ \E u \in User : Starts(q, u)
                 \/ Moves(q) \/ Ends(q)
           \/ \E s \in Sess : SessionEnds(s) \/ Deliver(s) \/ Prune(s)
           \/ \E u \in User : EnableUser(u)
  BY ZenonT(60) DEF Step, Moves, Ends, Starts, CreateGroup

\* A task that goes on stays the same request or handler.
LEMMA MovesTask ==
    ASSUME TaskOK, TaskInv, WorldOK, NEW q \in Task, Moves(q)
    PROVE  /\ task'[q] \in TaskRec
           /\ task' = [task EXCEPT ![q] = task'[q]]
           /\ task'[q].kind = task[q].kind /\ task'[q].sess = task[q].sess
           /\ task'[q].user = task[q].user
           /\ task[q].pc # "idle" /\ task'[q].pc \notin {"idle", "bind"}
  <1> DEFINE now == task[q]
  <1>0. now \in TaskRec
    BY DEF TaskOK
  <1>1. CASE Bind(q)
    BY <1>0, <1>1 DEF Bind, TaskOK, TaskRec
  <1>2. CASE ReadMembers(q)
    <2>1. PICK ok \in BOOLEAN :
            task' = [task EXCEPT ![q].pc = "denials",
                ![q].got = {i \in MembersFor(q, ok) : Owner[i] = task[q].user}]
      BY <1>2 DEF ReadMembers
    <2>2. {i \in MembersFor(q, ok) : Owner[i] = now.user} \in SUBSET Inst
      BY <1>0, <1>2 DEF ReadMembers, MembersFor, TaskInv, Knows, WorldOK
    <2> QED BY <1>0, <1>2, <2>1, <2>2, ZenonT(60) DEF ReadMembers, TaskOK, TaskRec, HasRead
  <1>3. CASE ReadDenials(q)
    <2>1. PICK ok \in BOOLEAN :
            task' = [task EXCEPT ![q].pc = "answer", ![q].blind = ~ok,
                                  ![q].got = Granted(q, ok)]
      BY <1>3 DEF ReadDenials
    <2>2. PICK blind \in BOOLEAN, got \in SUBSET Inst :
            blind = ~ok /\ got = Granted(q, ok)
      BY <1>0 DEF Granted, TaskRec
    <2>3. now.pc = "denials"
      BY <1>3 DEF ReadDenials
    <2>4. task' = [task EXCEPT ![q] =
                    [now EXCEPT !.pc = "answer", !.blind = blind, !.got = got]]
      BY <2>1, <2>2
    <2>5. [now EXCEPT !.pc = "answer", !.blind = blind, !.got = got] \in TaskRec
      BY <1>0, AnswersTask
    <2>6. task'[q] = [now EXCEPT !.pc = "answer", !.blind = blind, !.got = got]
      BY <2>4 DEF TaskOK
    <2> QED BY <1>0, <2>3, <2>4, <2>5, <2>6 DEF TaskOK, TaskRec
  <1>4. CASE Forward(q)
    <2>1. PICK ok \in BOOLEAN, i \in Inst, t \in Tool :
            /\ ok \/ Faults
            /\ ~IsManagementTool(Namespaced(i, t))
            /\ task' = [task EXCEPT ![q].pc = "called", ![q].blind = ~ok,
                ![q].want = <<i, t>>,
                ![q].got = {j \in Granted(q, ok) :
                               Space[j] = RoutedTo(Namespaced(i, t))}]
      BY <1>4, Zenon DEF Forward
    <2>2. {j \in Granted(q, ok) : Space[j] = RoutedTo(Namespaced(i, t))} \in SUBSET Inst
      BY <1>0 DEF Granted, TaskRec
    <2>3. PICK got \in SUBSET Inst :
            got = {j \in Granted(q, ok) : Space[j] = RoutedTo(Namespaced(i, t))}
      BY <2>2, Zenon
    <2>4. PICK blind \in BOOLEAN, want \in Inst \X Tool : blind = ~ok /\ want = <<i, t>>
      BY Zenon
    <2>5. now.pc = "denials"
      BY <1>4 DEF Forward
    <2>6. task' = [task EXCEPT ![q] =
                    [now EXCEPT !.pc = "called", !.blind = blind, !.want = want,
                                !.got = got]]
      BY <2>1, <2>3, <2>4
    <2>7. [now EXCEPT !.pc = "called", !.blind = blind, !.want = want, !.got = got]
             \in TaskRec
      BY <1>0, CallsTask
    <2>8. task'[q] = [now EXCEPT !.pc = "called", !.blind = blind, !.want = want,
                                 !.got = got]
      BY <2>6 DEF TaskOK
    <2> QED BY <1>0, <2>5, <2>6, <2>7, <2>8 DEF TaskOK, TaskRec
  <1>5. CASE Act(q)
    <2>1. bound[now.sess] \in User \cup {None}
      BY <1>0, <1>5 DEF Act, TaskInv, Knows, WorldOK, Asking, Acting, TaskRec
    <2>2. now.pc = "act" /\ task' = [task EXCEPT ![q] = [now EXCEPT !.pc = "edit",
                                                         !.who = bound[now.sess]]]
      BY <1>5 DEF Act
    <2>3. [now EXCEPT !.pc = "edit", !.who = bound[now.sess]] \in TaskRec
      BY <1>0, <2>1, ZenonT(60) DEF TaskRec, Acting
    <2>4. task'[q] = [now EXCEPT !.pc = "edit", !.who = bound[now.sess]]
      BY <2>2 DEF TaskOK
    <2> QED BY <1>0, <2>2, <2>3, <2>4 DEF TaskOK, TaskRec
  <1>6. CASE RenameGroup(q) \/ SetMembers(q) \/ DeleteGroup(q) \/ RemoveServer(q)
    <2>1. task' = [task EXCEPT ![q].pc = "notify"] /\ now.pc \in {"edit", "save"}
      BY <1>6 DEF RenameGroup, SetMembers, DeleteGroup, RemoveServer
    <2> QED BY <1>0, <2>1 DEF TaskOK, TaskRec, Acting
  <1>7. CASE ReadGroup(q)
    <2>1. PICK form \in SUBSET Owned(now.who) :
            task' = [task EXCEPT ![q].pc = "save", ![q].gid = group[task[q].who],
                               ![q].got = form]
      BY <1>7 DEF ReadGroup
    <2>2. form \in SUBSET Inst /\ group[now.who] \in Gid
      BY <1>7 DEF ReadGroup, Owned, WorldOK, TaskInv, Knows, Acting
    <2>3. now.pc = "edit" /\ task' = [task EXCEPT ![q] =
             [now EXCEPT !.pc = "save", !.gid = group[now.who], !.got = form]]
      BY <1>7, <2>1 DEF ReadGroup
    <2> QED BY <1>0, <2>2, <2>3, ZenonT(60) DEF TaskOK, TaskRec, Acting
  <1>8. CASE ReadAccess(q)
    <2>1. PICK c \in Cred, denied \in SUBSET Owned(now.who) :
            task' = [task EXCEPT ![q].pc = "deny", ![q].cred = c, ![q].got = denied]
      BY <1>8 DEF ReadAccess
    <2>2. denied \in SUBSET Inst
      BY DEF Owned, WorldOK
    <2>3. now.pc = "edit" /\ task' = [task EXCEPT ![q] =
             [now EXCEPT !.pc = "deny", !.cred = c, !.got = denied]]
      BY <1>8, <2>1 DEF ReadAccess
    <2> QED BY <1>0, <2>2, <2>3, ZenonT(60) DEF TaskOK, TaskRec, Acting
  <1>9. CASE CreateGroup(q) /\ now.kind = "manage"
    <2>1. PICK g \in Gid, given \in SUBSET Owned(now.who), step \in {"save", "notify"} :
            task' = [task EXCEPT ![q].pc = step, ![q].gid = g, ![q].got = given]
      BY <1>9 DEF CreateGroup
    <2>2. given \in SUBSET Inst
      BY DEF Owned, WorldOK
    <2>3. now.pc = "edit" /\ task' = [task EXCEPT ![q] =
             [now EXCEPT !.pc = step, !.gid = g, !.got = given]]
      BY <1>9, <2>1, ZenonT(60) DEF CreateGroup
    <2>4. step \in Acting
      BY DEF Acting
    <2>5. [now EXCEPT !.pc = step, !.gid = g, !.got = given] \in TaskRec
      BY <1>0, <2>2, <2>4 DEF TaskRec
    <2>6. task'[q] = [now EXCEPT !.pc = step, !.gid = g, !.got = given]
      BY <2>3 DEF TaskOK
    <2> QED BY <1>0, <2>3, <2>5, <2>6 DEF TaskOK, TaskRec
  <1> QED
    BY <1>1, <1>2, <1>3, <1>4, <1>5, <1>6, <1>7, <1>8, <1>9 DEF Moves

\* A task that ends is idle, and no longer overtaken or rebound.
LEMMA EndsTask ==
    ASSUME NEW q \in Task, Ends(q)
    PROVE  /\ task' = [task EXCEPT ![q] = Idle]
           /\ task[q].pc \notin {"idle", "bind", "members", "denials", "act"}
           /\ rebound' = rebound \ {q}
           /\ outdated' = outdated \ {q}
  BY DEF Ends, AnswerList, AnswerCall, EditNothing, SetMembersFails, Notify, NotifyLost,
         SetDenials, CreateToken, RevokeToken, RevokeAllForUser, CreateGroup, End

\* a request has arrived
Arrived(q, s, kind, u, c) ==
    /\ task' = [task EXCEPT ![q] = task'[q]]
    /\ task'[q] \in TaskRec
    /\ task'[q].pc = "bind" /\ task'[q].kind = kind /\ task'[q].sess = s
    /\ task'[q].user = u /\ task'[q].cred = c
    /\ kind # "manage" => group[u] \in Gid /\ task'[q].gid = group[u]
    /\ u \notin disabled
    /\ task[q].pc = "idle"
    /\ kind = "list" => \A r \in Task : task[r].sess = s => task[r].kind # "list"
    /\ unread' = IF kind = "list" THEN unread \ {s} ELSE unread
    /\ UNCHANGED <<dbVars, bound, peer, listed, sending, tellVars, rebound>>

\* A request that is let in is in a session, of a user, with a credential, and
\* on its user's group unless it manages.
LEMMA RequestTask ==
    ASSUME TaskOK, WorldOK, NEW q \in Task, NEW s \in Sess, Request(q, s)
    PROVE  \E kind \in {"list", "call", "manage"}, u \in User, c \in Cred :
             Arrived(q, s, kind, u, c)
  <1>1. PICK kind \in {"list", "call", "manage"}, u \in User, c \in Cred :
          Arrive(q, s, c, u, kind)
    BY DEF Request
  <1>2. kind # "manage" => group[u] \in Gid
    BY <1>1 DEF Arrive, WorldOK
  <1>3. task' = [task EXCEPT ![q] =
                   [Idle EXCEPT !.pc = "bind", !.kind = kind, !.sess = s, !.user = u,
                                !.cred = c,
                                !.gid = IF kind = "manage" THEN None ELSE group[u]]]
    BY <1>1 DEF Arrive
  <1>4. task'[q] \in TaskRec
    BY <1>2, <1>3 DEF TaskOK, Idle, TaskRec
  <1>5. /\ task'[q].pc = "bind" /\ task'[q].kind = kind /\ task'[q].sess = s
        /\ task'[q].user = u /\ task'[q].cred = c
        /\ kind # "manage" => task'[q].gid = group[u]
    BY <1>3 DEF TaskOK, Idle
  <1>6. task' = [task EXCEPT ![q] = task'[q]]
    BY <1>3 DEF TaskOK
  <1>7. Arrived(q, s, kind, u, c)
    BY <1>1, <1>2, <1>4, <1>5, <1>6 DEF Arrive, Arrived
  <1> QED BY <1>7

\* A task that goes on keeps its credential and endpoint while it asks and its user
\* while it acts, and knows what its new step needs.
LEMMA MovesKnow ==
    ASSUME TaskOK, TaskInv, WorldOK, BoundInv, NEW q \in Task, Moves(q)
    PROVE  /\ Asks(q) => task'[q].cred = task[q].cred /\ task'[q].gid = task[q].gid
           /\ task[q].pc \in Acting => task'[q].who = task[q].who
           /\ Knows(task'[q])
  <1> DEFINE now == task[q]
             then == task'[q]
  <1>0. /\ now \in TaskRec /\ then \in TaskRec
        /\ then.kind = now.kind /\ then.sess = now.sess /\ then.user = now.user
        /\ now.pc # "idle" /\ then.pc \notin {"idle", "bind"}
    BY MovesTask DEF TaskOK
  <1>a. Knows(now)
    BY DEF TaskInv
  <1>1. CASE Bind(q)
    <2>1. /\ now.pc = "bind" /\ then.pc = IF now.kind = "manage" THEN "act" ELSE "members"
          /\ then.cred = now.cred /\ then.gid = now.gid /\ then.who = now.who
      BY <1>0, <1>1 DEF Bind, TaskOK, TaskRec
    <2> HIDE DEF now, then
    <2>2. now.kind \in {"list", "call", "manage"}
      BY <1>0, <1>a, <2>1 DEF Knows, TaskRec, Acting
    <2>3. Knows(then)
      BY <1>0, <1>a, <2>1, <2>2 DEF Knows, Asking, Acting
    <2> QED BY <2>1, <2>3 DEF Acting, now, then
  <1>2. CASE ReadMembers(q)
    <2>1. /\ now.pc = "members" /\ then.pc = "denials"
          /\ then.cred = now.cred /\ then.gid = now.gid /\ then.who = now.who
      <3>1. PICK ok \in BOOLEAN :
              task' = [task EXCEPT ![q].pc = "denials",
                ![q].got = {i \in MembersFor(q, ok) : Owner[i] = task[q].user}]
        BY <1>2 DEF ReadMembers
      <3>2. now.pc = "members"
        BY <1>2 DEF ReadMembers
      <3> QED BY <1>0, <3>1, <3>2 DEF TaskOK, TaskRec
    <2> HIDE DEF now, then
    <2>2. now.kind \in {"list", "call"}
      BY <1>a, <2>1 DEF Knows
    <2>3. Knows(then)
      BY <1>0, <1>a, <2>1, <2>2 DEF Knows, Asking, Acting
    <2> QED BY <2>1, <2>3 DEF Acting, now, then
  <1>3. CASE ReadDenials(q)
    <2>1. /\ now.pc = "denials" /\ then.pc = "answer" /\ now.kind = "list"
          /\ then.cred = now.cred /\ then.gid = now.gid /\ then.who = now.who
      BY <1>0, <1>3 DEF ReadDenials, TaskOK, TaskRec
    <2> HIDE DEF now, then
    <2>3. Knows(then)
      BY <1>0, <1>a, <2>1 DEF Knows, Asking, Acting
    <2> QED BY <2>1, <2>3 DEF Acting, now, then
  <1>4. CASE Forward(q)
    <2>1. /\ now.pc = "denials" /\ then.pc = "called" /\ now.kind = "call"
          /\ then.cred = now.cred /\ then.gid = now.gid /\ then.who = now.who
          /\ \E i \in Inst, t \in Tool : then.want = <<i, t>>
      <3>1. PICK ok \in BOOLEAN, i \in Inst, t \in Tool :
            /\ ok \/ Faults
            /\ ~IsManagementTool(Namespaced(i, t))
            /\ task' = [task EXCEPT ![q].pc = "called", ![q].blind = ~ok,
                ![q].want = <<i, t>>,
                ![q].got = {j \in Granted(q, ok) :
                               Space[j] = RoutedTo(Namespaced(i, t))}]
        BY <1>4, Zenon DEF Forward
      <3>2. now.pc = "denials" /\ now.kind = "call"
        BY <1>4 DEF Forward
      <3> QED BY <1>0, <3>1, <3>2, ZenonT(60) DEF TaskOK, TaskRec
    <2> HIDE DEF now, then
    <2>2. then.want # None
      BY <2>1, RouterAssumption
    <2>3. Knows(then)
      BY <1>0, <1>a, <2>1, <2>2 DEF Knows, Asking, Acting
    <2> QED BY <2>1, <2>3 DEF Acting, now, then
  <1>5. CASE Act(q)
    <2>1. /\ now.pc = "act" /\ then.pc = "edit" /\ then.who = bound[now.sess]
          /\ then.cred = now.cred /\ then.gid = now.gid
      BY <1>0, <1>5 DEF Act, TaskOK, TaskRec
    <2>2. now.kind = "manage" /\ now.sess \in Sess
      BY <1>0, <1>a, <2>1 DEF Knows, TaskRec, Acting, Asking
    <2>3. then.who \in User
      BY <2>1, <2>2 DEF BoundInv, WorldOK
    <2> HIDE DEF now, then
    <2>4. Knows(then)
      BY <1>0, <1>a, <2>1, <2>2, <2>3 DEF Knows, Asking, Acting
    <2> QED BY <2>1, <2>2, <2>4 DEF Acting, now, then
  <1>6. CASE RenameGroup(q) \/ SetMembers(q) \/ DeleteGroup(q) \/ RemoveServer(q)
    <2>1. task' = [task EXCEPT ![q].pc = "notify"] /\ now.pc \in {"edit", "save"}
      BY <1>6 DEF RenameGroup, SetMembers, DeleteGroup, RemoveServer
    <2>2. /\ then.pc = "notify" /\ then.who = now.who
          /\ then.cred = now.cred /\ then.gid = now.gid
      BY <1>0, <2>1 DEF TaskOK, TaskRec
    <2> HIDE DEF now, then
    <2>3. Knows(then)
      BY <1>0, <1>a, <2>1, <2>2 DEF Knows, Asking, Acting
    <2> QED BY <2>2, <2>3 DEF now, then
  <1>7. CASE ReadGroup(q)
    <2>1. now.pc = "edit" /\ now.who \in User
      BY <1>7, <1>a DEF ReadGroup, Knows, Acting
    <2>2. /\ then.pc = "save" /\ then.who = now.who
          /\ then.cred = now.cred /\ then.gid = group[now.who]
      BY <1>0, <1>7 DEF ReadGroup, TaskOK, TaskRec
    <2>3. then.gid \in Gid
      BY <1>7, <2>1, <2>2 DEF ReadGroup, WorldOK
    <2> HIDE DEF now, then
    <2>4. Knows(then)
      BY <1>0, <1>a, <2>1, <2>2, <2>3 DEF Knows, Asking, Acting
    <2>5. now.kind \notin {"list", "call"}
      BY <1>a, <2>1 DEF Knows, Asking
    <2> QED BY <2>2, <2>4, <2>5 DEF now, then, Asks
  <1>8. CASE ReadAccess(q)
    <2>1. /\ now.pc = "edit" /\ now.kind = "web" /\ then.pc = "deny"
          /\ then.who = now.who /\ then.cred \in Cred /\ then.gid = now.gid
      BY <1>0, <1>8 DEF ReadAccess, TaskOK, TaskRec
    <2> HIDE DEF now, then
    <2>2. Knows(then)
      BY <1>0, <1>a, <2>1 DEF Knows, Asking, Acting
    <2> QED BY <2>1, <2>2 DEF now, then, Asks
  <1>9. CASE CreateGroup(q) /\ now.kind = "manage"
    <2>1. /\ now.pc = "edit" /\ then.pc \in {"save", "notify"}
          /\ then.who = now.who /\ then.cred = now.cred /\ then.gid \in Gid
      BY <1>0, <1>9 DEF CreateGroup, TaskOK, TaskRec
    <2>2. now.kind = "manage"
      BY <1>9
    <2> HIDE DEF now, then
    <2>3. Knows(then)
      BY <1>0, <1>a, <2>1, <2>2 DEF Knows, Asking, Acting
    <2> QED BY <2>1, <2>2, <2>3 DEF now, then, Asks
  <1> QED
    BY <1>1, <1>2, <1>3, <1>4, <1>5, <1>6, <1>7, <1>8, <1>9 DEF Moves

\* An idle task knows nothing, and need not.
LEMMA IdleKnows == Knows(Idle)
  BY RouterAssumption DEF Knows, Idle, Acting

\* Every step keeps the tasks well typed and knowing what they need.
LEMMA TaskStep ==
    ASSUME TaskOK, TaskInv, WorldOK, BoundInv, [Next]_vars
    PROVE  TaskOK' /\ TaskInv'
  <1>1. ASSUME NEW q \in Task, task' = [task EXCEPT ![q] = task'[q]],
               task'[q] \in TaskRec, Knows(task'[q])
        PROVE  TaskOK' /\ TaskInv'
    BY <1>1 DEF TaskOK, TaskInv
  <1>2. CASE UNCHANGED task
    BY <1>2 DEF TaskOK, TaskInv
  <1>3. ASSUME NEW q \in Task, NEW s \in Sess, Request(q, s)
        PROVE  TaskOK' /\ TaskInv'
    <2>1. PICK kind \in {"list", "call", "manage"}, u \in User, c \in Cred :
             Arrived(q, s, kind, u, c)
      BY <1>3, RequestTask
    <2>2. Knows(task'[q])
      BY <2>1, RouterAssumption DEF Arrived, Knows, Asking, Acting
    <2> QED BY <1>1, <2>1, <2>2 DEF Arrived
  <1>4. ASSUME NEW q \in Task, NEW u \in User, Starts(q, u)
        PROVE  TaskOK' /\ TaskInv'
    <2>1. PICK step \in {"edit", "revoke"} : task' = [task EXCEPT ![q] =
            [Idle EXCEPT !.pc = step, !.kind = "web", !.user = u, !.who = u]]
      BY <1>4 DEF Starts, WebStart, DisableUser
    <2>2. task'[q] \in TaskRec
      BY <2>1 DEF TaskOK, Idle, TaskRec, Acting
    <2>3. /\ task'[q].pc = step /\ task'[q].kind = "web" /\ task'[q].user = u
          /\ task'[q].who = u /\ task'[q].sess = None
      BY <2>1 DEF TaskOK, Idle
    <2>4. Knows(task'[q])
      BY <2>3, RouterAssumption DEF Knows, Asking, Acting
    <2> QED BY <1>1, <2>1, <2>2, <2>4 DEF TaskOK
  <1>5. ASSUME NEW q \in Task, Moves(q)
        PROVE  TaskOK' /\ TaskInv'
    BY <1>1, <1>5, MovesTask, MovesKnow
  <1>6. ASSUME NEW q \in Task, Ends(q)
        PROVE  TaskOK' /\ TaskInv'
    BY <1>1, <1>6, EndsTask, IdleIsTask, IdleKnows DEF TaskOK
  <1>7. ASSUME \/ \E s \in Sess : SessionEnds(s) \/ Deliver(s) \/ Prune(s)
               \/ \E u \in User : EnableUser(u)
        PROVE  UNCHANGED task
    BY <1>7 DEF SessionEnds, Deliver, Prune, EnableUser
  <1> QED
    BY <1>2, <1>3, <1>4, <1>5, <1>6, <1>7, StepKinds DEF Next, vars

\* At the start every task is idle.
LEMMA TaskInit == Init => TaskOK /\ TaskInv
  BY IdleIsTask, IdleKnows DEF Init, TaskOK, TaskInv

\* A request has been the same since it arrived.
LEMMA AsksFrom ==
    ASSUME TaskOK, TaskInv, WorldOK, BoundInv, [Next]_vars, NEW q \in Task, Asks(q)'
    PROVE  \/ /\ Asks(q)
              /\ task'[q].kind = task[q].kind /\ task'[q].sess = task[q].sess
              /\ task'[q].user = task[q].user /\ task'[q].cred = task[q].cred
              /\ task'[q].gid = task[q].gid
           \/ \E s \in Sess, kind \in {"list", "call"}, u \in User, c \in Cred :
                 Arrived(q, s, kind, u, c)
  <1> DEFINE Goal == \/ /\ Asks(q)
                        /\ task'[q].kind = task[q].kind /\ task'[q].sess = task[q].sess
                        /\ task'[q].user = task[q].user /\ task'[q].cred = task[q].cred
                        /\ task'[q].gid = task[q].gid
                     \/ \E s \in Sess, kind \in {"list", "call"}, u \in User, c \in Cred :
                           Arrived(q, s, kind, u, c)
  <1>0. ASSUME task'[q] = task[q] PROVE Goal
    BY <1>0 DEF Asks
  <1>1. ASSUME NEW r \in Task, NEW s \in Sess, Request(r, s) PROVE Goal
    <2>1. PICK kind \in {"list", "call", "manage"}, u \in User, c \in Cred :
             Arrived(r, s, kind, u, c)
      BY <1>1, RequestTask
    <2>2. CASE r # q
      BY <1>0, <2>1, <2>2 DEF Arrived, TaskOK
    <2>3. CASE r = q
      <3>1. kind \in {"list", "call"}
        BY <2>1, <2>3 DEF Arrived, Asks
      <3> QED BY <2>1, <2>3, <3>1
    <2> QED BY <2>2, <2>3
  <1>2. ASSUME NEW r \in Task, NEW u \in User, Starts(r, u) PROVE Goal
    <2>1. PICK step \in {"edit", "revoke"} : task' = [task EXCEPT ![r] =
            [Idle EXCEPT !.pc = step, !.kind = "web", !.user = u, !.who = u]]
      BY <1>2 DEF Starts, WebStart, DisableUser
    <2>2. r # q
      BY <2>1 DEF Asks, Idle, TaskOK
    <2> QED BY <1>0, <2>1, <2>2 DEF TaskOK
  <1>3. ASSUME NEW r \in Task, Moves(r) PROVE Goal
    <2>1. CASE r # q
      <3>1. task' = [task EXCEPT ![r] = task'[r]]
        BY <1>3, MovesTask
      <3> QED BY <1>0, <2>1, <3>1 DEF TaskOK
    <2>2. CASE r = q
      <3>1. /\ task'[q].kind = task[q].kind /\ task'[q].sess = task[q].sess
            /\ task'[q].user = task[q].user
        BY <1>3, <2>2, MovesTask
      <3>2. Asks(q)
        BY <3>1 DEF Asks
      <3>3. task'[q].cred = task[q].cred /\ task'[q].gid = task[q].gid
        BY <1>3, <2>2, <3>2, MovesKnow
      <3> QED BY <3>1, <3>2, <3>3
    <2> QED BY <2>1, <2>2
  <1>4. ASSUME NEW r \in Task, Ends(r) PROVE Goal
    <2>1. task' = [task EXCEPT ![r] = Idle]
      BY <1>4, EndsTask
    <2>2. r # q
      BY <2>1, RouterAssumption DEF Asks, Idle, TaskOK
    <2> QED BY <1>0, <2>1, <2>2 DEF TaskOK
  <1>5. ASSUME \/ \E s \in Sess : SessionEnds(s) \/ Deliver(s) \/ Prune(s)
               \/ \E u \in User : EnableUser(u)
        PROVE  Goal
    <2>1. UNCHANGED task
      BY <1>5 DEF SessionEnds, Deliver, Prune, EnableUser
    <2> QED BY <1>0, <2>1
  <1>6. ASSUME UNCHANGED vars PROVE Goal
    BY <1>0, <1>6 DEF vars
  <1> HIDE DEF Goal
  <1>7. Goal
    BY <1>1, <1>2, <1>3, <1>4, <1>5, <1>6, StepKinds DEF Next
  <1> QED BY <1>7 DEF Goal

-----------------------------------------------------------------------------
(* Groups. *)

\* Only four operations change groups and their members.
LEMMA GroupsChange ==
    ASSUME [Next]_vars
    PROVE  \/ UNCHANGED <<group, spent, members>>
           \/ \E q \in Task : CreateGroup(q) \/ SetMembers(q) \/ DeleteGroup(q)
                              \/ RemoveServer(q)
  <1> USE DEF dbVars
  <1>1. ASSUME NEW q \in Task, NEW s \in Sess, Request(q, s)
        PROVE  UNCHANGED <<group, spent, members>>
    BY <1>1 DEF Request, Arrive
  <1>2. ASSUME NEW q \in Task, Moves(q),
               ~(CreateGroup(q) \/ SetMembers(q) \/ DeleteGroup(q) \/ RemoveServer(q))
        PROVE  UNCHANGED <<group, spent, members>>
    BY <1>2 DEF Moves, Bind, ReadMembers, ReadDenials, Forward, Act, RenameGroup,
                ReadGroup, ReadAccess
  <1>3. ASSUME NEW q \in Task, Ends(q), ~CreateGroup(q)
        PROVE  UNCHANGED <<group, spent, members>>
    BY <1>3 DEF Ends, AnswerList, AnswerCall, EditNothing, SetMembersFails, Notify,
                NotifyLost, SetDenials, CreateToken, RevokeToken, RevokeAllForUser
  <1>4. ASSUME \/ \E q \in Task, u \in User : Starts(q, u)
               \/ \E s \in Sess : SessionEnds(s) \/ Deliver(s) \/ Prune(s)
               \/ \E u \in User : EnableUser(u)
        PROVE  UNCHANGED <<group, spent, members>>
    BY <1>4 DEF Starts, WebStart, DisableUser, SessionEnds, Deliver, Prune, EnableUser
  <1>5. CASE UNCHANGED vars
    BY <1>5 DEF vars
  <1> QED BY <1>1, <1>2, <1>3, <1>4, <1>5, StepKinds DEF Next

\* Every step keeps group ids apart and groups with their owner's servers, and
\* gives out new ids only.
LEMMA GroupStep ==
    ASSUME TaskOK, TaskInv, WorldOK, GroupInv, [Next]_vars
    PROVE  /\ GroupInv'
           /\ spent \subseteq spent'
           /\ \A u \in User : \/ group'[u] \in {group[u], None}
                              \/ group'[u] \in Gid \ spent
  <1> USE DEF WorldOK
  <1> DEFINE Goal == /\ GroupInv'
                     /\ spent \subseteq spent'
                     /\ \A u \in User : \/ group'[u] \in {group[u], None}
                                        \/ group'[u] \in Gid \ spent
  <1>1. CASE UNCHANGED <<group, spent, members>>
    BY <1>1 DEF GroupInv
  <1>2. ASSUME NEW q \in Task, CreateGroup(q) PROVE Goal
    <2>1. task[q].who \in User /\ group[task[q].who] = None
      BY <1>2 DEF CreateGroup, TaskInv, Knows, Acting
    <2>2. PICK g \in Gid \ spent : /\ group' = [group EXCEPT ![task[q].who] = g]
                                   /\ spent' = spent \cup {g}
      BY <1>2 DEF CreateGroup
    <2>3. UNCHANGED members
      BY <1>2 DEF CreateGroup
    <2> QED BY <2>1, <2>2, <2>3, RouterAssumption DEF GroupInv
  <1>3. ASSUME NEW q \in Task, SetMembers(q) PROVE Goal
    <2>1. task[q].who \in User /\ task[q].gid \in Gid
      BY <1>3 DEF SetMembers, TaskInv, Knows, Acting
    <2>2. /\ group[task[q].who] = task[q].gid
          /\ members' = [members EXCEPT ![task[q].gid] =
                            task[q].got \cap Owned(task[q].who)]
          /\ UNCHANGED <<group, spent>>
      BY <1>3 DEF SetMembers
    <2> QED BY <2>1, <2>2 DEF GroupInv, Owned
  <1>4. ASSUME NEW q \in Task, DeleteGroup(q) PROVE Goal
    <2>1. PICK u \in User : u = task[q].who
      BY <1>4 DEF DeleteGroup, TaskInv, Knows, Acting
    <2>2. /\ group[u] \in Gid
          /\ group' = [group EXCEPT ![u] = None]
          /\ members' = [members EXCEPT ![group[u]] = {}]
          /\ UNCHANGED spent
      BY <1>4, <2>1 DEF DeleteGroup
    <2> QED BY <2>2, RouterAssumption DEF GroupInv
  <1>5. ASSUME NEW q \in Task, RemoveServer(q) PROVE Goal
    <2>1. UNCHANGED <<group, spent>> /\ \A g \in Gid : members'[g] \subseteq members[g]
      BY <1>5 DEF RemoveServer
    <2> QED BY <2>1 DEF GroupInv
  <1> HIDE DEF Goal
  <1>6. Goal
    BY <1>1, <1>2, <1>3, <1>4, <1>5, GroupsChange DEF Goal
  <1> QED BY <1>6 DEF Goal

\* Every step keeps a request on a group that nobody else has.
LEMMA EndpointStep ==
    ASSUME TaskOK, TaskInv, WorldOK, BoundInv, GroupInv, EndpointInv, [Next]_vars
    PROVE  EndpointInv'
  <1> SUFFICES ASSUME NEW q \in Task, Asks(q)'
               PROVE  /\ task'[q].gid \in spent'
                      /\ \A u \in User : group'[u] = task'[q].gid => u = task'[q].user
    BY DEF EndpointInv
  <1>0. /\ spent \subseteq spent'
        /\ \A u \in User : group'[u] \in {group[u], None} \/ group'[u] \in Gid \ spent
    BY GroupStep
  <1>1. CASE /\ Asks(q) /\ task'[q].user = task[q].user
             /\ task'[q].gid = task[q].gid
    <2>1. task[q].gid \in Gid
      BY <1>1 DEF TaskInv, Knows, Asks
    <2> QED BY <1>0, <1>1, <2>1, RouterAssumption DEF EndpointInv
  <1>2. ASSUME NEW s \in Sess, NEW kind \in {"list", "call"}, NEW u \in User,
               NEW c \in Cred, Arrived(q, s, kind, u, c)
        PROVE  /\ task'[q].gid \in spent'
               /\ \A v \in User : group'[v] = task'[q].gid => v = task'[q].user
    <2>1. /\ UNCHANGED <<group, spent>> /\ task'[q].user = u /\ task'[q].gid = group[u]
          /\ group[u] \in Gid
      BY <1>2 DEF Arrived, dbVars
    <2>2. group[u] # None
      BY <2>1, RouterAssumption
    <2> QED BY <2>1, <2>2 DEF GroupInv
  <1> QED BY <1>1, <1>2, AsksFrom

-----------------------------------------------------------------------------
(* Sessions. *)

\* A task in a session past bind was so before, or is being bound; a management
\* call about to act was so before, or is being bound.
LEMMA PastBind ==
    ASSUME TaskOK, TaskInv, WorldOK, BoundInv, [Next]_vars, NEW q \in Task,
           task'[q].sess \in Sess, task'[q].pc # "bind", ~Bind(q)
    PROVE  /\ task[q].sess = task'[q].sess /\ task[q].pc # "bind"
           /\ task'[q].user = task[q].user
           /\ task'[q].pc = "act" => task[q].pc = "act"
           /\ q \in rebound => q \in rebound'
  <1> DEFINE Goal == /\ task[q].sess = task'[q].sess /\ task[q].pc # "bind"
                     /\ task'[q].user = task[q].user
                     /\ task'[q].pc = "act" => task[q].pc = "act"
                     /\ q \in rebound => q \in rebound'
  <1>1. ASSUME NEW r \in Task, NEW s \in Sess, Request(r, s) PROVE Goal
    <2>1. PICK kind \in {"list", "call", "manage"}, u \in User, c \in Cred :
             Arrived(r, s, kind, u, c)
      BY <1>1, RequestTask
    <2>2. r # q
      BY <2>1 DEF Arrived
    <2> QED BY <2>1, <2>2 DEF Arrived, TaskOK
  <1>2. ASSUME NEW r \in Task, NEW u \in User, Starts(r, u) PROVE Goal
    <2>1. PICK step \in {"edit", "revoke"} : task' = [task EXCEPT ![r] =
            [Idle EXCEPT !.pc = step, !.kind = "web", !.user = u, !.who = u]]
      BY <1>2 DEF Starts, WebStart, DisableUser
    <2>2. r # q
      BY <2>1, RouterAssumption DEF Idle, TaskOK
    <2> QED BY <1>2, <2>1, <2>2 DEF TaskOK, Starts, WebStart, DisableUser
  <1>3. ASSUME NEW r \in Task, Moves(r) PROVE Goal
    <2>1. q \in rebound => q \in rebound'
      BY <1>3 DEF Moves, Bind, ReadMembers, ReadDenials, Forward, Act, RenameGroup,
                  ReadGroup, SetMembers, DeleteGroup, RemoveServer, ReadAccess, CreateGroup
    <2>2. CASE r # q
      <3>1. task' = [task EXCEPT ![r] = task'[r]]
        BY <1>3, MovesTask
      <3> QED BY <2>1, <2>2, <3>1 DEF TaskOK
    <2>3. CASE r = q
      <3>1. task[q].sess = task'[q].sess /\ task'[q].user = task[q].user
        BY <1>3, <2>3, MovesTask
      <3>2. task[q].pc \in {"members", "denials", "act"} \cup Acting
        BY <1>3, <2>3
        DEF Moves, ReadMembers, ReadDenials, Forward, Act, RenameGroup, ReadGroup,
            SetMembers, DeleteGroup, RemoveServer, ReadAccess, CreateGroup, Acting
      <3>3. task[q].pc # "bind"
        BY <3>2 DEF Acting
      <3>4. task'[q].pc # "act"
        <4>1. Knows(task'[q]) /\ Knows(task[q]) /\ task[q].kind = task'[q].kind
              /\ task[q] \in TaskRec
          BY <1>3, <2>3, MovesKnow, MovesTask DEF TaskInv, TaskOK
        <4>2. CASE ReadMembers(q) \/ ReadDenials(q) \/ Forward(q)
          <5>1. task[q].kind \in {"list", "call"}
            BY <4>1, <4>2 DEF ReadMembers, ReadDenials, Forward, Knows
          <5> QED BY <4>1, <5>1 DEF Knows, Asking
        <4>3. CASE Act(q)
          BY <4>1, <4>3 DEF Act, TaskOK, TaskRec
        <4>4. CASE RenameGroup(q) \/ SetMembers(q) \/ DeleteGroup(q) \/ RemoveServer(q)
          <5>1. task' = [task EXCEPT ![q].pc = "notify"]
            BY <4>4 DEF RenameGroup, SetMembers, DeleteGroup, RemoveServer
          <5> QED BY <4>1, <5>1 DEF TaskOK, TaskRec
        <4>5. CASE ReadGroup(q)
          BY <4>1, <4>5 DEF ReadGroup, TaskOK, TaskRec
        <4>6. CASE ReadAccess(q)
          BY <4>1, <4>6 DEF ReadAccess, TaskOK, TaskRec
        <4>7. CASE CreateGroup(q) /\ task[q].kind = "manage"
          BY <4>1, <4>7 DEF CreateGroup, TaskOK, TaskRec
        <4> QED BY <1>3, <2>3, <4>2, <4>3, <4>4, <4>5, <4>6, <4>7 DEF Moves
      <3> QED BY <2>1, <3>1, <3>3, <3>4
    <2> QED BY <2>2, <2>3
  <1>4. ASSUME NEW r \in Task, Ends(r) PROVE Goal
    <2>1. task' = [task EXCEPT ![r] = Idle] /\ rebound' = rebound \ {r}
      BY <1>4, EndsTask
    <2>2. r # q
      BY <2>1, RouterAssumption DEF Idle, TaskOK
    <2> QED BY <2>1, <2>2 DEF TaskOK
  <1>5. ASSUME \/ \E s \in Sess : SessionEnds(s) \/ Deliver(s) \/ Prune(s)
               \/ \E u \in User : EnableUser(u)
               \/ UNCHANGED vars
        PROVE  Goal
    <2>1. UNCHANGED <<task, rebound>>
      BY <1>5 DEF SessionEnds, Deliver, Prune, EnableUser, vars
    <2> QED BY <2>1
  <1> HIDE DEF Goal
  <1>6. Goal
    BY <1>1, <1>2, <1>3, <1>4, <1>5, StepKinds DEF Next
  <1> QED BY <1>6 DEF Goal

\* Sessions are bound and unbound, registered and pruned, by three steps only.
LEMMA SessionsChange ==
    ASSUME [Next]_vars
    PROVE  \/ UNCHANGED <<bound, peer>>
           \/ \E q \in Task : Bind(q)
           \/ \E s \in Sess : SessionEnds(s) \/ Prune(s)
  <1>1. ASSUME NEW q \in Task, NEW s \in Sess, Request(q, s)
        PROVE  UNCHANGED <<bound, peer>>
    BY <1>1 DEF Request, Arrive
  <1>2. ASSUME NEW q \in Task, Moves(q), ~Bind(q)
        PROVE  UNCHANGED <<bound, peer>>
    BY <1>2 DEF Moves, ReadMembers, ReadDenials, Forward, Act, RenameGroup,
                ReadGroup, ReadAccess, CreateGroup, SetMembers, DeleteGroup, RemoveServer
  <1>3. ASSUME NEW q \in Task, Ends(q)
        PROVE  UNCHANGED <<bound, peer>>
    BY <1>3 DEF Ends, AnswerList, AnswerCall, EditNothing, SetMembersFails, Notify,
                NotifyLost, SetDenials, CreateToken, RevokeToken, RevokeAllForUser, CreateGroup
  <1>4. ASSUME \/ \E q \in Task, u \in User : Starts(q, u)
               \/ \E s \in Sess : Deliver(s)
               \/ \E u \in User : EnableUser(u)
        PROVE  UNCHANGED <<bound, peer>>
    BY <1>4 DEF Starts, WebStart, DisableUser, Deliver, EnableUser
  <1>5. CASE UNCHANGED vars
    BY <1>5 DEF vars
  <1> QED BY <1>1, <1>2, <1>3, <1>4, <1>5, StepKinds DEF Next

\* what bind does to its session
Binding(q, s) ==
    /\ task[q].pc = "bind" /\ task[q].sess = s /\ s \in Sess /\ task[q].user \in User
    /\ task'[q].sess = s /\ task'[q].user = task[q].user
    /\ task'[q].kind = task[q].kind
    /\ \A r \in Task \ {q} : task'[r] = task[r]
    /\ bound' = [bound EXCEPT ![s] = task[q].user]
    /\ \/ /\ bound[s] = task[q].user /\ UNCHANGED <<peer, untold, rebound>>
       \/ /\ bound[s] # task[q].user
          /\ peer' = [peer EXCEPT ![s] = task[q].user]
          /\ untold' = IF bound[s] = None THEN untold ELSE untold \cup {s}
          /\ rebound' = rebound \cup
                {r \in Task : task[r].pc = "act" /\ task[r].sess = s
                              /\ task[r].user # task[q].user}
    /\ UNCHANGED <<dbVars, cliVars, outdated, stale>>

\* A request to be bound has a session and a user.
LEMMA BindBinds ==
    ASSUME TaskOK, TaskInv, WorldOK, NEW q \in Task, Bind(q)
    PROVE  \E s \in Sess : Binding(q, s)
  <1>1. PICK s \in Sess : s = task[q].sess
    BY DEF Bind, TaskInv, Knows, TaskOK, TaskRec, Acting
  <1>2. task[q].user \in User
    BY DEF Bind, TaskInv, Knows, TaskOK, TaskRec, Acting
  <1>3. /\ task'[q].sess = s /\ task'[q].user = task[q].user
        /\ task'[q].kind = task[q].kind
        /\ \A r \in Task \ {q} : task'[r] = task[r]
    <2>1. Moves(q)
      BY DEF Moves
    <2>2. task' = [task EXCEPT ![q] = task'[q]]
      BY <2>1, MovesTask
    <2> QED BY <1>1, <2>1, <2>2, MovesTask DEF TaskOK
  <1>4. CASE Rebinds(q)
    BY <1>1, <1>2, <1>3, <1>4 DEF Bind, Binding, Registered, Rebinds
  <1>5. CASE ~Rebinds(q)
    <2>1. bound[s] = task[q].user
      BY <1>1, <1>5 DEF Rebinds
    <2>2. bound' = [bound EXCEPT ![s] = task[q].user]
      BY <1>5, <2>1 DEF Bind, WorldOK
    <2> QED BY <1>1, <1>2, <1>3, <1>5, <2>1, <2>2 DEF Bind, Binding
  <1> QED BY <1>4, <1>5

\* Every step keeps requests past bind in bound sessions.
LEMMA BoundStep ==
    ASSUME TaskOK, TaskInv, WorldOK, BoundInv, [Next]_vars
    PROVE  BoundInv'
  <1>1. ASSUME NEW q \in Task, Bind(q) PROVE BoundInv'
    <2>1. PICK s \in Sess : Binding(q, s)
      BY <1>1, BindBinds
    <2>2. ASSUME NEW r \in Task, task'[r].sess \in Sess, task'[r].pc # "bind"
          PROVE  bound'[task'[r].sess] # None
      BY <2>1, <2>2, RouterAssumption, ZenonT(60) DEF Binding, BoundInv, WorldOK
    <2>3. ASSUME NEW r \in Task \ rebound', task'[r].pc = "act"
          PROVE  bound'[task'[r].sess] = task'[r].user
      <3>1. CASE r = q
        BY <2>1, <3>1 DEF Binding, WorldOK
      <3>2. CASE r # q
        <4>1. r \notin rebound /\ task[r].pc = "act" /\ task'[r] = task[r]
          BY <2>1, <2>3, <3>2 DEF Binding
        <4>2. bound[task[r].sess] = task[r].user
          BY <4>1 DEF BoundInv
        <4>3. task[r].sess = s => task[r].user = task[q].user
          BY <2>1, <2>3, <4>1, <4>2 DEF Binding
        <4>4. task[r].sess \in Sess
          BY <4>1 DEF TaskInv, Knows, TaskOK, TaskRec, Acting, Asking
        <4> QED BY <2>1, <4>1, <4>2, <4>3, <4>4 DEF Binding, WorldOK
      <3> QED BY <3>1, <3>2
    <2> QED BY <2>2, <2>3 DEF BoundInv
  <1>2. ASSUME NEW s \in Sess, SessionEnds(s) PROVE BoundInv'
    <2>1. /\ UNCHANGED <<task, rebound>> /\ bound' = [bound EXCEPT ![s] = None]
          /\ \A q \in Task : task[q].sess # s
      BY <1>2 DEF SessionEnds
    <2>2. \A q \in Task : bound'[task[q].sess] = bound[task[q].sess]
      BY <2>1 DEF WorldOK
    <2> QED BY <2>1, <2>2 DEF BoundInv
  <1>3. ASSUME UNCHANGED bound, ~ \E q \in Task : Bind(q) PROVE BoundInv'
    <2>1. ASSUME NEW q \in Task, task'[q].sess \in Sess, task'[q].pc # "bind"
          PROVE  bound'[task'[q].sess] # None
      BY <1>3, <2>1, PastBind DEF BoundInv
    <2>2. ASSUME NEW q \in Task \ rebound', task'[q].pc = "act"
          PROVE  bound'[task'[q].sess] = task'[q].user
      <3>1. task'[q].sess \in Sess
        <4>1. Knows(task'[q]) /\ task'[q] \in TaskRec
          BY TaskStep DEF TaskInv, TaskOK
        <4> QED BY <2>2, <4>1 DEF Knows, TaskRec, Acting, Asking
      <3> QED BY <1>3, <2>2, <3>1, PastBind DEF BoundInv
    <2> QED BY <2>1, <2>2 DEF BoundInv
  <1>4. ASSUME NEW s \in Sess, Prune(s) PROVE UNCHANGED bound /\ UNCHANGED task /\ UNCHANGED rebound
    BY <1>4 DEF Prune
  <1>5. ASSUME NEW s \in Sess, Prune(s) PROVE BoundInv'
    BY <1>4, <1>5 DEF BoundInv
  <1> QED BY <1>1, <1>2, <1>3, <1>5, SessionsChange

-----------------------------------------------------------------------------
(* Grants. *)

MayRec == [enabled : BOOLEAN, member : SUBSET Inst, allowed : SUBSET Inst]

\* A record of what has been granted is one, and has the fields it is made of.
LEMMA MayIs ==
    ASSUME NEW on \in BOOLEAN, NEW m \in SUBSET Inst, NEW a \in SUBSET Inst
    PROVE  /\ [enabled |-> on, member |-> m, allowed |-> a] \in MayRec
           /\ [enabled |-> on, member |-> m, allowed |-> a].enabled = on
           /\ [enabled |-> on, member |-> m, allowed |-> a].member = m
           /\ [enabled |-> on, member |-> m, allowed |-> a].allowed = a
  BY DEF MayRec

\* What a request may have been granted is well typed, grows while the request is
\* under way, and holds what the new state grants.
LEMMA Observed ==
    ASSUME TaskOK', TaskInv', WorldOK, group' \in [User -> Gid \cup {None}],
           members' \in [Gid -> SUBSET Inst], Observe
    PROVE  /\ may' \in [Task -> MayRec]
           /\ \A q \in Task : Asks(q)' =>
                /\ may[q].enabled \/ task'[q].user \notin disabled' => may'[q].enabled
                /\ may[q].member \cup MembersOf(group[task[q].user])'
                      \subseteq may'[q].member
                /\ may[q].allowed \cup (Inst \ DeniedTo(task[q].cred)')
                      \subseteq may'[q].allowed
  <1> SUFFICES ASSUME NEW q \in Task
               PROVE  /\ may'[q] \in MayRec
                      /\ Asks(q)' =>
                          /\ may[q].enabled \/ task'[q].user \notin disabled'
                               => may'[q].enabled
                          /\ may[q].member \cup MembersOf(group[task[q].user])'
                                \subseteq may'[q].member
                          /\ may[q].allowed \cup (Inst \ DeniedTo(task[q].cred)')
                                \subseteq may'[q].allowed
    BY DEF Observe
  <1>0. may[q] \in MayRec
    BY DEF WorldOK, MayRec
  <1>1. CASE ~Asks(q)'
    <2>1. may'[q] = Nothing
      BY <1>1 DEF Observe
    <2>2. Nothing \in MayRec
      BY DEF Nothing, MayRec
    <2> QED BY <1>1, <2>1, <2>2
  <1>2. CASE Asks(q)'
    <2>1. may'[q] = [enabled |-> may[q].enabled \/ Grants(q)'.enabled,
                     member  |-> may[q].member \cup Grants(q)'.member,
                     allowed |-> may[q].allowed \cup Grants(q)'.allowed]
      BY <1>2 DEF Observe, Joined
    <2>2. /\ Grants(q)'.enabled = (task'[q].user \notin disabled')
          /\ Grants(q)'.member = MembersOf(group[task[q].user])'
          /\ Grants(q)'.allowed = Inst \ DeniedTo(task[q].cred)'
      BY DEF Grants
    <2>3. PICK on \in BOOLEAN : on = (may[q].enabled \/ Grants(q)'.enabled)
      BY Zenon
    <2>4. MembersOf(group[task[q].user])' \in SUBSET Inst
      <3>1. task'[q].user \in User
        BY <1>2 DEF TaskInv, Knows, Asks
      <3> QED BY <3>1 DEF MembersOf
    <2>5. may[q].member \cup Grants(q)'.member \in SUBSET Inst
          /\ may[q].allowed \cup Grants(q)'.allowed \in SUBSET Inst
      BY <1>0, <2>2, <2>4 DEF MayRec
    <2>6. may'[q] = [enabled |-> on,
                     member  |-> may[q].member \cup Grants(q)'.member,
                     allowed |-> may[q].allowed \cup Grants(q)'.allowed]
      BY <2>1, <2>3, Zenon
    <2>7. /\ may'[q] \in MayRec
          /\ may'[q].enabled = on
          /\ may'[q].member = may[q].member \cup Grants(q)'.member
          /\ may'[q].allowed = may[q].allowed \cup Grants(q)'.allowed
      BY <2>5, <2>6, MayIs
    <2>8. may[q].enabled \/ task'[q].user \notin disabled' => may'[q].enabled
      BY <2>2, <2>3, <2>7, Zenon
    <2> QED BY <2>2, <2>7, <2>8
  <1> QED BY <1>1, <1>2

\* Every step keeps the rest of the state well typed.
LEMMA WorldStep ==
    ASSUME TaskOK, TaskInv, WorldOK, BoundInv, [Next]_vars
    PROVE  WorldOK'
  <1> USE DEF dbVars, cliVars, tellVars
  <1> DEFINE NoMay ==
        /\ disabled \in SUBSET User
        /\ pat \in [Pat -> {"new", "live", "revoked"}]
        /\ group \in [User -> Gid \cup {None}]
        /\ spent \in SUBSET Gid
        /\ members \in [Gid -> SUBSET Inst]
        /\ denials \in SUBSET (Cred \X Inst)
        /\ exists \in SUBSET Inst
        /\ bound \in [Sess -> User \cup {None}]
        /\ peer \in [Sess -> User \cup {None}]
        /\ listed \in [Sess -> Gid \cup {None}]
        /\ sending \in SUBSET Sess
        /\ unread \in SUBSET Sess
        /\ ops \in 0..MaxOps
        /\ outdated \in SUBSET Task
        /\ stale \in SUBSET Sess
        /\ untold \in SUBSET Sess
        /\ rebound \in SUBSET Task
  <1>0. NoMay
    BY DEF WorldOK
  <1>1. ASSUME NEW q \in Task, NEW s \in Sess, Request(q, s) PROVE NoMay'
    BY <1>0, <1>1, RouterAssumption DEF Request, Arrive, Spend
  <1>2. ASSUME NEW q \in Task, NEW u \in User, Starts(q, u) PROVE NoMay'
    BY <1>0, <1>2, RouterAssumption DEF Starts, WebStart, DisableUser, Spend
  <1>3. ASSUME NEW q \in Task, Moves(q) PROVE NoMay'
    <2>1. CASE Bind(q)
      <3>1. PICK s \in Sess : Binding(q, s)
        BY <2>1, BindBinds
      <3>2. UNCHANGED ops
        BY <2>1 DEF Bind
      <3> QED BY <1>0, <3>1, <3>2 DEF Binding
    <2>2. CASE ReadMembers(q) \/ ReadDenials(q) \/ Forward(q) \/ Act(q) \/ RenameGroup(q)
               \/ ReadGroup(q) \/ ReadAccess(q)
      BY <1>0, <2>2 DEF ReadMembers, ReadDenials, Forward, Act, RenameGroup, ReadGroup,
                        ReadAccess
    <2>3. CASE CreateGroup(q)
      BY <1>0, <2>3, ZenonT(60) DEF CreateGroup, End
    <2>4. CASE SetMembers(q)
      BY <1>0, <2>4 DEF SetMembers, Overtakes, Owned
    <2>5. CASE DeleteGroup(q)
      BY <1>0, <2>5 DEF DeleteGroup, Overtakes
    <2>6. CASE RemoveServer(q)
      BY <1>0, <2>6 DEF RemoveServer, Overtakes
    <2> QED BY <1>3, <2>1, <2>2, <2>3, <2>4, <2>5, <2>6 DEF Moves
  <1>4. ASSUME NEW q \in Task, Ends(q) PROVE NoMay'
    <2>1. CASE AnswerList(q)
      BY <1>0, <2>1 DEF AnswerList, End, TaskInv, Knows
    <2>2. CASE AnswerCall(q) \/ EditNothing(q) \/ SetMembersFails(q) \/ NotifyLost(q)
      BY <1>0, <2>2 DEF AnswerCall, EditNothing, SetMembersFails, NotifyLost, End
    <2>3. CASE Notify(q)
      BY <1>0, <2>3 DEF Notify, Targets, End
    <2>4. CASE SetDenials(q)
      <3>1. task[q].cred \in Cred
        BY <2>4 DEF SetDenials, TaskInv, Knows
      <3>2. {task[q].cred} \X (task[q].got \cap Owned(task[q].who)) \in SUBSET (Cred \X Inst)
        BY <1>0, <3>1 DEF Owned
      <3>3. denials' \in SUBSET (Cred \X Inst)
        BY <1>0, <2>4, <3>2 DEF SetDenials
      <3> QED BY <1>0, <2>4, <3>3 DEF SetDenials, End
    <2>5. CASE CreateToken(q)
      BY <1>0, <2>5 DEF CreateToken, End
    <2>6. CASE RevokeToken(q)
      BY <1>0, <2>6 DEF RevokeToken, End
    <2>8. CASE RevokeAllForUser(q)
      BY <1>0, <2>8 DEF RevokeAllForUser, End
    <2>7. CASE CreateGroup(q)
      BY <1>0, <2>7, ZenonT(60) DEF CreateGroup, End
    <2> QED BY <1>4, <2>1, <2>2, <2>3, <2>4, <2>5, <2>6, <2>7, <2>8 DEF Ends
  <1>5. ASSUME NEW s \in Sess, SessionEnds(s) \/ Deliver(s) \/ Prune(s) PROVE NoMay'
    BY <1>0, <1>5 DEF SessionEnds, Deliver, Prune
  <1>6. ASSUME NEW u \in User, EnableUser(u) PROVE NoMay'
    BY <1>0, <1>6, RouterAssumption DEF EnableUser, Spend
  <1>7. CASE UNCHANGED vars
    BY <1>7 DEF vars, WorldOK
  <1>8. CASE Next
    <2> HIDE DEF NoMay
    <2>1. NoMay'
      BY <1>1, <1>2, <1>3, <1>4, <1>5, <1>6, <1>8, StepKinds DEF Next
    <2> USE DEF NoMay
    <2>2. may' \in [Task -> MayRec]
      BY <1>8, <2>1, TaskStep, Observed DEF Next
    <2> QED BY <2>1, <2>2 DEF WorldOK, MayRec
  <1> QED BY <1>7, <1>8

\* Every step keeps the record of what a request may have been granted complete.
LEMMA MayStep ==
    ASSUME TaskOK, TaskInv, WorldOK, BoundInv, MayInv, [Next]_vars
    PROVE  MayInv'
  <1>1. CASE UNCHANGED vars
    BY <1>1 DEF MayInv, vars, dbVars, Asks, MembersOf, DeniedTo
  <1>2. CASE Next
    <2> SUFFICES ASSUME NEW q \in Task, Asks(q)'
                 PROVE  /\ may'[q].enabled
                        /\ MembersOf(group[task[q].user])' \subseteq may'[q].member
                        /\ Inst \ DeniedTo(task[q].cred)' \subseteq may'[q].allowed
      BY DEF MayInv
    <2>1. /\ may[q].enabled \/ task'[q].user \notin disabled' => may'[q].enabled
          /\ MembersOf(group[task[q].user])' \subseteq may'[q].member
          /\ Inst \ DeniedTo(task[q].cred)' \subseteq may'[q].allowed
      BY <1>2, TaskStep, WorldStep, Observed DEF Next, WorldOK
    <2>2. CASE Asks(q)
      BY <2>1, <2>2 DEF MayInv
    <2>3. ASSUME NEW s \in Sess, NEW kind \in {"list", "call"}, NEW u \in User,
                 NEW c \in Cred, Arrived(q, s, kind, u, c)
          PROVE  may'[q].enabled
      BY <2>1, <2>3 DEF Arrived, dbVars
    <2> QED BY <2>1, <2>2, <2>3, AsksFrom
  <1> QED BY <1>1, <1>2

\* What a request takes only three steps can set.
LEMMA ReadsOnly ==
    ASSUME TaskOK, TaskInv, WorldOK, BoundInv, [Next]_vars, NEW q \in Task,
           task'[q].pc \in HasRead \cup {"called"}
    PROVE  \/ task'[q] = task[q]
           \/ ReadMembers(q) \/ ReadDenials(q) \/ Forward(q)
  <1> DEFINE Goal == task'[q] = task[q] \/ ReadMembers(q) \/ ReadDenials(q) \/ Forward(q)
  <1>1. ASSUME NEW r \in Task, NEW s \in Sess, Request(r, s) PROVE Goal
    <2>1. PICK kind \in {"list", "call", "manage"}, u \in User, c \in Cred :
             Arrived(r, s, kind, u, c)
      BY <1>1, RequestTask
    <2> QED BY <2>1 DEF Arrived, HasRead, TaskOK
  <1>2. ASSUME NEW r \in Task, NEW u \in User, Starts(r, u) PROVE Goal
    <2>1. PICK step \in {"edit", "revoke"} : task' = [task EXCEPT ![r] =
            [Idle EXCEPT !.pc = step, !.kind = "web", !.user = u, !.who = u]]
      BY <1>2 DEF Starts, WebStart, DisableUser
    <2> QED BY <2>1 DEF HasRead, Idle, TaskOK
  <1>3. ASSUME NEW r \in Task, Moves(r) PROVE Goal
    <2>1. CASE r # q
      <3>1. task' = [task EXCEPT ![r] = task'[r]]
        BY <1>3, MovesTask
      <3> QED BY <2>1, <3>1 DEF TaskOK
    <2>2. CASE r = q
      <3>1. Asks(q)
        <4>1. Knows(task'[q]) /\ task[q].kind = task'[q].kind
          BY <1>3, <2>2, MovesKnow, MovesTask
        <4> QED BY <4>1 DEF Knows, HasRead, Asks
      <3>2. task[q].pc \in Asking
        BY <3>1 DEF TaskInv, Knows, Asks
      <3>3. CASE Bind(q)
        <4>1. task'[q].pc \in {"act", "members"}
          BY <3>3 DEF Bind, TaskOK, TaskRec
        <4> QED BY <4>1 DEF HasRead
      <3>4. CASE Act(q) \/ RenameGroup(q) \/ ReadGroup(q) \/ SetMembers(q)
                 \/ DeleteGroup(q) \/ RemoveServer(q) \/ ReadAccess(q) \/ CreateGroup(q)
        BY <3>2, <3>4
        DEF Act, RenameGroup, ReadGroup, SetMembers, DeleteGroup, RemoveServer,
            ReadAccess, CreateGroup, Asking
      <3> QED BY <1>3, <2>2, <3>3, <3>4 DEF Moves
    <2> QED BY <2>1, <2>2
  <1>4. ASSUME NEW r \in Task, Ends(r) PROVE Goal
    <2>1. task' = [task EXCEPT ![r] = Idle]
      BY <1>4, EndsTask
    <2> QED BY <2>1 DEF HasRead, Idle, TaskOK
  <1>5. ASSUME \/ \E s \in Sess : SessionEnds(s) \/ Deliver(s) \/ Prune(s)
               \/ \E u \in User : EnableUser(u)
               \/ UNCHANGED vars
        PROVE  Goal
    BY <1>5 DEF SessionEnds, Deliver, Prune, EnableUser, vars
  <1> HIDE DEF Goal
  <1>6. Goal
    BY <1>1, <1>2, <1>3, <1>4, <1>5, StepKinds DEF Next
  <1> QED BY <1>6 DEF Goal

\* What has been granted to a request under way is not taken out of the record.
LEMMA MayGrows ==
    ASSUME TaskOK, TaskInv, WorldOK, BoundInv, [Next]_vars, NEW q \in Task, Asks(q)'
    PROVE  may[q].member \subseteq may'[q].member /\ may[q].allowed \subseteq may'[q].allowed
  <1>1. CASE UNCHANGED vars
    BY <1>1 DEF vars
  <1>2. CASE Next
    BY <1>2, TaskStep, WorldStep, Observed DEF Next, WorldOK
  <1> QED BY <1>1, <1>2

\* what the invariant says of a request that has read the members
Got(t, m) ==
    /\ t.pc \in HasRead \cup {"called"} => \A i \in t.got :
          Owner[i] = t.user /\ i \in m.member
    /\ t.pc \in {"answer", "called"} => \A i \in t.got : i \in m.allowed \/ t.blind
    /\ t.pc = "called" => \A i \in t.got :
          Space[i] = RoutedTo(Namespaced(t.want[1], t.want[2]))

\* Every step keeps what a request takes within what it may have been granted.
LEMMA GotStep ==
    ASSUME TaskOK, TaskInv, WorldOK, BoundInv, GroupInv, EndpointInv, MayInv, GotInv,
           [Next]_vars
    PROVE  GotInv'
  <1>0. \A q \in Task : Got(task[q], may[q])
    BY DEF GotInv, Got
  <1> SUFFICES ASSUME NEW q \in Task PROVE Got(task'[q], may'[q])
    BY DEF GotInv, Got
  <1>1. CASE task'[q].pc \notin HasRead \cup {"called"}
    BY <1>1 DEF Got, HasRead
  <1>2. CASE task'[q].pc \in HasRead \cup {"called"}
    <2>1. Asks(q)' /\ task'[q] \in TaskRec
      BY <1>2, TaskStep DEF TaskInv, Knows, Asks, HasRead, TaskOK
    <2>2. may[q].member \subseteq may'[q].member /\ may[q].allowed \subseteq may'[q].allowed
      BY <2>1, MayGrows
    <2>3. CASE task'[q] = task[q]
      BY <1>0, <2>2, <2>3 DEF Got
    <2> DEFINE now == task[q]
               then == task'[q]
    <2>4. CASE ReadMembers(q)
      <3>1. PICK ok \in BOOLEAN :
              task' = [task EXCEPT ![q].pc = "denials",
                ![q].got = {i \in MembersFor(q, ok) : Owner[i] = task[q].user}]
        BY <2>4 DEF ReadMembers
      <3>2. /\ then.pc = "denials" /\ then.user = now.user
            /\ then.got = {i \in MembersFor(q, ok) : Owner[i] = now.user}
        BY <3>1 DEF TaskOK, TaskRec
      <3>3. Asks(q) /\ now.gid \in Gid /\ now.user \in User
        BY <2>4 DEF ReadMembers, TaskInv, Knows, Asks
      <3>4. ASSUME NEW i \in then.got PROVE Owner[i] = now.user /\ i \in may[q].member
        <4>1. i \in members[now.gid] /\ Owner[i] = now.user
          BY <3>2, <3>4 DEF MembersFor
        <4>2. group[now.user] = now.gid
          BY <3>3, <4>1 DEF GroupInv
        <4>3. i \in MembersOf(group[now.user])
          BY <3>3, <4>1, <4>2, RouterAssumption DEF MembersOf
        <4> QED BY <3>3, <4>1, <4>3 DEF MayInv
      <3> QED BY <2>2, <3>2, <3>4 DEF Got
    <2>5. CASE ReadDenials(q)
      <3>1. PICK ok \in BOOLEAN :
              task' = [task EXCEPT ![q].pc = "answer", ![q].blind = ~ok,
                                   ![q].got = Granted(q, ok)]
        BY <2>5 DEF ReadDenials
      <3>2. /\ then.pc = "answer" /\ then.user = now.user
            /\ then.got = Granted(q, ok) /\ then.blind = ~ok
        BY <3>1 DEF TaskOK, TaskRec
      <3>3. Asks(q) /\ now.pc = "denials"
        BY <2>5 DEF ReadDenials, Asks
      <3>4. ASSUME NEW i \in then.got PROVE i \in now.got /\ (i \in may[q].allowed \/ then.blind)
        <4>1. i \in now.got /\ (ok => i \notin DeniedTo(now.cred))
          BY <3>2, <3>4 DEF Granted
        <4>2. i \in Inst
          BY <4>1 DEF TaskOK, TaskRec
        <4> QED BY <3>2, <3>3, <4>1, <4>2 DEF MayInv
      <3>5. \A i \in then.got : Owner[i] = then.user /\ i \in may[q].member
        BY <1>0, <3>2, <3>3, <3>4 DEF Got, HasRead
      <3> QED BY <2>2, <3>2, <3>4, <3>5 DEF Got
    <2>6. CASE Forward(q)
      <3>1. PICK ok \in BOOLEAN, i \in Inst, t \in Tool :
            /\ ok \/ Faults
            /\ ~IsManagementTool(Namespaced(i, t))
            /\ task' = [task EXCEPT ![q].pc = "called", ![q].blind = ~ok,
                ![q].want = <<i, t>>,
                ![q].got = {j \in Granted(q, ok) :
                               Space[j] = RoutedTo(Namespaced(i, t))}]
        BY <2>6, Zenon DEF Forward
      <3>2. /\ then.pc = "called" /\ then.user = now.user
            /\ then.want = <<i, t>> /\ then.blind = ~ok
            /\ then.got = {j \in Granted(q, ok) : Space[j] = RoutedTo(Namespaced(i, t))}
        BY <3>1 DEF TaskOK, TaskRec
      <3>3. Asks(q) /\ now.pc = "denials"
        BY <2>6 DEF Forward, Asks
      <3>4. ASSUME NEW j \in then.got PROVE j \in now.got /\ (j \in may[q].allowed \/ then.blind)
        <4>1. j \in now.got /\ (ok => j \notin DeniedTo(now.cred))
          BY <3>2, <3>4 DEF Granted
        <4>2. j \in Inst
          BY <4>1 DEF TaskOK, TaskRec
        <4> QED BY <3>2, <3>3, <4>1, <4>2 DEF MayInv
      <3>5. \A j \in then.got : Owner[j] = then.user /\ j \in may[q].member
        BY <1>0, <3>2, <3>3, <3>4 DEF Got, HasRead
      <3>6. \A j \in then.got : Space[j] = RoutedTo(Namespaced(then.want[1], then.want[2]))
        BY <3>2
      <3> QED BY <2>2, <3>2, <3>4, <3>5, <3>6 DEF Got
    <2> QED BY <1>2, <2>3, <2>4, <2>5, <2>6, ReadsOnly
  <1> QED BY <1>1, <1>2

\* Every step keeps management calls with their caller, unless rebound.
LEMMA ManagesStep ==
    ASSUME TaskOK, TaskInv, WorldOK, BoundInv, ManagesAsCaller, [Next]_vars
    PROVE  ManagesAsCaller'
  <1> SUFFICES ASSUME NEW q \in Task, q \notin rebound', task'[q].pc \in Acting
               PROVE  task'[q].who = task'[q].user
    BY DEF ManagesAsCaller
  <1> DEFINE Goal == task'[q].who = task'[q].user
  <1>0. ASSUME task'[q] = task[q], q \notin rebound PROVE Goal
    BY <1>0 DEF ManagesAsCaller
  <1>1. ASSUME NEW r \in Task, NEW s \in Sess, Request(r, s) PROVE Goal
    <2>1. PICK kind \in {"list", "call", "manage"}, u \in User, c \in Cred :
             Arrived(r, s, kind, u, c)
      BY <1>1, RequestTask
    <2>2. r # q
      BY <2>1 DEF Arrived, Acting
    <2> QED BY <1>0, <2>1, <2>2 DEF Arrived, TaskOK
  <1>2. ASSUME NEW r \in Task, NEW u \in User, Starts(r, u) PROVE Goal
    <2>1. PICK step \in {"edit", "revoke"} :
          /\ UNCHANGED rebound
          /\ task' = [task EXCEPT ![r] =
               [Idle EXCEPT !.pc = step, !.kind = "web", !.user = u, !.who = u]]
      BY <1>2 DEF Starts, WebStart, DisableUser
    <2>2. CASE r # q
      BY <1>0, <2>1, <2>2 DEF TaskOK
    <2>3. CASE r = q
      BY <2>1, <2>3 DEF TaskOK, Idle
    <2> QED BY <2>2, <2>3
  <1>3. ASSUME NEW r \in Task, Moves(r) PROVE Goal
    <2>1. q \notin rebound
      BY <1>3 DEF Moves, Bind, ReadMembers, ReadDenials, Forward, Act, RenameGroup,
                  ReadGroup, SetMembers, DeleteGroup, RemoveServer, ReadAccess, CreateGroup
    <2>2. CASE r # q
      <3>1. task' = [task EXCEPT ![r] = task'[r]]
        BY <1>3, MovesTask
      <3> QED BY <1>0, <2>1, <2>2, <3>1 DEF TaskOK
    <2>3. CASE r = q /\ task[q].pc \in Acting
      BY <1>3, <2>1, <2>3, MovesTask, MovesKnow DEF ManagesAsCaller
    <2>4. CASE r = q /\ task[q].pc \notin Acting
      <3>1. Act(q) \/ Bind(q) \/ ReadMembers(q) \/ ReadDenials(q) \/ Forward(q)
        BY <1>3, <2>4
        DEF Moves, RenameGroup, ReadGroup, SetMembers, DeleteGroup, RemoveServer,
            ReadAccess, CreateGroup, Acting
      <3>2. CASE Act(q)
        <4>1. task[q].pc = "act" /\ task'[q].who = bound[task[q].sess]
          BY <3>2 DEF Act, TaskOK, TaskRec
        <4>2. task'[q].user = task[q].user
          BY <1>3, <2>4, MovesTask
        <4> QED BY <2>1, <4>1, <4>2 DEF BoundInv
      <3>3. CASE Bind(q)
        BY <3>3 DEF Bind, TaskOK, TaskRec, Acting
      <3>4. CASE ReadMembers(q) \/ ReadDenials(q) \/ Forward(q)
        <4>1. task[q].kind \in {"list", "call"}
          BY <3>4 DEF ReadMembers, ReadDenials, Forward, TaskInv, Knows
        <4>2. task'[q].kind = task[q].kind /\ Knows(task'[q])
          BY <1>3, <2>4, MovesTask, MovesKnow
        <4> QED BY <4>1, <4>2 DEF Knows, Asking, Acting
      <3> QED BY <3>1, <3>2, <3>3, <3>4
    <2> QED BY <2>2, <2>3, <2>4
  <1>4. ASSUME NEW r \in Task, Ends(r) PROVE Goal
    <2>1. task' = [task EXCEPT ![r] = Idle] /\ rebound' = rebound \ {r}
      BY <1>4, EndsTask
    <2>2. r # q
      BY <2>1 DEF Idle, TaskOK, Acting
    <2> QED BY <1>0, <2>1, <2>2 DEF TaskOK
  <1>5. ASSUME \/ \E s \in Sess : SessionEnds(s) \/ Deliver(s) \/ Prune(s)
               \/ \E u \in User : EnableUser(u)
               \/ UNCHANGED vars
        PROVE  Goal
    <2>1. UNCHANGED <<task, rebound>>
      BY <1>5 DEF SessionEnds, Deliver, Prune, EnableUser, vars
    <2> QED BY <1>0, <2>1
  <1> HIDE DEF Goal
  <1>6. Goal
    BY <1>1, <1>2, <1>3, <1>4, <1>5, StepKinds DEF Next
  <1> QED BY <1>6 DEF Goal

-----------------------------------------------------------------------------
(* Telling clients. *)

\* an edit of these groups, all of them the editor's
Edits(q, gs) ==
    /\ task[q].who \in User /\ task[q].pc \in {"edit", "save"}
    /\ \A g \in gs : g # None /\ group[task[q].who] = g
    /\ Overtakes(gs)
    /\ task'[q].pc = "notify" /\ task'[q].who = task[q].who
    /\ UNCHANGED <<bound, peer, listed, sending, unread, untold>>

\* Whatever changes the members of groups is such an edit.
LEMMA EditsTell ==
    ASSUME TaskOK, TaskInv, WorldOK, BoundInv, GroupInv, NEW q \in Task,
           SetMembers(q) \/ DeleteGroup(q) \/ RemoveServer(q)
    PROVE  \E gs : Edits(q, gs)
  <1>1. task[q].who \in User /\ task[q].pc \in {"edit", "save"}
    BY DEF SetMembers, DeleteGroup, RemoveServer, TaskInv, Knows, Acting
  <1>2. task' = [task EXCEPT ![q].pc = "notify"]
    BY DEF SetMembers, DeleteGroup, RemoveServer
  <1>3. task'[q].pc = "notify" /\ task'[q].who = task[q].who
    BY <1>2 DEF TaskOK, TaskRec
  <1>4. UNCHANGED <<bound, peer, listed, sending, unread, untold>>
    BY DEF SetMembers, DeleteGroup, RemoveServer, cliVars
  <1>5. CASE SetMembers(q)
    <2>1. task[q].gid \in Gid /\ group[task[q].who] = task[q].gid
      BY <1>5 DEF SetMembers, TaskInv, Knows
    <2>2. Edits(q, {task[q].gid})
      BY <1>1, <1>3, <1>4, <1>5, <2>1, RouterAssumption DEF Edits, SetMembers
    <2> QED BY <2>2
  <1>6. CASE DeleteGroup(q)
    <2>1. Edits(q, {group[task[q].who]})
      BY <1>1, <1>3, <1>4, <1>6 DEF Edits, DeleteGroup
    <2> QED BY <2>1
  <1>7. CASE RemoveServer(q)
    <2>1. PICK i \in Owned(task[q].who) : Overtakes({g \in Gid : i \in members[g]})
      BY <1>7 DEF RemoveServer
    <2>2. \A g \in Gid : i \in members[g] => group[task[q].who] = g
      BY <2>1 DEF Owned, GroupInv
    <2>3. Edits(q, {g \in Gid : i \in members[g]})
      BY <1>1, <1>3, <1>4, <2>1, <2>2, RouterAssumption DEF Edits
    <2> QED BY <2>3
  <1> QED BY <1>5, <1>6, <1>7

\* The steps that change who has which list, and who is told of it.
LEMMA TellingChanges ==
    ASSUME TaskOK, TaskInv, WorldOK, BoundInv, GroupInv, [Next]_vars
    PROVE  \/ UNCHANGED <<bound, peer, listed, stale, untold>>
           \/ \E q \in Task : Bind(q) \/ AnswerList(q) \/ NotifyLost(q)
                              \/ \E gs : Edits(q, gs)
           \/ \E s \in Sess : SessionEnds(s) \/ Prune(s)
  <1> USE DEF cliVars, tellVars
  <1>1. ASSUME NEW q \in Task, NEW s \in Sess, Request(q, s)
        PROVE  UNCHANGED <<bound, peer, listed, stale, untold>>
    BY <1>1 DEF Request, Arrive
  <1>2. ASSUME NEW q \in Task, Moves(q), ~Bind(q),
               ~(SetMembers(q) \/ DeleteGroup(q) \/ RemoveServer(q))
        PROVE  UNCHANGED <<bound, peer, listed, stale, untold>>
    BY <1>2 DEF Moves, ReadMembers, ReadDenials, Forward, Act, RenameGroup,
                ReadGroup, ReadAccess, CreateGroup
  <1>3. ASSUME NEW q \in Task, Ends(q), ~AnswerList(q), ~NotifyLost(q)
        PROVE  UNCHANGED <<bound, peer, listed, stale, untold>>
    BY <1>3 DEF Ends, AnswerCall, EditNothing, SetMembersFails, Notify,
                SetDenials, CreateToken, RevokeToken, RevokeAllForUser, CreateGroup
  <1>4. ASSUME \/ \E q \in Task, u \in User : Starts(q, u)
               \/ \E s \in Sess : Deliver(s)
               \/ \E u \in User : EnableUser(u)
        PROVE  UNCHANGED <<bound, peer, listed, stale, untold>>
    BY <1>4 DEF Starts, WebStart, DisableUser, Deliver, EnableUser
  <1>5. CASE UNCHANGED vars
    BY <1>5 DEF vars
  <1> QED BY <1>1, <1>2, <1>3, <1>4, <1>5, StepKinds, EditsTell DEF Next

\* what the invariant says of a session
PeerOK(s) ==
    /\ peer[s] \in {None, bound[s]}
    /\ s \notin untold /\ bound[s] # None => peer[s] # None
    /\ bound[s] = None => listed[s] = None
    /\ s \in stale => listed[s] # None
    /\ listed[s] # None => listed[s] \in spent

\* A list goes to a session that is bound.
LEMMA AnswersBound ==
    ASSUME TaskOK, TaskInv, WorldOK, BoundInv, EndpointInv, NEW q \in Task, AnswerList(q)
    PROVE  /\ task[q].sess \in Sess /\ task[q].user \in User
           /\ task[q].gid \in Gid /\ task[q].gid \in spent
           /\ bound[task[q].sess] # None /\ Asks(q) /\ task[q].kind = "list"
  <1>1. task[q].pc = "answer" /\ Knows(task[q])
    BY DEF AnswerList, TaskInv
  <1>2. task[q].kind = "list"
    BY <1>1 DEF Knows
  <1>3. Asks(q) /\ task[q].sess \in Sess /\ task[q].user \in User /\ task[q].gid \in Gid
    BY <1>1, <1>2 DEF Knows, Asks
  <1> QED BY <1>1, <1>2, <1>3 DEF BoundInv, EndpointInv

\* Every step keeps sessions registered under the user they are bound to.
LEMMA PeerStep ==
    ASSUME TaskOK, TaskInv, WorldOK, BoundInv, GroupInv, EndpointInv, PeerInv, [Next]_vars
    PROVE  PeerInv'
  <1> SUFFICES ASSUME NEW s \in Sess PROVE PeerOK(s)'
    BY DEF PeerInv, PeerOK
  <1>0. PeerOK(s) /\ spent \subseteq spent'
    BY GroupStep DEF PeerInv, PeerOK
  <1>1. CASE UNCHANGED <<bound, peer, listed, stale, untold>>
    BY <1>0, <1>1 DEF PeerOK
  <1>2. ASSUME NEW q \in Task, Bind(q) PROVE PeerOK(s)'
    <2>1. PICK z \in Sess : Binding(q, z)
      BY <1>2, BindBinds
    <2> QED BY <1>0, <2>1, RouterAssumption DEF PeerOK, Binding, cliVars, WorldOK
  <1>3. ASSUME NEW q \in Task, AnswerList(q) PROVE PeerOK(s)'
    <2>1. PICK z \in Sess : z = task[q].sess
      BY <1>3, AnswersBound
    <2>2. /\ UNCHANGED <<bound, peer>> /\ listed' = [listed EXCEPT ![z] = task[q].gid]
          /\ stale' \subseteq stale \cup {z}
          /\ \/ untold' = untold
             \/ untold' = untold \ {z} /\ peer[z] = task[q].user
      BY <1>3, <2>1 DEF AnswerList
    <2>3. /\ task[q].gid \in Gid /\ task[q].gid \in spent /\ bound[z] # None
          /\ task[q].user \in User
      BY <1>3, <2>1, AnswersBound
    <2>4. CASE s = z
      BY <1>0, <2>2, <2>3, <2>4, RouterAssumption DEF PeerOK, WorldOK
    <2>5. CASE s # z
      BY <1>0, <2>2, <2>5 DEF PeerOK, WorldOK
    <2> QED BY <2>4, <2>5
  <1>4. ASSUME NEW q \in Task, NotifyLost(q) PROVE PeerOK(s)'
    BY <1>0, <1>4 DEF NotifyLost, PeerOK, cliVars
  <1>5. ASSUME NEW q \in Task, NEW gs, Edits(q, gs) PROVE PeerOK(s)'
    BY <1>0, <1>5 DEF Edits, Overtakes, PeerOK
  <1>6. ASSUME NEW z \in Sess, SessionEnds(z) PROVE PeerOK(s)'
    BY <1>0, <1>6 DEF SessionEnds, PeerOK, WorldOK
  <1>7. ASSUME NEW z \in Sess, Prune(z) PROVE PeerOK(s)'
    BY <1>0, <1>7 DEF Prune, PeerOK, WorldOK
  <1> QED BY <1>1, <1>2, <1>3, <1>4, <1>5, <1>6, <1>7, TellingChanges

\* A session lists once at a time.
LEMMA OneList ==
    ASSUME TaskOK, TaskInv, WorldOK, BoundInv, ListInv, [Next]_vars,
           NEW q \in Task, NEW r \in Task, task'[q].kind = "list", task'[r].kind = "list",
           task'[q].sess = task'[r].sess
    PROVE  q = r
  <1>1. Asks(q)' /\ Asks(r)'
    BY DEF Asks
  <1>2. ASSUME NEW x \in Task, NEW y \in Task, NEW s \in Sess,
               NEW kind \in {"list", "call"}, NEW u \in User,
               NEW c \in Cred, Arrived(x, s, kind, u, c), task'[x].kind = "list",
               task'[y].kind = "list", task'[x].sess = task'[y].sess
        PROVE  x = y
    <2>1. kind = "list" /\ task'[x].sess = s
          /\ \A z \in Task : task[z].sess = s => task[z].kind # "list"
      BY <1>2 DEF Arrived
    <2>2. y # x => task'[y] = task[y]
      BY <1>2 DEF Arrived, TaskOK
    <2> QED BY <1>2, <2>1, <2>2
  <1>3. CASE /\ task[q].kind = "list" /\ task[r].kind = "list"
             /\ task[q].sess = task[r].sess
    BY <1>3 DEF ListInv
  <1> QED BY <1>1, <1>2, <1>3, AsksFrom

\* While a request lists, past bind, its session is reached as it was, or not any
\* more.
LEMMA ListingKeeps ==
    ASSUME TaskOK, TaskInv, WorldOK, BoundInv, GroupInv, EndpointInv, ListInv, [Next]_vars,
           NEW q \in Task, NEW s \in Sess, task[q].sess = s, task[q].kind = "list",
           task[q].pc # "bind", task'[q].kind = "list"
    PROVE  (s \in untold => s \in untold') /\ (s \notin untold' => peer'[s] = peer[s])
  <1> DEFINE Goal == (s \in untold => s \in untold')
                     /\ (s \notin untold' => peer'[s] = peer[s])
  <1>0. bound[s] # None
    BY DEF BoundInv
  <1>1. CASE UNCHANGED <<bound, peer, listed, stale, untold>>
    BY <1>1
  <1>2. ASSUME NEW r \in Task, Bind(r) PROVE Goal
    <2>1. PICK z \in Sess : Binding(r, z)
      BY <1>2, BindBinds
    <2> QED BY <1>0, <2>1 DEF Binding, WorldOK
  <1>3. ASSUME NEW r \in Task, AnswerList(r) PROVE Goal
    <2>1. task'[r] = Idle /\ task[r].kind = "list"
      BY <1>3, AnswersBound DEF AnswerList, End, TaskOK
    <2>2. r # q
      BY <2>1, RouterAssumption DEF Idle
    <2>3. task[r].sess # s
      BY <2>1, <2>2 DEF ListInv
    <2> QED BY <1>3, <2>3 DEF AnswerList
  <1>4. ASSUME NEW r \in Task, NotifyLost(r) PROVE Goal
    BY <1>4 DEF NotifyLost
  <1>5. ASSUME NEW r \in Task, NEW gs, Edits(r, gs) PROVE Goal
    BY <1>5 DEF Edits
  <1>6. ASSUME NEW z \in Sess, SessionEnds(z) PROVE Goal
    <2>1. s # z
      BY <1>6 DEF SessionEnds
    <2> QED BY <1>6, <2>1 DEF SessionEnds, WorldOK
  <1>7. ASSUME NEW z \in Sess, Prune(z) PROVE Goal
    BY <1>7 DEF Prune, WorldOK
  <1> QED BY <1>1, <1>2, <1>3, <1>4, <1>5, <1>6, <1>7, TellingChanges

\* Every step keeps the editor of a listed group the one its session is
\* registered under.
LEMMA ListStep ==
    ASSUME TaskOK, TaskInv, WorldOK, BoundInv, GroupInv, EndpointInv, PeerInv, ListInv,
           [Next]_vars
    PROVE  ListInv'
  <1>1. ASSUME NEW s \in Sess \ untold', NEW u \in User,
               listed'[s] # None, group'[u] = listed'[s]
        PROVE  u = peer'[s]
    <2>0. ASSUME s \notin untold, listed'[s] = listed[s], peer'[s] = peer[s]
          PROVE  u = peer'[s]
      <3>1. listed[s] \in spent
        BY <1>1, <2>0 DEF PeerInv
      <3>2. group'[u] = group[u]
        BY <1>1, <2>0, <3>1, GroupStep
      <3> QED BY <1>1, <2>0, <3>2 DEF ListInv
    <2>1. CASE UNCHANGED <<bound, peer, listed, stale, untold>>
      BY <1>1, <2>0, <2>1
    <2>2. ASSUME NEW q \in Task, Bind(q) PROVE u = peer'[s]
      <3>1. PICK z \in Sess : Binding(q, z)
        BY <2>2, BindBinds
      <3>2. s \notin untold /\ listed'[s] = listed[s]
        BY <1>1, <3>1 DEF Binding, cliVars
      <3>3. bound[s] # None
        BY <1>1, <3>2 DEF PeerInv
      <3>4. peer'[s] = peer[s]
        BY <1>1, <3>1, <3>3 DEF Binding, WorldOK
      <3> QED BY <2>0, <3>2, <3>4
    <2>3. ASSUME NEW q \in Task, AnswerList(q) PROVE u = peer'[s]
      <3>1. PICK z \in Sess : z = task[q].sess
        BY <2>3, AnswersBound
      <3>2. /\ UNCHANGED peer /\ listed' = [listed EXCEPT ![z] = task[q].gid]
            /\ \/ untold' = untold
               \/ untold' = untold \ {z} /\ peer[z] = task[q].user
        BY <2>3, <3>1 DEF AnswerList
      <3>3. CASE s # z
        <4>1. s \notin untold /\ listed'[s] = listed[s]
          BY <1>1, <3>2, <3>3 DEF WorldOK
        <4> QED BY <2>0, <3>2, <4>1
      <3>4. CASE s = z
        <4>1. listed'[s] = task[q].gid
          BY <3>2, <3>4 DEF WorldOK
        <4>2. Asks(q) /\ task[q].kind = "list" /\ task[q].pc = "answer"
          BY <2>3, AnswersBound DEF AnswerList
        <4>3. UNCHANGED group
          BY <2>3 DEF AnswerList, dbVars
        <4>4. u = task[q].user
          BY <1>1, <4>1, <4>2, <4>3 DEF EndpointInv
        <4>5. peer[s] = task[q].user
          BY <1>1, <3>1, <3>2, <3>4, <4>2 DEF ListInv
        <4> QED BY <3>2, <4>4, <4>5
      <3> QED BY <3>3, <3>4
    <2>4. ASSUME NEW q \in Task, NotifyLost(q) PROVE FALSE
      BY <1>1, <2>4 DEF NotifyLost
    <2>5. ASSUME NEW q \in Task, NEW gs, Edits(q, gs) PROVE u = peer'[s]
      BY <1>1, <2>0, <2>5 DEF Edits
    <2>6. ASSUME NEW z \in Sess, SessionEnds(z) PROVE u = peer'[s]
      <3>1. s # z
        BY <1>1, <2>6 DEF SessionEnds, WorldOK
      <3> QED BY <1>1, <2>0, <2>6, <3>1 DEF SessionEnds, WorldOK
    <2>7. ASSUME NEW z \in Sess, Prune(z) PROVE u = peer'[s]
      <3>1. s # z
        BY <1>1, <2>7 DEF Prune
      <3> QED BY <1>1, <2>0, <2>7, <3>1 DEF Prune, WorldOK
    <2> QED BY <2>1, <2>2, <2>3, <2>4, <2>5, <2>6, <2>7, TellingChanges
  <1>2. ASSUME NEW q \in Task, task'[q].kind = "list", task'[q].pc # "bind"
        PROVE  task'[q].sess \in untold' \/ peer'[task'[q].sess] = task'[q].user
    <2>0. PICK s \in Sess : s = task'[q].sess
      BY <1>2, TaskStep DEF TaskInv, Knows
    <2>1. CASE Bind(q)
      <3>1. PICK z \in Sess : Binding(q, z)
        BY <2>1, BindBinds
      <3>2. s = z /\ task'[q].user = task[q].user /\ task[q].user \in User
        BY <2>0, <3>1 DEF Binding
      <3>3. CASE bound[s] = task[q].user /\ UNCHANGED <<peer, untold>>
        BY <2>0, <3>2, <3>3, RouterAssumption DEF PeerInv
      <3>4. CASE peer' = [peer EXCEPT ![s] = task[q].user]
        BY <2>0, <3>2, <3>4 DEF WorldOK
      <3> QED BY <3>1, <3>2, <3>3, <3>4 DEF Binding
    <2>2. CASE ~Bind(q)
      <3>1. task[q].sess = s /\ task[q].pc # "bind" /\ task'[q].user = task[q].user
        BY <1>2, <2>0, <2>2, PastBind
      <3>2. task[q].kind = "list"
        <4>1. Asks(q)'
          BY <1>2 DEF Asks
        <4>2. ~ \E z \in Sess, kind \in {"list", "call"}, u \in User, c \in Cred :
                   Arrived(q, z, kind, u, c)
          BY <1>2 DEF Arrived
        <4> QED BY <1>2, <4>1, <4>2, AsksFrom
      <3>3. s \in untold \/ peer[s] = task[q].user
        BY <3>1, <3>2 DEF ListInv
      <3>4. (s \in untold => s \in untold') /\ (s \notin untold' => peer'[s] = peer[s])
        BY <1>2, <2>0, <3>1, <3>2, ListingKeeps
      <3> QED BY <2>0, <3>1, <3>3, <3>4
    <2> QED BY <2>1, <2>2
  <1> QED BY <1>1, <1>2, OneList DEF ListInv

\* A message to a session stays under way, or unread, until its client lists again.
LEMMA MessageStays ==
    ASSUME TaskOK, TaskInv, WorldOK, BoundInv, [Next]_vars, NEW s \in Sess,
           s \in sending \cup unread, s \notin untold', ~SessionEnds(s),
           ~ \E q \in Task, u \in User, c \in Cred : Arrived(q, s, "list", u, c)
    PROVE  s \in (sending \cup unread)'
  <1> DEFINE Goal == s \in (sending \cup unread)'
  <1> USE DEF cliVars
  <1>1. ASSUME NEW q \in Task, NEW z \in Sess, Request(q, z) PROVE Goal
    <2>1. PICK kind \in {"list", "call", "manage"}, u \in User, c \in Cred :
             Arrived(q, z, kind, u, c)
      BY <1>1, RequestTask
    <2> QED BY <2>1 DEF Arrived
  <1>2. ASSUME NEW q \in Task, Moves(q) PROVE Goal
    BY <1>2 DEF Moves, Bind, ReadMembers, ReadDenials, Forward, Act, RenameGroup,
                ReadGroup, ReadAccess, CreateGroup, SetMembers, DeleteGroup, RemoveServer
  <1>3. ASSUME NEW q \in Task, Ends(q) PROVE Goal
    BY <1>3 DEF Ends, AnswerList, AnswerCall, EditNothing, SetMembersFails, Notify,
                NotifyLost, SetDenials, CreateToken, RevokeToken, RevokeAllForUser, CreateGroup
  <1>4. ASSUME NEW z \in Sess, SessionEnds(z) \/ Deliver(z) \/ Prune(z) PROVE Goal
    BY <1>4 DEF SessionEnds, Deliver, Prune
  <1>5. ASSUME \/ \E q \in Task, u \in User : Starts(q, u)
               \/ \E u \in User : EnableUser(u)
               \/ UNCHANGED vars
        PROVE  Goal
    BY <1>5 DEF Starts, WebStart, DisableUser, EnableUser, vars
  <1> HIDE DEF Goal
  <1>6. Goal
    BY <1>1, <1>2, <1>3, <1>4, <1>5, StepKinds DEF Next
  <1> QED BY <1>6 DEF Goal

\* A handler that is about to tell its user's clients does, or is cut off.
LEMMA NotifierStays ==
    ASSUME TaskOK, TaskInv, WorldOK, BoundInv, [Next]_vars, NEW q \in Task,
           task[q].pc = "notify"
    PROVE  task'[q] = task[q] \/ Notify(q) \/ NotifyLost(q)
  <1> DEFINE Goal == task'[q] = task[q] \/ Notify(q) \/ NotifyLost(q)
  <1>1. ASSUME NEW r \in Task, NEW z \in Sess, Request(r, z) PROVE Goal
    <2>1. PICK kind \in {"list", "call", "manage"}, u \in User, c \in Cred :
             Arrived(r, z, kind, u, c)
      BY <1>1, RequestTask
    <2> QED BY <2>1 DEF Arrived, TaskOK
  <1>2. ASSUME NEW r \in Task, NEW u \in User, Starts(r, u) PROVE Goal
    BY <1>2 DEF Starts, WebStart, DisableUser, TaskOK
  <1>3. ASSUME NEW r \in Task, Moves(r) PROVE Goal
    <2>1. r # q
      BY <1>3 DEF Moves, Bind, ReadMembers, ReadDenials, Forward, Act, RenameGroup,
                  ReadGroup, ReadAccess, CreateGroup, SetMembers, DeleteGroup, RemoveServer
    <2>2. task' = [task EXCEPT ![r] = task'[r]]
      BY <1>3, MovesTask
    <2> QED BY <2>1, <2>2 DEF TaskOK
  <1>4. ASSUME NEW r \in Task, Ends(r) PROVE Goal
    <2>1. CASE r = q
      BY <1>4, <2>1 DEF Ends, AnswerList, AnswerCall, EditNothing, SetMembersFails,
                        SetDenials, CreateToken, RevokeToken, RevokeAllForUser, CreateGroup
    <2>2. CASE r # q
      BY <1>4, <2>2, EndsTask DEF TaskOK
    <2> QED BY <2>1, <2>2
  <1>5. ASSUME \/ \E s \in Sess : SessionEnds(s) \/ Deliver(s) \/ Prune(s)
               \/ \E u \in User : EnableUser(u)
               \/ UNCHANGED vars
        PROVE  Goal
    <2>1. UNCHANGED task
      BY <1>5 DEF SessionEnds, Deliver, Prune, EnableUser, vars
    <2> QED BY <2>1
  <1> HIDE DEF Goal
  <1>6. Goal
    BY <1>1, <1>2, <1>3, <1>4, <1>5, StepKinds DEF Next
  <1> QED BY <1>6 DEF Goal

\* A session that is told, or about to be, stays so until its client lists again.
LEMMA ToldStays ==
    ASSUME TaskOK, TaskInv, WorldOK, BoundInv, [Next]_vars, NEW s \in Sess,
           Told(s), s \notin untold', peer'[s] = peer[s], ~SessionEnds(s),
           ~ \E q \in Task, u \in User, c \in Cred : Arrived(q, s, "list", u, c)
    PROVE  Told(s)'
  <1>1. CASE s \in sending \cup unread
    BY <1>1, MessageStays DEF Told
  <1>2. ASSUME NEW q \in Task, task[q].pc = "notify", task[q].who = peer[s]
        PROVE  Told(s)'
    <2>1. CASE task'[q] = task[q]
      BY <1>2, <2>1 DEF Told
    <2>2. CASE Notify(q)
      BY <1>2, <2>2 DEF Notify, Targets, Told
    <2>3. CASE NotifyLost(q)
      BY <2>3 DEF NotifyLost
    <2> QED BY <1>2, <2>1, <2>2, <2>3, NotifierStays
  <1> QED BY <1>1, <1>2 DEF Told

\* Only edits overtake requests, and a request overtaken has not ended.
LEMMA Overtaken ==
    ASSUME TaskOK, TaskInv, WorldOK, BoundInv, GroupInv, [Next]_vars, NEW q \in Task,
           q \in outdated'
    PROVE  /\ q \in outdated \/ \E r \in Task : \E gs : Edits(r, gs)
           /\ ~Ends(q)
  <1> DEFINE Goal == q \in outdated \/ \E r \in Task : \E gs : Edits(r, gs)
  <1> USE DEF tellVars
  <1>1. ASSUME NEW r \in Task, NEW z \in Sess, Request(r, z) PROVE Goal
    BY <1>1 DEF Request, Arrive
  <1>2. ASSUME NEW r \in Task, Moves(r) PROVE Goal
    <2>1. CASE SetMembers(r) \/ DeleteGroup(r) \/ RemoveServer(r)
      BY <2>1, EditsTell
    <2>2. CASE ~(SetMembers(r) \/ DeleteGroup(r) \/ RemoveServer(r))
      BY <1>2, <2>2 DEF Moves, Bind, ReadMembers, ReadDenials, Forward, Act, RenameGroup,
                        ReadGroup, ReadAccess, CreateGroup, End
    <2> QED BY <2>1, <2>2
  <1>3. ASSUME NEW r \in Task, Ends(r) PROVE Goal
    BY <1>3, EndsTask
  <1>4. ASSUME \/ \E r \in Task, u \in User : Starts(r, u)
               \/ \E s \in Sess : SessionEnds(s) \/ Deliver(s) \/ Prune(s)
               \/ \E u \in User : EnableUser(u)
               \/ UNCHANGED vars
        PROVE  Goal
    BY <1>4 DEF Starts, WebStart, DisableUser, SessionEnds, Deliver, Prune, EnableUser, vars
  <1>5. ~Ends(q)
    BY EndsTask
  <1> HIDE DEF Goal
  <1>6. Goal
    BY <1>1, <1>2, <1>3, <1>4, StepKinds DEF Next
  <1> QED BY <1>5, <1>6 DEF Goal

\* A request that has read goes on reading, or ends.
LEMMA ReadStays ==
    ASSUME TaskOK, TaskInv, WorldOK, BoundInv, [Next]_vars, NEW q \in Task,
           task[q].pc \in HasRead \cup {"called"}, ~Ends(q)
    PROVE  /\ task'[q].pc \in HasRead \cup {"called"}
           /\ task'[q].kind = task[q].kind /\ task'[q].sess = task[q].sess
  <1> DEFINE Goal == /\ task'[q].pc \in HasRead \cup {"called"}
                     /\ task'[q].kind = task[q].kind /\ task'[q].sess = task[q].sess
  <1>0. task'[q] = task[q] => Goal
    OBVIOUS
  <1>1. ASSUME NEW r \in Task, NEW z \in Sess, Request(r, z) PROVE Goal
    <2>1. PICK kind \in {"list", "call", "manage"}, u \in User, c \in Cred :
             Arrived(r, z, kind, u, c)
      BY <1>1, RequestTask
    <2>2. r # q
      BY <2>1 DEF Arrived, HasRead
    <2> QED BY <1>0, <2>1, <2>2 DEF Arrived, TaskOK
  <1>2. ASSUME NEW r \in Task, NEW u \in User, Starts(r, u) PROVE Goal
    <2>1. r # q
      BY <1>2 DEF Starts, WebStart, DisableUser, HasRead
    <2> QED BY <1>0, <1>2, <2>1 DEF Starts, WebStart, DisableUser, TaskOK
  <1>3. ASSUME NEW r \in Task, Moves(r), r # q PROVE Goal
    BY <1>0, <1>3, MovesTask DEF TaskOK
  <1>4. ASSUME Moves(q) PROVE Goal
    <2>1. ReadDenials(q) \/ Forward(q)
      BY <1>4 DEF HasRead, Moves, Bind, ReadMembers, Act, RenameGroup, ReadGroup,
                  ReadAccess, CreateGroup, SetMembers, DeleteGroup, RemoveServer
    <2>2. CASE ReadDenials(q)
      <3>1. task'[q].pc = "answer"
        BY <2>2 DEF ReadDenials, TaskOK, TaskRec
      <3> QED BY <1>4, <3>1, MovesTask DEF HasRead
    <2>3. CASE Forward(q)
      <3>1. PICK ok \in BOOLEAN, i \in Inst, t \in Tool :
              /\ ok \/ Faults
              /\ ~IsManagementTool(Namespaced(i, t))
              /\ task' = [task EXCEPT ![q].pc = "called", ![q].blind = ~ok,
                  ![q].want = <<i, t>>,
                  ![q].got = {j \in Granted(q, ok) :
                                 Space[j] = RoutedTo(Namespaced(i, t))}]
        BY <2>3, Zenon DEF Forward
      <3>2. task'[q].pc = "called"
        BY <3>1 DEF TaskOK, TaskRec
      <3> QED BY <1>4, <3>2, MovesTask DEF HasRead
    <2> QED BY <2>1, <2>2, <2>3
  <1>5. ASSUME NEW r \in Task, Ends(r) PROVE Goal
    BY <1>0, <1>5, EndsTask DEF TaskOK
  <1>6. ASSUME \/ \E s \in Sess : SessionEnds(s) \/ Deliver(s) \/ Prune(s)
               \/ \E u \in User : EnableUser(u)
               \/ UNCHANGED vars
        PROVE  Goal
    <2>1. UNCHANGED task
      BY <1>6 DEF SessionEnds, Deliver, Prune, EnableUser, vars
    <2> QED BY <1>0, <2>1
  <1> HIDE DEF Goal
  <1>7. Goal
    BY <1>1, <1>2, <1>3, <1>4, <1>5, <1>6, StepKinds DEF Next
  <1> QED BY <1>7 DEF Goal

\* Every step keeps the sessions told whose lists are overtaken in the making.
LEMMA OutdatedStep ==
    ASSUME TaskOK, TaskInv, WorldOK, BoundInv, GroupInv, EndpointInv, PeerInv, ListInv,
           OutdatedInv, [Next]_vars
    PROVE  OutdatedInv'
  <1> SUFFICES ASSUME NEW q \in Task, q \in outdated'
               PROVE  /\ task'[q].pc \in HasRead \cup {"called"}
                      /\ task'[q].kind = "list" /\ task'[q].sess \notin untold'
                         => Told(task[q].sess)'
    BY WorldStep DEF OutdatedInv, WorldOK
  <1>0. ~Ends(q)
    BY Overtaken
  <1>1. task[q].pc \in HasRead \cup {"called"}
    <2>1. CASE q \in outdated
      BY <2>1 DEF OutdatedInv
    <2>2. ASSUME NEW r \in Task, NEW gs, Edits(r, gs)
          PROVE  q \in outdated \/ task[q].pc \in HasRead
      BY <2>2 DEF Edits, Overtakes
    <2> QED BY <2>1, <2>2, Overtaken
  <1>2. /\ task'[q].pc \in HasRead \cup {"called"}
        /\ task'[q].kind = task[q].kind /\ task'[q].sess = task[q].sess
    BY <1>0, <1>1, ReadStays
  <1>3. ASSUME task'[q].kind = "list", task'[q].sess \notin untold'
        PROVE  Told(task[q].sess)'
    <2>1. PICK s \in Sess : s = task[q].sess
      BY <1>2, <1>3 DEF TaskInv, Knows
    <2>2. task[q].kind = "list" /\ task[q].pc # "bind"
      BY <1>1, <1>2, <1>3 DEF HasRead
    <2>3. s \notin untold /\ peer'[s] = peer[s] /\ s \notin untold'
      BY <1>2, <1>3, <2>1, <2>2, ListingKeeps
    <2>4. CASE q \in outdated
      <3>1. Told(s)
        BY <2>1, <2>2, <2>3, <2>4 DEF OutdatedInv
      <3>2. ~SessionEnds(s)
        BY <2>1 DEF SessionEnds
      <3>3. ~ \E r \in Task, u \in User, c \in Cred : Arrived(r, s, "list", u, c)
        BY <2>1, <2>2 DEF Arrived
      <3>4. Told(s)'
        BY <2>3, <3>1, <3>2, <3>3, ToldStays
      <3> QED BY <1>2, <2>1, <3>4
    <2>5. ASSUME NEW r \in Task, NEW gs, Edits(r, gs), q \notin outdated
          PROVE  Told(s)'
      <3>1. group[task[r].who] = task[q].gid /\ task[r].who \in User
        BY <2>5 DEF Edits, Overtakes
      <3>2. task[r].who = task[q].user
        BY <2>2, <3>1 DEF EndpointInv, Asks
      <3>3. peer[s] = task[q].user
        BY <2>1, <2>2, <2>3 DEF ListInv
      <3> QED BY <2>3, <2>5, <3>2, <3>3 DEF Edits, Told
    <2> QED BY <1>2, <2>1, <2>4, <2>5, Overtaken
  <1> QED BY <1>2, <1>3

\* A list request that is over has answered.
LEMMA ListEnds ==
    ASSUME TaskOK, TaskInv, WorldOK, BoundInv, [Next]_vars, NEW q \in Task,
           task[q].kind = "list"
    PROVE  \/ task'[q].kind = "list" /\ task'[q].sess = task[q].sess
           \/ AnswerList(q)
  <1> DEFINE Goal == \/ task'[q].kind = "list" /\ task'[q].sess = task[q].sess
                     \/ AnswerList(q)
  <1>0. task[q].pc \in Asking
    BY DEF TaskInv, Knows
  <1>1. task'[q] = task[q] => Goal
    OBVIOUS
  <1>2. ASSUME NEW r \in Task, NEW z \in Sess, Request(r, z) PROVE Goal
    <2>1. PICK kind \in {"list", "call", "manage"}, u \in User, c \in Cred :
             Arrived(r, z, kind, u, c)
      BY <1>2, RequestTask
    <2>2. r # q
      BY <1>0, <2>1 DEF Arrived, Asking
    <2> QED BY <1>1, <2>1, <2>2 DEF Arrived, TaskOK
  <1>3. ASSUME NEW r \in Task, NEW u \in User, Starts(r, u) PROVE Goal
    <2>1. r # q
      BY <1>0, <1>3 DEF Starts, WebStart, DisableUser, Asking
    <2> QED BY <1>1, <1>3, <2>1 DEF Starts, WebStart, DisableUser, TaskOK
  <1>4. ASSUME NEW r \in Task, Moves(r) PROVE Goal
    <2>1. CASE r = q
      BY <1>4, <2>1, MovesTask
    <2>2. CASE r # q
      BY <1>1, <1>4, <2>2, MovesTask DEF TaskOK
    <2> QED BY <2>1, <2>2
  <1>5. ASSUME NEW r \in Task, Ends(r) PROVE Goal
    <2>1. CASE r # q
      BY <1>1, <1>5, <2>1, EndsTask DEF TaskOK
    <2>2. CASE r = q
      <3>1. task[q].pc # "called"
        BY DEF TaskInv, Knows
      <3> QED BY <1>0, <1>5, <2>2, <3>1
              DEF Ends, AnswerCall, EditNothing, SetMembersFails, Notify, NotifyLost,
                  SetDenials, CreateToken, RevokeToken, RevokeAllForUser, CreateGroup, Asking
    <2> QED BY <2>1, <2>2
  <1>6. ASSUME \/ \E s \in Sess : SessionEnds(s) \/ Deliver(s) \/ Prune(s)
               \/ \E u \in User : EnableUser(u)
               \/ UNCHANGED vars
        PROVE  Goal
    <2>1. UNCHANGED task
      BY <1>6 DEF SessionEnds, Deliver, Prune, EnableUser, vars
    <2> QED BY <1>1, <2>1
  <1> HIDE DEF Goal
  <1>7. Goal
    BY <1>2, <1>3, <1>4, <1>5, <1>6, StepKinds DEF Next
  <1> QED BY <1>7 DEF Goal

\* its client is listing, and will have a list that is not overtaken
Listing(s) == \E q \in Task \ outdated : task[q].kind = "list" /\ task[q].sess = s

\* Every step keeps the clients told whose lists were overtaken.
LEMMA StaleStep ==
    ASSUME TaskOK, TaskInv, WorldOK, BoundInv, GroupInv, EndpointInv, PeerInv, ListInv,
           OutdatedInv, StaleListIsTold, [Next]_vars
    PROVE  StaleListIsTold'
  <1> SUFFICES ASSUME NEW s \in Sess, s \in stale', s \notin untold'
               PROVE  Told(s)' \/ Listing(s)'
    BY WorldStep DEF StaleListIsTold, Told, Listing, WorldOK
  <1> DEFINE Goal == Told(s)' \/ Listing(s)'
  <1>0. s \in stale /\ s \notin untold => Told(s) \/ Listing(s)
    BY DEF StaleListIsTold, Told, Listing
  <1>1. OutdatedInv'
    BY OutdatedStep
  <1>2. ASSUME NEW q \in Task, NEW u \in User, NEW c \in Cred, Arrived(q, s, "list", u, c)
        PROVE  Goal
    <2>1. task'[q].kind = "list" /\ task'[q].sess = s /\ task'[q].pc = "bind"
      BY <1>2 DEF Arrived
    <2>2. q \notin outdated'
      BY <1>1, <2>1 DEF OutdatedInv, HasRead
    <2> QED BY <2>1, <2>2 DEF Listing
  <1>3. ~SessionEnds(s)
    BY DEF SessionEnds
  <1>4. ASSUME s \in stale, s \notin untold, peer'[s] = peer[s]
        PROVE  Goal
    <2>1. CASE Told(s)
      BY <1>2, <1>3, <1>4, <2>1, ToldStays
    <2>2. ASSUME NEW q \in Task, q \notin outdated, task[q].kind = "list", task[q].sess = s
          PROVE  Goal
      <3>1. CASE AnswerList(q)
        BY <2>2, <3>1 DEF AnswerList
      <3>2. CASE task'[q].kind = "list" /\ task'[q].sess = s
        <4>1. CASE q \in outdated'
          BY <1>1, <3>2, <4>1 DEF OutdatedInv
        <4>2. CASE q \notin outdated'
          BY <3>2, <4>2 DEF Listing
        <4> QED BY <4>1, <4>2
      <3> QED BY <2>2, <3>1, <3>2, ListEnds
    <2> QED BY <1>0, <1>4, <2>1, <2>2 DEF Listing
  <1>5. ASSUME UNCHANGED <<bound, peer, listed, stale, untold>> PROVE Goal
    BY <1>4, <1>5
  <1>6. ASSUME NEW q \in Task, Bind(q) PROVE Goal
    <2>1. PICK z \in Sess : Binding(q, z)
      BY <1>6, BindBinds
    <2>2. s \in stale
      BY <2>1 DEF Binding
    <2>3. bound[s] # None
      BY <2>2 DEF PeerInv
    <2>4. s \notin untold /\ peer'[s] = peer[s]
      BY <2>1, <2>3 DEF Binding, WorldOK
    <2> QED BY <1>4, <2>2, <2>4
  <1>7. ASSUME NEW q \in Task, AnswerList(q) PROVE Goal
    <2>1. UNCHANGED peer
      BY <1>7 DEF AnswerList
    <2>2. CASE task[q].sess # s
      BY <1>4, <1>7, <2>1, <2>2 DEF AnswerList
    <2>3. CASE task[q].sess = s
      <3>1. q \in outdated /\ s \notin untold
        BY <1>7, <2>3 DEF AnswerList
      <3>2. task[q].kind = "list"
        BY <1>7, AnswersBound
      <3>3. Told(s)
        BY <2>3, <3>1, <3>2 DEF OutdatedInv
      <3> QED BY <1>2, <1>3, <2>1, <3>3, ToldStays
    <2> QED BY <2>2, <2>3
  <1>8. ASSUME NEW q \in Task, NotifyLost(q) PROVE Goal
    BY <1>8 DEF NotifyLost
  <1>9. ASSUME NEW q \in Task, NEW gs, Edits(q, gs) PROVE Goal
    <2>1. CASE s \in stale
      BY <1>4, <1>9, <2>1 DEF Edits
    <2>2. CASE s \notin stale
      <3>1. /\ listed[s] # None /\ group[task[q].who] = listed[s] /\ task[q].who \in User
            /\ s \notin untold
        BY <1>9, <2>2 DEF Edits, Overtakes
      <3>2. task[q].who = peer[s]
        BY <3>1 DEF ListInv
      <3> QED BY <1>9, <3>2 DEF Edits, Told
    <2> QED BY <2>1, <2>2
  <1>10. ASSUME NEW z \in Sess, SessionEnds(z) PROVE Goal
    <2>1. s # z
      BY <1>3, <1>10
    <2> QED BY <1>4, <1>10, <2>1 DEF SessionEnds, WorldOK
  <1>11. ASSUME NEW z \in Sess, Prune(z) PROVE Goal
    <2>1. s # z
      BY <1>11 DEF Prune
    <2> QED BY <1>4, <1>11, <2>1 DEF Prune, WorldOK
  <1> HIDE DEF Goal
  <1>12. Goal
    BY <1>5, <1>6, <1>7, <1>8, <1>9, <1>10, <1>11, TellingChanges
  <1> QED BY <1>12 DEF Goal

-----------------------------------------------------------------------------
(* Names. *)

\* A sequence over a set is one over a larger set.
LEMMA SeqGrows == \A S, T : S \subseteq T => Seq(S) \subseteq Seq(T)
  OBVIOUS

\* A name is its namespace, the separator and the tool, place by place.
LEMMA NameParts ==
    ASSUME NEW U, NEW c \in U, NEW ns \in Seq(U), NEW t \in Seq(U),
           NEW n, n = (ns \o <<c, c>>) \o t
    PROVE  /\ n \in Seq(U) /\ Len(n) = Len(ns) + 2 + Len(t)
           /\ \A k \in 1..Len(ns) : n[k] = ns[k]
           /\ n[Len(ns) + 1] = c /\ n[Len(ns) + 2] = c
           /\ \A k \in 1..Len(t) : n[Len(ns) + 2 + k] = t[k]
  <1>0. ns \o <<c, c>> \in Seq(U)
    OBVIOUS
  <1>1. PICK m : m \in Seq(U) /\ m = ns \o <<c, c>>
    BY <1>0, Zenon
  <1>2. /\ Len(m) = Len(ns) + 2
        /\ \A k \in 1..Len(ns) : m[k] = ns[k]
        /\ m[Len(ns) + 1] = c /\ m[Len(ns) + 2] = c
    BY <1>1
  <1>3. n = m \o t
    BY <1>1
  <1>4. n \in Seq(U) /\ Len(n) = Len(ns) + 2 + Len(t)
    BY <1>2, <1>3
  <1>5. /\ \A k \in 1..Len(m) : n[k] = m[k]
        /\ \A k \in 1..Len(t) : n[Len(m) + k] = t[k]
    BY <1>3
  <1> QED BY <1>2, <1>4, <1>5

\* Two characters in a row, taken out of a name.
LEMMA TwoAt ==
    ASSUME NEW U, NEW c \in U, NEW n \in Seq(U), NEW k \in 1..(Len(n) - 1)
    PROVE  SubSeq(n, k, k + 1) = <<c, c>> <=> n[k] = c /\ n[k + 1] = c
  <1>1. PICK p : p = SubSeq(n, k, k + 1)
    OBVIOUS
  <1>2. p \in Seq(U) /\ Len(p) = 2 /\ p[1] = n[k] /\ p[2] = n[k + 1]
    BY <1>1
  <1>3. p = <<c, c>> <=> p[1] = c /\ p[2] = c
    BY <1>2
  <1> QED BY <1>1, <1>2, <1>3

\* the places where a character is doubled
Doubled(n, c) == {k \in 1..(Len(n) - 1) : n[k] = c /\ n[k + 1] = c}

\* When a namespace followed by the character does not double it, a name made from
\* that namespace doubles it right after the namespace and not before.
LEMMA FirstDoubled ==
    ASSUME NEW U, NEW c \in U, NEW ns \in Seq(U), NEW t \in Seq(U),
           Doubled(ns \o <<c>>, c) = {}, NEW n, n = (ns \o <<c, c>>) \o t
    PROVE  /\ Len(ns) + 1 \in Doubled(n, c)
           /\ \A k \in Doubled(n, c) : k \in Nat /\ Len(ns) + 1 <= k
  <1>0. Len(ns) \in Nat /\ Len(t) \in Nat
    OBVIOUS
  <1>1. /\ n \in Seq(U) /\ Len(n) = Len(ns) + 2 + Len(t)
        /\ \A k \in 1..Len(ns) : n[k] = ns[k]
        /\ n[Len(ns) + 1] = c /\ n[Len(ns) + 2] = c
    BY NameParts
  <1>2. Len(ns) + 1 \in Doubled(n, c)
    BY <1>0, <1>1 DEF Doubled
  <1>3. ASSUME NEW k \in Doubled(n, c)
        PROVE  k \in Nat /\ Len(ns) + 1 <= k
    <2>1. k \in 1..(Len(n) - 1) /\ n[k] = c /\ n[k + 1] = c
      BY DEF Doubled
    <2>2. ASSUME k <= Len(ns) PROVE FALSE
      <3>0. ns \o <<c>> \in Seq(U)
        OBVIOUS
      <3>1. PICK m : m \in Seq(U) /\ m = ns \o <<c>>
        BY <3>0, Zenon
      <3>2. /\ Len(m) = Len(ns) + 1 /\ m[Len(ns) + 1] = c
            /\ \A j \in 1..Len(ns) : m[j] = ns[j]
        BY <3>1
      <3>3. k \in 1..(Len(m) - 1)
        BY <1>0, <1>1, <2>1, <2>2, <3>2
      <3>4. m[k] = c /\ m[k + 1] = c
        BY <1>0, <1>1, <2>1, <2>2, <3>2
      <3> QED BY <3>1, <3>3, <3>4 DEF Doubled
    <2> QED BY <1>0, <1>1, <2>1, <2>2
  <1> QED BY <1>2, <1>3

\* Cut after the namespace, the name falls into the namespace and the tool.
LEMMA CutsBack ==
    ASSUME NEW U, NEW c \in U, NEW ns \in Seq(U), NEW t \in Seq(U),
           NEW n, n = (ns \o <<c, c>>) \o t, NEW k, k = Len(ns) + 1
    PROVE  SubSeq(n, 1, k - 1) = ns /\ SubSeq(n, k + 2, Len(n)) = t
  <1>0. Len(ns) \in Nat /\ Len(t) \in Nat
    OBVIOUS
  <1>1. /\ n \in Seq(U) /\ Len(n) = Len(ns) + 2 + Len(t)
        /\ \A j \in 1..Len(ns) : n[j] = ns[j]
        /\ \A j \in 1..Len(t) : n[Len(ns) + 2 + j] = t[j]
    BY NameParts
  <1>2. SubSeq(n, 1, k - 1) = ns
    <2>1. PICK r : r = SubSeq(n, 1, k - 1)
      OBVIOUS
    <2>2. r \in Seq(U) /\ Len(r) = Len(ns) /\ \A j \in 1..Len(ns) : r[j] = n[j]
      BY <1>0, <1>1, <2>1
    <2>3. r = ns
      BY <1>1, <2>2, SeqEqual
    <2> QED BY <2>1, <2>3
  <1>3. SubSeq(n, k + 2, Len(n)) = t
    <2>1. PICK r : r = SubSeq(n, k + 2, Len(n))
      OBVIOUS
    <2>2. \A j \in (k + 2)..Len(n) : n[j] \in U
      BY <1>0, <1>1
    <2>3. r \in Seq(U) /\ Len(r) = Len(t)
          /\ \A j \in 1..Len(t) : r[j] = n[Len(ns) + 2 + j]
      BY <1>0, <1>1, <2>1, <2>2, SubSeqProperties
    <2>4. r = t
      BY <1>1, <2>3, SeqEqual
    <2> QED BY <2>1, <2>4
  <1> QED BY <1>2, <1>3

\* A namespace that does not run into the separator is where its names are split.
LEMMA RoutesBack ==
    ASSUME NEW i \in Inst, NEW t \in Tool, Separable(Space[i])
    PROVE  RoutedTo(Namespaced(i, t)) = Space[i] /\ ToolIn(Namespaced(i, t)) = t
  <1> DEFINE n == Namespaced(i, t)
  <1>1. PICK U : U = STRING \cup {"_"}
    BY Zenon
  <1>2. PICK c : c = "_"
    BY Zenon
  <1>3. c \in U /\ Seq(STRING) \subseteq Seq(U)
    <2>1. c \in U /\ STRING \subseteq U
      BY <1>1, <1>2, Zenon
    <2> QED BY <2>1, SeqGrows, Zenon
  <1>4. PICK ns : ns = Space[i]
    BY Zenon
  <1>5. ns \in Seq(U) /\ t \in Seq(U)
    <2>1. ns \in Seq(STRING) /\ t \in Seq(STRING)
      BY <1>4, RouterAssumption, Zenon
    <2> QED BY <1>3, <2>1, Zenon
  <1>6. ASSUME NEW m \in Seq(U) PROVE Seps(m) = Doubled(m, c)
    <2>1. \A k \in 1..(Len(m) - 1) : SubSeq(m, k, k + 1) = Sep <=> m[k] = c /\ m[k + 1] = c
      BY <1>2, <1>3, <1>6, TwoAt, Zenon DEF Sep
    <2> QED BY <2>1 DEF Seps, Doubled
  <1>7. n = (ns \o <<c, c>>) \o t
    BY <1>2, <1>4, Zenon DEF Namespaced, Sep
  <1>8. ns \o <<c>> \in Seq(U) /\ n \in Seq(U)
    <2> HIDE DEF n
    <2>1. ns \o <<c>> \in Seq(U)
      BY <1>3, <1>5
    <2> QED BY <1>3, <1>5, <1>7, <2>1, NameParts
  <1>9. Doubled(ns \o <<c>>, c) = {}
    BY <1>2, <1>4, <1>6, <1>8, Zenon DEF Separable
  <1>10. /\ Len(ns) + 1 \in Seps(n)
         /\ \A k \in Seps(n) : k \in Nat /\ Len(ns) + 1 <= k
    <2> HIDE DEF n
    <2>1. /\ Len(ns) + 1 \in Doubled(n, c)
          /\ \A k \in Doubled(n, c) : k \in Nat /\ Len(ns) + 1 <= k
      BY <1>3, <1>5, <1>7, <1>9, FirstDoubled, Zenon
    <2> QED BY <1>6, <1>8, <2>1, Zenon
  <1>11. SplitAt(n) = Len(ns) + 1
    <2> HIDE DEF n
    <2>1. \A k \in Seps(n) : (\A j \in Seps(n) : k <= j) => k = Len(ns) + 1
      BY <1>5, <1>10
    <2> QED BY <1>10, <2>1 DEF SplitAt
  <1>12. SubSeq(n, 1, SplitAt(n) - 1) = ns /\ SubSeq(n, SplitAt(n) + 2, Len(n)) = t
    <2> HIDE DEF n
    <2>1. PICK k : k = SplitAt(n)
      BY Zenon
    <2>2. k = Len(ns) + 1
      BY <1>11, <2>1, Zenon
    <2>3. SubSeq(n, 1, k - 1) = ns /\ SubSeq(n, k + 2, Len(n)) = t
      BY <1>3, <1>5, <1>7, <2>2, CutsBack
    <2> QED BY <2>1, <2>3
  <1> QED BY <1>4, <1>12 DEF RoutedTo, ToolIn

-----------------------------------------------------------------------------
(* The theorems. *)

IInv ==
    /\ TaskOK /\ WorldOK /\ TaskInv
    /\ GroupInv /\ EndpointInv /\ BoundInv
    /\ MayInv /\ GotInv
    /\ PeerInv /\ ListInv /\ OutdatedInv
    /\ StaleListIsTold /\ ManagesAsCaller

\* The initial states satisfy the invariant.
LEMMA IInvInit == Init => IInv
  <1> SUFFICES ASSUME Init PROVE IInv
    OBVIOUS
  <1>0. \A q \in Task : task[q] = Idle
    BY DEF Init
  <1>1. TaskOK /\ TaskInv
    BY TaskInit
  <1>2. PICK g \in Gid, j \in Inst :
          /\ group = [u \in User |-> IF u = Owner[j] THEN g ELSE None]
          /\ spent = {g}
          /\ members = [h \in Gid |->
                IF h = g THEN {i \in Inst : Owner[i] = Owner[j]} ELSE {}]
    BY DEF Init
  <1>3. WorldOK
    <2>1. Nothing \in [enabled : BOOLEAN, member : SUBSET Inst, allowed : SUBSET Inst]
      BY DEF Nothing
    <2>2. may \in [Task -> [enabled : BOOLEAN, member : SUBSET Inst, allowed : SUBSET Inst]]
      BY <2>1 DEF Init
    <2>3. ops \in 0..MaxOps
      BY RouterAssumption DEF Init
    <2>4. /\ group \in [User -> Gid \cup {None}] /\ spent \in SUBSET Gid
          /\ members \in [Gid -> SUBSET Inst]
      BY <1>2
    <2> QED BY <2>2, <2>3, <2>4 DEF Init, WorldOK
  <1>4. GroupInv
    BY <1>2, RouterAssumption DEF GroupInv
  <1>5. EndpointInv /\ MayInv
    BY <1>0, RouterAssumption DEF EndpointInv, MayInv, Asks, Idle
  <1>6. BoundInv /\ GotInv
    BY <1>0, RouterAssumption DEF BoundInv, GotInv, Idle, HasRead
  <1>7. PeerInv /\ OutdatedInv /\ StaleListIsTold
    BY DEF PeerInv, OutdatedInv, StaleListIsTold, Init
  <1>8. ListInv
    BY <1>0, RouterAssumption DEF ListInv, Idle, Init
  <1>9. ManagesAsCaller
    BY <1>0 DEF ManagesAsCaller, Idle, Acting
  <1> QED BY <1>1, <1>3, <1>4, <1>5, <1>6, <1>7, <1>8, <1>9 DEF IInv

\* Every step keeps it.
LEMMA IInvStep == IInv /\ [Next]_vars => IInv'
  <1> SUFFICES ASSUME IInv, [Next]_vars PROVE IInv'
    OBVIOUS
  <1> USE DEF IInv
  <1>1. TaskOK' /\ TaskInv'
    BY TaskStep
  <1>2. WorldOK' /\ GroupInv'
    BY WorldStep, GroupStep
  <1>3. EndpointInv' /\ BoundInv'
    BY EndpointStep, BoundStep
  <1>4. MayInv' /\ GotInv'
    BY MayStep, GotStep
  <1>5. PeerInv' /\ ListInv'
    BY PeerStep, ListStep
  <1>6. OutdatedInv' /\ StaleListIsTold'
    BY OutdatedStep, StaleStep
  <1>7. ManagesAsCaller'
    BY ManagesStep
  <1> QED BY <1>1, <1>2, <1>3, <1>4, <1>5, <1>6, <1>7

\* The invariant holds throughout.
THEOREM Inductive == Spec => []IInv
  BY IInvInit, IInvStep, PTL DEF Spec

\* Every state of the router is well typed.
THEOREM Types == Spec => []TypeOK
  <1>1. IInv => TypeOK
    BY TypeParts DEF IInv
  <1> QED BY <1>1, Inductive, PTL

\* What a request on a group's endpoint lists or calls (group_backends,
\* denied_instances) was granted while the request was under way.
THEOREM GrantedInTime == Spec => []GrantedDuringRequest
  <1>1. IInv => GrantedDuringRequest
    <2> SUFFICES ASSUME IInv, NEW q \in Task, task[q].pc \in {"answer", "called"}
                 PROVE  /\ task[q].got # {} => may[q].enabled
                        /\ \A i \in task[q].got :
                              /\ Owner[i] = task[q].user
                              /\ i \in may[q].member
                              /\ i \in may[q].allowed \/ task[q].blind
      BY DEF GrantedDuringRequest
    <2>1. Asks(q)
      BY DEF IInv, TaskInv, Knows, Asks
    <2>2. may[q].enabled
      BY <2>1 DEF IInv, MayInv
    <2> QED BY <2>2 DEF IInv, GotInv, HasRead
  <1> QED BY <1>1, Inductive, PTL

\* A call goes where its name was made (list_namespaced_tools, split_once), for
\* every namespace that does not run into the separator.
THEOREM Routed == Spec => []RoutedAsListed
  <1>1. IInv => RoutedAsListed
    <2> SUFFICES ASSUME IInv, NEW q \in Task, task[q].pc = "called",
                        NEW i \in Inst, NEW t \in Tool, task[q].want = <<i, t>>,
                        Separable(Space[i]), Owner[i] = task[q].user
                 PROVE  /\ task[q].got \subseteq {i}
                        /\ RoutedTo(Namespaced(i, t)) = Space[i]
                        /\ ToolIn(Namespaced(i, t)) = t
      <3>1. ASSUME IInv, NEW q \in Task, task[q].pc = "called"
            PROVE  \E i \in Inst, t \in Tool : task[q].want = <<i, t>>
        BY <3>1 DEF IInv, TaskOK, TaskRec, TaskInv, Knows
      <3> QED BY <3>1 DEF RoutedAsListed
    <2>1. RoutedTo(Namespaced(i, t)) = Space[i] /\ ToolIn(Namespaced(i, t)) = t
      BY RoutesBack
    <2>2. ASSUME NEW j \in task[q].got PROVE j = i
      <3>1. j \in Inst
        BY DEF IInv, TaskOK, TaskRec
      <3>2. Owner[j] = Owner[i]
        BY DEF IInv, GotInv
      <3>3. Space[j] = Space[i]
        BY <2>1 DEF IInv, GotInv
      <3> QED BY <3>1, <3>2, <3>3, RouterAssumption
    <2> QED BY <2>1, <2>2
  <1> QED BY <1>1, Inductive, PTL

\* A client whose tool list was overtaken by an edit (notify_tools_changed) is told.
THEOREM ToldOfEdits == Spec => []StaleListIsTold
  <1>1. IInv => StaleListIsTold
    BY DEF IInv
  <1> QED BY <1>1, Inductive, PTL

\* The management tools act as the user who called them, unless the session was
\* bound to another in between.
THEOREM Manages == Spec => []ManagesAsCaller
  <1>1. IInv => ManagesAsCaller
    BY DEF IInv
  <1> QED BY <1>1, Inductive, PTL
=============================================================================
