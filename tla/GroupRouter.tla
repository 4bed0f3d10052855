---------------------------- MODULE GroupRouter -----------------------------
(***************************************************************************)
(* Requests on the MCP endpoints (src/proxy/mod.rs, proxy/server.rs) beside *)
(* the operations that decide what they may reach: connector groups         *)
(* (groups.rs), credential denials (access.rs), personal access tokens      *)
(* (tokens.rs), and the web and hub__ handlers that edit them.              *)
(*                                                                         *)
(* A request is authenticated, its endpoint resolved, its session bound to  *)
(* the user, the group's members read, the pool asked for the user's        *)
(* backends, the denials read, and only then is it listed or forwarded:     *)
(* each of these is a query or a lock of its own, and edits, other requests *)
(* of the same session and notifications come in between.                   *)
(*                                                                         *)
(* Abstractions.  Every user has at most one group, under the one slug.     *)
(* Tools, prompts and resource URIs are routed alike; the names here are    *)
(* those of tools, sequences of characters.  What the pool answers is       *)
(* BackendPool's business: any of the user's own servers.  OAuth access     *)
(* tokens are stateless and stay valid here.  A denial's row also names its *)
(* user, always the owner of the instance.                                  *)
(***************************************************************************)
EXTENDS Naturals, FiniteSets, Sequences

CONSTANTS
    User, Inst,
    Owner,         \* Owner[i]: the user of instance i
    Space,         \* Space[i]: its namespace, a sequence of characters
    Tool,          \* names of tools, as the backends have them
    Gid,           \* group ids: new ones for every group created
    Pat, Holder,   \* personal access tokens, Holder[p] the user of p
    Client,        \* OAuth clients; several users may connect with the same
    Sess, Task,
    Faults,        \* queries and sends fail, browsers go away
    MaxOps,        \* bound on operations other than requests
    None

Cred == Pat \cup Client

ASSUME RouterAssumption ==
    /\ Owner \in [Inst -> User]
    /\ Space \in [Inst -> Seq(STRING)]
    /\ Tool \subseteq Seq(STRING)
    /\ Holder \in [Pat -> User]
    /\ Pat \cap Client = {}
    /\ Faults \in BOOLEAN
    /\ MaxOps \in Nat
    /\ None \notin UNION {User, Inst, Gid, Cred, Sess, Task}
    /\ None \notin {"list", "call", "manage", "web"}
    /\ None \notin Inst \X Tool
    \* UNIQUE (user_id, namespace)
    /\ \A i, j \in Inst : Owner[i] = Owner[j] /\ Space[i] = Space[j] => i = j

VARIABLES
    \* the database
    disabled,      \* users whose account is disabled
    pat,           \* pat[p]: not made yet, live or revoked
    group,         \* group[u]: the id of u's group, or None
    spent,         \* group ids given out so far
    members,       \* members[g]
    denials,       \* pairs of a credential and an instance it is denied
    exists,        \* instances that exist
    \* sessions
    bound, peer,   \* bound[s], and the user s is registered under for notifications
    \* requests and handlers
    task,
    \* clients
    listed,        \* listed[s]: the group whose tools the client of s has
    sending,       \* sessions a list_changed is on its way to
    unread,        \* sessions whose client has it and has not listed since
    ops,
    \* history: what each request could have been granted since it arrived;
    \* lists overtaken by an edit, in the making and with the client; sessions
    \* the code does not reach; management calls overtaken by a rebind
    may, outdated, stale, untold, rebound

dbVars   == <<disabled, pat, group, spent, members, denials, exists>>
cliVars  == <<listed, sending, unread>>
tellVars == <<outdated, stale, untold>>
vars == <<dbVars, bound, peer, task, cliVars, ops, may, tellVars, rebound>>

Idle == [pc |-> "idle", kind |-> None, sess |-> None, user |-> None,
         cred |-> None, gid |-> None, got |-> {}, want |-> None, blind |-> FALSE,
         who |-> None]

\* the steps of a request on a group's endpoint that has read the members
HasRead == {"denials", "answer"}

\* an operation is under way on behalf of who
Acting == {"edit", "save", "notify", "deny", "revoke"}

TypeOK ==
    /\ disabled \in SUBSET User
    /\ pat \in [Pat -> {"new", "live", "revoked"}]
    /\ group \in [User -> Gid \cup {None}]
    /\ spent \in SUBSET Gid
    /\ members \in [Gid -> SUBSET Inst]
    /\ denials \in SUBSET (Cred \X Inst)
    /\ exists \in SUBSET Inst
    /\ bound \in [Sess -> User \cup {None}]
    /\ peer \in [Sess -> User \cup {None}]
    /\ task \in [Task ->
          [pc : HasRead \cup Acting \cup
                {"idle", "bind", "members", "called", "act"},
           kind : {"list", "call", "manage", "web", None},
           sess : Sess \cup {None}, user : User \cup {None},
           cred : Cred \cup {None}, gid : Gid \cup {None},
           got : SUBSET Inst, want : (Inst \X Tool) \cup {None},
           blind : BOOLEAN, who : User \cup {None}]]
    /\ listed \in [Sess -> Gid \cup {None}]
    /\ sending \in SUBSET Sess
    /\ unread \in SUBSET Sess
    /\ ops \in 0..MaxOps
    /\ may \in [Task -> [enabled : BOOLEAN, member : SUBSET Inst,
                         allowed : SUBSET Inst]]
    /\ outdated \in SUBSET Task
    /\ stale \in SUBSET Sess
    /\ untold \in SUBSET Sess
    /\ rebound \in SUBSET Task

Nothing == [enabled |-> FALSE, member |-> {}, allowed |-> {}]

\* somebody has put their servers into a group
Init ==
    /\ disabled = {}
    /\ pat = [p \in Pat |-> "new"]
    /\ \E g \in Gid, j \in Inst :
          /\ group = [u \in User |-> IF u = Owner[j] THEN g ELSE None]
          /\ spent = {g}
          /\ members = [h \in Gid |->
                IF h = g THEN {i \in Inst : Owner[i] = Owner[j]} ELSE {}]
    /\ denials = {}
    /\ exists = Inst
    /\ bound = [s \in Sess |-> None]
    /\ peer = [s \in Sess |-> None]
    /\ task = [q \in Task |-> Idle]
    /\ listed = [s \in Sess |-> None]
    /\ sending = {} /\ unread = {}
    /\ ops = 0
    /\ may = [q \in Task |-> Nothing]
    /\ outdated = {} /\ stale = {} /\ untold = {} /\ rebound = {}

Spend == ops < MaxOps /\ ops' = ops + 1

Owned(u) == {i \in exists : Owner[i] = u}

MembersOf(g) == IF g = None THEN {} ELSE members[g]

-----------------------------------------------------------------------------
(* Names. *)

Sep == <<"_", "_">>

\* list_namespaced_tools: <namespace>__<tool>
Namespaced(i, t) == Space[i] \o Sep \o t

\* the places of "__" in a name
Seps(n) == {k \in 1..(Len(n) - 1) : SubSeq(n, k, k + 1) = Sep}

\* wrong SplitAt: the last "__"
SplitAtLast(n) == CHOOSE k \in Seps(n) : \A j \in Seps(n) : j <= k

\* split_once: the first one
SplitAt(n) == CHOOSE k \in Seps(n) : \A j \in Seps(n) : k <= j

\* the namespace a name is routed by, and the tool it asks for there
RoutedTo(n) == SubSeq(n, 1, SplitAt(n) - 1)
ToolIn(n)   == SubSeq(n, SplitAt(n) + 2, Len(n))

\* is_management_tool ("hub" is one character here)
IsManagementTool(n) == Len(n) >= 3 /\ SubSeq(n, 1, 3) = <<"hub">> \o Sep

\* a namespace that a following "__" cannot run into
Separable(ns) == Seps(ns \o <<"_">>) = {}

-----------------------------------------------------------------------------
(* A request until it is bound. *)

\* one of the user's tokens that has not been revoked
Owns(p, u) == pat[p] = "live" /\ Holder[p] = u

\* resolve_valid, if the credential is a personal access token; an OAuth client's
\* tokens are valid for whoever connected it
ResolveValid(c, u) == c \in Pat => Owns(c, u)

\* require_bearer and authorize: a live token or a signature, an enabled account
\* and, off the base endpoint, the user's group; otherwise nothing happens but a
\* refusal.  The three lookups are one step: the request counts as arrived at the
\* last of them.  Accounts are not deleted here.  Assumed of the client: it lists
\* once at a time per session, and by listing attends to what it was told
Arrive(q, s, c, u, kind) ==
    /\ task[q].pc = "idle"
    /\ ResolveValid(c, u)
    /\ u \notin disabled
    /\ kind # "manage" => group[u] # None
    /\ kind = "list" => \A r \in Task : task[r].sess = s => task[r].kind # "list"
    /\ task' = [task EXCEPT ![q] =
          [Idle EXCEPT !.pc = "bind", !.kind = kind, !.sess = s, !.user = u,
                       !.cred = c,
                       !.gid = IF kind = "manage" THEN None ELSE group[u]]]
    /\ unread' = IF kind = "list" THEN unread \ {s} ELSE unread
    /\ UNCHANGED <<dbVars, bound, peer, listed, sending, tellVars, rebound>>

Request(q, s) ==
    \E u \in User, c \in Cred :
        \/ \E kind \in {"list", "call"} : Arrive(q, s, c, u, kind) /\ UNCHANGED ops
        \/ Spend /\ Arrive(q, s, c, u, "manage")

\* a request or handler is over
End(q) ==
    /\ task' = [task EXCEPT ![q] = Idle]
    /\ outdated' = outdated \ {q}
    /\ rebound' = rebound \ {q}

\* wrong Rebinds: the first user of the session keeps it
BindsOnce(q) == bound[task[q].sess] = None

Rebinds(q) == bound[task[q].sess] # task[q].user

\* wrong Registered: the peer is left for later
RegisteredNot(q) == peer

\* wrong Registered: the session's key in place of the user's id
RegisteredKey(q) == [peer EXCEPT ![task[q].sess] = task[q].sess]

\* register_client_peer
Registered(q) == [peer EXCEPT ![task[q].sess] = task[q].user]

\* bind: the session is its user's, and registered, before anything is read
Bind(q) ==
    /\ task[q].pc = "bind"
    /\ LET s == task[q].sess
           u == task[q].user
       IN IF Rebinds(q)
          THEN /\ bound' = [bound EXCEPT ![s] = u]
               /\ peer' = Registered(q)
               /\ untold' = IF bound[s] = None THEN untold ELSE untold \cup {s}
               /\ rebound' = rebound \cup
                     {r \in Task : /\ task[r].pc = "act"
                                   /\ task[r].sess = s
                                   /\ task[r].user # u}
          ELSE UNCHANGED <<bound, peer, untold, rebound>>
    /\ task' = [task EXCEPT ![q].pc =
          IF task[q].kind = "manage" THEN "act" ELSE "members"]
    /\ UNCHANGED <<dbVars, cliVars, ops, outdated, stale>>

-----------------------------------------------------------------------------
(* What the request is granted. *)

\* wrong MembersFor: a lookup that fails leaves the user's whole set
MembersFailOpen(q, ok) == IF ok THEN members[task[q].gid] ELSE Inst

\* member_instance_ids; a lookup that fails grants nothing
MembersFor(q, ok) == IF ok THEN members[task[q].gid] ELSE {}

\* group_backends: the members among the user's servers; one that does not run
\* only shortens the answer
ReadMembers(q) ==
    /\ task[q].pc = "members"
    /\ \E ok \in BOOLEAN :
          /\ ok \/ Faults
          /\ task' = [task EXCEPT ![q].pc = "denials",
                ![q].got = {i \in MembersFor(q, ok) : Owner[i] = task[q].user}]
    /\ UNCHANGED <<dbVars, bound, peer, cliVars, ops, tellVars, rebound>>

\* denied_instances; a lookup that fails denies nothing
DeniedTo(c) == {i \in Inst : <<c, i>> \in denials}

\* what is left of what the members grant
Granted(q, ok) == IF ok THEN task[q].got \ DeniedTo(task[q].cred) ELSE task[q].got

\* a list takes all of it
ReadDenials(q) ==
    /\ task[q].pc = "denials" /\ task[q].kind = "list"
    /\ \E ok \in BOOLEAN :
          /\ ok \/ Faults
          /\ task' = [task EXCEPT ![q].pc = "answer", ![q].blind = ~ok,
                                  ![q].got = Granted(q, ok)]
    /\ UNCHANGED <<dbVars, bound, peer, cliVars, ops, tellVars, rebound>>

\* a call the server its name is routed to, or none
Forward(q) ==
    /\ task[q].pc = "denials" /\ task[q].kind = "call"
    /\ \E ok \in BOOLEAN, i \in Inst, t \in Tool :
          /\ ok \/ Faults
          /\ ~IsManagementTool(Namespaced(i, t))
          /\ task' = [task EXCEPT ![q].pc = "called", ![q].blind = ~ok,
                ![q].want = <<i, t>>,
                ![q].got = {j \in Granted(q, ok) :
                               Space[j] = RoutedTo(Namespaced(i, t))}]
    /\ UNCHANGED <<dbVars, bound, peer, cliVars, ops, tellVars, rebound>>

\* the client has a new list
AnswerList(q) ==
    /\ task[q].pc = "answer"
    /\ LET s == task[q].sess IN
       /\ listed' = [listed EXCEPT ![s] = task[q].gid]
       /\ stale' = IF q \in outdated THEN stale \cup {s} ELSE stale \ {s}
       /\ untold' = IF q \notin outdated /\ peer[s] = task[q].user
                    THEN untold \ {s} ELSE untold
    /\ End(q)
    /\ UNCHANGED <<dbVars, bound, peer, sending, unread, ops>>

\* the backend answered, failed or ran into the call timeout
AnswerCall(q) ==
    /\ task[q].pc = "called"
    /\ End(q)
    /\ UNCHANGED <<dbVars, bound, peer, cliVars, ops, stale, untold>>

\* the management tools act as the user the session is bound to by now
Act(q) ==
    /\ task[q].pc = "act"
    /\ task' = [task EXCEPT ![q].pc = "edit", ![q].who = bound[task[q].sess]]
    /\ UNCHANGED <<dbVars, bound, peer, cliVars, ops, tellVars, rebound>>

\* the session ends: its HubProxy is dropped and with it the registration
SessionEnds(s) ==
    /\ bound[s] # None
    /\ \A q \in Task : task[q].sess # s
    /\ bound' = [bound EXCEPT ![s] = None]
    /\ peer' = [peer EXCEPT ![s] = None]
    /\ listed' = [listed EXCEPT ![s] = None]
    /\ sending' = sending \ {s}
    /\ unread' = unread \ {s}
    /\ stale' = stale \ {s}
    /\ untold' = untold \ {s}
    /\ UNCHANGED <<dbVars, task, ops, outdated, rebound>>

-----------------------------------------------------------------------------
(* Operations, by web handlers and management tools alike. *)

\* a handler of the web pages acts for the signed-in user
WebStart(q, u) ==
    /\ Spend
    /\ task[q].pc = "idle"
    /\ task' = [task EXCEPT ![q] =
          [Idle EXCEPT !.pc = "edit", !.kind = "web", !.user = u, !.who = u]]
    /\ UNCHANGED <<dbVars, bound, peer, cliVars, tellVars, rebound>>

\* an operation that changes nothing: a read, or one refused
EditNothing(q) ==
    /\ task[q].pc = "edit"
    /\ End(q)
    /\ UNCHANGED <<dbVars, bound, peer, cliVars, ops, stale, untold>>

\* the members of these groups change: lists that were read before are overtaken
Overtakes(gs) ==
    /\ outdated' = outdated \cup
          {r \in Task : task[r].gid \in gs /\ task[r].pc \in HasRead}
    /\ stale' = stale \cup {s \in Sess : listed[s] \in gs}

\* a new group under the user's slug.  From the web page it is empty and nobody
\* is told; the management tool goes on to store the servers it was given, if any
CreateGroup(q) ==
    /\ task[q].pc = "edit"
    /\ group[task[q].who] = None
    /\ \E g \in Gid \ spent :
          /\ group' = [group EXCEPT ![task[q].who] = g]
          /\ spent' = spent \cup {g}
          /\ \/ task[q].kind = "web" /\ End(q)
             \/ /\ task[q].kind = "manage"
                /\ \E given \in SUBSET Owned(task[q].who), step \in {"save", "notify"} :
                      task' = [task EXCEPT ![q].pc = step, ![q].gid = g,
                                           ![q].got = given]
                /\ UNCHANGED <<outdated, rebound>>
    /\ UNCHANGED <<disabled, pat, members, denials, exists, bound, peer, cliVars,
                   ops, stale, untold>>

\* a management update without servers writes only the name, and a deletion from
\* the web page may fail: clients are told all the same
RenameGroup(q) ==
    /\ task[q].pc = "edit"
    /\ task[q].kind = "manage" \/ Faults
    /\ group[task[q].who] # None
    /\ task' = [task EXCEPT ![q].pc = "notify"]
    /\ UNCHANGED <<dbVars, bound, peer, cliVars, ops, tellVars, rebound>>

\* the group and the chosen servers are looked up ...
ReadGroup(q) ==
    /\ task[q].pc = "edit"
    /\ group[task[q].who] # None
    /\ \E form \in SUBSET Owned(task[q].who) :
          task' = [task EXCEPT ![q].pc = "save", ![q].gid = group[task[q].who],
                               ![q].got = form]
    /\ UNCHANGED <<dbVars, bound, peer, cliVars, ops, tellVars, rebound>>

\* ... and stored, if the group is still there
SetMembers(q) ==
    /\ task[q].pc = "save"
    /\ group[task[q].who] = task[q].gid
    /\ members' = [members EXCEPT ![task[q].gid] = task[q].got \cap Owned(task[q].who)]
    /\ Overtakes({task[q].gid})
    /\ task' = [task EXCEPT ![q].pc = "notify"]
    /\ UNCHANGED <<disabled, pat, group, spent, denials, exists, bound, peer,
                   cliVars, ops, untold, rebound>>

SetMembersFails(q) ==
    /\ task[q].pc = "save"
    /\ Faults \/ group[task[q].who] # task[q].gid
    /\ End(q)
    /\ UNCHANGED <<dbVars, bound, peer, cliVars, ops, stale, untold>>

\* the membership rows go with the group
DeleteGroup(q) ==
    /\ task[q].pc = "edit"
    /\ LET g == group[task[q].who] IN
       /\ g # None
       /\ group' = [group EXCEPT ![task[q].who] = None]
       /\ members' = [members EXCEPT ![g] = {}]
       /\ Overtakes({g})
    /\ task' = [task EXCEPT ![q].pc = "notify"]
    /\ UNCHANGED <<disabled, pat, spent, denials, exists, bound, peer, cliVars,
                   ops, untold, rebound>>

\* a server is removed, and with it its memberships and denials
RemoveServer(q) ==
    /\ task[q].pc = "edit"
    /\ \E i \in Owned(task[q].who) :
          /\ exists' = exists \ {i}
          /\ members' = [g \in Gid |-> members[g] \ {i}]
          /\ denials' = {d \in denials : d[2] # i}
          /\ Overtakes({g \in Gid : i \in members[g]})
    /\ task' = [task EXCEPT ![q].pc = "notify"]
    /\ UNCHANGED <<disabled, pat, group, spent, bound, peer, cliVars, ops, untold,
                   rebound>>

\* wrong Targets: the sessions of everybody else
TargetsOthers(u) == {s \in Sess : peer[s] \notin {u, None}}

\* the registered sessions of the user
Targets(u) == {s \in Sess : peer[s] = u}

\* notify_tools_changed: the peers are collected, the messages sent by a task
Notify(q) ==
    /\ task[q].pc = "notify"
    /\ sending' = sending \cup Targets(task[q].who)
    /\ End(q)
    /\ UNCHANGED <<dbVars, bound, peer, listed, unread, ops, stale, untold>>

\* the browser goes away as the write commits: nobody is told
NotifyLost(q) ==
    /\ Faults
    /\ task[q].pc = "notify" /\ task[q].kind = "web"
    /\ untold' = Sess
    /\ End(q)
    /\ UNCHANGED <<dbVars, bound, peer, cliVars, ops, stale>>

Deliver(s) ==
    /\ s \in sending
    /\ sending' = sending \ {s}
    /\ unread' = unread \cup {s}
    /\ UNCHANGED <<dbVars, bound, peer, task, listed, ops, tellVars, rebound>>

\* the send fails: the peer is pruned, and bind will not register it again
Prune(s) ==
    /\ Faults
    /\ s \in sending
    /\ sending' = sending \ {s}
    /\ peer' = [peer EXCEPT ![s] = None]
    /\ untold' = untold \cup {s}
    /\ UNCHANGED <<dbVars, bound, task, listed, unread, ops, outdated, stale, rebound>>

\* the access form of one of the user's credentials: what is not ticked is
\* denied; without the list of servers, nothing is
ReadAccess(q) ==
    /\ task[q].pc = "edit" /\ task[q].kind = "web"
    /\ \E c \in Cred, denied \in SUBSET Owned(task[q].who) :
          /\ ResolveValid(c, task[q].who)
          /\ task' = [task EXCEPT ![q].pc = "deny", ![q].cred = c, ![q].got = denied]
    /\ UNCHANGED <<dbVars, bound, peer, cliVars, ops, tellVars, rebound>>

\* set_denials: all rows of the credential are replaced, or the page drops the
\* error; no client is told
SetDenials(q) ==
    /\ task[q].pc = "deny"
    /\ \/ denials' = {d \in denials : d[1] # task[q].cred}
                        \cup ({task[q].cred} \X (task[q].got \cap Owned(task[q].who)))
       \/ Faults /\ UNCHANGED denials
    /\ End(q)
    /\ UNCHANGED <<disabled, pat, group, spent, members, exists, bound, peer,
                   cliVars, ops, stale, untold>>

CreateToken(q) ==
    /\ task[q].pc = "edit" /\ task[q].kind = "web"
    /\ \E p \in Pat : /\ pat[p] = "new" /\ Holder[p] = task[q].who
                     /\ pat' = [pat EXCEPT ![p] = "live"]
    /\ End(q)
    /\ UNCHANGED <<disabled, group, spent, members, denials, exists, bound, peer,
                   cliVars, ops, stale, untold>>

\* the web page also clears the denials of the token it names, whatever became of
\* the revocation, and drops both errors (the two statements are one step here);
\* the management tool revokes a token of the user and no more
RevokeToken(q) ==
    /\ task[q].pc = "edit"
    /\ \E p \in Pat :
          /\ \/ Owns(p, task[q].who) /\ pat' = [pat EXCEPT ![p] = "revoked"]
             \/ /\ task[q].kind = "web"
                /\ Faults \/ ~Owns(p, task[q].who)
                /\ UNCHANGED pat
          /\ \/ task[q].kind = "web" /\ denials' = {d \in denials : d[1] # p}
             \/ (task[q].kind = "manage" \/ Faults) /\ UNCHANGED denials
    /\ End(q)
    /\ UNCHANGED <<disabled, group, spent, members, exists, bound, peer, cliVars,
                   ops, stale, untold>>

\* deactivate_user, in a handler that works on the account of u: the flag first
DisableUser(q, u) ==
    /\ Spend
    /\ task[q].pc = "idle"
    /\ disabled' = disabled \cup {u}
    /\ task' = [task EXCEPT ![q] =
          [Idle EXCEPT !.pc = "revoke", !.kind = "web", !.user = u, !.who = u]]
    /\ UNCHANGED <<pat, group, spent, members, denials, exists, bound, peer,
                   cliVars, tellVars, rebound>>

\* ... then revoke_all_for_user, unless a statement before it fails
RevokeAllForUser(q) ==
    /\ task[q].pc = "revoke"
    /\ \/ pat' = [p \in Pat |-> IF Owns(p, task[q].who) THEN "revoked" ELSE pat[p]]
       \/ Faults /\ UNCHANGED pat
    /\ End(q)
    /\ UNCHANGED <<disabled, group, spent, members, denials, exists, bound, peer,
                   cliVars, ops, stale, untold>>

EnableUser(u) ==
    /\ Spend
    /\ disabled' = disabled \ {u}
    /\ UNCHANGED <<pat, group, spent, members, denials, exists, bound, peer, task,
                   cliVars, tellVars, rebound>>

-----------------------------------------------------------------------------
Step ==
    \/ \E q \in Task :
          \/ \E s \in Sess : Request(q, s)
          \/ \E u \in User : WebStart(q, u) \/ DisableUser(q, u)
          \/ Bind(q) \/ ReadMembers(q) \/ ReadDenials(q) \/ Forward(q)
          \/ AnswerList(q) \/ AnswerCall(q) \/ Act(q)
          \/ EditNothing(q) \/ CreateGroup(q) \/ RenameGroup(q)
          \/ ReadGroup(q)
          \/ SetMembers(q) \/ SetMembersFails(q) \/ DeleteGroup(q)
          \/ RemoveServer(q) \/ Notify(q) \/ NotifyLost(q)
          \/ ReadAccess(q) \/ SetDenials(q) \/ CreateToken(q) \/ RevokeToken(q)
          \/ RevokeAllForUser(q)
    \/ \E s \in Sess : SessionEnds(s) \/ Deliver(s) \/ Prune(s)
    \/ \E u \in User : EnableUser(u)

\* what the state grants the request of q
Asks(q) == task[q].kind \in {"list", "call"}

Grants(q) ==
    [enabled |-> task[q].user \notin disabled,
     member  |-> MembersOf(group[task[q].user]),
     allowed |-> Inst \ DeniedTo(task[q].cred)]

Joined(old, new) ==
    [enabled |-> old.enabled \/ new.enabled,
     member  |-> old.member \cup new.member,
     allowed |-> old.allowed \cup new.allowed]

Observe ==
    may' = [q \in Task |->
              IF Asks(q)' THEN Joined(may[q], Grants(q)') ELSE Nothing]

Next == Step /\ Observe

Spec == Init /\ [][Next]_vars

-----------------------------------------------------------------------------
(* Safety. *)

\* Group membership, denials and the account's flag are looked up per request,
\* so that edits take effect immediately on live sessions: a server that a
\* request lists or calls is the user's, and was in the group, and not denied
\* to the credential, and the account enabled, while the request was under
\* way.  Denials alone fail open: a lookup that fails denies nothing.
GrantedDuringRequest ==
    \A q \in Task : task[q].pc \in {"answer", "called"} =>
        /\ task[q].got # {} => may[q].enabled
        /\ \A i \in task[q].got :
              /\ Owner[i] = task[q].user
              /\ i \in may[q].member
              /\ i \in may[q].allowed \/ task[q].blind

\* A call goes to the server, and to the tool, that its name was made from,
\* unless the namespace runs into the separator (it ends in "_" or has "__").
RoutedAsListed ==
    \A q \in Task : task[q].pc = "called" =>
        LET i == task[q].want[1]
            n == Namespaced(i, task[q].want[2])
        IN (Separable(Space[i]) /\ Owner[i] = task[q].user)
           => /\ task[q].got \subseteq {i}
              /\ RoutedTo(n) = Space[i] /\ ToolIn(n) = task[q].want[2]

\* A client whose tool list was overtaken by an edit of its group is told
\* (list_changed): it has been, or the message is under way, or the handler is
\* about to send it, or the client is listing again.  A list read while the edit
\* happens is no exception, since sessions are registered before they read.
StaleListIsTold ==
    \A s \in stale \ untold :
        \/ s \in sending \cup unread
        \/ \E q \in Task : task[q].pc = "notify" /\ task[q].who = peer[s]
        \/ \E q \in Task \ outdated : task[q].kind = "list" /\ task[q].sess = s

\* A management tool acts as the user who called it, unless a request of
\* another user in the same session bound it in between.
ManagesAsCaller ==
    \A q \in Task \ rebound :
        task[q].pc \in Acting => task[q].who = task[q].user
=============================================================================
