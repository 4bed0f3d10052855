------------------------------- MODULE Accounts -------------------------------
(***************************************************************************)
(* Accounts of the hub: users, invites and recovery codes, passkeys and    *)
(* browser sessions, and the passkey ceremonies that create them           *)
(* (src/users.rs, invites.rs, auth/webauthn.rs, auth/session.rs and the    *)
(* account and administration pages of web.rs).                            *)
(*                                                                         *)
(* A ceremony is started by one request, which checks whether it may, and  *)
(* finished by a later one, which acts on what was checked.  The finishing *)
(* handler awaits the database between its statements, so a step here is   *)
(* one statement; ceremonies, removals and administration interleave.      *)
(*                                                                         *)
(* Abstractions.  A user is its id; that a handle is taken is a refusal    *)
(* that may happen to any registration.  Ids and codes are random: one is  *)
(* used again only when nothing remembers it.  The WebAuthn exchange       *)
(* succeeds or fails.  The administrator acts at the pages or, with a      *)
(* token, through the hub__ tools: whenever it likes.  A session may end   *)
(* at any time, by logout or by its deadlines.                             *)
(***************************************************************************)
EXTENDS Naturals, FiniteSets

CONSTANTS
    User, Code,    \* ids and codes that can be remembered at the same time
    Key, Sess,     \* bounds on the passkeys and on the sessions in the tables
    Flow,          \* ceremonies and the requests that finish them
    CeremonyCap,   \* CEREMONY_CAP
    MaxSlot,       \* bound on sandbox_uid
    MaxHalfway,    \* bound on removals and deactivations under way at a time
    OpenReg,       \* allow_open_registration
    Faults,        \* the database fails, handlers are dropped, the hub restarts
    None

ASSUME AccountsAssumption ==
    /\ CeremonyCap \in Nat
    /\ MaxSlot \in Nat
    /\ MaxHalfway \in Nat
    /\ {OpenReg, Faults} \subseteq BOOLEAN
    /\ None \notin User \cup Code

VARIABLES
    acct,          \* the users table: no row, enabled, disabled
    admin,         \* the users whose is_admin is set
    slot,          \* sandbox_uid
    inv,           \* the invites table
    owner,         \* webauthn_credentials: whose passkey
    sess,          \* web_sessions: whose session
    flow,          \* ceremonies waiting in reg_states and auth_states, and the
                   \* handlers that have taken one out
    removing,      \* remove_passkey between its count and its delete
    ending,        \* users deactivate_user has disabled and not yet signed out
    walkIn         \* users who registered without a code

rows == <<acct, admin, slot, inv, owner, sess, walkIn>>
vars == <<rows, flow, removing, ending>>

NoFlow == [at |-> "idle", kind |-> "none", user |-> None, code |-> None,
           boot |-> FALSE]

NoRow == [kind |-> "none", for |-> None, used |-> FALSE, by |-> None]

FlowRec == [at : {"idle", "waiting", "create", "redeem", "rollback", "enrol",
                  "signin"},
            kind : {"none", "new", "add", "login"},
            user : User \cup {None}, code : Code \cup {None},
            boot : BOOLEAN]

InviteRec == [kind : {"none", "invite", "recovery"}, for : User \cup {None},
              used : BOOLEAN, by : User \cup {None}]

\* alone: no other removal of the same user's passkeys came between
Removal == [user : User, key : Key, alone : BOOLEAN]

TypeOK ==
    /\ acct \in [User -> {"none", "on", "off"}]
    /\ admin \in SUBSET User
    /\ slot \in [User -> Nat]
    /\ inv \in [Code -> InviteRec]
    /\ owner \in [Key -> User \cup {None}]
    /\ sess \in [Sess -> User \cup {None}]
    /\ flow \in [Flow -> FlowRec]
    /\ removing \in SUBSET Removal
    /\ ending \in SUBSET User
    /\ walkIn \in SUBSET User

Registered == {u \in User : acct[u] # "none"}

Keys(u) == {k \in Key : owner[k] = u}

SignedIn(u) == \E s \in Sess : sess[s] = u

Init ==
    /\ acct = [u \in User |-> "none"]
    /\ admin = {}
    /\ slot = [u \in User |-> 0]
    /\ inv = [c \in Code |-> NoRow]
    /\ owner = [k \in Key |-> None]
    /\ sess = [s \in Sess |-> None]
    /\ flow = [f \in Flow |-> NoFlow]
    /\ removing = {}
    /\ ending = {}
    /\ walkIn = {}

-----------------------------------------------------------------------------
(* Starting a ceremony. *)

Waiting(kinds) == {f \in Flow : flow[f].at = "waiting" /\ flow[f].kind \in kinds}

\* reg_states and auth_states are two maps
Store(kind) == IF kind = "login" THEN {"login"} ELSE {"new", "add"}

\* insert_ceremony: evict those that have become too old, then respect the cap
InsertCeremony(f, kind, user, code, boot) ==
    /\ flow[f] = NoFlow
    /\ \E gone \in SUBSET Waiting(Store(kind)) :
          LET kept == [g \in Flow |-> IF g \in gone THEN NoFlow ELSE flow[g]]
              full == Cardinality(Waiting(Store(kind)) \ gone) >= CeremonyCap
          IN  flow' = IF full THEN kept
                      ELSE [kept EXCEPT ![f] =
                               [at |-> "waiting", kind |-> kind, user |-> user,
                                code |-> code, boot |-> boot]]
    /\ UNCHANGED <<rows, removing, ending>>

FreshUser(u) ==
    /\ acct[u] = "none"
    /\ \A f \in Flow : flow[f].user # u

\* is_redeemable and is_recovery_redeemable
Redeemable(c, kind, u) ==
    inv[c].kind = kind /\ ~inv[c].used /\ inv[c].for = u

\* the first account needs no code; later ones do, unless registration is open
RegisterStart(f, u) ==
    /\ FreshUser(u)
    /\ \/ /\ Registered = {}
          /\ InsertCeremony(f, "new", u, None, TRUE)
       \/ /\ Registered # {}
          /\ \E c \in IF OpenReg THEN {None}
                      ELSE {d \in Code : Redeemable(d, "invite", None)} :
                InsertCeremony(f, "new", u, c, FALSE)

\* AuthUser does not look at the disabled flag
AddPasskeyStart(f, u) ==
    /\ SignedIn(u)
    /\ InsertCeremony(f, "add", u, None, FALSE)

RecoverStart(f, u) ==
    /\ acct[u] = "on"
    /\ \E c \in Code : /\ Redeemable(c, "recovery", u)
                       /\ InsertCeremony(f, "add", u, c, FALSE)

LoginStart(f, u) ==
    /\ acct[u] = "on"
    /\ Keys(u) # {}
    /\ InsertCeremony(f, "login", u, None, FALSE)

-----------------------------------------------------------------------------
(* register_finish and login_finish. *)

Goto(f, at) == flow' = [flow EXCEPT ![f].at = at]
Leave(f)    == flow' = [flow EXCEPT ![f] = NoFlow]

FirstStatement(kind, code) ==
    CASE kind = "new" -> "create"
      [] kind = "login" -> "signin"
      [] kind = "add" /\ code # None -> "redeem"
      [] OTHER -> "enrol"

\* the ceremony leaves the map; the authenticator's answer may not verify
TakeCeremony(f) ==
    /\ flow[f].at = "waiting"
    /\ \/ Goto(f, FirstStatement(flow[f].kind, flow[f].code))
       \/ Leave(f)
    /\ UNCHANGED <<rows, removing, ending>>

\* wrong create_admin_if_first: what the start saw decides
AdminAsStarted(f) == flow[f].boot

\* create_admin_if_first counts again, inside its transaction
BecomesAdmin(f) == flow[f].boot /\ Registered = {}

\* wrong sandbox slot: the number of users
CountSlot(n) == n = Cardinality(Registered)

\* COALESCE(MAX(sandbox_uid), -1) + 1
NextSlot(n) ==
    \/ Registered = {} /\ n = 0
    \/ \E v \in Registered : /\ n = slot[v] + 1
                             /\ \A w \in Registered : slot[w] <= slot[v]

CreateUser(f) ==
    LET u == flow[f].user IN
    /\ flow[f].at = "create"
    /\ acct' = [acct EXCEPT ![u] = "on"]
    /\ admin' = IF BecomesAdmin(f) THEN admin \cup {u} ELSE admin
    /\ \E n \in 0..MaxSlot : NextSlot(n) /\ slot' = [slot EXCEPT ![u] = n]
    /\ walkIn' = IF flow[f].code = None THEN walkIn \cup {u} ELSE walkIn
    /\ Goto(f, IF flow[f].code = None THEN "enrol" ELSE "redeem")
    /\ UNCHANGED <<inv, owner, sess, removing, ending>>

HandleTaken(f) ==
    /\ flow[f].at = "create"
    /\ Registered # {}
    /\ Leave(f)
    /\ UNCHANGED <<rows, removing, ending>>

\* wrong redeem: without AND used_at IS NULL
AnyRow(c) == inv[c].kind # "none"

UnusedRow(c) == inv[c].kind # "none" /\ ~inv[c].used

\* used_by references the users table
Redeem(f) ==
    LET c == flow[f].code u == flow[f].user IN
    /\ flow[f].at = "redeem"
    /\ acct[u] # "none"
    /\ UnusedRow(c)
    /\ inv' = [inv EXCEPT ![c].used = TRUE, ![c].by = u]
    /\ Goto(f, "enrol")
    /\ UNCHANGED <<acct, admin, slot, owner, sess, walkIn, removing, ending>>

\* somebody else has used the code, or it was revoked
RedeemFails(f) ==
    /\ flow[f].at = "redeem"
    /\ Faults \/ acct[flow[f].user] = "none" \/ ~UnusedRow(flow[f].code)
    /\ IF flow[f].kind = "new" THEN Goto(f, "rollback") ELSE Leave(f)
    /\ UNCHANGED <<rows, removing, ending>>

\* DELETE FROM users, and what references the row
DeleteRow(u) ==
    /\ acct' = [acct EXCEPT ![u] = "none"]
    /\ admin' = admin \ {u}
    /\ slot' = [slot EXCEPT ![u] = 0]
    /\ inv' = [c \in Code |->
                 CASE inv[c].for = u -> NoRow
                   [] inv[c].for # u /\ inv[c].by = u -> [inv[c] EXCEPT !.by = None]
                   [] OTHER -> inv[c]]
    /\ owner' = [k \in Key |-> IF owner[k] = u THEN None ELSE owner[k]]
    /\ sess' = [s \in Sess |-> IF sess[s] = u THEN None ELSE sess[s]]
    /\ walkIn' = walkIn \ {u}
    \* what a removal or a deactivation has left to do finds no row any more
    /\ removing' = {p \in removing : p.user # u}
    /\ ending' = ending \ {u}

Rollback(f) ==
    /\ flow[f].at = "rollback"
    /\ DeleteRow(flow[f].user)
    /\ Leave(f)

InsertCredential(f) ==
    /\ flow[f].at = "enrol"
    /\ acct[flow[f].user] # "none"
    /\ \E k \in Key : owner[k] = None /\ owner' = [owner EXCEPT ![k] = flow[f].user]
    /\ Goto(f, "signin")
    /\ UNCHANGED <<acct, admin, slot, inv, sess, walkIn, removing, ending>>

CreateSession(f) ==
    /\ flow[f].at = "signin"
    /\ acct[flow[f].user] # "none"
    /\ \E s \in Sess : sess[s] = None /\ sess' = [sess EXCEPT ![s] = flow[f].user]
    /\ Leave(f)
    /\ UNCHANGED <<acct, admin, slot, inv, owner, walkIn, removing, ending>>

\* a statement fails or the browser hangs up and the handler is dropped; the
\* account may have been deleted, and then the foreign key fails
FinishFails(f) ==
    /\ \/ Faults /\ flow[f].at \in {"create", "redeem", "rollback"}
       \/ /\ flow[f].at \in {"enrol", "signin"}
          /\ Faults \/ acct[flow[f].user] = "none"
    /\ Leave(f)
    /\ UNCHANGED <<rows, removing, ending>>

-----------------------------------------------------------------------------
\* handlers between their first statement and their last
Halfway == Cardinality(removing) + Cardinality(ending)

(* The owner's pages. *)

\* logout, signing out the other devices, deadlines noticed or swept
SessionsEnd(S) ==
    /\ \E s \in S : sess[s] # None
    /\ sess' = [s \in Sess |-> IF s \in S THEN None ELSE sess[s]]
    /\ UNCHANGED <<acct, admin, slot, inv, owner, walkIn, flow, removing, ending>>

\* wrong remove_passkey: n < 1 is refused, not n <= 1
AnyKey(u) == Cardinality(Keys(u)) >= 1

SpareKey(u) == Cardinality(Keys(u)) > 1

\* remove_passkey: count, refuse the last one, then delete
RemovePasskeyCount(u, k) ==
    /\ SignedIn(u)
    /\ owner[k] = u
    /\ SpareKey(u)
    /\ Halfway < MaxHalfway
    /\ removing' = {[p EXCEPT !.alone = @ /\ p.user # u] : p \in removing}
                      \cup {[user |-> u, key |-> k,
                             alone |-> \A p \in removing : p.user # u]}
    /\ UNCHANGED <<rows, flow, ending>>

RemovePasskeyDelete(p) ==
    /\ removing' = removing \ {p}
    /\ owner' = IF owner[p.key] = p.user
                THEN [owner EXCEPT ![p.key] = None] ELSE owner
    /\ UNCHANGED <<acct, admin, slot, inv, sess, walkIn, flow, ending>>

-----------------------------------------------------------------------------
(* The administrator, at the pages or with the hub__ tools. *)

IssueCode(c, kind, u) ==
    /\ admin # {}
    /\ inv[c] = NoRow
    /\ \A f \in Flow : flow[f].code # c
    /\ inv' = [inv EXCEPT ![c] = [kind |-> kind, for |-> u, used |-> FALSE,
                                  by |-> None]]
    /\ UNCHANGED <<acct, admin, slot, owner, sess, walkIn, flow, removing, ending>>

CreateInvite(c) == IssueCode(c, "invite", None)

CreateRecovery(c) == \E u \in Registered : IssueCode(c, "recovery", u)

\* revoke deletes the unused rows whose hash starts with the given text
RevokeInvites(C) ==
    /\ admin # {}
    /\ \A c \in C : UnusedRow(c)
    /\ inv' = [c \in Code |-> IF c \in C THEN NoRow ELSE inv[c]]
    /\ UNCHANGED <<acct, admin, slot, owner, sess, walkIn, flow, removing, ending>>

\* wrong resolve_admin_target: the last administrator is not protected
AnyTarget(u) == admin # {}

\* resolve_admin_target and admin_target: not oneself, not the last administrator
AdminTarget(u) ==
    /\ admin \ {u} # {}
    /\ u \in admin => Cardinality(admin) > 1

\* deactivate_user: the flag, then the sessions; its tokens are in OAuthTokens
DisableUser(u) ==
    /\ acct[u] # "none"
    /\ AdminTarget(u)
    /\ Halfway < MaxHalfway
    /\ acct' = [acct EXCEPT ![u] = "off"]
    /\ ending' = ending \cup {u}
    /\ UNCHANGED <<admin, slot, inv, owner, sess, walkIn, flow, removing>>

EndSessions(u) ==
    /\ u \in ending
    /\ sess' = [s \in Sess |-> IF sess[s] = u THEN None ELSE sess[s]]
    /\ ending' = ending \ {u}
    /\ UNCHANGED <<acct, admin, slot, inv, owner, walkIn, flow, removing>>

\* the tool enables anybody
EnableUser(u) ==
    /\ acct[u] = "off"
    /\ admin # {}
    /\ acct' = [acct EXCEPT ![u] = "on"]
    /\ UNCHANGED <<admin, slot, inv, owner, sess, walkIn, flow, removing, ending>>

DeleteUser(u) ==
    /\ acct[u] # "none"
    /\ AdminTarget(u)
    /\ DeleteRow(u)
    /\ UNCHANGED flow

\* a removal or a deactivation stops half way
HandlerFails ==
    /\ Faults
    /\ \/ \E p \in removing : removing' = removing \ {p} /\ UNCHANGED ending
       \/ \E p \in ending : ending' = ending \ {p} /\ UNCHANGED removing
    /\ UNCHANGED <<rows, flow>>

RestartHub ==
    /\ Faults
    /\ flow' = [f \in Flow |-> NoFlow]
    /\ removing' = {} /\ ending' = {}
    /\ UNCHANGED rows

-----------------------------------------------------------------------------
Start(f) ==
    \E u \in User : \/ RegisterStart(f, u) \/ AddPasskeyStart(f, u)
                    \/ RecoverStart(f, u) \/ LoginStart(f, u)

Finish(f) ==
    \/ TakeCeremony(f) \/ CreateUser(f) \/ HandleTaken(f) \/ Redeem(f)
    \/ RedeemFails(f) \/ Rollback(f) \/ InsertCredential(f) \/ CreateSession(f)
    \/ FinishFails(f)

Own ==
    \/ \E S \in SUBSET Sess : SessionsEnd(S)
    \/ \E u \in User, k \in Key : RemovePasskeyCount(u, k)
    \/ \E p \in removing : RemovePasskeyDelete(p)

Administer ==
    \/ \E c \in Code : CreateInvite(c) \/ CreateRecovery(c)
    \/ \E C \in SUBSET Code : RevokeInvites(C)
    \/ \E u \in User : DisableUser(u) \/ EndSessions(u)
                       \/ EnableUser(u) \/ DeleteUser(u)

Next ==
    \/ \E f \in Flow : Start(f) \/ Finish(f)
    \/ Own \/ Administer \/ HandlerFails \/ RestartHub

Spec == Init /\ [][Next]_vars

-----------------------------------------------------------------------------
(* Safety. *)

\* As soon as there is an account there is exactly one administrator, and it is
\* enabled: however many first registrations run at once, whatever later ones
\* roll back, and whatever the administrator does (create_admin_if_first,
\* resolve_admin_target).
OneAdministrator ==
    Registered # {} => \E a \in User : admin = {a} /\ acct[a] = "on"

\* The administrator stays the same: no account is promoted later, not even by a
\* bootstrap ceremony that was begun in time and finishes late.
AdminForever == [][admin # {} => admin' = admin]_vars

\* Two accounts never share a sandbox UID, after any deletions.
DistinctSlots == \A u, v \in Registered : slot[u] = slot[v] => u = v

\* the account was entered with a code that is spent on it
HoldsCode(u) == \E c \in Code : inv[c].used /\ inv[c].by = u

\* A code lets in one account: whoever registered with an invite and has a
\* passkey or a session is the user of a spent code of its own, though
\* any number of registrations passed the check of the same code (redeem).
InvitePaysForOne ==
    \A u \in Registered \ walkIn :
        Keys(u) # {} \/ SignedIn(u) => HoldsCode(u)

\* "Never let a user remove their last passkey" (web.rs, remove_passkey): an
\* account that has a passkey keeps one until it is deleted, unless two removals
\* overlapped and each counted before the other had deleted.
LastPasskeyKept ==
    [][\A u \in User : Keys(u) # {} /\ Keys(u)' = {} =>
          \/ acct'[u] = "none"
          \/ \E p \in removing : p.user = u /\ ~p.alone]_vars

\* "A disabled user cannot sign in or use the proxy" (users.rs, set_disabled): a
\* disabled account gains no session.
DisabledStaysOut ==
    [][\A u \in User : acct[u] = "off" /\ acct'[u] = "off" =>
          \A s \in Sess : sess'[s] = u => sess[s] = u]_vars
=============================================================================
