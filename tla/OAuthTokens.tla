----------------------------- MODULE OAuthTokens -----------------------------
(***************************************************************************)
(* Authorization codes and refresh tokens of one user and one OAuth client *)
(* (src/oauth/store.rs, token.rs, authorize.rs), with the client at the    *)
(* other end of the token endpoint.                                        *)
(*                                                                         *)
(* Codes live in memory and are taken once.  A refresh token is a database *)
(* row that is marked consumed when it is used; its successor is inserted  *)
(* by a later statement, in the same family.  A consumed token that is     *)
(* presented again revokes the family.  Requests run concurrently: a step  *)
(* ends where the handler awaits the database.                             *)
(*                                                                         *)
(* Abstractions.  A family is named by the code whose exchange started it. *)
(* Tokens and codes are random: an identity is used again only when no     *)
(* row, request or client remembers it.  Time is the set of codes and of   *)
(* tokens whose lifetime is over.  Access tokens, scopes and audiences do  *)
(* not take part in rotation and are left out.                             *)
(***************************************************************************)
EXTENDS Naturals, FiniteSets

CONSTANTS
    Code,          \* authorization codes, and the families they start
    Tok,           \* refresh tokens that can be remembered at the same time
    Req,           \* requests to the token endpoint in flight
    CodeCap,       \* AUTH_CODE_CAP
    Retry,         \* a client may send again before it has an answer
    Faults,        \* the database fails, answers get lost, the hub restarts,
                   \* a request names the wrong client, redirect or verifier
    AuthCode, None

ASSUME TokenAssumption ==
    /\ CodeCap \in Nat
    /\ {Retry, Faults} \subseteq BOOLEAN
    /\ AuthCode \notin Tok
    /\ None \notin Tok \cup Code
    /\ AuthCode # None

VARIABLES
    user,          \* the user's row: active, disabled or gone
    revoking,      \* deactivate_user has set the flag, not yet the tokens
    codes,         \* AppState.auth_codes
    rows,          \* the table oauth_refresh_tokens
    oldCodes, oldToks,      \* those past their expires_at
    pc, fam, arg, new,      \* the request handlers
    held,          \* held[g]: what the client of g will present next
    cut,           \* families the owner or an administrator cut off, and
    spared         \* those of them that had a grant on its way

tableVars == <<codes, rows, oldCodes, oldToks>>
reqVars   == <<pc, fam, arg, new>>
cuts      == <<cut, spared>>
vars == <<user, revoking, tableVars, reqVars, held, cuts>>

Refresh == [tok : Tok, fam : Code, consumed : BOOLEAN]

Steps == {"idle", "present", "user", "insert", "revoke", "granted", "refused",
          "failed"}

TypeOK ==
    /\ user \in {"active", "disabled", "gone"}
    /\ revoking \in BOOLEAN
    /\ codes \in SUBSET Code
    /\ rows \in SUBSET Refresh
    /\ oldCodes \in SUBSET Code
    /\ oldToks \in SUBSET Tok
    /\ pc \in [Req -> Steps]
    /\ fam \in [Req -> Code \cup {None}]
    /\ arg \in [Req -> Tok \cup {AuthCode, None}]
    /\ new \in [Req -> Tok \cup {None}]
    /\ held \in [Code -> Tok \cup {AuthCode, None}]
    /\ cut \in SUBSET Code
    /\ spared \in SUBSET Code

\* the request has used up a code or a token and owes a successor
Rotating(q) == pc[q] \in {"user", "insert"}

Live(g) == {w \in rows : w.fam = g /\ ~w.consumed}

Init ==
    /\ user = "active"
    /\ revoking = FALSE
    /\ codes = {} /\ rows = {} /\ oldCodes = {} /\ oldToks = {}
    /\ pc = [q \in Req |-> "idle"]
    /\ fam = [q \in Req |-> None]
    /\ arg = [q \in Req |-> None]
    /\ new = [q \in Req |-> None]
    /\ held = [g \in Code |-> None]
    /\ cut = {} /\ spared = {}

-----------------------------------------------------------------------------
(* Consent: insert_code evicts what has expired, then respects the cap. *)

\* nothing remembers g, so a new authorization may carry its name
Unused(g) ==
    /\ g \notin codes
    /\ held[g] = None
    /\ \A w \in rows : w.fam # g
    /\ \A q \in Req : fam[q] # g

\* AuthUser loads the user of the session and does not look at the disabled flag
Approve(g) ==
    /\ user # "gone"
    /\ Unused(g)
    /\ Cardinality(codes \ oldCodes) < CodeCap
    /\ codes' = (codes \ oldCodes) \cup {g}
    /\ oldCodes' = oldCodes \ {g}
    /\ held' = [held EXCEPT ![g] = AuthCode]
    /\ cut' = cut \ {g}
    /\ spared' = spared \ {g}
    /\ UNCHANGED <<user, revoking, rows, oldToks, reqVars>>

\* too many authorizations in progress; the expired ones are gone all the same
ApproveFull ==
    /\ user # "gone"
    /\ Cardinality(codes \ oldCodes) >= CodeCap
    /\ codes' = codes \ oldCodes
    /\ UNCHANGED <<user, revoking, rows, oldCodes, oldToks, reqVars, held, cuts>>

-----------------------------------------------------------------------------
(* The client sends what it holds; the answer tells it what to hold next. *)

Outstanding(g) == {q \in Req : fam[q] = g}

Send(q, g) ==
    /\ pc[q] = "idle"
    /\ held[g] # None
    /\ Retry \/ Outstanding(g) = {}
    /\ pc' = [pc EXCEPT ![q] = "present"]
    /\ fam' = [fam EXCEPT ![q] = g]
    /\ arg' = [arg EXCEPT ![q] = held[g]]
    /\ UNCHANGED <<user, revoking, tableVars, new, held, cuts>>

\* the request leaves the hub
Finish(q) ==
    /\ pc' = [pc EXCEPT ![q] = "idle"]
    /\ fam' = [fam EXCEPT ![q] = None]
    /\ arg' = [arg EXCEPT ![q] = None]
    /\ new' = [new EXCEPT ![q] = None]
    /\ UNCHANGED <<user, revoking, tableVars, cuts>>

Granted(q) ==
    /\ pc[q] = "granted"
    /\ held' = [held EXCEPT ![fam[q]] = new[q]]
    /\ Finish(q)

\* invalid_grant: the client gives up what it presented
Refused(q) ==
    /\ pc[q] = "refused"
    /\ held' = IF held[fam[q]] = arg[q]
               THEN [held EXCEPT ![fam[q]] = None] ELSE held
    /\ Finish(q)

\* a server error: the client keeps what it has
Failed(q) == pc[q] = "failed" /\ Finish(q) /\ UNCHANGED held

\* the answer, whatever it is, never arrives
LoseAnswer(q) ==
    /\ Faults
    /\ pc[q] \in {"granted", "refused"}
    /\ Finish(q)
    /\ UNCHANGED held

-----------------------------------------------------------------------------
(* POST /token. *)

Become(q, step) == pc' = [pc EXCEPT ![q] = step]

\* wrong Checked: a busy retry repeats a consume that had taken effect
CheckedAgain(q) == Become(q, "user") \/ Become(q, "revoke")

\* the client, the redirect and the verifier match; if not, the code or token
\* stays used up
Checked(q) == Become(q, "user") \/ (Faults /\ Become(q, "refused"))

\* wrong take_code: the code stays in the map
PeekCode(g) == UNCHANGED codes

\* HashMap::remove, whether or not the code has expired
RemoveCode(g) == codes' = codes \ {g}

TakeCode(q) ==
    /\ pc[q] = "present"
    /\ arg[q] = AuthCode
    /\ RemoveCode(fam[q])
    /\ IF fam[q] \in codes \ oldCodes THEN Checked(q) ELSE Become(q, "refused")
    /\ UNCHANGED <<user, revoking, rows, oldCodes, oldToks, fam, arg, new, held,
                   cuts>>

\* wrong consume_refresh: a consumed token counts as a first use
AnyUse(w) == TRUE

FirstUse(w) == ~w.consumed

\* consume_refresh, one immediate transaction; an expired row is deleted
ConsumeRefresh(q) ==
    /\ pc[q] = "present"
    /\ \E w \in rows :
          /\ w.tok = arg[q]
          /\ fam' = [fam EXCEPT ![q] = w.fam]
          /\ \/ /\ w.tok \in oldToks
                /\ rows' = rows \ {w}
                /\ Become(q, "refused")
             \/ /\ w.tok \notin oldToks
                /\ ~FirstUse(w)
                /\ UNCHANGED rows
                /\ Become(q, "revoke")
             \/ /\ w.tok \notin oldToks
                /\ FirstUse(w)
                /\ rows' = (rows \ {w}) \cup {[w EXCEPT !.consumed = TRUE]}
                /\ Checked(q)
    /\ UNCHANGED <<user, revoking, codes, oldCodes, oldToks, arg, new, held, cuts>>

ConsumeMissing(q) ==
    /\ pc[q] = "present"
    /\ arg[q] # AuthCode
    /\ \A w \in rows : w.tok # arg[q]
    /\ Become(q, "refused")
    /\ UNCHANGED <<user, revoking, tableVars, fam, arg, new, held, cuts>>

\* reuse detected: delete the family's rows
RevokeFamily(q) ==
    /\ pc[q] = "revoke"
    /\ rows' = {w \in rows : w.fam # fam[q]}
    /\ Become(q, "refused")
    /\ UNCHANGED <<user, revoking, codes, oldCodes, oldToks, fam, arg, new, held,
                   cuts>>

\* users::find_by_id; a disabled user still exists
FindUser(q) ==
    /\ pc[q] = "user"
    /\ Become(q, IF user = "gone" THEN "refused" ELSE "insert")
    /\ UNCHANGED <<user, revoking, tableVars, fam, arg, new, held, cuts>>

\* a random token: nobody remembers it
Fresh(t) ==
    /\ \A w \in rows : w.tok # t
    /\ \A g \in Code : held[g] # t
    /\ \A q \in Req : arg[q] # t /\ new[q] # t

\* issue_tokens: insert_refresh, in the family of what was used up
IssueTokens(q) ==
    /\ pc[q] = "insert"
    /\ user # "gone"
    /\ \E t \in Tok :
          /\ Fresh(t)
          /\ rows' = rows \cup {[tok |-> t, fam |-> fam[q], consumed |-> FALSE]}
          /\ oldToks' = oldToks \ {t}
          /\ new' = [new EXCEPT ![q] = t]
    /\ Become(q, "granted")
    /\ UNCHANGED <<user, revoking, codes, oldCodes, fam, arg, held, cuts>>

\* the form is incomplete or authenticate_client turns the request away before
\* anything is used up, a database call fails (retries included), the connection
\* closes and the handler is dropped, or the row's foreign key has gone: nothing
\* is undone
RequestFails(q) ==
    /\ Faults \/ (pc[q] = "insert" /\ user = "gone")
    /\ pc[q] \in {"present", "user", "insert", "revoke"}
    /\ Become(q, "failed")
    /\ UNCHANGED <<user, revoking, tableVars, fam, arg, new, held, cuts>>

-----------------------------------------------------------------------------
(* The owner, the administrator, time, and restarts. *)

\* what a deletion of rows does not reach: pending codes, successors under way
OnTheWay ==
    {g \in Code : g \in codes \/ \E q \in Req : Rotating(q) /\ fam[q] = g}

\* wrong deletion: only the rows of one family
DeleteFamilyRows ==
    /\ \E g \in Code : rows' = {w \in rows : w.fam # g}
    /\ cut' = Code
    /\ spared' = OnTheWay

\* every row of the connection, or of the user, is deleted
DeleteRows ==
    /\ rows' = {}
    /\ cut' = Code
    /\ spared' = OnTheWay

RevokeConnection ==
    /\ user # "gone"
    /\ DeleteRows
    /\ UNCHANGED <<user, revoking, codes, oldCodes, oldToks, reqVars, held>>

\* deactivate_user: the flag, then the tokens; an administrator may repeat it
DisableUser ==
    /\ user # "gone"
    /\ user' = "disabled"
    /\ revoking' = TRUE
    /\ UNCHANGED <<tableVars, reqVars, held, cuts>>

RevokeAllUserTokens ==
    /\ revoking
    /\ DeleteRows
    /\ revoking' = FALSE
    /\ UNCHANGED <<user, codes, oldCodes, oldToks, reqVars, held>>

DeactivateFails ==
    /\ Faults
    /\ revoking
    /\ revoking' = FALSE
    /\ UNCHANGED <<user, tableVars, reqVars, held, cuts>>

EnableUser ==
    /\ user = "disabled"
    /\ user' = "active"
    /\ UNCHANGED <<revoking, tableVars, reqVars, held, cuts>>

\* purge_user: the rows cascade
DeleteUser ==
    /\ user # "gone"
    /\ user' = "gone"
    /\ DeleteRows
    /\ UNCHANGED <<revoking, codes, oldCodes, oldToks, reqVars, held>>

CodeExpires(g) ==
    /\ g \in codes \ oldCodes
    /\ oldCodes' = oldCodes \cup {g}
    /\ UNCHANGED <<user, revoking, codes, rows, oldToks, reqVars, held, cuts>>

TokenExpires(w) ==
    /\ w.tok \notin oldToks
    /\ oldToks' = oldToks \cup {w.tok}
    /\ UNCHANGED <<user, revoking, codes, rows, oldCodes, reqVars, held, cuts>>

\* the hub restarts: pending codes and the requests in flight are gone
RestartHub ==
    /\ Faults
    /\ codes' = {}
    /\ revoking' = FALSE
    /\ pc' = [q \in Req |-> "idle"]
    /\ fam' = [q \in Req |-> None]
    /\ arg' = [q \in Req |-> None]
    /\ new' = [q \in Req |-> None]
    /\ UNCHANGED <<user, rows, oldCodes, oldToks, held, cuts>>

-----------------------------------------------------------------------------
Reply(q) == Granted(q) \/ Refused(q) \/ Failed(q) \/ LoseAnswer(q)

Serve(q) ==
    \/ TakeCode(q) \/ ConsumeRefresh(q) \/ ConsumeMissing(q) \/ RevokeFamily(q)
    \/ FindUser(q) \/ IssueTokens(q) \/ RequestFails(q)

Account ==
    \/ RevokeConnection \/ DisableUser \/ RevokeAllUserTokens
    \/ DeactivateFails \/ EnableUser \/ DeleteUser

Next ==
    \/ \E g \in Code : Approve(g) \/ CodeExpires(g) \/ \E q \in Req : Send(q, g)
    \/ \E q \in Req : Serve(q) \/ Reply(q)
    \/ \E w \in rows : TokenExpires(w)
    \/ ApproveFull \/ Account \/ RestartHub

Spec == Init /\ [][Next]_vars

-----------------------------------------------------------------------------
(* Safety. *)

\* An authorization is worth one successor at a time: among its pending code,
\* its unconsumed tokens and the requests that have used one up and not yet
\* inserted the next, there is at most one, whatever is retried, duplicated or
\* raced (take_code and consume_refresh are atomic).
OneLivePerFamily ==
    /\ \A g \in codes : Live(g) = {} /\ \A q \in Req : Rotating(q) => fam[q] # g
    /\ \A v, w \in rows : v.fam = w.fam /\ ~v.consumed /\ ~w.consumed => v = w
    /\ \A q \in Req : Rotating(q) => Live(fam[q]) = {}
    /\ \A p, q \in Req : Rotating(p) /\ Rotating(q) /\ fam[p] = fam[q] => p = q

\* the family can no longer produce a token
Spent(g) ==
    /\ g \notin codes
    /\ Live(g) = {}
    /\ \A q \in Req : Rotating(q) => fam[q] # g

\* A family that is spent (revoked, refused, its successor never inserted) stays
\* spent: no late, repeated or concurrent request brings it back; only a new
\* consent may use its name.
NoRevival == [][\A g \in Code : Spent(g) => Spent(g)' \/ Approve(g)]_vars

\* Disconnecting a client, disabling or deleting its user ends its authorizations
\* (revoke_connection, revoke_all_user_tokens, the cascade of a deleted row): none
\* of them yields a token again, whatever its client still holds and sends, except
\* one whose code was pending or whose rotation was under way at that moment.
CutIsFinal == \A g \in cut \ spared : Spent(g)

\* what the request presented was past its lifetime
Expired(q) == IF arg[q] = AuthCode THEN fam[q] \in oldCodes ELSE arg[q] \in oldToks

\* A client that sends one request at a time and gets its answers is never taken
\* for a replay, and is refused only when what it presented has expired, unless
\* its connection was cut off: rotation costs no honest client its connection.
NoSpuriousRefusal ==
    ~Retry /\ ~Faults =>
        \A q \in Req : fam[q] \in Code \ cut =>
            pc[q] # "revoke" /\ (pc[q] = "refused" => Expired(q))
=============================================================================
