-------------------------- MODULE OAuthTokensProofs --------------------------
(***************************************************************************)
(* Theorems about OAuthTokens, for every number of codes, tokens and       *)
(* requests.  OneLivePerFamily needs only that a token names one row.      *)
(* NoSpuriousRefusal needs to know what every client, request and row says *)
(* about the same token (Provenance, HonestInv).                           *)
(***************************************************************************)
EXTENDS OAuthTokens, TLAPS

\* a token hash is the table's primary key
TokUnique == \A v, w \in rows : v.tok = w.tok => v = w

\* who remembers a token agrees with its row on the family
Provenance ==
    \A w \in rows :
        /\ \A g \in Code : held[g] = w.tok => w.fam = g
        /\ \A q \in Req : arg[q] = w.tok \/ new[q] = w.tok => w.fam = fam[q]

\* the slots that serve no request are blank
Slots ==
    \A q \in Req : /\ pc[q] = "idle" <=> fam[q] = None
                   /\ pc[q] # "idle" => arg[q] # None
                   /\ pc[q] # "granted" => new[q] = None

\* what g's client would present can be exchanged, unless it has expired
Usable(g, x) ==
    IF x = AuthCode
    THEN g \in codes \cup oldCodes
    ELSE x \in oldToks \/ \E w \in Live(g) : w.tok = x

\* the state of a connection nobody cut off, when its client is sequential and
\* its requests are answered
Served(q) ==
    /\ pc[q] \notin {"revoke", "failed"}
    /\ arg[q] = held[fam[q]]
    /\ pc[q] = "present" => Usable(fam[q], arg[q])
    /\ pc[q] = "granted" => new[q] \in Tok /\ Usable(fam[q], new[q])
    /\ pc[q] = "refused" => Expired(q)

OneEach == \A p, q \in Req : fam[p] = fam[q] /\ fam[p] # None => p = q

IdleReady ==
    \A g \in Code \ cut :
        held[g] # None /\ Outstanding(g) = {} => Usable(g, held[g])

AllServed == \A q \in Req : fam[q] \in Code \ cut => Served(q)

HonestInv == ~Retry /\ ~Faults => OneEach /\ IdleReady /\ AllServed

GoneIsCut == user = "gone" => cut = Code

IInv ==
    /\ TypeOK
    /\ TokUnique
    /\ OneLivePerFamily
    /\ Slots
    /\ Provenance
    /\ GoneIsCut
    /\ HonestInv

USE DEF tableVars, reqVars, cuts

-----------------------------------------------------------------------------
\* The initial state satisfies the inductive invariant.
LEMMA InitInv == Init => IInv
<1> SUFFICES ASSUME Init PROVE IInv OBVIOUS
<1>1. TypeOK BY TokenAssumption DEF Init, TypeOK, Steps
<1>2. TokUnique /\ OneLivePerFamily /\ Provenance /\ GoneIsCut
  BY DEF Init, TokUnique, OneLivePerFamily, Provenance, GoneIsCut, Rotating
<1>3. Slots BY DEF Init, Slots
<1>4. HonestInv
  BY TokenAssumption DEF Init, HonestInv, OneEach, IdleReady, AllServed
<1> QED BY <1>1, <1>2, <1>3, <1>4 DEF IInv

\* Every step keeps the types.
LEMMA StepTypes == TypeOK /\ Slots /\ [Next]_vars => TypeOK'
<1> SUFFICES ASSUME TypeOK, Slots, [Next]_vars PROVE TypeOK' OBVIOUS
<1> USE DEF TypeOK, Steps
<1>1. ASSUME NEW g \in Code, Approve(g) \/ CodeExpires(g) PROVE TypeOK'
  BY <1>1 DEF Approve, CodeExpires
<1>2. ASSUME NEW g \in Code, NEW q \in Req, Send(q, g) PROVE TypeOK'
  BY <1>2 DEF Send
<1>3. ASSUME NEW q \in Req, Reply(q) PROVE TypeOK'
  <2>1. CASE Granted(q) BY <2>1 DEF Granted, Finish
  <2>2. CASE Refused(q) BY <2>2 DEF Refused, Finish
  <2>3. CASE Failed(q) \/ LoseAnswer(q) BY <2>3 DEF Failed, LoseAnswer, Finish
  <2> QED BY <1>3, <2>1, <2>2, <2>3 DEF Reply
<1>4. ASSUME NEW q \in Req, Serve(q) PROVE TypeOK'
  <2> USE DEF Become, Checked
  <2>1. CASE TakeCode(q) BY <2>1 DEF TakeCode, RemoveCode
  <2>2. CASE ConsumeRefresh(q)
    <3>1. PICK w \in rows : fam' = [fam EXCEPT ![q] = w.fam]
                              /\ rows' \subseteq rows \cup {[w EXCEPT !.consumed = TRUE]}
      BY <2>2 DEF ConsumeRefresh
    <3>2. w \in Refresh OBVIOUS
    <3>3. w.fam \in Code /\ [w EXCEPT !.consumed = TRUE] \in Refresh
      BY <3>2 DEF Refresh
    <3>4. rows' \in SUBSET Refresh BY <3>1, <3>3
    <3>5. pc' \in [Req -> Steps] BY <2>2 DEF ConsumeRefresh
    <3> QED BY <2>2, <3>1, <3>3, <3>4, <3>5 DEF ConsumeRefresh
  <2>3. CASE ConsumeMissing(q) \/ RevokeFamily(q) \/ FindUser(q) \/ RequestFails(q)
    BY <2>3 DEF ConsumeMissing, RevokeFamily, FindUser, RequestFails
  <2>4. CASE IssueTokens(q)
    <3>1. PICK t \in Tok :
             /\ rows' = rows \cup {[tok |-> t, fam |-> fam[q], consumed |-> FALSE]}
             /\ oldToks' = oldToks \ {t}
             /\ new' = [new EXCEPT ![q] = t]
      BY <2>4 DEF IssueTokens
    <3>2. fam[q] \in Code BY <2>4 DEF IssueTokens, Slots
    <3>3. [tok |-> t, fam |-> fam[q], consumed |-> FALSE] \in Refresh
      BY <3>2 DEF Refresh
    <3> QED BY <2>4, <3>1, <3>3 DEF IssueTokens
  <2> QED BY <1>4, <2>1, <2>2, <2>3, <2>4 DEF Serve
<1>5. ASSUME NEW w \in rows, TokenExpires(w) PROVE TypeOK'
  BY <1>5 DEF TokenExpires, Refresh
<1>6. CASE ApproveFull BY <1>6 DEF ApproveFull
<1>7. CASE Account
  BY <1>7 DEF Account, RevokeConnection, DisableUser, RevokeAllUserTokens,
              DeactivateFails, EnableUser, DeleteUser, DeleteRows, OnTheWay
<1>8. CASE RestartHub BY <1>8 DEF RestartHub
<1>9. CASE UNCHANGED vars BY <1>9 DEF vars
<1> QED BY <1>1, <1>2, <1>3, <1>4, <1>5, <1>6, <1>7, <1>8, <1>9 DEF Next

\* Requests fill and clear their slots as a whole.
LEMMA StepSlots == TypeOK /\ Slots /\ [Next]_vars => Slots'
<1> SUFFICES ASSUME TypeOK, Slots, [Next]_vars PROVE Slots' OBVIOUS
<1> USE TokenAssumption DEF TypeOK, Slots
<1>1. ASSUME NEW g \in Code, Approve(g) \/ CodeExpires(g) PROVE Slots'
  BY <1>1 DEF Approve, CodeExpires
<1>2. ASSUME NEW g \in Code, NEW q \in Req, Send(q, g) PROVE Slots'
  BY <1>2 DEF Send
<1>3. ASSUME NEW q \in Req, Reply(q) PROVE Slots'
  <2>1. Finish(q) BY <1>3 DEF Reply, Granted, Refused, Failed, LoseAnswer
  <2> QED BY <2>1 DEF Finish
<1>4. ASSUME NEW q \in Req, Serve(q) PROVE Slots'
  <2>1. /\ pc[q] # "idle" /\ pc[q] # "granted"
        /\ arg' = arg
        /\ \E s \in Steps \ {"idle"} : pc' = [pc EXCEPT ![q] = s]
    BY <1>4 DEF Serve, TakeCode, ConsumeRefresh, ConsumeMissing, RevokeFamily,
                FindUser, IssueTokens, RequestFails, Become, Checked, Steps
  <2>2. \E g \in Code : fam' = [fam EXCEPT ![q] = g]
    <3>1. CASE ConsumeRefresh(q)
      <4>1. PICK w \in rows : fam' = [fam EXCEPT ![q] = w.fam]
        BY <3>1 DEF ConsumeRefresh
      <4> QED BY <4>1 DEF Refresh
    <3>2. CASE fam' = fam
      <4>1. fam[q] \in Code /\ fam' = [fam EXCEPT ![q] = fam[q]] BY <2>1, <3>2
      <4> QED BY <4>1
    <3> QED BY <1>4, <3>1, <3>2 DEF Serve, TakeCode, ConsumeMissing, RevokeFamily,
                                    FindUser, IssueTokens, RequestFails
  <2>3. new' = new \/ (pc'[q] = "granted" /\ \E t \in Tok : new' = [new EXCEPT ![q] = t])
    BY <1>4 DEF Serve, TakeCode, ConsumeRefresh, ConsumeMissing, RevokeFamily,
                FindUser, IssueTokens, RequestFails, Become
  <2> QED BY <2>1, <2>2, <2>3
<1>5. ASSUME NEW w \in rows, TokenExpires(w) PROVE Slots'
  BY <1>5 DEF TokenExpires
<1>6. CASE ApproveFull BY <1>6 DEF ApproveFull
<1>7. CASE Account
  BY <1>7 DEF Account, RevokeConnection, DisableUser, RevokeAllUserTokens,
              DeactivateFails, EnableUser, DeleteUser
<1>8. CASE RestartHub BY <1>8 DEF RestartHub
<1>9. CASE UNCHANGED vars BY <1>9 DEF vars
<1> QED BY <1>1, <1>2, <1>3, <1>4, <1>5, <1>6, <1>7, <1>8, <1>9 DEF Next

\* No token is issued twice.
LEMMA StepUnique == TypeOK /\ TokUnique /\ [Next]_vars => TokUnique'
<1> SUFFICES ASSUME TypeOK, TokUnique, [Next]_vars PROVE TokUnique' OBVIOUS
<1>1. CASE rows' \subseteq rows BY <1>1 DEF TokUnique
<1>2. ASSUME NEW q \in Req, ConsumeRefresh(q) PROVE TokUnique'
  <2>1. PICK w \in rows :
           \/ rows' \subseteq rows
           \/ rows' = (rows \ {w}) \cup {[w EXCEPT !.consumed = TRUE]}
    BY <1>2 DEF ConsumeRefresh
  <2>2. [w EXCEPT !.consumed = TRUE].tok = w.tok BY DEF TypeOK, Refresh
  <2> QED BY <1>1, <2>1, <2>2 DEF TokUnique
<1>3. ASSUME NEW q \in Req, IssueTokens(q) PROVE TokUnique'
  <2>1. PICK t \in Tok :
           /\ Fresh(t)
           /\ rows' = rows \cup {[tok |-> t, fam |-> fam[q], consumed |-> FALSE]}
    BY <1>3 DEF IssueTokens
  <2>2. \A w \in rows : w.tok # t BY <2>1 DEF Fresh
  <2>3. PICK n : n.tok = t /\ rows' = rows \cup {n} BY <2>1
  <2> QED BY <2>2, <2>3 DEF TokUnique
<1>4. \/ rows' \subseteq rows
      \/ \E q \in Req : ConsumeRefresh(q) \/ IssueTokens(q)
  BY DEF Next, vars, Approve, CodeExpires, Send, Reply, Granted, Refused, Failed,
         LoseAnswer, Finish, Serve, TakeCode, ConsumeMissing, RevokeFamily,
         FindUser, RequestFails, TokenExpires, ApproveFull, Account,
         RevokeConnection, DisableUser, RevokeAllUserTokens, DeactivateFails,
         EnableUser, DeleteUser, DeleteRows, RestartHub
<1> QED BY <1>1, <1>2, <1>3, <1>4

\* the step adds no code, no live row and no request that owes a token
Shrinks ==
    /\ codes' \subseteq codes
    /\ rows' \subseteq rows
    /\ \A q \in Req : Rotating(q)' => Rotating(q) /\ fam'[q] = fam[q]

\* Four actions hand the right to a token on; every other step only shrinks.
LEMMA HandOns ==
    TypeOK /\ [Next]_vars =>
        \/ Shrinks
        \/ \E g \in Code : Approve(g)
        \/ \E q \in Req : TakeCode(q) \/ ConsumeRefresh(q) \/ IssueTokens(q)
<1> DEFINE HandsOn ==
       \/ \E g \in Code : Approve(g)
       \/ \E q \in Req : TakeCode(q) \/ ConsumeRefresh(q) \/ IssueTokens(q)
<1> SUFFICES ASSUME TypeOK, [Next]_vars PROVE Shrinks \/ HandsOn OBVIOUS
<1> USE DEF TypeOK, Shrinks, Rotating
<1>1. ASSUME NEW g \in Code, CodeExpires(g) PROVE Shrinks
  BY <1>1 DEF CodeExpires
<1>2. ASSUME NEW g \in Code, NEW q \in Req, Send(q, g) PROVE Shrinks
  BY <1>2 DEF Send
<1>3. ASSUME NEW q \in Req, Reply(q) PROVE Shrinks
  <2>1. Finish(q) BY <1>3 DEF Reply, Granted, Refused, Failed, LoseAnswer
  <2> QED BY <2>1 DEF Finish
<1>4. ASSUME NEW q \in Req,
             ConsumeMissing(q) \/ RevokeFamily(q) \/ FindUser(q) \/ RequestFails(q)
      PROVE  Shrinks
  BY <1>4 DEF ConsumeMissing, RevokeFamily, FindUser, RequestFails, Become
<1>5. ASSUME NEW w \in rows, TokenExpires(w) PROVE Shrinks
  BY <1>5 DEF TokenExpires
<1>6. CASE ApproveFull \/ Account \/ RestartHub
  BY <1>6 DEF ApproveFull, Account, RevokeConnection, DisableUser,
              RevokeAllUserTokens, DeactivateFails, EnableUser, DeleteUser,
              DeleteRows, RestartHub
<1>7. CASE UNCHANGED vars BY <1>7 DEF vars
<1>8. ASSUME NEW q \in Req, Serve(q) PROVE Shrinks \/ HandsOn
  BY <1>4, <1>8 DEF Serve
<1>9. ASSUME NEW g \in Code, Approve(g) PROVE HandsOn
  BY <1>9
<1> HIDE DEF TypeOK, Shrinks, Rotating, HandsOn
<1> QED BY <1>1, <1>2, <1>3, <1>5, <1>6, <1>7, <1>8, <1>9 DEF Next

\* What consuming a token does to its row and its request.
LEMMA Consumed ==
    ASSUME TypeOK, NEW q \in Req, ConsumeRefresh(q)
    PROVE  \E w \in rows :
             /\ w.tok = arg[q]
             /\ fam' = [fam EXCEPT ![q] = w.fam]
             /\ codes' = codes
             /\ pc[q] = "present"
             /\ \/ rows' \subseteq rows /\ ~Rotating(q)'
                \/ ~w.consumed /\ \E v : /\ rows' = (rows \ {w}) \cup {v}
                                         /\ v.fam = w.fam /\ v.consumed
             /\ \A p \in Req \ {q} : pc'[p] = pc[p] /\ fam'[p] = fam[p]
<1> USE DEF TypeOK
<1>1. PICK w \in rows :
         /\ w.tok = arg[q]
         /\ fam' = [fam EXCEPT ![q] = w.fam]
         /\ \/ rows' \subseteq rows /\ (Become(q, "refused") \/ Become(q, "revoke"))
            \/ /\ ~w.consumed
               /\ rows' = (rows \ {w}) \cup {[w EXCEPT !.consumed = TRUE]}
               /\ Checked(q)
  BY DEF ConsumeRefresh, FirstUse
<1>2. LET v == [w EXCEPT !.consumed = TRUE] IN v.fam = w.fam /\ v.consumed
  BY DEF Refresh
<1>3. \A p \in Req \ {q} : pc'[p] = pc[p] /\ fam'[p] = fam[p]
  BY <1>1 DEF Become, Checked
<1>4. Become(q, "refused") \/ Become(q, "revoke") => ~Rotating(q)'
  BY DEF Become, Rotating
<1>5. codes' = codes /\ pc[q] = "present" BY DEF ConsumeRefresh
<1> QED BY <1>1, <1>2, <1>3, <1>4, <1>5

\* The right to the family's next token is handed on, never copied.
LEMMA StepOneLive ==
    TypeOK /\ Slots /\ OneLivePerFamily /\ [Next]_vars => OneLivePerFamily'
<1> SUFFICES ASSUME TypeOK, Slots, OneLivePerFamily, [Next]_vars
             PROVE  OneLivePerFamily'
  OBVIOUS
<1> USE DEF OneLivePerFamily, Live
<1>1. CASE Shrinks BY <1>1 DEF Shrinks
<1>2. ASSUME NEW g \in Code, Approve(g) PROVE OneLivePerFamily'
  <2>1. /\ codes' \subseteq codes \cup {g} /\ rows' = rows
        /\ \A w \in rows : w.fam # g
        /\ \A q \in Req : fam[q] # g /\ fam'[q] = fam[q] /\ pc'[q] = pc[q]
    BY <1>2 DEF Approve, Unused
  <2> QED BY <2>1 DEF Rotating
<1>3. ASSUME NEW q \in Req, TakeCode(q) PROVE OneLivePerFamily'
  <2>1. /\ codes' = codes \ {fam[q]} /\ rows' = rows /\ fam' = fam
        /\ Rotating(q)' => fam[q] \in codes
        /\ \A p \in Req \ {q} : pc'[p] = pc[p]
    BY <1>3 DEF TakeCode, RemoveCode, Checked, Become, Rotating, TypeOK
  <2>2. \A p \in Req : Rotating(p)' =>
           \/ Rotating(p) /\ p # q
           \/ p = q /\ fam[q] \in codes
    BY <2>1 DEF Rotating
  <2> QED BY <2>1, <2>2
<1>4. ASSUME NEW q \in Req, ConsumeRefresh(q) PROVE OneLivePerFamily'
  <2>1. PICK w \in rows :
           /\ fam' = [fam EXCEPT ![q] = w.fam]
           /\ codes' = codes
           /\ pc[q] = "present"
           /\ \/ rows' \subseteq rows /\ ~Rotating(q)'
              \/ ~w.consumed /\ \E v : /\ rows' = (rows \ {w}) \cup {v}
                                       /\ v.fam = w.fam /\ v.consumed
           /\ \A p \in Req \ {q} : pc'[p] = pc[p] /\ fam'[p] = fam[p]
    BY <1>4, Consumed
  <2>2. \A p \in Req \ {q} : Rotating(p)' <=> Rotating(p)
    BY <2>1 DEF Rotating
  <2>3. CASE rows' \subseteq rows /\ ~Rotating(q)' BY <2>1, <2>2, <2>3
  <2>4. ASSUME ~w.consumed, NEW v, rows' = (rows \ {w}) \cup {v}, v.fam = w.fam,
               v.consumed
        PROVE  OneLivePerFamily'
    <3>1. fam'[q] = w.fam BY <2>1 DEF TypeOK
    <3>2. w.fam \notin codes /\ \A p \in Req : Rotating(p) => fam[p] # w.fam
      BY <2>4
    <3>3. \A x \in rows' : ~x.consumed => x \in rows /\ x.fam # w.fam
      BY <2>4
    <3> QED BY <2>1, <2>2, <3>1, <3>2, <3>3
  <2> QED BY <2>1, <2>3, <2>4
<1>5. ASSUME NEW q \in Req, IssueTokens(q) PROVE OneLivePerFamily'
  <2>1. Rotating(q) /\ ~Rotating(q)' /\ fam' = fam /\ codes' = codes
    BY <1>5 DEF IssueTokens, Become, Rotating, TypeOK
  <2>2. \A p \in Req \ {q} : Rotating(p)' <=> Rotating(p)
    BY <1>5 DEF IssueTokens, Become, Rotating, TypeOK
  <2>3. PICK n : n.fam = fam[q] /\ rows' = rows \cup {n}
    <3>1. PICK t \in Tok :
             rows' = rows \cup {[tok |-> t, fam |-> fam[q], consumed |-> FALSE]}
      BY <1>5 DEF IssueTokens
    <3> QED BY <3>1
  <2> QED BY <2>1, <2>2, <2>3
<1> QED BY <1>1, <1>2, <1>3, <1>4, <1>5, HandOns

\* A spent family has nothing to hand on.
LEMMA StepSpent ==
    TypeOK /\ [Next]_vars => \A g \in Code : Spent(g) => Spent(g)' \/ Approve(g)
<1> SUFFICES ASSUME TypeOK, [Next]_vars, NEW g \in Code, Spent(g), ~Approve(g)
             PROVE  Spent(g)'
  OBVIOUS
<1> USE DEF Spent, Live
<1>1. CASE Shrinks BY <1>1 DEF Shrinks
<1>2. ASSUME NEW h \in Code, Approve(h) PROVE Spent(g)'
  <2>1. h # g BY <1>2
  <2> QED BY <1>2, <2>1 DEF Approve, Rotating
<1>3. ASSUME NEW q \in Req, TakeCode(q) PROVE Spent(g)'
  <2>1. /\ codes' = codes \ {fam[q]} /\ rows' = rows /\ fam' = fam
        /\ Rotating(q)' => fam[q] \in codes
        /\ \A p \in Req \ {q} : pc'[p] = pc[p]
    BY <1>3 DEF TakeCode, RemoveCode, Checked, Become, Rotating, TypeOK
  <2> QED BY <2>1 DEF Rotating
<1>4. ASSUME NEW q \in Req, ConsumeRefresh(q) PROVE Spent(g)'
  <2>1. PICK w \in rows :
           /\ fam' = [fam EXCEPT ![q] = w.fam]
           /\ codes' = codes
           /\ \/ rows' \subseteq rows /\ ~Rotating(q)'
              \/ ~w.consumed /\ \E v : /\ rows' = (rows \ {w}) \cup {v}
                                       /\ v.fam = w.fam /\ v.consumed
           /\ \A p \in Req \ {q} : pc'[p] = pc[p] /\ fam'[p] = fam[p]
    BY <1>4, Consumed
  <2>2. \A p \in Req \ {q} : Rotating(p)' <=> Rotating(p)
    BY <2>1 DEF Rotating
  <2>3. CASE rows' \subseteq rows /\ ~Rotating(q)' BY <2>1, <2>2, <2>3
  <2>4. ASSUME ~w.consumed, NEW v, rows' = (rows \ {w}) \cup {v}, v.consumed
        PROVE  Spent(g)'
    <3>1. fam'[q] = w.fam /\ w.fam # g BY <2>1, <2>4 DEF TypeOK
    <3> QED BY <2>1, <2>2, <2>4, <3>1
  <2> QED BY <2>1, <2>3, <2>4
<1>5. ASSUME NEW q \in Req, IssueTokens(q) PROVE Spent(g)'
  <2>1. Rotating(q) /\ fam' = fam /\ codes' = codes
    BY <1>5 DEF IssueTokens, Rotating
  <2>2. \A p \in Req : Rotating(p)' => Rotating(p)
    BY <1>5 DEF IssueTokens, Become, Rotating, TypeOK
  <2>3. PICK n : n.fam = fam[q] /\ rows' = rows \cup {n}
    <3>1. PICK t \in Tok :
             rows' = rows \cup {[tok |-> t, fam |-> fam[q], consumed |-> FALSE]}
      BY <1>5 DEF IssueTokens
    <3> QED BY <3>1
  <2> QED BY <2>1, <2>2, <2>3
<1> QED BY <1>1, <1>2, <1>3, <1>4, <1>5, HandOns

\* A deleted account cut all its families off, and approves no new one.
LEMMA StepGone == TypeOK /\ GoneIsCut /\ [Next]_vars => GoneIsCut'
<1> SUFFICES ASSUME TypeOK, GoneIsCut, [Next]_vars PROVE GoneIsCut' OBVIOUS
<1> USE DEF GoneIsCut
<1>1. ASSUME NEW g \in Code, Approve(g) PROVE GoneIsCut' BY <1>1 DEF Approve
<1>2. CASE Account
  BY <1>2 DEF Account, RevokeConnection, DisableUser, RevokeAllUserTokens,
              DeactivateFails, EnableUser, DeleteUser, DeleteRows
<1>3. CASE UNCHANGED <<user, cut>> BY <1>3
<1>4. ASSUME NEW q \in Req, Serve(q) \/ Reply(q) PROVE UNCHANGED <<user, cut>>
  BY <1>4 DEF Serve, TakeCode, ConsumeRefresh, ConsumeMissing, RevokeFamily,
              FindUser, IssueTokens, RequestFails, Reply, Granted, Refused,
              Failed, LoseAnswer, Finish
<1>5. ASSUME NEW g \in Code, CodeExpires(g) \/ \E q \in Req : Send(q, g)
      PROVE  UNCHANGED <<user, cut>>
  BY <1>5 DEF CodeExpires, Send
<1>6. ASSUME NEW w \in rows, TokenExpires(w) PROVE UNCHANGED <<user, cut>>
  BY <1>6 DEF TokenExpires
<1>7. CASE ApproveFull \/ RestartHub \/ UNCHANGED vars
  BY <1>7 DEF ApproveFull, RestartHub, vars
<1> QED BY <1>1, <1>2, <1>3, <1>4, <1>5, <1>6, <1>7 DEF Next

\* Tokens keep their family as they move between rows, requests and clients.
LEMMA StepProvenance ==
    TypeOK /\ Slots /\ Provenance /\ [Next]_vars => Provenance'
<1> SUFFICES ASSUME TypeOK, Slots, Provenance, [Next]_vars PROVE Provenance'
  OBVIOUS
<1> USE TokenAssumption DEF TypeOK, Provenance
<1>0. \A w \in rows : w.tok \in Tok BY DEF Refresh
<1>1. ASSUME NEW g \in Code, Approve(g) \/ CodeExpires(g) PROVE Provenance'
  BY <1>0, <1>1 DEF Approve, CodeExpires
<1>2. ASSUME NEW g \in Code, NEW q \in Req, Send(q, g) PROVE Provenance'
  <2>1. new[q] = None BY <1>2 DEF Send, Slots
  <2> QED BY <1>0, <1>2, <2>1 DEF Send
<1>3. ASSUME NEW q \in Req, Reply(q) PROVE Provenance'
  <2>1. CASE Granted(q) BY <1>0, <2>1 DEF Granted, Finish
  <2>2. CASE Refused(q) BY <1>0, <2>2 DEF Refused, Finish
  <2>3. CASE Failed(q) \/ LoseAnswer(q)
    BY <1>0, <2>3 DEF Failed, LoseAnswer, Finish
  <2> QED BY <1>3, <2>1, <2>2, <2>3 DEF Reply
<1>4. ASSUME NEW q \in Req, ConsumeRefresh(q) PROVE Provenance'
  <2>1. PICK w \in rows :
           /\ w.tok = arg[q]
           /\ fam' = [fam EXCEPT ![q] = w.fam]
           /\ rows' \subseteq rows \cup {[w EXCEPT !.consumed = TRUE]}
    BY <1>4 DEF ConsumeRefresh
  <2>2. w.fam = fam[q] BY <2>1
  <2>3. PICK v : v.tok = w.tok /\ v.fam = w.fam /\ rows' \subseteq rows \cup {v}
    <3>1. LET u == [w EXCEPT !.consumed = TRUE] IN u.tok = w.tok /\ u.fam = w.fam
      BY DEF Refresh
    <3> QED BY <2>1, <3>1
  <2>4. fam' = fam BY <2>1, <2>2
  <2>5. held' = held /\ arg' = arg /\ new' = new BY <1>4 DEF ConsumeRefresh
  <2> QED BY <2>1, <2>3, <2>4, <2>5
<1>5. ASSUME NEW q \in Req, IssueTokens(q) PROVE Provenance'
  <2>1. PICK t \in Tok :
           /\ Fresh(t)
           /\ rows' = rows \cup {[tok |-> t, fam |-> fam[q], consumed |-> FALSE]}
           /\ new' = [new EXCEPT ![q] = t]
    BY <1>5 DEF IssueTokens
  <2>2. PICK n : n.tok = t /\ n.fam = fam[q] /\ rows' = rows \cup {n} BY <2>1
  <2>3. held' = held /\ arg' = arg /\ fam' = fam BY <1>5 DEF IssueTokens
  <2>4. /\ \A w \in rows : w.tok # t
        /\ \A g \in Code : held[g] # t
        /\ \A p \in Req : arg[p] # t /\ new[p] # t
    BY <2>1 DEF Fresh
  <2> QED BY <2>1, <2>2, <2>3, <2>4
<1>6. CASE rows' \subseteq rows /\ UNCHANGED <<held, fam, arg, new>> BY <1>6
<1>7. ASSUME NEW q \in Req, TakeCode(q) \/ ConsumeMissing(q) \/ RevokeFamily(q)
                               \/ FindUser(q) \/ RequestFails(q)
      PROVE  Provenance'
  BY <1>6, <1>7 DEF TakeCode, ConsumeMissing, RevokeFamily, FindUser, RequestFails
<1>8. ASSUME NEW w \in rows, TokenExpires(w) PROVE Provenance'
  BY <1>6, <1>8 DEF TokenExpires
<1>9. CASE ApproveFull \/ Account
  BY <1>6, <1>9 DEF ApproveFull, Account, RevokeConnection, DisableUser,
     RevokeAllUserTokens, DeactivateFails, EnableUser, DeleteUser, DeleteRows
<1>10. CASE RestartHub BY <1>0, <1>10 DEF RestartHub
<1>11. CASE UNCHANGED vars BY <1>6, <1>11 DEF vars
<1>12. ASSUME NEW q \in Req, Serve(q) PROVE Provenance'
  BY <1>4, <1>5, <1>7, <1>12 DEF Serve
<1> HIDE DEF TypeOK, Provenance
<1> QED BY <1>1, <1>2, <1>3, <1>8, <1>9, <1>10, <1>11, <1>12 DEF Next

\* Serving one request touches nothing that another connection relies on.
LEMMA OthersKept ==
    ASSUME TypeOK, Provenance, NEW q \in Req, Serve(q)
    PROVE  /\ UNCHANGED <<fam, held, cut, oldCodes, arg>>
           /\ codes \ {fam[q]} \subseteq codes'
           /\ \A w \in rows : w.fam # fam[q] => w \in rows'
           /\ \A t \in oldToks \ oldToks' : Fresh(t)
           /\ \A p \in Req \ {q} : pc'[p] = pc[p] /\ new'[p] = new[p]
<1> DEFINE Goal ==
           /\ UNCHANGED <<fam, held, cut, oldCodes, arg>>
           /\ codes \ {fam[q]} \subseteq codes'
           /\ \A w \in rows : w.fam # fam[q] => w \in rows'
           /\ \A t \in oldToks \ oldToks' : Fresh(t)
           /\ \A p \in Req \ {q} : pc'[p] = pc[p] /\ new'[p] = new[p]
<1> USE DEF TypeOK, Become, Checked
<1>1. CASE TakeCode(q) BY <1>1 DEF TakeCode, RemoveCode
<1>2. CASE ConsumeRefresh(q)
  <2>1. PICK w \in rows : /\ w.tok = arg[q]
                          /\ fam' = [fam EXCEPT ![q] = w.fam]
                          /\ rows \ {w} \subseteq rows'
    BY <1>2 DEF ConsumeRefresh
  <2>2. w.fam = fam[q] BY <2>1 DEF Provenance
  <2>3. fam' = fam BY <2>1, <2>2
  <2> QED BY <1>2, <2>1, <2>2, <2>3 DEF ConsumeRefresh
<1>3. CASE ConsumeMissing(q) \/ RevokeFamily(q) \/ FindUser(q) \/ RequestFails(q)
  BY <1>3 DEF ConsumeMissing, RevokeFamily, FindUser, RequestFails
<1>4. CASE IssueTokens(q)
  <2>1. PICK t \in Tok : /\ Fresh(t)
                         /\ rows \subseteq rows'
                         /\ oldToks' = oldToks \ {t}
                         /\ new' = [new EXCEPT ![q] = t]
    BY <1>4 DEF IssueTokens
  <2>2. \A u \in oldToks \ oldToks' : Fresh(u) BY <2>1
  <2>3. \A p \in Req \ {q} : pc'[p] = pc[p] /\ new'[p] = new[p]
    BY <1>4, <2>1 DEF IssueTokens
  <2> QED BY <1>4, <2>1, <2>2, <2>3 DEF IssueTokens
<1> QED BY <1>1, <1>2, <1>3, <1>4 DEF Serve

\* What a connection nobody cut off presents is accepted, or has expired.
LEMMA ServedStays ==
    ASSUME IInv, ~Retry, ~Faults, NEW q \in Req, Serve(q),
           fam[q] \in Code \ cut, Served(q)
    PROVE  Served(q)'
<1> USE DEF IInv, TypeOK, Become
<1>0. UNCHANGED <<fam, held, arg, oldCodes>> BY OthersKept
<1>1. user # "gone" BY DEF GoneIsCut
<1>2. CASE TakeCode(q)
  <2>1. fam[q] \in codes \cup oldCodes BY <1>2 DEF TakeCode, Served, Usable
  <2>2. pc'[q] = "user" \/ (pc'[q] = "refused" /\ fam[q] \in oldCodes)
    BY <1>2, <2>1 DEF TakeCode, Checked
  <2> QED BY <1>0, <1>2, <2>2 DEF TakeCode, Served, Expired
<1>3. CASE ConsumeRefresh(q)
  <2>1. PICK w \in rows :
           /\ w.tok = arg[q]
           /\ \/ w.tok \in oldToks /\ pc'[q] = "refused"
              \/ w.tok \notin oldToks /\ w.consumed
              \/ pc'[q] = "user"
    BY <1>3 DEF ConsumeRefresh, FirstUse, Checked
  <2>2. arg[q] # AuthCode BY <2>1, TokenAssumption DEF Refresh
  <2>3. arg[q] \in oldToks \/ \E v \in rows : ~v.consumed /\ v.tok = arg[q]
    BY <1>3, <2>2 DEF ConsumeRefresh, Served, Usable, Live
  <2>4. w.tok \in oldToks \/ ~w.consumed BY <2>1, <2>3 DEF TokUnique
  <2>5. pc'[q] = "user" \/ (pc'[q] = "refused" /\ arg[q] \in oldToks)
    BY <2>1, <2>4
  <2>6. oldToks' = oldToks BY <1>3 DEF ConsumeRefresh
  <2> QED BY <1>0, <2>2, <2>5, <2>6 DEF Served, Expired
<1>4. CASE ConsumeMissing(q)
  <2>1. arg[q] \in oldToks BY <1>4 DEF ConsumeMissing, Served, Usable, Live
  <2> QED BY <1>0, <1>4, <2>1 DEF ConsumeMissing, Served, Expired
<1>5. CASE FindUser(q)
  BY <1>0, <1>1, <1>5 DEF FindUser, Served
<1>6. CASE IssueTokens(q)
  <2>1. PICK t \in Tok :
           /\ rows' = rows \cup {[tok |-> t, fam |-> fam[q], consumed |-> FALSE]}
           /\ new' = [new EXCEPT ![q] = t]
    BY <1>6 DEF IssueTokens
  <2>2. PICK n \in rows' : n.tok = t /\ n.fam = fam[q] /\ ~n.consumed
    <3> DEFINE u == [tok |-> t, fam |-> fam[q], consumed |-> FALSE]
    <3>1. u.tok = t /\ u.fam = fam[q] /\ ~u.consumed OBVIOUS
    <3>2. u \in rows' BY <2>1
    <3> HIDE DEF u
    <3> QED BY <3>1, <3>2
  <2>3. new'[q] = t /\ t # AuthCode BY <2>1, TokenAssumption
  <2>4. Usable(fam[q], t)' BY <1>0, <2>2, <2>3 DEF Usable, Live
  <2>5. pc'[q] = "granted" BY <1>6 DEF IssueTokens
  <2> QED BY <1>0, <2>3, <2>4, <2>5 DEF Served
<1>7. ~RevokeFamily(q) /\ ~RequestFails(q)
  BY <1>1 DEF RevokeFamily, RequestFails, Served
<1> QED BY <1>2, <1>3, <1>4, <1>5, <1>6, <1>7 DEF Serve

\* The step leaves requests and clients alone and forgets nothing.
Harmless ==
    /\ UNCHANGED <<pc, fam, arg, new, held, cut>>
    /\ codes \cup oldCodes \subseteq (codes \cup oldCodes)'
    /\ oldCodes \subseteq oldCodes'
    /\ oldToks \subseteq oldToks'
    /\ rows \subseteq rows'

\* A connection that nobody cut off stays in the hands of its client, step by
\* step, whatever the other connections do.
LEMMA StepHonest == IInv /\ [Next]_vars => HonestInv'
<1> SUFFICES ASSUME IInv, [Next]_vars, ~Retry, ~Faults
             PROVE  OneEach' /\ IdleReady' /\ AllServed'
  BY DEF HonestInv
<1> DEFINE Goal == OneEach' /\ IdleReady' /\ AllServed'
<1>0. OneEach /\ IdleReady /\ AllServed BY DEF IInv, HonestInv
<1>1. CASE Harmless
  <2>1. OneEach' BY <1>0, <1>1 DEF OneEach, Harmless
  <2>2. \A g \in Code : \A x : Usable(g, x) => Usable(g, x)'
    BY <1>1 DEF Harmless, Usable, Live
  <2>3. IdleReady' BY <1>0, <1>1, <2>2 DEF IdleReady, Outstanding, Harmless
  <2>4. AllServed' BY <1>0, <1>1, <2>2 DEF AllServed, Served, Expired, Harmless
  <2> QED BY <2>1, <2>3, <2>4
<1>2. CASE cut' = Code /\ UNCHANGED fam
  BY <1>0, <1>2 DEF OneEach, IdleReady, AllServed
<1>3. ASSUME NEW g \in Code, Approve(g) PROVE Goal
  <2>1. /\ UNCHANGED <<pc, fam, arg, new, rows, oldToks>>
        /\ codes \cup oldCodes \subseteq (codes \cup oldCodes)'
        /\ g \in codes'
        /\ held' = [held EXCEPT ![g] = AuthCode]
        /\ cut' = cut \ {g}
        /\ \A q \in Req : fam[q] # g
    BY <1>3 DEF Approve, Unused, IInv, TypeOK
  <2>2. \A h \in Code : \A x : Usable(h, x) => Usable(h, x)'
    BY <2>1 DEF Usable, Live
  <2>3. held'[g] = AuthCode /\ \A h \in Code \ {g} : held'[h] = held[h]
    BY <2>1 DEF IInv, TypeOK
  <2>4. Usable(g, AuthCode)' BY <2>1 DEF Usable
  <2>5. IdleReady' BY <1>0, <2>1, <2>2, <2>3, <2>4 DEF IdleReady, Outstanding
  <2>6. \A q \in Req : Expired(q) => Expired(q)'
    <3> SUFFICES ASSUME NEW q \in Req, Expired(q) PROVE Expired(q)' OBVIOUS
    <3>1. fam[q] # g BY <2>1
    <3>2. oldCodes' = oldCodes \ {g} BY <1>3 DEF Approve
    <3> QED BY <2>1, <3>1, <3>2 DEF Expired
  <2>7. AllServed' BY <1>0, <2>1, <2>2, <2>3, <2>6 DEF AllServed, Served
  <2>8. OneEach' BY <1>0, <2>1 DEF OneEach
  <2> QED BY <2>5, <2>7, <2>8
<1>4. ASSUME NEW g \in Code, NEW q \in Req, Send(q, g) PROVE Goal
  <2>1. /\ UNCHANGED <<codes, rows, oldCodes, oldToks, new, held, cut>>
        /\ held[g] # None
        /\ \A p \in Req : fam[p] # g
        /\ pc'[q] = "present" /\ fam'[q] = g /\ arg'[q] = held[g]
        /\ \A p \in Req \ {q} : pc'[p] = pc[p] /\ fam'[p] = fam[p] /\ arg'[p] = arg[p]
    BY <1>4 DEF Send, Outstanding, IInv, TypeOK
  <2>2. \A h, x : Usable(h, x)' <=> Usable(h, x) BY <2>1 DEF Usable, Live
  <2>3. OneEach' BY <1>0, <2>1 DEF OneEach
  <2>4. IdleReady'
    <3> SUFFICES ASSUME NEW h \in Code \ cut, held[h] # None, Outstanding(h)' = {}
                 PROVE  Usable(h, held[h])
      BY <2>1, <2>2 DEF IdleReady
    <3>1. fam[q] = None
      BY <1>4 DEF Send, IInv, Slots
    <3>2. Outstanding(h) = {}
      BY <2>1, <3>1, TokenAssumption DEF Outstanding
    <3> QED BY <1>0, <3>2 DEF IdleReady
  <2>5. AllServed'
    <3> SUFFICES ASSUME NEW p \in Req, fam'[p] \in Code \ cut PROVE Served(p)'
      BY <2>1 DEF AllServed
    <3>1. CASE p = q
      <4>1. Usable(g, held[g]) BY <1>0, <2>1, <3>1 DEF IdleReady, Outstanding
      <4> QED BY <2>1, <2>2, <3>1, <4>1 DEF Served
    <3>2. CASE p # q
      <4>1. Served(p) BY <1>0, <2>1, <3>2 DEF AllServed
      <4> QED BY <2>1, <2>2, <3>2, <4>1 DEF Served, Expired
    <3> QED BY <3>1, <3>2
  <2> QED BY <2>3, <2>4, <2>5
<1>5. ASSUME NEW q \in Req, Reply(q) PROVE Goal
  <2> DEFINE g == fam[q]
  <2>1. /\ UNCHANGED <<codes, rows, oldCodes, oldToks, cut>>
        /\ pc'[q] = "idle" /\ fam'[q] = None
        /\ \A p \in Req \ {q} : /\ pc'[p] = pc[p] /\ fam'[p] = fam[p]
                                /\ arg'[p] = arg[p] /\ new'[p] = new[p]
    BY <1>5 DEF Reply, Granted, Refused, Failed, LoseAnswer, Finish, IInv, TypeOK
  <2>2. g \in Code /\ g # None
    BY <1>5, TokenAssumption
       DEF Reply, Granted, Refused, Failed, LoseAnswer, IInv, TypeOK, Slots
  <2>3. \A h \in Code \ {g} : held'[h] = held[h]
    BY <1>5, <2>2 DEF Reply, Granted, Refused, Failed, LoseAnswer, IInv, TypeOK
  <2>4. \A h, x : Usable(h, x)' <=> Usable(h, x) BY <2>1 DEF Usable, Live
  <2>5. OneEach' BY <1>0, <2>1 DEF OneEach
  <2>6. g \notin cut => held'[g] = None \/ Usable(g, held'[g])
    <3> SUFFICES ASSUME g \notin cut PROVE held'[g] = None \/ Usable(g, held'[g])
      OBVIOUS
    <3>1. Served(q) BY <1>0, <2>2 DEF AllServed
    <3>2. CASE Granted(q) BY <2>2, <3>1, <3>2 DEF Granted, Served, IInv, TypeOK
    <3>3. CASE Refused(q) BY <2>2, <3>1, <3>3 DEF Refused, Served, IInv, TypeOK
    <3>4. ~Failed(q) /\ ~LoseAnswer(q) BY <3>1 DEF Failed, LoseAnswer, Served
    <3> QED BY <1>5, <3>2, <3>3, <3>4 DEF Reply
  <2> HIDE DEF g
  <2>7. IdleReady'
    <3> SUFFICES ASSUME NEW h \in Code \ cut, held'[h] # None, Outstanding(h)' = {}
                 PROVE  Usable(h, held'[h])
      BY <2>1, <2>4 DEF IdleReady
    <3>1. CASE h = g BY <2>6, <3>1
    <3>2. CASE h # g
      <4>1. Outstanding(h) = {} BY <2>1, <3>2 DEF Outstanding, g
      <4> QED BY <1>0, <2>3, <3>2, <4>1 DEF IdleReady
    <3> QED BY <3>1, <3>2
  <2>8. AllServed'
    <3> SUFFICES ASSUME NEW p \in Req, fam'[p] \in Code \ cut PROVE Served(p)'
      BY <2>1 DEF AllServed
    <3>1. p # q BY <2>1, TokenAssumption
    <3>2. Served(p) BY <1>0, <2>1, <3>1 DEF AllServed
    <3>3. fam[p] # g BY <1>0, <2>2, <3>1 DEF OneEach, g
    <3>4. held'[fam[p]] = held[fam[p]] BY <2>1, <2>3, <3>1, <3>3
    <3> QED BY <2>1, <2>4, <3>1, <3>2, <3>4 DEF Served, Expired
  <2> QED BY <2>5, <2>7, <2>8
<1>6. ASSUME NEW q \in Req, Serve(q) PROVE Goal
  <2>0. IInv BY DEF IInv
  <2>1. /\ UNCHANGED <<fam, held, cut, oldCodes, arg>>
        /\ codes \ {fam[q]} \subseteq codes'
        /\ \A w \in rows : w.fam # fam[q] => w \in rows'
        /\ \A t \in oldToks \ oldToks' : Fresh(t)
        /\ \A p \in Req \ {q} : pc'[p] = pc[p] /\ new'[p] = new[p]
    BY <1>6, OthersKept DEF IInv
  <2>2. \A h \in Code \ {fam[q]} : \A x : Usable(h, x) /\ ~Fresh(x) => Usable(h, x)'
    BY <2>1 DEF Usable, Live
  <2>3. OneEach' BY <1>0, <2>1 DEF OneEach
  <2>4. IdleReady'
    <3> SUFFICES ASSUME NEW h \in Code \ cut, held[h] # None, Outstanding(h) = {}
                 PROVE  Usable(h, held[h])'
      BY <2>1 DEF IdleReady, Outstanding
    <3>1. h # fam[q] BY DEF Outstanding
    <3>2. Usable(h, held[h]) BY <1>0 DEF IdleReady
    <3>3. ~Fresh(held[h]) BY DEF Fresh
    <3>4. held'[h] = held[h] BY <2>1
    <3> QED BY <2>2, <3>1, <3>2, <3>3, <3>4
  <2>5. AllServed'
    <3> SUFFICES ASSUME NEW p \in Req, fam[p] \in Code \ cut PROVE Served(p)'
      BY <2>1 DEF AllServed
    <3>1. Served(p) BY <1>0 DEF AllServed
    <3>2. CASE p = q BY <1>6, <2>0, <3>1, <3>2, ServedStays
    <3>3. CASE p # q
      <4>1. fam[p] # fam[q] BY <1>0, <3>3, TokenAssumption DEF OneEach
      <4>2. ~Fresh(arg[p]) /\ ~Fresh(new[p]) BY DEF Fresh
      <4>3. pc'[p] = pc[p] /\ new'[p] = new[p] /\ arg'[p] = arg[p] /\ fam'[p] = fam[p]
        BY <2>1, <3>3
      <4>4. Usable(fam[p], arg[p]) => Usable(fam[p], arg[p])' BY <2>2, <4>1, <4>2, <4>3
      <4>5. Usable(fam[p], new[p]) => Usable(fam[p], new[p])' BY <2>2, <4>1, <4>2, <4>3
      <4>6. Expired(p) => Expired(p)' BY <2>1, <4>2, <4>3 DEF Expired
      <4> QED BY <2>1, <3>1, <4>3, <4>4, <4>5, <4>6 DEF Served
    <3> QED BY <3>2, <3>3
  <2> QED BY <2>3, <2>4, <2>5
<1>7. ASSUME NEW g \in Code, CodeExpires(g) PROVE Harmless
  BY <1>7 DEF CodeExpires, Harmless
<1>8. ASSUME NEW w \in rows, TokenExpires(w) PROVE Harmless
  BY <1>8 DEF TokenExpires, Harmless
<1>9. CASE ApproveFull \/ DisableUser \/ EnableUser \/ UNCHANGED vars
  <2>1. Harmless
    BY <1>9 DEF ApproveFull, DisableUser, EnableUser, vars, Harmless
  <2> QED BY <1>1, <2>1
<1>10. CASE RevokeConnection \/ RevokeAllUserTokens \/ DeleteUser
  <2>1. cut' = Code /\ UNCHANGED fam
    BY <1>10 DEF RevokeConnection, RevokeAllUserTokens, DeleteUser, DeleteRows
  <2> QED BY <1>2, <2>1
<1>11. ~DeactivateFails /\ ~RestartHub BY DEF DeactivateFails, RestartHub
<1>12. Harmless => Goal BY <1>1
<1>13. ApproveFull \/ Account \/ RestartHub \/ UNCHANGED vars => Goal
  BY <1>9, <1>10, <1>11 DEF Account
<1> HIDE DEF Goal
<1>14. Goal
  BY <1>3, <1>4, <1>5, <1>6, <1>7, <1>8, <1>12, <1>13 DEF Next
<1> QED BY <1>14 DEF Goal

\* The inductive invariant holds in every reachable state.
THEOREM Inductive == Spec => []IInv
<1>1. IInv /\ [Next]_vars => IInv'
  BY StepTypes, StepSlots, StepUnique, StepOneLive, StepProvenance, StepGone,
     StepHonest DEF IInv
<1> QED BY <1>1, InitInv, PTL DEF Spec

\* The tables, the requests and the clients keep their types.
THEOREM TypesKept == Spec => []TypeOK
<1>1. IInv => TypeOK BY DEF IInv
<1> QED BY <1>1, Inductive, PTL

\* However requests for a token interleave, fail, are repeated or are cut short
\* by a restart, a family never has two rights to a successor: not two live
\* tokens, not a live token beside a code or beside a rotation in progress.
THEOREM OneLive == Spec => []OneLivePerFamily
<1>1. IInv => OneLivePerFamily BY DEF IInv
<1> QED BY <1>1, Inductive, PTL

\* A family that can no longer produce a token never produces one again.
THEOREM SpentStaysSpent == Spec => NoRevival
<1>1. IInv /\ [Next]_vars =>
         [\A g \in Code : Spent(g) => Spent(g)' \/ Approve(g)]_vars
  BY StepSpent DEF IInv
<1> QED BY <1>1, Inductive, PTL DEF Spec, NoRevival

\* A step cuts every family off and spares what is on its way, or it cuts none off
\* and, with a new consent, takes one back.
LEMMA CutSteps ==
    [Next]_vars =>
        \/ DeleteRows /\ UNCHANGED <<codes, reqVars>>
        \/ UNCHANGED cuts
        \/ \E g \in Code : Approve(g)
<1> SUFFICES ASSUME [Next]_vars, ~\E g \in Code : Approve(g)
             PROVE  (DeleteRows /\ UNCHANGED <<codes, reqVars>>) \/ UNCHANGED cuts
  OBVIOUS
<1>1. CASE Account
  BY <1>1 DEF Account, RevokeConnection, DisableUser, RevokeAllUserTokens,
              DeactivateFails, EnableUser, DeleteUser
<1>2. ASSUME NEW q \in Req, Serve(q) \/ Reply(q) PROVE UNCHANGED cuts
  BY <1>2 DEF Serve, TakeCode, ConsumeRefresh, ConsumeMissing, RevokeFamily,
              FindUser, IssueTokens, RequestFails, Reply, Granted, Refused,
              Failed, LoseAnswer, Finish
<1>3. ASSUME NEW g \in Code, CodeExpires(g) \/ \E q \in Req : Send(q, g)
      PROVE  UNCHANGED cuts
  BY <1>3 DEF CodeExpires, Send
<1>4. ASSUME NEW w \in rows, TokenExpires(w) PROVE UNCHANGED cuts
  BY <1>4 DEF TokenExpires
<1>5. CASE ApproveFull \/ RestartHub \/ UNCHANGED vars
  BY <1>5 DEF ApproveFull, RestartHub, vars
<1> QED BY <1>1, <1>2, <1>3, <1>4, <1>5 DEF Next

\* A family cut off with nothing on its way is spent, and stays so until its name
\* is used for a new consent.
LEMMA StepCut == IInv /\ CutIsFinal /\ [Next]_vars => CutIsFinal'
<1> SUFFICES ASSUME IInv, CutIsFinal, [Next]_vars
             PROVE  CutIsFinal'
  OBVIOUS
<1> SUFFICES ASSUME NEW g \in cut' \ spared'
             PROVE  Spent(g)'
  BY DEF CutIsFinal
<1>0. TypeOK /\ g \in Code
  <2>1. TypeOK /\ Slots BY DEF IInv
  <2>2. TypeOK' BY <2>1, StepTypes
  <2> QED BY <2>1, <2>2 DEF TypeOK
<1>1. CASE DeleteRows /\ UNCHANGED <<codes, reqVars>>
  BY <1>0, <1>1 DEF DeleteRows, OnTheWay, Spent, Live, Rotating
<1>2. CASE g \in cut \ spared
  <2>1. ~Approve(g)
    BY DEF Approve
  <2> QED BY <1>0, <1>2, <2>1, StepSpent DEF CutIsFinal
<1>3. CASE g \notin cut \ spared /\ ~(DeleteRows /\ UNCHANGED <<codes, reqVars>>)
  BY <1>3, CutSteps DEF Approve
<1> QED BY <1>1, <1>2, <1>3

\* Disconnecting, disabling or deleting ends every authorization but those with a
\* code or a rotation on its way.
THEOREM CutsAreFinal == Spec => []CutIsFinal
<1>1. Init => CutIsFinal BY DEF Init, CutIsFinal
<1> QED BY <1>1, StepCut, Inductive, PTL DEF Spec

\* Rotation never costs an honest client, one that waits for its answers and
\* gets them, a connection that nobody cut off.
THEOREM HonestNeverRefused == Spec => []NoSpuriousRefusal
<1>1. IInv => NoSpuriousRefusal
  BY DEF IInv, HonestInv, AllServed, Served, NoSpuriousRefusal
<1> QED BY <1>1, Inductive, PTL
=============================================================================
