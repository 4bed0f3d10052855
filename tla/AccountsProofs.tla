---------------------------- MODULE AccountsProofs ----------------------------
(***************************************************************************)
(* Theorems about Accounts, for every number of users, codes, passkeys,    *)
(* sessions and ceremonies, with open registration or without, with faults *)
(* or without.  The invariant says what a ceremony may rely on between its *)
(* start and its last statement, although others act in between.           *)
(***************************************************************************)
EXTENDS Accounts, FiniteSetTheorems, TLAPS

\* the fields of a ceremony fit together
FlowShape ==
    \A f \in Flow :
        /\ flow[f].at = "idle" => flow[f] = NoFlow
        /\ flow[f].at # "idle" => flow[f].user \in User /\ flow[f].kind # "none"
        /\ flow[f].at \in {"redeem", "rollback"} => flow[f].code \in Code
        /\ flow[f].at \in {"create", "rollback"} => flow[f].kind = "new"
        /\ flow[f].at = "redeem" => flow[f].kind # "login"
        /\ flow[f].boot => flow[f].code = None
        /\ flow[f].kind = "login" => flow[f].code = None

Unborn(f) == flow[f].kind = "new" /\ flow[f].at \in {"waiting", "create"}

\* a registration that has not created its account owns its id, and was begun
\* on an empty table or follows the bootstrap
NewFlows ==
    \A f \in Flow : Unborn(f) =>
        /\ acct[flow[f].user] = "none"
        /\ \A g \in Flow \ {f} : flow[g].user # flow[f].user
        /\ flow[f].boot \/ Registered # {}

\* an account that may still be rolled back is not the administrator
RollbackSafe ==
    \A f \in Flow :
        flow[f].kind = "new" /\ flow[f].code # None => flow[f].user \notin admin

\* a code that a ceremony remembers is the code it was started with, or gone
FlowCodes ==
    \A f \in Flow :
        flow[f].code # None /\ inv[flow[f].code].kind # "none" =>
            inv[flow[f].code].for =
                IF flow[f].kind = "new" THEN None ELSE flow[f].user

\* a recovery code is spent on the account it was made for
RecoveryOwn ==
    \A c \in Code :
        inv[c].for # None /\ inv[c].by # None => inv[c].by = inv[c].for

\* rows that reference users
References ==
    /\ admin \subseteq Registered
    /\ \A k \in Key : owner[k] # None => owner[k] \in Registered
    /\ \A s \in Sess : sess[s] # None => sess[s] \in Registered

\* the ceremony will sign its user in and has nothing left to pay
Entering(f) ==
    \/ flow[f].at \in {"enrol", "signin"}
    \/ flow[f].at = "waiting" /\ flow[f].kind # "new" /\ flow[f].code = None

Inside(u) ==
    \/ Keys(u) # {}
    \/ SignedIn(u)
    \/ \E f \in Flow : flow[f].user = u /\ Entering(f)

PaidInv == \A u \in Registered \ walkIn : Inside(u) => HoldsCode(u)

IInv ==
    /\ TypeOK
    /\ FlowShape
    /\ NewFlows
    /\ RollbackSafe
    /\ FlowCodes
    /\ RecoveryOwn
    /\ References
    /\ OneAdministrator
    /\ DistinctSlots
    /\ PaidInv

-----------------------------------------------------------------------------
\* A ceremony that disappears (evicted, refused, dropped, lost in a restart)
\* takes nothing with it that the others rely on.
LEMMA FlowsVanish ==
    ASSUME IInv,
           flow' \in [Flow -> FlowRec],
           \A f \in Flow : flow'[f] = flow[f] \/ flow'[f] = NoFlow,
           UNCHANGED rows,
           removing' \in SUBSET Removal, ending' \in SUBSET User
    PROVE  IInv'
<1> USE AccountsAssumption
<1>1. TypeOK'
  BY DEF IInv, TypeOK, rows
<1>2. FlowShape'
  BY DEF IInv, FlowShape, NoFlow
<1>3. NewFlows' /\ RollbackSafe'
  BY DEF IInv, TypeOK, FlowShape, NewFlows, RollbackSafe, Unborn, NoFlow, rows,
         Registered
<1>4. FlowCodes' /\ RecoveryOwn'
  BY DEF IInv, FlowCodes, RecoveryOwn, NoFlow, rows
<1>5. References' /\ OneAdministrator' /\ DistinctSlots'
  BY DEF IInv, References, OneAdministrator, DistinctSlots, Registered, rows
<1>6. PaidInv'
  BY DEF IInv, PaidInv, Inside, Entering, Keys, SignedIn, HoldsCode, NoFlow,
         Registered, rows
<1> QED
  BY <1>1, <1>2, <1>3, <1>4, <1>5, <1>6 DEF IInv

\* What a start must have checked for the ceremony it inserts.
LEMMA Starting ==
    ASSUME IInv,
           NEW f \in Flow, NEW kind \in {"new", "add", "login"}, NEW u \in User,
           NEW c \in Code \cup {None}, NEW b \in BOOLEAN,
           InsertCeremony(f, kind, u, c, b),
           kind = "new" => FreshUser(u) /\ (b \/ Registered # {}),
           kind # "new" => u \in Registered,
           b \/ kind = "login" => c = None,
           c # None => inv[c].for = IF kind = "new" THEN None ELSE u,
           kind # "new" /\ c = None /\ u \notin walkIn => HoldsCode(u)
    PROVE  IInv'
<1> USE AccountsAssumption
<1> DEFINE ins == [at |-> "waiting", kind |-> kind, user |-> u, code |-> c,
                   boot |-> b]
<1>0. /\ \A g \in Flow : \/ flow'[g] \in {flow[g], NoFlow}
                         \/ g = f /\ flow'[g] = ins
      /\ UNCHANGED <<rows, removing, ending>>
      /\ flow' \in [Flow -> FlowRec]
      /\ flow[f] = NoFlow
  <2>1. ins \in FlowRec /\ NoFlow \in FlowRec /\ flow \in [Flow -> FlowRec]
    BY DEF FlowRec, NoFlow, IInv, TypeOK
  <2>2. PICK gone \in SUBSET Waiting(Store(kind)) :
          LET kept == [g \in Flow |-> IF g \in gone THEN NoFlow ELSE flow[g]]
          IN  \/ flow' = kept
              \/ flow' = [kept EXCEPT ![f] = ins]
    BY DEF InsertCeremony
  <2>3. UNCHANGED <<rows, removing, ending>> /\ flow[f] = NoFlow
    BY DEF InsertCeremony
  <2> HIDE DEF ins
  <2> QED
    BY <2>1, <2>2, <2>3
<1>1. CASE flow'[f] # ins
  <2>1. \A g \in Flow : flow'[g] = flow[g] \/ flow'[g] = NoFlow
    BY <1>0, <1>1
  <2> QED
    BY <1>0, <2>1, FlowsVanish DEF IInv, TypeOK
<1>2. CASE flow'[f] = ins
  <2>1. TypeOK'
    BY <1>0 DEF IInv, TypeOK, rows
  <2>2. FlowShape'
    BY <1>0, <1>2 DEF IInv, FlowShape, NoFlow
  <2>3. NewFlows'
    <3> SUFFICES ASSUME NEW g \in Flow, Unborn(g)'
                 PROVE  /\ acct[flow'[g].user] = "none"
                        /\ \A h \in Flow \ {g} : flow'[h].user # flow'[g].user
                        /\ flow'[g].boot \/ Registered # {}
      BY <1>0 DEF NewFlows, Registered, rows
    <3>1. CASE g = f
      BY <1>0, <1>2, <3>1 DEF FreshUser, Unborn, NoFlow, IInv, TypeOK
    <3>2. CASE g # f
      <4>1. flow'[g] = flow[g] /\ Unborn(g)
        BY <1>0, <3>2 DEF Unborn, NoFlow
      <4>2. flow[g].user # u /\ flow[g].user \in User
        BY <4>1 DEF FreshUser, Registered, IInv, NewFlows, FlowShape, Unborn
      <4> QED
        BY <1>0, <1>2, <3>2, <4>1, <4>2 DEF IInv, NewFlows, NoFlow
    <3> QED BY <3>1, <3>2
  <2>4. RollbackSafe'
    BY <1>0, <1>2 DEF IInv, RollbackSafe, References, FreshUser, Registered,
                      NoFlow, rows
  <2>5. FlowCodes' /\ RecoveryOwn'
    BY <1>0, <1>2 DEF IInv, FlowCodes, RecoveryOwn, NoFlow, rows
  <2>6. References' /\ OneAdministrator' /\ DistinctSlots'
    BY <1>0 DEF IInv, References, OneAdministrator, DistinctSlots, Registered,
                rows
  <2>7. PaidInv'
    BY <1>0, <1>2 DEF IInv, PaidInv, Inside, Entering, Keys, SignedIn,
                      HoldsCode, NoFlow, Registered, rows
  <2> QED
    BY <2>1, <2>2, <2>3, <2>4, <2>5, <2>6, <2>7 DEF IInv
<1> QED BY <1>1, <1>2

\* Every way to begin a ceremony.
LEMMA StartStep ==
    ASSUME IInv, NEW f \in Flow, Start(f)
    PROVE  IInv'
<1> USE AccountsAssumption
<1> PICK u \in User : \/ RegisterStart(f, u) \/ AddPasskeyStart(f, u)
                      \/ RecoverStart(f, u) \/ LoginStart(f, u)
  BY DEF Start
<1>1. CASE RegisterStart(f, u)
  <2>1. CASE Registered = {}
    BY <1>1, <2>1, Starting DEF RegisterStart
  <2>2. CASE Registered # {}
    <3>1. PICK c \in Code \cup {None} :
            /\ c # None => Redeemable(c, "invite", None)
            /\ InsertCeremony(f, "new", u, c, FALSE)
      BY <1>1, <2>2 DEF RegisterStart
    <3> QED
      BY <1>1, <2>2, <3>1, Starting DEF RegisterStart, Redeemable
  <2> QED BY <2>1, <2>2
<1>2. CASE AddPasskeyStart(f, u)
  <2>1. u \in Registered /\ (u \notin walkIn => HoldsCode(u))
    BY <1>2 DEF AddPasskeyStart, SignedIn, IInv, References, PaidInv, Inside
  <2> QED
    BY <1>2, <2>1, Starting DEF AddPasskeyStart
<1>3. CASE RecoverStart(f, u)
  <2>1. PICK c \in Code : /\ Redeemable(c, "recovery", u)
                          /\ InsertCeremony(f, "add", u, c, FALSE)
    BY <1>3 DEF RecoverStart
  <2>2. u \in Registered /\ c # None
    BY <1>3 DEF RecoverStart, Registered
  <2> QED
    BY <2>1, <2>2, Starting DEF Redeemable
<1>4. CASE LoginStart(f, u)
  <2>1. u \in Registered /\ (u \notin walkIn => HoldsCode(u))
    BY <1>4 DEF LoginStart, Registered, IInv, PaidInv, Inside
  <2> QED
    BY <1>4, <2>1, Starting DEF LoginStart
<1> QED BY <1>1, <1>2, <1>3, <1>4

\* The finishing handler takes its ceremony.
LEMMA TakeStep ==
    ASSUME IInv, NEW f \in Flow, TakeCeremony(f)
    PROVE  IInv'
<1> USE AccountsAssumption
<1> DEFINE at == FirstStatement(flow[f].kind, flow[f].code)
<1>0. /\ flow[f].at = "waiting"
      /\ UNCHANGED <<rows, removing, ending>>
      /\ flow \in [Flow -> FlowRec]
      /\ flow[f].user \in User /\ flow[f].kind \in {"new", "add", "login"}
  BY DEF TakeCeremony, IInv, TypeOK, FlowShape, FlowRec
<1>1. CASE Leave(f)
  BY <1>0, <1>1, FlowsVanish DEF Leave, IInv, TypeOK, FlowRec, NoFlow
<1>2. CASE Goto(f, at)
  <2>1. /\ flow[f].kind = "new" => at = "create"
        /\ flow[f].kind = "login" => at = "signin"
        /\ flow[f].kind = "add" /\ flow[f].code # None => at = "redeem"
        /\ flow[f].kind = "add" /\ flow[f].code = None => at = "enrol"
    BY DEF FirstStatement
  <2> HIDE DEF at
  <2>2. flow' \in [Flow -> FlowRec]
    BY <1>0, <1>2, <2>1 DEF Goto, FlowRec
  <2>3. /\ flow'[f].at = at /\ flow'[f].kind = flow[f].kind
        /\ flow'[f].user = flow[f].user /\ flow'[f].code = flow[f].code
        /\ flow'[f].boot = flow[f].boot
        /\ \A g \in Flow \ {f} : flow'[g] = flow[g]
    BY <1>0, <1>2 DEF Goto, FlowRec
  <2>4. TypeOK'
    BY <1>0, <2>2 DEF IInv, TypeOK, rows
  <2>5. FlowShape'
    BY <1>0, <2>1, <2>3 DEF IInv, FlowShape, FlowRec
  <2>6. NewFlows'
    BY <1>0, <2>1, <2>3 DEF IInv, NewFlows, Unborn, Registered, rows
  <2>6a. RollbackSafe'
    BY <1>0, <2>3 DEF IInv, RollbackSafe, rows
  <2>7. FlowCodes' /\ RecoveryOwn'
    BY <1>0, <2>3 DEF IInv, FlowCodes, RecoveryOwn, rows
  <2>8. References' /\ OneAdministrator' /\ DistinctSlots'
    BY <1>0 DEF IInv, References, OneAdministrator, DistinctSlots, Registered,
                rows
  <2>9. PaidInv'
    <3>1. \A g \in Flow : Entering(g)' => Entering(g) /\ flow'[g].user = flow[g].user
      BY <1>0, <2>1, <2>3 DEF IInv, FlowShape, Entering
    <3> QED
      BY <1>0, <3>1 DEF IInv, PaidInv, Inside, Keys, SignedIn, HoldsCode,
                        Registered, rows
  <2> QED
    BY <2>4, <2>5, <2>6, <2>6a, <2>7, <2>8, <2>9 DEF IInv
<1> QED BY <1>1, <1>2 DEF TakeCeremony

\* The account is created; only the first one becomes administrator.
LEMMA CreateStep ==
    ASSUME IInv, NEW f \in Flow, CreateUser(f)
    PROVE  IInv'
<1> USE AccountsAssumption
<1> DEFINE u == flow[f].user
           at == IF flow[f].code = None THEN "enrol" ELSE "redeem"
<1>0. /\ flow[f].at = "create" /\ flow[f].kind = "new"
      /\ u \in User /\ acct[u] = "none" /\ u \notin Registered
      /\ \A g \in Flow \ {f} : flow[g].user # u
      /\ flow[f].boot \/ Registered # {}
      /\ flow[f].boot => flow[f].code = None
      /\ flow[f].code \in Code \cup {None}
      /\ flow \in [Flow -> FlowRec]
  BY DEF CreateUser, IInv, TypeOK, FlowShape, NewFlows, Unborn, FlowRec,
         Registered
<1>1. PICK n \in 0..MaxSlot : NextSlot(n) /\ slot' = [slot EXCEPT ![u] = n]
  BY DEF CreateUser
<1>2. /\ acct' = [acct EXCEPT ![u] = "on"]
      /\ admin' = IF BecomesAdmin(f) THEN admin \cup {u} ELSE admin
      /\ walkIn' = IF flow[f].code = None THEN walkIn \cup {u} ELSE walkIn
      /\ UNCHANGED <<inv, owner, sess, removing, ending>>
  BY DEF CreateUser
<1>3. /\ \A g \in Flow \ {f} : flow'[g] = flow[g]
      /\ flow'[f].at = at /\ flow'[f].kind = "new" /\ flow'[f].user = u
      /\ flow'[f].code = flow[f].code /\ flow'[f].boot = flow[f].boot
      /\ flow' \in [Flow -> FlowRec]
  BY <1>0 DEF CreateUser, Goto, FlowRec
<1>4. Registered' = Registered \cup {u}
  BY <1>0, <1>2 DEF Registered, IInv, TypeOK
<1> HIDE DEF u
<1>5. TypeOK'
  BY <1>0, <1>1, <1>2, <1>3 DEF IInv, TypeOK
<1>6. FlowShape'
  BY <1>0, <1>3 DEF IInv, FlowShape
<1>7. NewFlows'
  BY <1>0, <1>2, <1>3, <1>4 DEF IInv, NewFlows, Unborn, TypeOK, FlowShape
<1>8. RollbackSafe'
  BY <1>0, <1>2, <1>3 DEF IInv, RollbackSafe, BecomesAdmin, References
<1>9. FlowCodes' /\ RecoveryOwn'
  BY <1>0, <1>2, <1>3 DEF IInv, FlowCodes, RecoveryOwn
<1>10. References'
  BY <1>2, <1>4 DEF IInv, References
<1>11. OneAdministrator'
  <2>1. CASE BecomesAdmin(f)
    BY <1>0, <1>2, <2>1 DEF BecomesAdmin, IInv, References, OneAdministrator,
                            TypeOK
  <2>2. CASE ~BecomesAdmin(f)
    BY <1>0, <1>2, <2>2 DEF BecomesAdmin, IInv, OneAdministrator, TypeOK
  <2> QED BY <2>1, <2>2
<1>12. DistinctSlots'
  <2>1. n \in Nat /\ \A w \in Registered : slot[w] \in Nat /\ slot[w] < n
    BY <1>1 DEF NextSlot, IInv, TypeOK, Registered
  <2>2. slot'[u] = n /\ \A w \in Registered : slot'[w] = slot[w]
    BY <1>0, <1>1 DEF IInv, TypeOK, Registered
  <2> QED
    BY <1>4, <2>1, <2>2 DEF IInv, DistinctSlots
<1>13. PaidInv'
  <2> SUFFICES ASSUME NEW v \in Registered' \ walkIn', Inside(v)'
               PROVE  HoldsCode(v)'
    BY DEF PaidInv
  <2>1. CASE v = u
    <3>1. flow[f].code # None /\ at = "redeem"
      BY <1>2, <2>1
    <3>2. Keys(v)' = {} /\ ~SignedIn(v)'
      BY <1>0, <1>2, <2>1 DEF Keys, SignedIn, IInv, References
    <3>3. \A g \in Flow : flow'[g].user = v => ~Entering(g)'
      BY <1>0, <1>3, <2>1, <3>1 DEF Entering
    <3> QED BY <3>2, <3>3 DEF Inside
  <2>2. CASE v # u
    <3>1. v \in Registered \ walkIn
      BY <1>2, <1>4, <2>2
    <3>2. Inside(v)
      BY <1>2, <1>3, <2>2 DEF Inside, Keys, SignedIn, Entering
    <3> QED
      BY <1>2, <3>1, <3>2 DEF IInv, PaidInv, HoldsCode
  <2> QED BY <2>1, <2>2
<1> QED
  BY <1>5, <1>6, <1>7, <1>8, <1>9, <1>10, <1>11, <1>12, <1>13 DEF IInv

\* The code is spent, on this account and on no other.
LEMMA RedeemStep ==
    ASSUME IInv, NEW f \in Flow, Redeem(f)
    PROVE  IInv'
<1> USE AccountsAssumption
<1>0. /\ flow[f].at = "redeem" /\ flow[f].kind # "login"
      /\ flow[f].code \in Code /\ flow[f].user \in User
      /\ flow[f].user \in Registered
      /\ flow \in [Flow -> FlowRec] /\ inv \in [Code -> InviteRec]
      /\ UNCHANGED <<acct, admin, slot, owner, sess, walkIn, removing, ending>>
      /\ inv[flow[f].code].kind # "none" /\ ~inv[flow[f].code].used
  BY DEF Redeem, UnusedRow, IInv, TypeOK, FlowShape, Registered
<1>1. PICK c \in Code, u \in User : c = flow[f].code /\ u = flow[f].user
  BY <1>0
<1>2. /\ \A d \in Code \ {c} : inv'[d] = inv[d]
      /\ inv'[c].used /\ inv'[c].by = u
      /\ inv'[c].for = inv[c].for /\ inv'[c].kind = inv[c].kind
      /\ inv' \in [Code -> InviteRec]
  BY <1>0, <1>1 DEF Redeem, InviteRec
<1>3. /\ \A g \in Flow \ {f} : flow'[g] = flow[g]
      /\ flow'[f].at = "enrol" /\ flow'[f].kind = flow[f].kind
      /\ flow'[f].user = u /\ flow'[f].code = c /\ flow'[f].boot = flow[f].boot
      /\ flow' \in [Flow -> FlowRec]
  BY <1>0, <1>1 DEF Redeem, Goto, FlowRec
<1>4. TypeOK'
  BY <1>0, <1>2, <1>3 DEF IInv, TypeOK
<1>5. FlowShape'
  BY <1>0, <1>1, <1>3 DEF IInv, FlowShape
<1>6. NewFlows'
  BY <1>0, <1>1, <1>3 DEF IInv, NewFlows, Unborn, Registered
<1>7. RollbackSafe'
  BY <1>0, <1>1, <1>3 DEF IInv, RollbackSafe
<1>8. FlowCodes'
  <2>1. \A d \in Code : inv'[d].for = inv[d].for /\ inv'[d].kind = inv[d].kind
    BY <1>2
  <2>2. \A g \in Flow : /\ flow'[g].code = flow[g].code
                        /\ flow'[g].kind = flow[g].kind
                        /\ flow'[g].user = flow[g].user
                        /\ flow[g].code # None => flow[g].code \in Code
    BY <1>0, <1>1, <1>3 DEF FlowRec
  <2> QED
    BY <2>1, <2>2 DEF IInv, FlowCodes
<1>9. RecoveryOwn'
  <2>1. inv[c].for # None => inv[c].for = u
    BY <1>0, <1>1 DEF IInv, FlowCodes
  <2> QED
    BY <1>2, <2>1 DEF IInv, RecoveryOwn
<1>10. References' /\ OneAdministrator' /\ DistinctSlots'
  BY <1>0 DEF IInv, References, OneAdministrator, DistinctSlots, Registered
<1>11. PaidInv'
  <2> SUFFICES ASSUME NEW v \in Registered \ walkIn, Inside(v)'
               PROVE  HoldsCode(v)'
    BY <1>0 DEF PaidInv, Registered
  <2>1. CASE v = u
    BY <1>2, <2>1 DEF HoldsCode
  <2>2. CASE v # u
    <3>1. Inside(v)
      BY <1>0, <1>3, <2>2 DEF Inside, Keys, SignedIn, Entering
    <3>2. PICK d \in Code : inv[d].used /\ inv[d].by = v
      BY <3>1 DEF IInv, PaidInv, HoldsCode
    <3> QED
      BY <1>0, <1>1, <1>2, <3>2 DEF HoldsCode
  <2> QED BY <2>1, <2>2
<1> QED
  BY <1>4, <1>5, <1>6, <1>7, <1>8, <1>9, <1>10, <1>11 DEF IInv

\* Deleting an account other than the administrator's, with what refers to it.
LEMMA DeleteStep ==
    ASSUME IInv, NEW u \in User, u \notin admin, DeleteRow(u),
           flow' \in [Flow -> FlowRec],
           \A f \in Flow : flow'[f] = flow[f] \/ flow'[f] = NoFlow
    PROVE  IInv'
<1> USE AccountsAssumption
<1>0. /\ acct' = [acct EXCEPT ![u] = "none"]
      /\ admin' = admin
      /\ slot' = [slot EXCEPT ![u] = 0]
      /\ owner' = [k \in Key |-> IF owner[k] = u THEN None ELSE owner[k]]
      /\ sess' = [s \in Sess |-> IF sess[s] = u THEN None ELSE sess[s]]
      /\ walkIn' = walkIn \ {u}
      /\ Registered' = Registered \ {u}
  BY DEF DeleteRow, IInv, TypeOK, Registered
<1>1. /\ inv' \in [Code -> InviteRec]
      /\ \A c \in Code :
            \/ inv[c].for = u /\ inv'[c] = NoRow
            \/ /\ inv[c].for # u
               /\ inv'[c].kind = inv[c].kind /\ inv'[c].for = inv[c].for
               /\ inv'[c].used = inv[c].used
               /\ inv'[c].by = IF inv[c].by = u THEN None ELSE inv[c].by
  <2>1. inv \in [Code -> InviteRec] /\ NoRow \in InviteRec
    BY DEF IInv, TypeOK, NoRow, InviteRec
  <2>2. \A c \in Code :
            \/ inv[c].for = u /\ inv'[c] = NoRow
            \/ inv[c].for # u /\ inv[c].by = u /\ inv'[c] = [inv[c] EXCEPT !.by = None]
            \/ inv[c].for # u /\ inv[c].by # u /\ inv'[c] = inv[c]
    BY DEF DeleteRow
  <2>3. inv' = [c \in Code |-> inv'[c]]
    BY DEF DeleteRow
  <2> QED
    BY <2>1, <2>2, <2>3 DEF InviteRec
<1>2. TypeOK'
  <2>1. removing' \in SUBSET Removal /\ ending' \in SUBSET User
    BY DEF DeleteRow, IInv, TypeOK
  <2> QED
    BY <1>0, <1>1, <2>1 DEF IInv, TypeOK
<1>3. FlowShape'
  BY DEF IInv, FlowShape, NoFlow
<1>4. Registered # {} => Registered' # {}
  BY <1>0 DEF IInv, OneAdministrator, References
<1>5. NewFlows'
  BY <1>0, <1>4 DEF IInv, TypeOK, FlowShape, NewFlows, Unborn, NoFlow
<1>6. RollbackSafe'
  BY <1>0 DEF IInv, RollbackSafe, NoFlow
<1>7. FlowCodes'
  <2>1. \A f \in Flow : flow[f].code # None => flow[f].code \in Code
    BY DEF IInv, TypeOK, FlowRec
  <2> QED
    BY <1>1, <2>1 DEF IInv, FlowCodes, NoFlow, NoRow
<1>8. RecoveryOwn'
  BY <1>1 DEF IInv, RecoveryOwn, NoRow
<1>9. References'
  BY <1>0 DEF IInv, References
<1>10. OneAdministrator'
  BY <1>0 DEF IInv, OneAdministrator, TypeOK
<1>11. DistinctSlots'
  BY <1>0 DEF IInv, DistinctSlots, TypeOK, Registered
<1>12. PaidInv'
  <2> SUFFICES ASSUME NEW v \in Registered \ walkIn, v # u, Inside(v)'
               PROVE  HoldsCode(v)'
    BY <1>0 DEF PaidInv
  <2>1. Inside(v)
    <3>1. None # v
      BY DEF Registered
    <3> QED
      BY <1>0, <3>1 DEF Inside, Keys, SignedIn, Entering, NoFlow
  <2>2. PICK c \in Code : inv[c].used /\ inv[c].by = v
    BY <2>1 DEF IInv, PaidInv, HoldsCode
  <2>3. inv[c].for # u /\ v # None
    BY <2>2 DEF IInv, RecoveryOwn, Registered
  <2> QED
    BY <1>1, <2>2, <2>3 DEF HoldsCode
<1> QED
  BY <1>2, <1>3, <1>5, <1>6, <1>7, <1>8, <1>9, <1>10, <1>11, <1>12 DEF IInv

\* A refused code sends a registration to its rollback.
LEMMA RollbackOrdered ==
    ASSUME IInv, NEW f \in Flow, flow[f].at = "redeem", flow[f].kind = "new",
           Goto(f, "rollback"), UNCHANGED <<rows, removing, ending>>
    PROVE  IInv'
<1> USE AccountsAssumption
<1>1. /\ \A g \in Flow \ {f} : flow'[g] = flow[g]
      /\ flow'[f].at = "rollback" /\ flow'[f].kind = flow[f].kind
      /\ flow'[f].user = flow[f].user /\ flow'[f].code = flow[f].code
      /\ flow'[f].boot = flow[f].boot
      /\ flow' \in [Flow -> FlowRec]
  BY DEF Goto, IInv, TypeOK, FlowRec
<1>2. TypeOK'
  BY <1>1 DEF IInv, TypeOK, rows
<1>3. FlowShape'
  BY <1>1 DEF IInv, FlowShape
<1>4. NewFlows' /\ RollbackSafe'
  BY <1>1 DEF IInv, NewFlows, RollbackSafe, Unborn, Registered, rows
<1>5. FlowCodes' /\ RecoveryOwn'
  BY <1>1 DEF IInv, FlowCodes, RecoveryOwn, rows
<1>6. References' /\ OneAdministrator' /\ DistinctSlots'
  BY DEF IInv, References, OneAdministrator, DistinctSlots, Registered, rows
<1>7. PaidInv'
  BY <1>1 DEF IInv, PaidInv, Inside, Entering, Keys, SignedIn, HoldsCode,
              Registered, rows
<1> QED
  BY <1>2, <1>3, <1>4, <1>5, <1>6, <1>7 DEF IInv

\* The passkey and the session go to somebody who is inside already.
LEMMA EnterStep ==
    ASSUME IInv, NEW f \in Flow, InsertCredential(f) \/ CreateSession(f)
    PROVE  IInv'
<1> USE AccountsAssumption
<1>0. /\ flow[f].at \in {"enrol", "signin"}
      /\ flow[f].user \in Registered
      /\ flow \in [Flow -> FlowRec]
      /\ UNCHANGED <<acct, admin, slot, inv, walkIn, removing, ending>>
  BY DEF InsertCredential, CreateSession, IInv, TypeOK, FlowShape, Registered
<1>1. PICK u \in Registered : u = flow[f].user
  BY <1>0
<1>2. /\ owner' \in [Key -> User \cup {None}]
      /\ sess' \in [Sess -> User \cup {None}]
      /\ \A k \in Key : owner'[k] \in {owner[k], u}
      /\ \A s \in Sess : sess'[s] \in {sess[s], u}
  BY <1>0, <1>1 DEF InsertCredential, CreateSession, IInv, TypeOK, Registered
<1>3. /\ \A g \in Flow \ {f} : flow'[g] = flow[g]
      /\ \/ flow'[f] = NoFlow
         \/ /\ flow'[f].at = "signin" /\ flow'[f].kind = flow[f].kind
            /\ flow'[f].user = flow[f].user /\ flow'[f].code = flow[f].code
            /\ flow'[f].boot = flow[f].boot
      /\ flow' \in [Flow -> FlowRec]
  <2>1. CASE InsertCredential(f)
    BY <1>0, <2>1 DEF InsertCredential, Goto, FlowRec
  <2>2. CASE CreateSession(f)
    BY <1>0, <2>2 DEF CreateSession, Leave, FlowRec, NoFlow
  <2> QED BY <2>1, <2>2
<1>4. TypeOK'
  BY <1>0, <1>2, <1>3 DEF IInv, TypeOK
<1>5. FlowShape'
  BY <1>0, <1>3 DEF IInv, FlowShape, NoFlow
<1>6. NewFlows'
  BY <1>0, <1>3 DEF IInv, NewFlows, FlowShape, Unborn, Registered, NoFlow
<1>7. RollbackSafe'
  BY <1>0, <1>3 DEF IInv, RollbackSafe, NoFlow
<1>8. FlowCodes' /\ RecoveryOwn'
  BY <1>0, <1>3 DEF IInv, FlowCodes, RecoveryOwn, NoFlow
<1>9. References'
  BY <1>0, <1>1, <1>2 DEF IInv, References, Registered
<1>10. OneAdministrator' /\ DistinctSlots'
  BY <1>0 DEF IInv, OneAdministrator, DistinctSlots, Registered
<1>11. PaidInv'
  <2> SUFFICES ASSUME NEW v \in Registered \ walkIn, Inside(v)'
               PROVE  HoldsCode(v)
    BY <1>0 DEF PaidInv, HoldsCode, Registered
  <2>1. Inside(u)
    BY <1>0, <1>1 DEF Inside, Entering
  <2>2. CASE v # u
    <3>1. Inside(v)
      BY <1>1, <1>2, <1>3, <2>2 DEF Inside, Keys, SignedIn, Entering, NoFlow
    <3> QED BY <3>1 DEF IInv, PaidInv
  <2> QED BY <2>1, <2>2 DEF IInv, PaidInv
<1> QED
  BY <1>4, <1>5, <1>6, <1>7, <1>8, <1>9, <1>10, <1>11 DEF IInv

\* Every statement of register_finish and login_finish.
LEMMA FinishStep ==
    ASSUME IInv, NEW f \in Flow, Finish(f)
    PROVE  IInv'
<1> USE AccountsAssumption
<1>0. Leave(f) => /\ flow' \in [Flow -> FlowRec]
                  /\ \A g \in Flow : flow'[g] = flow[g] \/ flow'[g] = NoFlow
  BY DEF Leave, IInv, TypeOK, FlowRec, NoFlow
<1>1. CASE TakeCeremony(f)
  BY <1>1, TakeStep
<1>2. CASE CreateUser(f)
  BY <1>2, CreateStep
<1>3. CASE HandleTaken(f) \/ FinishFails(f)
  BY <1>0, <1>3, FlowsVanish DEF HandleTaken, FinishFails, IInv, TypeOK
<1>4. CASE Redeem(f)
  BY <1>4, RedeemStep
<1>5. CASE RedeemFails(f)
  <2>1. CASE flow[f].kind = "new"
    BY <1>5, <2>1, RollbackOrdered DEF RedeemFails
  <2>2. CASE flow[f].kind # "new"
    BY <1>0, <1>5, <2>2, FlowsVanish DEF RedeemFails, IInv, TypeOK
  <2> QED BY <2>1, <2>2
<1>6. CASE Rollback(f)
  <2>1. flow[f].user \in User /\ flow[f].user \notin admin
    BY <1>6 DEF Rollback, IInv, FlowShape, RollbackSafe
  <2> QED
    BY <1>0, <1>6, <2>1, DeleteStep DEF Rollback
<1>7. CASE InsertCredential(f) \/ CreateSession(f)
  BY <1>7, EnterStep
<1> QED
  BY <1>1, <1>2, <1>3, <1>4, <1>5, <1>6, <1>7 DEF Finish

\* The owner's pages only take passkeys and sessions away.
LEMMA OwnStep ==
    ASSUME IInv,
           owner' \in [Key -> User \cup {None}],
           sess' \in [Sess -> User \cup {None}],
           \A k \in Key : owner'[k] \in {owner[k], None},
           \A s \in Sess : sess'[s] \in {sess[s], None},
           acct' \in [User -> {"none", "on", "off"}],
           \A u \in User : acct'[u] = "none" <=> acct[u] = "none",
           \A u \in User : u \in admin => acct'[u] = acct[u],
           UNCHANGED <<admin, slot, inv, walkIn, flow>>,
           removing' \in SUBSET Removal, ending' \in SUBSET User
    PROVE  IInv'
<1> USE AccountsAssumption
<1>0. Registered' = Registered
  BY DEF Registered
<1>1. TypeOK'
  BY DEF IInv, TypeOK
<1>2. FlowShape' /\ RollbackSafe' /\ FlowCodes' /\ RecoveryOwn'
  BY DEF IInv, FlowShape, RollbackSafe, FlowCodes, RecoveryOwn
<1>3. NewFlows'
  <2>1. \A f \in Flow : Unborn(f) => flow[f].user \in User
    BY DEF IInv, FlowShape, Unborn
  <2> QED
    BY <1>0, <2>1 DEF IInv, NewFlows, Unborn
<1>4. References'
  BY <1>0 DEF IInv, References
<1>5. OneAdministrator' /\ DistinctSlots'
  BY <1>0 DEF IInv, OneAdministrator, DistinctSlots
<1>6. PaidInv'
  <2>1. \A u \in Registered : Inside(u)' => Inside(u)
    BY DEF Inside, Keys, SignedIn, Entering, Registered
  <2> QED
    BY <1>0, <2>1 DEF IInv, PaidInv, HoldsCode
<1> QED
  BY <1>1, <1>2, <1>3, <1>4, <1>5, <1>6 DEF IInv

\* A removal that has counted is added, and parts those of the same account.
LEMMA CountTypes ==
    ASSUME removing \in SUBSET Removal, NEW u \in User, NEW k \in Key,
           RemovePasskeyCount(u, k)
    PROVE  removing' \in SUBSET Removal
<1>1. [user |-> u, key |-> k, alone |-> \A p \in removing : p.user # u] \in Removal
  BY DEF Removal
<1>2. \A p \in removing : [p EXCEPT !.alone = @ /\ p.user # u] \in Removal
  BY DEF Removal
<1> QED
  BY <1>1, <1>2 DEF RemovePasskeyCount

\* Codes are issued under a name nobody remembers, and only unused ones go.
LEMMA CodeStep ==
    ASSUME IInv,
           \/ \E c \in Code : CreateInvite(c) \/ CreateRecovery(c)
           \/ \E C \in SUBSET Code : RevokeInvites(C)
    PROVE  IInv'
<1> USE AccountsAssumption
<1>0. UNCHANGED <<acct, admin, slot, owner, sess, walkIn, flow, removing, ending>>
  BY DEF CreateInvite, CreateRecovery, IssueCode, RevokeInvites
<1>1. /\ inv' \in [Code -> InviteRec]
      /\ \A c \in Code :
            \/ inv'[c] = inv[c]
            \/ ~inv[c].used /\ inv'[c] = NoRow
            \/ /\ inv[c] = NoRow /\ inv'[c].by = None
               /\ \A f \in Flow : flow[f].code # c
  <2>1. inv \in [Code -> InviteRec] /\ NoRow \in InviteRec
    BY DEF IInv, TypeOK, NoRow, InviteRec
  <2>2. CASE \E c \in Code : CreateInvite(c) \/ CreateRecovery(c)
    <3>1. PICK c \in Code, kind \in {"invite", "recovery"}, u \in User \cup {None} :
            IssueCode(c, kind, u)
      BY <2>2 DEF CreateInvite, CreateRecovery, Registered
    <3> QED
      BY <2>1, <3>1 DEF IssueCode, InviteRec, NoRow
  <2>3. CASE \E C \in SUBSET Code : RevokeInvites(C)
    BY <2>1, <2>3 DEF RevokeInvites, UnusedRow
  <2> QED BY <2>2, <2>3
<1>2. TypeOK'
  BY <1>0, <1>1 DEF IInv, TypeOK
<1>3. FlowShape' /\ NewFlows' /\ RollbackSafe'
  BY <1>0 DEF IInv, FlowShape, NewFlows, RollbackSafe, Unborn, Registered
<1>4. FlowCodes'
  <2>1. \A f \in Flow : flow[f].code # None => flow[f].code \in Code
    BY DEF IInv, TypeOK, FlowRec
  <2> QED
    BY <1>0, <1>1, <2>1 DEF IInv, FlowCodes, NoRow
<1>5. RecoveryOwn'
  BY <1>1 DEF IInv, RecoveryOwn, NoRow
<1>6. References' /\ OneAdministrator' /\ DistinctSlots'
  BY <1>0 DEF IInv, References, OneAdministrator, DistinctSlots, Registered
<1>7. PaidInv'
  <2>1. \A u \in Registered : HoldsCode(u) => HoldsCode(u)'
    BY <1>1 DEF HoldsCode, NoRow
  <2> QED
    BY <1>0, <2>1 DEF IInv, PaidInv, Inside, Keys, SignedIn, Entering,
                      Registered
<1> QED
  BY <1>2, <1>3, <1>4, <1>5, <1>6, <1>7 DEF IInv

\* The last administrator is never a target.
LEMMA Protected ==
    ASSUME IInv, NEW u \in User, AdminTarget(u)
    PROVE  u \notin admin
BY DEF IInv, OneAdministrator, References, AdminTarget

\* Empty tables satisfy the invariant.
LEMMA InitStep == Init => IInv
<1> USE AccountsAssumption
<1> SUFFICES ASSUME Init PROVE IInv
  OBVIOUS
<1>1. TypeOK
  BY DEF Init, TypeOK, NoFlow, NoRow, FlowRec, InviteRec
<1>2. Registered = {}
  BY DEF Init, Registered
<1>3. FlowShape /\ NewFlows /\ RollbackSafe /\ FlowCodes /\ RecoveryOwn
  BY DEF Init, FlowShape, NewFlows, RollbackSafe, FlowCodes, RecoveryOwn,
         Unborn, NoFlow, NoRow
<1> QED
  BY <1>1, <1>2, <1>3 DEF Init, IInv, References, OneAdministrator,
                          DistinctSlots, PaidInv

\* The invariant is inductive.
THEOREM Inductive == IInv /\ [Next]_vars => IInv'
<1> USE AccountsAssumption
<1> SUFFICES ASSUME IInv, [Next]_vars PROVE IInv'
  OBVIOUS
<1>1. CASE UNCHANGED vars
  BY <1>1, FlowsVanish DEF vars, rows, IInv, TypeOK
<1>2. CASE \E f \in Flow : Start(f)
  BY <1>2, StartStep
<1>3. CASE \E f \in Flow : Finish(f)
  BY <1>3, FinishStep
<1>4. CASE Own
  <2>1. CASE \E S \in SUBSET Sess : SessionsEnd(S)
    BY <2>1, OwnStep DEF SessionsEnd, IInv, TypeOK
  <2>2. ASSUME NEW u \in User, NEW k \in Key, RemovePasskeyCount(u, k)
        PROVE  IInv'
    BY <2>2, OwnStep, CountTypes DEF RemovePasskeyCount, rows, IInv, TypeOK
  <2>3. CASE \E p \in removing : RemovePasskeyDelete(p)
    BY <2>3, OwnStep DEF RemovePasskeyDelete, IInv, TypeOK
  <2> QED BY <1>4, <2>1, <2>2, <2>3 DEF Own
<1>5. CASE Administer
  <2>1. CASE \/ \E c \in Code : CreateInvite(c) \/ CreateRecovery(c)
             \/ \E C \in SUBSET Code : RevokeInvites(C)
    BY <2>1, CodeStep
  <2>2. ASSUME NEW u \in User, DisableUser(u) PROVE IInv'
    BY <2>2, Protected, OwnStep DEF DisableUser, IInv, TypeOK
  <2>3. ASSUME NEW u \in User, EndSessions(u) PROVE IInv'
    BY <2>3, OwnStep DEF EndSessions, IInv, TypeOK
  <2>4. ASSUME NEW u \in User, EnableUser(u) PROVE IInv'
    <3>1. u \notin admin
      BY <2>4 DEF EnableUser, IInv, OneAdministrator, References
    <3> QED
      BY <2>4, <3>1, OwnStep DEF EnableUser, IInv, TypeOK
  <2>5. ASSUME NEW u \in User, DeleteUser(u) PROVE IInv'
    BY <2>5, Protected, DeleteStep DEF DeleteUser, IInv, TypeOK
  <2> QED BY <1>5, <2>1, <2>2, <2>3, <2>4, <2>5 DEF Administer
<1>6. CASE HandlerFails
  BY <1>6, OwnStep DEF HandlerFails, rows, IInv, TypeOK
<1>7. CASE RestartHub
  BY <1>7, FlowsVanish DEF RestartHub, IInv, TypeOK, FlowRec, NoFlow
<1> QED
  BY <1>1, <1>2, <1>3, <1>4, <1>5, <1>6, <1>7 DEF Next

\* The tables, the ceremonies and the handlers have their types, and there is
\* exactly one administrator, enabled, as soon as there is an account.
THEOREM SoleAdministrator == Spec => [](TypeOK /\ OneAdministrator)
<1>1. IInv => TypeOK /\ OneAdministrator
  BY DEF IInv
<1> QED
  BY <1>1, InitStep, Inductive, PTL DEF Spec

\* No two accounts share a sandbox UID.
THEOREM SlotsDiffer == Spec => []DistinctSlots
<1>1. IInv => DistinctSlots
  BY DEF IInv
<1> QED
  BY <1>1, InitStep, Inductive, PTL DEF Spec

\* A code lets one account in, however many registrations race for it.
THEOREM OneAccountPerCode == Spec => []InvitePaysForOne
<1>1. IInv => InvitePaysForOne
  BY DEF IInv, PaidInv, Inside, InvitePaysForOne
<1> QED
  BY <1>1, InitStep, Inductive, PTL DEF Spec

\* The administrator never changes.
THEOREM AdministratorStays == Spec => AdminForever
<1>1. IInv /\ [Next]_vars => [admin # {} => admin' = admin]_vars
  <2> SUFFICES ASSUME IInv, Next, admin # {} PROVE admin' = admin
    BY DEF vars
  <2>1. CASE \E f \in Flow : Start(f)
    BY <2>1 DEF Start, RegisterStart, AddPasskeyStart, RecoverStart, LoginStart,
                InsertCeremony, rows
  <2>2. ASSUME NEW f \in Flow, Finish(f) PROVE admin' = admin
    <3>1. CASE CreateUser(f)
      BY <3>1 DEF CreateUser, BecomesAdmin, IInv, References
    <3>2. CASE Rollback(f)
      BY <3>2, AccountsAssumption DEF Rollback, DeleteRow, IInv, FlowShape,
                                      RollbackSafe
    <3>3. CASE ~CreateUser(f) /\ ~Rollback(f)
      BY <2>2, <3>3 DEF Finish, TakeCeremony, HandleTaken, Redeem, RedeemFails,
                        InsertCredential, CreateSession, FinishFails, rows
    <3> QED BY <3>1, <3>2, <3>3
  <2>3. CASE Own \/ HandlerFails \/ RestartHub
    BY <2>3 DEF Own, SessionsEnd, RemovePasskeyCount, RemovePasskeyDelete,
                HandlerFails, RestartHub, rows
  <2>4. CASE Administer
    <3>1. ASSUME NEW u \in User, DeleteUser(u) PROVE admin' = admin
      BY <3>1, Protected DEF DeleteUser, DeleteRow
    <3> QED
      BY <2>4, <3>1 DEF Administer, CreateInvite, CreateRecovery, IssueCode,
                        RevokeInvites, DisableUser, EndSessions, EnableUser
  <2> QED BY <2>1, <2>2, <2>3, <2>4 DEF Next
<1> QED
  BY <1>1, InitStep, Inductive, PTL DEF Spec, AdminForever

-----------------------------------------------------------------------------
(* Passkeys are not removed to the last. *)

\* a removal that no other one of its account has met is the only one of the
\* account, and the account has its passkey and one more
LoneRemoval ==
    \A p \in removing : p.alone =>
        /\ owner[p.key] = p.user
        /\ \E k \in Key : k # p.key /\ owner[k] = p.user
        /\ \A q \in removing : q.user = p.user => q = p

\* What the count establishes.
LEMMA Spare ==
    ASSUME NEW u, NEW k \in Key, owner[k] = u, SpareKey(u)
    PROVE  \E j \in Key : j # k /\ owner[j] = u
<1> SUFFICES ASSUME \A j \in Key : owner[j] = u => j = k PROVE FALSE
  OBVIOUS
<1>1. Keys(u) = {k}
  BY DEF Keys
<1> QED
  BY <1>1, FS_Singleton DEF SpareKey

\* Removals that vanish, and passkeys that are added, disturb no other removal.
LEMMA LoneKept ==
    ASSUME LoneRemoval, removing' \subseteq removing,
           \A p \in removing', k \in Key :
               owner[k] = p.user => owner'[k] = p.user,
           removing \in SUBSET Removal
    PROVE  LoneRemoval'
BY DEF LoneRemoval, Removal

\* No step disturbs a lone removal.
LEMMA LoneStep == IInv /\ LoneRemoval /\ [Next]_vars => LoneRemoval'
<1> USE AccountsAssumption
<1> SUFFICES ASSUME IInv, LoneRemoval, [Next]_vars PROVE LoneRemoval'
  OBVIOUS
<1>0. removing \in SUBSET Removal /\ owner \in [Key -> User \cup {None}]
  BY DEF IInv, TypeOK
<1>0a. \A p \in removing : p.user \in User /\ p.key \in Key /\ p.user # None
  BY <1>0 DEF Removal
<1>1. ASSUME removing' \subseteq removing, UNCHANGED owner PROVE LoneRemoval'
  BY <1>0, <1>1, LoneKept
<1>2. ASSUME NEW u \in User, DeleteRow(u) PROVE LoneRemoval'
  BY <1>0, <1>2, LoneKept DEF DeleteRow
<1>3. CASE UNCHANGED vars
  BY <1>1, <1>3 DEF vars, rows
<1>4. CASE \E f \in Flow : Start(f)
  BY <1>1, <1>4 DEF Start, RegisterStart, AddPasskeyStart, RecoverStart,
                    LoginStart, InsertCeremony, rows
<1>5. ASSUME NEW f \in Flow, Finish(f) PROVE LoneRemoval'
  <2>1. CASE InsertCredential(f)
    BY <1>0, <1>0a, <2>1, LoneKept DEF InsertCredential
  <2>2. CASE Rollback(f)
    BY <1>2, <2>2 DEF Rollback, IInv, FlowShape
  <2>3. CASE ~InsertCredential(f) /\ ~Rollback(f)
    BY <1>1, <1>5, <2>3 DEF Finish, TakeCeremony, CreateUser, HandleTaken, Redeem,
                            RedeemFails, CreateSession, FinishFails, rows
  <2> QED BY <2>1, <2>2, <2>3
<1>6. CASE Own
  <2>1. CASE \E S \in SUBSET Sess : SessionsEnd(S)
    BY <1>1, <2>1 DEF SessionsEnd
  <2>2. ASSUME NEW u \in User, NEW k \in Key, RemovePasskeyCount(u, k)
        PROVE  LoneRemoval'
    <3>1. UNCHANGED owner /\ owner[k] = u
      BY <2>2 DEF RemovePasskeyCount, rows
    <3>2. \E j \in Key : j # k /\ owner[j] = u
      BY <2>2, Spare DEF RemovePasskeyCount
    <3> DEFINE n == [user |-> u, key |-> k,
                     alone |-> \A p \in removing : p.user # u]
    <3>3. removing' = {[p EXCEPT !.alone = @ /\ p.user # u] : p \in removing}
                         \cup {n}
      BY <2>2 DEF RemovePasskeyCount
    <3>4. /\ n.user = u /\ n.key = k
          /\ n.alone => \A p \in removing : p.user # u
      OBVIOUS
    <3> HIDE DEF n
    <3>5. \A p \in removing' \ {n} : \E q \in removing :
             p = [q EXCEPT !.alone = @ /\ q.user # u]
      BY <3>3
    <3>5a. \A p \in removing' \ {n} : \E q \in removing :
              /\ p.user = q.user
              /\ q.user # u => p = q
              /\ q.user = u => ~p.alone
      <4> TAKE p \in removing' \ {n}
      <4>1. PICK q \in removing : p = [q EXCEPT !.alone = @ /\ q.user # u]
        BY <3>5
      <4>2. q \in Removal
        BY <1>0
      <4> QED
        BY <4>1, <4>2 DEF Removal
    <3> SUFFICES ASSUME NEW p \in removing', p.alone
                 PROVE  /\ owner[p.key] = p.user
                        /\ \E j \in Key : j # p.key /\ owner[j] = p.user
                        /\ \A q \in removing' : q.user = p.user => q = p
      BY <3>1 DEF LoneRemoval
    <3>6. CASE p = n
      BY <3>1, <3>2, <3>4, <3>5a, <3>6
    <3>7. CASE p # n
      <4>1. p \in removing /\ p.user # u
        BY <3>5a, <3>7
      <4> QED
        BY <3>4, <3>5a, <4>1 DEF LoneRemoval
    <3> QED BY <3>6, <3>7
  <2>3. ASSUME NEW p \in removing, RemovePasskeyDelete(p) PROVE LoneRemoval'
    <3>1. \A q \in removing' : q \in removing /\ q # p
      BY <2>3 DEF RemovePasskeyDelete
    <3>2. \A k \in Key : owner'[k] = owner[k] \/ owner[k] = p.user
      BY <1>0, <2>3 DEF RemovePasskeyDelete
    <3> QED
      BY <1>0a, <3>1, <3>2 DEF LoneRemoval
  <2> QED BY <1>6, <2>1, <2>2, <2>3 DEF Own
<1>7. CASE Administer
  <2>1. ASSUME NEW u \in User, DeleteUser(u) PROVE LoneRemoval'
    BY <1>2, <2>1 DEF DeleteUser
  <2> QED
    BY <1>1, <1>7, <2>1 DEF Administer, CreateInvite, CreateRecovery, IssueCode,
                            RevokeInvites, DisableUser, EndSessions, EnableUser
<1>8. CASE HandlerFails \/ RestartHub
  BY <1>1, <1>8 DEF HandlerFails, RestartHub, rows
<1> QED
  BY <1>3, <1>4, <1>5, <1>6, <1>7, <1>8 DEF Next

\* An account keeps a passkey until it is deleted, unless two of its removals
\* overlapped.
THEOREM PasskeysKept == Spec => LastPasskeyKept
<1> USE AccountsAssumption
<1>1. Init => LoneRemoval
  BY DEF Init, LoneRemoval
<1>2. IInv /\ LoneRemoval /\ [Next]_vars =>
        [\A u \in User : Keys(u) # {} /\ Keys(u)' = {} =>
            \/ acct'[u] = "none"
            \/ \E p \in removing : p.user = u /\ ~p.alone]_vars
  <2> SUFFICES ASSUME IInv, LoneRemoval, Next, NEW u \in User,
                      NEW k \in Key, owner[k] = u,
                      \A j \in Key : owner'[j] # u
               PROVE  \/ acct'[u] = "none"
                      \/ \E p \in removing : p.user = u /\ ~p.alone
    BY DEF Keys
  <2>0. /\ owner \in [Key -> User \cup {None}] /\ removing \in SUBSET Removal
        /\ acct \in [User -> {"none", "on", "off"}]
    BY DEF IInv, TypeOK
  <2>1. owner'[k] # owner[k]
    OBVIOUS
  <2>2. CASE \E f \in Flow : Start(f)
    BY <2>1, <2>2 DEF Start, RegisterStart, AddPasskeyStart, RecoverStart,
                      LoginStart, InsertCeremony, rows
  <2>3. ASSUME NEW v \in User, DeleteRow(v) PROVE acct'[u] = "none"
    BY <2>0, <2>1, <2>3 DEF DeleteRow
  <2>4. ASSUME NEW f \in Flow, Finish(f) PROVE acct'[u] = "none"
    <3>1. CASE InsertCredential(f)
      BY <2>0, <2>1, <3>1 DEF InsertCredential
    <3>2. CASE Rollback(f)
      BY <2>3, <3>2 DEF Rollback, IInv, FlowShape
    <3>3. CASE ~InsertCredential(f) /\ ~Rollback(f)
      BY <2>1, <2>4, <3>3 DEF Finish, TakeCeremony, CreateUser, HandleTaken,
                              Redeem, RedeemFails, CreateSession, FinishFails,
                              rows
    <3> QED BY <3>1, <3>2, <3>3
  <2>5. CASE \E p \in removing : RemovePasskeyDelete(p)
    <3>1. PICK p \in removing : RemovePasskeyDelete(p)
      BY <2>5
    <3>2. p.key = k /\ p.user = u
      BY <2>0, <2>1, <3>1 DEF RemovePasskeyDelete, Removal
    <3>3. \A j \in Key : owner[j] = u => j = k
      BY <2>0, <3>1, <3>2 DEF RemovePasskeyDelete, Removal
    <3> QED
      BY <3>2, <3>3 DEF LoneRemoval
  <2>6. CASE \/ \E S \in SUBSET Sess : SessionsEnd(S)
             \/ \E v \in User, j \in Key : RemovePasskeyCount(v, j)
             \/ HandlerFails \/ RestartHub
    BY <2>1, <2>6 DEF SessionsEnd, RemovePasskeyCount, HandlerFails, RestartHub,
                      rows
  <2>7. CASE Administer
    <3>1. ASSUME NEW v \in User, DeleteUser(v) PROVE acct'[u] = "none"
      BY <2>3, <3>1 DEF DeleteUser
    <3> QED
      BY <2>1, <2>7, <3>1 DEF Administer, CreateInvite, CreateRecovery, IssueCode,
                              RevokeInvites, DisableUser, EndSessions, EnableUser
  <2> QED BY <2>2, <2>4, <2>5, <2>6, <2>7 DEF Next, Own
<1> QED
  BY <1>1, <1>2, InitStep, Inductive, LoneStep, PTL DEF Spec, LastPasskeyKept
=============================================================================
