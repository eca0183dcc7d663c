-------------------------- MODULE RefreshTokensProofs --------------------------
(***************************************************************************)
(* Proofs about RefreshTokens, for any number of requests, any device cap, *)
(* and histories of any length.                                            *)
(*                                                                         *)
(* The inductive invariant is IndInv.  LinearRotation needs to know that   *)
(* the next row is still blank (BlankAhead), that families are named by    *)
(* rows that exist (FamilyNamed), and that the row a request works on      *)
(* exists (RequestsHoldRows); OneLeafPerFamily follows from it.            *)
(*                                                                         *)
(* For liveness, StepsLeft counts the statements a request has still to    *)
(* send; RequestsEnd descends over it, by induction on the count.          *)
(***************************************************************************)
EXTENDS RefreshTokens, FiniteSetTheorems, WellFoundedInduction, TLAPS

\* A family is named by the row that opened it.
FamilyNamed == \A t \in 1..rows : family[t] \in 1..t

\* Nothing has touched the rows that do not exist yet.
BlankAhead ==
  \A t \in RowIds : t > rows => ~revokedAt[t] /\ replacedById[t] = NoRow

\* The rows a request refers to exist, and before its answer only a login
\* carries a grant.
RequestsHoldRows ==
  \A r \in Requests :
    /\ req[r].snap \subseteq 1..rows
    /\ req[r].pc \in {"rotate", "sign"} => req[r].tok \in 1..rows
    /\ req[r].grants /\ req[r].pc = "reply" => req[r].tok \in 1..rows
    /\ req[r].grants => req[r].op = "login" \/ req[r].pc = "reply"
    /\ req[r].pc \in {"rotate", "sign"} => ~req[r].grants

IndInv ==
  /\ TypeOK
  /\ FamilyNamed
  /\ BlankAhead
  /\ RequestsHoldRows
  /\ LinearRotation

-----------------------------------------------------------------------------
(* The four things a step can do to the stored rows.                       *)

StoreSame == UNCHANGED <<rows, family, revokedAt, replacedById>>

Opens == Insert(rows + 1, NoRow)

Exchanges(t) ==
  /\ t \in 1..rows
  /\ ~revokedAt[t]
  /\ replacedById[t] = NoRow
  /\ Insert(family[t], t)

Revokes(S) ==
  /\ revokedAt' = [t \in RowIds |-> revokedAt[t] \/ t \in S]
  /\ UNCHANGED <<rows, family, replacedById>>

\* Whatever request takes the step, it inserts the first row of a family,
\* exchanges an unrevoked row, revokes existing rows, or leaves them alone.
LEMMA StoreStep ==
  ASSUME TypeOK, RequestsHoldRows, [Next]_vars
  PROVE  \/ StoreSame
         \/ Opens
         \/ \E t \in 1..rows : Exchanges(t)
         \/ \E S \in SUBSET (1..rows) : Revokes(S)
<1> USE DEF StoreSame, Opens, Exchanges, Revokes
<1>1. CASE UNCHANGED vars
  BY <1>1 DEF vars
<1>2. CASE Expire
  BY <1>2 DEF Expire
<1>3. ASSUME NEW r \in Requests, Begin(r)
      PROVE  StoreSame \/ \E S \in SUBSET (1..rows) : Revokes(S)
  <2>1. CASE Login(r) \/ LogoutAll(r) \/ RevokeAllSessions(r)
    BY <2>1 DEF Login, LogoutAll, RevokeAllSessions
  <2>2. ASSUME NEW t \in RowIds, Refresh(r, t) \/ RevokeSession(r, t)
        PROVE  StoreSame
    BY <2>2 DEF Refresh, RevokeSession
  <2>3. ASSUME NEW t \in RowIds, Logout(r, t)
        PROVE  \E S \in SUBSET (1..rows) : Revokes(S)
    <3>1. t \in 1..rows
      BY <2>3 DEF Logout, TypeOK
    <3>2. Revokes({t})
      BY <2>3 DEF Logout, TypeOK
    <3> QED
      BY <3>1, <3>2
  <2> QED
    BY <1>3, <2>1, <2>2, <2>3 DEF Begin
<1>4. ASSUME NEW r \in Requests, Fail(r) \/ EnforceCap(r) \/ Snapshot(r)
                                    \/ LoseRace(r) \/ Sign(r) \/ Bump(r)
                                    \/ Reply(r)
      PROVE  StoreSame
  BY <1>4 DEF Fail, EnforceCap, Snapshot, LoseRace, Sign, Bump, Reply
<1>5. ASSUME NEW r \in Requests, Apply(r)
      PROVE  \E S \in SUBSET (1..rows) : Revokes(S)
  <2>1. Revokes(req[r].snap)
    BY <1>5 DEF Apply
  <2> QED
    BY <2>1 DEF RequestsHoldRows
<1>6. ASSUME NEW r \in Requests, Issue(r)
      PROVE  Opens
  BY <1>6 DEF Issue
<1>7. ASSUME NEW r \in Requests, Rotate(r)
      PROVE  \E t \in 1..rows : Exchanges(t)
  <2>1. Exchanges(req[r].tok)
    BY <1>7 DEF Rotate, RequestsHoldRows
  <2> QED
    BY <2>1
<1> QED
  BY <1>1, <1>2, <1>3, <1>4, <1>5, <1>6, <1>7 DEF Next, Step

-----------------------------------------------------------------------------
(* Type correctness.                                                       *)

LEMMA IdleIsRequest == Idle \in Request
BY ConstantsAssumption DEF Idle, Request, Pcs, Ops, NoRow, RowIds, Versions

\* A request record that stays within its type, replaced in req.
LEMMA ContinueTyped ==
  ASSUME TypeOK, NEW r \in Requests, NEW next \in Request, Continue(r, next)
  PROVE  req' \in [Requests -> Request]
BY DEF TypeOK, Continue

LEMMA InsertTyped ==
  ASSUME TypeOK, NEW f \in 1..MaxRows, NEW t \in 0..MaxRows, Insert(f, t)
  PROVE  /\ rows + 1 \in RowIds
         /\ rows' \in 0..MaxRows
         /\ family' \in [RowIds -> 0..MaxRows]
         /\ revokedAt' \in [RowIds -> BOOLEAN]
         /\ replacedById' \in [RowIds -> 0..MaxRows]
         /\ 1..rows \subseteq 1..rows'
<1> USE ConstantsAssumption DEF TypeOK, RowIds, NoRow
<1>1. rows \in Nat /\ rows < MaxRows /\ rows' = rows + 1
  BY DEF Insert
<1>2. rows + 1 \in 1..MaxRows /\ rows' \in 0..MaxRows /\ 1..rows \subseteq 1..rows'
  BY <1>1
<1>3. family' \in [RowIds -> 0..MaxRows]
  BY <1>2 DEF Insert
<1>4. CASE t = 0
  BY <1>2, <1>3, <1>4 DEF Insert
<1>5. CASE t # 0
  <2>1. revokedAt' = [revokedAt EXCEPT ![t] = TRUE]
    BY <1>5 DEF Insert
  <2>2. replacedById' = [replacedById EXCEPT ![t] = rows + 1]
    BY <1>5 DEF Insert
  <2>3. replacedById' \in [RowIds -> 0..MaxRows]
    <3>1. rows + 1 \in 0..MaxRows
      BY <1>2
    <3> QED
      BY <2>2, <3>1
  <2> QED
    BY <2>1, <2>3, <1>2, <1>3
<1> QED
  BY <1>4, <1>5

LEMMA TypeStep ==
  ASSUME TypeOK, RequestsHoldRows, FamilyNamed, [Next]_vars
  PROVE  TypeOK'
<1> USE ConstantsAssumption
<1>1. CASE UNCHANGED vars
  BY <1>1 DEF vars, TypeOK
<1>2. CASE Expire
  BY <1>2 DEF Expire, TypeOK
<1>3. ASSUME NEW r \in Requests, Begin(r)
      PROVE  TypeOK'
  <2> USE IdleIsRequest DEF Request, Pcs, Ops, Versions, RowIds
  <2>1. CASE Login(r)
    <3>1. [Idle EXCEPT !.pc = "cap", !.op = "login", !.ver = tokenVersion,
                       !.grants = TRUE] \in Request
      BY DEF TypeOK, Idle
    <3> QED
      BY <2>1, <3>1, ContinueTyped DEF Login, TypeOK
  <2>2. CASE LogoutAll(r)
    <3>1. [Idle EXCEPT !.pc = "bump", !.op = "logout_all",
                       !.ver = tokenVersion] \in Request
      BY DEF TypeOK, Idle
    <3> QED
      BY <2>2, <3>1, ContinueTyped DEF LogoutAll, TypeOK
  <2>3. CASE RevokeAllSessions(r)
    <3>1. [Idle EXCEPT !.pc = "revoke", !.op = "revoke_all",
                       !.ver = tokenVersion] \in Request
      BY DEF TypeOK, Idle
    <3> QED
      BY <2>3, <3>1, ContinueTyped DEF RevokeAllSessions, TypeOK
  <2>4. ASSUME NEW t \in RowIds, Refresh(r, t)
        PROVE  TypeOK'
    <3>1. PICK p \in {"revoke", "reply", "rotate"}, o \in {"burn", "refresh"} :
            Continue(r, [Idle EXCEPT !.pc = p, !.op = o, !.tok = t])
      BY <2>4 DEF Refresh, AfterLookup
    <3> t \in 0..MaxRows
      OBVIOUS
    <3>2. [Idle EXCEPT !.pc = p, !.op = o, !.tok = t] \in Request
      BY DEF Idle
    <3> QED
      BY <2>4, <3>1, <3>2, ContinueTyped DEF Refresh, TypeOK
  <2>5. ASSUME NEW t \in RowIds, Logout(r, t)
        PROVE  TypeOK'
    BY <2>5 DEF Logout, TypeOK
  <2>6. ASSUME NEW t \in RowIds, RevokeSession(r, t)
        PROVE  TypeOK'
    <3> t \in 0..MaxRows
      OBVIOUS
    <3>1. [Idle EXCEPT !.pc = "revoke", !.op = "revoke_one", !.tok = t]
            \in Request
      BY DEF Idle
    <3> QED
      BY <2>6, <3>1, ContinueTyped DEF RevokeSession, TypeOK
  <2> QED
    BY <1>3, <2>1, <2>2, <2>3, <2>4, <2>5, <2>6 DEF Begin
<1>4. ASSUME NEW r \in Requests,
             Fail(r) \/ EnforceCap(r) \/ Snapshot(r) \/ LoseRace(r) \/ Sign(r)
      PROVE  TypeOK'
  <2> USE DEF Request, Pcs, Ops, Versions
  <2>1. req[r] \in Request
    BY DEF TypeOK
  <2>2. CASE Fail(r)
    BY <2>2, IdleIsRequest, ContinueTyped DEF Fail, TypeOK
  <2>3. CASE EnforceCap(r)
    <3>1. OverCap \in SUBSET RowIds
      BY DEF OverCap, FirstActive, ActiveRows, LiveRows, TypeOK, RowIds
    <3>2. AfterCap(OverCap) \in Pcs
      BY DEF AfterCap
    <3>3. [req[r] EXCEPT !.pc = AfterCap(OverCap), !.todo = OverCap] \in Request
      BY <2>1, <3>1, <3>2
    <3> QED
      BY <2>3, <3>3, ContinueTyped DEF EnforceCap, TypeOK
  <2>4. CASE Snapshot(r)
    <3> DEFINE todo == {t \in req[r].todo : \E u \in req[r].todo : u < t}
    <3>1. Selected(r) \in SUBSET RowIds
      BY DEF Selected, FamilyRows, LiveRows, TypeOK, RowIds
    <3>2. todo \in SUBSET RowIds
      BY <2>1
    <3>3. [req[r] EXCEPT !.pc = "apply", !.snap = Selected(r), !.todo = todo]
            \in Request
      BY <2>1, <3>1, <3>2
    <3>4. Continue(r, [req[r] EXCEPT !.pc = "apply", !.snap = Selected(r),
                                     !.todo = todo])
      BY <2>4 DEF Snapshot
    <3> QED
      BY <2>4, <3>3, <3>4, ContinueTyped DEF Snapshot, TypeOK
  <2>5. CASE LoseRace(r)
    <3>1. [req[r] EXCEPT !.pc = "revoke", !.op = "burn"] \in Request
      BY <2>1
    <3> QED
      BY <2>5, <3>1, ContinueTyped DEF LoseRace, TypeOK
  <2>6. CASE Sign(r)
    <3>1. [req[r] EXCEPT !.pc = "reply", !.ver = tokenVersion, !.grants = TRUE]
            \in Request
      BY <2>1 DEF TypeOK
    <3> QED
      BY <2>6, <3>1, ContinueTyped DEF Sign, TypeOK
  <2> QED
    BY <1>4, <2>2, <2>3, <2>4, <2>5, <2>6
<1>5. ASSUME NEW r \in Requests, Bump(r) \/ Apply(r) \/ Reply(r)
      PROVE  TypeOK'
  <2>1. req[r] \in Request
    BY DEF TypeOK
  <2>2. CASE Bump(r)
    <3>1. [req[r] EXCEPT !.pc = "revoke"] \in Request
      BY <2>1 DEF Request, Pcs
    <3>2. tokenVersion' \in Versions
      BY <2>2 DEF Bump, Versions, TypeOK
    <3> QED
      BY <2>2, <3>1, <3>2, ContinueTyped DEF Bump, TypeOK
  <2>3. CASE Apply(r)
    <3> DEFINE p == IF req[r].op = "login" THEN AfterCap(req[r].todo) ELSE "reply"
    <3>1. p \in Pcs
      BY DEF AfterCap, Pcs
    <3>2. [req[r] EXCEPT !.pc = p] \in Request
      <4> HIDE DEF p
      <4> QED
        BY <2>1, <3>1 DEF Request
    <3>3. req' \in [Requests -> Request]
      BY <2>3, <3>2, ContinueTyped DEF Apply
    <3>4. tokenVersion' \in Versions
      BY <2>3 DEF Apply, Versions, TypeOK
    <3>5. revokedAt' \in [RowIds -> BOOLEAN]
      BY <2>3 DEF Apply
    <3> QED
      BY <2>3, <3>3, <3>4, <3>5 DEF Apply, TypeOK
  <2>4. CASE Reply(r)
    <3>1. held' \subseteq 1..rows /\ access' \subseteq Versions
      <4>1. CASE req[r].grants
        <5>1. req[r].tok \in 1..rows /\ req[r].ver \in Versions
          BY <2>1, <2>4, <4>1 DEF Reply, RequestsHoldRows, Request
        <5> QED
          BY <2>4, <4>1, <5>1 DEF Reply, TypeOK
      <4>2. CASE ~req[r].grants
        BY <2>4, <4>2 DEF Reply, TypeOK
      <4> QED
        BY <4>1, <4>2
    <3> QED
      BY <2>4, <3>1, IdleIsRequest, ContinueTyped DEF Reply, TypeOK
  <2> QED
    BY <1>5, <2>2, <2>3, <2>4
<1>6. ASSUME NEW r \in Requests, Issue(r)
      PROVE  TypeOK'
  <2>1. rows + 1 \in RowIds /\ rows + 1 \in 1..MaxRows /\ NoRow \in 0..MaxRows
    BY <1>6 DEF Issue, Insert, TypeOK, RowIds, NoRow
  <2>2. Insert(rows + 1, NoRow)
    BY <1>6 DEF Issue
  <2>3. [req[r] EXCEPT !.pc = "reply", !.tok = rows + 1] \in Request
    <3>1. req[r] \in Request /\ rows + 1 \in 0..MaxRows
      BY <2>1 DEF TypeOK
    <3> QED
      BY <3>1 DEF Request, Pcs
  <2>4. horizon \in 0..rows' /\ held \subseteq 1..rows'
    BY <2>2 DEF Insert, TypeOK
  <2>5. req' \in [Requests -> Request]
    BY <1>6, <2>3, ContinueTyped DEF Issue
  <2> QED
    BY <1>6, <2>1, <2>2, <2>4, <2>5, InsertTyped DEF Issue, TypeOK
<1>7. ASSUME NEW r \in Requests, Rotate(r)
      PROVE  TypeOK'
  <2> DEFINE t == req[r].tok
  <2>1. t \in 1..rows /\ Insert(family[t], t)
    BY <1>7 DEF Rotate, RequestsHoldRows
  <2>2. family[t] \in 1..MaxRows /\ t \in 0..MaxRows
    BY <2>1 DEF FamilyNamed, TypeOK
  <2>3. rows + 1 \in 0..MaxRows
    BY <2>1 DEF Insert, TypeOK
  <2>4. PICK p \in {"sign", "revoke"}, o \in {"burn", "refresh"} :
          Continue(r, [req[r] EXCEPT !.pc = p, !.op = o, !.tok = rows + 1])
    BY <1>7 DEF Rotate
  <2>5. [req[r] EXCEPT !.pc = p, !.op = o, !.tok = rows + 1] \in Request
    <3>1. req[r] \in Request
      BY DEF TypeOK
    <3> QED
      BY <2>3, <3>1 DEF Request, Pcs, Ops
  <2>6. req' \in [Requests -> Request]
    BY <2>4, <2>5, ContinueTyped
  <2>7. horizon \in 0..rows' /\ held \subseteq 1..rows'
    BY <2>1 DEF Insert, TypeOK
  <2> HIDE DEF t
  <2> QED
    BY <1>7, <2>1, <2>2, <2>6, <2>7, InsertTyped DEF Rotate, TypeOK
<1> QED
  BY <1>1, <1>2, <1>3, <1>4, <1>5, <1>6, <1>7 DEF Next, Step

-----------------------------------------------------------------------------
(* The rest of the inductive invariant.                                    *)

\* Rows are never lost: what a request referred to still exists afterwards.
LEMMA RequestsStep ==
  ASSUME TypeOK, RequestsHoldRows, [Next]_vars
  PROVE  RequestsHoldRows'
<1> USE DEF RequestsHoldRows
<1>1. rows \in Nat /\ rows' \in Nat /\ rows <= rows'
  BY ConstantsAssumption, StoreStep
     DEF StoreSame, Opens, Exchanges, Revokes, Insert, TypeOK
<1>2. 1..rows \subseteq 1..rows'
  BY <1>1
<1>3. CASE UNCHANGED <<req>>
  BY <1>2, <1>3
<1>4. ASSUME NEW r \in Requests, NEW next, Continue(r, next),
             next.snap \subseteq 1..rows',
             next.pc \in {"rotate", "sign"} => next.tok \in 1..rows',
             next.grants /\ next.pc = "reply" => next.tok \in 1..rows',
             next.grants => next.op = "login" \/ next.pc = "reply",
             next.pc \in {"rotate", "sign"} => ~next.grants
      PROVE  RequestsHoldRows'
  BY <1>2, <1>4 DEF Continue, TypeOK
<1>5. ASSUME NEW r \in Requests, Begin(r)
      PROVE  RequestsHoldRows'
  <2>1. CASE Login(r)
    BY <1>4, <2>1 DEF Login, Idle
  <2>2. CASE LogoutAll(r)
    BY <1>4, <2>2 DEF LogoutAll, Idle
  <2>3. CASE RevokeAllSessions(r)
    BY <1>4, <2>3 DEF RevokeAllSessions, Idle
  <2>4. ASSUME NEW t \in RowIds, Refresh(r, t)
        PROVE  RequestsHoldRows'
    <3>1. t \in 1..rows'
      BY <1>2, <2>4 DEF Refresh, TypeOK
    <3>2. PICK p, o : Continue(r, [Idle EXCEPT !.pc = p, !.op = o, !.tok = t])
      BY <2>4 DEF Refresh
    <3> QED
      BY <1>4, <3>1, <3>2 DEF Idle
  <2>5. ASSUME NEW t \in RowIds, Logout(r, t)
        PROVE  RequestsHoldRows'
    BY <1>3, <2>5 DEF Logout
  <2>6. ASSUME NEW t \in RowIds, RevokeSession(r, t)
        PROVE  RequestsHoldRows'
    BY <1>4, <2>6 DEF RevokeSession, Idle
  <2> QED
    BY <1>5, <2>1, <2>2, <2>3, <2>4, <2>5, <2>6 DEF Begin
<1>6. ASSUME NEW r \in Requests, Step(r) \/ Fail(r)
      PROVE  RequestsHoldRows'
  <2> DEFINE q == req[r]
  <2> q \in Request
    BY DEF TypeOK
  <2> USE DEF Request
  <2>0. q.snap \subseteq 1..rows'
    BY <1>2
  <2>1. CASE EnforceCap(r)
    <3>1. AfterCap(OverCap) \in {"create", "revoke"}
      BY DEF AfterCap
    <3> QED
      BY <1>4, <2>0, <2>1, <3>1 DEF EnforceCap
  <2>2. CASE Snapshot(r)
    <3>1. Selected(r) \subseteq 1..rows'
      BY <1>2 DEF Selected, FamilyRows, LiveRows
    <3> QED
      BY <1>4, <2>2, <3>1 DEF Snapshot
  <2>3. CASE Apply(r)
    <3>1. CASE q.op = "login"
      <4>1. PICK p \in {"create", "revoke"} : Continue(r, [q EXCEPT !.pc = p])
        BY <2>3, <3>1 DEF Apply, AfterCap
      <4> QED
        BY <1>4, <2>0, <3>1, <4>1
    <3>2. CASE q.op # "login"
      <4>1. Continue(r, [q EXCEPT !.pc = "reply"])
        BY <2>3, <3>2 DEF Apply
      <4>2. ~q.grants
        BY <2>3, <3>2 DEF Apply
      <4> QED
        BY <1>4, <2>0, <4>1, <4>2
    <3> QED
      BY <3>1, <3>2
  <2>4. CASE Issue(r)
    <3>1. rows + 1 \in 1..rows'
      BY <1>1, <2>4 DEF Issue, Insert
    <3> QED
      BY <1>4, <2>0, <2>4, <3>1 DEF Issue
  <2>5. CASE Rotate(r)
    <3>1. rows + 1 \in 1..rows'
      BY <1>1, <2>5 DEF Rotate, Insert
    <3>2. PICK p, o : Continue(r, [q EXCEPT !.pc = p, !.op = o, !.tok = rows + 1])
      BY <2>5 DEF Rotate
    <3>3. ~q.grants
      BY <2>5 DEF Rotate
    <3> QED
      BY <1>4, <2>0, <3>1, <3>2, <3>3
  <2>6. CASE LoseRace(r)
    BY <1>4, <2>0, <2>6 DEF LoseRace
  <2>7. CASE Sign(r)
    <3>1. q.tok \in 1..rows'
      BY <1>2, <2>7 DEF Sign
    <3> QED
      BY <1>4, <2>0, <2>7, <3>1 DEF Sign
  <2>8. CASE Bump(r)
    BY <1>4, <2>0, <2>8 DEF Bump
  <2>9. CASE Reply(r) \/ Fail(r)
    BY <1>4, <2>9 DEF Reply, Fail, Idle
  <2> QED
    BY <1>6, <2>1, <2>2, <2>3, <2>4, <2>5, <2>6, <2>7, <2>8, <2>9 DEF Step
<1> QED
  BY <1>3, <1>5, <1>6 DEF Next, vars, Expire

\* What LinearRotation says of one replaced row, with its bounds spelt out.
LEMMA ReplacedRow ==
  ASSUME IndInv, NEW t \in 1..rows, replacedById[t] # NoRow
  PROVE  /\ revokedAt[t]
         /\ replacedById[t] \in Nat
         /\ t < replacedById[t]
         /\ replacedById[t] <= rows
         /\ replacedById[t] \in 1..rows
         /\ family[replacedById[t]] = family[t]
         /\ \A u \in 1..rows : replacedById[u] = replacedById[t] => u = t
<1>1. rows \in Nat /\ t \in Nat
  BY DEF IndInv, TypeOK
<1>2. /\ revokedAt[t]
      /\ replacedById[t] \in t+1..rows
      /\ family[replacedById[t]] = family[t]
      /\ \A u \in 1..rows : replacedById[u] = replacedById[t] => u = t
  BY DEF IndInv, LinearRotation
<1> QED
  BY <1>1, <1>2

\* The invariant of the stored rows, by the four cases of StoreStep.
LEMMA RowsStep ==
  ASSUME IndInv, [Next]_vars
  PROVE  FamilyNamed' /\ BlankAhead' /\ LinearRotation'
<1>0. /\ rows \in Nat /\ MaxRows \in Nat /\ rows <= MaxRows
      /\ family \in [1..MaxRows -> 0..MaxRows]
      /\ revokedAt \in [1..MaxRows -> BOOLEAN]
      /\ replacedById \in [1..MaxRows -> 0..MaxRows]
      /\ FamilyNamed /\ BlankAhead /\ LinearRotation
  BY ConstantsAssumption DEF IndInv, TypeOK, RowIds
<1> USE <1>0 DEF FamilyNamed, BlankAhead, RowIds, NoRow
<1>1. CASE StoreSame
  BY <1>1 DEF StoreSame, LinearRotation
<1>2. CASE Opens
  <2>1. /\ rows + 1 \in RowIds
        /\ rows' = rows + 1
        /\ family' = [family EXCEPT ![rows + 1] = rows + 1]
        /\ UNCHANGED <<revokedAt, replacedById>>
    BY <1>2 DEF Opens, Insert
  <2>2. FamilyNamed' /\ BlankAhead'
    BY <2>1
  <2>3. ASSUME NEW t \in 1..rows', NEW u \in 1..rows', t < u,
               family'[t] = family'[u]
        PROVE  replacedById'[t] # NoRow
    <3>1. t \in 1..rows /\ family'[t] = family[t] /\ family[t] # rows + 1
      BY <2>1, <2>3
    <3>2. u \in 1..rows
      BY <2>1, <2>3, <3>1
    <3> QED
      BY <2>1, <2>3, <3>1, <3>2 DEF LinearRotation
  <2>4. ASSUME NEW t \in 1..rows', replacedById'[t] # NoRow
        PROVE  /\ revokedAt'[t]
               /\ replacedById'[t] \in t+1..rows'
               /\ family'[replacedById'[t]] = family'[t]
               /\ \A u \in 1..rows' : replacedById'[u] = replacedById'[t] => u = t
    <3>1. t \in 1..rows
      BY <2>1, <2>4
    <3>2. replacedById'[t] = replacedById[t] /\ revokedAt'[t] = revokedAt[t]
      BY <2>1
    <3>3. replacedById[t] \in 1..rows /\ t < replacedById[t] /\ revokedAt[t]
          /\ family[replacedById[t]] = family[t]
      BY <2>4, <3>1, <3>2, ReplacedRow
    <3>4. ASSUME NEW u \in 1..rows', replacedById'[u] = replacedById'[t]
          PROVE  u = t
      <4>1. u # rows + 1
        BY <2>1, <2>4, <3>4
      <4> QED
        BY <2>1, <2>4, <3>1, <3>2, <4>1, <3>4, ReplacedRow, SMTT(30)
    <3> QED
      BY <2>1, <3>1, <3>2, <3>3, <3>4, SMTT(30)
  <2> QED
    BY <2>2, <2>3, <2>4 DEF LinearRotation
<1>3. ASSUME NEW x \in 1..rows, Exchanges(x)
      PROVE  FamilyNamed' /\ BlankAhead' /\ LinearRotation'
  <2>1. /\ rows + 1 \in RowIds
        /\ rows' = rows + 1
        /\ family' = [family EXCEPT ![rows + 1] = family[x]]
        /\ revokedAt' = [revokedAt EXCEPT ![x] = TRUE]
        /\ replacedById' = [replacedById EXCEPT ![x] = rows + 1]
        /\ x \in RowIds /\ replacedById[x] = NoRow
    BY <1>3 DEF Exchanges, Insert
  <2>2. FamilyNamed' /\ BlankAhead'
    BY <2>1
  <2>3. ASSUME NEW t \in 1..rows', NEW u \in 1..rows', t < u,
               family'[t] = family'[u]
        PROVE  replacedById'[t] # NoRow
    <3>1. t \in 1..rows /\ t # rows + 1 /\ family'[t] = family[t]
      BY <2>1, <2>3
    <3>2. CASE t = x
      BY <2>1, <3>2
    <3>3. CASE u \in 1..rows
      BY <2>1, <2>3, <3>1, <3>3 DEF LinearRotation
    <3>4. CASE u = rows + 1 /\ t # x
      <4>1. family[t] = family[x]
        BY <2>1, <2>3, <3>1, <3>4
      <4>2. t < x
        BY <2>1, <3>1, <3>4, <4>1 DEF LinearRotation
      <4> QED
        BY <2>1, <3>1, <3>4, <4>1, <4>2 DEF LinearRotation
    <3> QED
      BY <2>1, <3>2, <3>3, <3>4
  <2>4. ASSUME NEW t \in 1..rows', replacedById'[t] # NoRow
        PROVE  /\ revokedAt'[t]
               /\ replacedById'[t] \in t+1..rows'
               /\ family'[replacedById'[t]] = family'[t]
               /\ \A u \in 1..rows' : replacedById'[u] = replacedById'[t] => u = t
    <3>1. t \in 1..rows
      BY <2>1, <2>4
    <3>2. ASSUME NEW u \in 1..rows
          PROVE  replacedById[u] # rows + 1
      <4>1. CASE replacedById[u] = NoRow
        BY <4>1
      <4>2. CASE replacedById[u] # NoRow
        BY <4>2, ReplacedRow
      <4> QED
        BY <4>1, <4>2
    <3>3. CASE t = x
      <4>1. replacedById'[t] = rows + 1 /\ revokedAt'[t]
        BY <2>1, <3>3
      <4>2. family'[rows + 1] = family[x] /\ family'[x] = family[x]
        BY <2>1
      <4>3. ASSUME NEW u \in 1..rows', replacedById'[u] = rows + 1
            PROVE  u = t
        <5>1. CASE u = rows + 1
          BY <2>1, <4>3, <5>1
        <5>2. CASE u \in 1..rows
          BY <2>1, <3>2, <3>3, <4>3, <5>2
        <5> QED
          BY <2>1, <5>1, <5>2
      <4> QED
        BY <2>1, <3>3, <4>1, <4>2, <4>3
    <3>4. CASE t # x
      <4>1. replacedById'[t] = replacedById[t] /\ replacedById[t] # NoRow
        BY <2>1, <2>4, <3>1, <3>4
      <4>2. /\ revokedAt[t]
            /\ replacedById[t] \in Nat /\ t < replacedById[t]
            /\ replacedById[t] <= rows /\ replacedById[t] \in 1..rows
            /\ family[replacedById[t]] = family[t]
        BY <3>1, <4>1, ReplacedRow
      <4>3. ASSUME NEW u \in 1..rows', replacedById'[u] = replacedById[t]
            PROVE  u = t
        <5>1. u # rows + 1
          BY <2>1, <4>1, <4>3
        <5>2. u # x
          BY <2>1, <4>1, <4>2, <4>3
        <5>3. u \in 1..rows /\ replacedById[u] = replacedById[t]
          BY <2>1, <4>3, <5>1, <5>2
        <5> QED
          BY <3>1, <4>1, <5>3, ReplacedRow
      <4>4. revokedAt'[t] /\ replacedById'[t] \in t+1..rows'
        <5>1. revokedAt'[t]
          BY <2>1, <3>1, <3>4, <4>2
        <5>2. replacedById[t] \in t+1..rows+1
          BY <3>1, <4>2, SMTT(30)
        <5> QED
          BY <2>1, <4>1, <5>1, <5>2
      <4>5. family'[replacedById'[t]] = family'[t]
        <5>1. family'[t] = family[t]
          BY <2>1, <3>1
        <5>2. family'[replacedById[t]] = family[replacedById[t]]
          BY <2>1, <4>2
        <5> QED
          BY <4>1, <4>2, <5>1, <5>2
      <4> QED
        BY <4>1, <4>3, <4>4, <4>5
    <3> QED
      BY <3>3, <3>4
  <2> HIDE <1>0
  <2>5. LinearRotation'
    BY <2>3, <2>4 DEF LinearRotation
  <2> QED
    BY <2>2, <2>5
<1>4. ASSUME NEW S \in SUBSET (1..rows), Revokes(S)
      PROVE  FamilyNamed' /\ BlankAhead' /\ LinearRotation'
  <2>1. /\ rows' = rows /\ family' = family /\ replacedById' = replacedById
        /\ \A t \in 1..rows : revokedAt[t] => revokedAt'[t]
        /\ \A t \in RowIds : t > rows => revokedAt'[t] = revokedAt[t]
    BY <1>4 DEF Revokes
  <2>2. FamilyNamed' /\ BlankAhead'
    BY <2>1
  <2>3. LinearRotation'
    BY <2>1 DEF LinearRotation
  <2> QED
    BY <2>2, <2>3
<1> HIDE <1>0 DEF FamilyNamed, BlankAhead, RowIds, NoRow
<1>5. TypeOK /\ RequestsHoldRows
  BY DEF IndInv
<1> QED
  BY <1>1, <1>2, <1>3, <1>4, <1>5, StoreStep

-----------------------------------------------------------------------------
(* The theorems.                                                           *)

LEMMA InitIndInv == Init => IndInv
<1> SUFFICES ASSUME Init PROVE IndInv
  OBVIOUS
<1>1. TypeOK
  BY ConstantsAssumption, IdleIsRequest DEF Init, TypeOK, RowIds, Versions, NoRow
<1>2. FamilyNamed /\ BlankAhead /\ LinearRotation
  BY DEF Init, FamilyNamed, BlankAhead, LinearRotation
<1>3. RequestsHoldRows
  BY DEF Init, RequestsHoldRows, Idle
<1> QED
  BY <1>1, <1>2, <1>3 DEF IndInv

\* IndInv holds in every reachable state of the store.
THEOREM Inductive == Spec => []IndInv
<1>1. IndInv /\ [Next]_vars => IndInv'
  BY TypeStep, RequestsStep, RowsStep DEF IndInv
<1> QED
  BY InitIndInv, <1>1, PTL DEF Spec

\* Every variable keeps its type, whatever the requests do.
THEOREM TypeCorrect == Spec => []TypeOK
<1>1. IndInv => TypeOK
  BY DEF IndInv
<1> QED
  BY Inductive, <1>1, PTL

\* The rows of a family form one line of exchanges (RefreshTokenService.rotate).
THEOREM RotationIsLinear == Spec => []LinearRotation
<1>1. IndInv => LinearRotation
  BY DEF IndInv
<1> QED
  BY Inductive, <1>1, PTL

LEMMA LinearHasOneLeaf == IndInv => OneLeafPerFamily
BY DEF IndInv, LinearRotation, OneLeafPerFamily, LiveRows, TypeOK

\* However many refreshes race, a family never has two usable tokens.
THEOREM OneLeaf == Spec => []OneLeafPerFamily
BY Inductive, LinearHasOneLeaf, PTL

-----------------------------------------------------------------------------
(* Action properties, by the same four cases.                              *)

\* No refresh in flight revives a session that has no usable token left.
THEOREM ClosedForGood == Spec => ClosedStaysClosed
<1> DEFINE A == \A f \in 1..rows : FamilyRows(f) = {} => FamilyRows(f)' = {}
<1>1. ASSUME IndInv, [Next]_vars
      PROVE  A
  <2>0. /\ rows \in Nat
        /\ family \in [RowIds -> 0..MaxRows]
        /\ revokedAt \in [RowIds -> BOOLEAN]
        /\ TypeOK /\ RequestsHoldRows
    BY <1>1 DEF IndInv, TypeOK
  <2> SUFFICES ASSUME NEW f \in 1..rows, FamilyRows(f) = {},
                      NEW u \in FamilyRows(f)'
               PROVE  FALSE
    OBVIOUS
  <2> USE DEF FamilyRows, LiveRows
  <2>1. CASE StoreSame
    BY <2>1 DEF StoreSame
  <2>2. CASE Opens
    <3>1. rows' = rows + 1 /\ family' = [family EXCEPT ![rows + 1] = rows + 1]
          /\ revokedAt' = revokedAt /\ rows + 1 \in RowIds
      BY <2>0, <2>2, ConstantsAssumption DEF Opens, Insert, NoRow, TypeOK, RowIds
    <3> QED
      BY <2>0, <3>1
  <2>3. ASSUME NEW x \in 1..rows, Exchanges(x)
        PROVE  FALSE
    <3>1. /\ rows' = rows + 1 /\ rows + 1 \in RowIds
          /\ family' = [family EXCEPT ![rows + 1] = family[x]]
          /\ revokedAt' = [revokedAt EXCEPT ![x] = TRUE]
          /\ ~revokedAt[x]
      BY <2>0, <2>3, ConstantsAssumption DEF Exchanges, Insert, NoRow, TypeOK, RowIds
    <3>2. family[x] # f
      BY <3>1
    <3> QED
      BY <2>0, <3>1, <3>2
  <2>4. ASSUME NEW S \in SUBSET (1..rows), Revokes(S)
        PROVE  FALSE
    <3>1. u \in 1..rows /\ u \in RowIds /\ family[u] = f /\ ~revokedAt'[u]
      BY <2>0, <2>4, ConstantsAssumption DEF Revokes, TypeOK, RowIds
    <3>2. ~revokedAt[u]
      BY <2>4, <3>1 DEF Revokes
    <3> QED
      BY <3>1, <3>2
  <2> HIDE DEF FamilyRows, LiveRows
  <2> QED
    BY <1>1, <2>0, <2>1, <2>2, <2>3, <2>4, StoreStep
<1>2. IndInv /\ [Next]_vars => [A]_vars
  BY <1>1
<1> QED
  BY <1>2, Inductive, PTL DEF Spec, ClosedStaysClosed

\* No token is exchanged twice, and its successor is never overwritten.
THEOREM ExchangedAtMostOnce == Spec => ExchangedOnce
<1> DEFINE A == \A t \in 1..rows :
                  replacedById[t] # NoRow => replacedById'[t] = replacedById[t]
<1>1. ASSUME IndInv, [Next]_vars
      PROVE  A
  <2>1. /\ replacedById \in [RowIds -> 0..MaxRows]
        /\ TypeOK /\ RequestsHoldRows
    BY <1>1 DEF IndInv, TypeOK
  <2>2. ASSUME NEW x \in 1..rows, Exchanges(x)
        PROVE  A
    <3>1. x # NoRow /\ replacedById[x] = NoRow
      BY <2>2 DEF Exchanges, NoRow
    <3>2. replacedById' = [replacedById EXCEPT ![x] = rows + 1]
      BY <2>2, <3>1 DEF Exchanges, Insert
    <3>3. 1..rows \subseteq RowIds
      BY <2>1, ConstantsAssumption DEF TypeOK, RowIds
    <3> QED
      BY <2>1, <3>1, <3>2, <3>3
  <2>3. CASE StoreSame \/ Opens \/ \E S \in SUBSET (1..rows) : Revokes(S)
    BY <2>3 DEF StoreSame, Opens, Insert, Revokes, NoRow
  <2> HIDE DEF A
  <2> QED
    BY <1>1, <2>1, <2>2, <2>3, StoreStep
<1>2. IndInv /\ [Next]_vars => [A]_vars
  BY <1>1
<1> QED
  BY <1>2, Inductive, PTL DEF Spec, ExchangedOnce

-----------------------------------------------------------------------------
(* The store implements the abstract sessions.                             *)

LeafFacts ==
  \A f \in RowIds :
    /\ FamilyRows(f) = {} => LeafOf(f) = NoRow
    /\ \A t \in FamilyRows(f) : LeafOf(f) = t /\ t \in 1..rows

\* With one leaf per family, LeafOf is that leaf.
LEMMA LeafIsUnique == IndInv => LeafFacts
<1> SUFFICES ASSUME IndInv, NEW f \in RowIds
             PROVE  /\ FamilyRows(f) = {} => LeafOf(f) = NoRow
                    /\ \A t \in FamilyRows(f) : LeafOf(f) = t /\ t \in 1..rows
  BY DEF LeafFacts
<1>1. FamilyRows(f) = {} => LeafOf(f) = NoRow
  BY DEF LeafOf
<1>2. ASSUME NEW t \in FamilyRows(f)
      PROVE  LeafOf(f) = t /\ t \in 1..rows
  <2>1. \A u \in FamilyRows(f) : u = t
    BY <1>2, LinearHasOneLeaf DEF OneLeafPerFamily, FamilyRows
  <2> QED
    BY <1>2, <2>1 DEF LeafOf, FamilyRows, LiveRows
<1> QED
  BY <1>1, <1>2

Leaves == [f \in RowIds |-> LeafOf(f)]

\* Every step of the store is a step of the abstract sessions or none at all.
LEMMA StepRefines ==
  ASSUME IndInv, IndInv', [Next]_vars
  PROVE  [Abstract!Next]_<<rows, Leaves>>
<1>1. LeafFacts /\ LeafFacts'
  BY LeafIsUnique, PTL
<1>2. /\ rows \in Nat /\ MaxRows \in Nat /\ rows <= MaxRows
      /\ family \in [1..MaxRows -> 0..MaxRows]
      /\ revokedAt \in [1..MaxRows -> BOOLEAN]
      /\ TypeOK /\ RequestsHoldRows /\ FamilyNamed /\ BlankAhead
  BY ConstantsAssumption DEF IndInv, TypeOK, RowIds
<1> DEFINE L == Leaves
<1>3. /\ L = [f \in RowIds |-> LeafOf(f)]
      /\ L' = [f \in RowIds |-> LeafOf(f)']
  BY DEF Leaves
<1> HIDE DEF L
\* A family whose unrevoked rows stay the same keeps its leaf.
<1>4. ASSUME NEW f \in RowIds, FamilyRows(f)' = FamilyRows(f)
      PROVE  LeafOf(f)' = LeafOf(f)
  BY <1>1, <1>4 DEF LeafFacts
<1>5. CASE StoreSame
  <2>1. ASSUME NEW f \in RowIds
        PROVE  FamilyRows(f)' = FamilyRows(f)
    BY <1>5 DEF StoreSame, FamilyRows, LiveRows
  <2>2. L' = L
    BY <1>3, <1>4, <2>1
  <2> QED
    BY <1>5, <2>2 DEF StoreSame, L
<1>6. CASE Opens
  <2>1. PICK n \in RowIds : n = rows + 1
    BY <1>2, <1>6 DEF Opens, Insert, RowIds
  <2>2. /\ rows' = n /\ n \notin 1..rows /\ rows < MaxRows
        /\ family' = [family EXCEPT ![n] = n]
        /\ revokedAt' = revokedAt /\ ~revokedAt[n]
    BY <1>2, <1>6, <2>1 DEF Opens, Insert, NoRow, BlankAhead, RowIds
  <2>3. LeafOf(n)' = n
    <3>1. n \in FamilyRows(n)'
      BY <1>2, <2>1, <2>2 DEF FamilyRows, LiveRows, RowIds
    <3> QED
      BY <1>1, <3>1 DEF LeafFacts
  <2>4. ASSUME NEW f \in RowIds, f # n
        PROVE  LeafOf(f)' = LeafOf(f)
    <3>1. FamilyRows(f)' = FamilyRows(f)
      BY <1>2, <2>1, <2>2, <2>4 DEF FamilyRows, LiveRows, RowIds
    <3> QED
      BY <3>1, <1>4
  <2>5. L' = [L EXCEPT ![n] = n]
    BY <1>3, <2>3, <2>4
  <2>6. Abstract!Open
    BY <2>1, <2>2, <2>5 DEF Abstract!Open, L, Leaves
  <2> QED
    BY <2>6 DEF Abstract!Next
<1>7. ASSUME NEW x \in 1..rows, Exchanges(x)
      PROVE  Abstract!Next
  <2>1. PICK n \in RowIds : n = rows + 1
    BY <1>2, <1>7 DEF Exchanges, Insert, RowIds
  <2>2. /\ rows' = n /\ n \notin 1..rows /\ rows < MaxRows
        /\ family' = [family EXCEPT ![n] = family[x]]
        /\ revokedAt' = [revokedAt EXCEPT ![x] = TRUE]
        /\ ~revokedAt[x] /\ ~revokedAt[n] /\ x # n
    BY <1>2, <1>7, <2>1 DEF Exchanges, Insert, NoRow, BlankAhead, RowIds
  <2>3. PICK s \in RowIds : s = family[x]
    BY <1>2 DEF FamilyNamed, RowIds
  <2>4. LeafOf(s) = x /\ x # 0
    <3>1. x \in FamilyRows(s)
      BY <2>2, <2>3 DEF FamilyRows, LiveRows
    <3> QED
      BY <1>1, <1>2, <3>1 DEF LeafFacts
  <2>5. LeafOf(s)' = n
    <3>1. n \in FamilyRows(s)'
      BY <1>2, <2>1, <2>2, <2>3 DEF FamilyRows, LiveRows, RowIds
    <3> QED
      BY <1>1, <3>1 DEF LeafFacts
  <2>6. ASSUME NEW f \in RowIds, f # s
        PROVE  LeafOf(f)' = LeafOf(f)
    <3>1. ASSUME NEW t \in RowIds
          PROVE  t \in FamilyRows(f)' <=> t \in FamilyRows(f)
      <4>1. CASE t = n
        BY <1>2, <2>1, <2>2, <2>3, <2>6, <4>1 DEF FamilyRows, LiveRows, RowIds
      <4>2. CASE t = x
        BY <1>2, <2>2, <2>3, <2>6, <4>2 DEF FamilyRows, LiveRows, RowIds
      <4>3. CASE t # n /\ t # x
        <5>1. t \in 1..rows' <=> t \in 1..rows
          BY <1>2, <2>1, <2>2, <4>3 DEF RowIds
        <5>2. family'[t] = family[t] /\ revokedAt'[t] = revokedAt[t]
          BY <1>2, <2>2, <4>3 DEF RowIds
        <5> QED
          BY <5>1, <5>2 DEF FamilyRows, LiveRows
      <4> QED
        BY <4>1, <4>2, <4>3
    <3>2. FamilyRows(f)' \subseteq RowIds /\ FamilyRows(f) \subseteq RowIds
      BY <1>2, <2>1, <2>2 DEF FamilyRows, LiveRows, RowIds
    <3>3. FamilyRows(f)' = FamilyRows(f)
      BY <3>1, <3>2
    <3> QED
      BY <3>3, <1>4
  <2>7. L' = [L EXCEPT ![s] = n]
    BY <1>3, <2>5, <2>6
  <2>8. Abstract!Exchange(s)
    BY <1>3, <2>1, <2>2, <2>4, <2>7 DEF Abstract!Exchange, L, Leaves
  <2> QED
    BY <2>8 DEF Abstract!Next, Abstract!Tokens, RowIds
<1>8. ASSUME NEW S \in SUBSET (1..rows), Revokes(S)
      PROVE  Abstract!Next
  <2> DEFINE C == {f \in RowIds : FamilyRows(f)' = {}}
  <2>1. ASSUME NEW f \in RowIds, f \notin C
        PROVE  LeafOf(f)' = LeafOf(f)
    <3>1. FamilyRows(f)' \subseteq FamilyRows(f)
      BY <1>2, <1>8 DEF Revokes, FamilyRows, LiveRows, RowIds
    <3> QED
      BY <1>1, <2>1, <3>1 DEF LeafFacts
  <2>2. ASSUME NEW f \in RowIds, f \in C
        PROVE  LeafOf(f)' = 0
    BY <1>1, <2>2 DEF LeafFacts, NoRow
  <2>3. L' = [f \in RowIds |-> IF f \in C THEN 0 ELSE L[f]]
    BY <1>3, <2>1, <2>2
  <2>4. Abstract!Close(C) /\ C \in SUBSET RowIds
    BY <1>8, <2>3 DEF Abstract!Close, Abstract!Tokens, L, Leaves, Revokes, RowIds
  <2> QED
    BY <2>4 DEF Abstract!Next, Abstract!Tokens, RowIds
<1> QED
  BY <1>2, <1>5, <1>6, <1>7, <1>8, StoreStep

\* Requests, statements, races and failures: whatever happens, the store
\* behaves like sessions that open, pass from leaf to leaf, and close once.
THEOREM StoreImplementsSessions == Spec => ImplementsSessions
<1>1. Init => Abstract!Init
  <2> SUFFICES ASSUME Init PROVE Abstract!Init
    OBVIOUS
  <2>1. ASSUME NEW f \in RowIds
        PROVE  LeafOf(f) = 0
    <3>1. FamilyRows(f) = {}
      BY DEF Init, FamilyRows, LiveRows
    <3> QED
      BY <3>1 DEF LeafOf, NoRow
  <2> QED
    BY <2>1 DEF Init, Abstract!Init, Abstract!Tokens, RowIds
<1>2. IndInv /\ IndInv' /\ [Next]_vars => [Abstract!Next]_<<rows, Leaves>>
  BY StepRefines
<1>3. Leaves = [f \in RowIds |-> LeafOf(f)]
  BY DEF Leaves
<1> QED
  BY <1>1, <1>2, Inductive, PTL
     DEF Spec, ImplementsSessions, Abstract!Spec, Leaves
-----------------------------------------------------------------------------
(* One request at a time.  What races break (see the runs of two requests)  *)
(* holds when each request ends before the next one starts, whatever        *)
(* expires or fails in between.                                             *)

Sequential == \A r, s \in Requests : r = s

\* Active rows the request q is about to close or to replace.
Going(q) ==
  CASE q.pc = "rotate" -> {q.tok}
    [] q.pc = "revoke" -> q.todo
    [] q.pc = "apply"  -> q.todo \union q.snap
    [] OTHER           -> {}

\* q is on its way to a new active row: a login, or a rotation.
NeedsRoom(q) ==
  \/ q.pc \in {"create", "rotate"}
  \/ q.op = "login" /\ q.pc \in {"revoke", "apply"}

\* There is room for that row once the ones about to go are gone.
HasRoom(q) ==
  NeedsRoom(q) => Cardinality(ActiveRows \ Going(q)) < MaxFamilies

\* What q's updateMany is to revoke it will revoke, and has when q answers.
Revoking(q) ==
  /\ q.pc \in {"create", "cap"} => q.op = "login"
  /\ q.pc \in {"rotate", "sign"} => q.op = "refresh"
  /\ q.pc = "bump" => q.op = "logout_all"
  /\ q.op = "burn" \/ q.pc = "rotate" => q.tok \in 1..rows
  /\ q.pc = "revoke" /\ q.op = "login" => q.todo \subseteq LiveRows
  /\ q.pc = "apply" /\ q.op = "login" => q.todo \subseteq LiveRows \ q.snap
  /\ q.op = "burn" /\ q.pc = "apply" => FamilyRows(family[q.tok]) \subseteq q.snap
  /\ q.op = "burn" /\ q.pc = "reply" => FamilyRows(family[q.tok]) = {}
  /\ q.op = "logout_all" /\ q.pc = "apply" => LiveRows \subseteq q.snap
  /\ q.op = "logout_all" /\ q.pc = "reply" => LiveRows = {}

AloneInv ==
  /\ Cardinality(ActiveRows) <= MaxFamilies
  /\ \A r \in Requests : HasRoom(req[r]) /\ Revoking(req[r])

LEMMA HasLeast ==
  ASSUME NEW S \in SUBSET Nat, S # {}
  PROVE  \E m \in S : \A n \in S : m <= n
<1> DEFINE R == {s \in Nat \X Nat : s[1] < s[2]}
<1>1. IsWellFoundedOn(OpToRel(<, Nat), Nat)
  BY NatLessThanWellFounded
<1>2. OpToRel(<, Nat) = R
  BY DEF OpToRel
<1>3. PICK m \in S : \A n \in S : ~(<<n, m>> \in R)
  <2> HIDE DEF R
  <2> QED
    BY <1>1, <1>2, WFMin
<1>4. \A n \in S : n \in Nat /\ m \in Nat /\ ~(n < m)
  BY <1>3
<1> QED
  BY <1>4

\* A set of existing rows that lies in a smaller one is no bigger.
LEMMA FewerRows ==
  ASSUME NEW n \in Nat, NEW T \in SUBSET (1..n), NEW S \in SUBSET T
  PROVE  /\ IsFiniteSet(T) /\ Cardinality(T) \in Nat
         /\ IsFiniteSet(S) /\ Cardinality(S) \in Nat
         /\ Cardinality(S) <= Cardinality(T)
<1>1. IsFiniteSet(1..n)
  BY FS_Interval
<1>2. IsFiniteSet(T)
  BY <1>1, FS_Subset
<1> QED
  BY <1>2, FS_Subset, FS_CardinalityType

\* A family that has one leaf has it as its first active row.
LEMMA FirstIsActive == IndInv => FirstActive = ActiveRows
<1> SUFFICES ASSUME IndInv PROVE FirstActive = ActiveRows
  OBVIOUS
<1>1. OneLeafPerFamily
  BY LinearHasOneLeaf
<1>2. ActiveRows \subseteq Nat
  BY DEF IndInv, TypeOK, ActiveRows, LiveRows
<1> QED
  BY <1>1, <1>2 DEF OneLeafPerFamily, FirstActive, ActiveRows

\* When the cap is reached, the rows it revokes include the oldest one.
LEMMA CapMakesRoom ==
  ASSUME IndInv, Cardinality(ActiveRows) <= MaxFamilies
  PROVE  /\ OverCap \subseteq LiveRows
         /\ Cardinality(ActiveRows \ OverCap) < MaxFamilies
<1> DEFINE A == ActiveRows
<1>1. FirstActive = A
  BY FirstIsActive
<1>2. rows \in Nat /\ A \in SUBSET (1..rows) /\ A \subseteq LiveRows
  BY DEF IndInv, TypeOK, ActiveRows, LiveRows
<1>3. IsFiniteSet(A) /\ Cardinality(A) \in Nat
  BY <1>2, FewerRows
<1> HIDE DEF A
<1>4. CASE Cardinality(A) < MaxFamilies
  <2>1. OverCap = {} /\ A \ OverCap = A
    BY <1>1, <1>4 DEF OverCap
  <2> QED
    BY <1>4, <2>1 DEF A
<1>5. CASE ~(Cardinality(A) < MaxFamilies)
  <2>1. Cardinality(A) = MaxFamilies
    BY <1>3, <1>5, ConstantsAssumption DEF A
  <2>2. A # {}
    BY <2>1, FS_EmptySet, ConstantsAssumption
  <2>3. PICK m \in A : \A n \in A : m <= n
    <3>1. A \in SUBSET Nat
      BY <1>2
    <3> QED
      BY <2>2, <3>1, HasLeast
  <2>4. {u \in A : u < m} = {}
    <3>1. \A u \in A : u \in Nat /\ m \in Nat /\ m <= u
      BY <1>2, <2>3
    <3> QED
      BY <3>1
  <2>5. m \in OverCap /\ OverCap \subseteq A
    <3>1. OverCap = {t \in A : Cardinality({u \in A : u < t}) <= 0}
      BY <1>1, <1>5, <2>1, ConstantsAssumption DEF OverCap
    <3>2. Cardinality({u \in A : u < m}) = 0
      BY <2>4, FS_EmptySet
    <3> QED
      BY <2>3, <3>1, <3>2
  <2>6. Cardinality(A \ {m}) = Cardinality(A) - 1
    BY <1>3, <2>3, FS_RemoveElement
  <2>7. Cardinality(A \ OverCap) <= Cardinality(A \ {m})
    <3>1. A \ {m} \in SUBSET (1..rows) /\ A \ OverCap \in SUBSET (A \ {m})
      BY <1>2, <2>5
    <3> QED
      BY <1>2, <3>1, FewerRows
  <2>8. Cardinality(A \ OverCap) \in Nat
    BY <1>2, FewerRows
  <2> QED
    BY <1>2, <1>3, <2>1, <2>5, <2>6, <2>7, <2>8 DEF A
<1> QED
  BY <1>4, <1>5

\* A request alone is all there is to the next state's invariant.
LEMMA AloneRequest ==
  ASSUME Sequential, TypeOK, NEW r \in Requests, NEW q, Continue(r, q),
         HasRoom(q)', Revoking(q)', Cardinality(ActiveRows)' <= MaxFamilies
  PROVE  AloneInv'
<1>1. \A s \in Requests : req'[s] = q
  BY DEF Sequential, Continue, TypeOK
<1>2. ASSUME NEW s \in Requests
      PROVE  HasRoom(req[s])' /\ Revoking(req[s])'
  <2>1. req'[s] = q
    BY <1>1
  <2> QED
    BY <2>1 DEF HasRoom, NeedsRoom, Going, Revoking, ActiveRows, LiveRows,
                FamilyRows
<1> QED
  BY <1>2 DEF AloneInv

\* Fewer active rows are within the cap too.
LEMMA ActiveShrinks ==
  ASSUME TypeOK, NEW S \in SUBSET ActiveRows, NEW m \in Nat
  PROVE  /\ Cardinality(ActiveRows) <= m => Cardinality(S) <= m
         /\ Cardinality(ActiveRows) < m => Cardinality(S) < m
<1>1. rows \in Nat /\ ActiveRows \in SUBSET (1..rows)
  BY DEF TypeOK, ActiveRows, LiveRows
<1> QED
  BY <1>1, FewerRows

\* Steps that leave the rows alone.
LEMMA AloneSameRows ==
  ASSUME Sequential, TypeOK, AloneInv, NEW r \in Requests, NEW q,
         Continue(r, q), HasRoom(q), Revoking(q), StoreSame, horizon' = horizon
  PROVE  AloneInv'
<1>1. ActiveRows' = ActiveRows /\ LiveRows' = LiveRows
  BY DEF StoreSame, ActiveRows, LiveRows
<1>2. \A f : FamilyRows(f)' = FamilyRows(f)
  BY <1>1 DEF StoreSame, FamilyRows
<1>3. HasRoom(q)' /\ Revoking(q)' /\ Cardinality(ActiveRows)' <= MaxFamilies
  BY <1>1, <1>2 DEF StoreSame, HasRoom, Revoking, AloneInv
<1> QED
  BY <1>3, AloneRequest

\* Steps that revoke rows.
LEMMA AloneRevokes ==
  ASSUME TypeOK, NEW S, Revokes(S), horizon' = horizon
  PROVE  /\ LiveRows' = LiveRows \ S
         /\ \A f : FamilyRows(f)' = FamilyRows(f) \ S
         /\ ActiveRows' = ActiveRows \ S
<1>1. 1..rows \subseteq RowIds
  BY ConstantsAssumption DEF TypeOK, RowIds
<1>2. LiveRows' = LiveRows \ S
  BY <1>1 DEF Revokes, LiveRows
<1> QED
  BY <1>2 DEF Revokes, FamilyRows, ActiveRows

LEMMA AloneBegins ==
  ASSUME Sequential, IndInv, AloneInv, NEW r \in Requests, Begin(r)
  PROVE  AloneInv'
<1> USE ConstantsAssumption
<1>1. /\ rows \in Nat /\ revokedAt \in [RowIds -> BOOLEAN]
      /\ family \in [RowIds -> 0..MaxRows] /\ held \subseteq 1..rows
      /\ req \in [Requests -> Request] /\ TypeOK /\ OneLeafPerFamily
  BY LinearHasOneLeaf DEF IndInv, TypeOK
<1>2. CASE Login(r) \/ LogoutAll(r) \/ RevokeAllSessions(r)
  <2>1. PICK q \in Request :
          /\ Continue(r, q)
          /\ \/ q.pc = "cap" /\ q.op = "login"
             \/ q.pc = "bump" /\ q.op = "logout_all"
             \/ q.pc = "revoke" /\ q.op = "revoke_all"
    <3>1. CASE Login(r)
      <4>1. [Idle EXCEPT !.pc = "cap", !.op = "login", !.ver = tokenVersion,
                         !.grants = TRUE] \in Request
        BY <1>1, IdleIsRequest DEF TypeOK, Idle, Request, Pcs, Ops
      <4> QED
        BY <3>1, <4>1 DEF Login, Idle
    <3>2. CASE LogoutAll(r)
      <4>1. [Idle EXCEPT !.pc = "bump", !.op = "logout_all",
                         !.ver = tokenVersion] \in Request
        BY <1>1, IdleIsRequest DEF TypeOK, Idle, Request, Pcs, Ops
      <4> QED
        BY <3>2, <4>1 DEF LogoutAll, Idle
    <3>3. CASE RevokeAllSessions(r)
      <4>1. [Idle EXCEPT !.pc = "revoke", !.op = "revoke_all",
                         !.ver = tokenVersion] \in Request
        BY <1>1, IdleIsRequest DEF TypeOK, Idle, Request, Pcs, Ops
      <4> QED
        BY <3>3, <4>1 DEF RevokeAllSessions, Idle
    <3> QED
      BY <1>2, <3>1, <3>2, <3>3
  <2>2. HasRoom(q) /\ Revoking(q)
    BY <2>1 DEF HasRoom, NeedsRoom, Revoking
  <2>3. StoreSame /\ horizon' = horizon
    BY <1>2 DEF Login, LogoutAll, RevokeAllSessions, StoreSame
  <2> QED
    BY AloneSameRows, <1>1, <2>1, <2>2, <2>3
<1>3. ASSUME NEW t \in RowIds, Refresh(r, t)
      PROVE  AloneInv'
  <2>0. PICK mismatch \in BOOLEAN :
          Continue(r, [Idle EXCEPT
                        !.pc = AfterLookup(t, mismatch),
                        !.op = IF AfterLookup(t, mismatch) = "revoke"
                               THEN "burn" ELSE "refresh",
                        !.tok = t])
    BY <1>3 DEF Refresh
  <2>1. PICK q :
          /\ q = [Idle EXCEPT
                   !.pc = AfterLookup(t, mismatch),
                   !.op = IF AfterLookup(t, mismatch) = "revoke"
                          THEN "burn" ELSE "refresh",
                   !.tok = t]
          /\ Continue(r, q)
    BY <2>0
  <2>2. t \in 1..rows /\ t \in 0..MaxRows
    BY <1>1, <1>3 DEF Refresh, RowIds
  <2>3. AfterLookup(t, mismatch) \in {"revoke", "reply", "rotate"}
    BY DEF AfterLookup
  <2>4. q \in Request
    BY <2>1, <2>2, <2>3, IdleIsRequest DEF Request, Pcs, Ops
  <2>5. /\ q.pc = AfterLookup(t, mismatch) /\ q.tok = t
        /\ q.op = "burn" => q.pc = "revoke"
        /\ q.op = (IF q.pc = "revoke" THEN "burn" ELSE "refresh")
    BY <2>1 DEF Idle
  <2>6. Revoking(q)
    BY <2>2, <2>3, <2>5 DEF Revoking
  <2>7. HasRoom(q)
    <3>1. CASE q.pc = "rotate"
      <4>1. t \in ActiveRows
        BY <1>1, <2>2, <2>5, <3>1, ConstantsAssumption
           DEF AfterLookup, ActiveRows, LiveRows, IndInv, TypeOK
      <4>2. ActiveRows \in SUBSET (1..rows)
        BY DEF ActiveRows, LiveRows
      <4>3. IsFiniteSet(ActiveRows) /\ Cardinality(ActiveRows) \in Nat
        BY <1>1, <4>2, FewerRows
      <4>4. Cardinality(ActiveRows \ {t}) = Cardinality(ActiveRows) - 1
        BY <4>1, <4>3, FS_RemoveElement
      <4>5. Cardinality(ActiveRows \ {t}) < MaxFamilies
        BY <4>3, <4>4, ConstantsAssumption DEF AloneInv
      <4> QED
        BY <2>5, <3>1, <4>5 DEF HasRoom, Going
    <3>2. CASE q.pc # "rotate"
      BY <2>3, <2>5, <3>2 DEF HasRoom, NeedsRoom
    <3> QED
      BY <3>1, <3>2
  <2>8. StoreSame /\ horizon' = horizon
    BY <1>3 DEF Refresh, StoreSame
  <2> QED
    BY AloneSameRows, <1>1, <2>1, <2>4, <2>6, <2>7, <2>8
<1>4. ASSUME NEW t \in RowIds, Logout(r, t)
      PROVE  AloneInv'
  <2>1. Revokes({t}) /\ horizon' = horizon /\ UNCHANGED req /\ req[r].pc = "idle"
    BY <1>1, <1>4 DEF Logout, Revokes, TypeOK
  <2>2. LiveRows' \subseteq LiveRows /\ ActiveRows' \in SUBSET ActiveRows
    BY <1>1, <2>1, AloneRevokes
  <2>3. Cardinality(ActiveRows') <= MaxFamilies
    BY <1>1, <2>2, ActiveShrinks DEF AloneInv
  <2>4. PICK q \in Request : q = req[r] /\ Revoking(q)
    BY <1>1 DEF AloneInv
  <2>5. HasRoom(q)' /\ Revoking(q)'
    BY <2>1, <2>4 DEF HasRoom, NeedsRoom, Revoking, Revokes
  <2>6. Continue(r, q)
    BY <1>1, <2>1, <2>4 DEF Continue
  <2> QED
    BY <1>1, <2>3, <2>5, <2>6, AloneRequest
<1>5. ASSUME NEW t \in RowIds, RevokeSession(r, t)
      PROVE  AloneInv'
  <2>1. PICK q : /\ q = [Idle EXCEPT !.pc = "revoke", !.op = "revoke_one",
                                    !.tok = t]
                 /\ Continue(r, q)
    BY <1>5 DEF RevokeSession
  <2>2. t \in 0..MaxRows
    BY DEF RowIds
  <2>3. q \in Request
    BY <2>1, <2>2, IdleIsRequest DEF Request, Pcs, Ops
  <2>4. HasRoom(q) /\ Revoking(q)
    BY <2>1 DEF Idle, HasRoom, NeedsRoom, Revoking
  <2>5. StoreSame /\ horizon' = horizon
    BY <1>5 DEF RevokeSession, StoreSame
  <2> QED
    BY AloneSameRows, <1>1, <2>1, <2>3, <2>4, <2>5
<1> QED
  BY <1>2, <1>3, <1>4, <1>5 DEF Begin

LEMMA AloneQuietSteps ==
  ASSUME Sequential, IndInv, AloneInv, NEW r \in Requests,
         \/ Fail(r) \/ Reply(r) \/ EnforceCap(r) \/ Snapshot(r)
         \/ LoseRace(r) \/ Sign(r) \/ Bump(r)
  PROVE  AloneInv'
<1>1. /\ rows \in Nat /\ revokedAt \in [RowIds -> BOOLEAN]
      /\ family \in [RowIds -> 0..MaxRows] /\ held \subseteq 1..rows
      /\ req \in [Requests -> Request] /\ TypeOK /\ OneLeafPerFamily
  BY LinearHasOneLeaf DEF IndInv, TypeOK
<1>2. PICK q \in Request : q = req[r]
  BY <1>1
<1>3. HasRoom(q) /\ Revoking(q)
  BY <1>2 DEF AloneInv
<1>4. CASE Fail(r) \/ Reply(r)
  <2>1. HasRoom(Idle) /\ Revoking(Idle)
    BY DEF Idle, HasRoom, NeedsRoom, Revoking
  <2> QED
    BY AloneSameRows, <1>1, <1>4, <2>1, IdleIsRequest DEF Fail, Reply, StoreSame
<1>5. CASE EnforceCap(r)
  <2>1. PICK o \in SUBSET RowIds : o = OverCap
    <3>1. OverCap \subseteq LiveRows
      BY CapMakesRoom DEF AloneInv
    <3> QED
      BY <1>1, <3>1, ConstantsAssumption DEF LiveRows, TypeOK, RowIds
  <2>2. PICK x : x = [q EXCEPT !.pc = AfterCap(o), !.todo = o]
    OBVIOUS
  <2>3. /\ x \in Request /\ x.pc = AfterCap(o) /\ x.todo = o /\ x.op = "login"
    <3>1. AfterCap(o) \in Pcs
      BY DEF AfterCap, Pcs
    <3>2. q.op = "login"
      BY <1>2, <1>3, <1>5 DEF EnforceCap, Revoking
    <3> HIDE DEF AfterCap
    <3> QED
      BY <1>2, <2>2, <3>1, <3>2 DEF Request
  <2>4. o \subseteq LiveRows /\ Cardinality(ActiveRows \ o) < MaxFamilies
    BY <2>1, CapMakesRoom DEF AloneInv
  <2>5. ActiveRows \ {} = ActiveRows
    OBVIOUS
  <2>6. HasRoom(x)
    BY <2>3, <2>4, <2>5 DEF HasRoom, Going, AfterCap
  <2>7. Revoking(x)
    BY <2>3, <2>4 DEF Revoking, AfterCap
  <2> QED
    BY AloneSameRows, <1>1, <1>2, <1>5, <2>1, <2>2, <2>3, <2>6, <2>7 DEF EnforceCap, StoreSame
<1>6. CASE Snapshot(r)
  <2>1. PICK s \in SUBSET RowIds : s = Selected(r)
    <3>1. Selected(r) \subseteq LiveRows
      BY DEF Selected, FamilyRows
    <3> QED
      BY <1>1, <3>1, ConstantsAssumption DEF LiveRows, TypeOK, RowIds
  <2>2. PICK d \in SUBSET RowIds : d = {t \in q.todo : \E u \in q.todo : u < t}
    BY <1>2 DEF Request
  <2>3. PICK x : x = [q EXCEPT !.pc = "apply", !.snap = s, !.todo = d]
    OBVIOUS
  <2>4. /\ x \in Request /\ x.pc = "apply" /\ x.snap = s /\ x.todo = d
        /\ x.op = q.op /\ x.tok = q.tok /\ q.pc = "revoke"
    BY <1>2, <1>6, <2>3 DEF Snapshot, Request, Pcs
  <2>5. CASE q.op = "login"
    <3>1. q.todo \subseteq LiveRows /\ LiveRows \subseteq Nat
      BY <1>1, <1>3, <2>4, <2>5 DEF Revoking, LiveRows
    <3>2. s = {t \in LiveRows : \E first \in q.todo :
                                  /\ family[t] = family[first]
                                  /\ \A u \in q.todo : first <= u}
      BY <1>2, <2>1, <2>5 DEF Selected
    <3>3. q.todo \subseteq d \union s
      <4> SUFFICES ASSUME NEW t \in q.todo, t \notin d PROVE t \in s
        OBVIOUS
      <4>1. \A u \in q.todo : t \in Nat /\ u \in Nat /\ ~(u < t)
        BY <2>2, <3>1
      <4>2. \A u \in q.todo : t <= u
        BY <4>1
      <4> QED
        BY <3>1, <3>2, <4>2
    <3>4. d \subseteq LiveRows \ s
      <4> SUFFICES ASSUME NEW t \in d, t \in s PROVE FALSE
        BY <2>2, <3>1
      <4>1. PICK first \in q.todo : /\ family[t] = family[first]
                                    /\ \A u \in q.todo : first <= u
        BY <3>2
      <4>2. t = first
        BY <1>1, <2>2, <3>1, <4>1 DEF OneLeafPerFamily
      <4>3. PICK u \in q.todo : u < t
        BY <2>2
      <4>4. t \in Nat /\ u \in Nat /\ t <= u
        BY <3>1, <4>1, <4>2, <4>3
      <4> QED
        BY <4>3, <4>4
    <3>5. HasRoom(x)
      <4>1. Cardinality(ActiveRows \ q.todo) < MaxFamilies
        BY <1>3, <2>4, <2>5 DEF HasRoom, NeedsRoom, Going
      <4>2. /\ ActiveRows \ (d \union s) \in SUBSET (ActiveRows \ q.todo)
            /\ ActiveRows \ q.todo \in SUBSET (1..rows)
        BY <3>3 DEF ActiveRows, LiveRows
      <4>3. Cardinality(ActiveRows \ (d \union s)) < MaxFamilies
        <5>1. rows \in Nat
          BY <1>1
        <5>2. /\ Cardinality(ActiveRows \ q.todo) \in Nat
              /\ Cardinality(ActiveRows \ (d \union s)) \in Nat
              /\ Cardinality(ActiveRows \ (d \union s)) <= Cardinality(ActiveRows \ q.todo)
          BY <4>2, <5>1, FewerRows
        <5> QED
          BY <4>1, <5>2, ConstantsAssumption
      <4> QED
        BY <2>4, <4>3 DEF HasRoom, Going
    <3>6. Revoking(x)
      BY <2>4, <2>5, <3>4 DEF Revoking
    <3> QED
      BY AloneSameRows, <1>1, <1>2, <1>6, <2>1, <2>2, <2>3, <2>4, <3>5, <3>6 DEF Snapshot, StoreSame
  <2>6. CASE q.op # "login"
    <3>1. HasRoom(x)
      BY <2>4, <2>6 DEF HasRoom, NeedsRoom
    <3>2. Revoking(x)
      <4>1. q.op = "burn" => s = FamilyRows(family[q.tok])
        BY <1>2, <2>1 DEF Selected
      <4>2. q.op = "logout_all" => s = LiveRows
        BY <1>2, <2>1 DEF Selected
      <4> QED
        BY <1>3, <2>4, <2>6, <4>1, <4>2 DEF Revoking
    <3> QED
      BY AloneSameRows, <1>1, <1>2, <1>6, <2>1, <2>2, <2>3, <2>4, <3>1, <3>2 DEF Snapshot, StoreSame
  <2> QED
    BY <2>5, <2>6
<1>7. CASE LoseRace(r)
  <2>1. PICK x : x = [q EXCEPT !.pc = "revoke", !.op = "burn"]
    OBVIOUS
  <2>2. x \in Request /\ x.pc = "revoke" /\ x.op = "burn" /\ x.tok = q.tok
    BY <1>2, <2>1 DEF Request, Pcs, Ops
  <2>3. HasRoom(x) /\ Revoking(x)
    BY <1>2, <1>3, <1>7, <2>2 DEF LoseRace, HasRoom, NeedsRoom, Revoking
  <2> QED
    BY AloneSameRows, <1>1, <1>2, <1>7, <2>1, <2>2, <2>3 DEF LoseRace, StoreSame
<1>8. CASE Sign(r)
  <2>1. PICK v \in Versions : v = tokenVersion
    BY <1>1 DEF TypeOK
  <2>2. PICK x : x = [q EXCEPT !.pc = "reply", !.ver = v, !.grants = TRUE]
    OBVIOUS
  <2>3. x \in Request /\ x.pc = "reply" /\ x.op = "refresh"
    BY <1>2, <1>3, <1>8, <2>2 DEF Request, Pcs, Sign, Revoking
  <2>4. HasRoom(x) /\ Revoking(x)
    BY <2>3 DEF HasRoom, NeedsRoom, Revoking
  <2> QED
    BY AloneSameRows, <1>1, <1>2, <1>8, <2>1, <2>2, <2>3, <2>4 DEF Sign, StoreSame
<1>9. CASE Bump(r)
  <2>1. PICK x : x = [q EXCEPT !.pc = "revoke"]
    OBVIOUS
  <2>2. x \in Request /\ x.pc = "revoke" /\ x.op = "logout_all"
    BY <1>2, <1>3, <1>9, <2>1 DEF Request, Pcs, Bump, Revoking
  <2>3. HasRoom(x) /\ Revoking(x)
    BY <2>2 DEF HasRoom, NeedsRoom, Revoking
  <2> QED
    BY AloneSameRows, <1>1, <1>2, <1>9, <2>1, <2>2, <2>3 DEF Bump, StoreSame
<1> QED
  BY <1>4, <1>5, <1>6, <1>7, <1>8, <1>9

\* The statements that change rows, and time.
LEMMA AloneStoreSteps ==
  ASSUME Sequential, IndInv, IndInv', AloneInv, NEW r \in Requests,
         Apply(r) \/ Issue(r) \/ Rotate(r)
  PROVE  AloneInv'
<1> USE ConstantsAssumption
<1>1. /\ rows \in Nat /\ revokedAt \in [RowIds -> BOOLEAN]
      /\ family \in [RowIds -> 0..MaxRows]
      /\ req \in [Requests -> Request] /\ TypeOK /\ BlankAhead
  BY DEF IndInv, TypeOK
<1>2. PICK q \in Request : q = req[r]
  BY <1>1
<1>3. HasRoom(q) /\ Revoking(q)
  BY <1>2 DEF AloneInv
<1>4. CASE Apply(r)
  <2>1. Revokes(q.snap) /\ horizon' = horizon /\ q.pc = "apply"
    BY <1>2, <1>4 DEF Apply, Revokes
  <2>2. /\ LiveRows' = LiveRows \ q.snap
        /\ \A f : FamilyRows(f)' = FamilyRows(f) \ q.snap
        /\ ActiveRows' = ActiveRows \ q.snap
    BY <1>1, <2>1, AloneRevokes
  <2>3. Cardinality(ActiveRows') <= MaxFamilies
    BY <1>1, <2>2, ActiveShrinks DEF AloneInv
  <2>4. PICK x : /\ Continue(r, x)
                 /\ x.op = q.op /\ x.tok = q.tok /\ x.todo = q.todo
                 /\ x.pc = IF q.op = "login" THEN AfterCap(q.todo) ELSE "reply"
    BY <1>2, <1>4 DEF Apply, Request
  <2>5. CASE q.op = "login"
    <3>1. Cardinality(ActiveRows \ (q.todo \union q.snap)) < MaxFamilies
      BY <1>3, <2>1, <2>5 DEF HasRoom, NeedsRoom, Going
    <3>2. /\ ActiveRows' \ q.todo = ActiveRows \ (q.todo \union q.snap)
          /\ q.todo \subseteq LiveRows'
      BY <1>3, <2>1, <2>2, <2>5 DEF Revoking
    <3>3. q.todo = {} => ActiveRows' \ {} = ActiveRows' \ q.todo
      OBVIOUS
    <3>4. HasRoom(x)' /\ Revoking(x)'
      BY <2>4, <2>5, <3>1, <3>2, <3>3 DEF HasRoom, Going, Revoking, AfterCap
    <3> QED
      BY <1>1, <2>3, <2>4, <3>4, AloneRequest
  <2>6. CASE q.op # "login"
    <3>1. HasRoom(x)' /\ Revoking(x)'
      BY <1>3, <2>1, <2>2, <2>4, <2>6
         DEF HasRoom, NeedsRoom, Revoking, Revokes
    <3> QED
      BY <1>1, <2>3, <2>4, <3>1, AloneRequest
  <2> QED
    BY <2>5, <2>6
\* One row more, and the row it replaces one less.
<1>5. ASSUME NEW n \in RowIds, n = rows + 1, rows' = n, horizon' = horizon,
             NEW gone, Cardinality(ActiveRows \ gone) < MaxFamilies,
             ActiveRows' \subseteq (ActiveRows \ gone) \union {n}
      PROVE  Cardinality(ActiveRows') <= MaxFamilies
  <2>1. ActiveRows \in SUBSET (1..rows) /\ ActiveRows \ gone \in SUBSET ActiveRows
    BY DEF ActiveRows, LiveRows
  <2>2. /\ IsFiniteSet(ActiveRows \ gone) /\ Cardinality(ActiveRows \ gone) \in Nat
    BY <1>1, <2>1, FewerRows
  <2>3. /\ IsFiniteSet((ActiveRows \ gone) \union {n})
        /\ Cardinality((ActiveRows \ gone) \union {n})
             <= Cardinality(ActiveRows \ gone) + 1
    <3> DEFINE K == ActiveRows \ gone
    <3>1. IsFiniteSet(K) /\ Cardinality(K) \in Nat
      BY <2>2
    <3> HIDE DEF K
    <3>2. /\ IsFiniteSet(K \union {n})
          /\ Cardinality(K \union {n})
               = IF n \in K THEN Cardinality(K) ELSE Cardinality(K) + 1
      BY <3>1, FS_AddElement
    <3>3. Cardinality(K \union {n}) <= Cardinality(K) + 1
      BY <3>1, <3>2
    <3> QED
      BY <3>2, <3>3 DEF K
  <2>4. /\ Cardinality(ActiveRows') <= Cardinality((ActiveRows \ gone) \union {n})
        /\ Cardinality(ActiveRows') \in Nat
        /\ Cardinality((ActiveRows \ gone) \union {n}) \in Nat
    BY <1>5, <2>3, FS_Subset, FS_CardinalityType
  <2> QED
    BY <1>5, <2>2, <2>3, <2>4
<1>6. CASE Issue(r)
  <2>1. PICK n \in RowIds : n = rows + 1
    BY <1>1, <1>6 DEF Issue, Insert, RowIds, TypeOK
  <2>2. /\ rows' = n /\ revokedAt' = revokedAt /\ horizon' = horizon
        /\ q.pc = "create"
    BY <1>2, <1>6, <2>1 DEF Issue, Insert, NoRow
  <2>3. PICK x : x = [q EXCEPT !.pc = "reply", !.tok = n]
    OBVIOUS
  <2>4. x.pc = "reply" /\ x.op = "login" /\ Continue(r, x)
    BY <1>2, <1>3, <1>6, <2>1, <2>2, <2>3 DEF Issue, Revoking, Request
  <2>5. ActiveRows' \subseteq (ActiveRows \ {}) \union {n}
    BY <1>1, <2>1, <2>2 DEF ActiveRows, LiveRows
  <2>6. Cardinality(ActiveRows \ {}) < MaxFamilies
    BY <1>3, <2>2 DEF HasRoom, NeedsRoom, Going
  <2>7. Cardinality(ActiveRows') <= MaxFamilies
    BY <1>5, <2>1, <2>2, <2>5, <2>6
  <2>8. HasRoom(x)' /\ Revoking(x)'
    BY <2>4 DEF HasRoom, NeedsRoom, Revoking
  <2> QED
    BY <1>1, <2>4, <2>7, <2>8, AloneRequest
<1>7. CASE Rotate(r)
  <2>0. Insert(family[q.tok], q.tok)
    BY <1>2, <1>7 DEF Rotate
  <2>1. PICK n \in RowIds : n = rows + 1
    BY <1>1, <2>0 DEF Insert, RowIds, TypeOK
  <2>2. q.pc = "rotate" /\ q.tok \in 1..rows /\ horizon' = horizon
    BY <1>2, <1>3, <1>7 DEF Rotate, Revoking
  <2>3. rows' = n /\ revokedAt' = [revokedAt EXCEPT ![q.tok] = TRUE]
    BY <2>0, <2>1, <2>2, <1>1 DEF Insert, NoRow
  <2>4. PICK p \in {"sign", "revoke"}, o \in {"refresh", "burn"} :
          /\ Continue(r, [q EXCEPT !.pc = p, !.op = o, !.tok = n])
          /\ p = "sign" => o = "refresh"
          /\ p = "revoke" => o = "burn"
    BY <1>2, <1>7, <2>1 DEF Rotate
  <2>5. PICK x : x = [q EXCEPT !.pc = p, !.op = o, !.tok = n]
    OBVIOUS
  <2>6. x.pc = p /\ x.op = o /\ x.tok = n /\ Continue(r, x)
    BY <2>4, <2>5 DEF Request
  <2>7. ActiveRows' \subseteq (ActiveRows \ {q.tok}) \union {n}
    BY <1>1, <2>1, <2>2, <2>3, SMTT(30) DEF ActiveRows, LiveRows, TypeOK, RowIds
  <2>8. Cardinality(ActiveRows \ {q.tok}) < MaxFamilies
    BY <1>3, <2>2 DEF HasRoom, NeedsRoom, Going
  <2>9. Cardinality(ActiveRows') <= MaxFamilies
    BY <1>5, <2>1, <2>2, <2>3, <2>7, <2>8
  <2>10. n \in 1..rows'
    BY <1>1, <2>1, <2>3
  <2>11. HasRoom(x)' /\ Revoking(x)'
    BY <2>4, <2>6, <2>10 DEF HasRoom, NeedsRoom, Revoking
  <2> QED
    BY <1>1, <2>6, <2>9, <2>11, AloneRequest
<1> QED
  BY <1>4, <1>6, <1>7

LEMMA AloneExpires ==
  ASSUME TypeOK, AloneInv, Expire
  PROVE  AloneInv'
<1>1. /\ UNCHANGED <<rows, family, revokedAt, req>>
      /\ LiveRows' = LiveRows /\ \A f : FamilyRows(f)' = FamilyRows(f)
      /\ horizon' = horizon + 1 /\ horizon \in Nat
  BY DEF Expire, LiveRows, FamilyRows, TypeOK
<1>2. ActiveRows' \in SUBSET ActiveRows
  BY <1>1 DEF ActiveRows, LiveRows, TypeOK
<1>3. ASSUME NEW G
      PROVE  Cardinality(ActiveRows \ G) < MaxFamilies
               => Cardinality(ActiveRows' \ G) < MaxFamilies
  <2>1. /\ ActiveRows' \ G \in SUBSET (ActiveRows \ G)
        /\ ActiveRows \ G \in SUBSET (1..rows) /\ rows \in Nat
    BY <1>2 DEF ActiveRows, LiveRows, TypeOK
  <2>2. /\ Cardinality(ActiveRows' \ G) <= Cardinality(ActiveRows \ G)
        /\ Cardinality(ActiveRows' \ G) \in Nat
        /\ Cardinality(ActiveRows \ G) \in Nat
    BY <2>1, FewerRows
  <2> QED
    BY <2>2, ConstantsAssumption
<1>4. Cardinality(ActiveRows') <= MaxFamilies
  BY <1>2, ActiveShrinks, ConstantsAssumption DEF AloneInv
<1>5. ASSUME NEW r \in Requests
      PROVE  HasRoom(req[r])' /\ Revoking(req[r])'
  <2>1. HasRoom(req[r]) /\ Revoking(req[r])
    BY DEF AloneInv
  <2>2. HasRoom(req[r])'
    BY <1>1, <1>3, <2>1 DEF HasRoom, NeedsRoom, Going
  <2>3. Revoking(req[r])'
    BY <1>1, <2>1 DEF Revoking
  <2> QED
    BY <2>2, <2>3
<1> QED
  BY <1>4, <1>5 DEF AloneInv

LEMMA AloneInductive ==
  ASSUME Sequential
  PROVE  Spec => []AloneInv
<1>1. Init => AloneInv
  <2> SUFFICES ASSUME Init PROVE AloneInv
    OBVIOUS
  <2>1. ActiveRows = {}
    BY DEF Init, ActiveRows, LiveRows
  <2>2. Cardinality(ActiveRows) <= MaxFamilies
    BY <2>1, FS_EmptySet, ConstantsAssumption
  <2>3. \A r \in Requests : HasRoom(req[r]) /\ Revoking(req[r])
    BY DEF Init, Idle, HasRoom, NeedsRoom, Revoking
  <2> QED
    BY <2>2, <2>3 DEF AloneInv
<1>2. IndInv /\ IndInv' /\ AloneInv /\ [Next]_vars => AloneInv'
  <2> SUFFICES ASSUME IndInv, IndInv', AloneInv, [Next]_vars PROVE AloneInv'
    OBVIOUS
  <2>1. CASE UNCHANGED vars
    BY <2>1 DEF vars, AloneInv, HasRoom, Revoking, NeedsRoom, Going, ActiveRows,
                LiveRows, FamilyRows
  <2>2. CASE Expire
    BY <2>2, AloneExpires DEF IndInv
  <2>3. ASSUME NEW r \in Requests, Begin(r) \/ Step(r) \/ Fail(r)
        PROVE  AloneInv'
    BY <2>3, AloneBegins, AloneQuietSteps, AloneStoreSteps DEF Step
  <2> QED
    BY <2>1, <2>2, <2>3 DEF Next
<1> QED
  BY <1>1, <1>2, Inductive, PTL DEF Spec

\* Logins, rotations and expiries one after the other never leave more
\* active sessions than enforceActiveFamilyCap allows (logins that race may).
THEOREM CapHoldsInTurn ==
  ASSUME Sequential
  PROVE  Spec => []FamilyCap
<1>1. IndInv /\ AloneInv => FamilyCap
  BY FirstIsActive DEF FamilyCap, AloneInv
<1> QED
  BY <1>1, Inductive, AloneInductive, PTL

\* A refused refresh, reuse or lost acknowledgement, has closed its whole
\* family when it answers (rotate and revokeFamily).
THEOREM ReuseClosesInTurn ==
  ASSUME Sequential
  PROVE  Spec => []ReuseClosesFamily
<1>1. AloneInv => ReuseClosesFamily
  BY DEF AloneInv, Revoking, ReuseClosesFamily
<1> QED
  BY <1>1, AloneInductive, PTL

\* When logoutAll answers no session is left open (revokeAllForUser).
THEOREM LogoutClosesInTurn ==
  ASSUME Sequential
  PROVE  Spec => []LogoutEverywhere
<1>1. AloneInv => LogoutEverywhere
  BY DEF AloneInv, Revoking, LogoutEverywhere, FamilyRows
<1> QED
  BY <1>1, AloneInductive, PTL

-----------------------------------------------------------------------------
(* Every request ends.  A step brings a request nearer to its end: the loop *)
(* over the families above the cap is the only one, and each turn of it     *)
(* takes the oldest family off the list.                                    *)

\* A weakly fair request, with the states where it can go on written out.
RequestComes(r) == <>(req[r].pc = "idle") \/ <><<Step(r) \/ Fail(r)>>_vars
RequestsGoOn == \A r \in Requests : RequestComes(r)

\* The list of families is a login's: nothing is left on it elsewhere.
ListIsOfLogin ==
  \A r \in Requests : req[r].pc \in {"rotate", "bump"} => req[r].todo = {}

EndInv == IndInv /\ ListIsOfLogin

FairRequests == [][Next]_vars /\ []EndInv /\ []RequestsGoOn

\* The most statements request q has still to send, its answer included.
StepsLeft(q) ==
  CASE q.pc = "idle" -> 0
    [] q.pc = "reply" -> 1
    [] q.pc \in {"create", "sign"} -> 2
    [] q.pc = "apply" -> 2 * Cardinality(q.todo) + 3
    [] q.pc = "revoke" -> IF q.todo = {} THEN 4 ELSE 2 * Cardinality(q.todo) + 2
    [] q.pc \in {"rotate", "bump"} -> 5
    [] OTHER -> 2 * MaxRows + 5

LEMMA ListCounted ==
  ASSUME NEW S \in SUBSET RowIds
  PROVE  /\ IsFiniteSet(S)
         /\ Cardinality(S) \in Nat
         /\ Cardinality(S) <= MaxRows
         /\ Cardinality(S) = 0 <=> S = {}
<1>1. IsFiniteSet(1..MaxRows) /\ Cardinality(1..MaxRows) = MaxRows
  BY FS_Interval, ConstantsAssumption
<1>2. IsFiniteSet(S)
  BY <1>1, FS_Subset DEF RowIds
<1>3. Cardinality(S) \in Nat /\ Cardinality(S) <= MaxRows
  BY <1>1, FS_Subset, FS_CardinalityType DEF RowIds
<1>4. Cardinality(S) = 0 <=> S = {}
  BY <1>2, FS_EmptySet
<1> QED
  BY <1>2, <1>3, <1>4

\* A turn of the loop takes one family off the list.
LEMMA ListShortens ==
  ASSUME NEW S \in SUBSET RowIds, S # {}
  PROVE  Cardinality({t \in S : \E u \in S : u < t}) = Cardinality(S) - 1
<1>1. S \in SUBSET Nat
  BY DEF RowIds
<1>2. PICK m \in S : \A n \in S : m <= n
  BY <1>1, HasLeast
<1>3. {t \in S : \E u \in S : u < t} = S \ {m}
  <2>1. ASSUME NEW t \in S
        PROVE  (\E u \in S : u < t) <=> t # m
    <3>1. t \in Nat /\ m \in Nat /\ m <= t
      BY <1>1, <1>2
    <3>2. ASSUME NEW u \in S, u < m PROVE FALSE
      <4>1. u \in Nat /\ m <= u
        BY <1>1, <1>2
      <4> QED
        BY <3>1, <3>2, <4>1
    <3>3. t # m => m < t
      BY <3>1
    <3> QED
      BY <3>2, <3>3
  <2> QED
    BY <2>1
<1> QED
  BY <1>2, <1>3, ListCounted, FS_RemoveElement

LEMMA StepsLeftCounted ==
  ASSUME NEW q \in Request
  PROVE  /\ StepsLeft(q) \in Nat
         /\ StepsLeft(q) = 0 => q.pc = "idle"
<1>1. q.todo \in SUBSET RowIds /\ q.pc \in Pcs
  BY DEF Request
<1>2. Cardinality(q.todo) \in Nat
  BY <1>1, ListCounted
<1> QED
  BY <1>1, <1>2, ConstantsAssumption DEF StepsLeft, Pcs

LEMMA StepLowers ==
  ASSUME EndInv, NEW r \in Requests, Step(r) \/ Fail(r)
  PROVE  StepsLeft(req'[r]) < StepsLeft(req[r])
<1> DEFINE q == req[r]
           k == Cardinality(q.todo)
<1>1. q \in Request /\ req \in [Requests -> Request]
  BY DEF EndInv, IndInv, TypeOK
<1>2. q.todo \in SUBSET RowIds /\ q.pc \in Pcs
  BY <1>1 DEF Request
<1>3. k \in Nat /\ (k = 0 <=> q.todo = {})
  BY <1>2, ListCounted
<1>4. ASSUME NEW next, Continue(r, next)
      PROVE  req'[r] = next
  BY <1>1, <1>4 DEF Continue
<1>5. CASE Fail(r)
  <2>1. req'[r] = Idle /\ q.pc # "idle"
    BY <1>4, <1>5 DEF Fail
  <2> QED
    BY <1>1, <1>2, <1>3, <2>1, ConstantsAssumption DEF StepsLeft, Idle, Pcs
<1>6. CASE EnforceCap(r)
  <2>1. q.pc = "cap"
    BY <1>6 DEF EnforceCap
  <2>2. OverCap \in SUBSET RowIds
    BY ConstantsAssumption
       DEF OverCap, FirstActive, ActiveRows, LiveRows, EndInv, IndInv, TypeOK, RowIds
  <2>3. req'[r] = [q EXCEPT !.pc = AfterCap(OverCap), !.todo = OverCap]
    BY <1>4, <1>6 DEF EnforceCap
  <2> DEFINE S == OverCap
  <2>4. S \in SUBSET RowIds /\ req'[r].pc = AfterCap(S) /\ req'[r].todo = S
    BY <1>1, <2>2, <2>3 DEF Request
  <2> HIDE DEF S
  <2>5. Cardinality(S) \in Nat /\ Cardinality(S) <= MaxRows
    BY <2>4, ListCounted
  <2>6. StepsLeft(q) = 2 * MaxRows + 5
    BY <2>1 DEF StepsLeft
  <2>7. StepsLeft(req'[r]) = IF S = {} THEN 2 ELSE 2 * Cardinality(S) + 2
    BY <2>4 DEF StepsLeft, AfterCap
  <2> QED
    BY <2>5, <2>6, <2>7, ConstantsAssumption
<1>7. CASE Snapshot(r)
  <2> DEFINE S == {t \in q.todo : \E u \in q.todo : u < t}
  <2>1. q.pc = "revoke" /\ req'[r].pc = "apply" /\ req'[r].todo = S
    <3>1. req'[r] = [q EXCEPT !.pc = "apply", !.snap = Selected(r), !.todo = S]
      BY <1>1, <1>7 DEF Snapshot, Continue, Request
    <3> QED
      BY <1>1, <1>7, <3>1 DEF Snapshot, Request
  <2>2. q.todo # {} => Cardinality(S) = k - 1
    BY <1>2, ListShortens
  <2>3. q.todo = {} => Cardinality(S) = 0
    BY FS_EmptySet
  <2> HIDE DEF S
  <2>4. StepsLeft(req'[r]) = 2 * Cardinality(S) + 3
    BY <2>1 DEF StepsLeft
  <2>5. StepsLeft(q) = IF q.todo = {} THEN 4 ELSE 2 * k + 2
    BY <2>1 DEF StepsLeft
  <2> QED
    BY <1>3, <2>2, <2>3, <2>4, <2>5
<1>8. CASE Apply(r)
  <2>1. q.pc = "apply" /\ req'[r].todo = q.todo
    BY <1>1, <1>8 DEF Apply, Continue, Request
  <2>2. req'[r].pc \in {"reply", AfterCap(q.todo)}
    BY <1>1, <1>8 DEF Apply, Continue, Request
  <2>3. StepsLeft(q) = 2 * k + 3
    BY <2>1 DEF StepsLeft
  <2>4. \/ StepsLeft(req'[r]) \in {1, 2}
        \/ StepsLeft(req'[r]) = 2 * k + 2
    BY <2>1, <2>2 DEF StepsLeft, AfterCap
  <2> QED
    BY <1>3, <2>3, <2>4
<1>9. CASE Issue(r) \/ Sign(r)
  <2>1. q.pc \in {"create", "sign"}
    BY <1>9 DEF Issue, Sign
  <2>2. CASE Issue(r)
    <3>1. req'[r] = [q EXCEPT !.pc = "reply", !.tok = rows + 1]
      BY <1>4, <2>2 DEF Issue
    <3> QED
      BY <1>1, <2>1, <3>1 DEF Request, StepsLeft
  <2>3. CASE Sign(r)
    <3>1. req'[r] = [q EXCEPT !.pc = "reply", !.ver = tokenVersion, !.grants = TRUE]
      BY <1>4, <2>3 DEF Sign
    <3> QED
      BY <1>1, <2>1, <3>1 DEF Request, StepsLeft
  <2> QED
    BY <1>9, <2>2, <2>3
<1>10. CASE Rotate(r) \/ LoseRace(r) \/ Bump(r)
  <2>1. q.pc \in {"rotate", "bump"} /\ q.todo = {}
    BY <1>10 DEF Rotate, LoseRace, Bump, EndInv, ListIsOfLogin
  <2>2. req'[r].pc \in {"sign", "revoke"} /\ req'[r].todo = q.todo
    <3>1. ASSUME NEW acknowledged \in BOOLEAN,
                 Continue(r, [q EXCEPT
                   !.pc  = IF acknowledged THEN "sign" ELSE "revoke",
                   !.op  = IF acknowledged THEN "refresh" ELSE "burn",
                   !.tok = rows + 1])
          PROVE  req'[r].pc \in {"sign", "revoke"} /\ req'[r].todo = q.todo
      <4>1. req'[r] = [q EXCEPT
                         !.pc  = IF acknowledged THEN "sign" ELSE "revoke",
                         !.op  = IF acknowledged THEN "refresh" ELSE "burn",
                         !.tok = rows + 1]
        BY <1>4, <3>1
      <4> QED
        BY <1>1, <4>1 DEF Request
    <3>2. CASE Rotate(r)
      BY <3>1, <3>2 DEF Rotate
    <3>3. CASE LoseRace(r)
      <4>1. req'[r] = [q EXCEPT !.pc = "revoke", !.op = "burn"]
        BY <1>4, <3>3 DEF LoseRace
      <4> QED
        BY <1>1, <4>1 DEF Request
    <3>4. CASE Bump(r)
      <4>1. req'[r] = [q EXCEPT !.pc = "revoke"]
        BY <1>4, <3>4 DEF Bump
      <4> QED
        BY <1>1, <4>1 DEF Request
    <3> QED
      BY <1>10, <3>2, <3>3, <3>4
  <2>3. StepsLeft(req'[r]) \in {2, 4}
    BY <2>1, <2>2 DEF StepsLeft
  <2>4. StepsLeft(q) = 5
    BY <2>1 DEF StepsLeft
  <2> QED
    BY <2>3, <2>4
<1>11. CASE Reply(r)
  <2>1. q.pc = "reply" /\ req'[r] = Idle
    BY <1>4, <1>11 DEF Reply
  <2> QED
    BY <2>1 DEF StepsLeft, Idle
<1> QED
  BY <1>5, <1>6, <1>7, <1>8, <1>9, <1>10, <1>11 DEF Step

\* A request that takes a step writes its own record and no other.
LEMMA StepContinues ==
  ASSUME NEW s \in Requests, Step(s) \/ Fail(s)
  PROVE  \E next : Continue(s, next)
<1>1. CASE EnforceCap(s) \/ Snapshot(s) \/ Sign(s) \/ Bump(s) \/ Reply(s) \/ Fail(s)
  BY <1>1 DEF EnforceCap, Snapshot, Sign, Bump, Reply, Fail
<1>2. CASE Apply(s)
  BY <1>2 DEF Apply
<1>3. CASE Issue(s)
  BY <1>3 DEF Issue
<1>4. CASE Rotate(s) \/ LoseRace(s)
  BY <1>4 DEF Rotate, LoseRace
<1> QED
  BY <1>1, <1>2, <1>3, <1>4 DEF Step

\* What the other requests do, and time, leaves a started request alone.
LEMMA OthersLeave ==
  ASSUME EndInv, NEW r \in Requests, req[r].pc # "idle", [Next]_vars,
         ~Step(r), ~Fail(r)
  PROVE  req'[r] = req[r]
<1>1. req \in [Requests -> Request]
  BY DEF EndInv, IndInv, TypeOK
<1>2. CASE UNCHANGED vars
  BY <1>2 DEF vars
<1>3. CASE Expire
  BY <1>3 DEF Expire
<1>4. ASSUME NEW s \in Requests, Begin(s) \/ Step(s) \/ Fail(s)
      PROVE  req'[r] = req[r]
  <2>1. \/ req' = req
        \/ \E next : Continue(s, next) /\ (r = s => Step(r) \/ Fail(r))
    <3>1. CASE Begin(s)
      <4>1. ASSUME NEW t \in RowIds, Refresh(s, t) \/ Logout(s, t) \/ RevokeSession(s, t)
            PROVE  req' = req \/ (req[s].pc = "idle" /\ \E next : Continue(s, next))
        BY <4>1 DEF Refresh, Logout, RevokeSession
      <4>2. CASE Login(s) \/ LogoutAll(s) \/ RevokeAllSessions(s)
        BY <4>2 DEF Login, LogoutAll, RevokeAllSessions
      <4> QED
        BY <3>1, <4>1, <4>2 DEF Begin
    <3>2. CASE Step(s) \/ Fail(s)
      BY <3>2, StepContinues
    <3> QED
      BY <1>4, <3>1, <3>2
  <2> QED
    BY <1>1, <2>1 DEF Continue
<1> QED
  BY <1>2, <1>3, <1>4 DEF Next

\* No step on the way of a request leads to the transaction of a rotation or
\* to the first statement of logoutAll: requests begin there.
LEMMA StepReaches ==
  ASSUME EndInv, NEW r \in Requests, Step(r) \/ Fail(r)
  PROVE  req'[r].pc \notin {"rotate", "bump"}
<1>1. req[r] \in Request /\ req \in [Requests -> Request]
  BY DEF EndInv, IndInv, TypeOK
<1>2. ASSUME NEW next, Continue(r, next)
      PROVE  req'[r] = next
  BY <1>1, <1>2 DEF Continue
<1>3. CASE EnforceCap(r)
  BY <1>1, <1>2, <1>3 DEF EnforceCap, AfterCap, Request
<1>4. CASE Snapshot(r) \/ LoseRace(r) \/ Bump(r)
  <2>1. CASE Snapshot(r)
    BY <1>1, <2>1 DEF Snapshot, Continue, Request
  <2>2. CASE LoseRace(r) \/ Bump(r)
    BY <1>1, <2>2 DEF LoseRace, Bump, Continue, Request
  <2> QED
    BY <1>4, <2>1, <2>2
<1>5. CASE Apply(r)
  BY <1>1, <1>5 DEF Apply, AfterCap, Continue, Request
<1>6. CASE Issue(r)
  BY <1>1, <1>6 DEF Issue, Continue, Request
<1>7. CASE Rotate(r)
  <2>1. PICK acknowledged \in BOOLEAN :
          req'[r] = [req[r] EXCEPT
                       !.pc  = IF acknowledged THEN "sign" ELSE "revoke",
                       !.op  = IF acknowledged THEN "refresh" ELSE "burn",
                       !.tok = rows + 1]
    BY <1>2, <1>7 DEF Rotate
  <2> QED
    BY <1>1, <2>1 DEF Request
<1>8. CASE Sign(r)
  BY <1>1, <1>8 DEF Sign, Continue, Request
<1>9. CASE Reply(r) \/ Fail(r)
  BY <1>2, <1>9 DEF Reply, Fail, Idle
<1> QED
  BY <1>3, <1>4, <1>5, <1>6, <1>7, <1>8, <1>9 DEF Step

LEMMA ListStep == EndInv /\ [Next]_vars => ListIsOfLogin'
<1> SUFFICES ASSUME EndInv, [Next]_vars, NEW r \in Requests,
                    req'[r].pc \in {"rotate", "bump"}
             PROVE  req'[r].todo = {}
  BY DEF ListIsOfLogin
<1>1. req \in [Requests -> Request]
  BY DEF EndInv, IndInv, TypeOK
<1>2. CASE req'[r] = req[r]
  BY <1>2 DEF EndInv, ListIsOfLogin
<1>3. CASE Step(r) \/ Fail(r)
  BY <1>3, StepReaches
<1>4. CASE Begin(r)
  <2>1. \A next : Continue(r, next) => req'[r] = next
    BY <1>1 DEF Continue
  <2> QED
    BY <1>2, <1>4, <2>1 DEF Begin, Login, LogoutAll, RevokeAllSessions, Refresh, Logout,
         RevokeSession, Idle
<1>5. ASSUME NEW s \in Requests, s # r, Begin(s) \/ Step(s) \/ Fail(s)
      PROVE  req'[r] = req[r]
  <2>1. req' = req \/ \E next : Continue(s, next)
    BY <1>5, StepContinues DEF Begin, Login, LogoutAll, RevokeAllSessions, Refresh,
         Logout, RevokeSession
  <2> QED
    BY <1>1, <1>5, <2>1 DEF Continue
<1>6. CASE Expire \/ UNCHANGED vars
  BY <1>2, <1>6 DEF Expire, vars
<1> QED
  BY <1>2, <1>3, <1>4, <1>5, <1>6 DEF Next

LEMMA RequestsEndInv == Spec => []EndInv
<1>1. Init => EndInv
  BY InitIndInv DEF EndInv, ListIsOfLogin, Init, Idle
<1>2. EndInv /\ [Next]_vars => EndInv'
  BY ListStep, TypeStep, RequestsStep, RowsStep DEF EndInv, IndInv
<1> QED
  BY <1>1, <1>2, PTL DEF Spec

\* Request r ends when it has so few statements to go.
EndsWithin(r, n) ==
  [](FairRequests => (StepsLeft(req[r]) <= n => <>(req[r].pc = "idle")))

LEMMA EndedAlready ==
  ASSUME NEW r \in Requests
  PROVE  EndsWithin(r, 0)
<1>1. EndInv /\ StepsLeft(req[r]) <= 0 => req[r].pc = "idle"
  <2>1. EndInv => req[r] \in Request
    BY DEF EndInv, IndInv, TypeOK
  <2> QED
    BY <2>1, StepsLeftCounted
<1> QED
  BY <1>1, PTL DEF EndsWithin, FairRequests

LEMMA EndsLater ==
  ASSUME NEW r \in Requests, NEW n \in Nat
  PROVE  EndsWithin(r, n) => EndsWithin(r, n + 1)
<1>1. EndInv => req[r] \in Request
  BY DEF EndInv, IndInv, TypeOK
<1>2. (EndInv => req[r] \in Request)'
  BY <1>1, PTL
<1>3. EndInv /\ EndInv' /\ (Step(r) \/ Fail(r)) /\ StepsLeft(req[r]) <= n + 1
        => (StepsLeft(req[r]) <= n)'
  <2> SUFFICES ASSUME EndInv, EndInv', Step(r) \/ Fail(r), StepsLeft(req[r]) <= n + 1
               PROVE  StepsLeft(req'[r]) <= n
    OBVIOUS
  <2>1. StepsLeft(req[r]) \in Nat /\ StepsLeft(req'[r]) \in Nat
    BY <1>1, <1>2, StepsLeftCounted
  <2> QED
    BY <2>1, StepLowers
<1>4. EndInv /\ EndInv' /\ [Next]_vars /\ ~(req[r].pc = "idle") /\ StepsLeft(req[r]) <= n + 1
        => (StepsLeft(req[r]) <= n + 1)' \/ (StepsLeft(req[r]) <= n)'
  <2> SUFFICES ASSUME EndInv, EndInv', [Next]_vars, req[r].pc # "idle",
                      StepsLeft(req[r]) <= n + 1, ~(StepsLeft(req'[r]) <= n)
               PROVE  StepsLeft(req'[r]) <= n + 1
    OBVIOUS
  <2>1. ~Step(r) /\ ~Fail(r)
    BY <1>3
  <2> QED
    BY <2>1, OthersLeave
<1>5. EndInv /\ EndInv' /\ <<Step(r) \/ Fail(r)>>_vars /\ StepsLeft(req[r]) <= n + 1
        => (StepsLeft(req[r]) <= n)'
  BY <1>3
<1>6. RequestsGoOn => <>(req[r].pc = "idle") \/ <><<Step(r) \/ Fail(r)>>_vars
  BY DEF RequestsGoOn, RequestComes
<1> QED
  BY <1>4, <1>5, <1>6, PTL DEF EndsWithin, FairRequests

LEMMA NumberByNumber ==
  ASSUME NEW holds, holds[0], \A n \in Nat : holds[n] => holds[n + 1]
  PROVE  \A n \in Nat : holds[n]
<1> DEFINE Fails == {n \in Nat : ~holds[n]}
<1> SUFFICES ASSUME Fails # {} PROVE FALSE
  OBVIOUS
<1>1. PICK m \in Fails : \A n \in Fails : m <= n
  BY HasLeast
<1>2. m \in Nat /\ m # 0 /\ ~holds[m]
  OBVIOUS
<1>3. m - 1 \in Nat /\ (m - 1) + 1 = m /\ ~(m <= m - 1)
  BY <1>2
<1>4. holds[m - 1]
  BY <1>1, <1>3
<1> QED
  BY <1>2, <1>3, <1>4

\* No set of TLA+ holds what is true of a behaviour for each number.  Named as
\* the sequence of its truth it is there for the provers to find.
Told(sequence) == TRUE

LEMMA AlwaysEnds ==
  ASSUME NEW r \in Requests
  PROVE  \A n \in Nat : EndsWithin(r, n)
<1>1. \E holds : \A n \in Nat : holds[n] <=> EndsWithin(r, n)
  <2>1. Told([n \in Nat |-> EndsWithin(r, n)])
    BY DEF Told
  <2> QED
    BY <2>1
<1>2. PICK holds : \A n \in Nat : holds[n] <=> EndsWithin(r, n)
  BY <1>1
<1>3. holds[0] /\ \A n \in Nat : holds[n] => holds[n + 1]
  BY <1>2, EndedAlready, EndsLater
<1> QED
  BY <1>2, <1>3, NumberByNumber

\* A request that keeps running ends, whatever the others do in between and
\* however many families the cap makes it revoke (enforceActiveFamilyCap).
THEOREM RequestsEnd == Spec /\ []RequestsGoOn => EveryRequestEnds
<1> SUFFICES ASSUME NEW r \in Requests
             PROVE  Spec /\ []RequestsGoOn
                      => (req[r].pc # "idle" ~> req[r].pc = "idle")
  BY DEF EveryRequestEnds
<1>1. FairRequests => <>(req[r].pc = "idle")
  <2>1. FairRequests => EndInv
    BY PTL DEF FairRequests
  <2>2. EndInv => \E n \in Nat : StepsLeft(req[r]) <= n
    <3>1. EndInv => req[r] \in Request
      BY DEF EndInv, IndInv, TypeOK
    <3>2. \A n \in Nat : n <= n
      OBVIOUS
    <3> QED
      BY <3>1, <3>2, StepsLeftCounted
  <2>3. ASSUME NEW n \in Nat
        PROVE  FairRequests => (StepsLeft(req[r]) <= n => <>(req[r].pc = "idle"))
    <3>1. EndsWithin(r, n)
      BY AlwaysEnds
    <3> QED
      BY <3>1, PTL DEF EndsWithin
  <2> QED
    BY <2>1, <2>2, <2>3
<1> QED
  BY <1>1, RequestsEndInv, PTL DEF Spec, FairRequests
=============================================================================
