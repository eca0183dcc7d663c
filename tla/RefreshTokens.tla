----------------------------- MODULE RefreshTokens -----------------------------
(***************************************************************************)
(* The refresh-token store of one user, as RefreshTokenService and the     *)
(* session part of AuthService keep it in PostgreSQL, and as the web       *)
(* application's user-sessions module revokes it through its own           *)
(* connection.  Every request (login, refresh, logout, ...) is a process   *)
(* whose steps are the statements it sends to the database; statements of  *)
(* several requests interleave.                                            *)
(*                                                                         *)
(* A row's id is its rank in creation order, so ids order rows as          *)
(* createdAt does, and a familyId (a fresh UUID of the login that opened   *)
(* it) is the id of the family's first row.  All rows have the same time   *)
(* to live, hence they expire in creation order: rows up to `horizon` are  *)
(* past their expiresAt.                                                   *)
(*                                                                         *)
(* An `updateMany` under READ COMMITTED sees the rows committed when the   *)
(* statement starts, then re-evaluates its WHERE clause on each of them    *)
(* when it locks it: two steps here, a snapshot and its application.       *)
(***************************************************************************)
EXTENDS Naturals, FiniteSets

CONSTANTS Requests,     \* requests that may be in flight at the same time
          MaxFamilies,  \* MAX_REFRESH_FAMILIES_PER_USER
          StrictBind,   \* REFRESH_STRICT_BIND
          MaxRows,      \* bound: rows created in a behaviour
          MaxVersion    \* bound: increments of User.tokenVersion

ASSUME ConstantsAssumption ==
  /\ MaxFamilies \in Nat \ {0}
  /\ StrictBind \in BOOLEAN
  /\ MaxRows \in Nat
  /\ MaxVersion \in Nat

VARIABLES
  rows,          \* number of RefreshToken rows created so far
  family,        \* RefreshToken.familyId
  revokedAt,     \* RefreshToken.revokedAt # null
  replacedById,  \* RefreshToken.replacedById, NoRow for null
  horizon,       \* rows 1..horizon have expired
  tokenVersion,  \* User.tokenVersion
  held,          \* rows whose raw token reached a client
  access,        \* `ver` claims of the access tokens that reached a client
  req            \* the state of every request

vars == <<rows, family, revokedAt, replacedById, horizon, tokenVersion,
          held, access, req>>

RowIds   == 1..MaxRows
NoRow    == 0
Versions == 0..MaxVersion

Ops == {"none", "login", "refresh", "burn", "logout_all", "revoke_one", "revoke_all"}
Pcs == {"idle", "cap", "revoke", "apply", "create", "rotate", "sign",
        "bump", "reply"}

\* One request: where it is, the token it presented or created (tok), the
\* rows its running updateMany saw (snap), the families its cap check has
\* still to revoke, each by its first active row (todo), the tokenVersion it
\* read (ver), and whether its answer carries new tokens (grants).
Request == [pc: Pcs, op: Ops, tok: 0..MaxRows, snap: SUBSET RowIds,
            todo: SUBSET RowIds, ver: Versions, grants: BOOLEAN]

Idle == [pc |-> "idle", op |-> "none", tok |-> NoRow, snap |-> {},
         todo |-> {}, ver |-> 0, grants |-> FALSE]

Init ==
  /\ rows = 0
  /\ family = [t \in RowIds |-> NoRow]
  /\ revokedAt = [t \in RowIds |-> FALSE]
  /\ replacedById = [t \in RowIds |-> NoRow]
  /\ horizon = 0
  /\ tokenVersion = 0
  /\ held = {}
  /\ access = {}
  /\ req = [r \in Requests |-> Idle]

-----------------------------------------------------------------------------
(* The rows the WHERE clauses of the code select.                          *)

LiveRows == {t \in 1..rows : ~revokedAt[t]}

FamilyRows(f) == {t \in LiveRows : family[t] = f}

ActiveRows == {t \in LiveRows : t > horizon}

\* The oldest active row of every active family.
FirstActive == {t \in ActiveRows :
                  \A u \in ActiveRows : family[u] = family[t] => t <= u}

\* Mutant: one family too few is revoked.
OverCapOffByOne ==
  {t \in FirstActive : Cardinality({u \in FirstActive : u < t}) <
                         Cardinality(FirstActive) - MaxFamilies}

\* The families enforceActiveFamilyCap revokes before a new one is opened.
OverCap ==
  IF Cardinality(FirstActive) < MaxFamilies
  THEN {}
  ELSE {t \in FirstActive :
          Cardinality({u \in FirstActive : u < t}) <=
            Cardinality(FirstActive) - MaxFamilies}

-----------------------------------------------------------------------------
(* Steps shared by several requests.                                       *)

\* INSERT of a row of family f, possibly replacing row t (NoRow: none).
Insert(f, t) ==
  /\ rows < MaxRows
  /\ rows' = rows + 1
  /\ family' = [family EXCEPT ![rows + 1] = f]
  /\ IF t = NoRow
     THEN UNCHANGED <<revokedAt, replacedById>>
     ELSE /\ revokedAt' = [revokedAt EXCEPT ![t] = TRUE]
          /\ replacedById' = [replacedById EXCEPT ![t] = rows + 1]

Continue(r, next) == req' = [req EXCEPT ![r] = next]

\* Mutant: reuse revokes the presented token only.
SelectedPresented(r) ==
  IF req[r].op = "logout_all" THEN LiveRows ELSE LiveRows \intersect {req[r].tok}

\* The rows the updateMany of request r selects: revokeFamily for the
\* family at hand, or revokeAllForUser.
Selected(r) ==
  CASE req[r].op \in {"burn", "revoke_one"} -> FamilyRows(family[req[r].tok])
    [] req[r].op = "login" ->
         {t \in LiveRows : \E first \in req[r].todo :
                              /\ family[t] = family[first]
                              /\ \A u \in req[r].todo : first <= u}
    [] OTHER -> LiveRows

\* The transaction of revokeAllUserSessions has updated the User row and not
\* committed yet: other updates of that row wait for it.
UserRowLocked == \E q \in Requests :
                   req[q].op = "revoke_all" /\ req[q].pc = "apply"

\* Mutant: the loop of the cap never moves on to the next family.
SnapshotSameFamily(r) ==
  /\ req[r].pc = "revoke"
  /\ req[r].op = "revoke_all" => ~UserRowLocked
  /\ Continue(r, [req[r] EXCEPT !.pc = "apply", !.snap = Selected(r)])
  /\ UNCHANGED <<rows, family, revokedAt, replacedById, horizon,
                 tokenVersion, held, access>>

\* updateMany, first half: the statement's snapshot.
Snapshot(r) ==
  /\ req[r].pc = "revoke"
  /\ req[r].op = "revoke_all" => ~UserRowLocked
  /\ Continue(r, [req[r] EXCEPT
       !.pc = "apply",
       !.snap = Selected(r),
       !.todo = {t \in @ : \E u \in @ : u < t}])
  /\ UNCHANGED <<rows, family, revokedAt, replacedById, horizon,
                 tokenVersion, held, access>>

AfterCap(todo) == IF todo = {} THEN "create" ELSE "revoke"

\* Mutant: the revocation leaves rows alone that have expired.
ApplySkipsExpired(r) ==
  /\ req[r].pc = "apply"
  /\ revokedAt' = [t \in RowIds |->
                     revokedAt[t] \/ (t \in req[r].snap /\ t > horizon)]
  /\ IF req[r].op = "revoke_all"
     THEN tokenVersion < MaxVersion /\ tokenVersion' = tokenVersion + 1
     ELSE UNCHANGED tokenVersion
  /\ Continue(r, [req[r] EXCEPT
       !.pc = IF req[r].op = "login" THEN AfterCap(req[r].todo) ELSE "reply"])
  /\ UNCHANGED <<rows, family, replacedById, horizon, held, access>>

\* updateMany, second half: the snapshot's rows are locked, those already
\* revoked skipped, and the statement commits.  The transaction of
\* revokeAllUserSessions commits its tokenVersion increment with it.
Apply(r) ==
  /\ req[r].pc = "apply"
  /\ revokedAt' = [t \in RowIds |-> revokedAt[t] \/ t \in req[r].snap]
  /\ IF req[r].op = "revoke_all"
     THEN tokenVersion < MaxVersion /\ tokenVersion' = tokenVersion + 1
     ELSE UNCHANGED tokenVersion
  /\ Continue(r, [req[r] EXCEPT
       !.pc = IF req[r].op = "login" THEN AfterCap(req[r].todo) ELSE "reply"])
  /\ UNCHANGED <<rows, family, replacedById, horizon, held, access>>

\* The response reaches the client.
Reply(r) ==
  /\ req[r].pc = "reply"
  /\ IF req[r].grants
     THEN /\ held' = held \union {req[r].tok}
          /\ access' = access \union {req[r].ver}
     ELSE UNCHANGED <<held, access>>
  /\ Continue(r, Idle)
  /\ UNCHANGED <<rows, family, revokedAt, replacedById, horizon, tokenVersion>>

\* The request dies between two statements, or its response is lost: a
\* database error, an instance that is stopped, a proxy timeout.
Fail(r) ==
  /\ req[r].pc # "idle"
  /\ Continue(r, Idle)
  /\ UNCHANGED <<rows, family, revokedAt, replacedById, horizon,
                 tokenVersion, held, access>>

-----------------------------------------------------------------------------
(* AuthService.login: completeLogin -> issueTokens -> issue                 *)

\* The user row is read and the access token signed for its tokenVersion.
Login(r) ==
  /\ req[r].pc = "idle"
  /\ Continue(r, [Idle EXCEPT !.pc = "cap", !.op = "login",
                              !.ver = tokenVersion, !.grants = TRUE])
  /\ UNCHANGED <<rows, family, revokedAt, replacedById, horizon,
                 tokenVersion, held, access>>

\* enforceActiveFamilyCap: one findMany decides which families go.
EnforceCap(r) ==
  /\ req[r].pc = "cap"
  /\ Continue(r, [req[r] EXCEPT !.pc = AfterCap(OverCap), !.todo = OverCap])
  /\ UNCHANGED <<rows, family, revokedAt, replacedById, horizon,
                 tokenVersion, held, access>>

\* The new family's first row.
Issue(r) ==
  /\ req[r].pc = "create"
  /\ Insert(rows + 1, NoRow)
  /\ Continue(r, [req[r] EXCEPT !.pc = "reply", !.tok = rows + 1])
  /\ UNCHANGED <<horizon, tokenVersion, held, access>>

-----------------------------------------------------------------------------
(* AuthService.refresh: rotate, then a new access token                     *)

\* What rotate does next with the row it found: "revoke" burns the family.
AfterLookup(t, mismatch) ==
  IF revokedAt[t] \/ replacedById[t] # NoRow THEN "revoke"
  ELSE IF t <= horizon THEN "reply"
  ELSE IF mismatch THEN "revoke" ELSE "rotate"

\* findUnique, and what the row found decides.  With strict binding on, the
\* client's address or agent may or may not match the row's.
Refresh(r, t) ==
  /\ req[r].pc = "idle"
  /\ t \in held
  /\ \E mismatch \in (IF StrictBind THEN BOOLEAN ELSE {FALSE}) :
       Continue(r, [Idle EXCEPT
         !.pc = AfterLookup(t, mismatch),
         !.op = IF AfterLookup(t, mismatch) = "revoke" THEN "burn" ELSE "refresh",
         !.tok = t])
  /\ UNCHANGED <<rows, family, revokedAt, replacedById, horizon,
                 tokenVersion, held, access>>

\* Mutant: the updateMany of the rotation selects by id alone.
RotateById(r) ==
  LET t == req[r].tok IN
  /\ req[r].pc = "rotate"
  /\ Insert(family[t], t)
  /\ Continue(r, [req[r] EXCEPT !.pc = "sign", !.tok = rows + 1])
  /\ UNCHANGED <<horizon, tokenVersion, held, access>>

\* Mutant: the updateMany of the rotation only asks for replacedById: null.
RotateIfNotReplaced(r) ==
  LET t == req[r].tok IN
  /\ req[r].pc = "rotate"
  /\ replacedById[t] = NoRow
  /\ Insert(family[t], t)
  /\ Continue(r, [req[r] EXCEPT !.pc = "sign", !.tok = rows + 1])
  /\ UNCHANGED <<horizon, tokenVersion, held, access>>

\* The transaction commits: the successor exists and the row still held its
\* place (revokedAt: null, replacedById: null).  If the acknowledgement of
\* the commit is lost, the code takes it for a lost race.
Rotate(r) ==
  LET t == req[r].tok IN
  /\ req[r].pc = "rotate"
  /\ ~revokedAt[t] /\ replacedById[t] = NoRow
  /\ Insert(family[t], t)
  /\ \E acknowledged \in BOOLEAN :
       Continue(r, [req[r] EXCEPT
         !.pc  = IF acknowledged THEN "sign" ELSE "revoke",
         !.op  = IF acknowledged THEN "refresh" ELSE "burn",
         !.tok = rows + 1])
  /\ UNCHANGED <<horizon, tokenVersion, held, access>>

\* The transaction rolls back (count # 1, or a database error): the race is
\* taken for reuse and the family is revoked.
LoseRace(r) ==
  /\ req[r].pc = "rotate"
  /\ Continue(r, [req[r] EXCEPT !.pc = "revoke", !.op = "burn"])
  /\ UNCHANGED <<rows, family, revokedAt, replacedById, horizon,
                 tokenVersion, held, access>>

\* The user row is read again and the access token signed for it.
Sign(r) ==
  /\ req[r].pc = "sign"
  /\ Continue(r, [req[r] EXCEPT !.pc = "reply", !.ver = tokenVersion,
                                !.grants = TRUE])
  /\ UNCHANGED <<rows, family, revokedAt, replacedById, horizon,
                 tokenVersion, held, access>>

-----------------------------------------------------------------------------
(* Logout, logout everywhere, and the session list of the profile page      *)

\* An access token is accepted while its `ver` is the user's tokenVersion.
Authenticated == tokenVersion \in access

\* AuthService.logout: one UPDATE of one row.
Logout(r, t) ==
  /\ req[r].pc = "idle"
  /\ t \in held
  /\ revokedAt' = [revokedAt EXCEPT ![t] = TRUE]
  /\ UNCHANGED <<rows, family, replacedById, horizon, tokenVersion, held,
                 access, req>>

\* AuthService.logoutAll, once JwtStrategy has accepted the access token.
LogoutAll(r) ==
  /\ req[r].pc = "idle"
  /\ Authenticated
  /\ Continue(r, [Idle EXCEPT !.pc = "bump", !.op = "logout_all",
                              !.ver = tokenVersion])
  /\ UNCHANGED <<rows, family, revokedAt, replacedById, horizon,
                 tokenVersion, held, access>>

\* bumpTokenVersion commits; revokeAllForUser is the next statement.
Bump(r) ==
  /\ req[r].pc = "bump"
  /\ ~UserRowLocked
  /\ tokenVersion < MaxVersion
  /\ tokenVersion' = tokenVersion + 1
  /\ Continue(r, [req[r] EXCEPT !.pc = "revoke"])
  /\ UNCHANGED <<rows, family, revokedAt, replacedById, horizon, held, access>>

\* POST /api/user/sessions/revoke: the family must be in the active list.
RevokeSession(r, t) ==
  /\ req[r].pc = "idle"
  /\ Authenticated
  /\ t \in ActiveRows /\ replacedById[t] = NoRow
  /\ Continue(r, [Idle EXCEPT !.pc = "revoke", !.op = "revoke_one", !.tok = t])
  /\ UNCHANGED <<rows, family, revokedAt, replacedById, horizon,
                 tokenVersion, held, access>>

\* POST /api/user/sessions/revoke-all: one transaction, see Apply.
RevokeAllSessions(r) ==
  /\ req[r].pc = "idle"
  /\ Authenticated
  /\ Continue(r, [Idle EXCEPT !.pc = "revoke", !.op = "revoke_all",
                              !.ver = tokenVersion])
  /\ UNCHANGED <<rows, family, revokedAt, replacedById, horizon,
                 tokenVersion, held, access>>

\* Time passes and the oldest unexpired row reaches its expiresAt.
Expire ==
  /\ horizon < rows
  /\ horizon' = horizon + 1
  /\ UNCHANGED <<rows, family, revokedAt, replacedById, tokenVersion, held,
                 access, req>>

-----------------------------------------------------------------------------

Begin(r) ==
  \/ Login(r)
  \/ LogoutAll(r)
  \/ RevokeAllSessions(r)
  \/ \E t \in RowIds : Refresh(r, t) \/ Logout(r, t) \/ RevokeSession(r, t)

Step(r) ==
  \/ EnforceCap(r)
  \/ Snapshot(r)
  \/ Apply(r)
  \/ Issue(r)
  \/ Rotate(r)
  \/ LoseRace(r)
  \/ Sign(r)
  \/ Bump(r)
  \/ Reply(r)

Next ==
  \/ \E r \in Requests : Begin(r) \/ Step(r) \/ Fail(r)
  \/ Expire

Spec == Init /\ [][Next]_vars

\* A request that has started keeps running until it answers or dies: Node's
\* event loop resumes every continuation, and a statement ends or errors.
Fairness == \A r \in Requests : WF_vars(Step(r) \/ Fail(r))

FairSpec == Spec /\ Fairness

-----------------------------------------------------------------------------
(* Properties                                                              *)

TypeOK ==
  /\ rows \in 0..MaxRows
  /\ family \in [RowIds -> 0..MaxRows]
  /\ revokedAt \in [RowIds -> BOOLEAN]
  /\ replacedById \in [RowIds -> 0..MaxRows]
  /\ horizon \in 0..rows
  /\ tokenVersion \in Versions
  /\ held \subseteq 1..rows
  /\ access \subseteq Versions
  /\ req \in [Requests -> Request]

\* A family never has two unrevoked rows, however many refreshes of it race:
\* the "latest non-revoked leaf" the session list shows per family is the
\* only one, and no two clients can both go on refreshing one session.
OneLeafPerFamily ==
  \A t, u \in LiveRows : family[t] = family[u] => t = u

\* The rows of a family form one line: every row but the newest was replaced,
\* by a newer row of the same family, no two rows by the same one, and a
\* replaced row is revoked (reuse detection relies on all of these).
LinearRotation ==
  /\ \A t, u \in 1..rows :
       t < u /\ family[t] = family[u] => replacedById[t] # NoRow
  /\ \A t \in 1..rows : replacedById[t] # NoRow =>
       /\ revokedAt[t]
       /\ replacedById[t] \in t+1..rows
       /\ family[replacedById[t]] = family[t]
       /\ \A u \in 1..rows : replacedById[u] = replacedById[t] => u = t

\* Once a session has no unrevoked token it is over: no refresh still in
\* flight, whatever it read before, brings the family back to life.
ClosedStaysClosed ==
  [][\A f \in 1..rows :
       FamilyRows(f) = {} => FamilyRows(f)' = {}]_vars

\* A token is exchanged at most once: the successor recorded on a row is
\* never overwritten by a second refresh of the same token.
ExchangedOnce ==
  [][\A t \in 1..rows :
       replacedById[t] # NoRow => replacedById'[t] = replacedById[t]]_vars

\* "Caps concurrent device sessions": the active families never outnumber the
\* maximum.
FamilyCap == Cardinality(FirstActive) <= MaxFamilies

\* "Burn the entire family so neither party keeps access": when a refresh
\* is refused because its token was revoked, or was lost to a racing refresh,
\* the family has no unrevoked row.
ReuseClosesFamily ==
  \A r \in Requests :
    req[r].op = "burn" /\ req[r].pc = "reply" /\ req[r].tok \notin req[r].snap
      => FamilyRows(family[req[r].tok]) = {}

\* "Revoke every session for the user (logout everywhere)": when logoutAll
\* answers, every session its statement saw open is closed (a session opened
\* by a later login is not its business).
LogoutEverywhere ==
  \A r \in Requests :
    req[r].op = "logout_all" /\ req[r].pc = "reply"
    => \A t \in req[r].snap : FamilyRows(family[t]) = {}

\* Every request comes to an end, whatever the others do in between.
EveryRequestEnds ==
  \A r \in Requests : req[r].pc # "idle" ~> req[r].pc = "idle"

-----------------------------------------------------------------------------
(* What the store implements: sessions, each with at most one usable token. *)

\* The usable token of a family.
LeafOf(f) ==
  IF FamilyRows(f) = {} THEN NoRow ELSE CHOOSE t \in FamilyRows(f) : TRUE

Abstract == INSTANCE Sessions
              WITH minted <- rows, leaf <- [f \in RowIds |-> LeafOf(f)],
                   MaxTokens <- MaxRows

\* Every statement of every request, rotations racing revocations included,
\* opens one session, passes one on, closes some, or changes none.
ImplementsSessions == Abstract!Spec
=============================================================================
