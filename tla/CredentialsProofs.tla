--------------------------- MODULE CredentialsProofs ---------------------------
(***************************************************************************)
(* Theorems about Credentials for any set of requests and passwords and    *)
(* any bounds.  The inductive invariant is the type invariant with the two *)
(* safety invariants about reset links.  What a reset promises about the   *)
(* sessions holds for requests in turn, the specification of               *)
(* MCCredentials.                                                          *)
(***************************************************************************)
EXTENDS MCCredentials, FiniteSetTheorems, TLAPS

IndInv ==
  /\ TypeOK
  /\ ResetOncePerLink
  /\ UsableLinksAreNewer

\* Where a request goes next is the only thing most steps change of it.
LEMMA ContinueType ==
  ASSUME TypeOK, NEW r \in Requests, NEW next \in Request, Continue(r, next)
  PROVE  req' \in [Requests -> Request]
BY DEF Continue, TypeOK

LEMMA IdleIsRequest == Idle \in Request
<1>1. 0 \in 0..MaxLinks /\ {} \in SUBSET Nat /\ "idle" \in Pcs
  BY CredentialsAssumption DEF Pcs
<1> QED
  BY <1>1 DEF Idle, Request

\* The requests the steps of the model build are requests.
LEMMA RequestUpdates ==
  ASSUME NEW q \in Request, NEW pc \in Pcs
  PROVE  /\ [q EXCEPT !.pc = pc] \in Request
         /\ \A typed \in Passwords : [q EXCEPT !.pc = pc, !.typed = typed] \in Request
         /\ \A typed \in Passwords, link \in 0..MaxLinks :
              [q EXCEPT !.pc = pc, !.link = link, !.typed = typed] \in Request
         /\ \A snap \in SUBSET Nat :
              [q EXCEPT !.pc = pc, !.snap = snap] \in Request
<1>1. [q EXCEPT !.pc = pc] \in Request
  BY DEF Request
<1>2. ASSUME NEW typed \in Passwords
      PROVE  [q EXCEPT !.pc = pc, !.typed = typed] \in Request
  BY DEF Request
<1>3. ASSUME NEW typed \in Passwords, NEW link \in 0..MaxLinks
      PROVE  [q EXCEPT !.pc = pc, !.link = link, !.typed = typed] \in Request
  BY DEF Request
<1>4. ASSUME NEW snap \in SUBSET Nat
      PROVE  [q EXCEPT !.pc = pc, !.snap = snap] \in Request
  BY DEF Request
<1> QED
  BY <1>1, <1>2, <1>3, <1>4

LEMMA InitIndInv == Init => IndInv
<1> SUFFICES ASSUME Init PROVE IndInv
  OBVIOUS
<1>1. TypeOK
  <2>1. req \in [Requests -> Request]
    BY IdleIsRequest DEF Init
  <2>2. legacy \in BOOLEAN
    <3>1. legacy \in BOOLEAN \/ legacy \in {FALSE}
      BY Zenon DEF Init
    <3> QED
      BY <3>1, Zenon
  <2>3. 0 \in 0..MaxLinks /\ 0 \in 0..MaxSessions
    BY CredentialsAssumption
  <2>4. provedBy \in [SessionIds -> Passwords \union {NoPassword}]
    BY DEF Init
  <2>5. {} \subseteq 1..links /\ {} \subseteq 1..opened
    OBVIOUS
  <2> QED
    BY <2>1, <2>2, <2>3, <2>4, <2>5, Zenon DEF Init, TypeOK
<1>2. ResetOncePerLink
  BY FS_EmptySet DEF Init, ResetOncePerLink
<1>3. UsableLinksAreNewer
  BY DEF Init, UsableLinksAreNewer
<1> QED
  BY <1>1, <1>2, <1>3 DEF IndInv

\* The links that exist are finitely many, so those that were used are.
LEMMA UsedIsFinite ==
  ASSUME TypeOK
  PROVE  IsFiniteSet(used) /\ Cardinality(used) \in Nat
<1>1. IsFiniteSet(1..links)
  BY FS_Interval DEF TypeOK
<1> QED
  BY <1>1, FS_Subset, FS_CardinalityType DEF TypeOK

\* A request that moves on without touching the links keeps the invariant.
LEMMA LinksUntouched ==
  ASSUME IndInv, UNCHANGED <<tokenVersion, links, present, used>>, TypeOK'
  PROVE  IndInv'
BY DEF IndInv, ResetOncePerLink, UsableLinksAreNewer

\* The steps that leave the account, the links and the sessions alone.
LEMMA ControlStep ==
  ASSUME TypeOK, NEW r \in Requests, NEW next \in Request, Continue(r, next),
         UNCHANGED <<account, resets, sessions>>
  PROVE  TypeOK'
BY ContinueType DEF TypeOK, account, resets, sessions

LEMMA ConsumeStep ==
  ASSUME IndInv, NEW r \in Requests, Consume(r)
  PROVE  IndInv'
<1> DEFINE link == req[r].link
<1>1. /\ link \in 1..links /\ link \notin used
      /\ used' = used \union {link} /\ present' = {link}
      /\ tokenVersion' = tokenVersion + 1 /\ UNCHANGED links
      /\ password' = req[r].typed /\ legacy' = FALSE
      /\ UNCHANGED <<expired, sessions>>
  BY DEF Consume, IndInv, TypeOK
<1>2. Cardinality(used') = Cardinality(used) + 1
  BY <1>1, UsedIsFinite, FS_AddElement DEF IndInv
<1>3. ResetOncePerLink'
  BY <1>1, <1>2 DEF IndInv, ResetOncePerLink
<1>4. tokenVersion' \in 0..MaxLinks
  <2>0. /\ links \in 0..MaxLinks /\ used \subseteq 1..links
        /\ tokenVersion \in 0..MaxLinks
    BY DEF IndInv, TypeOK
  <2>1. /\ links \in Nat /\ links <= MaxLinks /\ used' \subseteq 1..links
        /\ tokenVersion' \in Nat
    <3>1. links \in Nat /\ links <= MaxLinks /\ tokenVersion \in Nat
      BY <2>0, CredentialsAssumption
    <3>2. used' \subseteq 1..links
      BY <1>1, <2>0
    <3> QED
      BY <1>1, <3>1, <3>2
  <2>2. Cardinality(used') <= Cardinality(1..links)
    <3>1. IsFiniteSet(1..links)
      BY <2>1, FS_Interval
    <3> QED
      BY <2>1, <3>1, FS_Subset
  <2>3. Cardinality(1..links) = links
    BY <2>1, FS_Interval, CredentialsAssumption
  <2> QED
    BY <2>1, <2>2, <2>3, <1>3, CredentialsAssumption DEF ResetOncePerLink
<1>5. req' \in [Requests -> Request]
  <2>1. [req[r] EXCEPT !.pc = "revoke"] \in Request
    BY DEF IndInv, TypeOK, Request, Pcs
  <2> QED
    BY <2>1, ContinueType DEF Consume, IndInv
<1>6. password' \in Passwords \union {NoPassword}
  BY <1>1 DEF IndInv, TypeOK, Request
<1>7. TypeOK'
  BY <1>1, <1>4, <1>5, <1>6 DEF IndInv, TypeOK, sessions
<1>8. UsableLinksAreNewer'
  BY <1>1 DEF UsableLinksAreNewer
<1> QED
  BY <1>3, <1>7, <1>8 DEF IndInv

LEMMA InsertLinkStep ==
  ASSUME IndInv, NEW r \in Requests, InsertLink(r)
  PROVE  IndInv'
<1>1. /\ links' = links + 1 /\ links' \in 0..MaxLinks /\ links \in 0..MaxLinks
      /\ present' \subseteq present \union {links + 1}
      /\ UNCHANGED <<account, used, expired, sessions>>
  BY CredentialsAssumption DEF InsertLink, IndInv, TypeOK
<1>2. req' \in [Requests -> Request]
  <2>1. Idle \in Request
    BY CredentialsAssumption DEF Idle, Request, Pcs
  <2> QED
    BY <2>1, ContinueType DEF InsertLink, IndInv
<1>3. TypeOK'
  BY <1>1, <1>2 DEF IndInv, TypeOK, account, sessions
<1>4. UsableLinksAreNewer'
  BY <1>1 DEF IndInv, TypeOK, UsableLinksAreNewer
<1>5. ResetOncePerLink'
  BY <1>1 DEF IndInv, ResetOncePerLink, account
<1> QED
  BY <1>3, <1>4, <1>5 DEF IndInv

\* Every other step leaves the links alone and keeps the types.
LEMMA OtherStep ==
  ASSUME TypeOK, NEW r \in Requests,
         \/ Begin(r) \/ Fail(r)
         \/ Create(r) \/ Upgrade(r) \/ OpenSession(r) \/ Clear(r)
         \/ ConsumeRefused(r) \/ Revoke(r) \/ Apply(r) \/ Done(r)
  PROVE  TypeOK' /\ UNCHANGED <<tokenVersion, links, present, used>>
<1>0. req[r] \in Request /\ Idle \in Request
  BY IdleIsRequest DEF TypeOK
<1>1. CASE Fail(r) \/ ConsumeRefused(r) \/ Done(r)
  BY <1>0, <1>1, ControlStep DEF Fail, ConsumeRefused, Done, account, resets
<1>2. CASE Begin(r)
  <2>1. CASE Forgot(r)
    <3>1. [Idle EXCEPT !.pc = "clear"] \in Request
      BY <1>0, RequestUpdates DEF Pcs
    <3> QED
      BY <2>1, <3>1, ControlStep, SMTT(30) DEF Forgot, account, resets
  <2>2. CASE \E typed \in Passwords : Register(r, typed) \/ Login(r, typed)
    <3>1. PICK typed \in Passwords : Register(r, typed) \/ Login(r, typed)
      BY <2>2
    <3>2. \A pc \in Pcs : [Idle EXCEPT !.pc = pc, !.typed = typed] \in Request
      BY <1>0, RequestUpdates
    <3> QED
      BY <3>1, <3>2, ControlStep DEF Register, Login, account, resets, Pcs
  <2>3. CASE \E typed \in Passwords, link \in LinkIds : Reset(r, link, typed)
    <3>1. PICK typed \in Passwords, link \in LinkIds : Reset(r, link, typed)
      BY <2>3
    <3>2. [Idle EXCEPT !.pc = "consume", !.link = link, !.typed = typed]
            \in Request
      <4>1. link \in 0..MaxLinks /\ "consume" \in Pcs
        BY DEF Pcs, LinkIds
      <4> QED
        BY <1>0, <4>1, RequestUpdates
    <3> QED
      BY <3>1, <3>2, ControlStep DEF Reset, account, resets
  <2> QED
    BY <1>2, <2>1, <2>2, <2>3 DEF Begin
<1>3. CASE Clear(r)
  <2>1. [req[r] EXCEPT !.pc = "insert", !.snap = present] \in Request
    <3>1. present \in SUBSET Nat /\ "insert" \in Pcs
      BY DEF TypeOK, Pcs
    <3> QED
      BY <1>0, <3>1, RequestUpdates
  <2> QED
    BY <1>3, <2>1, ControlStep DEF Clear, account, resets
<1>4. CASE Revoke(r)
  <2>1. [req[r] EXCEPT !.pc = "apply", !.snap = live] \in Request
    <3>1. live \in SUBSET Nat /\ "apply" \in Pcs
      BY DEF TypeOK, Pcs
    <3> QED
      BY <1>0, <3>1, RequestUpdates
  <2> QED
    BY <1>4, <2>1, ControlStep DEF Revoke, account, resets
<1>5. CASE Create(r)
  <2>1. req' \in [Requests -> Request]
    BY <1>0, <1>5, ContinueType DEF Create
  <2> QED
    BY <1>0, <1>5, <2>1 DEF Create, TypeOK, Request, resets, sessions
<1>6. CASE Upgrade(r)
  <2>1. req' \in [Requests -> Request]
    BY <1>0, <1>6, RequestUpdates, ContinueType DEF Upgrade, Pcs
  <2> QED
    BY <1>0, <1>6, <2>1 DEF Upgrade, TypeOK, Request, resets, sessions
<1>7. CASE OpenSession(r)
  <2>1. req' \in [Requests -> Request]
    BY <1>0, <1>7, ContinueType DEF OpenSession
  <2>2. /\ opened' \in 0..MaxSessions /\ live' \subseteq 1..opened'
        /\ provedBy' \in [SessionIds -> Passwords \union {NoPassword}]
    <3>1. /\ opened \in Nat /\ opened + 1 \in SessionIds /\ live \subseteq 1..opened
          /\ req[r].typed \in Passwords \union {NoPassword}
      BY <1>0, <1>7, CredentialsAssumption
      DEF OpenSession, TypeOK, SessionIds, Request
    <3>2. /\ opened' = opened + 1 /\ live' = live \union {opened + 1}
          /\ provedBy' = [provedBy EXCEPT ![opened + 1] = req[r].typed]
          /\ provedBy \in [SessionIds -> Passwords \union {NoPassword}]
      BY <1>7 DEF OpenSession, TypeOK
    <3>3. opened' \in 0..MaxSessions
      BY <3>1, <3>2, CredentialsAssumption DEF SessionIds
    <3>4. 1..opened \subseteq 1..opened' /\ opened + 1 \in 1..opened'
      BY <3>1, <3>2
    <3>5. live' \subseteq 1..opened'
      BY <3>1, <3>2, <3>4
    <3> QED
      BY <3>1, <3>2, <3>3, <3>5
  <2> QED
    BY <1>7, <2>1, <2>2 DEF OpenSession, TypeOK, account, resets
<1>8. CASE Apply(r)
  <2>1. req' \in [Requests -> Request]
    BY <1>0, <1>8, RequestUpdates, ContinueType DEF Apply, Pcs
  <2> QED
    BY <1>8, <2>1, SMTT(30) DEF Apply, TypeOK, account, resets
<1> QED
  BY <1>1, <1>2, <1>3, <1>4, <1>5, <1>6, <1>7, <1>8

\* IndInv is inductive, whatever the set of requests.
THEOREM Inductive == Spec => []IndInv
<1>1. IndInv /\ [Next]_vars => IndInv'
  <2> SUFFICES ASSUME IndInv, [Next]_vars PROVE IndInv'
    OBVIOUS
  <2>1. CASE UNCHANGED vars
    BY <2>1 DEF vars, IndInv, TypeOK, ResetOncePerLink, UsableLinksAreNewer
  <2>2. CASE \E link \in LinkIds : Expire(link)
    <3>1. TypeOK'
      BY <2>2 DEF Expire, IndInv, TypeOK, account, sessions
    <3> QED
      BY <2>2, <3>1, LinksUntouched DEF Expire, account
  <2>3. ASSUME NEW r \in Requests, Begin(r) \/ Step(r) \/ Fail(r)
        PROVE  IndInv'
    <3>1. CASE Consume(r)
      BY <3>1, ConsumeStep
    <3>2. CASE InsertLink(r)
      BY <3>2, InsertLinkStep
    <3>3. CASE ~Consume(r) /\ ~InsertLink(r)
      <4>1. TypeOK' /\ UNCHANGED <<tokenVersion, links, present, used>>
        BY <2>3, <3>3, OtherStep DEF Step, IndInv
      <4> QED
        BY <4>1, LinksUntouched
    <3> QED
      BY <3>1, <3>2, <3>3
  <2> QED
    BY <2>1, <2>2, <2>3 DEF Next
<1> QED
  BY <1>1, InitIndInv, PTL DEF Spec

\* Every variable keeps its type.
THEOREM TypeCorrect == Spec => []TypeOK
BY Inductive, PTL DEF IndInv

\* However many requests present a link at once, it resets the password once.
THEOREM LinksAreSpent == Spec => []ResetOncePerLink
BY Inductive, PTL DEF IndInv

\* A reset ends the life of every link requested before it, also of those that
\* racing requests left behind.
THEOREM ResetEndsOlderLinks == Spec => []UsableLinksAreNewer
BY Inductive, PTL DEF IndInv

\* No account has a bcrypt hash any more, and no login is about to upgrade one.
Upgraded == ~legacy /\ \A r \in Requests : req[r].pc # "upgrade"

\* Once every hash is Argon2id the password changes only with the version.
THEOREM UpgradedPasswordsKeep ==
  ASSUME ~LegacyHashes
  PROVE  Spec => PasswordChangesWithVersion
<1>1. Init => Upgraded
  BY DEF Init, Upgraded, Idle
<1>2. TypeOK /\ Upgraded /\ [Next]_vars => Upgraded'
  <2> SUFFICES ASSUME TypeOK, Upgraded, [Next]_vars PROVE Upgraded'
    OBVIOUS
  <2>1. CASE UNCHANGED vars \/ \E link \in LinkIds : Expire(link)
    BY <2>1 DEF vars, Expire, Upgraded, account
  <2>2. ASSUME NEW r \in Requests, Begin(r) \/ Step(r) \/ Fail(r)
        PROVE  Upgraded'
    <3>0. req[r] \in Request /\ ~legacy /\ req[r].pc # "upgrade"
      BY SMTT(30) DEF Upgraded, TypeOK
    <3>1. ~legacy'
      BY <2>2, <3>0
      DEF account, Begin, Step, Fail, Forgot, Register, Login, Reset, Create,
          Upgrade, OpenSession, Clear, InsertLink, Consume, ConsumeRefused,
          Revoke, Apply, Done
    <3>2. ASSUME NEW next \in Request, next.pc # "upgrade", Continue(r, next)
          PROVE  \A q \in Requests : req'[q].pc # "upgrade"
      BY <3>2 DEF Continue, Upgraded, TypeOK
    <3>3. Idle \in Request /\ Idle.pc # "upgrade"
      BY IdleIsRequest DEF Idle
    <3>4. ASSUME NEW pc \in Pcs \ {"upgrade"}, NEW q \in Request
          PROVE  /\ [q EXCEPT !.pc = pc].pc # "upgrade"
                 /\ \A typed : [q EXCEPT !.pc = pc, !.typed = typed].pc # "upgrade"
                 /\ \A typed, link : [q EXCEPT !.pc = pc, !.link = link,
                                               !.typed = typed].pc # "upgrade"
                 /\ \A snap : [q EXCEPT !.pc = pc, !.snap = snap].pc # "upgrade"
      BY DEF Request
    <3>5. \A q \in Requests : req'[q].pc # "upgrade"
      <4>1. CASE Fail(r) \/ Create(r) \/ OpenSession(r) \/ InsertLink(r)
                 \/ ConsumeRefused(r) \/ Done(r)
        BY <3>2, <3>3, <4>1
        DEF Fail, Create, OpenSession, InsertLink, ConsumeRefused, Done
      <4>2. CASE Forgot(r)
        <5>1. "clear" \in Pcs \ {"upgrade"}
          BY DEF Pcs
        <5> QED
          BY <3>2, <3>3, <3>4, <4>2, <5>1, RequestUpdates DEF Forgot
      <4>3. CASE \E typed \in Passwords : Register(r, typed) \/ Login(r, typed)
        <5>1. PICK typed \in Passwords : Register(r, typed) \/ Login(r, typed)
          BY <4>3
        <5>2. PICK pc \in {"create", "session"} :
                Continue(r, [Idle EXCEPT !.pc = pc, !.typed = typed])
          BY <3>0, <5>1 DEF Register, Login
        <5>3. pc \in Pcs \ {"upgrade"}
          BY DEF Pcs
        <5> QED
          BY <3>2, <3>3, <3>4, <5>2, <5>3, RequestUpdates
      <4>4. CASE \E typed \in Passwords, link \in LinkIds : Reset(r, link, typed)
        <5>1. PICK typed \in Passwords, link \in LinkIds : Reset(r, link, typed)
          BY <4>4
        <5>2. "consume" \in Pcs \ {"upgrade"} /\ link \in 0..MaxLinks
          BY DEF Pcs, LinkIds
        <5> QED
          BY <3>2, <3>3, <3>4, <5>1, <5>2, RequestUpdates DEF Reset
      <4>5. CASE Clear(r) \/ Revoke(r)
        <5>1. PICK pc \in {"insert", "apply"}, snap \in SUBSET Nat :
                Continue(r, [req[r] EXCEPT !.pc = pc, !.snap = snap])
          <6>1. present \in SUBSET Nat /\ live \in SUBSET Nat
            BY DEF TypeOK
          <6> QED
            BY <4>5, <6>1, Zenon DEF Clear, Revoke
        <5>2. pc \in Pcs \ {"upgrade"}
          BY DEF Pcs
        <5> QED
          BY <3>0, <3>2, <3>4, <5>1, <5>2, RequestUpdates
      <4>6. CASE Consume(r) \/ Apply(r)
        <5>1. PICK pc \in {"revoke", "done"} :
                Continue(r, [req[r] EXCEPT !.pc = pc])
          BY <4>6 DEF Consume, Apply
        <5>2. pc \in Pcs \ {"upgrade"}
          BY DEF Pcs
        <5> QED
          BY <3>0, <3>2, <3>4, <5>1, <5>2, RequestUpdates
      <4> QED
        BY <2>2, <3>0, <4>1, <4>2, <4>3, <4>4, <4>5, <4>6
        DEF Begin, Step, Upgrade
    <3> QED
      BY <3>1, <3>5 DEF Upgraded
  <2> QED
    BY <2>1, <2>2 DEF Next
<1>3. Upgraded /\ [Next]_vars =>
        (password # NoPassword /\ password' # password
           => tokenVersion' # tokenVersion) \/ ~TypeOK
  <2> SUFFICES ASSUME Upgraded, [Next]_vars, TypeOK,
                      password # NoPassword, password' # password
               PROVE  tokenVersion' # tokenVersion
    OBVIOUS
  <2>1. PICK r \in Requests : Consume(r)
    BY ZenonT(40)
       DEF Upgraded, vars, account, Next, Expire, Begin, Step, Fail, Forgot,
           Register, Login, Reset, Create, Upgrade, OpenSession, Clear,
           InsertLink, ConsumeRefused, Revoke, Apply, Done
  <2> QED
    BY <2>1 DEF Consume, TypeOK
<1> QED
  BY <1>1, <1>2, <1>3, TypeCorrect, PTL
  DEF Spec, PasswordChangesWithVersion

-----------------------------------------------------------------------------
(* Requests in turn                                                        *)

\* The one request that is in flight revokes what there is.
AloneClosesAll ==
  inTurn =>
    /\ \A r, s \in InFlight : r = s
    /\ \A r \in Requests : /\ req[r].pc = "apply" => req[r].snap = live
                           /\ req[r].pc = "done" => live = {}

LEMMA AloneInit == MCInit => AloneClosesAll
BY DEF MCInit, Init, AloneClosesAll, InFlight, Idle

\* What a step does to the sessions and to its own request.
LEMMA SessionsStep ==
  ASSUME TypeOK, NEW r \in Requests, Begin(r) \/ Step(r) \/ Fail(r)
  PROVE  /\ \A q \in Requests \ {r} : req'[q] = req[q]
         /\ \/ UNCHANGED live
            \/ live' = live \ req[r].snap /\ req[r].pc = "apply"
            \/ req[r].pc = "session" /\ req'[r].pc = "idle"
         /\ req'[r].pc = "apply" => req'[r].snap = live /\ UNCHANGED live
         /\ req'[r].pc = "done" => live' = live \ req[r].snap /\ req[r].pc = "apply"
<1>1. PICK next : Continue(r, next)
  BY DEF Begin, Step, Fail, Forgot, Register, Login, Reset, Create, Upgrade,
         OpenSession, Clear, InsertLink, Consume, ConsumeRefused, Revoke, Apply, Done
<1>2. \A q \in Requests \ {r} : req'[q] = req[q]
  BY <1>1 DEF Continue, TypeOK
<1>3. /\ req[r] \in Request /\ Idle \in Request /\ Idle.pc = "idle"
      /\ req \in [Requests -> Request]
  BY IdleIsRequest DEF TypeOK, Idle
<1>5. CASE Begin(r)
  <2>1. PICK pc \in {"clear", "create", "upgrade", "session", "consume"} : req'[r].pc = pc
    <3>1. CASE Forgot(r)
      <4>1. req'[r] = [Idle EXCEPT !.pc = "clear"]
        BY <1>3, <3>1 DEF Forgot, Continue
      <4> QED
        BY <1>3, <4>1 DEF Request
    <3>2. ASSUME NEW typed \in Passwords, Register(r, typed) \/ Login(r, typed)
          PROVE  req'[r].pc \in {"create", "upgrade", "session"}
      <4>1. PICK pc \in {"create", "upgrade", "session"} :
              Continue(r, [Idle EXCEPT !.pc = pc, !.typed = typed])
        BY <3>2 DEF Register, Login
      <4> QED
        BY <1>3, <4>1 DEF Continue, Request
    <3>3. ASSUME NEW typed \in Passwords, NEW link \in LinkIds, Reset(r, link, typed)
          PROVE  req'[r].pc = "consume"
      <4>1. req'[r] = [Idle EXCEPT !.pc = "consume", !.link = link, !.typed = typed]
        BY <1>3, <3>3 DEF Reset, Continue
      <4> QED
        BY <1>3, <4>1 DEF Request
    <3> QED
      BY <1>5, <3>1, <3>2, <3>3 DEF Begin
  <2>2. UNCHANGED live
    BY <1>5 DEF Begin, Forgot, Register, Login, Reset, sessions
  <2> QED
    BY <1>2, <2>1, <2>2
<1>6. CASE Create(r) \/ Fail(r) \/ InsertLink(r) \/ ConsumeRefused(r) \/ Done(r)
  BY <1>2, <1>3, <1>6
  DEF Continue, Create, Fail, InsertLink, ConsumeRefused, Done, sessions
<1>7. CASE Upgrade(r) \/ Consume(r)
  <2>1. PICK pc \in {"session", "revoke"} : Continue(r, [req[r] EXCEPT !.pc = pc])
    BY <1>7 DEF Upgrade, Consume
  <2>2. req'[r].pc = pc
    BY <1>3, <2>1 DEF Continue, Request
  <2> QED
    BY <1>2, <1>7, <2>2 DEF Upgrade, Consume, sessions
<1>8. CASE OpenSession(r)
  BY <1>2, <1>3, <1>8 DEF OpenSession, Continue
<1>9. CASE Clear(r) \/ Revoke(r)
  <2>1. PICK pc \in {"insert", "apply"} :
          \E snap : /\ Continue(r, [req[r] EXCEPT !.pc = pc, !.snap = snap])
                    /\ pc = "apply" => snap = live
    BY <1>9 DEF Clear, Revoke
  <2>2. req'[r].pc = pc /\ (pc = "apply" => req'[r].snap = live)
    BY <1>3, <2>1 DEF Continue, Request
  <2> QED
    BY <1>2, <1>9, <2>2 DEF Clear, Revoke, sessions
<1>10. CASE Apply(r)
  <2>1. req'[r].pc = "done"
    BY <1>3, <1>10 DEF Apply, Continue, Request
  <2> QED
    BY <1>2, <1>10, <2>1 DEF Apply
<1> QED
  BY <1>5, <1>6, <1>7, <1>8, <1>9, <1>10 DEF Step

LEMMA AloneStep ==
  TypeOK /\ AloneClosesAll /\ [MCNext]_<<vars, inTurn>> => AloneClosesAll'
<1> SUFFICES ASSUME TypeOK, AloneClosesAll, [MCNext]_<<vars, inTurn>>, inTurn, inTurn'
             PROVE  AloneClosesAll'
  BY DEF MCNext, AloneClosesAll
<1>1. CASE UNCHANGED <<vars, inTurn>>
  BY <1>1 DEF vars, sessions, AloneClosesAll, InFlight
<1>2. ASSUME MCNext, NEW link \in LinkIds, Expire(link)
      PROVE  AloneClosesAll'
  BY <1>2 DEF Expire, sessions, AloneClosesAll, InFlight
<1>3. ASSUME MCNext, NEW r \in Requests, Begin(r) \/ Step(r) \/ Fail(r)
      PROVE  AloneClosesAll'
  <2>1. \A q, s \in InFlight' : q = s
    BY <1>3 DEF MCNext
  <2>2. \A q \in Requests \ {r} : req'[q] = req[q]
    BY <1>3, SessionsStep
  <2>3. ASSUME NEW q \in Requests \ {r}, req'[q].pc # "idle"
        PROVE  UNCHANGED live
    <3>1. req[q].pc # "idle" /\ req'[r].pc = "idle"
      BY <2>1, <2>2, <2>3 DEF InFlight
    <3>2. req[r].pc = "idle"
      BY <3>1 DEF AloneClosesAll, InFlight
    <3> QED
      BY <1>3, <3>2, SessionsStep
  <2>4. ASSUME NEW q \in Requests
        PROVE  /\ req'[q].pc = "apply" => req'[q].snap = live'
               /\ req'[q].pc = "done" => live' = {}
    <3>1. CASE q = r
      BY <1>3, <3>1, SessionsStep DEF AloneClosesAll
    <3>2. CASE q # r
      BY <2>2, <2>3, <3>2 DEF AloneClosesAll
    <3> QED
      BY <3>1, <3>2
  <2> QED
    BY <2>1, <2>4 DEF AloneClosesAll
<1> QED
  BY <1>1, <1>2, <1>3 DEF MCNext, Next

\* With requests in turn, for any number of sessions and whatever fails between
\* two statements: when a reset is answered every session was opened with the new
\* password.
THEOREM SessionsProveInTurn == MCSpec => []SessionsProvePasswordInTurn
<1>1. MCSpec => Spec
  <2>1. MCInit => Init
    BY DEF MCInit
  <2>2. [MCNext]_<<vars, inTurn>> => [Next]_vars
    BY DEF MCNext
  <2> QED
    BY <2>1, <2>2, PTL DEF MCSpec, Spec
<1>2. AloneClosesAll => SessionsProvePasswordInTurn
  BY DEF AloneClosesAll, SessionsProvePasswordInTurn, SessionsProvePassword
<1> QED
  BY <1>1, <1>2, TypeCorrect, AloneInit, AloneStep, PTL DEF MCSpec
=============================================================================
