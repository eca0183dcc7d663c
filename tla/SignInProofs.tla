------------------------------ MODULE SignInProofs ------------------------------
(***************************************************************************)
(* Theorems about SignIn for any finite set of requests, any limits and    *)
(* any length of the window, the lock and the challenge.                   *)
(*                                                                         *)
(* A failure that was allowed but not recorded yet, and a challenge that   *)
(* was loaded but has not opened its session yet, are counted with those   *)
(* of the tables: the sums do not grow once the check is behind them.      *)
(***************************************************************************)
EXTENDS SignIn, FiniteSetTheorems, TLAPS

\* Requests that passed the check and whose failure is not recorded yet.
Failing == {r \in Requests : req[r].pc = "failing"}

\* Requests that loaded challenge c and have not ended.
Using(c) == {r \in Requests : req[r].challenge = c}

FailuresCounted ==
  Cardinality(Recent(now)) + Cardinality(Failing) <=
    MaxAttempts - 1 + Cardinality(Requests)

SessionsCounted ==
  \A c \in ChallengeIds :
    /\ c \notin consumed =>
         opened[c] = 0 /\ \A r \in Using(c) : req[r].pc = "consume"
    /\ opened[c] + Cardinality(Using(c)) <= Cardinality(Requests)

\* MaxAttempts failures within the window that ends at some time up to `at`.
Cause(at) == \E time \in 0..at : Cardinality(Recent(time)) >= MaxAttempts

LocksCaused ==
  /\ LocksHaveCause
  /\ \A r \in Requests : req[r].pc = "locking" => Cause(now)

\* A request in progress has a device and, before it consumes it, a challenge.
InProgress ==
  \A r \in Requests :
    /\ req[r].pc # "idle" => req[r].device \in Devices
    /\ req[r].pc = "consume" => req[r].challenge \in 1..challenges

IndInv ==
  /\ TypeOK /\ InProgress
  /\ FailuresCounted
  /\ SessionsCounted
  /\ LocksCaused

-----------------------------------------------------------------------------
(* Types                                                                   *)

LEMMA IdleIsRequest == Idle \in Request
<1>1. 0 \in 0..MaxChallenges /\ "idle" \in Pcs
  BY SignInAssumption DEF Pcs
<1> QED
  BY <1>1 DEF Idle, Request, NoChallenge

\* The requests that the steps of the model build.
LEMMA RequestUpdates ==
  ASSUME NEW q \in Request, NEW pc \in Pcs
  PROVE  /\ [q EXCEPT !.pc = pc] \in Request
         /\ [q EXCEPT !.pc = pc, !.told = TRUE] \in Request
         /\ \A device \in Devices, right \in BOOLEAN, unknown \in BOOLEAN :
              [q EXCEPT !.pc = pc, !.device = device, !.right = right,
                        !.unknown = unknown] \in Request
         /\ \A device \in Devices, c \in 0..MaxChallenges, unknown \in BOOLEAN :
              [q EXCEPT !.pc = pc, !.device = device, !.challenge = c,
                        !.unknown = unknown] \in Request
<1>1. [q EXCEPT !.pc = pc] \in Request
  BY DEF Request
<1>2. [q EXCEPT !.pc = pc, !.told = TRUE] \in Request
  BY DEF Request
<1>3. ASSUME NEW device \in Devices, NEW right \in BOOLEAN, NEW unknown \in BOOLEAN
      PROVE  [q EXCEPT !.pc = pc, !.device = device, !.right = right,
                       !.unknown = unknown] \in Request
  BY DEF Request
<1>4. ASSUME NEW device \in Devices, NEW c \in 0..MaxChallenges, NEW unknown \in BOOLEAN
      PROVE  [q EXCEPT !.pc = pc, !.device = device, !.challenge = c,
                       !.unknown = unknown] \in Request
  BY DEF Request
<1> QED
  BY <1>1, <1>2, <1>3, <1>4

\* What a step of request r does to it: it starts a login or an answer to a
\* challenge, moves on, or ends.
Moves(r) ==
  \E next \in Request :
    /\ Continue(r, next)
    /\ next.pc # "idle" =>
         \/ next.device \in Devices
         \/ req[r].pc # "idle" /\ next.device = req[r].device
    /\ next.pc = "consume" => next.challenge \in 1..challenges \ consumed
    /\ next.pc # "consume" /\ next.challenge # NoChallenge =>
         req[r].pc # "idle" /\ next.challenge = req[r].challenge

LEMMA StepMoves ==
  ASSUME TypeOK, NEW r \in Requests, Begin(r) \/ Step(r) \/ Fail(r)
  PROVE  Moves(r)
<1>0. req[r] \in Request /\ Idle \in Request
  BY IdleIsRequest DEF TypeOK
<1>1. ASSUME Continue(r, Idle) PROVE Moves(r)
  BY <1>0, <1>1 DEF Moves, Idle
<1>2. ASSUME NEW pc \in Pcs \ {"consume"}, req[r].pc # "idle", GoTo(r, pc)
      PROVE  Moves(r)
  <2> DEFINE next == [req[r] EXCEPT !.pc = pc]
  <2>1. next \in Request
    BY <1>0, RequestUpdates
  <2>2. /\ next.pc = pc
        /\ next.challenge = req[r].challenge
        /\ next.device = req[r].device
    BY <1>0 DEF Request
  <2>3. Continue(r, next)
    BY <1>2 DEF GoTo
  <2> HIDE DEF next
  <2> QED
    BY <1>2, <2>1, <2>2, <2>3 DEF Moves
<1>3. CASE Fail(r)
  BY <1>1, <1>3 DEF Fail
<1>4. CASE Begin(r)
  <2>1. PICK device \in Devices :
          \/ \E right \in BOOLEAN : Login(r, device, right)
          \/ \E c \in ChallengeIds : Verify(r, device, c)
    BY <1>4 DEF Begin
  <2>2. (~Known(device)) \in BOOLEAN
    BY DEF Known
  <2>3. ASSUME NEW right \in BOOLEAN, Login(r, device, right) PROVE Moves(r)
    <3> DEFINE next == [Idle EXCEPT !.pc = "lock", !.device = device,
                                    !.right = right, !.unknown = ~Known(device)]
    <3>1. next \in Request
      BY <1>0, <2>2, RequestUpdates, ZenonT(40) DEF Pcs
    <3>2. next.pc = "lock" /\ next.challenge = NoChallenge /\ next.device = device
      BY DEF Idle
    <3>3. Continue(r, next)
      BY <2>3 DEF Login
    <3> HIDE DEF next
    <3> QED
      BY <3>1, <3>2, <3>3, SMTT(30) DEF Moves
  <2>4. ASSUME NEW c \in ChallengeIds, Verify(r, device, c) PROVE Moves(r)
    <3> DEFINE next == [Idle EXCEPT !.pc = "consume", !.device = device,
                                    !.challenge = c, !.unknown = ~Known(device)]
    <3>1. next \in Request
      <4>1. c \in 0..MaxChallenges /\ "consume" \in Pcs
        BY DEF ChallengeIds, Pcs
      <4> QED
        BY <1>0, <2>2, <4>1, RequestUpdates
    <3>2. next.challenge = c /\ next.pc = "consume" /\ next.device = device
      BY DEF Idle
    <3>3. Continue(r, next) /\ c \in 1..challenges \ consumed
      BY <2>4 DEF Verify
    <3> HIDE DEF next
    <3> QED
      BY <3>1, <3>2, <3>3 DEF Moves
  <2> QED
    BY <2>1, <2>3, <2>4
<1>5. CASE Step(r)
  <2>1. CASE FindLock(r) \/ Touch(r)
    BY <2>1, <1>1, <1>2 DEF FindLock, Touch, Pcs
  <2>2. CASE CountFailures(r)
    BY <2>2, <1>2 DEF CountFailures, Pcs
  <2>3. CASE RecordLock(r) \/ RecordFailure(r) \/ CreateChallenge(r) \/ Issue(r)
    BY <2>3, <1>1 DEF RecordLock, RecordFailure, CreateChallenge, Issue
  <2>4. CASE CountPasskeys(r) \/ Consume(r) \/ RecordSuccess(r) \/ LookUpDevice(r)
    BY <2>4, <1>2 DEF CountPasskeys, Consume, RecordSuccess, LookUpDevice, Pcs
  <2>5. CASE Alert(r)
    <3> DEFINE next == [req[r] EXCEPT !.pc = "issue", !.told = TRUE]
    <3>1. next \in Request
      BY <1>0, RequestUpdates DEF Pcs
    <3>2. /\ next.challenge = req[r].challenge /\ next.pc = "issue"
          /\ next.device = req[r].device
      BY <1>0 DEF Request
    <3>3. Continue(r, next) /\ req[r].pc # "idle"
      BY <2>5 DEF Alert
    <3> HIDE DEF next
    <3> QED
      BY <3>1, <3>2, <3>3 DEF Moves
  <2> QED
    BY <1>5, <2>1, <2>2, <2>3, <2>4, <2>5 DEF Step
<1> QED
  BY <1>3, <1>4, <1>5

\* Whatever request moves, it stays well formed.
LEMMA MoveKeepsInProgress ==
  ASSUME TypeOK, InProgress, NEW r \in Requests, Moves(r),
         challenges' \in Nat, challenges <= challenges'
  PROVE  req' \in [Requests -> Request] /\ InProgress'
<1>1. PICK next \in Request :
        /\ Continue(r, next)
        /\ next.pc # "idle" =>
             \/ next.device \in Devices
             \/ req[r].pc # "idle" /\ next.device = req[r].device
        /\ next.pc = "consume" => next.challenge \in 1..challenges \ consumed
  BY DEF Moves
<1>2. /\ req \in [Requests -> Request]
      /\ challenges \in Nat
  BY SignInAssumption DEF TypeOK
<1>3. req' = [req EXCEPT ![r] = next]
  BY <1>1 DEF Continue
<1>4. req' \in [Requests -> Request]
  BY <1>2, <1>3
<1>5. ASSUME NEW q \in Requests
      PROVE  /\ req'[q].pc # "idle" => req'[q].device \in Devices
             /\ req'[q].pc = "consume" => req'[q].challenge \in 1..challenges'
  <2>1. CASE q = r
    BY <1>1, <1>2, <1>3, <2>1 DEF InProgress
  <2>2. CASE q # r
    BY <1>2, <1>3, <2>2 DEF InProgress
  <2> QED
    BY <2>1, <2>2
<1> QED
  BY <1>4, <1>5 DEF InProgress

LEMMA TypeInvariant ==
  ASSUME TypeOK, InProgress, [Next]_vars
  PROVE  TypeOK' /\ InProgress'
<1>1. CASE UNCHANGED vars
  BY <1>1 DEF vars, TypeOK, InProgress
<1>2. CASE Tick
  BY <1>2, SignInAssumption DEF Tick, log, tokens, TypeOK, InProgress, Times
<1>3. CASE ChangePasskey
  BY <1>3 DEF ChangePasskey, log, tokens, TypeOK, InProgress
<1>4. ASSUME NEW r \in Requests, Begin(r) \/ Step(r) \/ Fail(r)
      PROVE  TypeOK' /\ InProgress'
  <2>1. Moves(r)
    BY <1>4, StepMoves
  <2>2. now \in Nat /\ challenges \in Nat /\ failures \in Nat
    BY SignInAssumption DEF TypeOK, Times
  <2>3. SUFFICES /\ now' = now /\ passkey' \in BOOLEAN
                 /\ failures' \in 0..MaxFailures
                 /\ failedAt' \in [FailureIds -> 0..now]
                 /\ locks' \subseteq 0..now
                 /\ successes' \subseteq [device: Devices, at: 0..now]
                 /\ challenges' \in challenges..MaxChallenges
                 /\ expiresAt' \in [ChallengeIds -> Nat]
                 /\ consumed' \subseteq 1..challenges'
                 /\ opened' \in [ChallengeIds -> Nat]
    <3>1. challenges' \in Nat /\ challenges <= challenges'
      BY <2>2, <2>3, SignInAssumption
    <3>2. req' \in [Requests -> Request] /\ InProgress'
      BY <2>1, <3>1, MoveKeepsInProgress
    <3> QED
      BY <2>2, <2>3, <3>2, SignInAssumption DEF TypeOK
  <2>4. CASE UNCHANGED <<now, log, passkey, tokens, opened>>
    BY <2>4, <2>2 DEF log, tokens, TypeOK
  <2>5. CASE Begin(r) \/ Fail(r)
    BY <2>5, <2>4 DEF Begin, Login, Verify, Fail
  <2>6. CASE FindLock(r) \/ CountFailures(r) \/ CountPasskeys(r) \/ Touch(r)
             \/ LookUpDevice(r) \/ Alert(r)
    BY <2>6, <2>4 DEF FindLock, CountFailures, CountPasskeys, Touch,
      LookUpDevice, Alert
  <2>7. CASE RecordLock(r)
    <3>1. locks' \subseteq 0..now
      <4>1. locks \subseteq 0..now /\ now \in 0..now
        BY <2>2 DEF TypeOK
      <4>2. locks' = locks \union {now} \/ locks' = locks
        BY <2>7 DEF RecordLock
      <4> QED
        BY <4>1, <4>2
    <3> QED
      BY <2>7, <2>2, <3>1, SignInAssumption DEF RecordLock, tokens, TypeOK
  <2>8. CASE RecordFailure(r)
    <3>1. failures' \in 0..MaxFailures
      BY <2>8, <2>2, SignInAssumption DEF RecordFailure, TypeOK
    <3>2. failedAt' \in [FailureIds -> 0..now]
      BY <2>8, <2>2 DEF RecordFailure, TypeOK
    <3> QED
      BY <2>8, <2>2, <3>1, <3>2, SignInAssumption DEF RecordFailure, tokens, TypeOK
  <2>9. CASE CreateChallenge(r)
    <3>1. /\ challenges' \in challenges..MaxChallenges
          /\ consumed' \subseteq 1..challenges'
      BY <2>9, <2>2, SignInAssumption DEF CreateChallenge, TypeOK
    <3>2. expiresAt' \in [ChallengeIds -> Nat]
      <4>1. now + ChallengeTtl \in Nat /\ expiresAt \in [ChallengeIds -> Nat]
        BY <2>2, SignInAssumption DEF TypeOK
      <4>2. expiresAt' = [expiresAt EXCEPT ![challenges + 1] = now + ChallengeTtl]
        BY <2>9 DEF CreateChallenge
      <4> HIDE DEF ChallengeIds
      <4> QED
        BY <4>1, <4>2
    <3> QED
      BY <2>9, <2>2, <3>1, <3>2 DEF CreateChallenge, log, TypeOK
  <2>10. CASE Consume(r)
    <3>1. consumed' \subseteq 1..challenges'
      BY <2>10 DEF Consume, TypeOK, InProgress
    <3> QED
      BY <2>10, <2>2, <3>1, SignInAssumption DEF Consume, log, TypeOK
  <2>11. CASE RecordSuccess(r)
    <3>1. [device |-> req[r].device, at |-> now] \in [device: Devices, at: 0..now]
      BY <2>11, <2>2 DEF RecordSuccess, InProgress
    <3> QED
      BY <2>11, <2>2, <3>1, SignInAssumption DEF RecordSuccess, tokens, TypeOK
  <2>12. CASE Issue(r)
    BY <2>12, <2>2, SignInAssumption DEF Issue, log, tokens, TypeOK
  <2> QED
    BY <1>4, <2>5, <2>6, <2>7, <2>8, <2>9, <2>10, <2>11, <2>12 DEF Step
<1> QED
  BY <1>1, <1>2, <1>3, <1>4 DEF Next

-----------------------------------------------------------------------------
(* Counting                                                                *)

LEMMA RecentFinite ==
  ASSUME TypeOK, NEW time
  PROVE  IsFiniteSet(Recent(time)) /\ Cardinality(Recent(time)) \in Nat
<1>1. IsFiniteSet(1..failures)
  BY FS_Interval, SignInAssumption DEF TypeOK
<1>2. Recent(time) \subseteq 1..failures
  BY DEF Recent
<1>3. IsFiniteSet(Recent(time))
  BY <1>1, <1>2, FS_Subset
<1> QED
  BY <1>3, FS_CardinalityType

LEMMA RequestsFinite ==
  ASSUME NEW S, S \subseteq Requests
  PROVE  /\ IsFiniteSet(S) /\ Cardinality(S) \in Nat
         /\ Cardinality(S) <= Cardinality(Requests)
         /\ Cardinality(Requests) \in Nat
<1>1. IsFiniteSet(Requests)
  BY SignInAssumption
<1>2. IsFiniteSet(S)
  BY <1>1, FS_Subset
<1> QED
  BY <1>1, <1>2, FS_Subset, FS_CardinalityType

\* A step leaves the failures alone or adds one that happens now.
LEMMA FailuresKept ==
  ASSUME TypeOK, [Next]_vars
  PROVE  \/ /\ UNCHANGED <<failures, failedAt>>
            /\ now' \in {now, now + 1}
         \/ /\ \E r \in Requests : RecordFailure(r)
            /\ UNCHANGED now
            /\ failures' = failures + 1
            /\ failedAt' = [failedAt EXCEPT ![failures + 1] = now]
<1>1. CASE UNCHANGED vars
  BY <1>1 DEF vars
<1>2. CASE Tick \/ ChangePasskey
  BY <1>2 DEF Tick, ChangePasskey, log
<1>3. ASSUME NEW r \in Requests, Begin(r) \/ Fail(r)
      PROVE  UNCHANGED <<failures, failedAt>> /\ now' = now
  BY <1>3 DEF Begin, Login, Verify, Fail, log
<1>4. ASSUME NEW r \in Requests, Step(r), ~RecordFailure(r)
      PROVE  UNCHANGED <<failures, failedAt>> /\ now' = now
  BY <1>4 DEF Step, FindLock, CountFailures, RecordLock, CountPasskeys,
    CreateChallenge, Consume, Touch, RecordSuccess, LookUpDevice, Alert, Issue, log
<1>5. ASSUME NEW r \in Requests, RecordFailure(r)
      PROVE  \/ UNCHANGED <<failures, failedAt>> /\ now' = now
             \/ /\ UNCHANGED now
                /\ failures' = failures + 1
                /\ failedAt' = [failedAt EXCEPT ![failures + 1] = now]
  BY <1>5 DEF RecordFailure
<1> QED
  BY <1>1, <1>2, <1>3, <1>4, <1>5 DEF Next

\* What a window held it holds for ever.
LEMMA RecentKept ==
  ASSUME TypeOK, TypeOK', [Next]_vars, NEW time
  PROVE  Cardinality(Recent(time)) <= Cardinality(Recent(time)')
<1>1. /\ failures \in Nat /\ failedAt \in [FailureIds -> 0..now]
      /\ 1..failures \subseteq FailureIds
  BY SignInAssumption DEF TypeOK, FailureIds
<1>2. ASSUME NEW i \in 1..failures
      PROVE  i \in 1..failures' /\ failedAt'[i] = failedAt[i]
  <2>1. i \in FailureIds /\ i # failures + 1
    BY <1>1
  <2>2. CASE UNCHANGED <<failures, failedAt>>
    BY <2>2
  <2>3. CASE /\ failures' = failures + 1
             /\ failedAt' = [failedAt EXCEPT ![failures + 1] = now]
    <3>1. failedAt'[i] = failedAt[i]
      BY <1>1, <2>1, <2>3
    <3> QED
      BY <1>1, <2>3, <3>1
  <2> QED
    BY <2>2, <2>3, FailuresKept
<1>3. Recent(time) \subseteq Recent(time)'
  BY <1>2 DEF Recent, Since
<1>4. IsFiniteSet(Recent(time)')
  <2>1. IsFiniteSet((1..failures)')
    BY FS_Interval, SignInAssumption DEF TypeOK
  <2>2. Recent(time)' \subseteq (1..failures)'
    BY DEF Recent
  <2> QED
    BY <2>1, <2>2, FS_Subset
<1> QED
  BY <1>3, <1>4, FS_Subset

\* What sort of step changes who is about to record a failure, or a lock.
LEMMA PcKept ==
  ASSUME TypeOK, [Next]_vars, NEW q \in Requests
  PROVE  /\ req'[q].pc = "failing" => req[q].pc = "failing" \/ CountFailures(q)
         /\ req'[q].pc = "locking" => req[q].pc = "locking" \/ CountFailures(q)
<1>0. req \in [Requests -> Request]
  BY DEF TypeOK
<1> DEFINE Goal == /\ req'[q].pc = "failing" => req[q].pc = "failing" \/ CountFailures(q)
                   /\ req'[q].pc = "locking" => req[q].pc = "locking" \/ CountFailures(q)
<1>1. CASE UNCHANGED vars \/ Tick \/ ChangePasskey
  BY <1>1 DEF vars, Tick, ChangePasskey
<1>2. ASSUME NEW r \in Requests, NEW next, Continue(r, next),
             next.pc \notin {"failing", "locking"}
      PROVE  Goal
  <2>1. req' = [req EXCEPT ![r] = next]
    BY <1>2 DEF Continue
  <2>2. CASE q = r
    BY <1>0, <1>2, <2>1, <2>2
  <2>3. CASE q # r
    BY <1>0, <2>1, <2>3
  <2> QED
    BY <2>2, <2>3
<1>3. ASSUME NEW r \in Requests, NEW pc \in Pcs \ {"failing", "locking"}, GoTo(r, pc)
      PROVE  Goal
  <2>1. [req[r] EXCEPT !.pc = pc].pc = pc
    BY <1>0 DEF Request
  <2> QED
    BY <1>2, <1>3, <2>1 DEF GoTo
<1>4. ASSUME NEW r \in Requests, Continue(r, Idle) PROVE Goal
  BY <1>2, <1>4 DEF Idle
<1>5. ASSUME NEW r \in Requests, Begin(r) PROVE Goal
  <2>1. PICK device \in Devices :
          \/ \E right \in BOOLEAN : Login(r, device, right)
          \/ \E c \in ChallengeIds : Verify(r, device, c)
    BY <1>5 DEF Begin
  <2>2. ASSUME NEW right \in BOOLEAN, Login(r, device, right) PROVE Goal
    BY <1>2, <2>2 DEF Login, Idle
  <2>3. ASSUME NEW c \in ChallengeIds, Verify(r, device, c) PROVE Goal
    BY <1>2, <2>3 DEF Verify, Idle
  <2> QED
    BY <2>1, <2>2, <2>3
<1>6. ASSUME NEW r \in Requests, Step(r), r # q \/ ~CountFailures(q) PROVE Goal
  <2>1. CASE FindLock(r) \/ Touch(r)
    BY <2>1, <1>3, <1>4 DEF FindLock, Touch, Pcs
  <2>2. CASE CountFailures(r)
    BY <2>2, <1>0, <1>6 DEF CountFailures, GoTo, Continue
  <2>3. CASE RecordLock(r) \/ RecordFailure(r) \/ CreateChallenge(r) \/ Issue(r)
    BY <2>3, <1>4 DEF RecordLock, RecordFailure, CreateChallenge, Issue
  <2>4. CASE CountPasskeys(r) \/ Consume(r) \/ RecordSuccess(r) \/ LookUpDevice(r)
    BY <2>4, <1>3 DEF CountPasskeys, Consume, RecordSuccess, LookUpDevice, Pcs
  <2>5. CASE Alert(r)
    <3>1. [req[r] EXCEPT !.pc = "issue", !.told = TRUE].pc = "issue"
      BY <1>0 DEF Request
    <3> QED
      BY <2>5, <3>1, <1>2 DEF Alert
  <2> QED
    BY <1>6, <2>1, <2>2, <2>3, <2>4, <2>5 DEF Step
<1>7. ASSUME NEW r \in Requests, Fail(r) PROVE Goal
  BY <1>4, <1>7 DEF Fail
<1> QED
  BY <1>1, <1>5, <1>6, <1>7 DEF Next

\* The window that ends now holds no failure that it did not hold before, save
\* the one that a step records.
LEMMA RecentMoves ==
  ASSUME TypeOK, [Next]_vars
  PROVE  /\ Cardinality(Recent(now)') \in Nat
         /\ \/ Cardinality(Recent(now)') <= Cardinality(Recent(now))
            \/ /\ \E r \in Requests : RecordFailure(r)
               /\ Cardinality(Recent(now)') <= Cardinality(Recent(now)) + 1
<1>1. /\ now \in Nat /\ failures \in Nat
      /\ failedAt \in [FailureIds -> 0..now]
      /\ 1..failures \subseteq FailureIds
      /\ Window \in Nat
  BY SignInAssumption DEF TypeOK, FailureIds, Times
<1>2. IsFiniteSet(Recent(now)) /\ Cardinality(Recent(now)) \in Nat
  BY RecentFinite
<1>3. CASE UNCHANGED <<failures, failedAt>> /\ now' \in {now, now + 1}
  <2>1. ASSUME NEW i \in Recent(now)' PROVE i \in Recent(now)
    <3>1. i \in 1..failures /\ failedAt[i] + Window >= now'
      BY <1>3, <2>1 DEF Recent, Since
    <3>2. failedAt[i] \in 0..now
      BY <1>1, <3>1
    <3>3. failedAt[i] <= now /\ failedAt[i] + Window >= now
      BY <1>1, <1>3, <3>1, <3>2
    <3> QED
      BY <3>1, <3>3 DEF Recent, Since
  <2> QED
    BY <1>2, <2>1, FS_Subset, FS_CardinalityType
<1>4. CASE /\ \E r \in Requests : RecordFailure(r)
           /\ UNCHANGED now
           /\ failures' = failures + 1
           /\ failedAt' = [failedAt EXCEPT ![failures + 1] = now]
  <2>1. ASSUME NEW i \in Recent(now)', i # failures + 1 PROVE i \in Recent(now)
    <3>1. i \in 1..failures + 1 /\ failedAt'[i] <= now /\ Since(failedAt'[i], now, Window)
      BY <1>4, <2>1 DEF Recent, Since
    <3>2. i \in 1..failures
      BY <1>1, <2>1, <3>1
    <3>3. failedAt'[i] = failedAt[i]
      BY <1>1, <1>4, <2>1, <3>2
    <3> QED
      BY <3>1, <3>2, <3>3 DEF Recent
  <2>2. Recent(now)' \subseteq Recent(now) \union {failures + 1}
    BY <2>1
  <2>3. failures + 1 \notin Recent(now)
    BY <1>1 DEF Recent
  <2>4. /\ IsFiniteSet(Recent(now) \union {failures + 1})
        /\ Cardinality(Recent(now) \union {failures + 1}) = Cardinality(Recent(now)) + 1
    BY <1>2, <2>3, FS_AddElement
  <2> QED
    BY <1>4, <2>2, <2>4, FS_Subset, FS_CardinalityType
<1> QED
  BY <1>3, <1>4, FailuresKept

-----------------------------------------------------------------------------
(* The inductive invariant                                                 *)

LEMMA InitIndInv ==
  ASSUME Init
  PROVE  IndInv
<1>1. Idle.pc = "idle" /\ Idle.challenge = 0
  BY DEF Idle, NoChallenge
<1>2. \A r \in Requests : req[r] = Idle
  BY DEF Init
<1>3. TypeOK
  <2>1. 0 \in Nat /\ 0 \in 0..0 /\ 0 \in Times /\ 0 \in 0..MaxFailures
        /\ 0 \in 0..MaxChallenges
    BY SignInAssumption DEF Times
  <2>2. failedAt \in [FailureIds -> 0..now]
    BY <2>1 DEF Init
  <2>3. expiresAt \in [ChallengeIds -> Nat] /\ opened \in [ChallengeIds -> Nat]
    BY <2>1 DEF Init
  <2>4. req \in [Requests -> Request]
    BY IdleIsRequest DEF Init
  <2>5. /\ now \in Times /\ failures \in 0..MaxFailures
        /\ locks \subseteq 0..now
        /\ successes \subseteq [device: Devices, at: 0..now]
        /\ passkey \in BOOLEAN
        /\ challenges \in 0..MaxChallenges
        /\ consumed \subseteq 1..challenges
    BY <2>1 DEF Init
  <2> QED
    BY <2>2, <2>3, <2>4, <2>5 DEF TypeOK
<1>4. InProgress
  BY <1>1, <1>2 DEF InProgress
<1>5. FailuresCounted
  <2>1. Recent(now) = {} /\ Failing = {}
    BY <1>1, <1>2 DEF Init, Recent, Failing
  <2>2. Cardinality(Requests) \in Nat /\ MaxAttempts \in Nat \ {0}
    BY RequestsFinite, SignInAssumption
  <2>3. Cardinality({}) = 0
    BY FS_EmptySet
  <2> QED
    BY <2>1, <2>2, <2>3 DEF FailuresCounted
<1>6. SessionsCounted
  <2>1. \A c \in ChallengeIds : Using(c) = {} /\ opened[c] = 0
    BY <1>1, <1>2, SignInAssumption DEF Init, Using, ChallengeIds
  <2>2. Cardinality({}) = 0 /\ Cardinality(Requests) \in Nat
    BY FS_EmptySet, RequestsFinite
  <2> QED
    BY <2>1, <2>2 DEF SessionsCounted
<1>7. LocksCaused
  BY <1>1, <1>2 DEF Init, LocksCaused, LocksHaveCause
<1> QED
  BY <1>3, <1>4, <1>5, <1>6, <1>7 DEF IndInv

LEMMA FailuresStayCounted ==
  ASSUME TypeOK, FailuresCounted, [Next]_vars
  PROVE  FailuresCounted'
<1> DEFINE all    == Cardinality(Requests)
           recent == Cardinality(Recent(now))
           failing == Cardinality(Failing)
<1>1. /\ IsFiniteSet(Failing) /\ failing \in Nat /\ all \in Nat
      /\ MaxAttempts \in Nat /\ recent \in Nat /\ Cardinality(Recent(now)') \in Nat
  BY RequestsFinite, RecentFinite, RecentMoves, SignInAssumption DEF Failing
<1>2. recent + failing <= MaxAttempts - 1 + all
  BY DEF FailuresCounted
<1>3. Cardinality(Failing') \in Nat /\ Cardinality(Failing') <= all
  BY RequestsFinite DEF Failing
<1>4. Cardinality(Recent(now)') <= recent \/ Cardinality(Recent(now)') <= recent + 1
  BY RecentMoves
<1>5. SUFFICES Cardinality(Recent(now)') + Cardinality(Failing')
                 <= MaxAttempts - 1 + all
  BY DEF FailuresCounted
<1>6. ASSUME NEW q \in Requests, CountFailures(q)
      PROVE  Cardinality(Recent(now)') + Cardinality(Failing') <= MaxAttempts - 1 + all
  <2>1. Recent(now)' = Recent(now)
    BY <1>6 DEF CountFailures, log, Recent
  <2>2. CASE recent >= MaxAttempts \/ req[q].right
    <3>1. Failing' \subseteq Failing
      <4>1. PICK pc \in {"locking", "passkeys"} :
              req' = [req EXCEPT ![q] = [req[q] EXCEPT !.pc = pc]]
        <5> DEFINE pc == CASE recent >= MaxAttempts -> "locking"
                           [] req[q].right -> "passkeys"
                           [] OTHER        -> "failing"
        <5>1. req' = [req EXCEPT ![q] = [req[q] EXCEPT !.pc = pc]]
          BY <1>6 DEF CountFailures, GoTo, Continue
        <5>2. pc \in {"locking", "passkeys"}
          BY <2>2
        <5> HIDE DEF pc
        <5> QED
          BY <5>1, <5>2
      <4>2. req \in [Requests -> Request]
        BY DEF TypeOK
      <4>3. req'[q].pc # "failing" /\ \A r \in Requests \ {q} : req'[r] = req[r]
        BY <4>1, <4>2 DEF Request
      <4> QED
        BY <4>3 DEF Failing
    <3>2. Cardinality(Failing') <= failing
      BY <1>1, <3>1, FS_Subset
    <3> HIDE DEF recent, failing, all
    <3> QED
      BY <1>1, <1>2, <1>3, <2>1, <3>2 DEF recent
  <2>3. CASE ~(recent >= MaxAttempts)
    BY <1>1, <1>3, <2>1, <2>3
  <2> QED
    BY <2>2, <2>3
<1>7. CASE \A q \in Requests : ~CountFailures(q)
  <2>1. Failing' \subseteq Failing
    BY <1>7, PcKept DEF Failing
  <2>2. Cardinality(Failing') <= failing
    BY <1>1, <2>1, FS_Subset
  <2>3. CASE Cardinality(Recent(now)') <= recent
    <3> HIDE DEF recent, failing, all
    <3> QED
      BY <1>1, <1>2, <1>3, <2>2, <2>3
  <2>4. ASSUME NEW r \in Requests, RecordFailure(r),
               Cardinality(Recent(now)') <= recent + 1
        PROVE  Cardinality(Recent(now)') + Cardinality(Failing') <= MaxAttempts - 1 + all
    <3>1. r \in Failing /\ r \notin Failing'
      BY <2>4 DEF RecordFailure, Failing, Continue, Idle, TypeOK
    <3>2. Failing' \subseteq Failing \ {r}
      BY <2>1, <3>1
    <3>3. IsFiniteSet(Failing \ {r}) /\ Cardinality(Failing \ {r}) = failing - 1
      BY <1>1, <3>1, FS_RemoveElement
    <3>4. Cardinality(Failing') <= failing - 1
      BY <3>2, <3>3, FS_Subset
    <3> HIDE DEF recent, failing, all
    <3> QED
      BY <1>1, <1>2, <1>3, <2>4, <3>4
  <2> QED
    BY <2>3, <2>4, RecentMoves
<1> QED
  BY <1>6, <1>7

\* A step of a request brings itself only to a challenge nobody consumed.
LEMMA UsingMoves ==
  ASSUME TypeOK, NEW r \in Requests, Moves(r), NEW c \in ChallengeIds
  PROVE  /\ c \in consumed => Using(c)' \subseteq Using(c)
         /\ req'[r].challenge = c /\ req'[r].pc # "consume" => r \in Using(c)
         /\ \A q \in Requests \ {r} : req'[q] = req[q]
<1>1. PICK next \in Request :
        /\ Continue(r, next)
        /\ next.pc = "consume" => next.challenge \in 1..challenges \ consumed
        /\ next.pc # "consume" /\ next.challenge # NoChallenge =>
             next.challenge = req[r].challenge
  BY DEF Moves
<1>2. req'[r] = next /\ \A q \in Requests \ {r} : req'[q] = req[q]
  BY <1>1 DEF Continue, TypeOK
<1>3. c # NoChallenge
  BY DEF ChallengeIds, NoChallenge
<1>4. next.challenge = c /\ next.pc # "consume" => r \in Using(c)
  BY <1>1, <1>3 DEF Using
<1>5. c \in consumed => Using(c)' \subseteq Using(c)
  BY <1>1, <1>2, <1>4 DEF Using
<1> QED
  BY <1>2, <1>4, <1>5

LEMMA SessionsStayCounted ==
  ASSUME TypeOK, SessionsCounted, [Next]_vars
  PROVE  SessionsCounted'
<1> DEFINE all == Cardinality(Requests)
           Good(c) ==
             /\ c \notin consumed' =>
                  opened'[c] = 0 /\ \A q \in Using(c)' : req'[q].pc = "consume"
             /\ opened'[c] + Cardinality(Using(c)') <= all
<1>1. SUFFICES ASSUME NEW c \in ChallengeIds PROVE Good(c)
  BY DEF SessionsCounted
<1>2. /\ c \notin consumed =>
           opened[c] = 0 /\ \A q \in Using(c) : req[q].pc = "consume"
      /\ opened[c] + Cardinality(Using(c)) <= all
  BY DEF SessionsCounted
<1>3. /\ IsFiniteSet(Using(c)) /\ Cardinality(Using(c)) \in Nat
      /\ Cardinality(Using(c)') \in Nat /\ Cardinality(Using(c)') <= all
      /\ opened[c] \in Nat /\ all \in Nat
  BY RequestsFinite DEF Using, TypeOK
<1>4. CASE UNCHANGED <<consumed, opened, req>>
  <2>1. Using(c)' = Using(c)
    BY <1>4 DEF Using
  <2> QED
    BY <1>2, <1>4, <2>1
<1>5. ASSUME NEW r \in Requests, Begin(r) \/ Step(r) \/ Fail(r) PROVE Good(c)
  <2>1. Moves(r)
    BY <1>5, StepMoves
  <2>2. /\ c \in consumed => Using(c)' \subseteq Using(c)
        /\ req'[r].challenge = c /\ req'[r].pc # "consume" => r \in Using(c)
        /\ \A q \in Requests \ {r} : req'[q] = req[q]
    BY <2>1, UsingMoves
  <2>3. consumed \subseteq consumed'
    <3>1. CASE Begin(r) \/ Fail(r)
      BY <3>1 DEF Begin, Login, Verify, Fail, tokens
    <3>2. CASE Step(r)
      BY <3>2 DEF Step, FindLock, CountFailures, RecordLock, RecordFailure,
        CountPasskeys, CreateChallenge, Consume, Touch, RecordSuccess,
        LookUpDevice, Alert, Issue, tokens
    <3> QED
      BY <1>5, <3>1, <3>2
  <2>4. \/ opened'[c] = opened[c]
        \/ Issue(r) /\ req[r].challenge = c /\ opened'[c] = opened[c] + 1
    <3>1. CASE Begin(r) \/ Fail(r)
      BY <3>1 DEF Begin, Login, Verify, Fail
    <3>2. CASE Step(r) /\ ~Issue(r)
      BY <3>2 DEF Step, FindLock, CountFailures, RecordLock, RecordFailure,
        CountPasskeys, CreateChallenge, Consume, Touch, RecordSuccess,
        LookUpDevice, Alert
    <3>3. CASE Issue(r)
      BY <3>3 DEF Issue
    <3> QED
      BY <1>5, <3>1, <3>2, <3>3
  <2>5. Issue(r) => req[r].pc = "issue" /\ req'[r].challenge = 0
    BY DEF Issue, Continue, Idle, NoChallenge, TypeOK
  <2>6. req[r].pc = "consume" => Consume(r) \/ Fail(r)
    BY <1>5 DEF Begin, Login, Verify, Step, FindLock, CountFailures, RecordLock,
      RecordFailure, CountPasskeys, CreateChallenge, Touch, RecordSuccess,
      LookUpDevice, Alert, Issue
  <2>7. CASE c \in consumed
    <3>1. Cardinality(Using(c)') <= Cardinality(Using(c))
      BY <1>3, <2>2, <2>7, FS_Subset
    <3>2. CASE opened'[c] = opened[c]
      <4>1. opened'[c] + Cardinality(Using(c)') <= all
        BY <1>2, <1>3, <3>1, <3>2
      <4> QED
        BY <2>3, <2>7, <4>1
    <3>3. CASE Issue(r) /\ req[r].challenge = c /\ opened'[c] = opened[c] + 1
      <4>1. r \in Using(c)
        BY <3>3 DEF Using
      <4>2. r \notin Using(c)'
        BY <2>5, <3>3 DEF Using, ChallengeIds
      <4>3. Using(c)' \subseteq Using(c) \ {r}
        BY <2>2, <2>7, <4>2
      <4>4. /\ IsFiniteSet(Using(c) \ {r})
            /\ Cardinality(Using(c) \ {r}) = Cardinality(Using(c)) - 1
        BY <1>3, <4>1, FS_RemoveElement
      <4>5. Cardinality(Using(c)') <= Cardinality(Using(c)) - 1
        BY <4>3, <4>4, FS_Subset
      <4>6. opened'[c] + Cardinality(Using(c)') <= all
        BY <1>2, <1>3, <3>3, <4>5
      <4> QED
        BY <2>3, <2>7, <4>6
    <3> QED
      BY <2>4, <3>2, <3>3
  <2>8. CASE c \notin consumed
    <3>1. opened[c] = 0 /\ \A q \in Using(c) : req[q].pc = "consume"
      BY <1>2, <2>8
    <3>2. opened'[c] = 0
      BY <2>4, <2>5, <3>1 DEF Using
    <3>3. opened'[c] + Cardinality(Using(c)') <= all
      BY <1>3, <3>2
    <3>4. ASSUME c \notin consumed', NEW q \in Using(c)'
          PROVE  req'[q].pc = "consume"
      <4>1. q \in Requests /\ req'[q].challenge = c
        BY <3>4 DEF Using
      <4>2. CASE q # r
        BY <2>2, <3>1, <4>1, <4>2 DEF Using
      <4>3. CASE q = r /\ req'[r].pc # "consume"
        <5>1. r \in Using(c)
          BY <2>2, <4>1, <4>3
        <5>2. req[r].pc = "consume" /\ req[r].challenge = c
          BY <3>1, <5>1 DEF Using
        <5>3. CASE Consume(r)
          BY <3>4, <5>2, <5>3 DEF Consume
        <5>4. CASE Fail(r)
          BY <4>1, <4>3, <5>4 DEF Fail, Continue, Idle, NoChallenge, ChallengeIds, TypeOK
        <5> QED
          BY <2>6, <5>2, <5>3, <5>4
      <4> QED
        BY <4>2, <4>3
    <3> QED
      BY <3>2, <3>3, <3>4
  <2> QED
    BY <2>7, <2>8
<1>6. CASE UNCHANGED vars \/ Tick \/ ChangePasskey
  BY <1>4, <1>6 DEF vars, Tick, ChangePasskey, tokens
<1> QED
  BY <1>5, <1>6 DEF Next

LEMMA LocksStayCaused ==
  ASSUME TypeOK, TypeOK', LocksCaused, [Next]_vars
  PROVE  LocksCaused'
<1>1. now \in Nat /\ now' \in Nat /\ now <= now' /\ locks \subseteq 0..now
      /\ MaxAttempts \in Nat
  BY FailuresKept, SignInAssumption DEF TypeOK, Times
<1>2. ASSUME NEW time, Cardinality(Recent(time)) >= MaxAttempts
      PROVE  Cardinality(Recent(time)') >= MaxAttempts
  <2>1. Cardinality(Recent(time)') \in Nat
    <3>1. IsFiniteSet((1..failures)')
      BY FS_Interval, SignInAssumption DEF TypeOK
    <3>2. Recent(time)' \subseteq (1..failures)'
      BY DEF Recent
    <3> QED
      BY <3>1, <3>2, FS_Subset, FS_CardinalityType
  <2>2. Cardinality(Recent(time)) <= Cardinality(Recent(time)')
    BY RecentKept
  <2> QED
    BY <1>1, <1>2, <2>1, <2>2, RecentFinite
<1>3. ASSUME NEW q \in Requests, req'[q].pc = "locking" PROVE Cause(now)
  <2>1. CASE req[q].pc = "locking"
    BY <2>1 DEF LocksCaused
  <2>2. CASE CountFailures(q) /\ req[q].pc # "locking"
    <3>1. Cardinality(Recent(now)) >= MaxAttempts
      <4>1. CASE ~(Cardinality(Recent(now)) >= MaxAttempts)
        <5>1. PICK pc \in {"passkeys", "failing"} :
                req' = [req EXCEPT ![q] = [req[q] EXCEPT !.pc = pc]]
          <6> DEFINE pc == CASE Cardinality(Recent(now)) >= MaxAttempts -> "locking"
                             [] req[q].right -> "passkeys"
                             [] OTHER        -> "failing"
          <6>1. req' = [req EXCEPT ![q] = [req[q] EXCEPT !.pc = pc]]
            BY <2>2 DEF CountFailures, GoTo, Continue
          <6>2. pc \in {"passkeys", "failing"}
            BY <4>1
          <6> HIDE DEF pc
          <6> QED
            BY <6>1, <6>2
        <5> QED
          BY <1>3, <5>1 DEF TypeOK, Request
      <4> QED
        BY <4>1
    <3>2. now \in 0..now
      BY <1>1
    <3> QED
      BY <3>1, <3>2 DEF Cause
  <2> QED
    BY <1>3, <2>1, <2>2, PcKept
<1>4. ASSUME NEW q \in Requests, req'[q].pc = "locking" PROVE Cause(now)'
  <2>1. PICK time \in 0..now : Cardinality(Recent(time)) >= MaxAttempts
    BY <1>3, <1>4 DEF Cause
  <2>2. time \in 0..now'
    BY <1>1
  <2>3. Cardinality(Recent(time)') >= MaxAttempts
    BY <1>2, <2>1
  <2> QED
    BY <2>2, <2>3 DEF Cause
<1>5. ASSUME NEW at \in locks'
      PROVE  \E time \in 0..at : Cardinality(Recent(time)') >= MaxAttempts
  <2>1. Cause(at)
    <3>1. CASE at \in locks
      BY <3>1 DEF LocksCaused, LocksHaveCause, Cause
    <3>2. CASE at \notin locks
      <4>1. PICK r \in Requests : RecordLock(r)
        <5>1. ASSUME NEW r \in Requests, Begin(r) \/ Fail(r) PROVE locks' = locks
          BY <5>1 DEF Begin, Login, Verify, Fail, log
        <5>2. ASSUME NEW r \in Requests, Step(r), ~RecordLock(r) PROVE locks' = locks
          BY <5>2 DEF Step, FindLock, CountFailures, RecordFailure, CountPasskeys,
            CreateChallenge, Consume, Touch, RecordSuccess, LookUpDevice, Alert,
            Issue, log
        <5>3. CASE UNCHANGED vars \/ Tick \/ ChangePasskey
          BY <3>2, <5>3 DEF vars, Tick, ChangePasskey, log
        <5> QED
          BY <3>2, <5>1, <5>2, <5>3 DEF Next
      <4>2. at = now /\ req[r].pc = "locking"
        BY <3>2, <4>1 DEF RecordLock
      <4> QED
        BY <4>2 DEF LocksCaused
    <3> QED
      BY <3>1, <3>2
  <2>2. PICK time \in 0..at : Cardinality(Recent(time)) >= MaxAttempts
    BY <2>1 DEF Cause
  <2> QED
    BY <1>2, <2>2
<1> QED
  BY <1>4, <1>5 DEF LocksCaused, LocksHaveCause

-----------------------------------------------------------------------------
(* The theorems                                                            *)

\* IndInv is inductive: it holds initially and every step preserves it.
THEOREM Inductive == Spec => []IndInv
<1>1. Init => IndInv
  BY InitIndInv
<1>2. IndInv /\ [Next]_vars => IndInv'
  <2> SUFFICES ASSUME IndInv, [Next]_vars PROVE IndInv'
    OBVIOUS
  <2>1. TypeOK' /\ InProgress'
    BY TypeInvariant DEF IndInv
  <2>2. FailuresCounted' /\ SessionsCounted'
    BY FailuresStayCounted, SessionsStayCounted DEF IndInv
  <2>3. LocksCaused'
    BY <2>1, LocksStayCaused DEF IndInv
  <2> QED
    BY <2>1, <2>2, <2>3 DEF IndInv
<1> QED
  BY <1>1, <1>2, PTL DEF Spec

\* Every variable has its type: the tables and the requests stay well formed.
THEOREM TypeCorrect == Spec => []TypeOK
<1>1. IndInv => TypeOK
  BY DEF IndInv
<1> QED
  BY <1>1, Inductive, PTL

\* assertLoginAllowed counts before the password is tried and record adds after
\* it: however the requests interleave, no window ever holds more failures than
\* the limit and the other requests in flight allow.
THEOREM AttemptsAreBounded == Spec => []AttemptsBounded
<1>1. IndInv => AttemptsBounded
  <2> SUFFICES ASSUME IndInv PROVE AttemptsBounded
    OBVIOUS
  <2>1. /\ Cardinality(Recent(now)) + Cardinality(Failing)
             <= MaxAttempts - 1 + Cardinality(Requests)
        /\ Cardinality(Recent(now)) \in Nat
        /\ Cardinality(Failing) \in Nat /\ Cardinality(Requests) \in Nat
        /\ MaxAttempts \in Nat
    BY RecentFinite, RequestsFinite, SignInAssumption
       DEF IndInv, FailuresCounted, Failing
  <2> QED
    BY <2>1 DEF AttemptsBounded
<1> QED
  BY <1>1, Inductive, PTL

\* assertLoginAllowed records a lock only when the limit was reached: behind
\* every ACCOUNT_LOCKOUT row are MaxAttempts failures of one window.
THEOREM LocksAreCaused == Spec => []LocksHaveCause
<1>1. IndInv => LocksHaveCause
  BY DEF IndInv, LocksCaused
<1> QED
  BY <1>1, Inductive, PTL

\* consumeChallenge does not look at consumedAt again, and still a challenge
\* opens at most as many sessions as there were requests in flight.
THEOREM SessionsPerChallengeBounded == Spec => []SessionsPerChallenge
<1>1. IndInv => SessionsPerChallenge
  <2> SUFFICES ASSUME IndInv, NEW c \in ChallengeIds
               PROVE  opened[c] <= Cardinality(Requests)
    BY DEF SessionsPerChallenge
  <2>1. /\ opened[c] + Cardinality(Using(c)) <= Cardinality(Requests)
        /\ Cardinality(Using(c)) \in Nat /\ Cardinality(Requests) \in Nat
        /\ opened[c] \in Nat
    BY RequestsFinite DEF IndInv, SessionsCounted, TypeOK, Using
  <2> QED
    BY <2>1
<1> QED
  BY <1>1, Inductive, PTL
=============================================================================
