--------------------------------- MODULE SignIn ---------------------------------
(***************************************************************************)
(* Signing in to one account: the lockout after failed passwords, the      *)
(* passkey challenge when the account has one, and the alert about a new   *)
(* device.  All three are decided by what the SecurityEvent and            *)
(* WebAuthnChallenge tables hold at that moment.  As in RefreshTokens      *)
(* every request is a process whose steps are its database statements.     *)
(*                                                                         *)
(* SecurityEventService.record swallows its errors, so every event may be  *)
(* lost.  A device is an address with a user agent.  Whether the typed     *)
(* password is the right one, and what a reset does to it, is the business *)
(* of Credentials; what the opened session is, that of RefreshTokens.      *)
(***************************************************************************)
EXTENDS Naturals, FiniteSets

CONSTANTS Requests,       \* requests that may be in flight at the same time
          Devices,        \* where the user signs in from
          NoDevice,       \* the device of a request that has not started
          MaxAttempts,    \* AUTH_LOCKOUT_MAX_ATTEMPTS
          Window,         \* AUTH_LOCKOUT_WINDOW_MS
          LockTime,       \* AUTH_LOCKOUT_DURATION_MS
          ChallengeTtl,   \* CHALLENGE_TTL_MS
          Memory,         \* withinHours of hadRecentLoginFromDevice
          MaxTime,        \* bound: the clock
          MaxFailures,    \* bound: failed passwords recorded
          MaxChallenges   \* bound: challenges created

ASSUME SignInAssumption ==
  /\ IsFiniteSet(Requests)
  /\ NoDevice \notin Devices
  /\ MaxAttempts \in Nat \ {0}
  /\ Window \in Nat \ {0} /\ LockTime \in Nat \ {0}
  /\ ChallengeTtl \in Nat \ {0} /\ Memory \in Nat \ {0}
  /\ MaxTime \in Nat /\ MaxFailures \in Nat /\ MaxChallenges \in Nat

VARIABLES
  now,         \* the database's clock
  failures,    \* LOGIN_FAILED rows so far
  failedAt,    \* their createdAt
  locks,       \* createdAt of the ACCOUNT_LOCKOUT rows
  successes,   \* LOGIN_SUCCESS and WEBAUTHN_LOGIN_SUCCESS rows
  passkey,     \* the account has a passkey
  challenges,  \* WebAuthnChallenge rows so far
  expiresAt,   \* their expiresAt
  consumed,    \* those with consumedAt set
  opened,      \* of every challenge: sessions opened with it (0: none asked)
  req          \* the state of every request

vars == <<now, failures, failedAt, locks, successes, passkey, challenges,
          expiresAt, consumed, opened, req>>

log    == <<failures, failedAt, locks, successes>>
tokens == <<challenges, expiresAt, consumed>>

Times        == 0..MaxTime
FailureIds   == 1..MaxFailures
ChallengeIds == 1..MaxChallenges
NoChallenge  == 0

Pcs == {"idle", "lock", "count", "locking", "failing", "passkeys",
        "challenge", "consume", "touch", "proved", "success", "device",
        "alert", "issue"}

\* One request: where it is, from which device, whether the password it
\* brings is right, the challenge it answers; and, for the properties, whether
\* the device was unknown when it started and whether the user was told.
Request == [pc: Pcs, device: Devices \union {NoDevice}, right: BOOLEAN,
            challenge: 0..MaxChallenges, unknown: BOOLEAN, told: BOOLEAN]

Idle == [pc |-> "idle", device |-> NoDevice, right |-> FALSE,
         challenge |-> NoChallenge, unknown |-> FALSE, told |-> FALSE]

Init ==
  /\ now = 0
  /\ failures = 0
  /\ failedAt = [i \in FailureIds |-> 0]
  /\ locks = {}
  /\ successes = {}
  /\ passkey = FALSE
  /\ challenges = 0
  /\ expiresAt = [c \in ChallengeIds |-> 0]
  /\ consumed = {}
  /\ opened = [c \in ChallengeIds |-> 0]
  /\ req = [r \in Requests |-> Idle]

-----------------------------------------------------------------------------
(* What the queries of the code select                                     *)

\* createdAt >= time - span
Since(at, time, span) == at + span >= time

Locked == \E at \in locks : Since(at, now, LockTime)

\* LOGIN_FAILED rows of the window that ends at a time.
Recent(time) ==
  {i \in 1..failures : failedAt[i] <= time /\ Since(failedAt[i], time, Window)}

\* hadRecentLoginFromDevice
Known(device) ==
  \E row \in successes : row.device = device /\ Since(row.at, now, Memory)

Continue(r, next) == req' = [req EXCEPT ![r] = next]

GoTo(r, pc) == Continue(r, [req[r] EXCEPT !.pc = pc])

-----------------------------------------------------------------------------
(* AuthService.login                                                       *)

\* A login with a password that is right or wrong.
Login(r, device, right) ==
  /\ req[r].pc = "idle"
  /\ Continue(r, [Idle EXCEPT !.pc = "lock", !.device = device,
                              !.right = right, !.unknown = ~Known(device)])
  /\ UNCHANGED <<now, log, passkey, tokens, opened>>

\* assertLoginAllowed: a recent ACCOUNT_LOCKOUT refuses the login ...
FindLock(r) ==
  /\ req[r].pc = "lock"
  /\ IF Locked THEN Continue(r, Idle) ELSE GoTo(r, "count")
  /\ UNCHANGED <<now, log, passkey, tokens, opened>>

\* Mutant: the count forgets the window.
CountFailuresEver(r) ==
  /\ req[r].pc = "count"
  /\ GoTo(r, CASE failures >= MaxAttempts -> "locking"
               [] req[r].right -> "passkeys"
               [] OTHER        -> "failing")
  /\ UNCHANGED <<now, log, passkey, tokens, opened>>

\* Mutant: one failure too many is allowed.
CountFailuresOffByOne(r) ==
  /\ req[r].pc = "count"
  /\ GoTo(r, CASE Cardinality(Recent(now)) > MaxAttempts -> "locking"
               [] req[r].right -> "passkeys"
               [] OTHER        -> "failing")
  /\ UNCHANGED <<now, log, passkey, tokens, opened>>

\* ... and so do too many recent failures; otherwise the password decides.
CountFailures(r) ==
  /\ req[r].pc = "count"
  /\ GoTo(r, CASE Cardinality(Recent(now)) >= MaxAttempts -> "locking"
               [] req[r].right -> "passkeys"
               [] OTHER        -> "failing")
  /\ UNCHANGED <<now, log, passkey, tokens, opened>>

\* The lock is recorded, or the event is lost; the login is refused.
RecordLock(r) ==
  /\ req[r].pc = "locking"
  /\ locks' = locks \union {now} \/ UNCHANGED locks
  /\ Continue(r, Idle)
  /\ UNCHANGED <<now, failures, failedAt, successes, passkey, tokens, opened>>

\* The failure is recorded, or the event is lost; the login is refused.
RecordFailure(r) ==
  /\ req[r].pc = "failing"
  /\ \/ /\ failures < MaxFailures
        /\ failures' = failures + 1
        /\ failedAt' = [failedAt EXCEPT ![failures + 1] = now]
     \/ UNCHANGED <<failures, failedAt>>
  /\ Continue(r, Idle)
  /\ UNCHANGED <<now, locks, successes, passkey, tokens, opened>>

\* credentialCount: a passkey asks for a second step.
CountPasskeys(r) ==
  /\ req[r].pc = "passkeys"
  /\ GoTo(r, IF passkey THEN "challenge" ELSE "success")
  /\ UNCHANGED <<now, log, passkey, tokens, opened>>

\* createLoginChallenge; the answer carries the challenge.
CreateChallenge(r) ==
  /\ req[r].pc = "challenge"
  /\ challenges < MaxChallenges
  /\ challenges' = challenges + 1
  /\ expiresAt' = [expiresAt EXCEPT ![challenges + 1] = now + ChallengeTtl]
  /\ Continue(r, Idle)
  /\ UNCHANGED <<now, log, passkey, consumed, opened>>

-----------------------------------------------------------------------------
(* AuthService.webauthnLoginVerify                                         *)

\* loadChallenge and the credential: the signature was made for both.
Verify(r, device, c) ==
  /\ req[r].pc = "idle"
  /\ c \in 1..challenges \ consumed
  /\ expiresAt[c] > now
  /\ passkey
  /\ Continue(r, [Idle EXCEPT !.pc = "consume", !.device = device,
                              !.challenge = c, !.unknown = ~Known(device)])
  /\ UNCHANGED <<now, log, passkey, tokens, opened>>

\* Mutant: the challenge stays usable.
ConsumeNothing(r) ==
  /\ req[r].pc = "consume"
  /\ GoTo(r, "touch")
  /\ UNCHANGED <<now, log, passkey, tokens, opened>>

\* consumeChallenge: an UPDATE by id, whatever consumedAt is by now.
Consume(r) ==
  /\ req[r].pc = "consume"
  /\ consumed' = consumed \union {req[r].challenge}
  /\ GoTo(r, "touch")
  /\ UNCHANGED <<now, log, passkey, challenges, expiresAt, opened>>

\* The update of the credential's row fails if the passkey was removed.
Touch(r) ==
  /\ req[r].pc = "touch"
  /\ IF passkey THEN GoTo(r, "proved") ELSE Continue(r, Idle)
  /\ UNCHANGED <<now, log, passkey, tokens, opened>>

-----------------------------------------------------------------------------
(* AuthService.completeLogin, after either                                 *)

\* WEBAUTHN_LOGIN_SUCCESS, then LOGIN_SUCCESS: recorded or lost.
RecordSuccess(r) ==
  /\ req[r].pc \in {"proved", "success"}
  /\ \/ successes' = successes \union {[device |-> req[r].device, at |-> now]}
     \/ UNCHANGED successes
  /\ GoTo(r, IF req[r].pc = "proved" THEN "success" ELSE "device")
  /\ UNCHANGED <<now, failures, failedAt, locks, passkey, tokens, opened>>

\* maybeNotifyNewLogin asks whether the device signed in lately.
LookUpDevice(r) ==
  /\ req[r].pc = "device"
  /\ GoTo(r, IF Known(req[r].device) THEN "issue" ELSE "alert")
  /\ UNCHANGED <<now, log, passkey, tokens, opened>>

\* LOGIN_NEW_DEVICE and the mail.
Alert(r) ==
  /\ req[r].pc = "alert"
  /\ Continue(r, [req[r] EXCEPT !.pc = "issue", !.told = TRUE])
  /\ UNCHANGED <<now, log, passkey, tokens, opened>>

\* issueTokens opens the session.
Issue(r) ==
  /\ req[r].pc = "issue"
  /\ opened' = [c \in ChallengeIds |->
                  IF c = req[r].challenge THEN opened[c] + 1 ELSE opened[c]]
  /\ Continue(r, Idle)
  /\ UNCHANGED <<now, log, passkey, tokens>>

-----------------------------------------------------------------------------

\* The user registers a first passkey, or removes the last.
ChangePasskey ==
  /\ passkey' = ~passkey
  /\ UNCHANGED <<now, log, tokens, opened, req>>

Tick ==
  /\ now < MaxTime
  /\ now' = now + 1
  /\ UNCHANGED <<log, passkey, tokens, opened, req>>

\* The request dies between two statements, its response included.
Fail(r) ==
  /\ req[r].pc # "idle"
  /\ Continue(r, Idle)
  /\ UNCHANGED <<now, log, passkey, tokens, opened>>

Begin(r) ==
  \E device \in Devices :
    \/ \E right \in BOOLEAN : Login(r, device, right)
    \/ \E c \in ChallengeIds : Verify(r, device, c)

Step(r) ==
  \/ FindLock(r)
  \/ CountFailures(r)
  \/ RecordLock(r)
  \/ RecordFailure(r)
  \/ CountPasskeys(r)
  \/ CreateChallenge(r)
  \/ Consume(r)
  \/ Touch(r)
  \/ RecordSuccess(r)
  \/ LookUpDevice(r)
  \/ Alert(r)
  \/ Issue(r)

Next ==
  \/ \E r \in Requests : Begin(r) \/ Step(r) \/ Fail(r)
  \/ ChangePasskey
  \/ Tick

Spec == Init /\ [][Next]_vars

-----------------------------------------------------------------------------
(* Properties                                                              *)

TypeOK ==
  /\ now \in Times
  /\ failures \in 0..MaxFailures
  /\ failedAt \in [FailureIds -> 0..now]
  /\ locks \subseteq 0..now
  /\ successes \subseteq [device: Devices, at: 0..now]
  /\ passkey \in BOOLEAN
  /\ challenges \in 0..MaxChallenges
  /\ expiresAt \in [ChallengeIds -> Nat]
  /\ consumed \subseteq 1..challenges
  /\ opened \in [ChallengeIds -> Nat]
  /\ req \in [Requests -> Request]

\* The limit of failed passwords is checked before the password and recorded
\* after it, so requests in flight may exceed it: by one less than there are,
\* and by no more than that in any window.
AttemptsBounded ==
  Cardinality(Recent(now)) <= MaxAttempts - 1 + Cardinality(Requests)

\* An account is only locked after MaxAttempts failures within one window.
LocksHaveCause ==
  \A at \in locks : \E time \in 0..at :
    Cardinality(Recent(time)) >= MaxAttempts

\* A passkey challenge opens one session; requests that had loaded it before
\* the first of them consumed it open one each, and nobody does afterwards.
SessionsPerChallenge ==
  \A c \in ChallengeIds : opened[c] <= Cardinality(Requests)

\* "E-mail em login de dispositivo novo": a sign-in from a device that had not
\* signed in lately tells the user before it opens the session.
NewDeviceTold ==
  \A r \in Requests : req[r].pc = "issue" /\ req[r].unknown => req[r].told
=============================================================================
