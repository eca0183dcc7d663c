------------------------------ MODULE Credentials ------------------------------
(***************************************************************************)
(* The password of one account and the links that reset it: register,      *)
(* login, requestPasswordReset and resetPassword of AuthService over the   *)
(* User and PasswordResetToken tables.  As in RefreshTokens every request  *)
(* is a process whose steps are its database statements or transactions.   *)
(*                                                                         *)
(* A stored hash is modelled by the password it accepts and by its scheme: *)
(* `legacy` is a bcrypt hash, which a successful login replaces by an      *)
(* Argon2id hash of the password that was typed.  A reset link is the rank *)
(* of its row in creation order.  A link that was created may be presented *)
(* at any time: mail is sent in the background and may be late or lost.    *)
(* Refresh tokens appear as the sessions a login opens; what racing        *)
(* refreshes do to revokeAllForUser is the business of RefreshTokens.      *)
(***************************************************************************)
EXTENDS Naturals, FiniteSets

CONSTANTS Requests,      \* requests that may be in flight at the same time
          Passwords,     \* what a user may type
          NoPassword,    \* the account does not exist yet
          LegacyHashes,  \* are there accounts whose hash is still bcrypt?
          MaxLinks,      \* bound: PasswordResetToken rows created
          MaxSessions    \* bound: sessions opened

ASSUME CredentialsAssumption ==
  /\ NoPassword \notin Passwords
  /\ LegacyHashes \in BOOLEAN
  /\ MaxLinks \in Nat
  /\ MaxSessions \in Nat

VARIABLES
  password,      \* the password User.passwordHash accepts
  legacy,        \* User.passwordHash is a bcrypt hash
  tokenVersion,  \* User.tokenVersion
  links,         \* PasswordResetToken rows created so far
  present,       \* rows that have not been deleted
  used,          \* rows, deleted ones included, whose usedAt was set
  expired,       \* rows past their expiresAt
  opened,        \* sessions opened so far
  live,          \* sessions with an unrevoked refresh token
  provedBy,      \* the password a session's login was verified with
  req            \* the state of every request

vars == <<password, legacy, tokenVersion, links, present, used, expired,
          opened, live, provedBy, req>>

account  == <<password, legacy, tokenVersion>>
resets   == <<links, present, used, expired>>
sessions == <<opened, live, provedBy>>

LinkIds    == 1..MaxLinks
SessionIds == 1..MaxSessions

Pcs == {"idle", "create", "upgrade", "session", "clear", "insert",
        "consume", "revoke", "apply", "done"}

\* One request: where it is, the password typed, the link presented, and the
\* rows (links or sessions) its running deleteMany or updateMany saw.
Request == [pc: Pcs, typed: Passwords \union {NoPassword},
            link: 0..MaxLinks, snap: SUBSET Nat]

Idle == [pc |-> "idle", typed |-> NoPassword, link |-> 0, snap |-> {}]

Init ==
  /\ password \in Passwords \union {NoPassword}
  /\ legacy \in (IF LegacyHashes /\ password # NoPassword
                 THEN BOOLEAN ELSE {FALSE})
  /\ tokenVersion = 0
  /\ links = 0
  /\ present = {}
  /\ used = {}
  /\ expired = {}
  /\ opened = 0
  /\ live = {}
  /\ provedBy = [s \in SessionIds |-> NoPassword]
  /\ req = [r \in Requests |-> Idle]

Continue(r, next) == req' = [req EXCEPT ![r] = next]

\* The request dies between two statements, its response included.
Fail(r) ==
  /\ req[r].pc # "idle"
  /\ Continue(r, Idle)
  /\ UNCHANGED <<account, resets, sessions>>

-----------------------------------------------------------------------------
(* register: findByEmail, then create                                      *)

\* An existing account ends the request with the same answer and a mail.
Register(r, typed) ==
  /\ req[r].pc = "idle"
  /\ password = NoPassword
  /\ Continue(r, [Idle EXCEPT !.pc = "create", !.typed = typed])
  /\ UNCHANGED <<account, resets, sessions>>

\* Mutant: the email is not unique, a second signup writes its own hash.
CreateOverwrites(r) ==
  /\ req[r].pc = "create"
  /\ password' = req[r].typed
  /\ Continue(r, Idle)
  /\ UNCHANGED <<legacy, tokenVersion, resets, sessions>>

\* User.email is unique: a signup that lost the race (P2002) changes nothing.
Create(r) ==
  /\ req[r].pc = "create"
  /\ password' = IF password = NoPassword THEN req[r].typed ELSE password
  /\ Continue(r, Idle)
  /\ UNCHANGED <<legacy, tokenVersion, resets, sessions>>

-----------------------------------------------------------------------------
(* login: the row read decides, a bcrypt hash is upgraded, a session opens  *)

Login(r, typed) ==
  /\ req[r].pc = "idle"
  /\ typed = password
  /\ Continue(r, [Idle EXCEPT !.pc = IF legacy THEN "upgrade" ELSE "session",
                              !.typed = typed])
  /\ UNCHANGED <<account, resets, sessions>>

\* updatePasswordHash: an UPDATE by id, whatever the hash is by now.
Upgrade(r) ==
  /\ req[r].pc = "upgrade"
  /\ password' = req[r].typed
  /\ legacy' = FALSE
  /\ Continue(r, [req[r] EXCEPT !.pc = "session"])
  /\ UNCHANGED <<tokenVersion, resets, sessions>>

\* completeLogin -> issueTokens -> issue
OpenSession(r) ==
  /\ req[r].pc = "session"
  /\ opened < MaxSessions
  /\ opened' = opened + 1
  /\ live' = live \union {opened + 1}
  /\ provedBy' = [provedBy EXCEPT ![opened + 1] = req[r].typed]
  /\ Continue(r, Idle)
  /\ UNCHANGED <<account, resets>>

-----------------------------------------------------------------------------
(* requestPasswordReset: replacePasswordResetToken is one transaction       *)

\* An unknown email ends the request with the same answer.
Forgot(r) ==
  /\ req[r].pc = "idle"
  /\ password # NoPassword
  /\ Continue(r, [Idle EXCEPT !.pc = "clear"])
  /\ UNCHANGED <<account, resets, sessions>>

\* deleteMany: the rows the statement sees.
Clear(r) ==
  /\ req[r].pc = "clear"
  /\ Continue(r, [req[r] EXCEPT !.pc = "insert", !.snap = present])
  /\ UNCHANGED <<account, resets, sessions>>

\* The rows go, the new one is created, the transaction commits.
InsertLink(r) ==
  /\ req[r].pc = "insert"
  /\ links < MaxLinks
  /\ links' = links + 1
  /\ present' = (present \ req[r].snap) \union {links + 1}
  /\ Continue(r, Idle)
  /\ UNCHANGED <<account, used, expired, sessions>>

-----------------------------------------------------------------------------
(* resetPassword: lookup, policy and breach checks, then one transaction    *)

\* The lookup lets a link through that exists, is unused and not expired.
Reset(r, link, typed) ==
  /\ req[r].pc = "idle"
  /\ link \in present \ (used \union expired)
  /\ Continue(r, [Idle EXCEPT !.pc = "consume", !.link = link,
                              !.typed = typed])
  /\ UNCHANGED <<account, resets, sessions>>

\* Mutant: the transaction relies on the usedAt the lookup read.
ConsumeUnchecked(r) ==
  LET link == req[r].link IN
  /\ req[r].pc = "consume"
  /\ used' = used \union {link}
  /\ present' = present \intersect {link}
  /\ password' = req[r].typed
  /\ legacy' = FALSE
  /\ tokenVersion' = tokenVersion + 1
  /\ Continue(r, [req[r] EXCEPT !.pc = "revoke"])
  /\ UNCHANGED <<links, expired, sessions>>

\* consumePasswordResetToken: the row must still be there with usedAt null;
\* the hash, the version and the removal of the other links commit with it.
Consume(r) ==
  LET link == req[r].link IN
  /\ req[r].pc = "consume"
  /\ link \in present \ used
  /\ used' = used \union {link}
  /\ present' = {link}
  /\ password' = req[r].typed
  /\ legacy' = FALSE
  /\ tokenVersion' = tokenVersion + 1
  /\ Continue(r, [req[r] EXCEPT !.pc = "revoke"])
  /\ UNCHANGED <<links, expired, sessions>>

\* count # 1: the transaction rolls back and the answer is an error.
ConsumeRefused(r) ==
  /\ req[r].pc = "consume"
  /\ req[r].link \notin present \ used
  /\ Continue(r, Idle)
  /\ UNCHANGED <<account, resets, sessions>>

\* Mutant: the newest session is taken for all of them.
RevokeNewest(r) ==
  /\ req[r].pc = "revoke"
  /\ Continue(r, [req[r] EXCEPT !.pc = "apply", !.snap = live \intersect {opened}])
  /\ UNCHANGED <<account, resets, sessions>>

\* revokeAllForUser: the rows the updateMany sees ...
Revoke(r) ==
  /\ req[r].pc = "revoke"
  /\ Continue(r, [req[r] EXCEPT !.pc = "apply", !.snap = live])
  /\ UNCHANGED <<account, resets, sessions>>

\* ... and revokes.
Apply(r) ==
  /\ req[r].pc = "apply"
  /\ live' = live \ req[r].snap
  /\ Continue(r, [req[r] EXCEPT !.pc = "done"])
  /\ UNCHANGED <<account, resets, opened, provedBy>>

\* The answer { ok: true }.
Done(r) ==
  /\ req[r].pc = "done"
  /\ Continue(r, Idle)
  /\ UNCHANGED <<account, resets, sessions>>

Expire(link) ==
  /\ link \in 1..links \ expired
  /\ expired' = expired \union {link}
  /\ UNCHANGED <<account, links, present, used, sessions, req>>

-----------------------------------------------------------------------------

Begin(r) ==
  \/ Forgot(r)
  \/ \E typed \in Passwords :
       \/ Register(r, typed)
       \/ Login(r, typed)
       \/ \E link \in LinkIds : Reset(r, link, typed)

Step(r) ==
  \/ Create(r)
  \/ Upgrade(r)
  \/ OpenSession(r)
  \/ Clear(r)
  \/ InsertLink(r)
  \/ Consume(r)
  \/ ConsumeRefused(r)
  \/ Revoke(r)
  \/ Apply(r)
  \/ Done(r)

Next ==
  \/ \E r \in Requests : Begin(r) \/ Step(r) \/ Fail(r)
  \/ \E link \in LinkIds : Expire(link)

Spec == Init /\ [][Next]_vars

-----------------------------------------------------------------------------
(* Properties                                                              *)

TypeOK ==
  /\ password \in Passwords \union {NoPassword}
  /\ legacy \in BOOLEAN
  /\ tokenVersion \in 0..MaxLinks
  /\ links \in 0..MaxLinks
  /\ present \subseteq 1..links
  /\ used \subseteq 1..links
  /\ expired \subseteq 1..links
  /\ opened \in 0..MaxSessions
  /\ live \subseteq 1..opened
  /\ provedBy \in [SessionIds -> Passwords \union {NoPassword}]
  /\ req \in [Requests -> Request]

\* A link resets the password once, however many requests present it at the
\* same time: every new tokenVersion was paid for with a link of its own.
ResetOncePerLink == tokenVersion = Cardinality(used)

\* After a reset only links requested later can reset the password again,
\* also when racing requests had left several usable links behind.
UsableLinksAreNewer ==
  \A link \in present \ used : \A spent \in used : link > spent

\* The password never changes without a new tokenVersion: a second signup for
\* the same email changes nothing, and the "transparent" upgrade of the hash
\* changes only the scheme, not the password the account accepts.
PasswordChangesWithVersion ==
  [][password # NoPassword /\ password' # password
       => tokenVersion' # tokenVersion]_vars

\* "Resetting the password invalidates all existing sessions": when the reset
\* is answered, every session left was opened with the new password.
SessionsProvePassword ==
  \A r \in Requests : req[r].pc = "done" =>
    \A s \in live : provedBy[s] = password
=============================================================================
