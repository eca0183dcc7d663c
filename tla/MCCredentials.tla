----------------------------- MODULE MCCredentials -----------------------------
(***************************************************************************)
(* Instance of Credentials for TLC.  Requests and passwords are            *)
(* interchangeable.  A behaviour either lets requests interleave, every    *)
(* hash being Argon2id, or takes them in turn, bcrypt hashes included.     *)
(***************************************************************************)
EXTENDS Credentials, TLC

VARIABLE inTurn  \* at most one request is in flight at a time

Symmetry == Permutations(Requests) \union Permutations(Passwords)

InFlight == {r \in Requests : req[r].pc # "idle"}

MCInit == Init /\ inTurn \in BOOLEAN /\ (legacy => inTurn)

MCNext ==
  /\ Next
  /\ inTurn => \A r, s \in InFlight' : r = s
  /\ UNCHANGED inTurn

MCSpec == MCInit /\ [][MCNext]_<<vars, inTurn>>

\* "Resetting the password invalidates all existing sessions": with requests
\* in turn every session left when the reset is answered was opened with the
\* new password.
SessionsProvePasswordInTurn == inTurn => SessionsProvePassword
=============================================================================
