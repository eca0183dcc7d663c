SPECIFICATION MCSpec
CONSTANTS
  Requests = {r1, r2}
  Passwords = {p1, p2}
  NoPassword = NoPassword
  LegacyHashes = TRUE
  MaxLinks = 3
  MaxSessions = 2
SYMMETRY Symmetry
INVARIANTS ResetOncePerLink SessionsProvePasswordInTurn
 
