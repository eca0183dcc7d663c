SPECIFICATION Spec
CONSTANTS
  Requests = {r1, r2}
  Devices = {d1}
  NoDevice = NoDevice
  MaxAttempts = 2
  Window = 1
  LockTime = 1
  ChallengeTtl = 1
  Memory = 1
  MaxTime = 2
  MaxFailures = 4
  MaxChallenges = 1
SYMMETRY Symmetry
INVARIANTS AttemptsBounded LocksHaveCause SessionsPerChallenge
