SPECIFICATION Spec
CONSTANTS
  Requests = {r1}
  Devices = {d1}
  NoDevice = NoDevice
  MaxAttempts = 2
  Window = 1
  LockTime = 1
  ChallengeTtl = 1
  Memory = 2
  MaxTime = 1
  MaxFailures = 1
  MaxChallenges = 1
SYMMETRY Symmetry
INVARIANTS NewDeviceTold
