SPECIFICATION Spec
CONSTANTS
  Symbols = {s1, s2, s3, s4, s5}
  Posts = {p1, p2}
  MaxRows = 2
  MaxBulk = 2
  Tables = {"watchlist", "portfolio", "routes"}
  Routes = {g1}
  Types = {"behind", "macro"}
  Syncs = {y1, y2}
  Rows = {x1, x2, x3}
  Day = 2
  MaxClock = 5
  Assets = {a1, a2}
  RuleTypes = {"move"}
  Settings <- MCSettings
  Default = "alert"
  NoRule = NoRule
  Sends = {n1, n2}
  Watched = {w1, w2}
  Levels = {1, 2}
  Loads = {l1, l2}
  MinInterval = 1
  Window = 3
  MaxTicks = 1
  MaxHistory = 5
  Dossiers <- MCDossiers
  OtherThreshold <- MCOther
  Snapshots <- MCSnapshots
  NoSnapshot = NoSnapshot
  Plans <- MCPlans
  Scale = 4
  MaxMonths = 5
  Loans <- MCLoans
  Parts = 2
  Coin = 4560
  Slack = 2
  CardMonths = 8
INVARIANTS QuotaHolds AlertsAreDaily PageShowsStored HistoryIsSparse
  ExtremesAreTold OffTrackIsTold ExtrasNeverCost
CHECK_DEADLOCK FALSE
