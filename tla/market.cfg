SPECIFICATION Spec
CONSTANTS
  Calls = {c1, c2}
  Instances = {1, 2}
  Servers = {s1, s2}
  Window = 2
  Max = 1
  MaxTime = 3
  MaxCount = 2
  Serves <- MCServes
  Enabled = {"brapi", "coingecko"}
  Limits <- MCLimits
  Cap = 1
  Universe <- MCUniverse
  MaxMonth = 1
  MaxUses = 3
  LastDay = 3
  YearDays = 2
  Closes = {1, 2, 3}
  Periods = {1, 2, 4}
  MaxPoints = 4
  Margins <- MCMargins
  Returns <- MCReturns
  TtmReturns <- MCTtmReturns
  Statements <- MCStatements
  Streaks <- MCStreaks
  Growths <- MCGrowths
  Debts <- MCDebts
  Esteems <- MCEsteems
  Null = Null
INVARIANTS WindowHolds  AnswersAreCharged BooksTellGaps
  StatsAgree 
PROPERTIES DesksAnswered BetterNeverScoresLower
CHECK_DEADLOCK FALSE
