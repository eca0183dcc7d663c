SPECIFICATION Spec
CONSTANTS
  Selections = {d1, d2, d3}
  Pulls = {p1, p2, p3}
  NoBook = NoBook
  Queries = {q1, q2, q3}
  Requests = {r1, r2, r3}
  Blank = Blank
  Tabs = {t1, t2}
  Secrets = {k1}
  NoKey = NoKey
  Platform = {"fable"}
  Rankings <- MCRankings
  PanelSize = 2
  MaxMessages = 4
  MaxChat = 5
INVARIANTS KeysAreKept ChosenEngineAnswers
PROPERTIES SwitchShowsSelection DeskSettles SearchSettles ChatAnswers
CHECK_DEADLOCK FALSE
