------------------------------- MODULE MCUserData -------------------------------
(* Instances for TLC of what a user keeps and what is made of it: a table with
   a limit, the alerts of the financial routes, the alert rules of the watchlist
   and the page that edits them, the history of the radar's signals, what the
   radar says of an asset, how a route is evaluated and how a debt is paid.
   They share nothing, so a behaviour is about one of them, and the others stay
   in one initial state. *)
EXTENDS UserTables, RouteAlerts, AlertRules, SignalHistory, Radar, RouteEngine,
        Amortization

VARIABLE part

storeVars == <<tablesVars, alertsVars, rulesVars, historyVars>>
engineAndDebtVars == <<radarVars, engineVars, debtVars>>
allVars == <<part, storeVars, engineAndDebtVars>>

MCDossiers == [move : {1, 8}, news : {1, 3}, range : {-1, 0, 50, 90},
               live : BOOLEAN, volume : BOOLEAN]
MCOther == [large_move |-> 4, news_flow |-> 1, range_extreme |-> 45,
            priority_shift |-> 0]
MCSnapshots == [priority : {70}, attention : {"high"}, news : {1, 5}]

MCPlans == [wealth : {0, 40, 130}, target : {120, 1200}, contribution : {0, 20, 300},
            returns : {0, 1}, remaining : 0..4]

MCSettings == {"paused", "alert"}

\* The rules of news and of the shift of priority vary less than the others.
OwnRules == {r \in [RadarRules -> {"none", "paused", "other"}] :
               r["priority_shift"] # "other"}
DeskRules == {r \in [RadarRules -> RuleStates] :
                r["news_flow"] = "default" /\ r["priority_shift"] = "default"}

\* Of loans, terms up to three months and rates of nothing or one half; one card
\* of 2.40 that is paid off but for a rest of 0.45, and with no extras of 0.40.
Amounts(k) == k * 4560
MCLoans ==
  [system : {"sac", "price"}, strategy : {"reduceTerm", "reduceInstallment"},
   principal : {Amounts(6)}, term : 0..3, rate : {0, 1},
   extra : {0, Amounts(1), Amounts(3)}, lump : {0, Amounts(2)}, lumpMonth : 1..3,
   minimum : {0}, fixed : {0}]
  \union
  [system : {"card"}, strategy : {"reduceTerm"}, principal : {Amounts(6)}, term : {0},
   rate : {1}, extra : {0, Amounts(1)}, lump : {0, Amounts(2)}, lumpMonth : {2},
   minimum : {0, 15, 100}, fixed : {0, Amounts(1), Amounts(4)}]
  \union
  [system : {"card"}, strategy : {"reduceTerm"}, principal : {Amounts(2) + 1824}, term : {0},
   rate : {1}, extra : {0, Amounts(1) - 228}, lump : {0}, lumpMonth : {2},
   minimum : {0}, fixed : {0}]

\* One state of every part that the behaviour is not about.
Still ==
  /\ IF part = "table" THEN TRUE
     ELSE table = "routes" /\ open = Posts /\ rows = {}
  /\ IF part = "alerts" THEN TRUE ELSE routes = {}
  /\ IF part = "rules" THEN TRUE ELSE stored = [p \in Rules |-> NoRule]
  /\ IF part = "radar" THEN ownRules \in OwnRules /\ deskRules \in DeskRules
     ELSE /\ ownRules = [ty \in RadarRules |-> "none"]
          /\ deskRules = [ty \in RadarRules |-> "default"]
          /\ dossier = CHOOSE d \in Dossiers : TRUE
          /\ previous = NoSnapshot
  /\ IF part = "route" THEN TRUE ELSE plan = CHOOSE p \in Plans : TRUE
  /\ IF part = "debt" THEN TRUE ELSE loan = CHOOSE l \in Loans : TRUE

Init ==
  /\ part \in {"table", "alerts", "rules", "history", "radar", "route", "debt"}
  /\ Still
  /\ TablesInit /\ AlertsInit /\ RulesInit /\ HistoryInit
  /\ RadarInit /\ EngineInit /\ DebtInit

OfStores ==
  \/ part = "table" /\ TablesNext /\ UNCHANGED <<alertsVars, rulesVars, historyVars>>
  \/ part = "alerts" /\ AlertsNext /\ UNCHANGED <<tablesVars, rulesVars, historyVars>>
  \/ part = "rules" /\ RulesNext /\ UNCHANGED <<tablesVars, alertsVars, historyVars>>
  \/ part = "history" /\ HistoryNext /\ UNCHANGED <<tablesVars, alertsVars, rulesVars>>

OfEngines ==
  \/ part = "radar" /\ EvaluateSignal /\ UNCHANGED <<engineVars, debtVars>>
  \/ part = "route" /\ EvaluateRoute /\ UNCHANGED <<radarVars, debtVars>>
  \/ part = "debt" /\ PayMonth /\ UNCHANGED <<radarVars, engineVars>>

Next ==
  \/ OfStores /\ UNCHANGED <<part, engineAndDebtVars>>
  \/ OfEngines /\ UNCHANGED <<part, storeVars>>

Spec == Init /\ [][Next]_allVars
=============================================================================
