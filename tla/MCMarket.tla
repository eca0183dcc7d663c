-------------------------------- MODULE MCMarket --------------------------------
(* Instances for TLC of the server's side of the market: the rate limits in
   front of the quote routes, the provider budgets behind them, the numbers an
   asset's page makes of its prices, and the scores it makes of its dossier.
   They share nothing, so a behaviour is about one of them, and the others stay
   where they are. *)
EXTENDS RateLimit, MarketGateway, PriceHistory, Analytica

VARIABLE part   \* the part this behaviour is about

countersVars == <<limitVars, gatewayVars>>
allVars == <<part, countersVars, history, dossierVars>>

\* The first instance serves the live desk, the second a sector book of two
\* symbols, one more than BRAPI is asked for.
MCServes == [i \in Instances |->
               IF i = 1 THEN DeskTasks ELSE {"sector_book_br"}]
MCLimits == [p \in Providers |-> IF p = "brapi" THEN 1 ELSE 0]
MCUniverse == [t \in Tasks |-> IF t = "sector_book_br" THEN 2 ELSE 1]

\* Ratios between 1.5 and 150 percent, which normalizeRatio reads as they are
\* meant.
Ratio(n, percent) == [ratio |-> n, percent |-> percent]
MCMargins == {Null, Ratio(-100, FALSE), Ratio(140, FALSE), Ratio(140, TRUE)}
MCReturns == {Ratio(-50, FALSE), Ratio(200, TRUE), Ratio(1200, FALSE)}
MCTtmReturns == {Null, Ratio(300, FALSE)}
MCStatements ==
  {Null} \union
  {[income |-> -2000, revenue |-> 0, freeCash |-> 1]} \union
  [income : {-20}, revenue : {100}, freeCash : {-1, 1}] \union
  [income : {14}, revenue : {0, 100}, freeCash : {1}]
MCStreaks == {0, 2, 6}
MCGrowths == {Null} \union [years : {5}, rate : {20, 150}]
                       \union [years : {3}, rate : {300}]
MCDebts == {Null} \union [of : {"income"}, times : {100, 500}]
                     \union [of : {"equity"}, times : {80}]
MCEsteems ==
  {[sector |-> 55, governance |-> 65, dividend |-> FALSE, risen |-> FALSE],
   [sector |-> 85, governance |-> 86, dividend |-> TRUE, risen |-> TRUE]}

Init ==
  /\ part \in {"limit", "gateway", "history", "dossier"}
  /\ LimitInit /\ (part # "limit" => failClosed)
  /\ GatewayInit /\ (part # "gateway" => database = "up")
  /\ HistoryInit
  /\ IF part = "dossier" THEN TRUE ELSE dossier = CHOOSE d \in Dossiers : TRUE
  /\ DossierInit

LimitMoves == /\ part = "limit" /\ LimitNext
              /\ UNCHANGED <<part, gatewayVars, history, dossierVars>>
GatewayMoves == /\ part = "gateway" /\ GatewayNext
                /\ UNCHANGED <<part, limitVars, history, dossierVars>>
HistoryMoves == /\ part = "history" /\ GivePoint
                /\ UNCHANGED <<part, countersVars, dossierVars>>
DossierMoves == /\ part = "dossier" /\ Reload
                /\ UNCHANGED <<part, countersVars, history>>

Next == LimitMoves \/ GatewayMoves \/ HistoryMoves \/ DossierMoves

Spec == Init /\ [][Next]_allVars /\ GatewayFairness
=============================================================================
