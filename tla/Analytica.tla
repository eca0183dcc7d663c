------------------------------- MODULE Analytica -------------------------------
(***************************************************************************)
(* What the page of a stock makes of its dossier (web/src/lib/analytica):  *)
(* the health of the company, its PCI and its class for each risk profile, *)
(* the seal of quality, and whether the panel puts fresh cash on it.  A    *)
(* dossier holds what its sources say, reconciled; a source may say        *)
(* nothing.                                                                *)
(*                                                                         *)
(* Ratios and yearly growth are in thousandths, multiples of EBITDA in     *)
(* hundredths, points of health and PCI in hundredths as the code rounds   *)
(* them; every operator between them names its own unit, in which nothing  *)
(* is rounded.                                                             *)
(***************************************************************************)
EXTENDS Integers, FiniteSets

CONSTANTS
  Margins, Returns,  \* profitMargin, returnOnEquity of the quote, some in percent
  TtmReturns,        \* roe of the key metrics
  Statements,        \* intlAnnualStatements
  Streaks,           \* calendar years in a row, the newest first, that the price rose
  Growths,           \* growth a year by the price: of five years, of three
  Debts,             \* debt by operating income, or by equity
  Esteems,           \* what else the qualitative scores look at
  Null            \* null

\* A source gives a number or nothing; the scores of the sector and of the
\* governance are tables with a lowest and a highest entry.
ASSUME DossierAssumption ==
  /\ Null \notin Int
  /\ Margins \union Returns \union TtmReturns
       \subseteq {Null} \union [ratio : Int, percent : BOOLEAN]
  /\ Statements \subseteq {Null} \union [income : Int, revenue : Nat, freeCash : Int]
  /\ Streaks \subseteq Nat
  /\ Growths \subseteq {Null} \union [years : {3, 5}, rate : Int]
  /\ Debts \subseteq {Null} \union [of : {"income", "equity"}, times : Int]
  /\ Esteems \subseteq [sector : 55..85, governance : 65..86,
                       dividend : BOOLEAN, risen : BOOLEAN]

VARIABLES
  dossier,  \* AssetDossier
  page      \* what AssetPage shows of it

dossierVars == <<dossier, page>>

Profiles == {"CONSERVATIVE", "MODERATE", "AGGRESSIVE"}

\* PROFILE_CONFIGS: debt in hundredths, floors in thousandths, weights in percent
Config ==
  [CONSERVATIVE |-> [debt |-> 200, margin |-> 80, roe |-> 120, years |-> 3,
                     fine |-> 25, wMargin |-> 22, wRoe |-> 22, wGrowth |-> 16],
   MODERATE     |-> [debt |-> 300, margin |-> 50, roe |-> 80, years |-> 2,
                     fine |-> 20, wMargin |-> 20, wRoe |-> 20, wGrowth |-> 18],
   AGGRESSIVE   |-> [debt |-> 450, margin |-> 20, roe |-> 50, years |-> 1,
                     fine |-> 15, wMargin |-> 18, wRoe |-> 18, wGrowth |-> 22]]

Dossiers ==
  [margin : Margins, roe : Returns, ttm : TtmReturns, statement : Statements,
   streak : Streaks, growth : Growths, debt : Debts, esteem : Esteems]

Between(low, high, n) == IF n < low THEN low ELSE IF n > high THEN high ELSE n
Size(n) == IF n < 0 THEN -n ELSE n
OrElse(n, other) == IF n = Null THEN other ELSE n

\* Mutant: a ratio above one is taken to be in percent.
NormalizeFromOne(n) ==
  IF n # Null /\ Size(n) > 1000 THEN n \div 100 ELSE n

\* The number a source gives, of a ratio.
Raw(n) == IF n = Null THEN Null ELSE IF n.percent THEN 100 * n.ratio ELSE n.ratio

\* normalizeRatio, which each of three modules has: a number above 1.5 is in
\* percent.
Normalize(n) ==
  IF n # Null /\ Size(n) > 1500 THEN n \div 100 ELSE n

\* ratiosAgree, within 45 percent of the larger
Agree(a, b) ==
  \/ Null \in {a, b}
  \/ LET larger == IF Size(a) > Size(b) THEN Size(a) ELSE Size(b)
     IN 100 * Size(a - b) <= 45 * larger

\* reconcileEquityDossier and the fallbacks of mapDossierToQuantInput: what
\* the annual statements say replaces the margin of the quote.  A loss without
\* a revenue is divided by one.
Margin(d) ==
  LET s == d.statement
  IN CASE s # Null /\ s.revenue > 0 -> Normalize((1000 * s.income) \div s.revenue)
       [] s # Null /\ s.revenue = 0 /\ s.income < 0 -> Normalize(1000 * s.income)
       [] OTHER -> Normalize(Raw(d.margin))

Roe(d) ==
  LET ttm == Normalize(Raw(d.ttm))
      quoted == Normalize(Raw(d.roe))
  IN IF ttm # Null /\ Agree(quoted, ttm) THEN ttm ELSE quoted

Loss(d) == d.statement # Null /\ d.statement.income < 0

\* Mutant: the statements are not asked.
YearsByPrice(d) ==
  IF d.streak > 0 THEN d.streak
  ELSE IF OrElse(Margin(d), 0) > 0 THEN 1 ELSE 0

\* consecutiveProfitableYears: years the price rose, none if the last one made
\* no profit
Years(d) ==
  IF d.statement # Null /\ d.statement.income <= 0 THEN 0
  ELSE IF d.streak > 0 THEN d.streak
  ELSE IF OrElse(Margin(d), 0) > 0 THEN 1 ELSE 0

\* estimateRevenueCagr5y
Growth(d) == IF d.growth = Null THEN 0
             ELSE IF d.growth.years = 5 THEN d.growth.rate
             ELSE d.growth.rate \div 3

\* estimateNetDebtEbitda; an unknown debt counts as ninety-nine
Debt(d) ==
  CASE d.debt = Null -> 9900
    [] d.debt # Null /\ d.debt.of = "income" -> d.debt.times
    [] d.debt # Null /\ d.debt.of = "equity" ->
         LET times == (3 * d.debt.times) \div 4 + 35 IN IF times < 0 THEN 0 ELSE times

\* debtPenalty, in hundredths of a point
Penalty(d, p) ==
  LET over == Debt(d) - Config[p].debt IN IF over > 0 THEN over * Config[p].fine ELSE 0

\* QuantitativeRiskEngine.evaluate: the four scores in 1/1200 of a point, their
\* weighted sum in 1/120000.
ExactHealth(d, p) ==
  LET cfg == Config[p]
      longevity == Between(0, 120000, Years(d) * (120000 \div cfg.years))
      margin == Between(0, 120000, OrElse(Margin(d), 0) * (120000 \div cfg.margin))
      roe == Between(0, 120000, OrElse(Roe(d), 0) * (120000 \div cfg.roe))
      growth == Between(0, 120000, (Growth(d) + 50) * 480)
  IN Between(0, 12000000,
       28 * longevity + cfg.wMargin * margin + cfg.wRoe * roe + cfg.wGrowth * growth
         - 1200 * Penalty(d, p))

\* classifyRisk, of a health in 1/120000 of a point
Class(d, exact, toxic) ==
  LET atLeast(n) == exact >= n * 120000
  IN IF toxic THEN "TOXIC_BOMB"
     ELSE IF atLeast(82) /\ Years(d) >= 5 /\ OrElse(Margin(d), 0) >= 120
          THEN "ELITE_COMPOUNDER"
     ELSE IF atLeast(68) /\ Growth(d) >= 100 THEN "QUALITY_GROWTH"
     ELSE IF Years(d) <= 2 /\ atLeast(55) THEN "TURNAROUND"
     ELSE IF Growth(d) < 30 THEN "CYCLICAL"
     ELSE "WATCHLIST"

\* moatScore, executionScore and, with the scores of the sector and of the
\* governance, synthesize: each in 1/2000 of a point, the whole in 1/200000.
Moat(d) ==
  Between(0, 20000,
    11000 + 25 * Between(0, 200, OrElse(Margin(d), 0))
          + 16 * Between(0, 250, OrElse(Roe(d), 0))
          + (IF d.esteem.dividend THEN 1000 ELSE 0))
Execution(d) ==
  Between(0, 20000,
    10000 + 1000 * Between(0, 5, Years(d))
          + (IF d.growth = Null THEN 0 ELSE 25 * Between(0, 200, Growth(d) + 50))
          + (IF d.esteem.risen THEN 1000 ELSE 0))
Qualitative(d) ==
  35 * 200 * d.esteem.sector + 25 * 200 * d.esteem.governance
    + 20 * Moat(d) + 20 * Execution(d)

\* AssetAnalysisBundle: what analyzeAsset makes of a dossier for a profile
Bundle(d, p) ==
  LET exact == ExactHealth(d, p)
      health == (exact + 600) \div 1200
      toxic == exact < 50 * 120000 \/ Years(d) = 0
  IN [health |-> health, toxic |-> toxic, class |-> Class(d, exact, toxic),
      penalty |-> Penalty(d, p),
      pci |-> IF toxic THEN 0 ELSE (1200 * health + 4 * Qualitative(d) + 1000) \div 2000]

\* equityHardDistress
Distress(d, bundle) ==
  LET margin == Margin(d)
      noMargin == margin = Null \/ OrElse(margin, 0) <= 0
  IN \/ bundle.toxic
     \/ Loss(d) /\ noMargin
     \/ Years(d) = 0 /\ noMargin
     \/ OrElse(margin, 0) < -50
     \/ Loss(d) /\ d.statement.freeCash < 0

\* The pillars of computeEquitySelo in 1/70000 of a point.  The ratios are
\* normalised a second time.
Pillars(d, bundle) ==
  LET margin == OrElse(Normalize(Margin(d)), 0)
      roe == OrElse(Normalize(Roe(d)), 0)
      part(n) == Between(0, 7000000, n)
  IN   part(70 * (200 * (margin + 50) + 120 * roe))
     + part(7 * (180000 * Years(d) + 35 * bundle.health))
     + part(25000 * (Growth(d) + 80))
     + part(70 * (10 * bundle.health - 4 * bundle.penalty))
     + part(7000 * ((Qualitative(d) + 1000) \div 2000))

\* computeEquitySelo and gradeFromComposite, the composite in 1/7000000
Grade(d, bundle) ==
  LET composite == 38500 * bundle.pci + 9 * Pillars(d, bundle)
      steps == {12, 28, 46, 64, 80}
  IN IF Distress(d, bundle) THEN 0
     ELSE Cardinality({n \in steps : composite >= n * 7000000})

\* The seal is of the moderate profile; the panel shows the one that the user
\* picks, and puts cash on what is not toxic (suggestedTopUp).
Page(d) ==
  LET bundle == [p \in Profiles |-> Bundle(d, p)]
  IN [seal |-> Grade(d, bundle["MODERATE"]),
      health |-> [p \in Profiles |-> bundle[p].health],
      pci |-> [p \in Profiles |-> bundle[p].pci],
      class |-> [p \in Profiles |-> bundle[p].class],
      advised |-> {p \in Profiles : ~bundle[p].toxic /\ bundle[p].pci > 0}]

DossierInit == dossier \in Dossiers /\ page = Page(dossier)

\* The page is loaded again after one of the sources has changed.
Reload ==
  /\ \/ \E m \in Margins : dossier' = [dossier EXCEPT !.margin = m]
     \/ \E r \in Returns : dossier' = [dossier EXCEPT !.roe = r]
     \/ \E r \in TtmReturns : dossier' = [dossier EXCEPT !.ttm = r]
     \/ \E s \in Statements : dossier' = [dossier EXCEPT !.statement = s]
     \/ \E n \in Streaks : dossier' = [dossier EXCEPT !.streak = n]
     \/ \E g \in Growths : dossier' = [dossier EXCEPT !.growth = g]
     \/ \E b \in Debts : dossier' = [dossier EXCEPT !.debt = b]
     \/ \E e \in Esteems : dossier' = [dossier EXCEPT !.esteem = e]
  /\ page' = Page(dossier')

DossierSpec == DossierInit /\ [][Reload]_dossierVars

-----------------------------------------------------------------------------
(* Properties                                                              *)

\* A company that none of its sources says worse of, whether in percent or
\* not; of the return on equity only the quote may change.
NoWorse(c, d) ==
  LET both(m, n) == m # Null /\ n # Null
  IN /\ c.margin = d.margin \/ (both(c.margin, d.margin) /\ c.margin.ratio >= d.margin.ratio)
     /\ c.roe = d.roe \/ (both(c.roe, d.roe) /\ c.roe.ratio >= d.roe.ratio)
     /\ c.ttm = d.ttm
     /\ \/ c.statement = d.statement
        \/ /\ both(c.statement, d.statement)
           /\ c.statement.revenue = d.statement.revenue
           /\ c.statement.income >= d.statement.income
           /\ c.statement.freeCash >= d.statement.freeCash
     /\ c.streak >= d.streak
     /\ \/ c.growth = d.growth
        \/ /\ both(c.growth, d.growth) /\ c.growth.years = d.growth.years
           /\ c.growth.rate >= d.growth.rate
     /\ \/ c.debt = d.debt
        \/ both(c.debt, d.debt) /\ c.debt.of = d.debt.of /\ c.debt.times <= d.debt.times
     /\ c.esteem = d.esteem

\* When its numbers get better a company never loses health, PCI or a grade of
\* its seal, under any profile, and none of these depends on whether a source
\* gives ratios or percent: each number goes through two or three scores with
\* floors and ceilings of their own, and a ratio once or twice through
\* normalizeRatio, which guesses.
BetterNeverScoresLower ==
  [][dossier' # dossier /\ NoWorse(dossier', dossier) =>
       /\ page'.seal >= page.seal
       /\ \A p \in Profiles : /\ page'.health[p] >= page.health[p]
                              /\ page'.pci[p] >= page.pci[p]]_dossierVars

\* The seal and the panel of one page, which weigh the same company with
\* different formulas, do not contradict one another: what the panel puts fresh
\* cash on is not sealed critical, save on a margin far below zero that no
\* statement of a loss bears out, and an elite compounder is sealed solid.
SealAgreesWithPanel ==
  /\ "MODERATE" \in page.advised /\ page.seal = 0
       => OrElse(Margin(dossier), 0) < -50 /\ ~Loss(dossier)
  /\ page.class["MODERATE"] = "ELITE_COMPOUNDER" => page.seal >= 4

=============================================================================
