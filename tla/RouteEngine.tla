------------------------------ MODULE RouteEngine ------------------------------
(***************************************************************************)
(* The evaluation of a financial route (web/src/lib/financial-route/       *)
(* engine.ts): how wealth grows with a monthly contribution, when it       *)
(* reaches the target, what more it takes to be in time, and what the user *)
(* is told.  Amounts are natural numbers, the monthly rate is              *)
(* returns / Scale, and a balance is a fraction: nothing is rounded.       *)
(***************************************************************************)
EXTENDS Integers

CONSTANTS Plans,      \* routes and the wealth they start from
          Scale,      \* a monthly rate is a natural number of 1/Scale
          MaxMonths   \* MAX_MONTHS

ASSUME EngineAssumption ==
  /\ Scale \in Nat \ {0} /\ MaxMonths \in Nat
  /\ Plans \subseteq [wealth : Nat, target : Nat \ {0}, contribution : Nat,
                     returns : Nat, remaining : Nat]

VARIABLES
  plan,    \* the route and the wealth it starts from
  status   \* what the user is told of it, once it is evaluated

engineVars == <<plan, status>>

NotEvaluated == [known |-> FALSE]

EngineInit == plan \in Plans /\ status = NotEvaluated

\* projectBalance and one turn of its loop
NextMonth(p, contribution, b) ==
  [num |-> b.num * (Scale + p.returns) + contribution * (Scale * b.den),
   den |-> Scale * b.den]
ProjectBalance(p, contribution, months) ==
  LET balance[n \in 0..months] ==
        IF n = 0 THEN [num |-> p.wealth, den |-> 1]
        ELSE NextMonth(p, contribution, balance[n - 1])
  IN balance[months]

Reaches(p, contribution, months) ==
  LET b == ProjectBalance(p, contribution, months) IN b.num >= p.target * b.den

Least(S) == CHOOSE n \in S : \A k \in S : n <= k

\* monthsToReachTarget, as a set of at most one number
MonthsNeeded(p) ==
  LET reached == {n \in 0..MaxMonths : Reaches(p, p.contribution, n)}
  IN IF reached = {} THEN {} ELSE {Least(reached)}

Behind(p) ==
  {n - p.remaining : n \in {k \in MonthsNeeded(p) : p.remaining > 0 /\ k > p.remaining}}

OnTrack(p) == Reaches(p, p.contribution, p.remaining) /\ Behind(p) = {}

\* Mutant: the bound above is the target spread over a year.
SuggestionsYearly(p) ==
  LET share == (p.target + 11) \div 12
      hi == IF share > 100 THEN share ELSE 100
      enough == {e \in 0..hi : Reaches(p, p.contribution + e, p.remaining)}
      exact == IF enough = {} THEN hi ELSE Least(enough)
      tens == (exact + 9) \div 10
  IN IF Behind(p) = {} \/ Reaches(p, p.contribution, p.remaining) THEN {}
     ELSE {10 * tens, 10 * tens + 10}

\* solveExtraMonthlyContribution: a bisection that closes on the least extra
\* that is enough, below the target spread over the months; what it returns is
\* rounded up to tens, and may be ten more where it closes from above.
Suggestions(p) ==
  LET share == (p.target + p.remaining - 1) \div p.remaining
      hi == IF share > 100 THEN share ELSE 100
      enough == {e \in 0..hi : Reaches(p, p.contribution + e, p.remaining)}
      exact == IF enough = {} THEN hi ELSE Least(enough)
      tens == (exact + 9) \div 10
  IN IF Behind(p) = {} \/ Reaches(p, p.contribution, p.remaining) THEN {}
     ELSE {10 * tens, 10 * tens + 10}

\* buildPreventiveRouteAlerts, those about the schedule
ScheduleAlerts(p) ==
  (IF Behind(p) # {} THEN {"schedule_behind"} ELSE {}) \union
  (IF p.remaining \in 1..3 /\ ~OnTrack(p) THEN {"deadline_near"} ELSE {})

\* computeRouteNavigationStatus and the alerts
EvaluateRoute ==
  /\ status = NotEvaluated
  /\ \E extra \in IF Suggestions(plan) = {} THEN {{}} ELSE {{e} : e \in Suggestions(plan)} :
       status' = [known |-> TRUE, onTrack |-> OnTrack(plan), needed |-> MonthsNeeded(plan),
                  extra |-> extra, alerts |-> ScheduleAlerts(plan)]
  /\ UNCHANGED plan

EngineSpec == EngineInit /\ [][EvaluateRoute]_engineVars

-----------------------------------------------------------------------------
(* Properties                                                              *)

\* A route that is off its track, has months left and can be reached at all is
\* alerted to be behind, with an extra contribution that does bring it to the
\* target in time; a route on its track is not disturbed.
OffTrackIsTold ==
  status.known =>
    /\ ~status.onTrack /\ status.needed # {} /\ plan.remaining > 0 =>
         /\ "schedule_behind" \in status.alerts
         /\ status.extra # {}
         /\ \A e \in status.extra :
              Reaches(plan, plan.contribution + e, plan.remaining)
    /\ status.onTrack => status.alerts = {} /\ status.extra = {}

=============================================================================
