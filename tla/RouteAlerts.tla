------------------------------- MODULE RouteAlerts -------------------------------
(***************************************************************************)
(* The alerts of a user's financial routes (web/src/lib/financial-route/   *)
(* load.ts): whoever evaluates the routes - the page of the routes, the    *)
(* calendar, a route that is saved - brings the stored alerts up to date,  *)
(* one statement per step.  What an evaluation finds is module             *)
(* RouteEngine's business: here any set of alert types.                    *)
(***************************************************************************)
EXTENDS Naturals, FiniteSets

CONSTANTS Routes,    \* identifiers of routes
          Types,     \* alert types
          Syncs,     \* slots for evaluations in progress
          Rows,      \* identifiers of alert rows
          Day,       \* 24 hours, in ticks of the model
          MaxClock   \* bound: the clock

ASSUME AlertsAssumption == IsFiniteSet(Syncs) /\ Day \in Nat \ {0} /\ MaxClock \in Nat

VARIABLES
  routes,  \* the user's routes
  alerts,  \* the stored alerts, by row: NoRow for a free identifier
  syncs,   \* of every slot: the evaluation in progress
  clock

alertsVars == <<routes, alerts, syncs, clock>>

NoRow == [route |-> "none"]
Row(r, ty) == [route |-> r, type |-> ty, createdAt |-> clock, dismissed |-> FALSE]
Used == {x \in Rows : alerts[x] # NoRow}

NoSync == [step |-> "none"]
Pairs == Routes \X Types

AlertsInit ==
  /\ routes \in SUBSET Routes
  /\ alerts = [x \in Rows |-> NoRow]
  /\ syncs = [s \in Syncs |-> NoSync]
  /\ clock = Day

\* A route is saved by POST; the evaluation that follows is an Evaluate.
SaveRoute ==
  /\ \E r \in Routes \ routes : routes' = routes \union {r}
  /\ UNCHANGED <<alerts, syncs, clock>>

\* DELETE: the alerts go with their route.
DeleteRoute ==
  /\ \E r \in routes :
       /\ routes' = routes \ {r}
       /\ alerts' = [x \in Rows |-> IF x \in Used /\ alerts[x].route = r THEN NoRow
                                                                        ELSE alerts[x]]
  /\ UNCHANGED <<syncs, clock>>

\* evaluateUserFinancialRoutes, and the first line of syncRouteAlerts.
Evaluate(s) ==
  /\ syncs[s] = NoSync
  /\ \E due \in SUBSET (routes \X Types) :
       syncs' = [syncs EXCEPT ![s] = [step |-> "find", due |-> due,
                                      since |-> clock - Day]]
  /\ UNCHANGED <<routes, alerts, clock>>

Active(x, p) ==
  x \in Used /\ alerts[x].route = p[1] /\ alerts[x].type = p[2] /\ ~alerts[x].dismissed

\* Mutant: dismissed alerts of the day count, active ones do not.
FindDismissed(s) ==
  /\ syncs[s].step = "find"
  /\ \E p \in syncs[s].due :
       LET found == \E x \in Used : /\ alerts[x].route = p[1] /\ alerts[x].type = p[2]
                                    /\ alerts[x].dismissed
                                    /\ alerts[x].createdAt >= syncs[s].since
           rest == syncs[s].due \ {p}
       IN syncs' = [syncs EXCEPT ![s] =
                      IF found THEN [@ EXCEPT !.due = rest]
                      ELSE [step |-> "create", due |-> rest, since |-> @.since, pair |-> p]]
  /\ UNCHANGED <<routes, alerts, clock>>

\* findFirst: an alert of the same type that is active and of the last day, as
\* reckoned when the evaluation ended.
Find(s) ==
  /\ syncs[s].step = "find"
  /\ \E p \in syncs[s].due :
       LET found == \E x \in Rows : Active(x, p) /\ alerts[x].createdAt >= syncs[s].since
           rest == syncs[s].due \ {p}
       IN syncs' = [syncs EXCEPT ![s] =
                      IF found THEN [@ EXCEPT !.due = rest]
                      ELSE [step |-> "create", due |-> rest, since |-> @.since, pair |-> p]]
  /\ UNCHANGED <<routes, alerts, clock>>

\* create fails when the route is gone, and ends the page or the request with
\* it: the alerts that were left are not created.
Create(s) ==
  /\ syncs[s].step = "create"
  /\ LET p == syncs[s].pair
     IN \/ /\ p[1] \in routes
           /\ Used # Rows
           /\ alerts' = [alerts EXCEPT ![CHOOSE x \in Rows : x \notin Used]
                           = Row(p[1], p[2])]
           /\ syncs' = [syncs EXCEPT ![s] = [step |-> "find", due |-> @.due,
                                             since |-> @.since]]
        \/ /\ syncs' = [syncs EXCEPT ![s] = NoSync]
           /\ UNCHANGED alerts
  /\ UNCHANGED <<routes, clock>>

SyncEnds(s) ==
  /\ syncs[s].step = "find" /\ syncs[s].due = {}
  /\ syncs' = [syncs EXCEPT ![s] = NoSync]
  /\ UNCHANGED <<routes, alerts, clock>>

\* dismissRouteAlert
Dismiss ==
  /\ \E x \in Used : alerts' = [alerts EXCEPT ![x].dismissed = TRUE]
  /\ UNCHANGED <<routes, syncs, clock>>

Tick == clock < MaxClock /\ clock' = clock + 1 /\ UNCHANGED <<routes, alerts, syncs>>

AlertsNext ==
  \/ SaveRoute \/ DeleteRoute \/ Dismiss \/ Tick
  \/ \E s \in Syncs : Evaluate(s) \/ Find(s) \/ Create(s) \/ SyncEnds(s)

AlertsSpec == AlertsInit /\ [][AlertsNext]_alertsVars

-----------------------------------------------------------------------------
(* Properties                                                              *)

\* Of one route and type a day brings at most as many active alerts as there
\* are evaluations at a time: one, when pages load one after the other, however
\* often they load, and however alerts are dismissed and come back.
AlertsAreDaily ==
  \A p \in Pairs :
    Cardinality({x \in Rows : Active(x, p) /\ alerts[x].createdAt >= clock - Day})
      <= Cardinality(Syncs)

=============================================================================
