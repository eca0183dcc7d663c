------------------------------- MODULE AlertRules -------------------------------
(***************************************************************************)
(* The alert rules of a watchlist: the page of the alert centre            *)
(* (components/alerts/watchlist-alert-center-page.tsx), which edits drafts *)
(* of them, and the handlers that store them (app/api/user/watchlist/      *)
(* alert-rules/route.ts, lib/user-watchlist/rules.ts) and answer with the  *)
(* rules in effect.  Every answer replaces every draft.                    *)
(***************************************************************************)
EXTENDS Naturals, FiniteSets

CONSTANTS Assets,     \* symbols with rules of their own
          RuleTypes,
          Settings,   \* a threshold and whether the rule is enabled
          Default,    \* the setting of a desk rule that was never stored
          NoRule,     \* no rule of this type for this asset
          Sends       \* slots for requests

ASSUME RulesAssumption == Default \in Settings /\ NoRule \notin Settings

VARIABLES
  stored,   \* UserWatchlistAlertRule
  drafts,   \* rules
  sends,    \* of every slot: the request in progress
  edited,   \* history: rules edited since the last answer
  crossed   \* history: what the page shows may not be what is stored: a query
            \* failed, or answers crossed or were lost

rulesVars == <<stored, drafts, sends, edited, crossed>>

Desk == "*"
Rules == ({Desk} \union Assets) \X RuleTypes
RulesOf(scope) == {p \in Rules : p[1] = scope}

\* listEffectiveWatchlistAlertRules
Effective(rules) ==
  [p \in Rules |-> IF rules[p] = NoRule /\ p[1] = Desk THEN Default ELSE rules[p]]

\* listUserWatchlistAlertRules: a query that fails finds no rules.
Found == {stored, [p \in Rules |-> NoRule]}

NoSend == [step |-> "none"]
InFlight == {s \in Sends : sends[s] # NoSend}

RulesInit ==
  /\ stored \in [Rules -> Settings \union {NoRule}]
  /\ \E found \in Found : drafts = Effective(found) /\ crossed = (found # stored)
  /\ sends = [s \in Sends |-> NoSend]
  /\ edited = {}

\* updateRule: a rule the asset inherited becomes one of its own.
Edit(p) ==
  /\ \E v \in Settings : drafts' = [drafts EXCEPT ![p] = v]
  /\ edited' = edited \union {p}
  /\ UNCHANGED <<stored, sends, crossed>>

\* A request leaves beside those that are on their way.
Leaves(s, change) ==
  /\ sends[s] = NoSend
  /\ sends' = [x \in Sends |->
                 IF x = s THEN [step |-> "sent", change |-> change, alone |-> InFlight = {}]
                 ELSE IF x \in InFlight THEN [sends[x] EXCEPT !.alone = FALSE]
                 ELSE NoSend]
  /\ UNCHANGED <<stored, drafts, edited, crossed>>

\* persistRules: the rules of one scope, of an asset those it does not inherit.
Save(s, scope) ==
  Leaves(s, [p \in {q \in RulesOf(scope) : drafts[q] # NoRule} |-> drafts[p]])

\* deleteScopedRule
Reset(s, p) == p[1] # Desk /\ Leaves(s, [q \in {p} |-> NoRule])

\* Mutant: the rules in effect are listed before the change.
StoreAfterListing(s) ==
  /\ sends[s].step = "sent"
  /\ LET change == sends[s].change
     IN stored' = [p \in Rules |-> IF p \in DOMAIN change THEN change[p] ELSE stored[p]]
  /\ sends' = [sends EXCEPT ![s] = [step |-> "answered", rules |-> Effective(stored),
                                    alone |-> @.alone]]
  /\ UNCHANGED <<drafts, edited, crossed>>

\* upsertManyUserWatchlistAlertRules, one transaction, or the DELETE
Store(s) ==
  /\ sends[s].step = "sent"
  /\ LET change == sends[s].change
     IN stored' = [p \in Rules |-> IF p \in DOMAIN change THEN change[p] ELSE stored[p]]
  /\ sends' = [sends EXCEPT ![s] = [step |-> "stored", alone |-> @.alone]]
  /\ UNCHANGED <<drafts, edited, crossed>>

\* Then the rules in effect are listed for the answer, which says ok even when
\* the query failed.
ListRules(s) ==
  /\ sends[s].step = "stored"
  /\ \E found \in Found :
       sends' = [sends EXCEPT ![s] = [step |-> "answered", rules |-> Effective(found),
                                      alone |-> @.alone /\ found = stored]]
  /\ UNCHANGED <<stored, drafts, edited, crossed>>

\* The answer replaces the drafts, those of other scopes included.
Receive(s) ==
  /\ sends[s].step = "answered"
  /\ drafts' = sends[s].rules
  /\ sends' = [sends EXCEPT ![s] = NoSend]
  /\ edited' = {}
  /\ crossed' = ~sends[s].alone
  /\ UNCHANGED stored

\* The request fails, or its answer is lost: the page keeps its drafts.
Lose(s) ==
  /\ s \in InFlight
  /\ sends' = [sends EXCEPT ![s] = NoSend]
  /\ crossed' = (crossed \/ sends[s].step # "sent")
  /\ UNCHANGED <<stored, drafts, edited>>

RulesNext ==
  \/ \E p \in Rules : Edit(p)
  \/ \E s \in Sends :
       \/ \E scope \in {Desk} \union Assets : Save(s, scope)
       \/ \E p \in Rules : Reset(s, p)
       \/ Store(s) \/ ListRules(s) \/ Receive(s) \/ Lose(s)

RulesSpec == RulesInit /\ [][RulesNext]_rulesVars

-----------------------------------------------------------------------------
(* Properties                                                              *)

\* Between requests the page shows every rule as it is stored, or as the user
\* has edited it since: only answers that crossed or were lost, or for which
\* the rules could not be read, mislead it.
PageShowsStored ==
  InFlight = {} /\ ~crossed =>
    \A p \in Rules \ edited : drafts[p] = Effective(stored)[p]

=============================================================================
