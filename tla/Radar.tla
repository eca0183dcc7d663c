--------------------------------- MODULE Radar ---------------------------------
(***************************************************************************)
(* What the radar says of one asset of the watchlist: the alert rules that *)
(* apply to it (web/src/lib/user-watchlist/alerts.ts), the reasons and the *)
(* priority of its signal (intelligence.ts), and the kind of event the     *)
(* alert centre makes of it (briefing.ts).  A behaviour takes the rules,   *)
(* the dossier and the last stored signal as they are, and evaluates them. *)
(***************************************************************************)
EXTENDS Integers, FiniteSets

CONSTANTS Dossiers,        \* what a dossier may say
          OtherThreshold,  \* of every rule type: one besides the default
          Snapshots,       \* last stored signals
          NoSnapshot       \* none is stored

ASSUME RadarAssumption ==
  Dossiers \subseteq [move : Nat, news : Nat, range : -1..100, live : BOOLEAN,
                      volume : BOOLEAN]

VARIABLES
  ownRules,   \* the asset's own rules, by type
  deskRules,  \* the effective desk rules
  dossier,
  previous,   \* the last stored signal, or NoSnapshot
  said        \* the signal and its event, once they are evaluated

radarVars == <<ownRules, deskRules, dossier, previous, said>>

RadarRules == {"large_move", "news_flow", "range_extreme", "priority_shift"}

\* DEFAULT_WATCHLIST_ALERT_RULES, and the fallbacks of every use
DefaultThreshold ==
  [large_move |-> 2, news_flow |-> 2, range_extreme |-> 78, priority_shift |-> 10]

\* A rule that is stored is paused, or enabled with one of two thresholds.
RuleStates == {"paused", "default", "other"}

NotSaid == [kind |-> "none"]

RadarInit ==
  /\ ownRules \in [RadarRules -> RuleStates \union {"none"}]
  /\ deskRules \in [RadarRules -> RuleStates]
  /\ dossier \in Dossiers
  /\ previous \in Snapshots \union {NoSnapshot}
  /\ said = NotSaid

ThresholdOf(ty, rule) ==
  IF rule = "other" THEN OtherThreshold[ty] ELSE DefaultThreshold[ty]
Enabled(rule) == rule \in {"default", "other"}

\* resolveAlertRuleThreshold: a rule that is not enabled is passed over, and
\* without any the default is in force.
Threshold(ty) ==
  ThresholdOf(ty, IF Enabled(ownRules[ty]) THEN ownRules[ty] ELSE deskRules[ty])

\* range is the place in the range of 52 weeks, in percent, or -1.
NearHigh == dossier.range # -1 /\ dossier.range >= Threshold("range_extreme")
NearLow ==
  /\ dossier.range # -1
  /\ dossier.range <= (IF Threshold("range_extreme") < 100
                       THEN 100 - Threshold("range_extreme") ELSE 0)

AtMost(limit, n) == IF n < limit THEN n ELSE limit

Priority ==
  AtMost(99, 18 + AtMost(28, dossier.move * 5) + AtMost(18, dossier.news * 5)
             + (IF NearHigh \/ NearLow THEN 12 ELSE 0)
             + (IF dossier.live THEN 10 ELSE 0)
             + (IF dossier.volume THEN 8 ELSE 0))

Attention(priority) ==
  IF priority >= 68 THEN "high" ELSE IF priority >= 44 THEN "medium" ELSE "baseline"

\* The order in which the reasons are looked for, and those that apply.
ReasonPlace ==
  [large_move |-> 1, news_flow |-> 2, near_52w_high |-> 3, near_52w_low |-> 4,
   live_history |-> 5, liquid |-> 6]
Applying ==
  {code \in DOMAIN ReasonPlace :
     CASE code = "large_move"    -> dossier.move >= Threshold("large_move")
       [] code = "news_flow"     -> dossier.news >= Threshold("news_flow")
       [] code = "near_52w_high" -> NearHigh
       [] code = "near_52w_low"  -> NearLow
       [] code = "live_history"  -> dossier.live
       [] code = "liquid"        -> dossier.volume}

FirstThree(place) ==
  {code \in Applying : Cardinality({c \in Applying : place[c] < place[code]}) < 3}

\* Mutant: the quality of the data is told before the place in the range.
ReasonsRangeLast ==
  IF Applying = {} THEN {"liquid"}
  ELSE FirstThree([ReasonPlace EXCEPT !["live_history"] = 3, !["liquid"] = 4,
                                      !["near_52w_high"] = 5, !["near_52w_low"] = 6])

\* The first three; without any, the asset is told to be liquid.
Reasons == IF Applying = {} THEN {"liquid"} ELSE FirstThree(ReasonPlace)

\* classifyBriefingKind
EventKind(signal) ==
  IF \/ previous = NoSnapshot
     \/ signal.priority - previous.priority >= Threshold("priority_shift")
     \/ previous.attention # signal.attention
  THEN "attention_up"
  ELSE IF dossier.news > previous.news THEN "fresh_news"
  ELSE IF signal.reasons \intersect {"near_52w_high", "near_52w_low"} # {}
       THEN "range_extreme"
  ELSE IF signal.attention = "high" THEN "steady_high"
  ELSE "baseline"

\* buildWatchlistRadarSignal, and the event made of the signal
EvaluateSignal ==
  /\ said = NotSaid
  /\ LET signal == [priority |-> Priority, attention |-> Attention(Priority),
                    reasons |-> Reasons]
     IN said' = [kind |-> EventKind(signal), signal |-> signal]
  /\ UNCHANGED <<ownRules, deskRules, dossier, previous>>

RadarSpec == RadarInit /\ [][EvaluateSignal]_radarVars

-----------------------------------------------------------------------------
(* Properties                                                              *)

Told(code) == code \in said.signal.reasons

\* Three reasons are enough for the rules: one that was raised because of a rule
\* is told, both extremes at once excepted, and an asset at an extreme of its
\* range is never announced as steady or as nothing new, whatever else there is
\* to say of it.
ExtremesAreTold ==
  said # NotSaid =>
    /\ dossier.move >= Threshold("large_move") => Told("large_move")
    /\ dossier.news >= Threshold("news_flow") => Told("news_flow")
    /\ NearHigh => Told("near_52w_high")
    /\ NearHigh \/ NearLow => said.kind \notin {"steady_high", "baseline"}

\* "A regra está pausada na priorização": a rule the user paused for the asset
\* gives no reason.
PausedRulesAreSilent ==
  said # NotSaid =>
    \A ty \in {"large_move", "news_flow"} :
      ownRules[ty] = "paused" => ~Told(ty)

=============================================================================
