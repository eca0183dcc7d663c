------------------------------ MODULE SignalHistory ------------------------------
(***************************************************************************)
(* The history of the radar's signals (web/src/lib/user-watchlist/         *)
(* history.ts): every load of the dashboard posts the signals of the       *)
(* watchlist, and those that say something new, or are old enough, are     *)
(* stored.  The last signal of a symbol is looked for among the newest     *)
(* rows of the user's only.                                                *)
(***************************************************************************)
EXTENDS Integers, SequencesExt

CONSTANTS Watched,     \* symbols of the watchlist
          Levels,      \* what a signal says
          Loads,       \* slots for posts in progress
          MinInterval, \* SNAPSHOT_MIN_INTERVAL_MS, in ticks of the model
          Window,      \* Math.max(symbols.length * 4, 12)
          MaxTicks,    \* bound: the clock
          MaxHistory   \* bound: stored signals

ASSUME HistoryAssumption ==
  /\ IsFiniteSet(Watched)
  /\ MinInterval \in Nat \ {0} /\ Window \in Nat \ {0}
  /\ MaxTicks \in Nat /\ MaxHistory \in Nat

VARIABLES
  history,  \* UserWatchlistSignalHistory, in the order of createdAt
  loads,    \* of every slot: the post in progress
  ticks

historyVars == <<history, loads, ticks>>

NoLoad == [step |-> "none"]

HistoryInit ==
  /\ history = <<>> /\ ticks = 0
  /\ loads = [l \in Loads |-> NoLoad]

Newest == {i \in 1..Len(history) : i > Len(history) - Window}

\* Mutant: later, that is older, rows overwrite the first one of a symbol.
PreviousOldest(y) ==
  {i \in Newest : /\ history[i].symbol = y
                  /\ \A k \in Newest : history[k].symbol = y => i <= k}

\* listLatestWatchlistSignalSnapshots: the last of symbol y, as a set of at most
\* one place in the history.
Previous(y) ==
  {i \in Newest : /\ history[i].symbol = y
                  /\ \A k \in Newest : history[k].symbol = y => k <= i}

\* shouldPersist
IsNews(y, level) ==
  \A i \in Previous(y) :
    ticks - history[i].at >= MinInterval \/ history[i].level # level

\* persistWatchlistSignalSnapshots, up to the transaction; a query that fails
\* finds nothing, so everything is news.  read is history for the property: how
\* many rows there were for the query to see.
Look(l) ==
  /\ loads[l] = NoLoad
  /\ \E signals \in [Watched -> Levels] :
       \/ loads' = [loads EXCEPT ![l] =
                      [step |-> "looked", signals |-> signals, read |-> Len(history),
                       news |-> {y \in Watched : IsNews(y, signals[y])}]]
       \/ loads' = [loads EXCEPT ![l] =
                      [step |-> "looked", signals |-> signals, read |-> 0,
                       news |-> Watched]]
  /\ UNCHANGED <<history, ticks>>

\* The transaction inserts the news, with one createdAt, or fails and is ignored.
Insert(l) ==
  /\ loads[l].step = "looked"
  /\ LET row(y) == [symbol |-> y, level |-> loads[l].signals[y], at |-> ticks,
                    read |-> loads[l].read]
     IN \E news \in SetToSeqs(loads[l].news) :
          /\ Len(history) + Len(news) <= MaxHistory
          /\ history' \in {history, history \o [i \in DOMAIN news |-> row(news[i])]}
  /\ loads' = [loads EXCEPT ![l] = NoLoad]
  /\ UNCHANGED ticks

Elapse == ticks < MaxTicks /\ ticks' = ticks + 1 /\ UNCHANGED <<history, loads>>

HistoryNext == Elapse \/ \E l \in Loads : Look(l) \/ Insert(l)

HistorySpec == HistoryInit /\ [][HistoryNext]_historyVars

-----------------------------------------------------------------------------
(* Properties                                                              *)

\* A symbol's signal is not repeated within the interval, unless the first of
\* the two was stored after the load of the second had looked, its query failed,
\* or more rows than the window shows had come between.
HistoryIsSparse ==
  \A i, j \in 1..Len(history) :
    LET a == history[i]
        b == history[j]
    IN /\ i < j /\ a.symbol = b.symbol /\ a.level = b.level
       /\ \A k \in (i + 1)..(j - 1) : history[k].symbol # a.symbol
       /\ b.at - a.at < MinInterval
       => i > b.read \/ i <= b.read - Window

=============================================================================
