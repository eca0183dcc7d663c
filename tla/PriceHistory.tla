------------------------------ MODULE PriceHistory ------------------------------
(***************************************************************************)
(* What the page of an asset says of its prices                            *)
(* (web/src/lib/market/asset-dossier-period-stats.ts and                   *)
(* asset-dossier-historical-insights.ts): the returns over so many days,   *)
(* of the year and of every calendar year, and the deepest fall.  The      *)
(* history comes as the provider gives it, the newest point first or last, *)
(* with more than one close of a day.  A return is kept as the two closes  *)
(* it is made of.                                                          *)
(***************************************************************************)
EXTENDS Integers, Sequences, FiniteSets

CONSTANTS LastDay,     \* the calendar has the days 0..LastDay
          YearDays,    \* days of a calendar year
          Closes,      \* prices
          Periods,     \* calendarDays of the returns
          MaxPoints    \* points a provider gives

ASSUME HistoryAssumption ==
  /\ LastDay \in Nat /\ YearDays \in Nat \ {0} /\ MaxPoints \in Nat
  /\ Closes \subseteq Nat \ {0} /\ Periods \subseteq Nat \ {0}

VARIABLE history   \* AssetHistoryPoint[]

\* Two times of each day.
DayOf(point) == point.at \div 2
YearOf(point) == DayOf(point) \div YearDays
Points == [at : 0..2 * LastDay + 1, close : Closes]

HistoryInit == history = <<>>

\* The points of the days come in one of the two orders, those of one day
\* always with the latest last.
GivePoint ==
  /\ Len(history) < MaxPoints
  /\ \E point \in Points :
       LET given == Append(history, point)
           olderFirst(i, j) == DayOf(given[i]) <= DayOf(given[j])
       IN /\ \/ \A i, j \in DOMAIN given : i < j => olderFirst(i, j)
             \/ \A i, j \in DOMAIN given : i < j => olderFirst(j, i)
          /\ \A i, j \in DOMAIN given :
               i < j /\ DayOf(given[i]) = DayOf(given[j]) => given[i].at < given[j].at
          /\ history' = given

HistorySpec == HistoryInit /\ [][GivePoint]_history

\* Points of different times, the earliest first
InTime(points) ==
  [i \in 1..Cardinality(points) |->
     CHOOSE p \in points : Cardinality({q \in points : q.at <= p.at}) = i]

\* Mutant: the first point of a day stays.
EarliestOfDays ==
  InTime({history[i] : i \in {k \in DOMAIN history :
            \A j \in 1..k - 1 : DayOf(history[j]) # DayOf(history[k])}})

\* sortedUniqueDays: of a day the point that was given last
UniqueDays ==
  InTime({history[i] : i \in {k \in DOMAIN history :
            \A j \in k + 1..Len(history) : DayOf(history[j]) # DayOf(history[k])}})

\* The series of the calendar years: of a day the point that is the latest
LatestOfDays ==
  InTime({history[i] : i \in {k \in DOMAIN history :
            \A j \in DOMAIN history :
              DayOf(history[j]) = DayOf(history[k]) => history[j].at <= history[k].at}})

\* One turn of the binary search of indexAtOrBefore, which may be over
Halve(series, target, bounds) ==
  LET mid == (bounds.lo + bounds.hi) \div 2
  IN IF bounds.lo > bounds.hi THEN bounds
     ELSE IF series[mid].at <= target
          THEN [lo |-> mid + 1, hi |-> bounds.hi, best |-> mid]
          ELSE [lo |-> bounds.lo, hi |-> mid - 1, best |-> bounds.best]

\* indexAtOrBefore answers the first point when none is old enough.
IndexAtOrBefore(series, target) ==
  LET after[turn \in 0..Len(series)] ==
        IF turn = 0 THEN [lo |-> 1, hi |-> Len(series), best |-> 1]
        ELSE Halve(series, target, after[turn - 1])
  IN after[Len(series)].best

\* periodReturn and returnBetween: no return, or the pair of its closes
PeriodReturn(series, days) ==
  LET end == Len(series)
      start == IndexAtOrBefore(series, series[end].at - 2 * days)
  IN IF end < 2 \/ start >= end THEN {}
     ELSE {<<series[start].close, series[end].close>>}

\* ytdReturn: back from the end while the year is the same
YtdReturn(series) ==
  LET end == Len(series)
      ofYear(i) == YearOf(series[i]) = YearOf(series[end])
      start == CHOOSE i \in 1..end : /\ \A j \in i..end : ofYear(j)
                                     /\ i > 1 => ~ofYear(i - 1)
  IN IF end < 2 \/ start >= end THEN {}
     ELSE {<<series[start].close, series[end].close>>}

\* Of two returns, the one that lost more
Worse(a, b) == a[2] * b[1] < b[2] * a[1]

\* One day of the loop of maxDrawdownPct: the peak so far, and the deepest fall
\* from one
Fall(seen, close) ==
  LET peak == IF close > seen.peak THEN close ELSE seen.peak
  IN [peak |-> peak,
      worst |-> IF Worse(<<peak, close>>, seen.worst) THEN <<peak, close>> ELSE seen.worst]

MaxDrawdown(series) ==
  LET seen[i \in 0..Len(series)] ==
        IF i = 0 THEN [peak |-> 0, worst |-> <<1, 1>>]
        ELSE Fall(seen[i - 1], series[i].close)
  IN seen[Len(series)].worst

\* calendarYearReturns, of the years with two days or more
CalendarYearReturns(series) ==
  LET of(y) == {i \in DOMAIN series : YearOf(series[i]) = y}
      years == {y \in {YearOf(series[i]) : i \in DOMAIN series} : Cardinality(of(y)) >= 2}
  IN [y \in years |->
        LET first == CHOOSE i \in of(y) : \A j \in of(y) : i <= j
            last == CHOOSE i \in of(y) : \A j \in of(y) : j <= i
        IN <<series[first].close, series[last].close>>]

-----------------------------------------------------------------------------
(* Properties                                                              *)

\* The numbers of one page agree, though each is computed by a loop of its
\* own and the years from another series than the rest: a return over some
\* days starts at the last close that is old enough, or at the oldest; none is
\* worse than the deepest fall, which is one that did happen; and the return of
\* the year so far is that of the newest calendar year.
StatsAgree ==
  LET series == UniqueDays
      end == Len(series)
      years == CalendarYearReturns(LatestOfDays)
      deepest == MaxDrawdown(series)
      returns == (UNION {PeriodReturn(series, n) : n \in Periods}) \union YtdReturn(series)
                   \union {years[y] : y \in DOMAIN years}
  IN end >= 2 =>
     /\ \A n \in Periods :
          LET old == {i \in 1..end : series[i].at <= series[end].at - 2 * n}
              start == IF old = {} THEN 1 ELSE Cardinality(old)
          IN PeriodReturn(series, n) = IF start = end THEN {}
                                       ELSE {<<series[start].close, series[end].close>>}
     /\ \A r \in returns : ~Worse(r, deepest)
     /\ \/ deepest = <<1, 1>>
        \/ \E i, j \in 1..end : i < j /\ deepest = <<series[i].close, series[j].close>>
     /\ YtdReturn(series) = {years[y] : y \in {YearOf(series[end])} \intersect DOMAIN years}

=============================================================================
