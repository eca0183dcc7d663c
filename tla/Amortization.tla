------------------------------ MODULE Amortization ------------------------------
(***************************************************************************)
(* The calculator of debts (web/src/lib/tools/amortization.ts): the same   *)
(* debt month by month, once as it was agreed and once with what is paid   *)
(* beside it (computeAmortizationSavings).  A monthly rate is              *)
(* loan.rate / Parts; amounts are multiples of a part of a unit of the     *)
(* currency so small that what is divided here divides evenly: there is    *)
(* one for any finite set of loans (Grain).                                *)
(***************************************************************************)
EXTENDS Integers

CONSTANTS Loans,      \* inputs of the calculator
          Parts,      \* a monthly rate is a natural number of 1/Parts
          Coin,       \* one unit of the currency
          Slack,      \* months a loan may take beyond its term, 360
          CardMonths  \* months a card may take, 600

ASSUME DebtAssumption ==
  /\ Parts \in Nat \ {0} /\ Coin \in Nat \ {0} /\ Slack \in Nat /\ CardMonths \in Nat
  /\ Loans \subseteq [system : {"sac", "price", "card"},
                     strategy : {"reduceTerm", "reduceInstallment"},
                     principal : Nat, term : Nat, rate : Nat, extra : Nat, lump : Nat,
                     lumpMonth : Nat, minimum : Nat, fixed : Nat]

Lower(a, b) == IF a < b THEN a ELSE b
Higher(a, b) == IF a < b THEN b ELSE a

Product(f, n) ==
  LET upTo[k \in 0..n] == IF k = 0 THEN 1 ELSE f[k] * upTo[k - 1]
  IN upTo[n]
Power(x, n) == Product([k \in Nat |-> x], n)

\* What is divided by when k months remain, and what amounts that divide evenly
\* in these and in all later months are multiples of.
Divisor(l, k) ==
  IF l.system = "price" /\ l.rate > 0
  THEN Parts * (Power(Parts + l.rate, k) - Power(Parts, k)) ELSE k
Grain(l, n) == Product([k \in Nat |-> Divisor(l, k)], n)

ASSUME EvenAssumption ==
  \A l \in Loans : l.system # "card" =>
    LET grain == Grain(l, Higher(1, l.term))
    IN \A amount \in {l.principal, l.extra, l.lump} :
         amount = grain * (amount \div grain)

VARIABLES
  loan,         \* AmortizationInput
  month,        \* the months behind
  owed,         \* balance, of both schedules
  installment   \* of a Price loan, of both schedules

debtVars == <<loan, month, owed, installment>>

Schedules == {"baseline", "optimized"}

\* Math.max(1, input.termMonths)
Term == Higher(1, loan.term)

\* calculatePricePayment
PricePayment(debt, months) ==
  LET grown == Power(Parts + loan.rate, months)
  IN IF loan.rate = 0 THEN debt \div months
     ELSE (debt * loan.rate * grown) \div (Parts * (grown - Power(Parts, months)))

DebtInit ==
  /\ loan \in Loans
  /\ month = 0
  /\ owed = [x \in Schedules |-> loan.principal]
  /\ installment = [x \in Schedules |-> IF loan.system = "price"
                                        THEN PricePayment(loan.principal, Term) ELSE 0]

Interest(debt) == (debt * loan.rate) \div Parts

\* The loops end on a rest of half a cent, or on fifty of a card, or after so
\* many months.
Settled(debt) == IF loan.system = "card" THEN 2 * debt <= Coin ELSE debt = 0
LastMonth == IF loan.system = "card" THEN CardMonths ELSE Term + Slack
Open(x) == ~Settled(owed[x]) /\ month < LastMonth

\* readExtraForMonth, of the month that begins
Extra(x) ==
  IF x = "baseline" THEN 0
  ELSE loan.extra + (IF loan.lumpMonth = month + 1 THEN loan.lump ELSE 0)

\* What the month pays off by the schedule alone.
Scheduled(x) ==
  CASE loan.system = "sac" /\ loan.strategy = "reduceTerm" -> loan.principal \div Term
    [] loan.system = "sac" /\ loan.strategy = "reduceInstallment" ->
         owed[x] \div Higher(1, loan.term - month)
    [] loan.system = "price" -> Higher(0, installment[x] - Interest(owed[x]))
    [] loan.system = "card" /\ loan.fixed > 0 -> Higher(loan.fixed - Interest(owed[x]), Coin)
    [] loan.system = "card" /\ loan.fixed = 0 ->
         Higher((owed[x] * loan.minimum) \div 100, Coin)

Left(x) == owed[x] - Lower(owed[x], Lower(owed[x], Scheduled(x)) + Extra(x))

\* Mutant: the month that is paid counts among those that remain.
NextInstallmentLate(x) ==
  IF /\ loan.system = "price" /\ loan.strategy = "reduceInstallment" /\ x = "optimized"
     /\ Extra(x) > 0 \/ loan.lump > 0
  THEN PricePayment(Left(x), Higher(1, loan.term - month))
  ELSE installment[x]

\* What extra was paid lowers the installments that remain.
NextInstallment(x) ==
  IF /\ loan.system = "price" /\ loan.strategy = "reduceInstallment" /\ x = "optimized"
     /\ Extra(x) > 0 \/ loan.lump > 0
  THEN PricePayment(Left(x), Higher(1, loan.term - month - 1))
  ELSE installment[x]

\* One turn of computeSacAmortization, computePriceAmortization or
\* computeCreditCardAmortization.
PayMonth ==
  /\ \E x \in Schedules : Open(x)
  /\ month' = month + 1
  /\ owed' = [x \in Schedules |-> IF Open(x) THEN Left(x) ELSE owed[x]]
  /\ installment' = [x \in Schedules |-> IF Open(x) THEN NextInstallment(x)
                                                     ELSE installment[x]]
  /\ UNCHANGED loan

DebtSpec == DebtInit /\ [][PayMonth]_debtVars

-----------------------------------------------------------------------------
(* Properties                                                              *)

\* Whatever is paid beside a loan, in whatever month and of whatever system, the
\* debt is never higher for it than it would have been, for as long as there is
\* one - so the interest and the months that the calculator says are saved never
\* are a loss it hides by Math.max - and it ends with its term. A card's may
\* outlive the schedule, and its rests, of up to fifty cents, compare as they may.
ExtrasNeverCost ==
  /\ Settled(owed["optimized"]) \/ owed["optimized"] <= owed["baseline"]
  /\ loan.system # "card" => month <= Term
  /\ (\A x \in Schedules : ~Open(x)) /\ loan.system # "card"
       => owed = [x \in Schedules |-> 0]

=============================================================================
