----------------------------- MODULE MarketGateway -----------------------------
(***************************************************************************)
(* The market gateway of the web tier (web/src/lib/market/                 *)
(* market-data-gateway.ts): chains of providers behind the live desk and   *)
(* the sector books, the monthly budget of each provider                   *)
(* (market-provider-budget.ts, distributed-market-provider-budget.ts), and *)
(* what the adapters of BRAPI, Yahoo and CoinGecko may answer.             *)
(*                                                                         *)
(* A chain belongs to an instance and a task; the cache in front of the    *)
(* gateway (module TtlCache) keeps one per key.  A book is the number of   *)
(* rows it holds and whether it calls itself partial.  Simulated quotes    *)
(* are switched off, as they are by default.                               *)
(***************************************************************************)
EXTENDS Integers, FiniteSets

CONSTANTS Instances, \* server instances
          Serves,    \* of every instance: the tasks it is asked for
          Enabled,   \* providers that are switched on
          Limits,    \* of every provider: its soft monthly limit, 0 for none
          Cap,       \* brapiFetchSymbolCap()
          Universe,  \* of every task: how many symbols it asks for
          MaxMonth,  \* bound: the last month
          MaxUses    \* bound: charged answers of a provider in a month

Providers == {"brapi", "coingecko", "yahoo", "financial_modeling_prep",
              "finnhub", "marketstack", "alpha_vantage"}
DeskTasks == {"br_equities_snapshot", "intl_equities_snapshot", "crypto_snapshot"}
BookTasks == {"sector_book_br", "sector_book_intl", "crypto_sector_book"}
Tasks == DeskTasks \union BookTasks

ASSUME GatewayAssumption ==
  /\ IsFiniteSet(Instances)
  /\ Serves \in [Instances -> SUBSET Tasks]
  /\ Enabled \subseteq Providers
  /\ Limits \in [Providers -> Nat]
  /\ Cap \in Nat \ {0} /\ Universe \in [Tasks -> Nat \ {0}]
  /\ MaxMonth \in Nat /\ MaxUses \in Nat

TASK_PRIORITIES ==
  [t \in Tasks |->
     CASE t = "br_equities_snapshot" ->
            <<"brapi", "financial_modeling_prep", "alpha_vantage">>
       [] t = "sector_book_br" -> <<"brapi", "financial_modeling_prep">>
       [] t \in {"intl_equities_snapshot", "sector_book_intl"} ->
            <<"yahoo", "finnhub", "marketstack", "alpha_vantage">>
       [] OTHER -> <<"coingecko">>]

\* The executors each loader hands to the chain.
Executors ==
  [t \in Tasks |->
     CASE t \in {"br_equities_snapshot", "sector_book_br"} -> {"brapi"}
       [] t \in {"intl_equities_snapshot", "sector_book_intl"} ->
            {"yahoo", "financial_modeling_prep"}
       [] OTHER -> {"coingecko"}]

\* getMarketTaskProviders, less the providers the loader has no executor for:
\* their places among the priorities.
Queue(t) ==
  {n \in DOMAIN TASK_PRIORITIES[t] :
     TASK_PRIORITIES[t][n] \in Enabled \intersect Executors[t]}

\* A chain serves one task of one instance.
Chains == {c \in Instances \X Tasks : c[2] \in Serves[c[1]]}
\* The chains that may ask a provider.
ChainsOf(p) == {c \in Chains : p \in Executors[c[2]]}
Limited == {p \in Providers : Limits[p] > 0}

VARIABLES
  database,  \* how the database behaves: up, down or flaky
  month,     \* utcMonthKey()
  shared,    \* of every limited provider: this month's row
  local,     \* of every instance and limited provider: this month's entry
  lost,      \* of every limited provider: increments the database missed
  answered,  \* of every limited provider: answers with rows this month
  chain,     \* of every chain: how far executeProviderChain is
  answer,    \* of every chain: the book its caller has got, None before
  desk       \* of every instance: the live desk, idle or loading, what it shows

budget == <<shared, local, lost, answered>>
gatewayVars == <<database, month, budget, chain, answer, desk>>

None == [rows |-> -1, partial |-> FALSE]
Book(rows, partial) == [rows |-> rows, partial |-> partial]
Nothing == Book(0, TRUE)

Unread == -1
At(pc, left) == [pc |-> pc, left |-> left, read |-> Unread, month |-> 0,
                 book |-> None]
Resting == At("idle", {})

InstanceOf(c) == c[1]
TaskOf(c) == c[2]
Foremost(places) == CHOOSE n \in places : \A m \in places : n <= m
Provider(c) == TASK_PRIORITIES[TaskOf(c)][Foremost(chain[c].left)]

\* resolveQuotesDataMode: a desk without any row calls itself degraded.
Mode(rows) == IF rows = 0 THEN "degraded" ELSE "live"

GatewayInit ==
  /\ database \in {"up", "down", "flaky"}
  /\ month = 0
  /\ shared = [p \in Limited |-> 0]
  /\ local = [i \in Instances |-> [p \in Limited |-> 0]]
  /\ lost = [p \in Limited |-> 0]
  /\ answered = [p \in Limited |-> 0]
  /\ chain = [c \in Chains |-> Resting]
  /\ answer = [c \in Chains |-> None]
  /\ desk = [i \in Instances |-> [pc |-> "idle", mode |-> "degraded", partial |-> TRUE]]

MayAnswer == database \in {"up", "flaky"}
MayFail == database \in {"down", "flaky"}

-----------------------------------------------------------------------------
(* The adapters                                                            *)

LesserOf(a, b) == IF a < b THEN a ELSE b

\* fetchBrapiQuotesForSymbols: at most Cap symbols are asked for; whatever
\* requests fail, one by one or in waves, are missing from the book, and a
\* failure in the last pass empties it.  Partial says that some of the capped
\* symbols are missing.  (With a token: without one the desk asks in two parts
\* and compares with the whole list.)
BrapiBooks(asked) ==
  LET capped == LesserOf(asked, Cap)
  IN {Nothing} \union {Book(n, n < capped) : n \in 1..capped}

\* fetchYahooQuotesForSymbols, batches of twenty that may fail apart; FMP's
\* chunks fail and align alike.
YahooBooks(asked) == {Nothing} \union {Book(n, n < asked) : n \in 1..asked}

\* fetchTopCoinGeckoMarketsBrl: pages that may fail apart; a short last page
\* is no reason to call the book partial.
TopCoinBooks(asked) == {Book(n, partial) : n \in 1..asked, partial \in BOOLEAN}

\* fetchCoinGeckoQuotesBrlForAssets: every asset has a row, priced or not.
SectorCoinBooks(asked) == {Book(asked, partial) : partial \in BOOLEAN}

Books(c) ==
  LET asked == Universe[TaskOf(c)] IN
  CASE Provider(c) = "brapi" -> BrapiBooks(asked)
    [] Provider(c) = "coingecko" ->
         IF TaskOf(c) = "crypto_snapshot" THEN TopCoinBooks(asked)
                                          ELSE SectorCoinBooks(asked)
    [] OTHER -> YahooBooks(asked)

\* CoinGecko's adapters give up with an error after their second attempt; the
\* others turn their failures into an empty book.
MayThrow(p) == p = "coingecko"

-----------------------------------------------------------------------------
(* executeProviderChain                                                    *)

Limit(c) == Limits[Provider(c)]

\* The chain goes on with the next provider.
Skip(c) ==
  chain' = [chain EXCEPT ![c] =
    At("choosing", chain[c].left \ {Foremost(chain[c].left)})]

\* Somebody still waits for this chain: a live desk may have stopped.
Awaited(c) ==
  /\ answer[c] = None
  /\ TaskOf(c) \in DeskTasks => desk[InstanceOf(c)].pc = "loading"

\* Mutant: the sector book passes on what the adapter says of itself.
FinishTrusting(c, book) ==
  /\ chain' = [chain EXCEPT ![c] = Resting]
  /\ answer' = IF Awaited(c) THEN [answer EXCEPT ![c] = book] ELSE answer

\* The chain ends.  The BRAPI sector book is told partial by its own size.
Finish(c, book) ==
  LET told == IF TaskOf(c) = "sector_book_br"
              THEN Book(book.rows, book.rows < Universe[TaskOf(c)])
              ELSE book
  IN /\ chain' = [chain EXCEPT ![c] = Resting]
     /\ answer' = IF Awaited(c) THEN [answer EXCEPT ![c] = told] ELSE answer

OpenBook(c) ==
  /\ TaskOf(c) \in BookTasks
  /\ chain[c] = Resting
  /\ chain' = [chain EXCEPT ![c] = At("choosing", Queue(TaskOf(c)))]
  /\ answer' = [answer EXCEPT ![c] = None]
  /\ UNCHANGED <<database, month, budget, desk>>

\* canUseMarketProvider, up to its read of the shared counter.
ReadUsage(c) ==
  /\ chain[c].pc = "choosing" /\ chain[c].left # {}
  /\ LET p == Provider(c) IN
     \/ /\ p \notin Limited
        /\ chain' = [chain EXCEPT ![c].pc = "asking"]
     \/ /\ p \in Limited /\ MayAnswer
        /\ chain' = [chain EXCEPT ![c].pc = "deciding", ![c].read = shared[p]]
     \/ /\ p \in Limited /\ MayFail
        /\ local[InstanceOf(c)][p] < Limits[p]
        /\ chain' = [chain EXCEPT ![c].pc = "asking"]
     \/ /\ p \in Limited /\ MayFail
        /\ local[InstanceOf(c)][p] >= Limits[p]
        /\ Skip(c)
  /\ UNCHANGED <<database, month, budget, answer, desk>>

\* Mutant: the limit itself is still allowed.
DecideAtLimit(c) ==
  /\ chain[c].pc = "deciding"
  /\ local' = [local EXCEPT ![InstanceOf(c)][Provider(c)] = chain[c].read]
  /\ \/ /\ chain[c].read <= Limit(c)
        /\ chain' = [chain EXCEPT ![c].pc = "asking"]
     \/ /\ chain[c].read > Limit(c)
        /\ Skip(c)
  /\ UNCHANGED <<database, month, shared, lost, answered, answer, desk>>

\* The read is back: it replaces the entry in memory, and decides.
Decide(c) ==
  /\ chain[c].pc = "deciding"
  /\ local' = [local EXCEPT ![InstanceOf(c)][Provider(c)] = chain[c].read]
  /\ \/ /\ chain[c].read < Limit(c)
        /\ chain' = [chain EXCEPT ![c].pc = "asking"]
     \/ /\ chain[c].read >= Limit(c)
        /\ Skip(c)
  /\ UNCHANGED <<database, month, shared, lost, answered, answer, desk>>

\* The provider has answered with rows: memory is charged at once, the shared
\* row is asked to.
Deliver(c) ==
  /\ chain[c].pc = "asking"
  /\ \E book \in Books(c) :
       /\ book.rows > 0
       /\ chain' = [chain EXCEPT ![c].pc = "noting", ![c].month = month,
                                 ![c].book = book]
  /\ LET p == Provider(c) IN
     \/ /\ p \in Limited /\ answered[p] < MaxUses
        /\ local' = [local EXCEPT ![InstanceOf(c)][p] = @ + 1]
        /\ answered' = [answered EXCEPT ![p] = @ + 1]
     \/ p \notin Limited /\ UNCHANGED <<local, answered>>
  /\ UNCHANGED <<database, month, shared, lost, answer, desk>>

\* The provider has nothing, or fails; that costs none of the budget.
Disappoint(c) ==
  /\ chain[c].pc = "asking"
  /\ Nothing \in Books(c) \/ MayThrow(Provider(c))
  /\ Skip(c)
  /\ UNCHANGED <<database, month, budget, answer, desk>>

\* Mutant: a chain that nobody waits for any longer does not charge its use.
ChargeAwaited(c) ==
  /\ chain[c].pc = "noting"
  /\ LET p == Provider(c)
         mine == p \in Limited /\ chain[c].month = month /\ Awaited(c)
     IN \/ /\ mine /\ MayAnswer
           /\ shared' = [shared EXCEPT ![p] = @ + 1]
           /\ UNCHANGED lost
        \/ /\ mine /\ MayFail
           /\ lost' = [lost EXCEPT ![p] = @ + 1]
           /\ UNCHANGED shared
        \/ ~mine /\ UNCHANGED <<shared, lost>>
  /\ Finish(c, chain[c].book)
  /\ UNCHANGED <<database, month, local, answered, desk>>

\* incrementDistributedProviderUsage: the row of the month in which the
\* answer came; a failure is swallowed.
Charge(c) ==
  /\ chain[c].pc = "noting"
  /\ LET p == Provider(c)
         mine == p \in Limited /\ chain[c].month = month
     IN \/ /\ mine /\ MayAnswer
           /\ shared' = [shared EXCEPT ![p] = @ + 1]
           /\ UNCHANGED lost
        \/ /\ mine /\ MayFail
           /\ lost' = [lost EXCEPT ![p] = @ + 1]
           /\ UNCHANGED shared
        \/ ~mine /\ UNCHANGED <<shared, lost>>
  /\ Finish(c, chain[c].book)
  /\ UNCHANGED <<database, month, local, answered, desk>>

\* No provider is left: resolveMarketProviderFallback gives an empty book.
FallBack(c) ==
  /\ chain[c].pc = "choosing" /\ chain[c].left = {}
  /\ Finish(c, Nothing)
  /\ UNCHANGED <<database, month, budget, desk>>

ChainStep(c) ==
  \/ ReadUsage(c) \/ Decide(c) \/ Deliver(c) \/ Disappoint(c) \/ Charge(c)
  \/ FallBack(c)

-----------------------------------------------------------------------------
(* loadCachedQuotesPayload                                                 *)

DeskChains(i) == {<<i, t>> : t \in DeskTasks}

\* The three snapshots are started together.
OpenDesk(i) ==
  /\ DeskChains(i) \subseteq Chains
  /\ desk[i].pc = "idle"
  /\ \A c \in DeskChains(i) : chain[c] = Resting
  /\ desk' = [desk EXCEPT ![i].pc = "loading"]
  /\ chain' = [c \in Chains |-> IF c \in DeskChains(i)
                                THEN At("choosing", Queue(TaskOf(c))) ELSE chain[c]]
  /\ UNCHANGED <<database, month, budget, answer>>

\* Mutant: the timer runs only while BRAPI itself is being asked.
StopWaitingFetch(i) ==
  LET c == <<i, "br_equities_snapshot">> IN
  /\ desk[i].pc = "loading"
  /\ answer[c] = None /\ chain[c].pc = "asking"
  /\ answer' = [answer EXCEPT ![c] = Nothing]
  /\ UNCHANGED <<database, month, budget, chain, desk>>

\* loadBrEquitiesWithBudget: after 45 s the desk goes on without BRAPI, whose
\* chain runs on.
StopWaiting(i) ==
  LET c == <<i, "br_equities_snapshot">> IN
  /\ desk[i].pc = "loading"
  /\ answer[c] = None
  /\ answer' = [answer EXCEPT ![c] = Nothing]
  /\ UNCHANGED <<database, month, budget, chain, desk>>

\* Promise.all: the desk has its three parts.
Publish(i) ==
  /\ desk[i].pc = "loading"
  /\ \A c \in DeskChains(i) : answer[c] # None
  /\ LET br == answer[<<i, "br_equities_snapshot">>]
         intl == answer[<<i, "intl_equities_snapshot">>]
         crypto == answer[<<i, "crypto_snapshot">>]
     IN desk' = [desk EXCEPT ![i] =
                   [pc |-> "idle",
                    mode |-> Mode(br.rows + intl.rows + crypto.rows),
                    partial |-> br.partial \/ intl.partial]]
  /\ answer' = [c \in Chains |-> IF c \in DeskChains(i) THEN None ELSE answer[c]]
  /\ UNCHANGED <<database, month, budget, chain>>

\* The month ends: the rows and entries of the new one start at nothing.
NewMonth ==
  /\ month < MaxMonth
  /\ month' = month + 1
  /\ shared' = [p \in Limited |-> 0]
  /\ local' = [i \in Instances |-> [p \in Limited |-> 0]]
  /\ lost' = [p \in Limited |-> 0]
  /\ answered' = [p \in Limited |-> 0]
  /\ UNCHANGED <<database, chain, answer, desk>>

GatewayNext ==
  \/ \E c \in Chains : OpenBook(c) \/ ChainStep(c)
  \/ \E i \in Instances : OpenDesk(i) \/ StopWaiting(i) \/ Publish(i)
  \/ NewMonth

GatewaySpec == GatewayInit /\ [][GatewayNext]_gatewayVars

\* Node resumes continuations and fires timers, and every fetch of an adapter
\* times out (fetchWithTimeout).  Nothing is assumed of the chain behind the
\* desk's timer.
GatewayFairness ==
  \A i \in Instances : DeskTasks \subseteq Serves[i] =>
    /\ \A t \in DeskTasks \ {"br_equities_snapshot"} : WF_gatewayVars(ChainStep(<<i, t>>))
    /\ WF_gatewayVars(StopWaiting(i) \/ Publish(i))

FairGatewaySpec == GatewaySpec /\ GatewayFairness

-----------------------------------------------------------------------------
(* Properties                                                              *)

\* The soft cap is soft by what is in flight and no more: while the database
\* answers, the month's answers exceed one less than the limit by at most one
\* for each chain that asks it; while it is down, each instance may use up the
\* limit again.
CapHolds ==
  \A p \in Limited :
    /\ database = "up" =>
         answered[p] <= Limits[p] - 1 + Cardinality(ChainsOf(p))
    /\ database = "down" =>
         answered[p] <= Cardinality(Instances) * (Limits[p] - 1)
                          + Cardinality(ChainsOf(p))

\* Every answer of the month is charged to the shared row or lost with a
\* failing write once its chain has ended, the chains that outlived the desk's
\* timer included.
AnswersAreCharged ==
  \A p \in Limited :
    answered[p] = shared[p] + lost[p]
      + Cardinality({c \in Chains : /\ chain[c].pc = "noting"
                                    /\ Provider(c) = p
                                    /\ chain[c].month = month})

\* A book that does not call itself partial holds all of its universe: neither
\* a failed wave nor the cap on symbols nor the desk's timer passes for a
\* complete answer.  (A desk of more symbols than the cap would.)
BooksTellGaps ==
  \A c \in Chains :
    LET t == TaskOf(c) IN
    /\ answer[c] # None /\ ~answer[c].partial
    /\ t # "crypto_snapshot"
    /\ t = "br_equities_snapshot" => Universe[t] <= Cap
    => answer[c].rows = Universe[t]

\* The live desk is answered even if BRAPI never is.
DesksAnswered ==
  \A i \in Instances :
    DeskTasks \subseteq Serves[i] => (desk[i].pc = "loading" ~> desk[i].pc = "idle")

=============================================================================
