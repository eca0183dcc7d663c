------------------------------ MODULE MarketProofs ------------------------------
(***************************************************************************)
(* What the server's side of the market promises, for any number of        *)
(* instances.                                                              *)
(*                                                                         *)
(* The rate limit, for any calls and any window: what an open window has   *)
(* let through never exceeds what its row and its buckets have counted,    *)
(* and neither is forgotten before it ends.                                *)
(*                                                                         *)
(* The gateway, for any chains, budgets and providers switched on: the     *)
(* chains that have passed a provider's check and not yet used it are kept *)
(* below what its counter leaves, and an answer is charged before its      *)
(* chain ends.  A desk waits for a chain only while that chain runs, and a *)
(* chain with one provider to ask ends in five steps, so it is answered as *)
(* long as those chains and the desk's timer go on (their fairness, with   *)
(* the guards spelled out).                                                *)
(*                                                                         *)
(* The prices of an asset, for any calendar and points: the numbers of one *)
(* page agree, though each is computed by a loop of its own.               *)
(*                                                                         *)
(* The scores of a stock, for any dossiers: the seal and the panel of one  *)
(* page agree, and a better company is not scored lower, as long as every  *)
(* ratio is read as it is meant.                                           *)
(***************************************************************************)
EXTENDS RateLimit, MarketGateway, PriceHistory, Analytica, FiniteSetTheorems,
        WellFoundedInduction, TLAPS

-----------------------------------------------------------------------------
(* The rate limit                                                          *)

\* A call in flight asked in a window that has begun.
CallsAreTimely ==
  \A c \in Calls : call[c].pc # "idle" => Begun(call[c].window)

\* The row of an open window has counted every call it let through.
RowsRemember ==
  \A w \in Windows : Open(w) => byRow[w] <= row[w] /\ byRow[w] <= Max

\* So has each bucket, and it lasts as long as the window.
BucketsRemember ==
  \A w \in Windows, i \in Servers : Open(w) =>
    /\ byMemory[w][i] <= memory[i][w].count
    /\ memory[i][w].count <= Max
    /\ memory[i][w] = NoBucket \/ memory[i][w].resetAt >= WindowEndsAt(w)
    /\ failClosed => byMemory[w][i] = 0

LimitInv == LimitTypeOK /\ CallsAreTimely /\ RowsRemember /\ BucketsRemember

LEMMA WindowTimes ==
  ASSUME NEW w \in Windows
  PROVE  WindowStart(w) \in Nat /\ WindowEndsAt(w) \in Nat
         /\ WindowStart(w) <= WindowEndsAt(w)
BY RateLimitAssumption, SMT DEF Windows, WindowStart, WindowEndsAt

LEMMA CallFields ==
  ASSUME LimitTypeOK, NEW c \in Calls, call[c].pc # "idle"
  PROVE  /\ call[c] \in [pc : {"asking", "cleaning"}, window : Windows,
                         server : Servers]
         /\ call[c].window \in Windows /\ call[c].server \in Servers
BY DEF LimitTypeOK, CallRecords

LEMMA LimitInitInv == LimitInit => LimitInv
<1> SUFFICES ASSUME LimitInit PROVE LimitInv
  OBVIOUS
<1>1. LimitTypeOK
  BY RateLimitAssumption
  DEF LimitInit, LimitTypeOK, CallRecords, Idle, Buckets, NoBucket, Windows
<1>2. CallsAreTimely
  BY DEF LimitInit, CallsAreTimely, Idle
<1>3. RowsRemember
  BY RateLimitAssumption DEF LimitInit, RowsRemember
<1>4. BucketsRemember
  BY RateLimitAssumption DEF LimitInit, BucketsRemember, NoBucket
<1> QED
  BY <1>1, <1>2, <1>3, <1>4 DEF LimitInv

\* A step that leaves the table, the memory, the records and the clock alone
\* keeps what they remember.
LEMMA LimitKept ==
  ASSUME LimitInv,
         UNCHANGED <<failClosed, clock, row, memory, byRow, byMemory>>
  PROVE  RowsRemember' /\ BucketsRemember'
BY DEF LimitInv, RowsRemember, BucketsRemember, Open, WindowStart, WindowEndsAt

LEMMA AskKeeps ==
  ASSUME LimitInv, NEW c \in Calls, NEW i \in Servers, Ask(c, i)
  PROVE  LimitInv'
<1>1. LimitTypeOK /\ CallsAreTimely
  BY DEF LimitInv
<1>2. PICK w \in Windows :
        /\ Begun(w)
        /\ call' = [call EXCEPT ![c] =
                      [pc |-> "asking", window |-> w, server |-> i]]
  BY DEF Ask
<1>3. UNCHANGED <<failClosed, clock, row, memory, byRow, byMemory>>
  BY DEF Ask
<1>4. LimitTypeOK'
  BY <1>1, <1>2, <1>3 DEF LimitTypeOK, CallRecords
<1>5. CallsAreTimely'
  BY <1>1, <1>2, <1>3 DEF CallsAreTimely, Begun, WindowStart, LimitTypeOK
<1> QED
  BY <1>3, <1>4, <1>5, LimitKept DEF LimitInv

LEMMA CountRowKeeps ==
  ASSUME LimitInv, NEW c \in Calls, CountRow(c)
  PROVE  LimitInv'
<1> DEFINE w == call[c].window
<1>1. LimitTypeOK /\ CallsAreTimely /\ RowsRemember /\ BucketsRemember
  BY DEF LimitInv
<1>2. call[c].pc = "asking" /\ w \in Windows /\ call[c].server \in Servers
  BY <1>1, CallFields DEF CountRow
<1>3. UNCHANGED <<failClosed, clock, memory, byMemory>>
  BY DEF CountRow
<1>4. row' = [row EXCEPT ![w] = @ + 1]
  BY DEF CountRow
<1>5. byRow' = [byRow EXCEPT ![w] =
                 IF row'[w] <= Max /\ Open(w) THEN @ + 1 ELSE @]
  BY DEF CountRow
<1>6. \E next \in CallRecords :
        /\ call' = [call EXCEPT ![c] = next]
        /\ next.pc # "idle" => next.window = call[c].window
  <2>1. CASE call' = [call EXCEPT ![c] = Idle]
    <3>1. Idle \in CallRecords /\ Idle.pc = "idle"
      BY DEF Idle, CallRecords
    <3> QED
      BY <2>1, <3>1
  <2>2. CASE call' = [call EXCEPT ![c].pc = "cleaning"]
    <3>1. call[c] \in [pc : {"asking", "cleaning"}, window : Windows,
                       server : Servers]
      BY <1>1, <1>2, CallFields
    <3> DEFINE next == [call[c] EXCEPT !.pc = "cleaning"]
    <3>2. next \in CallRecords /\ next.window = call[c].window
      BY <3>1 DEF CallRecords
    <3>3. call' = [call EXCEPT ![c] = next]
      BY <2>2
    <3> QED
      BY <3>2, <3>3
  <2> QED
    BY <2>1, <2>2 DEF CountRow
<1> HIDE DEF w
<1>7. LimitTypeOK'
  <2>1. row' \in [Windows -> Nat] /\ byRow' \in [Windows -> Nat]
    BY <1>1, <1>2, <1>4, <1>5 DEF LimitTypeOK
  <2>2. call' \in [Calls -> CallRecords]
    BY <1>1, <1>6 DEF LimitTypeOK
  <2> QED
    BY <1>1, <1>3, <2>1, <2>2 DEF LimitTypeOK
<1>8. CallsAreTimely'
  <2> SUFFICES ASSUME NEW d \in Calls, call'[d].pc # "idle"
               PROVE  WindowStart(call'[d].window) <= clock'
    BY DEF CallsAreTimely, Begun, WindowStart
  <2>1. call[d].pc # "idle" /\ call'[d].window = call[d].window
    BY <1>1, <1>2, <1>6 DEF LimitTypeOK
  <2> QED
    BY <1>1, <1>3, <2>1 DEF CallsAreTimely, Begun
<1>9. RowsRemember'
  <2> SUFFICES ASSUME NEW v \in Windows, Open(v)'
               PROVE  byRow'[v] <= row'[v] /\ byRow'[v] <= Max
    BY DEF RowsRemember
  <2>1. Open(v) /\ byRow[v] <= row[v] /\ byRow[v] <= Max
    BY <1>1, <1>3 DEF RowsRemember, Open, WindowEndsAt, WindowStart
  <2>2. row \in [Windows -> Nat] /\ byRow \in [Windows -> Nat] /\ Max \in Nat
    BY <1>1, RateLimitAssumption DEF LimitTypeOK
  <2> QED
    BY <1>2, <1>4, <1>5, <2>1, <2>2
<1>10. BucketsRemember'
  BY <1>1, <1>3 DEF BucketsRemember, Open, WindowEndsAt, WindowStart
<1> QED
  BY <1>7, <1>8, <1>9, <1>10 DEF LimitInv

LEMMA CleanUpKeeps ==
  ASSUME LimitInv, NEW c \in Calls, CleanUp(c)
  PROVE  LimitInv'
<1>1. LimitTypeOK /\ CallsAreTimely /\ RowsRemember /\ BucketsRemember
  BY DEF LimitInv
<1>2. UNCHANGED <<failClosed, clock, memory, byRow, byMemory>>
  BY DEF CleanUp
<1>3. call' = [call EXCEPT ![c] = Idle]
  BY DEF CleanUp
<1>4. \/ row' = [w \in Windows |-> IF WindowEndsAt(w) < clock THEN 0 ELSE row[w]]
      \/ row' = row
  BY DEF CleanUp
<1>5. LimitTypeOK'
  <2>1. row' \in [Windows -> Nat]
    BY <1>1, <1>4 DEF LimitTypeOK
  <2>2. call' \in [Calls -> CallRecords]
    BY <1>1, <1>3 DEF LimitTypeOK, CallRecords, Idle
  <2> QED
    BY <1>1, <1>2, <2>1, <2>2 DEF LimitTypeOK
<1>6. CallsAreTimely'
  BY <1>1, <1>2, <1>3 DEF CallsAreTimely, Begun, WindowStart, LimitTypeOK, Idle
<1>7. RowsRemember'
  <2> SUFFICES ASSUME NEW v \in Windows, Open(v)'
               PROVE  byRow'[v] <= row'[v] /\ byRow'[v] <= Max
    BY DEF RowsRemember
  <2>1. Open(v)
    BY <1>2 DEF Open, WindowEndsAt, WindowStart
  <2>2. clock \in Nat /\ WindowEndsAt(v) \in Nat
    BY <1>1, WindowTimes DEF LimitTypeOK
  <2>3. row'[v] = row[v]
    BY <1>4, <2>1, <2>2 DEF Open
  <2> QED
    BY <1>1, <1>2, <2>1, <2>3 DEF RowsRemember
<1>8. BucketsRemember'
  BY <1>1, <1>2 DEF BucketsRemember, Open, WindowEndsAt, WindowStart
<1> QED
  BY <1>5, <1>6, <1>7, <1>8 DEF LimitInv

\* What the memory of one instance does with a call for a window that has
\* begun.
LEMMA RememberKeeps ==
  ASSUME LimitTypeOK, BucketsRemember, ~failClosed, UNCHANGED <<failClosed, clock>>,
         NEW i \in Servers, NEW w \in Windows, Begun(w), Remember(i, w)
  PROVE  /\ memory' \in [Servers -> [Windows -> Buckets]]
         /\ byMemory' \in [Windows -> [Servers -> Nat]]
         /\ BucketsRemember'
<1>1. /\ memory \in [Servers -> [Windows -> Buckets]]
      /\ byMemory \in [Windows -> [Servers -> Nat]]
      /\ clock \in Nat /\ Max \in Nat \ {0} /\ Window \in Nat
  BY RateLimitAssumption DEF LimitTypeOK
<1>2. memory[i][w] \in Buckets /\ byMemory[w][i] \in Nat
  BY <1>1
<1>3. CASE clock >= memory[i][w].resetAt
  <2>1. /\ memory' = [memory EXCEPT ![i][w] =
                        [count |-> 1, resetAt |-> clock + Window]]
        /\ byMemory' = [byMemory EXCEPT ![w][i] = IF Open(w) THEN @ + 1 ELSE @]
    BY <1>1, <1>2, <1>3 DEF Remember, Buckets
  <2>2. /\ memory' \in [Servers -> [Windows -> Buckets]]
        /\ byMemory' \in [Windows -> [Servers -> Nat]]
    BY <1>1, <2>1 DEF Buckets
  <2>3. BucketsRemember'
    <3> SUFFICES ASSUME NEW v \in Windows, NEW j \in Servers, Open(v)'
                 PROVE  /\ byMemory'[v][j] <= memory'[j][v].count
                        /\ memory'[j][v].count <= Max
                        /\ \/ memory'[j][v] = NoBucket
                           \/ memory'[j][v].resetAt >= WindowEndsAt(v)
                        /\ failClosed' => byMemory'[v][j] = 0
      BY DEF BucketsRemember, WindowEndsAt, WindowStart
    <3>1. /\ Open(v)
          /\ byMemory[v][j] <= memory[j][v].count
          /\ memory[j][v].count <= Max
          /\ memory[j][v] = NoBucket \/ memory[j][v].resetAt >= WindowEndsAt(v)
      BY DEF BucketsRemember, Open, WindowEndsAt, WindowStart
    <3>2. CASE v = w /\ j = i
      <4>1. WindowEndsAt(w) \in Nat /\ WindowStart(w) \in Nat
            /\ WindowEndsAt(w) = WindowStart(w) + Window
        BY WindowTimes DEF WindowEndsAt
      <4>2. clock < WindowEndsAt(w) /\ WindowStart(w) <= clock
        BY <3>1, <3>2 DEF Open, Begun
      <4>3. memory[i][w].count = 0
        BY <1>1, <1>2, <1>3, <3>1, <3>2, <4>1, <4>2 DEF Buckets, NoBucket
      <4>4. byMemory[w][i] = 0
        BY <1>2, <3>1, <3>2, <4>3 DEF Buckets
      <4>5. /\ memory'[i][w] = [count |-> 1, resetAt |-> clock + Window]
            /\ byMemory'[w][i] = 1
        BY <1>1, <2>1, <3>1, <3>2, <4>4
      <4> QED
        BY <1>1, <3>2, <4>1, <4>2, <4>5
    <3>3. CASE ~(v = w /\ j = i)
      <4>1. memory'[j][v] = memory[j][v] /\ byMemory'[v][j] = byMemory[v][j]
        BY <1>1, <2>1, <3>3
      <4> QED
        BY <3>1, <4>1
    <3> QED
      BY <3>2, <3>3
  <2> QED
    BY <2>2, <2>3
<1>4. CASE clock < memory[i][w].resetAt /\ memory[i][w].count < Max
  <2>1. /\ memory' = [memory EXCEPT ![i][w].count = @ + 1]
        /\ byMemory' = [byMemory EXCEPT ![w][i] = IF Open(w) THEN @ + 1 ELSE @]
    BY <1>1, <1>2, <1>4 DEF Remember, Buckets
  <2>2. /\ memory' \in [Servers -> [Windows -> Buckets]]
        /\ byMemory' \in [Windows -> [Servers -> Nat]]
    <3>1. [memory[i][w] EXCEPT !.count = @ + 1] \in Buckets
      BY <1>2 DEF Buckets
    <3>2. memory' = [memory EXCEPT ![i] =
                      [memory[i] EXCEPT ![w] = [memory[i][w] EXCEPT !.count = @ + 1]]]
      BY <2>1
    <3> QED
      BY <1>1, <1>2, <2>1, <3>1, <3>2
  <2>3. BucketsRemember'
    <3> SUFFICES ASSUME NEW v \in Windows, NEW j \in Servers, Open(v)'
                 PROVE  /\ byMemory'[v][j] <= memory'[j][v].count
                        /\ memory'[j][v].count <= Max
                        /\ \/ memory'[j][v] = NoBucket
                           \/ memory'[j][v].resetAt >= WindowEndsAt(v)
                        /\ failClosed' => byMemory'[v][j] = 0
      BY DEF BucketsRemember, WindowEndsAt, WindowStart
    <3>1. /\ Open(v)
          /\ byMemory[v][j] <= memory[j][v].count
          /\ memory[j][v].count <= Max
          /\ memory[j][v] = NoBucket \/ memory[j][v].resetAt >= WindowEndsAt(v)
      BY DEF BucketsRemember, Open, WindowEndsAt, WindowStart
    <3>2. CASE v = w /\ j = i
      <4>1. WindowEndsAt(w) \in Nat
        BY WindowTimes
      <4>2. /\ memory'[i][w].count = memory[i][w].count + 1
            /\ memory'[i][w].resetAt = memory[i][w].resetAt
            /\ byMemory'[w][i] <= byMemory[w][i] + 1
        BY <1>1, <1>2, <2>1, <3>1, <3>2 DEF Buckets
      <4>3. byMemory'[w][i] \in Nat
        BY <2>2
      <4> QED
        BY <1>1, <1>2, <1>4, <3>1, <3>2, <4>1, <4>2, <4>3 DEF Buckets, NoBucket
    <3>3. CASE ~(v = w /\ j = i)
      <4>1. memory'[j][v] = memory[j][v] /\ byMemory'[v][j] = byMemory[v][j]
        BY <1>1, <2>1, <3>3
      <4> QED
        BY <3>1, <4>1
    <3> QED
      BY <3>2, <3>3
  <2> QED
    BY <2>2, <2>3
<1>5. CASE clock < memory[i][w].resetAt /\ memory[i][w].count >= Max
  <2>1. UNCHANGED <<memory, byMemory>>
    BY <1>1, <1>2, <1>5 DEF Remember, Buckets
  <2> QED
    BY <1>1, <2>1 DEF BucketsRemember, Open, WindowEndsAt, WindowStart
<1> QED
  BY <1>1, <1>2, <1>3, <1>4, <1>5 DEF Buckets

LEMMA DatabaseFailsKeeps ==
  ASSUME LimitInv, NEW c \in Calls, DatabaseFails(c)
  PROVE  LimitInv'
<1>1. LimitTypeOK /\ CallsAreTimely /\ RowsRemember /\ BucketsRemember
  BY DEF LimitInv
<1>2. PICK w \in Windows, i \in Servers :
        /\ Begun(w)
        /\ row' = row \/ row' = [row EXCEPT ![w] = @ + 1]
        /\ \/ failClosed /\ UNCHANGED <<memory, byMemory>>
           \/ ~failClosed /\ Remember(i, w)
  BY <1>1, CallFields DEF DatabaseFails, CallsAreTimely
<1>3. UNCHANGED <<failClosed, clock, byRow>> /\ call' = [call EXCEPT ![c] = Idle]
  BY DEF DatabaseFails
<1>4. /\ memory' \in [Servers -> [Windows -> Buckets]]
      /\ byMemory' \in [Windows -> [Servers -> Nat]]
      /\ BucketsRemember'
  <2>1. CASE failClosed /\ UNCHANGED <<memory, byMemory>>
    BY <1>1, <1>3, <2>1
    DEF LimitTypeOK, BucketsRemember, Open, WindowEndsAt, WindowStart
  <2>2. CASE ~failClosed /\ Remember(i, w)
    BY <1>1, <1>2, <1>3, <2>2, RememberKeeps
  <2> QED
    BY <1>2, <2>1, <2>2
<1>5. row' \in [Windows -> Nat] /\ \A v \in Windows : row'[v] >= row[v]
  <2>1. row \in [Windows -> Nat]
    BY <1>1 DEF LimitTypeOK
  <2>2. CASE row' = row
    BY <2>1, <2>2
  <2>3. CASE row' = [row EXCEPT ![w] = @ + 1]
    BY <2>1, <2>3
  <2> QED
    BY <1>2, <2>2, <2>3
<1>6. LimitTypeOK'
  <2>1. call' \in [Calls -> CallRecords]
    BY <1>1, <1>3 DEF LimitTypeOK, CallRecords, Idle
  <2> QED
    BY <1>1, <1>3, <1>4, <1>5, <2>1 DEF LimitTypeOK
<1>7. CallsAreTimely'
  BY <1>1, <1>3 DEF CallsAreTimely, Begun, WindowStart, LimitTypeOK, Idle
<1>8. RowsRemember'
  <2> SUFFICES ASSUME NEW v \in Windows, Open(v)'
               PROVE  byRow'[v] <= row'[v] /\ byRow'[v] <= Max
    BY DEF RowsRemember
  <2>1. Open(v) /\ byRow[v] <= row[v] /\ byRow[v] <= Max
    BY <1>1, <1>3 DEF RowsRemember, Open, WindowEndsAt, WindowStart
  <2>2. row[v] \in Nat /\ row'[v] \in Nat /\ byRow[v] \in Nat
    BY <1>1, <1>5 DEF LimitTypeOK
  <2> QED
    BY <1>3, <1>5, <2>1, <2>2
<1> QED
  BY <1>4, <1>6, <1>7, <1>8 DEF LimitInv

LEMMA PassTimeKeeps ==
  ASSUME LimitInv, PassTime
  PROVE  LimitInv'
<1>1. LimitTypeOK /\ CallsAreTimely /\ RowsRemember /\ BucketsRemember
  BY DEF LimitInv
<1>2. UNCHANGED <<failClosed, row, memory, call, byRow, byMemory>>
  BY DEF PassTime
<1>3. clock \in Nat /\ clock' = clock + 1 /\ clock' \in 0..MaxTime
  BY <1>1, RateLimitAssumption DEF PassTime, LimitTypeOK
<1>4. LimitTypeOK'
  BY <1>1, <1>2, <1>3 DEF LimitTypeOK
<1>5. \A w \in Windows : (Begun(w) => Begun(w)') /\ (Open(w)' => Open(w))
  <2> TAKE w \in Windows
  <2> QED
    BY <1>3, WindowTimes DEF Begun, Open, WindowStart, WindowEndsAt
<1>6. CallsAreTimely'
  <2> SUFFICES ASSUME NEW c \in Calls, call'[c].pc # "idle"
               PROVE  WindowStart(call'[c].window) <= clock'
    BY DEF CallsAreTimely, Begun, WindowStart
  <2>1. call[c].window \in Windows /\ Begun(call[c].window)
    BY <1>1, <1>2, CallFields DEF CallsAreTimely
  <2>2. WindowStart(call[c].window) \in Nat
    BY <2>1, WindowTimes
  <2> QED
    BY <1>2, <1>3, <2>1, <2>2 DEF Begun
<1>7. RowsRemember' /\ BucketsRemember'
  BY <1>1, <1>2, <1>5 DEF RowsRemember, BucketsRemember, WindowEndsAt, WindowStart
<1> QED
  BY <1>4, <1>6, <1>7 DEF LimitInv

LEMMA LimitStepInv == LimitInv /\ [LimitNext]_limitVars => LimitInv'
<1> SUFFICES ASSUME LimitInv, [LimitNext]_limitVars PROVE LimitInv'
  OBVIOUS
<1>1. CASE UNCHANGED limitVars
  <2>1. RowsRemember' /\ BucketsRemember'
    BY <1>1, LimitKept DEF limitVars
  <2>2. LimitTypeOK' /\ CallsAreTimely'
    BY <1>1 DEF limitVars, LimitInv, LimitTypeOK, CallsAreTimely, Begun, WindowStart
  <2> QED
    BY <2>1, <2>2 DEF LimitInv
<1>2. CASE LimitNext
  BY <1>2, AskKeeps, CountRowKeeps, CleanUpKeeps, DatabaseFailsKeeps, PassTimeKeeps
  DEF LimitNext
<1> QED
  BY <1>1, <1>2

\* The rate limit holds in every window of every key, for any number of
\* instances: Max by the shared row, Max by each instance that lost the
\* database, none of these when the caller fails closed.
THEOREM LimitHolds == LimitSpec => []WindowHolds
<1>1. LimitInv => WindowHolds
  <2> SUFFICES ASSUME LimitInv, NEW w \in Windows, Open(w)
               PROVE  /\ byRow[w] <= Max
                      /\ \A i \in Servers :
                           byMemory[w][i] <= (IF failClosed THEN 0 ELSE Max)
    BY DEF WindowHolds
  <2>1. byRow[w] <= Max
    BY DEF LimitInv, RowsRemember
  <2>2. ASSUME NEW i \in Servers
        PROVE  byMemory[w][i] <= (IF failClosed THEN 0 ELSE Max)
    <3>1. /\ byMemory[w][i] \in Nat /\ memory[i][w].count \in Nat /\ Max \in Nat
          /\ failClosed \in BOOLEAN
      BY RateLimitAssumption DEF LimitInv, LimitTypeOK, Buckets
    <3>2. /\ byMemory[w][i] <= memory[i][w].count
          /\ memory[i][w].count <= Max
          /\ failClosed => byMemory[w][i] = 0
      BY DEF LimitInv, BucketsRemember
    <3> QED
      BY <3>1, <3>2
  <2> QED
    BY <2>1, <2>2
<1> QED
  BY <1>1, LimitInitInv, LimitStepInv, PTL DEF LimitSpec

\* The tables and the calls keep their types.
THEOREM LimitTypeCorrect == LimitSpec => []LimitTypeOK
<1>1. LimitInv => LimitTypeOK
  BY DEF LimitInv
<1> QED
  BY <1>1, LimitInitInv, LimitStepInv, PTL DEF LimitSpec
-----------------------------------------------------------------------------
(* The provider chains                                                     *)

Rows == [rows : Int, partial : BOOLEAN]
Places == 1..4
ChainState == [pc : {"idle", "choosing", "deciding", "asking", "noting"},
               left : SUBSET Places, read : Int, month : Nat, book : Rows]

GatewayTypeOK ==
  /\ database \in {"up", "down", "flaky"}
  /\ month \in Nat
  /\ shared \in [Limited -> Nat]
  /\ local \in [Instances -> [Limited -> Nat]]
  /\ lost \in [Limited -> Nat]
  /\ answered \in [Limited -> 0..MaxUses]
  /\ chain \in [Chains -> ChainState]
  /\ answer \in [Chains -> Rows]
  /\ desk \in [Instances -> [pc : {"idle", "loading"}, mode : {"live", "degraded"},
                             partial : BOOLEAN]]

\* A chain works through its queue, and brings a book of its provider.
InPlace(c) ==
  /\ chain[c].left \subseteq Queue(TaskOf(c))
  /\ chain[c].pc \in {"deciding", "asking", "noting"} => chain[c].left # {}
  /\ chain[c].pc = "deciding" => Provider(c) \in Limited /\ chain[c].read \in Nat
  /\ chain[c].pc = "noting" => chain[c].month <= month /\ chain[c].book \in Books(c)

GatewayInv == GatewayTypeOK /\ \A c \in Chains : InPlace(c)

\* TASK_PRIORITIES names four providers at most.
LEMMA QueueInPlaces ==
  ASSUME NEW t \in Tasks
  PROVE  Queue(t) \subseteq Places
BY DEF Queue, TASK_PRIORITIES, Places

\* The provider whose turn it is is one of the queue.
LEMMA ForemostIsThere ==
  ASSUME NEW places \in SUBSET Places, places # {}
  PROVE  Foremost(places) \in places
<1>1. \E n \in places : \A m \in places : n <= m
  <2>1. CASE 1 \in places
    BY <2>1 DEF Places
  <2>2. CASE 1 \notin places /\ 2 \in places
    BY <2>2 DEF Places
  <2>3. CASE 1 \notin places /\ 2 \notin places /\ 3 \in places
    BY <2>3 DEF Places
  <2>4. CASE 1 \notin places /\ 2 \notin places /\ 3 \notin places
    <3>1. \A m \in places : m = 4
      BY <2>4 DEF Places
    <3> QED
      BY <3>1
  <2> QED
    BY <2>1, <2>2, <2>3, <2>4
<1> QED
  BY <1>1 DEF Foremost

\* A chain asks the providers of its task only.
LEMMA ProviderServes ==
  ASSUME NEW c \in Chains, chain[c].left \subseteq Queue(TaskOf(c)), chain[c].left # {}
  PROVE  Provider(c) \in Executors[TaskOf(c)] /\ c \in ChainsOf(Provider(c))
<1>1. TaskOf(c) \in Tasks
  BY DEF Chains, TaskOf
<1>2. Foremost(chain[c].left) \in Queue(TaskOf(c))
  BY <1>1, QueueInPlaces, ForemostIsThere
<1>3. Provider(c) \in Executors[TaskOf(c)]
  BY <1>2 DEF Queue, Provider
<1> QED
  BY <1>3 DEF ChainsOf, TaskOf

LEMMA ChainsFinite == IsFiniteSet(Chains)
<1>1. IsFiniteSet(DeskTasks)
  <2>1. DeskTasks = ({"br_equities_snapshot"} \union {"intl_equities_snapshot"})
                      \union {"crypto_snapshot"}
    BY DEF DeskTasks
  <2> QED
    BY <2>1, FS_Singleton, FS_AddElement
<1>2. IsFiniteSet(BookTasks)
  <2>1. BookTasks = ({"sector_book_br"} \union {"sector_book_intl"})
                      \union {"crypto_sector_book"}
    BY DEF BookTasks
  <2> QED
    BY <2>1, FS_Singleton, FS_AddElement
<1>3. IsFiniteSet(Instances \X Tasks)
  BY <1>1, <1>2, FS_Union, FS_Product, GatewayAssumption DEF Tasks
<1> QED
  BY <1>3, FS_Subset DEF Chains
\* Whatever an adapter answers is a book.
LEMMA BooksAreRows ==
  ASSUME NEW c \in Chains
  PROVE  Books(c) \subseteq Rows
<1>1. Universe[TaskOf(c)] \in Nat \ {0} /\ Cap \in Nat
  BY GatewayAssumption DEF Chains, TaskOf
<1>2. ASSUME NEW rows \in Int, NEW partial \in BOOLEAN
      PROVE  Book(rows, partial) \in Rows
  BY DEF Book, Rows
<1>3. ASSUME NEW asked \in Nat
      PROVE  /\ BrapiBooks(asked) \subseteq Rows /\ YahooBooks(asked) \subseteq Rows
             /\ TopCoinBooks(asked) \subseteq Rows /\ SectorCoinBooks(asked) \subseteq Rows
  <2>1. Nothing \in Rows
    BY DEF Nothing, Book, Rows
  <2>2. LesserOf(asked, Cap) \in Int
    BY <1>1 DEF LesserOf
  <2>3. ASSUME NEW m \in Int, NEW n \in 1..m PROVE Book(n, n < m) \in Rows
    BY DEF Book, Rows
  <2>4. BrapiBooks(asked) \subseteq Rows
    BY <2>1, <2>2, <2>3 DEF BrapiBooks
  <2>5. YahooBooks(asked) \subseteq Rows
    BY <2>1, <2>3 DEF YahooBooks
  <2>6. TopCoinBooks(asked) \subseteq Rows
    BY <1>2 DEF TopCoinBooks
  <2>7. SectorCoinBooks(asked) \subseteq Rows
    BY <1>2 DEF SectorCoinBooks
  <2> QED
    BY <2>4, <2>5, <2>6, <2>7
<1> QED
  BY <1>1, <1>3 DEF Books

\* Chain c moves on.
LEMMA ChainMoves ==
  ASSUME GatewayInv, NEW c \in Chains, NEW s \in ChainState,
         chain' = [chain EXCEPT ![c] = s], month' = month, InPlace(c)'
  PROVE  /\ chain' \in [Chains -> ChainState]
         /\ \A d \in Chains : InPlace(d)'
<1>1. chain \in [Chains -> ChainState] /\ chain' \in [Chains -> ChainState]
  BY DEF GatewayInv, GatewayTypeOK
<1>2. ASSUME NEW d \in Chains, d # c PROVE InPlace(d)'
  <2>1. chain'[d] = chain[d] /\ InPlace(d)
    BY <1>1, <1>2 DEF GatewayInv
  <2>2. Provider(d)' = Provider(d) /\ Books(d)' = Books(d)
    BY <2>1 DEF Provider, Books
  <2> QED
    BY <2>1, <2>2 DEF InPlace
<1> QED
  BY <1>1, <1>2

\* It leaves the provider whose turn it was.
LEMMA SkipMoves ==
  ASSUME GatewayInv, NEW c \in Chains, Skip(c), month' = month
  PROVE  /\ chain' \in [Chains -> ChainState]
         /\ \A d \in Chains : InPlace(d)'
         /\ chain'[c].pc = "choosing"
         /\ \A d \in Chains : d # c => chain'[d] = chain[d]
<1> DEFINE s == At("choosing", chain[c].left \ {Foremost(chain[c].left)})
<1>1. chain \in [Chains -> ChainState] /\ InPlace(c) /\ chain' = [chain EXCEPT ![c] = s]
  BY DEF GatewayInv, GatewayTypeOK, Skip
<1>2. s \in ChainState /\ s.pc = "choosing" /\ s.left \subseteq chain[c].left
  BY <1>1 DEF At, ChainState, Unread, None, Rows
<1> HIDE DEF s
<1>3. chain'[c] = s
  BY <1>1
<1>4. InPlace(c)'
  BY <1>1, <1>2, <1>3 DEF InPlace
<1> QED
  BY <1>1, <1>2, <1>3, <1>4, ChainMoves

\* A chain at rest, with or without an answer for those who wait.
LEMMA FinishMoves ==
  ASSUME GatewayInv, NEW c \in Chains, NEW book \in Rows, Finish(c, book), month' = month
  PROVE  /\ chain' \in [Chains -> ChainState]
         /\ \A d \in Chains : InPlace(d)'
         /\ chain'[c] = Resting
         /\ \A d \in Chains : d # c => chain'[d] = chain[d]
         /\ answer' \in [Chains -> Rows]
<1>1. /\ chain \in [Chains -> ChainState] /\ answer \in [Chains -> Rows]
      /\ chain' = [chain EXCEPT ![c] = Resting]
  BY DEF GatewayInv, GatewayTypeOK, Finish
<1>2. Resting \in ChainState /\ Resting.pc = "idle" /\ Resting.left = {}
  BY DEF Resting, At, ChainState, Unread, None, Rows
<1>3. chain'[c] = Resting
  BY <1>1
<1>4. InPlace(c)'
  BY <1>2, <1>3 DEF InPlace
<1>5. answer' \in [Chains -> Rows]
  <2>1. Universe[TaskOf(c)] \in Nat
    BY GatewayAssumption DEF Chains, TaskOf
  <2>2. Book(book.rows, book.rows < Universe[TaskOf(c)]) \in Rows
    BY <2>1 DEF Book, Rows
  <2>3. PICK told \in Rows : answer' = [answer EXCEPT ![c] = told] \/ answer' = answer
    BY <2>2 DEF Finish
  <2> QED
    BY <1>1, <2>3
<1> QED
  BY <1>1, <1>2, <1>3, <1>4, <1>5, ChainMoves

LEMMA GatewayInitInv == GatewayInit => GatewayInv
<1> SUFFICES ASSUME GatewayInit PROVE GatewayInv
  OBVIOUS
<1>1. Resting \in ChainState /\ Resting.pc = "idle" /\ Resting.left = {} /\ None \in Rows
  BY DEF Resting, At, ChainState, Unread, None, Rows
<1>2. GatewayTypeOK
  BY <1>1, GatewayAssumption DEF GatewayInit, GatewayTypeOK
<1> QED
  BY <1>1, <1>2 DEF GatewayInit, GatewayInv, InPlace

\* One step of one chain.
LEMMA ChainStepKeeps ==
  ASSUME GatewayInv, NEW c \in Chains, ChainStep(c)
  PROVE  GatewayInv'
<1>1. /\ GatewayTypeOK /\ InPlace(c) /\ chain[c] \in ChainState
      /\ chain \in [Chains -> ChainState] /\ InstanceOf(c) \in Instances
      /\ MaxUses \in Nat /\ Limits \in [Providers -> Nat]
  BY GatewayAssumption DEF GatewayInv, GatewayTypeOK, Chains, InstanceOf
<1>2. month' = month /\ database' = database /\ desk' = desk
  BY DEF ChainStep, ReadUsage, Decide, Deliver, Disappoint, Charge, FallBack
<1>3. ASSUME NEW s \in ChainState, chain' = [chain EXCEPT ![c] = s], InPlace(c)'
      PROVE  chain' \in [Chains -> ChainState] /\ \A d \in Chains : InPlace(d)'
  BY <1>2, <1>3, ChainMoves
<1>4. ASSUME chain' \in [Chains -> ChainState], \A d \in Chains : InPlace(d)',
             shared' \in [Limited -> Nat], local' \in [Instances -> [Limited -> Nat]],
             lost' \in [Limited -> Nat], answered' \in [Limited -> 0..MaxUses],
             answer' \in [Chains -> Rows]
      PROVE  GatewayInv'
  BY <1>1, <1>2, <1>4 DEF GatewayInv, GatewayTypeOK
<1>5. CASE ReadUsage(c)
  <2>1. UNCHANGED <<budget, answer>> /\ chain[c].left # {}
    BY <1>5 DEF ReadUsage
  <2>2. chain' \in [Chains -> ChainState] /\ \A d \in Chains : InPlace(d)'
    <3>1. CASE Skip(c)
      BY <1>2, <3>1, SkipMoves
    <3>2. ASSUME NEW s \in ChainState, chain' = [chain EXCEPT ![c] = s],
                 s.left = chain[c].left,
                 \/ s.pc = "asking"
                 \/ s.pc = "deciding" /\ Provider(c) \in Limited /\ s.read \in Nat
          PROVE  chain' \in [Chains -> ChainState] /\ \A d \in Chains : InPlace(d)'
      <4>1. chain'[c] = s /\ Provider(c)' = Provider(c)
        BY <1>1, <3>2 DEF Provider
      <4>2. InPlace(c)'
        BY <1>1, <2>1, <3>2, <4>1 DEF InPlace
      <4> QED
        BY <1>3, <3>2, <4>2
    <3>3. CASE chain' = [chain EXCEPT ![c].pc = "asking"]
      <4> DEFINE s == [chain[c] EXCEPT !.pc = "asking"]
      <4>1. /\ s \in ChainState /\ s.left = chain[c].left /\ s.pc = "asking"
            /\ chain' = [chain EXCEPT ![c] = s]
        BY <1>1, <3>3 DEF ChainState
      <4> HIDE DEF s
      <4> QED
        BY <3>2, <4>1
    <3>4. CASE /\ Provider(c) \in Limited
               /\ chain' = [chain EXCEPT ![c].pc = "deciding", ![c].read = shared[Provider(c)]]
      <4>1. PICK read \in Int : read = shared[Provider(c)] /\ read \in Nat
        BY <1>1, <3>4 DEF GatewayTypeOK
      <4> DEFINE s == [chain[c] EXCEPT !.pc = "deciding", !.read = read]
      <4>2. /\ s \in ChainState /\ s.left = chain[c].left /\ s.pc = "deciding" /\ s.read \in Nat
        BY <1>1, <4>1 DEF ChainState
      <4>3. chain' = [chain EXCEPT ![c] = s]
        BY <1>1, <3>4, <4>1
      <4> HIDE DEF s
      <4> QED
        BY <3>2, <3>4, <4>2, <4>3
    <3> QED
      BY <1>5, <3>1, <3>3, <3>4 DEF ReadUsage
  <2> QED
    BY <1>1, <1>4, <2>1, <2>2 DEF GatewayTypeOK, budget
<1>6. CASE Decide(c)
  <2>1. /\ UNCHANGED <<shared, lost, answered, answer>> /\ chain[c].pc = "deciding"
        /\ Provider(c) \in Limited /\ chain[c].read \in Nat /\ chain[c].left # {}
        /\ local' = [local EXCEPT ![InstanceOf(c)][Provider(c)] = chain[c].read]
    BY <1>1, <1>6 DEF Decide, InPlace
  <2>2. local' \in [Instances -> [Limited -> Nat]]
    BY <1>1, <2>1 DEF GatewayTypeOK
  <2>3. chain' \in [Chains -> ChainState] /\ \A d \in Chains : InPlace(d)'
    <3>1. CASE Skip(c)
      BY <1>2, <3>1, SkipMoves
    <3>2. CASE chain' = [chain EXCEPT ![c].pc = "asking"]
      <4> DEFINE s == [chain[c] EXCEPT !.pc = "asking"]
      <4>1. /\ s \in ChainState /\ s.left = chain[c].left /\ s.pc = "asking"
            /\ chain' = [chain EXCEPT ![c] = s]
        BY <1>1, <3>2 DEF ChainState
      <4> HIDE DEF s
      <4>2. chain'[c] = s
        BY <1>1, <4>1
      <4>3. InPlace(c)'
        BY <1>1, <2>1, <4>1, <4>2 DEF InPlace
      <4> QED
        BY <1>3, <4>1, <4>3
    <3> QED
      BY <1>6, <3>1, <3>2 DEF Decide
  <2> QED
    BY <1>1, <1>4, <2>1, <2>2, <2>3 DEF GatewayTypeOK
<1>7. CASE Deliver(c)
  <2>1. UNCHANGED <<shared, lost, answer>> /\ chain[c].pc = "asking" /\ chain[c].left # {}
    BY <1>1, <1>7 DEF Deliver, InPlace
  <2>2. PICK book \in Books(c) :
          chain' = [chain EXCEPT ![c].pc = "noting", ![c].month = month, ![c].book = book]
    BY <1>7 DEF Deliver
  <2>3. local' \in [Instances -> [Limited -> Nat]] /\ answered' \in [Limited -> 0..MaxUses]
    <3>1. CASE /\ Provider(c) \in Limited /\ answered[Provider(c)] < MaxUses
               /\ local' = [local EXCEPT ![InstanceOf(c)][Provider(c)] = @ + 1]
               /\ answered' = [answered EXCEPT ![Provider(c)] = @ + 1]
      BY <1>1, <3>1 DEF GatewayTypeOK
    <3>2. CASE UNCHANGED <<local, answered>>
      BY <1>1, <3>2 DEF GatewayTypeOK
    <3> QED
      BY <1>7, <3>1, <3>2 DEF Deliver
  <2>4. chain' \in [Chains -> ChainState] /\ \A d \in Chains : InPlace(d)'
    <3> DEFINE s == [chain[c] EXCEPT !.pc = "noting", !.month = month, !.book = book]
    <3>1. /\ s \in ChainState /\ s.left = chain[c].left /\ s.pc = "noting"
          /\ s.month = month /\ s.book = book /\ month \in Nat
          /\ chain' = [chain EXCEPT ![c] = s]
      BY <1>1, <2>2, BooksAreRows DEF ChainState, GatewayTypeOK
    <3> HIDE DEF s
    <3>2. chain'[c] = s
      BY <1>1, <3>1
    <3>3. Provider(c)' = Provider(c) /\ Books(c)' = Books(c)
      BY <3>1, <3>2 DEF Provider, Books
    <3>4. InPlace(c)'
      BY <1>1, <1>2, <2>1, <2>2, <3>1, <3>2, <3>3 DEF InPlace
    <3> QED
      BY <1>3, <3>1, <3>4
  <2> QED
    BY <1>1, <1>4, <2>1, <2>3, <2>4 DEF GatewayTypeOK
<1>8. CASE Disappoint(c)
  BY <1>1, <1>2, <1>4, <1>8, SkipMoves DEF Disappoint, GatewayTypeOK, budget
<1>9. CASE Charge(c)
  <2>1. UNCHANGED <<local, answered>> /\ Finish(c, chain[c].book) /\ chain[c].book \in Rows
    BY <1>1, <1>9 DEF Charge, ChainState
  <2>2. shared' \in [Limited -> Nat] /\ lost' \in [Limited -> Nat]
    <3>1. \/ shared' = shared
          \/ Provider(c) \in Limited /\ shared' = [shared EXCEPT ![Provider(c)] = @ + 1]
      BY <1>9 DEF Charge
    <3>2. \/ lost' = lost
          \/ Provider(c) \in Limited /\ lost' = [lost EXCEPT ![Provider(c)] = @ + 1]
      BY <1>9 DEF Charge
    <3>3. shared \in [Limited -> Nat] /\ lost \in [Limited -> Nat]
      BY <1>1 DEF GatewayTypeOK
    <3> QED
      BY <3>1, <3>2, <3>3
  <2> QED
    BY <1>1, <1>2, <1>4, <2>1, <2>2, FinishMoves DEF GatewayTypeOK
<1>10. CASE FallBack(c)
  <2>1. UNCHANGED budget /\ Finish(c, Nothing) /\ Nothing \in Rows
    BY <1>10 DEF FallBack, Nothing, Book, Rows
  <2> QED
    BY <1>1, <1>2, <1>4, <2>1, FinishMoves DEF GatewayTypeOK, budget
<1> QED
  BY <1>5, <1>6, <1>7, <1>8, <1>9, <1>10 DEF ChainStep

\* Chains that are started.
LEMMA StartMoves ==
  ASSUME GatewayInv, NEW starting \in SUBSET Chains, month' = month,
         chain' = [c \in Chains |-> IF c \in starting
                                    THEN At("choosing", Queue(TaskOf(c))) ELSE chain[c]]
  PROVE  /\ chain' \in [Chains -> ChainState]
         /\ \A c \in Chains : InPlace(c)'
<1>1. chain \in [Chains -> ChainState]
  BY DEF GatewayInv, GatewayTypeOK
<1>2. ASSUME NEW c \in Chains PROVE chain'[c] \in ChainState /\ InPlace(c)'
  <2>1. CASE c \notin starting
    <3>1. chain'[c] = chain[c] /\ InPlace(c)
      BY <2>1 DEF GatewayInv
    <3>2. Provider(c)' = Provider(c) /\ Books(c)' = Books(c)
      BY <3>1 DEF Provider, Books
    <3> QED
      BY <1>1, <3>1, <3>2 DEF InPlace
  <2>2. CASE c \in starting
    <3>1. Queue(TaskOf(c)) \subseteq Places
      BY QueueInPlaces DEF Chains, TaskOf
    <3>2. chain'[c] = [pc |-> "choosing", left |-> Queue(TaskOf(c)), read |-> Unread,
                       month |-> 0, book |-> None]
      BY <2>2 DEF At
    <3>3. None \in Rows /\ Unread \in Int
      BY DEF None, Rows, Unread
    <3>4. chain'[c] \in ChainState
      BY <3>1, <3>2, <3>3 DEF ChainState
    <3> QED
      BY <3>2, <3>4 DEF InPlace
  <2> QED
    BY <2>1, <2>2
<1> QED
  BY <1>2

LEMMA OpenBookStarts ==
  ASSUME GatewayInv, NEW c \in Chains, OpenBook(c)
  PROVE  chain' = [d \in Chains |-> IF d \in {c}
                                    THEN At("choosing", Queue(TaskOf(d))) ELSE chain[d]]
BY DEF OpenBook, GatewayInv, GatewayTypeOK

LEMMA GatewayStep == GatewayInv /\ [GatewayNext]_gatewayVars => GatewayInv'
<1> SUFFICES ASSUME GatewayInv, [GatewayNext]_gatewayVars PROVE GatewayInv'
  OBVIOUS
<1>1. GatewayTypeOK /\ None \in Rows /\ Nothing \in Rows
  BY DEF GatewayInv, None, Nothing, Book, Rows
<1>2. CASE UNCHANGED gatewayVars
  <2>1. \A c \in Chains : InPlace(c)'
    BY <1>2 DEF GatewayInv, InPlace, Provider, Books, gatewayVars
  <2> QED
    BY <1>1, <1>2, <2>1 DEF GatewayInv, GatewayTypeOK, gatewayVars, budget
<1>3. ASSUME NEW c \in Chains, OpenBook(c) PROVE GatewayInv'
  <2>1. /\ UNCHANGED <<database, month, budget, desk>>
        /\ answer' = [answer EXCEPT ![c] = None]
    BY <1>3 DEF OpenBook
  <2>2. chain' \in [Chains -> ChainState] /\ \A d \in Chains : InPlace(d)'
    BY <1>3, <2>1, OpenBookStarts, StartMoves
  <2> QED
    BY <1>1, <2>1, <2>2 DEF GatewayInv, GatewayTypeOK, budget
<1>4. ASSUME NEW i \in Instances, OpenDesk(i) PROVE GatewayInv'
  <2>1. /\ UNCHANGED <<database, month, budget, answer>>
        /\ desk' = [desk EXCEPT ![i].pc = "loading"]
    BY <1>4 DEF OpenDesk
  <2>2. chain' \in [Chains -> ChainState] /\ \A d \in Chains : InPlace(d)'
    BY <1>4, <2>1, StartMoves DEF OpenDesk
  <2> QED
    BY <1>1, <2>1, <2>2 DEF GatewayInv, GatewayTypeOK, budget
<1>5. ASSUME NEW i \in Instances, StopWaiting(i) \/ Publish(i) PROVE GatewayInv'
  <2>1. UNCHANGED <<database, month, budget, chain>>
    BY <1>5 DEF StopWaiting, Publish
  <2>2. \A d \in Chains : InPlace(d)'
    BY <2>1 DEF GatewayInv, InPlace, Provider, Books
  <2>3. answer' \in [Chains -> Rows]
    BY <1>1, <1>5 DEF StopWaiting, Publish, GatewayTypeOK
  <2>4. desk' \in [Instances -> [pc : {"idle", "loading"}, mode : {"live", "degraded"},
                                 partial : BOOLEAN]]
    <3>1. CASE StopWaiting(i)
      BY <1>1, <3>1 DEF StopWaiting, GatewayTypeOK
    <3>2. CASE Publish(i)
      <4> DEFINE br == answer[<<i, "br_equities_snapshot">>]
                 intl == answer[<<i, "intl_equities_snapshot">>]
                 crypto == answer[<<i, "crypto_snapshot">>]
                 rows == br.rows + intl.rows + crypto.rows
                 part == br.partial \/ intl.partial
      <4>1. desk' = [desk EXCEPT ![i] = [pc |-> "idle", mode |-> Mode(rows), partial |-> part]]
        BY <3>2 DEF Publish
      <4>2. Mode(rows) \in {"live", "degraded"}
        BY DEF Mode
      <4>3. part \in BOOLEAN
        OBVIOUS
      <4> HIDE DEF rows, part
      <4>4. [pc |-> "idle", mode |-> Mode(rows), partial |-> part]
              \in [pc : {"idle", "loading"}, mode : {"live", "degraded"}, partial : BOOLEAN]
        BY <4>2, <4>3
      <4> QED
        BY <1>1, <4>1, <4>4 DEF GatewayTypeOK
    <3> QED
      BY <1>5, <3>1, <3>2
  <2> QED
    BY <1>1, <2>1, <2>2, <2>3, <2>4 DEF GatewayInv, GatewayTypeOK, budget
<1>6. CASE NewMonth
  <2>1. /\ month' = month + 1 /\ month \in Nat /\ UNCHANGED <<database, chain, answer, desk>>
        /\ MaxUses \in Nat
    BY <1>1, <1>6, GatewayAssumption DEF NewMonth, GatewayTypeOK
  <2>2. ASSUME NEW c \in Chains PROVE InPlace(c)'
    <3>1. InPlace(c) /\ chain[c] \in ChainState
      BY <1>1 DEF GatewayInv, GatewayTypeOK
    <3>2. Provider(c)' = Provider(c) /\ Books(c)' = Books(c) /\ chain' = chain
      BY <2>1 DEF Provider, Books
    <3> QED
      BY <2>1, <3>1, <3>2 DEF InPlace, ChainState
  <2> QED
    BY <1>1, <1>6, <2>1, <2>2 DEF GatewayInv, GatewayTypeOK, NewMonth
<1> QED
  BY <1>2, <1>3, <1>4, <1>5, <1>6, ChainStepKeeps DEF GatewayNext

\* The budgets, the chains and the desks keep their types, and every chain
\* stays within the queue of its task.
THEOREM GatewayTypeCorrect == GatewaySpec => []GatewayInv
BY GatewayInitInv, GatewayStep, PTL DEF GatewaySpec

\* What BooksTellGaps asks of a book of chain c.
Tells(c, book) ==
  /\ book # None /\ ~book.partial
  /\ TaskOf(c) # "crypto_snapshot"
  /\ TaskOf(c) = "br_equities_snapshot" => Universe[TaskOf(c)] <= Cap
  => book.rows = Universe[TaskOf(c)]

\* A book of BRAPI lacks what the cap cut off, and says of the rest.
LEMMA BrapiTells ==
  ASSUME NEW asked \in Nat \ {0}, NEW book \in BrapiBooks(asked)
  PROVE  /\ book.rows <= asked
         /\ asked <= Cap /\ ~book.partial => book.rows = asked
<1>1. Cap \in Nat \ {0}
  BY GatewayAssumption
<1>2. CASE book = Nothing
  BY <1>2 DEF Nothing, Book
<1>3. CASE book # Nothing
  <2>1. PICK n \in 1..LesserOf(asked, Cap) : book = Book(n, n < LesserOf(asked, Cap))
    BY <1>3 DEF BrapiBooks
  <2>2. book.rows = n /\ (book.partial <=> n < LesserOf(asked, Cap))
    BY <2>1 DEF Book
  <2>3. LesserOf(asked, Cap) <= asked /\ (asked <= Cap => LesserOf(asked, Cap) = asked)
        /\ LesserOf(asked, Cap) \in Int
    BY <1>1 DEF LesserOf
  <2> QED
    BY <2>2, <2>3
<1> QED
  BY <1>2, <1>3

LEMMA YahooTells ==
  ASSUME NEW asked \in Nat \ {0}, NEW book \in YahooBooks(asked), ~book.partial
  PROVE  book.rows = asked
<1>1. book # Nothing
  BY DEF Nothing, Book
<1>2. PICK n \in 1..asked : book = Book(n, n < asked)
  BY <1>1 DEF YahooBooks
<1>3. book.rows = n /\ (book.partial <=> n < asked)
  BY <1>2 DEF Book
<1> QED
  BY <1>3

\* What a chain hands over at its end tells of its gaps.
LEMMA EndTells ==
  ASSUME NEW c \in Chains, InPlace(c), NEW book,
         book = Nothing \/ (chain[c].left # {} /\ book \in Books(c))
  PROVE  /\ TaskOf(c) # "sector_book_br" => Tells(c, book)
         /\ TaskOf(c) = "sector_book_br" =>
              Tells(c, Book(book.rows, book.rows < Universe[TaskOf(c)]))
<1>1. Universe[TaskOf(c)] \in Nat \ {0} /\ TaskOf(c) \in Tasks
  BY GatewayAssumption DEF Chains, TaskOf
<1>2. CASE book = Nothing
  <2>1. book.rows = 0 /\ book.partial
    BY <1>2 DEF Nothing, Book
  <2>2. PICK told : told = Book(book.rows, book.rows < Universe[TaskOf(c)])
    OBVIOUS
  <2>3. told.partial <=> 0 < Universe[TaskOf(c)]
    BY <2>1, <2>2 DEF Book
  <2>4. told.partial
    BY <1>1, <2>3
  <2> QED
    BY <2>1, <2>2, <2>4 DEF Tells
<1>3. CASE chain[c].left # {} /\ book \in Books(c)
  <2>1. Provider(c) \in Executors[TaskOf(c)]
    BY <1>3, ProviderServes DEF InPlace
  <2>2. CASE TaskOf(c) \in {"br_equities_snapshot", "sector_book_br"}
    <3>1. book \in BrapiBooks(Universe[TaskOf(c)])
      BY <1>1, <1>3, <2>1, <2>2 DEF Executors, Books
    <3>2. /\ book.rows <= Universe[TaskOf(c)]
          /\ Universe[TaskOf(c)] <= Cap /\ ~book.partial => book.rows = Universe[TaskOf(c)]
      BY <1>1, <3>1, BrapiTells
    <3>3. book.rows \in Int
      BY <1>3, BooksAreRows DEF Rows
    <3>4. PICK told : told = Book(book.rows, book.rows < Universe[TaskOf(c)])
      OBVIOUS
    <3>5. told.rows = book.rows /\ (told.partial <=> book.rows < Universe[TaskOf(c)])
      BY <3>4 DEF Book
    <3>6. Tells(c, told)
      BY <1>1, <3>2, <3>3, <3>5 DEF Tells
    <3> QED
      BY <2>2, <3>2, <3>4, <3>6 DEF Tells
  <2>3. CASE TaskOf(c) \in {"intl_equities_snapshot", "sector_book_intl"}
    <3>1. book \in YahooBooks(Universe[TaskOf(c)])
      BY <1>1, <1>3, <2>1, <2>3 DEF Executors, Books
    <3> QED
      BY <1>1, <2>3, <3>1, YahooTells DEF Tells
  <2>4. CASE TaskOf(c) = "crypto_sector_book"
    <3>1. book \in SectorCoinBooks(Universe[TaskOf(c)])
      BY <1>1, <1>3, <2>1, <2>4 DEF Executors, Books
    <3>2. book.rows = Universe[TaskOf(c)]
      BY <3>1 DEF SectorCoinBooks, Book
    <3> QED
      BY <2>4, <3>2 DEF Tells
  <2>5. CASE TaskOf(c) = "crypto_snapshot"
    BY <2>5 DEF Tells
  <2> QED
    BY <1>1, <2>2, <2>3, <2>4, <2>5 DEF Tasks, DeskTasks, BookTasks
<1> QED
  BY <1>2, <1>3

\* A book that does not call itself partial is complete, for any universe, cap
\* and providers: neither a failed wave nor the cap nor the desk's timer passes
\* for a complete answer.
THEOREM GapsAreTold == GatewaySpec => []BooksTellGaps
<1> DEFINE Told == \A c \in Chains : Tells(c, answer[c])
<1>1. Told <=> BooksTellGaps
  BY DEF BooksTellGaps, Tells
<1>2. GatewayInit => Told
  BY DEF GatewayInit, Tells
<1>3. GatewayInv /\ Told /\ [GatewayNext]_gatewayVars => Told'
  <2> SUFFICES ASSUME GatewayInv, Told, [GatewayNext]_gatewayVars PROVE Told'
    OBVIOUS
  <2>1. answer \in [Chains -> Rows] /\ Tells(1, None)
    BY DEF GatewayInv, GatewayTypeOK, Tells
  <2>2. ASSUME NEW c \in Chains, NEW book, Tells(c, book),
               answer' = [answer EXCEPT ![c] = book]
        PROVE  Told'
    BY <2>1, <2>2 DEF Tells
  <2>3. ASSUME NEW c \in Chains, NEW book, Finish(c, book),
               book = Nothing \/ (chain[c].left # {} /\ book \in Books(c))
        PROVE  Told'
    <3>1. /\ TaskOf(c) # "sector_book_br" => Tells(c, book)
          /\ TaskOf(c) = "sector_book_br" =>
               Tells(c, Book(book.rows, book.rows < Universe[TaskOf(c)]))
      BY <2>3, EndTells DEF GatewayInv
    <3>2. CASE answer' = answer
      BY <3>2 DEF Tells
    <3>3. CASE answer' # answer
      BY <2>2, <2>3, <3>1, <3>3 DEF Finish
    <3> QED
      BY <3>2, <3>3
  <2>4. ASSUME NEW c \in Chains, ChainStep(c) PROVE Told'
    <3>1. CASE answer' = answer
      BY <3>1 DEF Tells
    <3>2. CASE Charge(c)
      <4>1. chain[c].left # {} /\ chain[c].book \in Books(c)
        BY <3>2 DEF Charge, GatewayInv, InPlace
      <4> QED
        BY <2>3, <3>2, <4>1 DEF Charge
    <3>3. CASE FallBack(c)
      BY <2>3, <3>3 DEF FallBack
    <3> QED
      BY <2>4, <3>1, <3>2, <3>3 DEF ChainStep, ReadUsage, Decide, Deliver, Disappoint
  <2>5. ASSUME NEW c \in Chains, OpenBook(c) PROVE Told'
    BY <2>2, <2>5 DEF OpenBook, Tells
  <2>6. ASSUME NEW i \in Instances, OpenDesk(i) \/ StopWaiting(i) \/ Publish(i) PROVE Told'
    <3>1. CASE OpenDesk(i)
      BY <3>1 DEF OpenDesk, Tells
    <3>2. CASE StopWaiting(i)
      BY <2>1, <3>2 DEF StopWaiting, Tells, Nothing, Book
    <3>3. CASE Publish(i)
      BY <3>3 DEF Publish, Tells
    <3> QED
      BY <2>6, <3>1, <3>2, <3>3
  <2>7. CASE UNCHANGED gatewayVars \/ NewMonth
    BY <2>7 DEF gatewayVars, NewMonth, Tells
  <2> QED
    BY <2>4, <2>5, <2>6, <2>7 DEF GatewayNext
<1> QED
  BY <1>1, <1>2, <1>3, GatewayInitInv, GatewayStep, PTL DEF GatewaySpec

-----------------------------------------------------------------------------
(* The budgets                                                             *)

\* The chains whose answer is not yet charged, and those that may still get one
\* with the check they have passed.
Noting(p) == {c \in Chains : /\ chain[c].pc = "noting"
                             /\ Provider(c) = p
                             /\ chain[c].month = month}
MayUse(c, p) == \/ chain[c].pc = "asking"
                \/ chain[c].pc = "deciding" /\ chain[c].read < Limits[p]
Pending(p) == {c \in Chains : Provider(c) = p /\ MayUse(c, p)}

\* A set that has gained or lost one element at most.
LEMMA OneMoves ==
  ASSUME NEW S, NEW T, NEW c, IsFiniteSet(S), S \ {c} = T \ {c}
  PROVE  /\ IsFiniteSet(T) /\ Cardinality(S) \in Nat /\ Cardinality(T) \in Nat
         /\ Cardinality(T) + (IF c \in S THEN 1 ELSE 0)
              = Cardinality(S) + (IF c \in T THEN 1 ELSE 0)
<1>1. IsFiniteSet(T)
  <2>1. CASE c \in T
    <3>1. T = (S \ {c}) \union {c}
      BY <2>1
    <3> QED
      BY <3>1, FS_RemoveElement, FS_AddElement
  <2>2. CASE c \notin T
    <3>1. T = S \ {c}
      BY <2>2
    <3> QED
      BY <3>1, FS_RemoveElement
  <2> QED
    BY <2>1, <2>2
<1>2. Cardinality(S) \in Nat /\ Cardinality(T) \in Nat
  BY <1>1, FS_CardinalityType
<1>3. Cardinality(S \ {c}) = IF c \in S THEN Cardinality(S) - 1 ELSE Cardinality(S)
  BY FS_RemoveElement
<1>4. Cardinality(T \ {c}) = IF c \in T THEN Cardinality(T) - 1 ELSE Cardinality(T)
  BY <1>1, FS_RemoveElement
<1> QED
  BY <1>1, <1>2, <1>3, <1>4

LEMMA DisjointUnion ==
  ASSUME NEW S, NEW T, IsFiniteSet(S), IsFiniteSet(T), S \intersect T = {}
  PROVE  /\ IsFiniteSet(S \union T)
         /\ Cardinality(S \union T) = Cardinality(S) + Cardinality(T)
<1>1. Cardinality(S \intersect T) = 0
  BY FS_EmptySet
<1>2. Cardinality(S) \in Nat /\ Cardinality(T) \in Nat
  BY FS_CardinalityType
<1>3. /\ IsFiniteSet(S \union T)
      /\ Cardinality(S \union T)
           = Cardinality(S) + Cardinality(T) - Cardinality(S \intersect T)
  BY FS_Union
<1> QED
  BY <1>1, <1>2, <1>3

\* Of the chains of a provider, some are noting and others pending.
LEMMA SetsOfProvider ==
  ASSUME GatewayInv, NEW p \in Limited
  PROVE  /\ Noting(p) \subseteq ChainsOf(p) /\ Pending(p) \subseteq ChainsOf(p)
         /\ Noting(p) \intersect Pending(p) = {}
         /\ IsFiniteSet(Noting(p)) /\ IsFiniteSet(Pending(p)) /\ IsFiniteSet(ChainsOf(p))
<1>1. Noting(p) \subseteq ChainsOf(p) /\ Pending(p) \subseteq ChainsOf(p)
  BY ProviderServes DEF GatewayInv, InPlace, Noting, Pending, MayUse
<1>2. Noting(p) \intersect Pending(p) = {}
  BY DEF Noting, Pending, MayUse
<1>3. IsFiniteSet(ChainsOf(p))
  BY ChainsFinite, FS_Subset DEF ChainsOf
<1> QED
  BY <1>1, <1>2, <1>3, FS_Subset

\* Only chain c moves.
LEMMA OthersStay ==
  ASSUME NEW c \in Chains, \A d \in Chains : d # c => chain'[d] = chain[d], month' = month,
         NEW p \in Limited
  PROVE  /\ Noting(p) \ {c} = Noting(p)' \ {c}
         /\ Pending(p) \ {c} = Pending(p)' \ {c}
<1>1. \A d \in Chains \ {c} : /\ chain'[d] = chain[d]
                              /\ Provider(d)' = Provider(d)
                              /\ MayUse(d, p)' = MayUse(d, p)
  BY DEF Provider, MayUse
<1> QED
  BY <1>1 DEF Noting, Pending

\* Chains that are started were at rest.
LEMMA StartsStay ==
  ASSUME NEW starting \in SUBSET Chains, \A c \in starting : chain[c] = Resting,
         chain' = [c \in Chains |-> IF c \in starting
                                    THEN At("choosing", Queue(TaskOf(c))) ELSE chain[c]],
         month' = month, NEW p \in Limited
  PROVE  Noting(p)' = Noting(p) /\ Pending(p)' = Pending(p)
<1>1. \A c \in starting : chain[c].pc = "idle" /\ chain'[c].pc = "choosing"
  BY DEF Resting, At
<1>2. \A c \in Chains \ starting : /\ chain'[c] = chain[c]
                                   /\ Provider(c)' = Provider(c)
                                   /\ MayUse(c, p)' = MayUse(c, p)
  BY DEF Provider, MayUse
<1> QED
  BY <1>1, <1>2 DEF Noting, Pending, MayUse

\* A step of one chain is a step of no other.
LEMMA OneChainMoves ==
  ASSUME GatewayInv, NEW c \in Chains, ChainStep(c)
  PROVE  /\ \A d \in Chains : d # c => chain'[d] = chain[d]
         /\ month' = month /\ database' = database
<1>1. chain \in [Chains -> ChainState]
  BY DEF GatewayInv, GatewayTypeOK
<1> QED
  BY <1>1 DEF ChainStep, ReadUsage, Decide, Deliver, Disappoint, Charge, FallBack, Skip, Finish

\* Steps of the desks, and chains that begin.
LEMMA RestMoves ==
  ASSUME GatewayInv, NEW p \in Limited,
         \/ \E c \in Chains : OpenBook(c)
         \/ \E i \in Instances : OpenDesk(i) \/ StopWaiting(i) \/ Publish(i)
         \/ UNCHANGED gatewayVars
  PROVE  /\ Noting(p)' = Noting(p) /\ Pending(p)' = Pending(p)
         /\ UNCHANGED <<database, month, budget>>
<1>1. ASSUME NEW c \in Chains, OpenBook(c)
      PROVE  Noting(p)' = Noting(p) /\ Pending(p)' = Pending(p)
  BY <1>1, OpenBookStarts, StartsStay DEF OpenBook
<1>2. ASSUME NEW i \in Instances, OpenDesk(i)
      PROVE  Noting(p)' = Noting(p) /\ Pending(p)' = Pending(p)
  BY <1>2, StartsStay DEF OpenDesk
<1>3. ASSUME UNCHANGED <<chain, month>>
      PROVE  Noting(p)' = Noting(p) /\ Pending(p)' = Pending(p)
  BY <1>3 DEF Noting, Pending, Provider, MayUse
<1>4. UNCHANGED <<database, month, budget>>
  BY DEF OpenBook, OpenDesk, StopWaiting, Publish, gatewayVars
<1> QED
  BY <1>1, <1>2, <1>3, <1>4 DEF StopWaiting, Publish, gatewayVars

\* In a new month nothing is left to charge.
LEMMA MonthStarts ==
  ASSUME GatewayInv, NewMonth, NEW p \in Limited
  PROVE  /\ Noting(p)' = {} /\ Pending(p)' = Pending(p) /\ database' = database
         /\ shared'[p] = 0 /\ lost'[p] = 0 /\ answered'[p] = 0
         /\ \A i \in Instances : local'[i][p] = 0
<1>1. month' = month + 1 /\ month \in Nat /\ chain' = chain
  BY DEF NewMonth, GatewayInv, GatewayTypeOK
<1>2. \A c \in Chains : chain[c].pc = "noting" => chain[c].month <= month /\ chain[c].month \in Nat
  BY DEF GatewayInv, GatewayTypeOK, InPlace, ChainState
<1>3. Noting(p)' = {}
  BY <1>1, <1>2 DEF Noting
<1>4. Pending(p)' = Pending(p)
  BY <1>1 DEF Pending, Provider, MayUse
<1> QED
  BY <1>3, <1>4 DEF NewMonth

\* What a step of chain c is to the budget of provider p.
Passes(c, p) ==
  /\ c \notin Noting(p) /\ c \notin Pending(p) /\ c \in ChainsOf(p)
  /\ c \notin Noting(p)' /\ c \in Pending(p)'
  /\ UNCHANGED budget
  /\ \/ MayAnswer /\ shared[p] < Limits[p]
     \/ MayFail /\ local[InstanceOf(c)][p] < Limits[p]

Delivers(c, p) ==
  /\ c \notin Noting(p) /\ c \in Pending(p)
  /\ c \in Noting(p)' /\ c \notin Pending(p)'
  /\ UNCHANGED <<shared, lost>>
  /\ answered[p] < MaxUses /\ answered'[p] = answered[p] + 1
  /\ local'[InstanceOf(c)][p] = local[InstanceOf(c)][p] + 1
  /\ \A i \in Instances : i # InstanceOf(c) => local'[i][p] = local[i][p]

Charges(c, p) ==
  /\ c \in Noting(p) /\ c \notin Pending(p)
  /\ c \notin Noting(p)' /\ c \notin Pending(p)'
  /\ UNCHANGED <<local, answered>>
  /\ \/ MayAnswer /\ shared'[p] = shared[p] + 1 /\ lost'[p] = lost[p]
     \/ MayFail /\ shared'[p] = shared[p] /\ lost'[p] = lost[p] + 1

Spares(c, p) ==
  /\ c \in Noting(p)' <=> c \in Noting(p)
  /\ c \in Pending(p)' => c \in Pending(p)
  /\ shared'[p] = shared[p] /\ lost'[p] = lost[p] /\ answered'[p] = answered[p]
  /\ \/ \A i \in Instances : local'[i][p] = local[i][p]
     \/ MayAnswer \/ chain[c].pc = "deciding"

LEMMA ChainEffects ==
  ASSUME GatewayInv, NEW c \in Chains, ChainStep(c), NEW p \in Limited
  PROVE  Passes(c, p) \/ Delivers(c, p) \/ Charges(c, p) \/ Spares(c, p)
<1>1. /\ GatewayTypeOK /\ InPlace(c) /\ chain[c] \in ChainState
      /\ chain \in [Chains -> ChainState] /\ InstanceOf(c) \in Instances
      /\ Limits[p] \in Nat /\ month' = month
      /\ Provider(c) = p /\ chain[c].left # {} => c \in ChainsOf(p)
  BY GatewayAssumption, OneChainMoves, ProviderServes
  DEF GatewayInv, GatewayTypeOK, InPlace, Chains, InstanceOf, Limited
<1>2. ASSUME chain'[c].pc \notin {"deciding", "asking", "noting"}
      PROVE  c \notin Noting(p)' /\ c \notin Pending(p)'
  BY <1>2 DEF Noting, Pending, MayUse
<1>3. Skip(c) => chain'[c].pc = "choosing"
  BY <1>1 DEF Skip, At
<1>4. CASE ReadUsage(c)
  <2>1. chain[c].pc = "choosing" /\ chain[c].left # {} /\ UNCHANGED budget
    BY <1>4 DEF ReadUsage
  <2>2. c \notin Noting(p) /\ c \notin Pending(p)
    BY <2>1 DEF Noting, Pending, MayUse
  <2>3. CASE Skip(c)
    BY <1>2, <1>3, <2>1, <2>2, <2>3 DEF Spares, budget
  <2>4. CASE ~Skip(c) /\ Provider(c) # p
    <3>1. chain'[c].left = chain[c].left
      BY <1>1, <1>4, <2>4 DEF ReadUsage, ChainState
    <3>2. Provider(c)' # p
      BY <2>4, <3>1 DEF Provider
    <3> QED
      BY <2>1, <2>2, <3>2 DEF Spares, budget, Noting, Pending
  <2>5. CASE ~Skip(c) /\ Provider(c) = p
    <3>1. chain'[c].left = chain[c].left
      BY <1>1, <1>4, <2>5 DEF ReadUsage, ChainState
    <3>2. Provider(c)' = p
      BY <2>5, <3>1 DEF Provider
    <3>3. \/ /\ MayAnswer /\ chain'[c].pc = "deciding" /\ chain'[c].read = shared[p]
          \/ /\ MayFail /\ local[InstanceOf(c)][p] < Limits[p] /\ chain'[c].pc = "asking"
      BY <1>1, <1>4, <2>5 DEF ReadUsage, ChainState
    <3>4. CASE MayAnswer /\ chain'[c].pc = "deciding" /\ chain'[c].read = shared[p]
      <4>1. c \notin Noting(p)' /\ (c \in Pending(p)' <=> shared[p] < Limits[p])
        BY <3>2, <3>4 DEF Noting, Pending, MayUse
      <4> QED
        BY <1>1, <2>1, <2>2, <2>5, <3>4, <4>1 DEF Passes, Spares, budget
    <3>5. CASE MayFail /\ local[InstanceOf(c)][p] < Limits[p] /\ chain'[c].pc = "asking"
      <4>1. c \notin Noting(p)' /\ c \in Pending(p)'
        BY <3>2, <3>5 DEF Noting, Pending, MayUse
      <4> QED
        BY <1>1, <2>1, <2>2, <2>5, <3>5, <4>1 DEF Passes
    <3> QED
      BY <3>3, <3>4, <3>5
  <2> QED
    BY <2>3, <2>4, <2>5
<1>5. CASE Decide(c)
  <2>1. chain[c].pc = "deciding" /\ UNCHANGED <<shared, lost, answered>>
    BY <1>5 DEF Decide
  <2>2. CASE Skip(c)
    BY <1>2, <1>3, <2>1, <2>2 DEF Spares, Noting
  <2>3. CASE chain[c].read < Limit(c) /\ chain' = [chain EXCEPT ![c].pc = "asking"]
    <3>1. chain'[c].left = chain[c].left /\ chain'[c].pc = "asking"
      BY <1>1, <2>3 DEF ChainState
    <3>2. Provider(c)' = Provider(c)
      BY <3>1 DEF Provider
    <3> QED
      BY <2>1, <2>3, <3>1, <3>2 DEF Spares, Noting, Pending, MayUse, Limit
  <2> QED
    BY <1>5, <2>2, <2>3 DEF Decide
<1>6. CASE Deliver(c)
  <2>1. /\ chain[c].pc = "asking" /\ UNCHANGED <<shared, lost>>
        /\ chain'[c].pc = "noting" /\ chain'[c].month = month
        /\ chain'[c].left = chain[c].left
    BY <1>1, <1>6 DEF Deliver, ChainState
  <2>2. Provider(c)' = Provider(c)
    BY <2>1 DEF Provider
  <2>3. CASE Provider(c) = p
    <3>1. /\ answered[p] < MaxUses
          /\ local' = [local EXCEPT ![InstanceOf(c)][p] = @ + 1]
          /\ answered' = [answered EXCEPT ![p] = @ + 1]
      BY <1>6, <2>3 DEF Deliver
    <3>2. /\ answered'[p] = answered[p] + 1
          /\ local'[InstanceOf(c)][p] = local[InstanceOf(c)][p] + 1
          /\ \A i \in Instances : i # InstanceOf(c) => local'[i][p] = local[i][p]
      BY <1>1, <3>1 DEF GatewayTypeOK
    <3> QED
      BY <1>1, <2>1, <2>2, <2>3, <3>1, <3>2 DEF Delivers, Noting, Pending, MayUse
  <2>4. CASE Provider(c) # p
    <3>1. answered'[p] = answered[p] /\ \A i \in Instances : local'[i][p] = local[i][p]
      BY <1>1, <1>6, <2>4 DEF Deliver, GatewayTypeOK
    <3> QED
      BY <2>1, <2>2, <2>4, <3>1 DEF Spares, Noting, Pending
  <2> QED
    BY <2>3, <2>4
<1>7. CASE Disappoint(c)
  BY <1>2, <1>3, <1>7 DEF Disappoint, Spares, budget, Noting
<1>8. CASE Charge(c)
  <2>1. /\ chain[c].pc = "noting" /\ UNCHANGED <<local, answered>>
        /\ chain'[c].pc = "idle"
    BY <1>1, <1>8 DEF Charge, Finish, Resting, At
  <2>2. /\ c \notin Noting(p)' /\ c \notin Pending(p)' /\ c \notin Pending(p)
    BY <1>2, <2>1 DEF Pending, MayUse
  <2>3. CASE c \in Noting(p)
    <3>1. Provider(c) = p /\ chain[c].month = month
      BY <2>3 DEF Noting
    <3>2. \/ MayAnswer /\ shared' = [shared EXCEPT ![p] = @ + 1] /\ lost' = lost
          \/ MayFail /\ lost' = [lost EXCEPT ![p] = @ + 1] /\ shared' = shared
      BY <1>8, <3>1 DEF Charge
    <3> QED
      BY <1>1, <2>1, <2>2, <2>3, <3>2 DEF Charges, GatewayTypeOK
  <2>4. CASE c \notin Noting(p)
    <3>1. Provider(c) # p \/ chain[c].month # month
      BY <2>1, <2>4 DEF Noting
    <3>2. shared'[p] = shared[p] /\ lost'[p] = lost[p]
      BY <1>1, <1>8, <3>1 DEF Charge, GatewayTypeOK
    <3> QED
      BY <2>1, <2>2, <2>4, <3>2 DEF Spares
  <2> QED
    BY <2>3, <2>4
<1>9. CASE FallBack(c)
  <2>1. chain[c].pc = "choosing" /\ UNCHANGED budget /\ chain'[c].pc = "idle"
    BY <1>1, <1>9 DEF FallBack, Finish, Resting, At
  <2> QED
    BY <1>2, <2>1 DEF Spares, budget, Noting
<1> QED
  BY <1>4, <1>5, <1>6, <1>7, <1>8, <1>9 DEF ChainStep

ChargedAt(p) == answered[p] = shared[p] + lost[p] + Cardinality(Noting(p))

\* While the database answers: the chains that passed the check of a counter
\* below the limit, and those whose answer it has not seen yet.
UpAt(p) ==
  database = "up" =>
    /\ lost[p] = 0
    /\ answered[p] + Cardinality(Pending(p)) <= Limits[p] - 1 + Cardinality(ChainsOf(p))

BudgetInv == GatewayInv /\ \A p \in Limited : ChargedAt(p) /\ UpAt(p)

LEMMA BudgetTypes ==
  ASSUME GatewayInv, NEW p \in Limited
  PROVE  /\ shared[p] \in Nat /\ lost[p] \in Nat /\ answered[p] \in Nat
         /\ answered[p] <= MaxUses /\ MaxUses \in Nat
         /\ Limits[p] \in Nat /\ Limits[p] >= 1
         /\ Cardinality(Noting(p)) \in Nat /\ Cardinality(Pending(p)) \in Nat
         /\ Cardinality(ChainsOf(p)) \in Nat
         /\ Cardinality(Noting(p)) + Cardinality(Pending(p)) <= Cardinality(ChainsOf(p))
<1>1. /\ IsFiniteSet(Noting(p)) /\ IsFiniteSet(Pending(p)) /\ IsFiniteSet(ChainsOf(p))
      /\ Noting(p) \union Pending(p) \subseteq ChainsOf(p)
      /\ Noting(p) \intersect Pending(p) = {}
  BY SetsOfProvider
<1>2. /\ Cardinality(Noting(p)) \in Nat /\ Cardinality(Pending(p)) \in Nat
      /\ Cardinality(ChainsOf(p)) \in Nat
  BY <1>1, FS_CardinalityType
<1>3. Cardinality(Noting(p) \union Pending(p)) = Cardinality(Noting(p)) + Cardinality(Pending(p))
  BY <1>1, DisjointUnion
<1>4. Cardinality(Noting(p) \union Pending(p)) <= Cardinality(ChainsOf(p))
  BY <1>1, FS_Subset
<1>5. /\ shared[p] \in Nat /\ lost[p] \in Nat /\ answered[p] \in 0..MaxUses
      /\ Limits[p] \in Nat /\ Limits[p] > 0 /\ MaxUses \in Nat
  BY GatewayAssumption DEF GatewayInv, GatewayTypeOK, Limited
<1> QED
  BY <1>2, <1>3, <1>4, <1>5

LEMMA ChainStepBudget ==
  ASSUME BudgetInv, NEW c \in Chains, ChainStep(c), NEW p \in Limited
  PROVE  ChargedAt(p)' /\ UpAt(p)'
<1>1. /\ GatewayInv /\ ChargedAt(p) /\ UpAt(p)
      /\ month' = month /\ database' = database
      /\ \A d \in Chains : d # c => chain'[d] = chain[d]
  BY OneChainMoves DEF BudgetInv
<1>2. /\ shared[p] \in Nat /\ lost[p] \in Nat /\ answered[p] \in Nat
      /\ Limits[p] \in Nat /\ Limits[p] >= 1
      /\ Cardinality(Noting(p)) \in Nat /\ Cardinality(Pending(p)) \in Nat
      /\ Cardinality(ChainsOf(p)) \in Nat
  BY <1>1, BudgetTypes
<1>3. Noting(p) \ {c} = Noting(p)' \ {c} /\ Pending(p) \ {c} = Pending(p)' \ {c}
  BY <1>1, OthersStay
<1>4. IsFiniteSet(Noting(p)) /\ IsFiniteSet(Pending(p)) /\ IsFiniteSet(ChainsOf(p))
  BY <1>1, SetsOfProvider
<1>5. /\ Cardinality(Noting(p)') \in Nat
      /\ Cardinality(Noting(p)') + (IF c \in Noting(p) THEN 1 ELSE 0)
           = Cardinality(Noting(p)) + (IF c \in Noting(p)' THEN 1 ELSE 0)
  BY <1>3, <1>4, OneMoves
<1>6. /\ Cardinality(Pending(p)') \in Nat
      /\ Cardinality(Pending(p)') + (IF c \in Pending(p) THEN 1 ELSE 0)
           = Cardinality(Pending(p)) + (IF c \in Pending(p)' THEN 1 ELSE 0)
  BY <1>3, <1>4, OneMoves
<1>7. ChainsOf(p)' = ChainsOf(p)
  OBVIOUS
<1>8. CASE Passes(c, p)
  <2>1. /\ Cardinality(Noting(p)') = Cardinality(Noting(p))
        /\ Cardinality(Pending(p)') = Cardinality(Pending(p)) + 1
    BY <1>2, <1>5, <1>6, <1>8 DEF Passes
  <2>2. Cardinality(Noting(p)) + Cardinality(Pending(p)) + 1 <= Cardinality(ChainsOf(p))
    <3>1. /\ (Noting(p) \union Pending(p)) \union {c} \subseteq ChainsOf(p)
          /\ c \notin Noting(p) \union Pending(p)
          /\ Noting(p) \intersect Pending(p) = {}
      BY <1>1, <1>8, SetsOfProvider DEF Passes
    <3>2. /\ IsFiniteSet(Noting(p) \union Pending(p))
          /\ Cardinality(Noting(p) \union Pending(p))
               = Cardinality(Noting(p)) + Cardinality(Pending(p))
      BY <1>4, <3>1, DisjointUnion
    <3>3. Cardinality((Noting(p) \union Pending(p)) \union {c})
            = Cardinality(Noting(p)) + Cardinality(Pending(p)) + 1
      BY <3>1, <3>2, FS_AddElement
    <3> QED
      BY <1>4, <3>1, <3>3, FS_Subset
  <2>3. /\ shared'[p] = shared[p] /\ lost'[p] = lost[p] /\ answered'[p] = answered[p]
        /\ database = "up" => shared[p] < Limits[p]
    BY <1>8 DEF Passes, budget, MayFail
  <2> QED
    BY <1>1, <1>2, <2>1, <2>2, <2>3 DEF ChargedAt, UpAt
<1>9. CASE Delivers(c, p)
  <2>1. /\ Cardinality(Noting(p)') = Cardinality(Noting(p)) + 1
        /\ Cardinality(Pending(p)') = Cardinality(Pending(p)) - 1
        /\ shared'[p] = shared[p] /\ lost'[p] = lost[p] /\ answered'[p] = answered[p] + 1
    BY <1>2, <1>5, <1>6, <1>9 DEF Delivers
  <2> QED
    BY <1>1, <1>2, <2>1 DEF ChargedAt, UpAt
<1>10. CASE Charges(c, p)
  <2>1. /\ Cardinality(Noting(p)') = Cardinality(Noting(p)) - 1
        /\ Cardinality(Pending(p)') = Cardinality(Pending(p))
        /\ answered'[p] = answered[p]
    BY <1>2, <1>5, <1>6, <1>10 DEF Charges
  <2>2. \/ shared'[p] = shared[p] + 1 /\ lost'[p] = lost[p]
        \/ database # "up" /\ shared'[p] = shared[p] /\ lost'[p] = lost[p] + 1
    BY <1>10 DEF Charges, MayFail
  <2> QED
    BY <1>1, <1>2, <2>1, <2>2 DEF ChargedAt, UpAt
<1>11. CASE Spares(c, p)
  <2>1. /\ Cardinality(Noting(p)') = Cardinality(Noting(p))
        /\ Cardinality(Pending(p)') <= Cardinality(Pending(p))
        /\ shared'[p] = shared[p] /\ lost'[p] = lost[p] /\ answered'[p] = answered[p]
    BY <1>2, <1>5, <1>6, <1>11 DEF Spares
  <2> QED
    BY <1>1, <1>2, <1>6, <2>1 DEF ChargedAt, UpAt
<1> QED
  BY <1>1, <1>8, <1>9, <1>10, <1>11, ChainEffects

LEMMA BudgetInit == GatewayInit => BudgetInv
<1> SUFFICES ASSUME GatewayInit, NEW p \in Limited PROVE ChargedAt(p) /\ UpAt(p)
  BY GatewayInitInv DEF BudgetInv
<1>1. GatewayInv
  BY GatewayInitInv
<1>2. \A c \in Chains : chain[c].pc = "idle"
  BY DEF GatewayInit, Resting, At
<1>3. Noting(p) = {} /\ Pending(p) = {}
  BY <1>2 DEF Noting, Pending, MayUse
<1>4. Cardinality(Noting(p)) = 0 /\ Cardinality(Pending(p)) = 0
  BY <1>3, FS_EmptySet
<1> QED
  BY <1>1, <1>4, BudgetTypes DEF GatewayInit, ChargedAt, UpAt

LEMMA BudgetStep == BudgetInv /\ [GatewayNext]_gatewayVars => BudgetInv'
<1> SUFFICES ASSUME BudgetInv, [GatewayNext]_gatewayVars, NEW p \in Limited
             PROVE  ChargedAt(p)' /\ UpAt(p)'
  BY GatewayStep DEF BudgetInv
<1>1. GatewayInv /\ ChargedAt(p) /\ UpAt(p)
  BY DEF BudgetInv
<1>2. CASE NewMonth
  <2>1. /\ Cardinality(Noting(p)') = 0 /\ Pending(p)' = Pending(p)
        /\ shared'[p] = 0 /\ lost'[p] = 0 /\ answered'[p] = 0
    BY <1>1, <1>2, MonthStarts, FS_EmptySet
  <2>2. /\ Cardinality(Pending(p)) \in Nat /\ Cardinality(ChainsOf(p)) \in Nat
        /\ Cardinality(Noting(p)) \in Nat
        /\ Cardinality(Noting(p)) + Cardinality(Pending(p)) <= Cardinality(ChainsOf(p))
        /\ Limits[p] \in Nat /\ Limits[p] >= 1
    BY <1>1, BudgetTypes
  <2> QED
    BY <2>1, <2>2 DEF ChargedAt, UpAt
<1>3. CASE \/ \E c \in Chains : OpenBook(c)
           \/ \E i \in Instances : OpenDesk(i) \/ StopWaiting(i) \/ Publish(i)
           \/ UNCHANGED gatewayVars
  <2>1. /\ Noting(p)' = Noting(p) /\ Pending(p)' = Pending(p)
        /\ UNCHANGED <<database, month, budget>>
    BY <1>1, <1>3, RestMoves
  <2> QED
    BY <1>1, <2>1 DEF ChargedAt, UpAt, budget
<1> QED
  BY <1>2, <1>3, ChainStepBudget DEF GatewayNext

LEMMA AlwaysBudget == GatewaySpec => []BudgetInv
BY BudgetInit, BudgetStep, PTL DEF GatewaySpec

\* No answer goes uncharged, for any chains, instances and budgets: the chains
\* that outlive the desk's timer charge theirs as well.
THEOREM NothingUncharged == GatewaySpec => []AnswersAreCharged
<1>1. BudgetInv => AnswersAreCharged
  BY DEF BudgetInv, ChargedAt, Noting, AnswersAreCharged
<1> QED
  BY <1>1, AlwaysBudget, PTL

\* While the database is down every instance counts for itself, and what they
\* have counted are the answers: use n of instance i is <<i, n>>.
Uses(p) == {u \in Instances \X (0..MaxUses) : u[2] < local[u[1]][p]}
PendingOf(i, p) == {c \in Pending(p) : InstanceOf(c) = i}
ChainsAt(i, p) == {c \in ChainsOf(p) : InstanceOf(c) = i}

DownAt(p) ==
  /\ answered[p] = Cardinality(Uses(p))
  /\ \A i \in Instances :
       /\ local[i][p] <= answered[p]
       /\ local[i][p] + Cardinality(PendingOf(i, p))
            <= Limits[p] - 1 + Cardinality(ChainsAt(i, p))

Down ==
  database = "down" =>
    /\ \A c \in Chains : chain[c].pc # "deciding"
    /\ \A p \in Limited : DownAt(p)

LEMMA LocalTypes ==
  ASSUME GatewayInv, NEW p \in Limited, NEW i \in Instances
  PROVE  /\ local[i][p] \in Nat
         /\ IsFiniteSet(PendingOf(i, p)) /\ Cardinality(PendingOf(i, p)) \in Nat
         /\ IsFiniteSet(ChainsAt(i, p)) /\ Cardinality(ChainsAt(i, p)) \in Nat
         /\ Cardinality(PendingOf(i, p)) <= Cardinality(ChainsAt(i, p))
<1>1. Pending(p) \subseteq ChainsOf(p) /\ IsFiniteSet(ChainsOf(p))
  BY SetsOfProvider
<1>2. ChainsAt(i, p) \subseteq ChainsOf(p) /\ PendingOf(i, p) \subseteq ChainsAt(i, p)
  BY <1>1 DEF ChainsAt, PendingOf
<1>3. IsFiniteSet(ChainsAt(i, p))
  BY <1>1, <1>2, FS_Subset
<1>4. /\ IsFiniteSet(PendingOf(i, p))
      /\ Cardinality(PendingOf(i, p)) <= Cardinality(ChainsAt(i, p))
  BY <1>2, <1>3, FS_Subset
<1>5. local[i][p] \in Nat
  BY DEF GatewayInv, GatewayTypeOK
<1> QED
  BY <1>3, <1>4, <1>5, FS_CardinalityType

LEMMA UsesFinite ==
  ASSUME NEW p \in Limited
  PROVE  IsFiniteSet(Uses(p)) /\ Cardinality(Uses(p)) \in Nat
<1>1. IsFiniteSet(0..MaxUses)
  BY GatewayAssumption, FS_Interval
<1>2. IsFiniteSet(Uses(p))
  <2>1. IsFiniteSet(Instances \X (0..MaxUses))
    BY <1>1, GatewayAssumption, FS_Product
  <2> QED
    BY <2>1, FS_Subset DEF Uses
<1> QED
  BY <1>2, FS_CardinalityType

LEMMA ChainStepDown ==
  ASSUME GatewayInv, Down, NEW c \in Chains, ChainStep(c)
  PROVE  Down'
<1>1. database' = database /\ month' = month
      /\ \A d \in Chains : d # c => chain'[d] = chain[d]
  BY OneChainMoves
<1> SUFFICES ASSUME database = "down" PROVE Down'
  BY <1>1 DEF Down
<1>2. ~MayAnswer /\ \A d \in Chains : chain[d].pc # "deciding"
  BY DEF MayAnswer, Down
<1>3. ASSUME NEW d \in Chains PROVE chain'[d].pc # "deciding"
  <2>1. CASE d # c
    BY <1>1, <1>2, <2>1
  <2>2. CASE d = c
    <3>1. chain \in [Chains -> ChainState] /\ chain[c] \in ChainState
      BY DEF GatewayInv, GatewayTypeOK
    <3>2. Skip(c) => chain'[c].pc = "choosing"
      BY <3>1 DEF Skip, At
    <3>3. ChainStep(c) => chain'[c].pc \in {"choosing", "asking", "noting", "idle"}
      BY <1>2, <3>1, <3>2
      DEF ChainStep, ReadUsage, Decide, Deliver, Disappoint, Charge, FallBack, Finish,
          Resting, At, ChainState
    <3> QED
      BY <2>2, <3>3
  <2> QED
    BY <2>1, <2>2
<1>4. ASSUME NEW p \in Limited PROVE DownAt(p)'
  <2>1. DownAt(p) /\ answered[p] \in Nat /\ answered[p] <= MaxUses /\ MaxUses \in Nat
        /\ Limits[p] \in Nat /\ Limits[p] >= 1
    BY BudgetTypes DEF Down
  <2> DEFINE k == InstanceOf(c)
  <2>2. k \in Instances
    BY DEF Chains, InstanceOf
  <2>3. Pending(p) \ {c} = Pending(p)' \ {c}
    BY <1>1, OthersStay
  <2>4. ASSUME NEW i \in Instances
        PROVE  /\ PendingOf(i, p) \ {c} = PendingOf(i, p)' \ {c}
               /\ Cardinality(PendingOf(i, p)') \in Nat
               /\ Cardinality(PendingOf(i, p)') + (IF c \in PendingOf(i, p) THEN 1 ELSE 0)
                    = Cardinality(PendingOf(i, p)) + (IF c \in PendingOf(i, p)' THEN 1 ELSE 0)
    <3>1. PendingOf(i, p) \ {c} = PendingOf(i, p)' \ {c}
      BY <2>3 DEF PendingOf
    <3>2. IsFiniteSet(PendingOf(i, p))
      BY LocalTypes
    <3> QED
      BY <3>1, <3>2, OneMoves
  <2>5. \A i \in Instances : ChainsAt(i, p)' = ChainsAt(i, p)
    BY DEF ChainsAt
  <2>6. \A i \in Instances :
          /\ local[i][p] \in Nat /\ Cardinality(PendingOf(i, p)) \in Nat
          /\ Cardinality(ChainsAt(i, p)) \in Nat
          /\ Cardinality(PendingOf(i, p)) <= Cardinality(ChainsAt(i, p))
          /\ local[i][p] <= answered[p]
          /\ local[i][p] + Cardinality(PendingOf(i, p))
               <= Limits[p] - 1 + Cardinality(ChainsAt(i, p))
    BY <2>1, LocalTypes DEF DownAt
  <2>7. ASSUME answered'[p] = answered[p], \A i \in Instances : local'[i][p] = local[i][p],
               c \in Pending(p)' => c \in Pending(p)
        PROVE  DownAt(p)'
    <3>1. Uses(p)' = Uses(p)
      BY <2>7 DEF Uses
    <3>2. ASSUME NEW i \in Instances
          PROVE  Cardinality(PendingOf(i, p)') <= Cardinality(PendingOf(i, p))
      <4>1. c \in PendingOf(i, p)' => c \in PendingOf(i, p)
        BY <2>7 DEF PendingOf
      <4> QED
        BY <2>4, <2>6, <4>1
    <3>3. \A i \in Instances : Cardinality(PendingOf(i, p)') \in Nat
      BY <2>4
    <3> QED
      BY <2>1, <2>5, <2>6, <2>7, <3>1, <3>2, <3>3 DEF DownAt
  <2>8. CASE Passes(c, p)
    <3>1. /\ answered' = answered /\ local' = local
          /\ local[k][p] < Limits[p]
      BY <1>2, <2>8 DEF Passes, budget
    <3>2. Uses(p)' = Uses(p)
      BY <3>1 DEF Uses
    <3>3. ASSUME NEW i \in Instances
          PROVE  local[i][p] + Cardinality(PendingOf(i, p)')
                   <= Limits[p] - 1 + Cardinality(ChainsAt(i, p))
      <4>1. CASE i # k
        <5>1. c \notin PendingOf(i, p)' /\ c \notin PendingOf(i, p)
          BY <4>1 DEF PendingOf
        <5> QED
          BY <2>4, <2>6, <5>1
      <4>2. CASE i = k
        <5>1. /\ PendingOf(i, p) \union {c} \subseteq ChainsAt(i, p)
              /\ c \notin PendingOf(i, p) /\ c \in PendingOf(i, p)'
          BY <2>8, <4>2, SetsOfProvider DEF Passes, PendingOf, ChainsAt
        <5>2. Cardinality(PendingOf(i, p)) + 1 <= Cardinality(ChainsAt(i, p))
          <6>1. Cardinality(PendingOf(i, p) \union {c}) = Cardinality(PendingOf(i, p)) + 1
            BY <5>1, LocalTypes, FS_AddElement
          <6>2. IsFiniteSet(ChainsAt(i, p))
            BY LocalTypes
          <6> QED
            BY <5>1, <6>1, <6>2, FS_Subset
        <5>3. Cardinality(PendingOf(i, p)') = Cardinality(PendingOf(i, p)) + 1
          BY <2>4, <2>6, <5>1
        <5> QED
          BY <2>1, <2>6, <3>1, <4>2, <5>2, <5>3
      <4> QED
        BY <4>1, <4>2
    <3> QED
      BY <2>1, <2>5, <2>6, <3>1, <3>2, <3>3 DEF DownAt
  <2>9. CASE Delivers(c, p)
    <3>1. /\ answered[p] < MaxUses /\ answered'[p] = answered[p] + 1
          /\ local'[k][p] = local[k][p] + 1
          /\ \A i \in Instances : i # k => local'[i][p] = local[i][p]
      BY <2>9 DEF Delivers
    <3>2. Cardinality(Uses(p)') = Cardinality(Uses(p)) + 1
      <4>1. PICK n \in 0..MaxUses : n = local[k][p]
        BY <2>1, <2>2, <2>6, <3>1
      <4>2. Uses(p)' = Uses(p) \union {<<k, n>>}
        <5>1. ASSUME NEW u \in Instances \X (0..MaxUses)
              PROVE  u[2] < local'[u[1]][p] <=> (u[2] < local[u[1]][p] \/ u = <<k, n>>)
          <6>1. CASE u[1] # k
            BY <3>1, <6>1
          <6>2. CASE u[1] = k
            BY <2>2, <2>6, <3>1, <4>1, <6>2
          <6> QED
            BY <6>1, <6>2
        <5>2. <<k, n>> \in Instances \X (0..MaxUses)
          BY <2>2, <4>1
        <5> QED
          BY <5>1, <5>2 DEF Uses
      <4>3. <<k, n>> \notin Uses(p)
        BY <4>1 DEF Uses
      <4> QED
        BY <4>2, <4>3, UsesFinite, FS_AddElement
    <3>3. ASSUME NEW i \in Instances
          PROVE  local'[i][p] + Cardinality(PendingOf(i, p)')
                   <= Limits[p] - 1 + Cardinality(ChainsAt(i, p))
      <4>1. CASE i # k
        <5>1. c \notin PendingOf(i, p)' /\ c \notin PendingOf(i, p)
          BY <4>1 DEF PendingOf
        <5> QED
          BY <2>4, <2>6, <3>1, <4>1, <5>1
      <4>2. CASE i = k
        <5>1. c \in PendingOf(i, p) /\ c \notin PendingOf(i, p)'
          BY <2>9, <4>2 DEF Delivers, PendingOf
        <5>2. Cardinality(PendingOf(i, p)') = Cardinality(PendingOf(i, p)) - 1
          BY <2>4, <2>6, <5>1
        <5> QED
          BY <2>1, <2>6, <3>1, <4>2, <5>2
      <4> QED
        BY <4>1, <4>2
    <3>4. \A i \in Instances : local'[i][p] <= answered'[p]
      BY <2>1, <2>6, <3>1
    <3> QED
      BY <2>1, <2>5, <3>1, <3>2, <3>3, <3>4 DEF DownAt
  <2>10. CASE Charges(c, p)
    BY <2>7, <2>10 DEF Charges
  <2>11. CASE Spares(c, p)
    BY <1>2, <2>7, <2>11 DEF Spares
  <2> QED
    BY <2>8, <2>9, <2>10, <2>11, ChainEffects
<1> QED
  BY <1>3, <1>4 DEF Down

LEMMA DownInit == GatewayInit => Down
<1> SUFFICES ASSUME GatewayInit, NEW p \in Limited PROVE DownAt(p)
  <2>1. GatewayInit => \A c \in Chains : chain[c].pc # "deciding"
    BY DEF GatewayInit, Resting, At
  <2> QED
    BY <2>1 DEF Down
<1>1. GatewayInv
  BY GatewayInitInv
<1>2. \A c \in Chains : chain[c].pc = "idle"
  BY DEF GatewayInit, Resting, At
<1>3. Uses(p) = {}
  BY DEF GatewayInit, Uses
<1>4. \A i \in Instances : PendingOf(i, p) = {}
  BY <1>2 DEF PendingOf, Pending, MayUse
<1>5. \A i \in Instances : Cardinality(ChainsAt(i, p)) \in Nat
  BY <1>1, LocalTypes
<1>6. Limits[p] \in Nat /\ Limits[p] >= 1
  BY <1>1, BudgetTypes
<1>7. answered[p] = 0 /\ \A i \in Instances : local[i][p] = 0
  BY DEF GatewayInit
<1>8. Cardinality(Uses(p)) = 0 /\ \A i \in Instances : Cardinality(PendingOf(i, p)) = 0
  BY <1>3, <1>4, FS_EmptySet
<1> QED
  BY <1>5, <1>6, <1>7, <1>8 DEF DownAt

LEMMA DownStep == GatewayInv /\ Down /\ [GatewayNext]_gatewayVars => Down'
<1> SUFFICES ASSUME GatewayInv, Down, [GatewayNext]_gatewayVars PROVE Down'
  OBVIOUS
<1>1. CASE NewMonth
  <2> SUFFICES ASSUME database = "down", NEW p \in Limited PROVE DownAt(p)'
    BY <1>1 DEF Down, NewMonth
  <2>1. /\ Pending(p)' = Pending(p) /\ answered'[p] = 0
        /\ \A i \in Instances : local'[i][p] = 0
    BY <1>1, MonthStarts
  <2>2. Uses(p)' = {}
    BY <2>1 DEF Uses
  <2>3. \A i \in Instances : PendingOf(i, p)' = PendingOf(i, p) /\ ChainsAt(i, p)' = ChainsAt(i, p)
    BY <2>1 DEF PendingOf, ChainsAt
  <2>4. \A i \in Instances :
          /\ Cardinality(PendingOf(i, p)) \in Nat /\ Cardinality(ChainsAt(i, p)) \in Nat
          /\ Cardinality(PendingOf(i, p)) <= Cardinality(ChainsAt(i, p))
    BY LocalTypes
  <2>5. Limits[p] \in Nat /\ Limits[p] >= 1
    BY BudgetTypes
  <2> QED
    BY <2>1, <2>2, <2>3, <2>4, <2>5, FS_EmptySet DEF DownAt
<1>2. CASE \/ \E c \in Chains : OpenBook(c)
           \/ \E i \in Instances : OpenDesk(i) \/ StopWaiting(i) \/ Publish(i)
           \/ UNCHANGED gatewayVars
  <2>1. /\ \A p \in Limited : Pending(p)' = Pending(p)
        /\ UNCHANGED <<month, budget>>
        /\ database' = database
    BY <1>2, RestMoves
       DEF OpenBook, OpenDesk, StopWaiting, Publish, gatewayVars, budget
  <2>2. \A p \in Limited : Uses(p)' = Uses(p)
    BY <2>1 DEF Uses, budget
  <2>3. \A p \in Limited, i \in Instances :
          PendingOf(i, p)' = PendingOf(i, p) /\ ChainsAt(i, p)' = ChainsAt(i, p)
    BY <2>1 DEF PendingOf, ChainsAt
  <2>4. \A p \in Limited : DownAt(p) => DownAt(p)'
    BY <2>1, <2>2, <2>3 DEF DownAt, budget
  <2>5. ASSUME NEW d \in Chains, chain[d].pc # "deciding" PROVE chain'[d].pc # "deciding"
    <3>1. ASSUME NEW c \in Chains, OpenBook(c) PROVE chain'[d].pc # "deciding"
      BY <2>5, <3>1, OpenBookStarts DEF At
    <3>2. ASSUME NEW i \in Instances, OpenDesk(i) PROVE chain'[d].pc # "deciding"
      BY <2>5, <3>2 DEF OpenDesk, At
    <3> QED
      BY <1>2, <2>5, <3>1, <3>2 DEF StopWaiting, Publish, gatewayVars
  <2> QED
    BY <2>1, <2>4, <2>5 DEF Down
<1> QED
  BY <1>1, <1>2, ChainStepDown DEF GatewayNext

\* The uses beyond an instance's own limit are at most its chains.
LEMMA UsesBound ==
  ASSUME GatewayInv, NEW p \in Limited, DownAt(p)
  PROVE  answered[p] <= Cardinality(Instances) * (Limits[p] - 1) + Cardinality(ChainsOf(p))
<1> DEFINE L == Limits[p]
           Low == {u \in Uses(p) : u[2] < L - 1}
           High == {u \in Uses(p) : ~(u[2] < L - 1)}
<1>1. /\ L \in Nat /\ L >= 1 /\ MaxUses \in Nat
      /\ IsFiniteSet(Instances) /\ Cardinality(Instances) \in Nat
      /\ IsFiniteSet(ChainsOf(p)) /\ Cardinality(ChainsOf(p)) \in Nat
  BY BudgetTypes, SetsOfProvider, GatewayAssumption, FS_CardinalityType
<1>2. /\ Uses(p) = Low \union High /\ Low \intersect High = {}
      /\ IsFiniteSet(Low) /\ IsFiniteSet(High)
  BY UsesFinite, FS_Subset
<1>3. Cardinality(Low) <= Cardinality(Instances) * (L - 1)
  <2>1. IsFiniteSet(0..(L - 2)) /\ Cardinality(0..(L - 2)) = L - 1
    <3>1. PICK n \in Int : n = L - 2
      BY <1>1
    <3>2. /\ IsFiniteSet(0..n)
          /\ Cardinality(0..n) = IF 0 > n THEN 0 ELSE n - 0 + 1
      BY FS_Interval
    <3>3. Cardinality(0..n) = n + 1
      BY <1>1, <3>1, <3>2
    <3> HIDE DEF L
    <3> QED
      BY <1>1, <3>1, <3>2, <3>3
  <2>2. /\ IsFiniteSet(Instances \X (0..(L - 2)))
        /\ Cardinality(Instances \X (0..(L - 2)))
             = Cardinality(Instances) * Cardinality(0..(L - 2))
    BY <1>1, <2>1, FS_Product
  <2>3. Low \subseteq Instances \X (0..(L - 2))
    BY <1>1 DEF Uses
  <2>4. Cardinality(Low) <= Cardinality(Instances \X (0..(L - 2)))
    BY <2>2, <2>3, FS_Subset
  <2> QED
    BY <2>1, <2>2, <2>4
<1>4. Cardinality(High) <= Cardinality(ChainsOf(p))
  <2> DEFINE size(i) == Cardinality(ChainsAt(i, p))
             f == [i \in Instances |-> CHOOSE g : g \in Bijection(1..size(i), ChainsAt(i, p))]
             h == [u \in High |-> f[u[1]][u[2] - L + 2]]
  <2>1. ASSUME NEW i \in Instances
        PROVE  f[i] \in Bijection(1..size(i), ChainsAt(i, p))
    <3>1. ExistsBijection(1..size(i), ChainsAt(i, p))
      BY LocalTypes, FS_CardinalityType
    <3> QED
      BY <3>1 DEF ExistsBijection
  <2>2. ASSUME NEW u \in High
        PROVE  u[1] \in Instances /\ u[2] \in Nat /\ u[2] - L + 2 \in 1..size(u[1])
    <3>1. u[1] \in Instances /\ u[2] \in 0..MaxUses /\ u[2] < local[u[1]][p] /\ ~(u[2] < L - 1)
      BY DEF Uses
    <3>2. /\ local[u[1]][p] \in Nat /\ size(u[1]) \in Nat
          /\ Cardinality(PendingOf(u[1], p)) \in Nat
          /\ local[u[1]][p] + Cardinality(PendingOf(u[1], p)) <= L - 1 + size(u[1])
      BY <3>1, LocalTypes DEF DownAt
    <3> HIDE DEF L, size
    <3> QED
      BY <1>1, <3>1, <3>2
  <2>3. ASSUME NEW u \in High PROVE h[u] \in ChainsOf(p) /\ InstanceOf(h[u]) = u[1]
    <3>1. f[u[1]] \in [1..size(u[1]) -> ChainsAt(u[1], p)]
      BY <2>1, <2>2 DEF Bijection, Injection, IsInjective
    <3>2. h[u] \in ChainsAt(u[1], p)
      BY <2>2, <3>1
    <3> QED
      BY <3>2 DEF ChainsAt
  <2>4. ASSUME NEW u \in High, NEW v \in High, h[u] = h[v] PROVE u = v
    <3>1. u[1] = v[1]
      BY <2>3, <2>4
    <3>2. f[u[1]][u[2] - L + 2] = f[u[1]][v[2] - L + 2]
      BY <2>4, <3>1
    <3>3. u[2] - L + 2 = v[2] - L + 2
      <4>1. \A a, b \in 1..size(u[1]) : f[u[1]][a] = f[u[1]][b] => a = b
        BY <2>1, <2>2 DEF Bijection, Injection, IsInjective
      <4> HIDE DEF f, size
      <4> QED
        BY <2>2, <3>1, <3>2, <4>1
    <3>4. u[2] = v[2]
      BY <1>1, <2>2, <3>3
    <3>5. u \in Instances \X (0..MaxUses) /\ v \in Instances \X (0..MaxUses)
      BY DEF Uses
    <3> QED
      BY <3>1, <3>4, <3>5
  <2>5. h \in [High -> ChainsOf(p)]
    BY <2>3
  <2> HIDE DEF h, High
  <2>6. h \in Injection(High, ChainsOf(p))
    BY <2>4, <2>5 DEF Injection, IsInjective
  <2> QED
    BY <1>1, <2>6, FS_Injection
<1>5. Cardinality(Uses(p)) = Cardinality(Low) + Cardinality(High)
  <2> HIDE DEF Low, High
  <2> QED
    BY <1>2, DisjointUnion
<1>6. Cardinality(Low) \in Nat /\ Cardinality(High) \in Nat
  BY <1>2, FS_CardinalityType
<1>7. PICK limit \in Int : limit = Cardinality(Instances) * (L - 1)
  BY <1>1
<1> HIDE DEF L, Low, High
<1> QED
  BY <1>1, <1>3, <1>4, <1>5, <1>6, <1>7 DEF DownAt, L

\* The soft cap of a provider is exceeded by what is in flight and no more, for
\* any number of instances, chains and any limits.
THEOREM SoftCapHolds == GatewaySpec => []CapHolds
<1>1. BudgetInv /\ Down => CapHolds
  <2> SUFFICES ASSUME BudgetInv, Down, NEW p \in Limited
               PROVE  /\ database = "up" =>
                           answered[p] <= Limits[p] - 1 + Cardinality(ChainsOf(p))
                      /\ database = "down" =>
                           answered[p] <= Cardinality(Instances) * (Limits[p] - 1)
                                            + Cardinality(ChainsOf(p))
    BY DEF CapHolds
  <2>1. GatewayInv /\ UpAt(p)
    BY DEF BudgetInv
  <2>2. /\ answered[p] \in Nat /\ Limits[p] \in Nat /\ Cardinality(Pending(p)) \in Nat
        /\ Cardinality(ChainsOf(p)) \in Nat
    BY <2>1, BudgetTypes
  <2> QED
    BY <2>1, <2>2, UsesBound DEF UpAt, Down
<1>2. GatewaySpec => []Down
  BY GatewayInitInv, GatewayStep, DownInit, DownStep, PTL DEF GatewaySpec
<1> QED
  BY <1>1, <1>2, AlwaysBudget, PTL

-----------------------------------------------------------------------------
(* The live desk is answered                                               *)

\* A desk waits for a chain only while that chain runs.
NobodyForgotten ==
  \A c \in Chains :
    TaskOf(c) \in DeskTasks /\ desk[InstanceOf(c)].pc = "loading"
      => answer[c] # None \/ chain[c].pc # "idle"

AwaitInv == GatewayInv /\ NobodyForgotten

\* A book that an adapter gives is no sign of absence.
LEMMA BooksCountRows ==
  ASSUME NEW c \in Chains, NEW book \in Books(c)
  PROVE  book.rows \in Nat
<1>1. Universe[TaskOf(c)] \in Nat \ {0} /\ Cap \in Nat
  BY GatewayAssumption DEF Chains, TaskOf
<1>2. LesserOf(Universe[TaskOf(c)], Cap) \in Nat
  BY <1>1 DEF LesserOf
<1>3. Nothing.rows \in Nat
  BY DEF Nothing, Book
<1>4. CASE book \in BrapiBooks(Universe[TaskOf(c)])
  <2> DEFINE capped == LesserOf(Universe[TaskOf(c)], Cap)
  <2>1. book = Nothing \/ \E n \in 1..capped : book = Book(n, n < capped)
    BY <1>4 DEF BrapiBooks
  <2>2. ASSUME NEW n \in 1..capped PROVE Book(n, n < capped).rows \in Nat
    BY <1>2 DEF Book
  <2> QED
    BY <1>3, <2>1, <2>2
<1>5. CASE book \in YahooBooks(Universe[TaskOf(c)])
  <2> DEFINE asked == Universe[TaskOf(c)]
  <2>1. book = Nothing \/ \E n \in 1..asked : book = Book(n, n < asked)
    BY <1>5 DEF YahooBooks
  <2>2. ASSUME NEW n \in 1..asked PROVE Book(n, n < asked).rows \in Nat
    BY <1>1 DEF Book
  <2> QED
    BY <1>3, <2>1, <2>2
<1>6. CASE book \in TopCoinBooks(Universe[TaskOf(c)])
  BY <1>1, <1>6 DEF TopCoinBooks, Book
<1>7. CASE book \in SectorCoinBooks(Universe[TaskOf(c)])
  BY <1>1, <1>7 DEF SectorCoinBooks, Book
<1> QED
  BY <1>4, <1>5, <1>6, <1>7 DEF Books

\* A chain that ends answers those who wait for it, and nobody else.
LEMMA EndAnswers ==
  ASSUME AwaitInv, NEW c \in Chains, Charge(c) \/ FallBack(c)
  PROVE  /\ chain' = [chain EXCEPT ![c] = Resting]
         /\ Awaited(c) => answer'[c] # None
         /\ ~Awaited(c) => answer' = answer
         /\ \A d \in Chains \ {c} : answer'[d] = answer[d]
<1>1. GatewayTypeOK /\ InPlace(c) /\ answer \in [Chains -> Rows]
  BY DEF AwaitInv, GatewayInv, GatewayTypeOK
<1>2. PICK book : Finish(c, book) /\ book.rows \in Nat
  <2>1. CASE Charge(c)
    BY <1>1, <2>1, BooksCountRows DEF Charge, InPlace
  <2>2. CASE FallBack(c)
    <3>1. Nothing.rows \in Nat
      BY DEF Nothing, Book
    <3> QED
      BY <2>2, <3>1 DEF FallBack
  <2> QED
    BY <2>1, <2>2
<1>3. PICK told : /\ told.rows \in Nat
                  /\ answer' = IF Awaited(c) THEN [answer EXCEPT ![c] = told] ELSE answer
  BY <1>2 DEF Finish, Book
<1>4. told # None
  BY <1>3 DEF None
<1> QED
  BY <1>1, <1>2, <1>3, <1>4 DEF Finish

\* Any other step of a chain keeps it running and answers nobody.
LEMMA StepRunsOn ==
  ASSUME AwaitInv, NEW c \in Chains, ChainStep(c), ~Charge(c), ~FallBack(c)
  PROVE  /\ answer' = answer /\ desk' = desk
         /\ chain'[c].pc # "idle" /\ \A d \in Chains \ {c} : chain'[d] = chain[d]
<1>1. chain \in [Chains -> ChainState]
  BY DEF AwaitInv, GatewayInv, GatewayTypeOK
<1>2. Skip(c) => chain'[c].pc = "choosing" /\ \A d \in Chains \ {c} : chain'[d] = chain[d]
  BY <1>1 DEF Skip, At
<1>3. CASE ReadUsage(c)
  BY <1>1, <1>2, <1>3 DEF ReadUsage, ChainState
<1>4. CASE Decide(c)
  BY <1>1, <1>2, <1>4 DEF Decide, ChainState
<1>5. CASE Deliver(c)
  BY <1>1, <1>5 DEF Deliver, ChainState
<1>6. CASE Disappoint(c)
  BY <1>2, <1>6 DEF Disappoint
<1> QED
  BY <1>3, <1>4, <1>5, <1>6 DEF ChainStep

LEMMA AwaitInit == GatewayInit => AwaitInv
<1> SUFFICES ASSUME GatewayInit PROVE AwaitInv
  OBVIOUS
<1>1. NobodyForgotten
  BY DEF GatewayInit, NobodyForgotten, Chains, InstanceOf
<1> QED
  BY <1>1, GatewayInitInv DEF AwaitInv

LEMMA AwaitStep == AwaitInv /\ [GatewayNext]_gatewayVars => AwaitInv'
<1> SUFFICES ASSUME AwaitInv, [GatewayNext]_gatewayVars PROVE AwaitInv'
  OBVIOUS
<1>1. GatewayInv /\ NobodyForgotten /\ GatewayInv' /\ GatewayTypeOK
  BY GatewayStep DEF AwaitInv, GatewayInv
<1>2. /\ chain \in [Chains -> ChainState] /\ answer \in [Chains -> Rows]
      /\ \A i \in Instances : desk[i].pc \in {"idle", "loading"}
      /\ \A d \in Chains : InstanceOf(d) \in Instances
  BY <1>1 DEF GatewayTypeOK, Chains, InstanceOf
<1> SUFFICES ASSUME NEW d \in Chains, TaskOf(d) \in DeskTasks,
                    desk'[InstanceOf(d)].pc = "loading"
             PROVE  answer'[d] # None \/ chain'[d].pc # "idle"
  BY <1>1 DEF AwaitInv, NobodyForgotten
<1>3. CASE UNCHANGED <<chain, answer, desk>>
  BY <1>1, <1>3 DEF NobodyForgotten
<1>4. ASSUME NEW c \in Chains, OpenBook(c) PROVE answer'[d] # None \/ chain'[d].pc # "idle"
  <2>1. c # d
    BY <1>4 DEF OpenBook, BookTasks, DeskTasks
  <2>2. chain'[d] = chain[d] /\ answer'[d] = answer[d] /\ desk' = desk
    BY <1>2, <1>4, <2>1 DEF OpenBook
  <2> QED
    BY <1>1, <2>2 DEF NobodyForgotten
<1>5. ASSUME NEW c \in Chains, ChainStep(c) PROVE answer'[d] # None \/ chain'[d].pc # "idle"
  <2>1. desk' = desk
    BY <1>5 DEF ChainStep, ReadUsage, Decide, Deliver, Disappoint, Charge, FallBack
  <2>2. CASE Charge(c) \/ FallBack(c)
    <3>1. CASE c = d
      BY <2>1, <2>2, <3>1, EndAnswers DEF Awaited
    <3>2. CASE c # d
      <4>1. chain'[d] = chain[d] /\ answer'[d] = answer[d]
        BY <1>2, <2>2, <3>2, EndAnswers
      <4> QED
        BY <1>1, <2>1, <4>1 DEF NobodyForgotten
    <3> QED
      BY <3>1, <3>2
  <2>3. CASE ~Charge(c) /\ ~FallBack(c)
    BY <1>1, <1>5, <2>3, StepRunsOn DEF NobodyForgotten
  <2> QED
    BY <2>2, <2>3
<1>6. ASSUME NEW i \in Instances, OpenDesk(i) PROVE answer'[d] # None \/ chain'[d].pc # "idle"
  <2>1. CASE d \in DeskChains(i)
    <3>1. chain'[d].pc = "choosing"
      BY <1>6, <2>1 DEF OpenDesk, At
    <3> QED
      BY <3>1
  <2>2. CASE d \notin DeskChains(i)
    <3>1. InstanceOf(d) # i
      BY <2>2 DEF DeskChains, Chains, InstanceOf, TaskOf
    <3>2. chain'[d] = chain[d] /\ answer' = answer
          /\ desk'[InstanceOf(d)] = desk[InstanceOf(d)]
      BY <1>1, <1>2, <1>6, <2>2, <3>1 DEF OpenDesk, GatewayTypeOK
    <3> QED
      BY <1>1, <3>2 DEF NobodyForgotten
  <2> QED
    BY <2>1, <2>2
<1>7. ASSUME NEW i \in Instances, StopWaiting(i)
      PROVE  answer'[d] # None \/ chain'[d].pc # "idle"
  <2>1. Nothing # None
    BY DEF Nothing, None, Book
  <2>2. answer'[d] = answer[d] \/ answer'[d] = Nothing
    BY <1>2, <1>7 DEF StopWaiting
  <2>3. chain' = chain /\ desk' = desk
    BY <1>7 DEF StopWaiting
  <2> QED
    BY <1>1, <2>1, <2>2, <2>3 DEF NobodyForgotten
<1>8. ASSUME NEW i \in Instances, Publish(i) PROVE answer'[d] # None \/ chain'[d].pc # "idle"
  <2>1. desk'[i].pc = "idle" /\ \A j \in Instances \ {i} : desk'[j] = desk[j]
    BY <1>1, <1>8 DEF Publish, GatewayTypeOK
  <2>2. InstanceOf(d) # i
    BY <2>1
  <2>3. d \notin DeskChains(i)
    BY <2>2 DEF DeskChains, InstanceOf
  <2>4. answer'[d] = answer[d] /\ chain' = chain
    BY <1>8, <2>3 DEF Publish
  <2> QED
    BY <1>1, <1>2, <2>1, <2>2, <2>4 DEF NobodyForgotten
<1> QED
  BY <1>3, <1>4, <1>5, <1>6, <1>7, <1>8 DEF GatewayNext, NewMonth, gatewayVars

\* The chains behind the timer's: each has one provider to ask.
SureTasks == DeskTasks \ {"br_equities_snapshot"}
Waits(c) == desk[InstanceOf(c)].pc = "loading" /\ answer[c] = None

\* How many steps a chain of one provider has before it at most.
AskRank(c) ==
  CASE chain[c].pc = "idle" -> 0
    [] chain[c].pc = "choosing" -> IF chain[c].left = {} THEN 1 ELSE 5
    [] chain[c].pc = "noting" -> 2
    [] chain[c].pc = "asking" -> 3
    [] chain[c].pc = "deciding" -> 4

LEMMA OneProvider ==
  ASSUME NEW t \in SureTasks
  PROVE  Queue(t) \subseteq {1}
<1>1. /\ TASK_PRIORITIES["intl_equities_snapshot"]
           = <<"yahoo", "finnhub", "marketstack", "alpha_vantage">>
      /\ TASK_PRIORITIES["crypto_snapshot"] = <<"coingecko">>
      /\ Executors["intl_equities_snapshot"] = {"yahoo", "financial_modeling_prep"}
      /\ Executors["crypto_snapshot"] = {"coingecko"}
  BY DEF TASK_PRIORITIES, Executors, Tasks, DeskTasks, BookTasks
<1>2. CASE t = "intl_equities_snapshot"
  BY <1>1, <1>2 DEF Queue
<1>3. CASE t = "crypto_snapshot"
  BY <1>1, <1>3 DEF Queue
<1> QED
  BY <1>2, <1>3 DEF SureTasks, DeskTasks

LEMMA AskRankType ==
  ASSUME GatewayInv, NEW c \in Chains
  PROVE  AskRank(c) \in 0..5 /\ (AskRank(c) = 0 => chain[c].pc = "idle")
<1>1. chain[c] \in ChainState
  BY DEF GatewayInv, GatewayTypeOK
<1> QED
  BY <1>1 DEF AskRank, ChainState

\* A step of such a chain answers those who wait for it, or comes nearer to it.
LEMMA StepNearer ==
  ASSUME AwaitInv, NEW c \in Chains, TaskOf(c) \in SureTasks, ChainStep(c), Waits(c)
  PROVE  answer'[c] # None \/ AskRank(c)' < AskRank(c)
<1>1. /\ chain \in [Chains -> ChainState] /\ chain[c] \in ChainState
      /\ GatewayInv /\ GatewayInv' /\ InPlace(c) /\ TaskOf(c) \in DeskTasks
  BY ChainStepKeeps DEF AwaitInv, GatewayInv, GatewayTypeOK, SureTasks
<1>2. chain[c].left \subseteq {1}
  BY <1>1, OneProvider DEF InPlace
<1>3. Skip(c) /\ chain[c].left # {} => chain'[c].pc = "choosing" /\ chain'[c].left = {}
  <2> SUFFICES ASSUME Skip(c), chain[c].left # {}
               PROVE  chain'[c].pc = "choosing" /\ chain'[c].left = {}
    OBVIOUS
  <2>1. chain[c].left = {1} /\ Foremost(chain[c].left) \in chain[c].left
    BY <1>2, ForemostIsThere DEF Places
  <2> QED
    BY <1>1, <2>1 DEF Skip, At
<1>4. CASE Charge(c) \/ FallBack(c)
  BY <1>1, <1>4, EndAnswers DEF Waits, Awaited
<1>5. CASE ReadUsage(c)
  <2>1. chain[c].pc = "choosing" /\ chain[c].left # {}
    BY <1>5 DEF ReadUsage
  <2>2. Skip(c) \/ chain'[c].pc \in {"asking", "deciding"}
    BY <1>1, <1>5 DEF ReadUsage, ChainState
  <2> QED
    BY <1>3, <2>1, <2>2 DEF AskRank
<1>6. CASE Decide(c)
  <2>1. chain[c].pc = "deciding" /\ chain[c].left # {}
    BY <1>1, <1>6 DEF Decide, InPlace
  <2>2. Skip(c) \/ chain'[c].pc = "asking"
    BY <1>1, <1>6 DEF Decide, ChainState
  <2> QED
    BY <1>3, <2>1, <2>2 DEF AskRank
<1>7. CASE Deliver(c)
  <2>1. chain[c].pc = "asking" /\ chain'[c].pc = "noting"
    BY <1>1, <1>7 DEF Deliver, ChainState
  <2> QED
    BY <2>1 DEF AskRank
<1>8. CASE Disappoint(c)
  <2>1. chain[c].pc = "asking" /\ chain[c].left # {} /\ Skip(c)
    BY <1>1, <1>8 DEF Disappoint, InPlace
  <2> QED
    BY <1>3, <2>1 DEF AskRank
<1> QED
  BY <1>4, <1>5, <1>6, <1>7, <1>8 DEF ChainStep

\* No step but its own moves a chain that a desk waits for.
LEMMA OthersLeave ==
  ASSUME AwaitInv, NEW c \in Chains, TaskOf(c) \in DeskTasks, Waits(c),
         [GatewayNext]_gatewayVars, ~ChainStep(c), Waits(c)'
  PROVE  AskRank(c)' = AskRank(c)
<1>1. /\ chain \in [Chains -> ChainState] /\ GatewayInv
      /\ desk[InstanceOf(c)].pc = "loading" /\ InstanceOf(c) \in Instances
  BY DEF AwaitInv, GatewayInv, GatewayTypeOK, Waits, Chains, InstanceOf
<1> SUFFICES chain'[c] = chain[c]
  BY DEF AskRank
<1>2. ASSUME NEW d \in Chains, OpenBook(d) PROVE chain'[c] = chain[c]
  <2>1. c # d
    BY <1>2 DEF OpenBook, BookTasks, DeskTasks
  <2> QED
    BY <1>1, <1>2, <2>1 DEF OpenBook
<1>3. ASSUME NEW d \in Chains, ChainStep(d) PROVE chain'[c] = chain[c]
  <2>1. c # d
    BY <1>3
  <2>2. CASE Charge(d) \/ FallBack(d)
    BY <1>1, <2>1, <2>2, EndAnswers
  <2>3. CASE ~Charge(d) /\ ~FallBack(d)
    BY <1>3, <2>1, <2>3, StepRunsOn
  <2> QED
    BY <2>2, <2>3
<1>4. ASSUME NEW i \in Instances, OpenDesk(i) PROVE chain'[c] = chain[c]
  <2>1. i # InstanceOf(c)
    BY <1>1, <1>4 DEF OpenDesk
  <2>2. c \notin DeskChains(i)
    BY <2>1 DEF DeskChains, InstanceOf
  <2> QED
    BY <1>4, <2>2 DEF OpenDesk
<1> QED
  BY <1>2, <1>3, <1>4 DEF GatewayNext, StopWaiting, Publish, NewMonth, gatewayVars

\* The fairness of the chains and of the desk, with their guards spelled out: a
\* chain has not ended; a desk loads, and the timer may fire or its parts are there.
ChainComes(c) == <>(chain[c].pc = "idle") \/ <><<ChainStep(c)>>_gatewayVars

DeskMoves(i) ==
  /\ desk[i].pc = "loading"
  /\ \/ answer[<<i, "br_equities_snapshot">>] = None
     \/ \A c \in DeskChains(i) : answer[c] # None

DeskComes(i) == <>~DeskMoves(i) \/ <><<StopWaiting(i) \/ Publish(i)>>_gatewayVars

GatewayGoesOn ==
  \A i \in Instances : DeskTasks \subseteq Serves[i] =>
    /\ \A t \in SureTasks : ChainComes(<<i, t>>)
    /\ DeskComes(i)

FairGateway == [][GatewayNext]_gatewayVars /\ []AwaitInv /\ []GatewayGoesOn

\* A chain so near its end brings what is waited for.
Brings(c, n) == [](FairGateway => (AskRank(c) <= n => <>~Waits(c)))

LEMMA BringsAtOnce ==
  ASSUME NEW c \in Chains, TaskOf(c) \in DeskTasks
  PROVE  Brings(c, 0)
<1>1. AwaitInv /\ AskRank(c) <= 0 => ~Waits(c)
  BY AskRankType DEF AwaitInv, NobodyForgotten, Waits
<1> QED
  BY <1>1, PTL DEF Brings, FairGateway

LEMMA BringsLater ==
  ASSUME NEW i \in Instances, DeskTasks \subseteq Serves[i], NEW t \in SureTasks, NEW n \in Nat,
         NEW c, c = <<i, t>>
  PROVE  Brings(c, n) => Brings(c, n + 1)
<1>1. c \in Chains /\ TaskOf(c) = t /\ InstanceOf(c) = i /\ t \in DeskTasks
  BY DEF Chains, TaskOf, InstanceOf, SureTasks, Tasks
<1>2. GatewayGoesOn => ChainComes(c)
  BY DEF GatewayGoesOn
<1>3. AwaitInv /\ AwaitInv' /\ AskRank(c) <= n + 1 /\ [GatewayNext]_gatewayVars
        => ~Waits(c) \/ (~Waits(c))' \/ (AskRank(c) <= n + 1)'
  <2>1. (GatewayInv => AskRank(c) \in 0..5)'
    BY <1>1, AskRankType, PTL
  <2> QED
    BY <1>1, <2>1, AskRankType, StepNearer, OthersLeave DEF AwaitInv, Waits
<1>4. AwaitInv /\ AwaitInv' /\ AskRank(c) <= n + 1 /\ <<ChainStep(c)>>_gatewayVars
        => ~Waits(c) \/ (~Waits(c))' \/ (AskRank(c) <= n)'
  <2>1. (GatewayInv => AskRank(c) \in 0..5)'
    BY <1>1, AskRankType, PTL
  <2> QED
    BY <1>1, <2>1, AskRankType, StepNearer DEF AwaitInv, Waits
<1>5. AwaitInv /\ chain[c].pc = "idle" => ~Waits(c)
  BY <1>1 DEF AwaitInv, NobodyForgotten, Waits
<1> QED
  BY <1>2, <1>3, <1>4, <1>5, PTL DEF Brings, FairGateway, ChainComes

\* No chain of one provider is farther from its end than five steps.
LEMMA BringsInTime ==
  ASSUME NEW i \in Instances, DeskTasks \subseteq Serves[i], NEW t \in SureTasks
  PROVE  Brings(<<i, t>>, 5)
<1> DEFINE c == <<i, t>>
<1>1. c \in Chains /\ TaskOf(c) \in DeskTasks
  BY DEF Chains, TaskOf, SureTasks, Tasks
<1>2. \A n \in Nat : Brings(c, n) => Brings(c, n + 1)
  BY BringsLater
<1>3. Brings(c, 0)
  BY <1>1, BringsAtOnce
<1> HIDE DEF c
<1>4. Brings(c, 0 + 1)
  BY <1>2, <1>3
<1>5. Brings(c, 1 + 1)
  BY <1>2, <1>4
<1>6. Brings(c, 2 + 1)
  BY <1>2, <1>5
<1>7. Brings(c, 3 + 1)
  BY <1>2, <1>6
<1>8. Brings(c, 4 + 1)
  BY <1>2, <1>7
<1> QED
  BY <1>8 DEF c

\* What a desk has been answered it keeps as long as it loads.
LEMMA AnswersStay ==
  ASSUME AwaitInv, NEW c \in Chains, TaskOf(c) \in DeskTasks,
         desk[InstanceOf(c)].pc = "loading", answer[c] # None, [GatewayNext]_gatewayVars
  PROVE  \/ desk'[InstanceOf(c)].pc = "idle"
         \/ desk'[InstanceOf(c)].pc = "loading" /\ answer'[c] # None
<1>1. GatewayTypeOK /\ InstanceOf(c) \in Instances
  BY DEF AwaitInv, GatewayInv, Chains, InstanceOf
<1>2. CASE UNCHANGED <<answer, desk>>
  BY <1>2
<1>3. ASSUME NEW d \in Chains, OpenBook(d) PROVE desk' = desk /\ answer'[c] = answer[c]
  <2>1. c # d
    BY <1>3 DEF OpenBook, BookTasks, DeskTasks
  <2> QED
    BY <1>1, <1>3, <2>1 DEF OpenBook, GatewayTypeOK
<1>4. ASSUME NEW d \in Chains, ChainStep(d) PROVE desk' = desk /\ answer'[c] = answer[c]
  <2>1. CASE Charge(d) \/ FallBack(d)
    <3>1. desk' = desk
      BY <2>1 DEF Charge, FallBack
    <3>2. c = d => ~Awaited(d)
      BY DEF Awaited
    <3> QED
      BY <2>1, <3>1, <3>2, EndAnswers
  <2>2. CASE ~Charge(d) /\ ~FallBack(d)
    BY <1>4, <2>2, StepRunsOn
  <2> QED
    BY <2>1, <2>2
<1>5. ASSUME NEW i \in Instances, OpenDesk(i) PROVE answer' = answer /\ i # InstanceOf(c)
  BY <1>5 DEF OpenDesk
<1>6. ASSUME NEW i \in Instances, OpenDesk(i)
      PROVE  desk'[InstanceOf(c)] = desk[InstanceOf(c)]
  BY <1>1, <1>5, <1>6 DEF OpenDesk, GatewayTypeOK
<1>7. ASSUME NEW i \in Instances, StopWaiting(i) PROVE desk' = desk /\ answer'[c] = answer[c]
  <2>1. c # <<i, "br_equities_snapshot">>
    BY <1>7 DEF StopWaiting
  <2> QED
    BY <1>1, <1>7, <2>1 DEF StopWaiting, GatewayTypeOK
<1>8. ASSUME NEW i \in Instances, Publish(i)
      PROVE  \/ desk'[InstanceOf(c)].pc = "idle"
             \/ desk'[InstanceOf(c)] = desk[InstanceOf(c)] /\ answer'[c] = answer[c]
  <2>1. CASE i = InstanceOf(c)
    BY <1>1, <1>8, <2>1 DEF Publish, GatewayTypeOK
  <2>2. CASE i # InstanceOf(c)
    <3>1. c \notin DeskChains(i)
      BY <2>2 DEF DeskChains, InstanceOf
    <3> QED
      BY <1>1, <1>8, <2>2, <3>1 DEF Publish, GatewayTypeOK
  <2> QED
    BY <2>1, <2>2
<1> QED
  BY <1>2, <1>3, <1>4, <1>5, <1>6, <1>7, <1>8 DEF GatewayNext, NewMonth, gatewayVars

\* A live desk gets its answer, even from a chain of BRAPI that never ends: as
\* long as the chains of the other two snapshots and the desk itself go on.
THEOREM DesksGetAnswers == GatewaySpec /\ []GatewayGoesOn => DesksAnswered
<1>1. ASSUME NEW i \in Instances, DeskTasks \subseteq Serves[i]
      PROVE  FairGateway => (desk[i].pc = "loading" => <>(desk[i].pc = "idle"))
  <2> DEFINE b == <<i, "br_equities_snapshot">>
             n == <<i, "intl_equities_snapshot">>
             k == <<i, "crypto_snapshot">>
             Loads == desk[i].pc = "loading"
             Rests == desk[i].pc = "idle"
             Got(c) == Loads /\ answer[c] # None
  <2>1. /\ {b, n, k} \subseteq Chains /\ DeskChains(i) = {b, n, k}
        /\ \A c \in {b, n, k} : TaskOf(c) \in DeskTasks /\ InstanceOf(c) = i
    BY <1>1 DEF Chains, DeskChains, DeskTasks, Tasks, TaskOf, InstanceOf
  <2>2. AwaitInv => Loads \/ Rests
    BY DEF AwaitInv, GatewayInv, GatewayTypeOK
  <2>3. \A c \in {b, n, k} : AwaitInv /\ [GatewayNext]_gatewayVars /\ Got(c) => Got(c)' \/ Rests'
    BY <2>1, AnswersStay
  <2>4. AwaitInv /\ [GatewayNext]_gatewayVars /\ Got(b) => Got(b)' \/ Rests'
    BY <2>3
  <2>5. AwaitInv /\ [GatewayNext]_gatewayVars /\ Got(n) => Got(n)' \/ Rests'
    BY <2>3
  <2>6. AwaitInv /\ [GatewayNext]_gatewayVars /\ Got(k) => Got(k)' \/ Rests'
    BY <2>3
  <2>7. Got(n) /\ Got(k) => DeskMoves(i)
    BY <2>1 DEF DeskMoves
  <2>8. AwaitInv /\ <<StopWaiting(i) \/ Publish(i)>>_gatewayVars => Got(b)' \/ Rests'
    <3>1. CASE AwaitInv /\ StopWaiting(i)
      <4>1. Nothing # None /\ answer \in [Chains -> Rows]
        BY <3>1 DEF Nothing, None, Book, AwaitInv, GatewayInv, GatewayTypeOK
      <4>2. answer'[b] # None /\ desk' = desk /\ Loads
        BY <2>1, <3>1, <4>1 DEF StopWaiting
      <4> QED
        BY <4>2
    <3>2. CASE AwaitInv /\ Publish(i)
      BY <3>2 DEF Publish, AwaitInv, GatewayInv, GatewayTypeOK
    <3> QED
      BY <3>1, <3>2
  <2>9. AwaitInv /\ Got(b) /\ <<StopWaiting(i) \/ Publish(i)>>_gatewayVars => Rests'
    BY DEF StopWaiting, Publish, AwaitInv, GatewayInv, GatewayTypeOK
  <2>10. GatewayGoesOn => DeskComes(i)
    BY <1>1 DEF GatewayGoesOn
  <2>11. [](FairGateway => (AskRank(n) <= 5 => <>~Waits(n)))
    <3>1. Brings(n, 5)
      BY <1>1, BringsInTime DEF SureTasks, DeskTasks
    <3> QED
      BY <3>1 DEF Brings
  <2>12. [](FairGateway => (AskRank(k) <= 5 => <>~Waits(k)))
    <3>1. Brings(k, 5)
      BY <1>1, BringsInTime DEF SureTasks, DeskTasks
    <3> QED
      BY <3>1 DEF Brings
  <2>13. AwaitInv => AskRank(n) <= 5 /\ AskRank(k) <= 5
    BY <2>1, AskRankType DEF AwaitInv
  <2>14. (~Waits(n) <=> ~(Loads /\ ~Got(n))) /\ (~Waits(k) <=> ~(Loads /\ ~Got(k)))
    BY <2>1 DEF Waits
  <2> HIDE DEF b, n, k, Loads, Rests, Got
  <2>15. FairGateway => (Loads => <>Rests)
    BY <2>2, <2>4, <2>5, <2>6, <2>7, <2>8, <2>9, <2>10, <2>11, <2>12, <2>13, <2>14, PTL
    DEF FairGateway, DeskComes
  <2> QED
    BY <2>15 DEF Loads, Rests
<1>2. GatewaySpec => []AwaitInv
  BY AwaitInit, AwaitStep, PTL DEF GatewaySpec
<1>3. GatewaySpec => [][GatewayNext]_gatewayVars
  BY PTL DEF GatewaySpec
<1> SUFFICES ASSUME NEW i \in Instances, DeskTasks \subseteq Serves[i]
             PROVE  GatewaySpec /\ []GatewayGoesOn
                      => (desk[i].pc = "loading" ~> desk[i].pc = "idle")
  BY DEF DesksAnswered
<1>4. FairGateway => (desk[i].pc = "loading" => <>(desk[i].pc = "idle"))
  BY <1>1
<1> QED
  BY <1>2, <1>3, <1>4, PTL DEF FairGateway

-----------------------------------------------------------------------------
(* The prices of an asset                                                  *)

LEMMA DivGrows ==
  ASSUME NEW a \in Int, NEW b \in Int, a >= b, NEW r \in Nat, r > 0
  PROVE  a \div r >= b \div r
BY SMT

\* Points of one day are given in the order of their times.
HistoryInv ==
  /\ history \in Seq(Points)
  /\ \A i, j \in 1..Len(history) :
       i < j /\ DayOf(history[i]) = DayOf(history[j]) => history[i].at < history[j].at

\* A series: the earliest first, no time twice.
Sorted(s) ==
  /\ s \in Seq(Points)
  /\ \A i, j \in 1..Len(s) : i < j => s[i].at < s[j].at

LEMMA SomeLeast ==
  ASSUME NEW S \in SUBSET Nat, S # {}
  PROVE  \E k \in S : \A n \in S : k <= n
<1> DEFINE R == {s \in Nat \X Nat : s[1] < s[2]}
<1>1. IsWellFoundedOn(OpToRel(<, Nat), Nat)
  BY NatLessThanWellFounded
<1>2. OpToRel(<, Nat) = R
  BY DEF OpToRel
<1>3. PICK m \in S : \A n \in S : ~(<<n, m>> \in R)
  <2> HIDE DEF R
  <2> QED
    BY <1>1, <1>2, WFMin
<1>4. \A n \in S : n \in Nat /\ m \in Nat /\ ~(n < m)
  BY <1>3
<1> QED
  BY <1>4

\* What holds of nothing, and of one more whenever it holds, holds of any number.
LEMMA OneByOne ==
  ASSUME NEW S \in SUBSET Nat, 0 \in S, \A n \in S : n + 1 \in S
  PROVE  S = Nat
<1> SUFFICES ASSUME Nat \ S # {} PROVE FALSE
  OBVIOUS
<1>1. PICK n \in Nat \ S : \A k \in Nat \ S : n <= k
  BY SomeLeast
<1>2. n - 1 \in Nat /\ ~(n <= n - 1)
  BY <1>1
<1>3. n - 1 \in S /\ (n - 1) + 1 = n
  BY <1>1, <1>2
<1> QED
  BY <1>1, <1>3

LEMMA PointFields ==
  ASSUME NEW p \in Points
  PROVE  p.at \in Nat /\ p.close \in Nat \ {0} /\ DayOf(p) \in Int /\ YearOf(p) \in Int
<1>1. p.at \in Nat /\ p.close \in Nat \ {0}
  <2>1. p.at \in 0..2 * LastDay + 1 /\ p.close \in Closes
    BY DEF Points
  <2>2. Closes \subseteq Nat \ {0}
    BY HistoryAssumption
  <2>3. p.at \in Nat
    BY <2>1
  <2> QED
    BY <2>1, <2>2, <2>3
<1>2. DayOf(p) \in Int
  BY <1>1 DEF DayOf
<1> QED
  BY <1>1, <1>2, HistoryAssumption DEF YearOf

\* The later of two points is in the later year.
LEMMA YearsFollow ==
  ASSUME NEW p \in Points, NEW q \in Points, p.at <= q.at
  PROVE  YearOf(p) <= YearOf(q)
<1>1. p.at \in Nat /\ q.at \in Nat /\ DayOf(p) \in Int /\ DayOf(q) \in Int
  BY PointFields
<1>2. DayOf(p) <= DayOf(q)
  BY <1>1 DEF DayOf
<1>3. DayOf(q) \div YearDays >= DayOf(p) \div YearDays
  BY <1>1, <1>2, DivGrows, HistoryAssumption
<1> QED
  BY <1>1, <1>3, HistoryAssumption DEF YearOf

\* Sorting by the number of points that are not later.
LEMMA InTimeSorts ==
  ASSUME NEW S \in SUBSET Points, IsFiniteSet(S),
         \A p, q \in S : p.at = q.at => p = q
  PROVE  Sorted(InTime(S)) /\ Len(InTime(S)) = Cardinality(S)
<1> DEFINE upTo(p) == {q \in S : q.at <= p.at}
           n == Cardinality(S)
           rank == [p \in S |-> Cardinality(upTo(p))]
           s == InTime(S)
<1>1. n \in Nat /\ IsFiniteSet(1..n) /\ Cardinality(1..n) = n
  BY FS_CardinalityType, FS_Interval
<1>2. \A p \in S : /\ IsFiniteSet(upTo(p)) /\ Cardinality(upTo(p)) \in Nat
                   /\ Cardinality(upTo(p)) <= n
  BY <1>1, FS_Subset, FS_CardinalityType
<1>3. \A p \in S : p.at \in Nat
  BY PointFields
<1>4. ASSUME NEW p \in S, NEW q \in S, Cardinality(upTo(q)) <= Cardinality(upTo(p))
      PROVE  q.at <= p.at
  <2> SUFFICES ASSUME p.at < q.at PROVE FALSE
    BY <1>3
  <2>1. upTo(p) \in SUBSET upTo(q) /\ q \in upTo(q) /\ q \notin upTo(p)
    BY <1>3
  <2>2. /\ Cardinality(upTo(p)) <= Cardinality(upTo(q))
        /\ Cardinality(upTo(p)) # Cardinality(upTo(q))
    <3> HIDE DEF upTo
    <3> QED
      BY <1>2, <2>1, FS_Subset
  <2>3. Cardinality(upTo(p)) \in Nat /\ Cardinality(upTo(q)) \in Nat
    BY <1>2
  <2> HIDE DEF upTo
  <2> QED
    BY <1>4, <2>2, <2>3
<1>5. \A p \in S : Cardinality(upTo(p)) \in 1..n
  <2> SUFFICES ASSUME NEW p \in S PROVE Cardinality(upTo(p)) # 0
    BY <1>1, <1>2
  <2>1. p \in upTo(p)
    BY <1>3
  <2> QED
    BY <1>2, <2>1, FS_EmptySet
<1>6. rank \in Injection(S, 1..n)
  <2>1. rank \in [S -> 1..n]
    BY <1>5
  <2>2. ASSUME NEW p \in S, NEW q \in S, rank[p] = rank[q] PROVE p = q
    <3>1. /\ Cardinality(upTo(p)) = Cardinality(upTo(q))
          /\ Cardinality(upTo(p)) \in Nat /\ Cardinality(upTo(q)) \in Nat
      BY <1>2, <2>2
    <3>2. p.at <= q.at /\ q.at <= p.at
      BY <1>4, <3>1
    <3> QED
      BY <1>3, <3>2
  <2> HIDE DEF rank
  <2> QED
    BY <2>1, <2>2 DEF Injection, IsInjective
<1>7. rank \in Surjection(S, 1..n)
  BY <1>1, <1>6, FS_Injection
<1>8. \A i \in 1..n : \E p \in S : Cardinality(upTo(p)) = i
  BY <1>7 DEF Surjection
<1>9. s = [i \in 1..n |-> CHOOSE p \in S : Cardinality(upTo(p)) = i]
  BY DEF InTime
<1> HIDE DEF s
<1>10. \A i \in 1..n : s[i] \in S /\ Cardinality(upTo(s[i])) = i
  BY <1>8, <1>9
<1>11. s \in [1..n -> Points]
  BY <1>9, <1>10
<1>12. s \in Seq(Points) /\ Len(s) = n
  BY <1>1, <1>11
<1>13. ASSUME NEW i \in 1..n, NEW j \in 1..n, i < j PROVE s[i].at < s[j].at
  <2>1. ~(s[j].at <= s[i].at)
    <3> SUFFICES ASSUME s[j].at <= s[i].at PROVE FALSE
      OBVIOUS
    <3>1. s[i] \in S /\ s[j] \in S
      BY <1>10
    <3>2. upTo(s[j]) \in SUBSET upTo(s[i])
      <4> SUFFICES ASSUME NEW q \in S, q.at <= s[j].at PROVE q.at <= s[i].at
        OBVIOUS
      <4>1. q.at \in Nat /\ s[i].at \in Nat /\ s[j].at \in Nat
        BY <1>3, <3>1
      <4> QED
        BY <4>1
    <3>3. IsFiniteSet(upTo(s[i]))
      BY <1>2, <3>1
    <3> HIDE DEF upTo
    <3>4. Cardinality(upTo(s[j])) <= Cardinality(upTo(s[i]))
      BY <3>2, <3>3, FS_Subset
    <3>5. j <= i
      BY <1>10, <3>4
    <3> QED
      BY <1>1, <1>13, <3>5
  <2>2. s[i] \in S /\ s[j] \in S
    BY <1>10
  <2>3. s[i].at \in Nat /\ s[j].at \in Nat
    BY <1>3, <2>2
  <2> QED
    BY <2>1, <2>3
<1> QED
  BY <1>12, <1>13 DEF Sorted, s

\* The two series of a page are one, and sorted: of a day the point that was given
\* last is the latest.
LEMMA OneSeries ==
  ASSUME HistoryInv
  PROVE  Sorted(UniqueDays) /\ LatestOfDays = UniqueDays
<1> DEFINE D == 1..Len(history)
           lastGiven == {k \in DOMAIN history :
                           \A j \in k + 1..Len(history) : DayOf(history[j]) # DayOf(history[k])}
           latest == {k \in DOMAIN history :
                        \A j \in DOMAIN history :
                          DayOf(history[j]) = DayOf(history[k]) => history[j].at <= history[k].at}
           kept == {history[i] : i \in lastGiven}
<1>1. Len(history) \in Nat /\ DOMAIN history = D /\ \A i \in D : history[i] \in Points
  BY DEF HistoryInv
<1>2. \A i \in D : history[i].at \in Nat
  BY <1>1, PointFields
<1>3. ASSUME NEW k \in D PROVE k \in lastGiven <=> k \in latest
  <2>1. ASSUME k \in lastGiven, NEW j \in D, DayOf(history[j]) = DayOf(history[k])
        PROVE  history[j].at <= history[k].at
    <3>1. ~(k < j)
      BY <1>1, <2>1
    <3>2. CASE j = k
      BY <1>2, <3>2
    <3>3. CASE j < k
      BY <1>2, <2>1, <3>3 DEF HistoryInv
    <3> QED
      BY <1>1, <3>1, <3>2, <3>3
  <2>2. ASSUME k \in latest, NEW j \in k + 1..Len(history) PROVE DayOf(history[j]) # DayOf(history[k])
    <3> SUFFICES ASSUME DayOf(history[j]) = DayOf(history[k]) PROVE FALSE
      OBVIOUS
    <3>1. j \in D /\ k < j
      BY <1>1
    <3>2. history[k].at < history[j].at
      BY <3>1 DEF HistoryInv
    <3>3. history[j].at <= history[k].at
      BY <1>1, <2>2, <3>1
    <3> QED
      BY <1>2, <3>1, <3>2, <3>3
  <2> QED
    BY <1>1, <2>1, <2>2
<1>4. lastGiven = latest
  BY <1>1, <1>3
<1>5. lastGiven \in SUBSET D /\ IsFiniteSet(lastGiven)
  <2>1. lastGiven \in SUBSET D /\ IsFiniteSet(D)
    BY <1>1, FS_Interval
  <2> HIDE DEF lastGiven
  <2> QED
    BY <2>1, FS_Subset
<1>6. kept \in SUBSET Points
  BY <1>1
<1>7. IsFiniteSet(kept)
  <2> DEFINE f == [i \in lastGiven |-> history[i]]
  <2>1. f \in Surjection(lastGiven, kept)
    <3> HIDE DEF lastGiven
    <3> QED
      BY DEF Surjection
  <2> HIDE DEF f, kept, lastGiven
  <2> QED
    BY <1>5, <2>1, FS_Surjection
<1>8. \A p, q \in kept : p.at = q.at => p = q
  <2> SUFFICES ASSUME NEW i \in lastGiven, NEW k \in lastGiven, history[i].at = history[k].at
               PROVE  i = k
    OBVIOUS
  <2>1. DayOf(history[i]) = DayOf(history[k])
    BY DEF DayOf
  <2>2. ~(i < k) /\ ~(k < i)
    BY <1>1, <2>1
  <2> QED
    BY <1>1, <2>2
<1>9. Sorted(InTime(kept))
  <2> HIDE DEF kept
  <2> QED
    BY <1>6, <1>7, <1>8, InTimeSorts
<1>10. UniqueDays = InTime(kept)
  BY DEF UniqueDays
<1>11. LatestOfDays = InTime({history[i] : i \in latest})
  BY DEF LatestOfDays
<1> HIDE DEF lastGiven, latest
<1> QED
  BY <1>4, <1>9, <1>10, <1>11

LEMMA SeriesFields ==
  ASSUME NEW s, Sorted(s)
  PROVE  /\ Len(s) \in Nat /\ DOMAIN s = 1..Len(s)
         /\ \A i \in 1..Len(s) : /\ s[i] \in Points /\ s[i].at \in Nat
                                 /\ s[i].close \in Nat \ {0} /\ YearOf(s[i]) \in Int
<1>1. Len(s) \in Nat /\ DOMAIN s = 1..Len(s) /\ \A i \in 1..Len(s) : s[i] \in Points
  BY DEF Sorted
<1> QED
  BY <1>1, PointFields

-----------------------------------------------------------------------------
(* The binary search                                                       *)

\* What a loop of so many turns leaves, each of them a function of what the one
\* before has left.
IsLoop(n, X, x, F, f) ==
  f \in [0..n -> X] /\ f[0] = x /\ \A k \in 1..n : f[k] = F[k][f[k - 1]]

LEMMA LoopExists ==
  ASSUME NEW n, NEW X, NEW x, NEW F, n \in Nat, x \in X, F \in [1..n -> [X -> X]]
  PROVE  \E f : IsLoop(n, X, x, F, f)
<1> DEFINE S == {m \in Nat : m <= n =>
                   \E f \in [0..m -> X] : f[0] = x /\ \A k \in 1..m : f[k] = F[k][f[k - 1]]}
<1>1. 0 \in S
  <2> DEFINE f == [k \in 0..0 |-> x]
  <2>1. f \in [0..0 -> X] /\ f[0] = x /\ \A k \in 1..0 : f[k] = F[k][f[k - 1]]
    OBVIOUS
  <2> HIDE DEF f
  <2> QED
    BY <2>1
<1>2. ASSUME NEW m \in S PROVE m + 1 \in S
  <2> SUFFICES ASSUME m + 1 <= n
               PROVE  \E g \in [0..m + 1 -> X] :
                         g[0] = x /\ \A k \in 1..m + 1 : g[k] = F[k][g[k - 1]]
    BY <1>2
  <2>1. m \in Nat /\ m + 1 \in 1..n
    BY <1>2
  <2>2. PICK f \in [0..m -> X] : f[0] = x /\ \A k \in 1..m : f[k] = F[k][f[k - 1]]
    BY <1>2, <2>1
  <2> DEFINE g == [k \in 0..m + 1 |-> IF k = m + 1 THEN F[m + 1][f[m]] ELSE f[k]]
  <2>3. m \in 0..m /\ f[m] \in X /\ F[m + 1] \in [X -> X]
    BY <2>1, <2>2
  <2>4. g \in [0..m + 1 -> X]
    BY <2>1, <2>2, <2>3
  <2>5. \A k \in 0..m : g[k] = f[k]
    BY <2>1
  <2>6. g[m + 1] = F[m + 1][f[m]]
    BY <2>1
  <2> HIDE DEF g
  <2>7. g[0] = x
    BY <2>1, <2>2, <2>5
  <2>8. ASSUME NEW k \in 1..m + 1 PROVE g[k] = F[k][g[k - 1]]
    <3>1. CASE k \in 1..m
      BY <2>1, <2>2, <2>5, <3>1
    <3>2. CASE k = m + 1
      <4>1. k - 1 = m
        BY <2>1, <3>2
      <4> QED
        BY <2>3, <2>5, <2>6, <3>2, <4>1
    <3> QED
      BY <2>1, <3>1, <3>2
  <2> QED
    BY <2>4, <2>7, <2>8
<1> HIDE DEF S
<1>3. n \in S
  BY <1>1, <1>2, OneByOne DEF S
<1> QED
  BY <1>3 DEF S, IsLoop

\* The bounds of the search, turn by turn.
FirstBounds(s) == [lo |-> 1, hi |-> Len(s), best |-> 1]

IsSearch(s, t, f) ==
  f = [turn \in 0..Len(s) |-> IF turn = 0 THEN FirstBounds(s) ELSE Halve(s, t, f[turn - 1])]

\* A turn that is not the last looks at one point between the bounds.
Halves(s, t, b, mid) ==
  /\ b.lo <= mid /\ mid <= b.hi
  /\ Halve(s, t, b) = IF s[mid].at <= t
                      THEN [lo |-> mid + 1, hi |-> b.hi, best |-> mid]
                      ELSE [lo |-> b.lo, hi |-> mid - 1, best |-> b.best]

LEMMA HalveWithin ==
  ASSUME NEW s, Sorted(s), NEW t \in Int,
         NEW b \in [lo : 1..Len(s) + 1, hi : 0..Len(s), best : 1..Len(s)]
  PROVE  /\ Halve(s, t, b) \in [lo : 1..Len(s) + 1, hi : 0..Len(s), best : 1..Len(s)]
         /\ b.lo > b.hi => Halve(s, t, b) = b
         /\ b.lo <= b.hi =>
              \E mid \in Int : Halves(s, t, b, mid)
<1> DEFINE mid == (b.lo + b.hi) \div 2
<1>1. Len(s) \in Nat
  BY SeriesFields
<1>2. b.lo \in 1..Len(s) + 1 /\ b.hi \in 0..Len(s) /\ b.best \in 1..Len(s)
  OBVIOUS
<1>3. CASE b.lo > b.hi
  BY <1>1, <1>2, <1>3 DEF Halve
<1>4. CASE ~(b.lo > b.hi)
  <2>1. mid \in b.lo..b.hi
    BY <1>1, <1>2, <1>4
  <2>2. Halve(s, t, b) = IF s[mid].at <= t
                         THEN [lo |-> mid + 1, hi |-> b.hi, best |-> mid]
                         ELSE [lo |-> b.lo, hi |-> mid - 1, best |-> b.best]
    BY <1>4 DEF Halve
  <2> HIDE DEF mid
  <2>3. mid \in 1..Len(s) /\ mid + 1 \in 1..Len(s) + 1 /\ mid - 1 \in 0..Len(s)
    BY <1>1, <1>2, <2>1
  <2>4. Halve(s, t, b) \in [lo : 1..Len(s) + 1, hi : 0..Len(s), best : 1..Len(s)]
    BY <1>2, <2>2, <2>3
  <2>5. mid \in Int /\ Halves(s, t, b, mid)
    BY <1>2, <2>1, <2>2 DEF Halves
  <2> QED
    BY <1>4, <2>4, <2>5
<1> QED
  BY <1>3, <1>4

LEMMA SearchExists ==
  ASSUME NEW s, Sorted(s), Len(s) >= 1, NEW t \in Int
  PROVE  \E f : IsSearch(s, t, f)
<1> DEFINE n == Len(s)
           X == [lo : 1..n + 1, hi : 0..n, best : 1..n]
           F == [k \in 1..n |-> [b \in X |-> Halve(s, t, b)]]
<1>1. n \in Nat /\ FirstBounds(s) \in X
  BY SeriesFields DEF FirstBounds
<1>2. \A b \in X : Halve(s, t, b) \in X
  BY HalveWithin
<1>3. F \in [1..n -> [X -> X]]
  <2> HIDE DEF X
  <2> QED
    BY <1>2
<1>4. PICK f : IsLoop(n, X, FirstBounds(s), F, f)
  <2> HIDE DEF X, F, n
  <2> QED
    BY <1>1, <1>3, LoopExists
<1>5. /\ f \in [0..n -> X] /\ f[0] = FirstBounds(s)
      /\ \A k \in 1..n : f[k] = F[k][f[k - 1]]
  <2> HIDE DEF X, F
  <2> QED
    BY <1>4 DEF IsLoop
<1>6. \A k \in 1..n : k - 1 \in 0..n /\ f[k - 1] \in X
  <2> HIDE DEF X
  <2> QED
    BY <1>1, <1>5
<1>7. \A k \in 1..n : f[k] = Halve(s, t, f[k - 1])
  <2> HIDE DEF X
  <2> QED
    BY <1>5, <1>6
<1> HIDE DEF X, F
<1>8. \A k \in 0..n : f[k] = IF k = 0 THEN FirstBounds(s) ELSE Halve(s, t, f[k - 1])
  BY <1>1, <1>5, <1>7
<1>9. f = [k \in 0..n |-> f[k]]
  BY <1>5
<1>10. IsSearch(s, t, f)
  BY <1>8, <1>9, Zenon DEF IsSearch
<1> QED
  BY <1>10

\* The points that are old enough are the first ones.
LEMMA OldOnesFirst ==
  ASSUME NEW s, Sorted(s), NEW t \in Int
  PROVE  \E k \in 0..Len(s) : \A i \in 1..Len(s) : s[i].at <= t <=> i <= k
<1>1. Len(s) \in Nat /\ \A i \in 1..Len(s) : s[i].at \in Nat
  BY SeriesFields
<1>2. CASE \A i \in 1..Len(s) : s[i].at <= t
  <2>1. Len(s) \in 0..Len(s) /\ \A i \in 1..Len(s) : i <= Len(s)
    BY <1>1
  <2> QED
    BY <1>2, <2>1
<1>3. CASE \E i \in 1..Len(s) : ~(s[i].at <= t)
  <2> DEFINE young == {i \in 1..Len(s) : ~(s[i].at <= t)}
  <2>1. young \in SUBSET Nat /\ young # {}
    BY <1>1, <1>3
  <2>2. PICK k \in young : \A i \in young : k <= i
    <3> HIDE DEF young
    <3> QED
      BY <2>1, SomeLeast
  <2>3. k \in 1..Len(s) /\ k - 1 \in 0..Len(s)
    BY <1>1
  <2>4. ASSUME NEW i \in 1..Len(s) PROVE s[i].at <= t <=> i <= k - 1
    <3>1. s[i].at \in Nat /\ s[k].at \in Nat /\ ~(s[k].at <= t)
      BY <1>1, <2>2
    <3>2. CASE i < k
      BY <1>1, <2>2, <2>3, <3>2
    <3>3. CASE i = k
      BY <2>3, <3>1, <3>3
    <3>4. CASE k < i
      <4>1. s[k].at < s[i].at
        BY <2>3, <3>4 DEF Sorted
      <4> QED
        BY <1>1, <2>3, <3>1, <3>4, <4>1
    <3> QED
      BY <1>1, <2>3, <3>2, <3>3, <3>4
  <2> QED
    BY <2>3, <2>4
<1> QED
  BY <1>2, <1>3

\* Whichever half is left, it is smaller by a point at least.
LEMMA BoundsClose ==
  ASSUME NEW lo \in Int, NEW hi \in Int, NEW mid \in Int, NEW n \in Int, NEW m \in Int,
         1 <= lo, lo <= mid, mid <= hi, hi - lo + 1 <= n - m
  PROVE  /\ hi - (mid + 1) + 1 <= n - (m + 1) /\ mid + 1 # 1
         /\ (mid - 1) - lo + 1 <= n - (m + 1)
OBVIOUS

\* The search ends where the old ones do.
LEMMA SearchFinds ==
  ASSUME NEW s, Sorted(s), Len(s) >= 1, NEW t \in Int,
         NEW k \in 0..Len(s), \A i \in 1..Len(s) : s[i].at <= t <=> i <= k
  PROVE  IndexAtOrBefore(s, t) = IF k = 0 THEN 1 ELSE k
<1> DEFINE n == Len(s)
           X == [lo : 1..n + 1, hi : 0..n, best : 1..n]
           Near(b, m) == /\ b \in X /\ b.lo - 1 <= k /\ k <= b.hi
                         /\ b.best = IF b.lo = 1 THEN 1 ELSE b.lo - 1
                         /\ b.hi - b.lo + 1 <= n - m
<1>1. n \in Nat /\ n >= 1 /\ k \in Int
  BY SeriesFields
<1>2. PICK f : IsSearch(s, t, f) /\ IndexAtOrBefore(s, t) = f[n].best
  <2> DEFINE f == CHOOSE h : IsSearch(s, t, h)
  <2>1. IndexAtOrBefore(s, t) = f[n].best
    BY Zenon DEF IndexAtOrBefore, IsSearch, FirstBounds
  <2>2. IsSearch(s, t, f)
    BY SearchExists
  <2> QED
    BY <2>1, <2>2
<1> DEFINE S == {m \in Nat : m <= n => Near(f[m], m)}
<1>3. 0 \in S
  <2>1. f[0] = FirstBounds(s)
    BY <1>1, <1>2 DEF IsSearch
  <2> QED
    BY <1>1, <2>1, SMTT(30) DEF FirstBounds
<1>4. ASSUME NEW m \in S PROVE m + 1 \in S
  <2> SUFFICES ASSUME m + 1 <= n PROVE Near(f[m + 1], m + 1)
    BY <1>4
  <2>1. m \in Nat /\ m + 1 \in 0..n /\ m + 1 # 0 /\ (m + 1) - 1 = m
    BY <1>1, <1>4, SMTT(30)
  <2>2. Near(f[m], m)
    BY <1>1, <1>4, <2>1
  <2>3. f[m + 1] = Halve(s, t, f[m])
    BY <1>2, <2>1 DEF IsSearch
  <2>4. PICK b : b = f[m]
    OBVIOUS
  <2>5. Near(b, m)
    BY <2>2, <2>4
  <2>6. /\ b.lo \in 1..n + 1 /\ b.hi \in 0..n /\ b.lo - 1 <= k /\ k <= b.hi
        /\ b.hi - b.lo + 1 <= n - m
    BY <2>5
  <2>7. Halve(s, t, b) \in X
    BY <2>5, HalveWithin
  <2>8. CASE b.lo > b.hi
    <3>1. Halve(s, t, b) = b
      BY <2>5, <2>8, HalveWithin
    <3>2. b.hi - b.lo + 1 <= n - (m + 1)
      BY <1>1, <2>1, <2>6, <2>8
    <3> QED
      BY <2>3, <2>4, <2>5, <3>1, <3>2
  <2>9. CASE b.lo <= b.hi
    <3>1. PICK mid \in Int : Halves(s, t, b, mid)
      <4>1. b \in [lo : 1..Len(s) + 1, hi : 0..Len(s), best : 1..Len(s)]
        BY <2>5
      <4> HIDE DEF S, n
      <4> QED
        BY <2>9, <4>1, HalveWithin
    <3>2. /\ b.lo <= mid /\ mid <= b.hi
          /\ Halve(s, t, b) = IF s[mid].at <= t
                              THEN [lo |-> mid + 1, hi |-> b.hi, best |-> mid]
                              ELSE [lo |-> b.lo, hi |-> mid - 1, best |-> b.best]
      BY <3>1 DEF Halves
    <3>3. /\ b.lo \in Int /\ b.hi \in Int /\ 1 <= b.lo /\ b.hi <= n
          /\ n \in Int /\ m \in Int
      BY <1>1, <2>1, <2>6
    <3>4. /\ b.hi - (mid + 1) + 1 <= n - (m + 1) /\ mid + 1 # 1
          /\ (mid - 1) - b.lo + 1 <= n - (m + 1)
      <4> HIDE DEF S, n
      <4> QED
        BY <2>6, <3>2, <3>3, BoundsClose
    <3>5. mid \in 1..n /\ (s[mid].at <= t <=> mid <= k)
      <4>1. mid \in 1..n
        <5>1. b.lo <= mid /\ mid <= b.hi
          BY <3>2
        <5> HIDE DEF S, n
        <5> QED
          BY <3>3, <5>1
      <4> QED
        BY <4>1
    <3>6. CASE mid <= k
      <4>1. Halve(s, t, b) = [lo |-> mid + 1, hi |-> b.hi, best |-> mid]
        BY <3>2, <3>5, <3>6
      <4> QED
        BY <1>1, <2>3, <2>4, <2>6, <2>7, <3>5, <3>6, <3>4, <4>1
    <3>7. CASE ~(mid <= k)
      <4>1. Halve(s, t, b) = [lo |-> b.lo, hi |-> mid - 1, best |-> b.best]
        BY <3>2, <3>5, <3>7
      <4>2. k <= mid - 1
        BY <1>1, <3>7
      <4> QED
        BY <2>3, <2>4, <2>5, <2>7, <3>4, <4>1, <4>2
    <3> QED
      BY <3>6, <3>7
  <2> QED
    BY <2>6, <2>8, <2>9
<1> HIDE DEF S
<1>5. n \in S
  BY <1>1, <1>3, <1>4, OneByOne DEF S
<1>6. Near(f[n], n)
  BY <1>1, <1>5 DEF S
<1>7. f[n].best = IF k = 0 THEN 1 ELSE k
  <2>1. PICK lo \in 1..n + 1, hi \in 0..n : lo = f[n].lo /\ hi = f[n].hi
    BY <1>6
  <2>2. lo - 1 <= k /\ k <= hi /\ hi - lo + 1 <= 0 /\ f[n].best = IF lo = 1 THEN 1 ELSE lo - 1
    BY <1>1, <1>6, <2>1
  <2> QED
    BY <1>1, <2>2
<1> QED
  BY <1>2, <1>7

-----------------------------------------------------------------------------
(* The returns                                                             *)

\* Two closes of a series, the earlier first.
Pair(s, r) == \E i, j \in 1..Len(s) : i < j /\ r = <<s[i].close, s[j].close>>

\* What StatsAgree says of a return over some days.
OldPoints(s, days) == {i \in 1..Len(s) : s[i].at <= s[Len(s)].at - 2 * days}
PeriodStart(s, days) == IF OldPoints(s, days) = {} THEN 1 ELSE Cardinality(OldPoints(s, days))

LEMMA PeriodsStart ==
  ASSUME NEW s, Sorted(s), Len(s) >= 2, NEW days \in Nat
  PROVE  /\ PeriodReturn(s, days) =
              IF PeriodStart(s, days) = Len(s) THEN {}
              ELSE {<<s[PeriodStart(s, days)].close, s[Len(s)].close>>}
         /\ \A r \in PeriodReturn(s, days) : Pair(s, r)
<1> DEFINE n == Len(s)
           t == s[n].at - 2 * days
           old == OldPoints(s, days)
           start == PeriodStart(s, days)
<1>1. n \in Nat /\ n >= 2 /\ n \in 1..n /\ s[n].at \in Nat /\ t \in Int
  BY SeriesFields
<1>2. PICK k \in 0..n : \A i \in 1..n : s[i].at <= t <=> i <= k
  <2> HIDE DEF t
  <2> QED
    BY <1>1, OldOnesFirst
<1>3. old = 1..k
  BY <1>1, <1>2 DEF OldPoints
<1>4. k \in Nat /\ Cardinality(1..k) = k /\ (1..k = {} <=> k = 0)
  <2>1. k \in Int /\ 0 <= k
    BY <1>1, <1>2
  <2>2. Cardinality(1..k) = k
    <3>1. Cardinality(1..k) = IF 1 > k THEN 0 ELSE k - 1 + 1
      BY <2>1, FS_Interval
    <3> QED
      BY <2>1, <3>1
  <2>3. k # 0 => 1 \in 1..k
    BY <2>1
  <2>4. k = 0 => 1..k = {}
    OBVIOUS
  <2> QED
    BY <2>1, <2>2, <2>3, <2>4, SMTT(30)
<1>5. start = IF k = 0 THEN 1 ELSE k
  BY <1>3, <1>4 DEF PeriodStart
<1>6. IndexAtOrBefore(s, t) = start
  BY <1>1, <1>2, <1>5, SearchFinds, SMTT(30)
<1>7. start \in 1..n
  BY <1>1, <1>2, <1>5
<1>8. PeriodReturn(s, days) = IF start >= n THEN {} ELSE {<<s[start].close, s[n].close>>}
  <2>1. ~(n < 2)
    BY <1>1
  <2>2. PeriodReturn(s, days) =
          IF n < 2 \/ IndexAtOrBefore(s, t) >= n THEN {}
          ELSE {<<s[IndexAtOrBefore(s, t)].close, s[n].close>>}
    BY Zenon DEF PeriodReturn
  <2> HIDE DEF start, t
  <2> QED
    BY <1>6, <2>1, <2>2
<1> HIDE DEF start
<1>9. start >= n <=> start = n
  BY <1>1, <1>7
<1>10. start < n \/ start >= n
  BY <1>1, <1>7
<1>11. \A r \in PeriodReturn(s, days) : Pair(s, r)
  BY <1>1, <1>7, <1>8, <1>10 DEF Pair
<1> QED
  BY <1>8, <1>9, <1>11 DEF start

\* Of the points of the newest year the first is known: those from it on.
LEMMA YearStarts ==
  ASSUME NEW s, Sorted(s), Len(s) >= 1
  PROVE  \E a \in 1..Len(s) : \A i \in 1..Len(s) :
           YearOf(s[i]) = YearOf(s[Len(s)]) <=> a <= i
<1> DEFINE n == Len(s)
           same == {i \in 1..n : YearOf(s[i]) = YearOf(s[n])}
<1>1. /\ n \in Nat /\ n \in 1..n
      /\ \A i \in 1..n : s[i] \in Points /\ s[i].at \in Nat /\ YearOf(s[i]) \in Int
  BY SeriesFields
<1>2. PICK a \in same : \A i \in same : a <= i
  <2>1. same \in SUBSET Nat /\ n \in same
    BY <1>1
  <2> HIDE DEF same
  <2> QED
    BY <2>1, SomeLeast
<1>3. a \in 1..n
  OBVIOUS
<1>4. \A i, j \in 1..n : i <= j => YearOf(s[i]) <= YearOf(s[j])
  <2> SUFFICES ASSUME NEW i \in 1..n, NEW j \in 1..n, i <= j
               PROVE  YearOf(s[i]) <= YearOf(s[j])
    OBVIOUS
  <2>1. s[i].at <= s[j].at
    <3>1. CASE i < j
      BY <1>1, <3>1 DEF Sorted
    <3>2. CASE i = j
      BY <1>1, <3>2
    <3> QED
      BY <3>1, <3>2
  <2> QED
    BY <1>1, <2>1, YearsFollow
<1>5. ASSUME NEW i \in 1..n PROVE YearOf(s[i]) = YearOf(s[n]) <=> a <= i
  <2>1. YearOf(s[i]) = YearOf(s[n]) => a <= i
    BY <1>2
  <2>2. ASSUME a <= i PROVE YearOf(s[i]) = YearOf(s[n])
    <3>1. YearOf(s[a]) <= YearOf(s[i]) /\ YearOf(s[i]) <= YearOf(s[n]) /\ i <= n
      BY <1>1, <1>3, <1>4, <2>2
    <3>2. YearOf(s[a]) = YearOf(s[n])
      BY <1>2
    <3> QED
      BY <1>1, <1>3, <3>1, <3>2
  <2> QED
    BY <2>1, <2>2
<1> QED
  BY <1>3, <1>5

LEMMA ThisYear ==
  ASSUME NEW s, Sorted(s), Len(s) >= 2, NEW a \in 1..Len(s),
         \A i \in 1..Len(s) : YearOf(s[i]) = YearOf(s[Len(s)]) <=> a <= i
  PROVE  YtdReturn(s) = IF a = Len(s) THEN {} ELSE {<<s[a].close, s[Len(s)].close>>}
<1> DEFINE n == Len(s)
           ofYear(i) == YearOf(s[i]) = YearOf(s[n])
           Start(i) == (\A j \in i..n : ofYear(j)) /\ (i > 1 => ~ofYear(i - 1))
           start == CHOOSE i \in 1..n : Start(i)
<1>1. n \in Nat /\ n >= 2 /\ a \in Int
  BY SeriesFields
<1>2. \A i \in 1..n : ofYear(i) <=> a <= i
  OBVIOUS
<1> HIDE DEF ofYear
<1>3. Start(a)
  BY <1>1, <1>2
<1>4. ASSUME NEW i \in 1..n, Start(i) PROVE i = a
  <2>1. i \in i..n
    BY <1>1
  <2>2. a <= i
    BY <1>2, <1>4, <2>1
  <2>3. ASSUME a < i PROVE FALSE
    <3>1. i > 1 /\ i - 1 \in 1..n /\ a <= i - 1
      BY <1>1, <2>3
    <3> QED
      BY <1>2, <1>4, <3>1
  <2> QED
    BY <1>1, <2>2, <2>3
<1>5. start = a
  <2> HIDE DEF Start
  <2> QED
    BY <1>3, <1>4
<1>6. YtdReturn(s) = IF start >= n THEN {} ELSE {<<s[start].close, s[n].close>>}
  BY <1>1 DEF YtdReturn, ofYear
<1> HIDE DEF start
<1>7. a >= n <=> a = n
  BY <1>1
<1> QED
  BY <1>5, <1>6, <1>7

\* A year of two days or more has its first and its last one.
LEMMA YearsReturn ==
  ASSUME NEW s, Sorted(s), NEW y \in DOMAIN CalendarYearReturns(s)
  PROVE  \E i, j \in 1..Len(s) :
           /\ i < j /\ YearOf(s[i]) = y /\ YearOf(s[j]) = y
           /\ \A k \in 1..Len(s) : YearOf(s[k]) = y => i <= k /\ k <= j
           /\ CalendarYearReturns(s)[y] = <<s[i].close, s[j].close>>
<1> DEFINE n == Len(s)
           of == {i \in DOMAIN s : YearOf(s[i]) = y}
           first == CHOOSE i \in of : \A j \in of : i <= j
           last == CHOOSE i \in of : \A j \in of : j <= i
<1>1. n \in Nat /\ DOMAIN s = 1..n
  BY SeriesFields
<1>2. CalendarYearReturns(s)[y] = <<s[first].close, s[last].close>> /\ Cardinality(of) >= 2
  BY DEF CalendarYearReturns
<1>3. of \in SUBSET (1..n) /\ IsFiniteSet(1..n)
  BY <1>1, FS_Interval
<1>4. \A i \in 1..n : i \in of <=> YearOf(s[i]) = y
  BY <1>1
<1> HIDE DEF of
<1>5. of # {}
  BY <1>2, FS_EmptySet
<1>6. first \in of /\ \A j \in of : first <= j
  <2>1. of \in SUBSET Nat
    BY <1>3
  <2> QED
    BY <1>5, <2>1, SomeLeast
<1>7. last \in of /\ \A j \in of : j <= last
  <2> DEFINE up == {k \in 1..n : n + 1 - k \in of}
  <2>1. up \in SUBSET Nat
    BY <1>1
  <2>2. \A i \in of : n + 1 - i \in up /\ n + 1 - (n + 1 - i) = i
    BY <1>1, <1>3
  <2>3. PICK k \in up : \A i \in up : k <= i
    <3> HIDE DEF up
    <3> QED
      BY <1>5, <2>1, <2>2, SomeLeast
  <2>4. k \in 1..n /\ n + 1 - k \in of
    OBVIOUS
  <2>5. \A j \in of : j <= n + 1 - k
    <3> SUFFICES ASSUME NEW j \in of PROVE j <= n + 1 - k
      OBVIOUS
    <3>1. j \in 1..n /\ n + 1 - j \in up
      BY <1>3, <2>2
    <3>2. k <= n + 1 - j
      BY <2>3, <3>1
    <3> QED
      BY <1>1, <2>4, <3>1, <3>2
  <2> QED
    BY <2>4, <2>5
<1> HIDE DEF first, last
<1>8. first < last
  <2> SUFFICES ASSUME ~(first < last) PROVE FALSE
    OBVIOUS
  <2>1. \A j \in of : j = first
    <3> SUFFICES ASSUME NEW j \in of PROVE j = first
      OBVIOUS
    <3>1. j \in 1..n /\ first \in 1..n /\ last \in 1..n
      BY <1>3, <1>6, <1>7
    <3>2. first <= j /\ j <= last
      BY <1>6, <1>7
    <3> QED
      BY <3>1, <3>2
  <2>2. of = {first}
    BY <1>6, <2>1
  <2>3. Cardinality(of) = 1
    BY <2>2, FS_Singleton
  <2> QED
    BY <1>2, <2>3
<1> QED
  BY <1>2, <1>3, <1>4, <1>6, <1>7, <1>8

-----------------------------------------------------------------------------
(* The deepest fall                                                        *)

TwoCloses == (Nat \ {0}) \X (Nat \ {0})

LEMMA TimesGrows ==
  ASSUME NEW a \in Nat, NEW b \in Nat, NEW c \in Nat, a <= b
  PROVE  a * c <= b * c
<1>1. PICK d \in Nat : b = a + d
  <2>1. b - a \in Nat /\ b = a + (b - a)
    OBVIOUS
  <2> QED
    BY <2>1
<1>2. b * c = a * c + d * c
  BY <1>1
<1>3. d * c \in Nat /\ a * c \in Nat
  OBVIOUS
<1> QED
  BY <1>2, <1>3

LEMMA TimesStrict ==
  ASSUME NEW a \in Nat, NEW b \in Nat, NEW c \in Nat \ {0}, a < b
  PROVE  a * c < b * c
<1>1. a + 1 \in Nat /\ a + 1 <= b
  OBVIOUS
<1>2. (a + 1) * c <= b * c
  BY <1>1, TimesGrows
<1>3. (a + 1) * c = a * c + c /\ a * c \in Nat /\ b * c \in Nat
  OBVIOUS
<1> QED
  BY <1>2, <1>3

\* What is no worse than a return is no worse than a worse one.
LEMMA WorseFollows ==
  ASSUME NEW r \in TwoCloses, NEW v \in TwoCloses, NEW w \in TwoCloses, ~Worse(r, v), Worse(w, v)
  PROVE  ~Worse(r, w)
<1>1. PICK r1 \in Nat \ {0}, r2 \in Nat \ {0} : r = <<r1, r2>>
  BY DEF TwoCloses
<1>2. PICK v1 \in Nat \ {0}, v2 \in Nat \ {0} : v = <<v1, v2>>
  BY DEF TwoCloses
<1>3. PICK w1 \in Nat \ {0}, w2 \in Nat \ {0} : w = <<w1, w2>>
  BY DEF TwoCloses
<1>4. ~(r2 * v1 < v2 * r1) /\ w2 * v1 < v2 * w1
  BY <1>1, <1>2, <1>3 DEF Worse
<1> SUFFICES ASSUME r2 * w1 < w2 * r1 PROVE FALSE
  BY <1>1, <1>3 DEF Worse
<1>5. /\ r2 * v1 \in Nat /\ v2 * r1 \in Nat /\ w2 * v1 \in Nat /\ v2 * w1 \in Nat
      /\ r2 * w1 \in Nat /\ w2 * r1 \in Nat
  OBVIOUS
<1>6. v2 * r1 <= r2 * v1
  BY <1>4, <1>5
<1>7. (v2 * r1) * w1 <= (r2 * v1) * w1
  BY <1>5, <1>6, TimesGrows
<1>8. (w2 * v1) * r1 < (v2 * w1) * r1
  BY <1>4, <1>5, TimesStrict
<1>9. (r2 * w1) * v1 < (w2 * r1) * v1
  BY <1>5, TimesStrict
<1>10. /\ (v2 * r1) * w1 = (v2 * w1) * r1 /\ (r2 * v1) * w1 = (r2 * w1) * v1
       /\ (w2 * v1) * r1 = (w2 * r1) * v1
  OBVIOUS
<1>11. /\ (v2 * w1) * r1 \in Nat /\ (r2 * w1) * v1 \in Nat /\ (w2 * r1) * v1 \in Nat
  BY <1>5
<1> QED
  BY <1>7, <1>8, <1>9, <1>10, <1>11

\* From a higher close the same one is a deeper fall.
LEMMA HigherPeak ==
  ASSUME NEW a \in Nat \ {0}, NEW b \in Nat \ {0}, NEW c \in Nat \ {0}, a <= b,
         NEW v \in TwoCloses, ~Worse(<<b, c>>, v)
  PROVE  ~Worse(<<a, c>>, v)
<1>1. PICK v1 \in Nat \ {0}, v2 \in Nat \ {0} : v = <<v1, v2>>
  BY DEF TwoCloses
<1>2. ~(c * v1 < v2 * b)
  BY <1>1 DEF Worse
<1>3. a * v2 <= b * v2
  BY TimesGrows
<1>4. a * v2 = v2 * a /\ b * v2 = v2 * b
  OBVIOUS
<1>5. c * v1 \in Nat /\ v2 * a \in Nat /\ v2 * b \in Nat
  OBVIOUS
<1>6. ~(c * v1 < v2 * a)
  BY <1>2, <1>3, <1>4, <1>5
<1> QED
  BY <1>1, <1>6 DEF Worse

\* What the loop has seen of the first points of a series.
Seen(s, k, x) ==
  /\ x \in [peak : Nat, worst : TwoCloses]
  /\ \A i \in 1..k : s[i].close <= x.peak
  /\ x.peak = 0 \/ \E i \in 1..k : s[i].close = x.peak
  /\ x.worst[2] <= x.worst[1]
  /\ \/ x.worst = <<1, 1>>
     \/ \E i, j \in 1..k : i < j /\ x.worst = <<s[i].close, s[j].close>>
  /\ \A i, j \in 1..k : i < j => ~Worse(<<s[i].close, s[j].close>>, x.worst)

LEMMA FallSees ==
  ASSUME NEW s, Sorted(s), NEW k \in Nat, k + 1 <= Len(s), NEW x, Seen(s, k, x)
  PROVE  Seen(s, k + 1, Fall(x, s[k + 1].close))
<1> DEFINE c == s[k + 1].close
           y == Fall(x, c)
<1> SUFFICES Seen(s, k + 1, y)
  OBVIOUS
<1>1. /\ Len(s) \in Nat /\ k + 1 \in 1..Len(s) /\ c \in Nat \ {0}
      /\ \A i \in 1..k : i \in 1..k + 1 /\ i < k + 1 /\ s[i].close \in Nat \ {0}
      /\ \A i \in 1..k + 1 : i \in 1..k \/ i = k + 1
  <2>1. Len(s) \in Nat /\ \A i \in 1..Len(s) : s[i].close \in Nat \ {0}
    BY SeriesFields
  <2>2. k + 1 \in 1..Len(s) /\ \A i \in 1..k : i \in 1..Len(s) /\ i \in 1..k + 1 /\ i < k + 1
    BY <2>1
  <2>3. \A i \in 1..k + 1 : i \in 1..k \/ i = k + 1
    OBVIOUS
  <2> QED
    BY <2>1, <2>2, <2>3
<1> HIDE DEF c
<1>2. x.peak \in Nat /\ x.worst \in TwoCloses
  BY DEF Seen
<1>3. PICK peak \in Nat \ {0} :
        /\ peak = IF c > x.peak THEN c ELSE x.peak
        /\ y = [peak |-> peak,
                worst |-> IF Worse(<<peak, c>>, x.worst) THEN <<peak, c>> ELSE x.worst]
  <2> DEFINE m == IF c > x.peak THEN c ELSE x.peak
  <2>1. m \in Nat \ {0}
    BY <1>1, <1>2
  <2>2. y = [peak |-> m, worst |-> IF Worse(<<m, c>>, x.worst) THEN <<m, c>> ELSE x.worst]
    BY DEF Fall
  <2> QED
    BY <2>1, <2>2
<1> HIDE DEF y
<1>4. x.peak <= peak /\ c <= peak /\ (peak = c \/ peak = x.peak)
  BY <1>1, <1>2, <1>3
<1>5. y.peak = peak
  BY <1>3
<1>6. \A i \in 1..k + 1 : s[i].close <= y.peak
  <2> SUFFICES ASSUME NEW i \in 1..k + 1 PROVE s[i].close <= peak
    BY <1>5
  <2>1. CASE i = k + 1
    BY <1>4, <2>1 DEF c
  <2>2. CASE i \in 1..k
    <3>1. s[i].close <= x.peak /\ s[i].close \in Nat
      BY <1>1, <2>2 DEF Seen
    <3> QED
      BY <1>2, <1>4, <3>1
  <2> QED
    BY <1>1, <2>1, <2>2
<1>7. \E i \in 1..k + 1 : s[i].close = y.peak
  <2>1. CASE peak = c
    <3>1. k + 1 \in 1..k + 1
      OBVIOUS
    <3> QED
      BY <1>5, <2>1, <3>1 DEF c
  <2>2. CASE peak = x.peak
    <3>1. PICK i \in 1..k : s[i].close = x.peak
      BY <2>2 DEF Seen
    <3> QED
      BY <1>1, <1>5, <2>2, <3>1
  <2> QED
    BY <1>4, <2>1, <2>2
<1>8. ASSUME y.worst \in TwoCloses, y.worst[2] <= y.worst[1],
             \/ y.worst = <<1, 1>>
             \/ \E i, j \in 1..k + 1 : i < j /\ y.worst = <<s[i].close, s[j].close>>,
             ~Worse(<<peak, c>>, y.worst),
             \A i, j \in 1..k : i < j => ~Worse(<<s[i].close, s[j].close>>, y.worst)
      PROVE  Seen(s, k + 1, y)
  <2>1. y \in [peak : Nat, worst : TwoCloses]
    BY <1>3, <1>8
  <2>2. ASSUME NEW i \in 1..k + 1, NEW j \in 1..k + 1, i < j
        PROVE  ~Worse(<<s[i].close, s[j].close>>, y.worst)
    <3>1. i \in 1..k
      BY <2>2
    <3>2. CASE j \in 1..k
      BY <1>8, <2>2, <3>1, <3>2
    <3>3. CASE j = k + 1
      <4>1. s[i].close \in Nat \ {0} /\ s[i].close <= peak
        BY <1>1, <1>5, <1>6, <3>1
      <4>2. ~Worse(<<s[i].close, c>>, y.worst)
        BY <1>1, <1>8, <4>1, HigherPeak
      <4> QED
        BY <3>3, <4>2 DEF c
    <3> QED
      BY <1>1, <3>2, <3>3
  <2> QED
    BY <1>6, <1>7, <1>8, <2>1, <2>2 DEF Seen
<1>9. CASE Worse(<<peak, c>>, x.worst)
  <2> DEFINE w == <<peak, c>>
  <2>1. w \in TwoCloses /\ y.worst = w
    BY <1>1, <1>3, <1>9 DEF TwoCloses
  <2>2. peak # c
    <3> SUFFICES ASSUME peak = c PROVE FALSE
      OBVIOUS
    <3>1. PICK v1 \in Nat \ {0}, v2 \in Nat \ {0} : x.worst = <<v1, v2>>
      BY <1>2 DEF TwoCloses
    <3>2. v2 <= v1
      BY <3>1 DEF Seen
    <3>3. c * v1 < v2 * c
      BY <1>9, <3>1 DEF Worse
    <3>4. v2 * c <= v1 * c /\ v1 * c = c * v1
      BY <1>1, <3>2, TimesGrows
    <3>5. c * v1 \in Nat /\ v2 * c \in Nat
      BY <1>1
    <3> QED
      BY <3>3, <3>4, <3>5
  <2>3. \E i, j \in 1..k + 1 : i < j /\ w = <<s[i].close, s[j].close>>
    <3>1. PICK i \in 1..k : s[i].close = peak
      BY <1>4, <2>2 DEF Seen
    <3>2. i \in 1..k + 1 /\ k + 1 \in 1..k + 1 /\ i < k + 1
      OBVIOUS
    <3> QED
      BY <3>1, <3>2 DEF c
  <2>4. ~Worse(w, w)
    <3>1. c * peak = peak * c /\ c * peak \in Nat
      BY <1>1
    <3>2. ~(c * peak < c * peak)
      BY <3>1
    <3> QED
      BY <3>2 DEF Worse
  <2>5. \A i, j \in 1..k : i < j => ~Worse(<<s[i].close, s[j].close>>, w)
    <3> SUFFICES ASSUME NEW i \in 1..k, NEW j \in 1..k, i < j
                 PROVE  ~Worse(<<s[i].close, s[j].close>>, w)
      OBVIOUS
    <3>1. <<s[i].close, s[j].close>> \in TwoCloses
      BY <1>1 DEF TwoCloses
    <3>2. ~Worse(<<s[i].close, s[j].close>>, x.worst)
      BY DEF Seen
    <3> HIDE DEF w
    <3> QED
      BY <1>2, <1>9, <2>1, <3>1, <3>2, WorseFollows DEF w
  <2>6. w[2] <= w[1]
    BY <1>4
  <2> HIDE DEF w
  <2>7. /\ y.worst \in TwoCloses /\ y.worst[2] <= y.worst[1]
        /\ \E i, j \in 1..k + 1 : i < j /\ y.worst = <<s[i].close, s[j].close>>
        /\ \A i, j \in 1..k : i < j => ~Worse(<<s[i].close, s[j].close>>, y.worst)
    BY <2>1, <2>3, <2>5, <2>6
  <2>8. ~Worse(<<peak, c>>, y.worst)
    BY <2>1, <2>4 DEF w
  <2> QED
    BY <1>8, <2>7, <2>8
<1>10. CASE ~Worse(<<peak, c>>, x.worst)
  <2>1. y.worst = x.worst /\ x.worst \in TwoCloses
    BY <1>2, <1>3, <1>10
  <2>2. \/ x.worst = <<1, 1>>
        \/ \E i, j \in 1..k + 1 : i < j /\ x.worst = <<s[i].close, s[j].close>>
    BY <1>1 DEF Seen
  <2>3. /\ x.worst[2] <= x.worst[1]
        /\ \A i, j \in 1..k : i < j => ~Worse(<<s[i].close, s[j].close>>, x.worst)
    BY DEF Seen
  <2>4. ~Worse(<<peak, c>>, y.worst)
    BY <1>10, <2>1
  <2> QED
    BY <1>8, <2>1, <2>2, <2>3, <2>4
<1> QED
  BY <1>9, <1>10

\* The loop of the deepest fall, point by point.
NothingSeen == [peak |-> 0, worst |-> <<1, 1>>]

IsFalls(s, f) ==
  f = [i \in 0..Len(s) |-> IF i = 0 THEN NothingSeen ELSE Fall(f[i - 1], s[i].close)]

LEMMA FallsExist ==
  ASSUME NEW s, Sorted(s)
  PROVE  \E f : IsFalls(s, f)
<1> DEFINE n == Len(s)
           X == [peak : Nat, worst : Nat \X Nat]
           F == [k \in 1..n |-> [x \in X |-> Fall(x, s[k].close)]]
<1>1. n \in Nat /\ NothingSeen \in X /\ \A k \in 1..n : s[k].close \in Nat
  BY SeriesFields DEF NothingSeen
<1>2. ASSUME NEW x \in X, NEW k \in 1..n PROVE Fall(x, s[k].close) \in X
  <2>1. PICK c \in Nat : c = s[k].close
    BY <1>1
  <2>2. x.peak \in Nat /\ x.worst \in Nat \X Nat
    OBVIOUS
  <2> DEFINE m == IF c > x.peak THEN c ELSE x.peak
  <2>3. m \in Nat
    BY <2>2
  <2>4. Fall(x, c) = [peak |-> m, worst |-> IF Worse(<<m, c>>, x.worst) THEN <<m, c>> ELSE x.worst]
    BY DEF Fall
  <2> HIDE DEF m
  <2> QED
    BY <2>1, <2>2, <2>3, <2>4
<1>3. F \in [1..n -> [X -> X]]
  <2> HIDE DEF X
  <2> QED
    BY <1>2
<1>4. PICK f : IsLoop(n, X, NothingSeen, F, f)
  <2> HIDE DEF X, F, n
  <2> QED
    BY <1>1, <1>3, LoopExists
<1>5. /\ f \in [0..n -> X] /\ f[0] = NothingSeen
      /\ \A k \in 1..n : f[k] = F[k][f[k - 1]]
  <2> HIDE DEF X, F
  <2> QED
    BY <1>4 DEF IsLoop
<1>6. \A k \in 1..n : k - 1 \in 0..n /\ f[k - 1] \in X
  <2> HIDE DEF X
  <2> QED
    BY <1>1, <1>5
<1>7. \A k \in 1..n : f[k] = Fall(f[k - 1], s[k].close)
  <2> HIDE DEF X
  <2> QED
    BY <1>5, <1>6
<1> HIDE DEF X, F
<1>8. \A k \in 0..n : f[k] = IF k = 0 THEN NothingSeen ELSE Fall(f[k - 1], s[k].close)
  BY <1>1, <1>5, <1>7
<1>9. f = [k \in 0..n |-> f[k]]
  BY <1>5
<1>10. IsFalls(s, f)
  BY <1>8, <1>9, Zenon DEF IsFalls
<1> QED
  BY <1>10

LEMMA DeepestFall ==
  ASSUME NEW s, Sorted(s)
  PROVE  \E x : Seen(s, Len(s), x) /\ MaxDrawdown(s) = x.worst
<1> DEFINE n == Len(s)
<1>1. n \in Nat
  BY SeriesFields
<1>2. PICK f : IsFalls(s, f) /\ MaxDrawdown(s) = f[n].worst
  <2> DEFINE f == CHOOSE h : IsFalls(s, h)
  <2>1. MaxDrawdown(s) = f[n].worst
    BY Zenon DEF MaxDrawdown, IsFalls, NothingSeen
  <2>2. IsFalls(s, f)
    BY FallsExist
  <2> QED
    BY <2>1, <2>2
<1> DEFINE S == {m \in Nat : m <= n => Seen(s, m, f[m])}
<1>3. 0 \in S
  <2>1. f[0] = NothingSeen
    BY <1>1, <1>2 DEF IsFalls
  <2>2. NothingSeen \in [peak : Nat, worst : TwoCloses]
    BY DEF NothingSeen, TwoCloses
  <2>3. NothingSeen.peak = 0 /\ NothingSeen.worst = <<1, 1>>
    BY DEF NothingSeen
  <2>4. 1..0 = {}
    OBVIOUS
  <2> QED
    BY <2>1, <2>2, <2>3, <2>4 DEF Seen
<1>4. ASSUME NEW m \in S PROVE m + 1 \in S
  <2> SUFFICES ASSUME m + 1 <= n PROVE Seen(s, m + 1, f[m + 1])
    BY <1>4
  <2>1. m \in Nat /\ m + 1 \in 0..n /\ m + 1 # 0 /\ (m + 1) - 1 = m
    BY <1>1, <1>4
  <2>2. Seen(s, m, f[m])
    BY <1>1, <1>4, <2>1
  <2>3. f[m + 1] = Fall(f[m], s[m + 1].close)
    BY <1>2, <2>1 DEF IsFalls
  <2> QED
    BY <2>1, <2>2, <2>3, FallSees
<1> HIDE DEF S
<1>5. n \in S
  BY <1>1, <1>3, <1>4, OneByOne DEF S
<1>6. Seen(s, n, f[n])
  BY <1>1, <1>5 DEF S
<1> QED
  BY <1>2, <1>6

-----------------------------------------------------------------------------
(* The page                                                                *)

LEMMA HistoryStays == HistoryInv /\ [GivePoint]_history => HistoryInv'
<1> SUFFICES ASSUME HistoryInv, [GivePoint]_history PROVE HistoryInv'
  OBVIOUS
<1>1. CASE UNCHANGED history
  BY <1>1 DEF HistoryInv, DayOf
<1>2. CASE GivePoint
  <2>1. PICK point \in Points :
          /\ history' = Append(history, point)
          /\ \A i, j \in DOMAIN history' :
               i < j /\ DayOf(history'[i]) = DayOf(history'[j])
                 => history'[i].at < history'[j].at
    BY <1>2 DEF GivePoint
  <2>2. history' \in Seq(Points)
    BY <2>1 DEF HistoryInv
  <2> QED
    BY <2>1, <2>2 DEF HistoryInv, DayOf
<1> QED
  BY <1>1, <1>2

\* The numbers of a page agree, whatever history it is given.
LEMMA PageAgrees == HistoryInv => StatsAgree
<1> SUFFICES ASSUME HistoryInv, Len(UniqueDays) >= 2 PROVE StatsAgree
  BY DEF StatsAgree
<1> DEFINE s == UniqueDays
           n == Len(s)
           years == CalendarYearReturns(s)
           returns == (UNION {PeriodReturn(s, k) : k \in Periods}) \union YtdReturn(s)
                      \union {years[y] : y \in DOMAIN years}
<1>1. Sorted(s) /\ LatestOfDays = s
  BY OneSeries
<1>2. n >= 2
  OBVIOUS
<1>3. /\ n \in Nat /\ DOMAIN s = 1..n /\ n \in 1..n
      /\ \A i \in 1..n : s[i].close \in Nat \ {0}
  BY <1>1, <1>2, SeriesFields
<1> DEFINE PeriodsAgree ==
             \A k \in Periods :
               LET old == {i \in 1..n : s[i].at <= s[n].at - 2 * k}
                   start == IF old = {} THEN 1 ELSE Cardinality(old)
               IN PeriodReturn(s, k) = IF start = n THEN {}
                                       ELSE {<<s[start].close, s[n].close>>}
           NoneWorse == \A r \in returns : ~Worse(r, MaxDrawdown(s))
           DidHappen == \/ MaxDrawdown(s) = <<1, 1>>
                        \/ \E i, j \in 1..n : i < j /\ MaxDrawdown(s) = <<s[i].close, s[j].close>>
           YearAgrees == YtdReturn(s) = {years[y] : y \in {YearOf(s[n])} \intersect DOMAIN years}
<1>4. StatsAgree <=> PeriodsAgree /\ NoneWorse /\ DidHappen /\ YearAgrees
  BY <1>1, <1>2, Zenon DEF StatsAgree
<1> HIDE DEF s
<1>5. \A k \in Periods : k \in Nat
  BY HistoryAssumption
<1>6. PeriodsAgree
  <2> SUFFICES ASSUME NEW k \in Periods
               PROVE  PeriodReturn(s, k) = IF PeriodStart(s, k) = n THEN {}
                                           ELSE {<<s[PeriodStart(s, k)].close, s[n].close>>}
    BY DEF PeriodStart, OldPoints
  <2> QED
    BY <1>1, <1>2, <1>5, PeriodsStart
<1>7. PICK x : Seen(s, n, x) /\ MaxDrawdown(s) = x.worst
  BY <1>1, DeepestFall
<1>8. DidHappen
  BY <1>7 DEF Seen
<1>9. PICK a \in 1..n : \A i \in 1..n : YearOf(s[i]) = YearOf(s[n]) <=> a <= i
  <2>1. n >= 1
    BY <1>2, <1>3
  <2> QED
    BY <1>1, <2>1, YearStarts
<1>10. n \in Nat /\ a \in Nat /\ a <= n
  BY <1>3
<1>11. YtdReturn(s) = IF a = n THEN {} ELSE {<<s[a].close, s[n].close>>}
  BY <1>1, <1>2, <1>9, ThisYear
<1>12. YearOf(s[n]) \in DOMAIN years <=> a # n
  <2> DEFINE of == {i \in DOMAIN s : YearOf(s[i]) = YearOf(s[n])}
  <2>1. YearOf(s[n]) \in DOMAIN years <=> Cardinality(of) >= 2
    BY <1>3 DEF CalendarYearReturns
  <2>2. of = a..n
    BY <1>3, <1>9
  <2>3. a \in Int /\ a <= n /\ Cardinality(a..n) = IF a > n THEN 0 ELSE n - a + 1
    BY <1>3, FS_Interval
  <2> HIDE DEF of, years, n
  <2> QED
    BY <1>3, <1>10, <2>1, <2>2, <2>3
<1>13. a # n => years[YearOf(s[n])] = <<s[a].close, s[n].close>>
  <2> SUFFICES ASSUME a # n PROVE years[YearOf(s[n])] = <<s[a].close, s[n].close>>
    OBVIOUS
  <2>1. PICK i \in 1..n, j \in 1..n :
          /\ i < j /\ YearOf(s[i]) = YearOf(s[n]) /\ YearOf(s[j]) = YearOf(s[n])
          /\ \A k \in 1..n : YearOf(s[k]) = YearOf(s[n]) => i <= k /\ k <= j
          /\ years[YearOf(s[n])] = <<s[i].close, s[j].close>>
    BY <1>1, <1>12, YearsReturn
  <2>2. a <= i /\ i <= a /\ n <= j /\ j <= n
    <3>1. a <= i
      BY <1>9, <2>1
    <3>2. YearOf(s[a]) = YearOf(s[n])
      BY <1>9, <1>10
    <3>3. i <= a
      <4>1. \A k \in 1..n : YearOf(s[k]) = YearOf(s[n]) => i <= k
        BY <2>1, SMTT(30)
      <4> QED
        BY <3>2, <4>1
    <3>4. n <= j
      BY <1>3, <2>1
    <3>5. j <= n
      BY <1>10
    <3> QED
      BY <3>1, <3>3, <3>4, <3>5
  <2>3. i = a /\ j = n
    <3>1. i \in Nat /\ j \in Nat
      BY <1>10
    <3> QED
      BY <1>10, <2>2, <3>1
  <2> QED
    BY <2>1, <2>3
<1>14. YearAgrees
  <2> HIDE DEF years
  <2> QED
    BY <1>11, <1>12, <1>13
<1>15. \A r \in returns : Pair(s, r)
  <2> SUFFICES ASSUME NEW r \in returns PROVE Pair(s, r)
    OBVIOUS
  <2>1. CASE \E k \in Periods : r \in PeriodReturn(s, k)
    BY <1>1, <1>2, <1>5, <2>1, PeriodsStart
  <2>2. CASE r \in YtdReturn(s)
    <3>1. a # n /\ r = <<s[a].close, s[n].close>>
      BY <1>11, <2>2
    <3>2. a < n
      BY <1>10, <3>1
    <3> QED
      BY <1>3, <3>1, <3>2 DEF Pair
  <2>3. CASE \E y \in DOMAIN years : r = years[y]
    BY <1>1, <2>3, YearsReturn DEF Pair
  <2>4. \/ \E k \in Periods : r \in PeriodReturn(s, k)
        \/ r \in YtdReturn(s)
        \/ \E y \in DOMAIN years : r = years[y]
    <3> HIDE DEF years
    <3> QED
      OBVIOUS
  <2> QED
    BY <2>1, <2>2, <2>3, <2>4
<1> HIDE DEF returns
<1>16. NoneWorse
  <2> SUFFICES ASSUME NEW r \in returns PROVE ~Worse(r, x.worst)
    BY <1>7
  <2>1. PICK i \in 1..n, j \in 1..n : i < j /\ r = <<s[i].close, s[j].close>>
    BY <1>15 DEF Pair
  <2> QED
    BY <1>7, <2>1 DEF Seen
<1> HIDE DEF PeriodsAgree, NoneWorse, DidHappen, YearAgrees
<1> QED
  BY <1>4, <1>6, <1>8, <1>14, <1>16

\* The numbers an asset's page makes of its prices agree, for any calendar, prices
\* and periods and any number of points: the binary search finds the last close that
\* is old enough, no return that is shown lost more than the deepest fall, and that of
\* the year so far is that of the newest calendar year.
THEOREM PricesAgree == HistorySpec => []StatsAgree
<1>1. HistoryInit => HistoryInv
  BY DEF HistoryInit, HistoryInv
<1> QED
  BY <1>1, HistoryStays, PageAgrees, PTL DEF HistorySpec

-----------------------------------------------------------------------------
(* The seal and the panel of a stock                                       *)

Told == Int \union {Null}

LEMMA DossierFields ==
  ASSUME NEW d \in Dossiers
  PROVE  /\ d.margin = Null \/ (d.margin.ratio \in Int /\ d.margin.percent \in BOOLEAN)
         /\ d.roe = Null \/ (d.roe.ratio \in Int /\ d.roe.percent \in BOOLEAN)
         /\ d.ttm = Null \/ (d.ttm.ratio \in Int /\ d.ttm.percent \in BOOLEAN)
         /\ \/ d.statement = Null
            \/ /\ d.statement.income \in Int /\ d.statement.revenue \in Nat
               /\ d.statement.freeCash \in Int
         /\ d.streak \in Nat
         /\ d.growth = Null \/ (d.growth.years \in {3, 5} /\ d.growth.rate \in Int)
         /\ d.debt = Null \/ (d.debt.of \in {"income", "equity"} /\ d.debt.times \in Int)
         /\ d.esteem.sector \in 55..85 /\ d.esteem.governance \in 65..86
         /\ d.esteem.dividend \in BOOLEAN /\ d.esteem.risen \in BOOLEAN
<1>1. /\ d.margin \in {Null} \union [ratio : Int, percent : BOOLEAN]
      /\ d.roe \in {Null} \union [ratio : Int, percent : BOOLEAN]
      /\ d.ttm \in {Null} \union [ratio : Int, percent : BOOLEAN]
  BY DossierAssumption DEF Dossiers
<1>2. d.statement \in {Null} \union [income : Int, revenue : Nat, freeCash : Int]
  BY DossierAssumption DEF Dossiers
<1>3. d.streak \in Nat
  BY DossierAssumption DEF Dossiers
<1>4. /\ d.growth \in {Null} \union [years : {3, 5}, rate : Int]
      /\ d.debt \in {Null} \union [of : {"income", "equity"}, times : Int]
  BY DossierAssumption DEF Dossiers
<1>5. d.esteem \in [sector : 55..85, governance : 65..86,
                    dividend : BOOLEAN, risen : BOOLEAN]
  BY DossierAssumption DEF Dossiers
<1> QED
  BY <1>1, <1>2, <1>3, <1>4, <1>5

LEMMA Readings ==
  ASSUME NEW n \in Told
  PROVE  /\ Normalize(n) \in Told
         /\ n = Null => Normalize(n) = Null
         /\ n # Null => Normalize(n) \in Int /\ OrElse(n, 0) = n /\ n \in Int
         /\ OrElse(n, 0) \in Int
         /\ n = Null => OrElse(n, 0) = 0
         /\ n # Null /\ n >= 15 => Normalize(n) >= 15
<1>1. CASE n = Null
  BY <1>1 DEF Told, Normalize, OrElse
<1>2. CASE n # Null
  <2>1. n \in Int
    BY <1>2 DEF Told
  <2>2. n \div 100 \in Int /\ (n > 1500 => n \div 100 >= 15)
    BY <2>1
  <2> QED
    BY <1>2, <2>1, <2>2, DossierAssumption DEF Told, Normalize, OrElse, Size
<1> QED
  BY <1>1, <1>2

LEMMA RawIsTold ==
  ASSUME NEW n, n = Null \/ (n.ratio \in Int /\ n.percent \in BOOLEAN)
  PROVE  Raw(n) \in Told
BY DEF Raw, Told

LEMMA MarginIsTold == ASSUME NEW d \in Dossiers PROVE Margin(d) \in Told
<1>1. Normalize(Raw(d.margin)) \in Told
  BY DossierFields, RawIsTold, Readings
<1>2. ASSUME d.statement # Null, d.statement.revenue > 0
      PROVE  Normalize((1000 * d.statement.income) \div d.statement.revenue) \in Told
  <2>1. (1000 * d.statement.income) \div d.statement.revenue \in Int
    BY <1>2, DossierFields
  <2> QED
    BY <2>1, Readings DEF Told
<1>3. ASSUME d.statement # Null PROVE Normalize(1000 * d.statement.income) \in Told
  <2>1. 1000 * d.statement.income \in Int
    BY <1>3, DossierFields
  <2> QED
    BY <2>1, Readings DEF Told
<1> QED
  BY <1>1, <1>2, <1>3 DEF Margin

LEMMA RoeIsTold == ASSUME NEW d \in Dossiers PROVE Roe(d) \in Told
<1>1. Raw(d.ttm) \in Told /\ Raw(d.roe) \in Told
  BY DossierFields, RawIsTold
<1> QED
  BY <1>1, Readings DEF Roe

LEMMA YearsAreCounted ==
  ASSUME NEW d \in Dossiers
  PROVE  Years(d) \in Nat /\ (Loss(d) => Years(d) = 0)
BY DossierFields DEF Years, Loss

LEMMA GrowthIsTold == ASSUME NEW d \in Dossiers PROVE Growth(d) \in Int
<1>1. d.growth # Null => d.growth.rate \in Int /\ d.growth.rate \div 3 \in Int
  BY DossierFields
<1> QED
  BY <1>1 DEF Growth

LEMMA PenaltyIsPositive ==
  ASSUME NEW d \in Dossiers PROVE Penalty(d, "MODERATE") \in Nat
<1>1. Debt(d) \in Int
  <2>1. d.debt # Null => (3 * d.debt.times) \div 4 + 35 \in Int
    BY DossierFields
  <2> QED
    BY <2>1, DossierFields DEF Debt
<1>2. Config["MODERATE"].debt = 300 /\ Config["MODERATE"].fine = 20
  BY DEF Config
<1> QED
  BY <1>1, <1>2 DEF Penalty

\* A number is cut at both ends.
LEMMA Cut ==
  ASSUME NEW low \in Int, NEW high \in Int, low <= high, NEW n \in Int
  PROVE  /\ Between(low, high, n) \in Int
         /\ low <= Between(low, high, n) /\ Between(low, high, n) <= high
         /\ Between(low, high, n) <= n \/ Between(low, high, n) = low
         /\ Between(low, high, n) >= n \/ Between(low, high, n) = high
BY DEF Between

\* What cannot be scored lower.
LEMMA QualitativeAtLeast ==
  ASSUME NEW d \in Dossiers
  PROVE  /\ Qualitative(d) \in Int
         /\ Years(d) >= 1 => Qualitative(d) >= 1130000
         /\ Years(d) >= 5 /\ OrElse(Margin(d), 0) >= 120 => Qualitative(d) >= 1290000
<1> DEFINE m == OrElse(Margin(d), 0)
           r == OrElse(Roe(d), 0)
           y == Years(d)
           g == Growth(d)
<1>1. m \in Int /\ r \in Int /\ y \in Nat /\ g \in Int
  BY MarginIsTold, RoeIsTold, Readings, YearsAreCounted, GrowthIsTold, SMT
<1>2. /\ Between(0, 200, m) \in 0..200 /\ Between(0, 250, r) \in 0..250
      /\ Between(0, 5, y) \in 0..5 /\ Between(0, 200, g + 50) \in 0..200
      /\ m >= 120 => Between(0, 200, m) >= 120
      /\ y >= 1 => Between(0, 5, y) >= 1
      /\ y >= 5 => Between(0, 5, y) = 5
  BY <1>1, SMT DEF Between
<1>3. PICK dividend \in {0, 1000} : dividend = IF d.esteem.dividend THEN 1000 ELSE 0
  OBVIOUS
<1>4. PICK grown \in Nat :
        grown = IF d.growth = Null THEN 0 ELSE 25 * Between(0, 200, g + 50)
  BY <1>2, SMT
<1>5. PICK risen \in {0, 1000} : risen = IF d.esteem.risen THEN 1000 ELSE 0
  OBVIOUS
<1>6. Moat(d) = Between(0, 20000, 11000 + 25 * Between(0, 200, m)
                                    + 16 * Between(0, 250, r) + dividend)
  BY <1>3, SMT DEF Moat
<1>7. Execution(d) = Between(0, 20000, 10000 + 1000 * Between(0, 5, y) + grown + risen)
  BY <1>4, <1>5, SMT DEF Execution
<1> HIDE DEF m, r, y, g
<1>8. Moat(d) \in Int /\ Moat(d) >= 11000 /\ (m >= 120 => Moat(d) >= 14000)
  BY <1>1, <1>3, <1>6, SMTT(30) DEF Between
<1>9. /\ Execution(d) \in Int /\ (y >= 1 => Execution(d) >= 11000)
      /\ (y >= 5 => Execution(d) >= 15000) /\ Execution(d) >= 10000
  BY <1>1, <1>4, <1>5, <1>7, SMT DEF Between
<1>10. d.esteem.sector \in 55..85 /\ d.esteem.governance \in 65..86
  BY DossierFields, SMT
<1>11. /\ 7000 * d.esteem.sector >= 385000 /\ 7000 * d.esteem.sector \in Int
       /\ 5000 * d.esteem.governance >= 325000 /\ 5000 * d.esteem.governance \in Int
  BY <1>10, SMT
<1>12. Qualitative(d) = 7000 * d.esteem.sector + 5000 * d.esteem.governance
                          + 20 * Moat(d) + 20 * Execution(d)
  BY <1>8, <1>9, <1>10, SMT DEF Qualitative
<1>13. /\ Qualitative(d) \in Int
       /\ Qualitative(d) >= 710000 + 20 * Moat(d) + 20 * Execution(d)
  BY <1>8, <1>9, <1>11, <1>12, SMT
<1>14. Qualitative(d) >= 1130000
  BY <1>8, <1>9, <1>13, SMT
<1>15. m >= 120 /\ y >= 5 => Qualitative(d) >= 1290000
  BY <1>8, <1>9, <1>13, SMT
<1> QED
  BY <1>13, <1>14, <1>15 DEF m, y

\* The scores behind the health of the moderate profile.
LEMMA ModerateHealth ==
  ASSUME NEW d \in Dossiers
  PROVE  /\ ExactHealth(d, "MODERATE") \in Nat
         /\ ExactHealth(d, "MODERATE") >= 82 * 120000 =>
              /\ OrElse(Roe(d), 0) >= 64 /\ Growth(d) >= 144
              /\ Penalty(d, "MODERATE") <= 400
<1> DEFINE m == OrElse(Margin(d), 0)
           r == OrElse(Roe(d), 0)
           y == Years(d)
           g == Growth(d)
           over == Penalty(d, "MODERATE")
<1>1. m \in Int /\ r \in Int /\ y \in Nat /\ g \in Int /\ over \in Nat
  BY MarginIsTold, RoeIsTold, Readings, YearsAreCounted, GrowthIsTold, PenaltyIsPositive, SMT
<1>2. /\ 120000 \div Config["MODERATE"].years = 60000
      /\ 120000 \div Config["MODERATE"].margin = 2400
      /\ 120000 \div Config["MODERATE"].roe = 1500
      /\ Config["MODERATE"].wMargin = 20 /\ Config["MODERATE"].wRoe = 20
      /\ Config["MODERATE"].wGrowth = 18
  <2>1. /\ Config["MODERATE"].years = 2 /\ Config["MODERATE"].margin = 50
        /\ Config["MODERATE"].roe = 80
    BY DEF Config, SMT
  <2>2. 120000 \div 2 = 60000 /\ 120000 \div 50 = 2400 /\ 120000 \div 80 = 1500
    OBVIOUS
  <2> QED
    BY <2>1, <2>2, SMT DEF Config
<1>3. ExactHealth(d, "MODERATE") =
        Between(0, 12000000,
          28 * Between(0, 120000, y * 60000) + 20 * Between(0, 120000, m * 2400)
            + 20 * Between(0, 120000, r * 1500)
            + 18 * Between(0, 120000, (g + 50) * 480) - 1200 * over)
  BY <1>2, SMT DEF ExactHealth
<1> HIDE DEF m, r, y, g, over
<1>4. \A n \in Int : /\ Between(0, 120000, n) \in Nat
                     /\ Between(0, 120000, n) <= 120000
                     /\ Between(0, 120000, n) <= n \/ Between(0, 120000, n) = 0
  BY SMT DEF Between
<1>5. y * 60000 \in Int /\ m * 2400 \in Int /\ r * 1500 \in Int /\ (g + 50) * 480 \in Int
  BY <1>1, SMT
<1>6. /\ ExactHealth(d, "MODERATE") \in Nat
      /\ ExactHealth(d, "MODERATE") >= 82 * 120000 =>
           r >= 64 /\ g >= 144 /\ over <= 400
  <2> DEFINE a == Between(0, 120000, y * 60000)
             b == Between(0, 120000, m * 2400)
             c == Between(0, 120000, r * 1500)
             e == Between(0, 120000, (g + 50) * 480)
  <2>1. /\ a \in Nat /\ b \in Nat /\ c \in Nat /\ e \in Nat
        /\ a <= 120000 /\ b <= 120000 /\ c <= 120000 /\ e <= 120000
        /\ c <= r * 1500 \/ c = 0
        /\ e <= (g + 50) * 480 \/ e = 0
    BY <1>4, <1>5, SMT
  <2>2. ExactHealth(d, "MODERATE") =
          Between(0, 12000000, 28 * a + 20 * b + 20 * c + 18 * e - 1200 * over)
    BY <1>3, SMT
  <2> HIDE DEF a, b, c, e
  <2> QED
    BY <1>1, <2>1, <2>2, SMT DEF Between
<1> QED
  BY <1>6, SMT DEF r, g, over

\* The bundle of the moderate profile, as far as the seal and the panel look.
LEMMA ModerateBundle ==
  ASSUME NEW d \in Dossiers, NEW b, b = Bundle(d, "MODERATE")
  PROVE  /\ b.health \in Nat /\ b.pci \in Int /\ b.pci >= 0
         /\ b.penalty = Penalty(d, "MODERATE")
         /\ ~b.toxic => Years(d) >= 1 /\ b.pci >= 5000
         /\ b.class = "ELITE_COMPOUNDER" =>
              /\ ~b.toxic /\ Years(d) >= 5 /\ OrElse(Margin(d), 0) >= 120
              /\ b.health >= 8200 /\ b.pci >= 7500
              /\ OrElse(Roe(d), 0) >= 64 /\ Growth(d) >= 144 /\ b.penalty <= 400
<1> DEFINE exact == ExactHealth(d, "MODERATE")
           toxic == exact < 50 * 120000 \/ Years(d) = 0
           whole == Qualitative(d)
<1>1. /\ exact \in Nat /\ Years(d) \in Nat /\ whole \in Int
      /\ Years(d) >= 1 => whole >= 1130000
  BY ModerateHealth, YearsAreCounted, QualitativeAtLeast, SMT
<1>2. PICK health \in Nat :
        /\ health = (exact + 600) \div 1200
        /\ exact >= 50 * 120000 => health >= 5000
        /\ exact >= 82 * 120000 => health >= 8200
  <2> HIDE DEF exact
  <2> QED
    BY <1>1, SMT
<1>3. /\ b.health = health /\ b.toxic = toxic /\ b.penalty = Penalty(d, "MODERATE")
      /\ b.class = Class(d, exact, toxic)
      /\ b.pci = IF toxic THEN 0 ELSE (1200 * health + 4 * whole + 1000) \div 2000
  BY <1>2, SMT DEF Bundle
<1>4. ~toxic => exact >= 50 * 120000 /\ Years(d) >= 1 /\ health >= 5000
                 /\ whole >= 1130000
  BY <1>1, <1>2, SMT
<1>5. PICK pci \in Int : /\ pci = (1200 * health + 4 * whole + 1000) \div 2000
                         /\ health >= 5000 /\ whole >= 1130000 => pci >= 5000
                         /\ health >= 8200 /\ whole >= 1290000 => pci >= 7500
  <2> HIDE DEF whole
  <2> QED
    BY <1>1, <1>2, SMT
<1>6. b.class = "ELITE_COMPOUNDER" =>
        ~toxic /\ exact >= 82 * 120000 /\ Years(d) >= 5 /\ OrElse(Margin(d), 0) >= 120
  BY <1>3, SMT DEF Class
<1> HIDE DEF exact, toxic, whole
<1>7. ASSUME b.class = "ELITE_COMPOUNDER"
      PROVE  /\ ~b.toxic /\ Years(d) >= 5 /\ OrElse(Margin(d), 0) >= 120
             /\ b.health >= 8200 /\ b.pci >= 7500
             /\ OrElse(Roe(d), 0) >= 64 /\ Growth(d) >= 144 /\ b.penalty <= 400
  <2>1. whole >= 1290000
    BY <1>6, <1>7, QualitativeAtLeast, SMT DEF whole
  <2>2. OrElse(Roe(d), 0) >= 64 /\ Growth(d) >= 144 /\ b.penalty <= 400
    BY <1>3, <1>6, <1>7, ModerateHealth, SMT DEF exact
  <2> QED
    BY <1>2, <1>3, <1>5, <1>6, <1>7, <2>1, <2>2, SMT
<1>8. ~b.toxic => Years(d) >= 1 /\ b.pci >= 5000
  BY <1>3, <1>4, <1>5, SMT
<1>9. b.pci \in Int /\ b.pci >= 0
  BY <1>3, <1>4, <1>5, SMT
<1> QED
  BY <1>2, <1>3, <1>7, <1>8, <1>9, SMT

\* The steps that a composite climbs.
LEMMA FewSteps ==
  ASSUME NEW S \in SUBSET {12, 28, 46, 64, 80}
  PROVE  IsFiniteSet(S) /\ Cardinality(S) \in Nat
<1>1. \A n \in Int : IsFiniteSet(0..n)
  BY FS_Interval
<1>2. PICK top \in Int : top = 80
  OBVIOUS
<1>3. {12, 28, 46, 64, 80} \subseteq 0..top
  BY <1>2, SMT
<1>4. IsFiniteSet(0..top)
  BY <1>1
<1>5. IsFiniteSet({12, 28, 46, 64, 80})
  BY <1>3, <1>4, FS_Subset
<1>6. IsFiniteSet(S)
  BY <1>5, FS_Subset
<1> QED
  BY <1>6, FS_CardinalityType

\* The numbers behind a grade, and how many steps they climb.
LEMMA ModerateGrade ==
  ASSUME NEW d \in Dossiers, NEW b, b = Bundle(d, "MODERATE")
  PROVE  /\ ~b.toxic /\ Grade(d, b) = 0 => OrElse(Margin(d), 0) < -50 /\ ~Loss(d)
         /\ b.class = "ELITE_COMPOUNDER" => Grade(d, b) >= 4
<1> DEFINE m == OrElse(Normalize(Margin(d)), 0)
           r == OrElse(Normalize(Roe(d)), 0)
           y == Years(d)
           g == Growth(d)
           whole == Qualitative(d)
           composite == 38500 * b.pci + 9 * Pillars(d, b)
           climbed == {n \in {12, 28, 46, 64, 80} : composite >= n * 7000000}
<1>1. /\ m \in Int /\ r \in Int /\ y \in Nat /\ g \in Int /\ whole \in Int
      /\ b.health \in Nat /\ b.pci \in Int /\ b.pci >= 0 /\ b.penalty \in Nat
  BY MarginIsTold, RoeIsTold, Readings, YearsAreCounted, GrowthIsTold,
     QualitativeAtLeast, ModerateBundle, PenaltyIsPositive, SMT
<1>2. PICK told \in Int : told = (whole + 1000) \div 2000
  BY <1>1, SMT
<1>3. Pillars(d, b) =
          Between(0, 7000000, 70 * (200 * (m + 50) + 120 * r))
        + Between(0, 7000000, 7 * (180000 * y + 35 * b.health))
        + Between(0, 7000000, 25000 * (g + 80))
        + Between(0, 7000000, 70 * (10 * b.health - 4 * b.penalty))
        + Between(0, 7000000, 7000 * told)
  BY <1>2 DEF Pillars
<1>4. Pillars(d, b) \in Int /\ Pillars(d, b) >= 0
  <2> HIDE DEF m, r, y, g
  <2> QED
    BY <1>1, <1>2, <1>3, SMT DEF Between
<1>5. composite \in Int /\ IsFiniteSet(climbed) /\ Cardinality(climbed) \in Nat
  <2>1. composite \in Int
    <3>1. \A n \in Int, k \in Int : 38500 * n + 9 * k \in Int
      BY SMT
    <3> QED
      BY <1>1, <1>4, <3>1, SMT
  <2> HIDE DEF composite
  <2> QED
    BY <2>1, FewSteps
<1>6. Grade(d, b) = IF Distress(d, b) THEN 0 ELSE Cardinality(climbed)
  BY DEF Grade
<1>7. ASSUME ~b.toxic, Grade(d, b) = 0 PROVE OrElse(Margin(d), 0) < -50 /\ ~Loss(d)
  <2>1. y >= 1 /\ ~Loss(d) /\ b.pci >= 5000
    BY <1>7, ModerateBundle, YearsAreCounted, SMT
  <2>2. 12 \in climbed
    <3>1. \A n \in Int, k \in Int : n >= 5000 /\ k >= 0 => 38500 * n + 9 * k >= 12 * 7000000
      BY SMT
    <3> QED
      BY <1>1, <1>4, <2>1, <3>1, SMT
  <2>3. Cardinality(climbed) # 0
    <3> HIDE DEF climbed
    <3> QED
      BY <1>5, <2>2, FS_EmptySet
  <2>4. Distress(d, b)
    BY <1>6, <1>7, <2>3
  <2> QED
    BY <1>7, <2>1, <2>4, SMT DEF Distress
<1>8. ASSUME b.class = "ELITE_COMPOUNDER" PROVE Grade(d, b) >= 4
  <2>1. /\ ~b.toxic /\ y >= 5 /\ OrElse(Margin(d), 0) >= 120 /\ b.health >= 8200
        /\ b.pci >= 7500 /\ OrElse(Roe(d), 0) >= 64 /\ g >= 144 /\ b.penalty <= 400
    BY <1>8, ModerateBundle, SMT
  <2>2. ~Distress(d, b)
    BY <1>1, <2>1, YearsAreCounted, MarginIsTold, Readings, SMT DEF Distress
  <2>3. m >= 15 /\ r >= 15 /\ told >= 645
    <3>1. m >= 15 /\ r >= 15
      <4>1. ASSUME NEW n \in Told, OrElse(n, 0) >= 64
            PROVE  OrElse(Normalize(n), 0) >= 15
        <5>1. n # Null /\ n \in Int /\ n >= 15
          BY <4>1, Readings, SMT
        <5>2. Normalize(n) \in Told /\ Normalize(n) # Null /\ Normalize(n) >= 15
          BY <4>1, <5>1, Readings, DossierAssumption, SMT
        <5> QED
          BY <5>2, Readings
      <4>2. OrElse(Margin(d), 0) >= 64
        BY <2>1, MarginIsTold, Readings, SMT
      <4> QED
        BY <2>1, <4>1, <4>2, MarginIsTold, RoeIsTold
    <3>2. whole >= 1290000
      BY <2>1, QualitativeAtLeast, SMT
    <3> HIDE DEF whole
    <3> QED
      BY <1>1, <1>2, <3>1, <3>2, SMT
  <2>4. Pillars(d, b) >= 23000000
    <3> HIDE DEF m, r, y, g
    <3> QED
      BY <1>1, <1>2, <1>3, <2>1, <2>3, SMT DEF Between
  <2>5. {12, 28, 46, 64} \subseteq climbed
    <3>1. \A n \in Int, k \in Int :
            n >= 7500 /\ k >= 23000000 => 38500 * n + 9 * k >= 64 * 7000000
      BY SMT
    <3>2. composite >= 64 * 7000000
      BY <1>1, <1>4, <2>1, <2>4, <3>1, SMT
    <3> HIDE DEF composite
    <3> QED
      BY <1>5, <3>2, SMT
  <2>6. IsFiniteSet({12, 28, 46, 64}) /\ Cardinality({12, 28, 46, 64}) = 4
    <3>1. IsFiniteSet({12}) /\ Cardinality({12}) = 1
      BY FS_Singleton
    <3>2. IsFiniteSet({12, 28}) /\ Cardinality({12, 28}) = 2
      <4>1. {12, 28} = {12} \union {28}
        OBVIOUS
      <4> QED
        BY <3>1, <4>1, FS_AddElement
    <3>3. IsFiniteSet({12, 28, 46}) /\ Cardinality({12, 28, 46}) = 3
      <4>1. {12, 28, 46} = {12, 28} \union {46}
        OBVIOUS
      <4> QED
        BY <3>2, <4>1, FS_AddElement
    <3>4. {12, 28, 46, 64} = {12, 28, 46} \union {64}
      OBVIOUS
    <3> QED
      BY <3>3, <3>4, FS_AddElement
  <2>7. Cardinality(climbed) >= 4
    <3> HIDE DEF climbed
    <3> QED
      BY <1>5, <2>5, <2>6, FS_Subset
  <2> QED
    BY <1>6, <2>2, <2>7
<1> QED
  BY <1>7, <1>8

DossierInv == dossier \in Dossiers /\ page = Page(dossier)

LEMMA DossierStays ==
  /\ DossierInit => DossierInv
  /\ DossierInv /\ [Reload]_dossierVars => DossierInv'
<1>1. DossierInit => DossierInv
  BY DEF DossierInit, DossierInv
<1>2. ASSUME DossierInv, Reload PROVE DossierInv'
  <2>1. dossier' \in Dossiers
    BY <1>2 DEF DossierInv, Reload, Dossiers
  <2> QED
    BY <1>2, <2>1 DEF Reload, DossierInv
<1>3. ASSUME DossierInv, UNCHANGED dossierVars PROVE DossierInv'
  BY <1>3 DEF DossierInv, dossierVars
<1> QED
  BY <1>1, <1>2, <1>3

\* Whatever the sources say, and however often they change: what the panel puts
\* fresh cash on for the moderate profile is not sealed critical, save on a margin
\* far below zero that no loss bears out, and an elite compounder is sealed solid.
THEOREM SealsAgree == DossierSpec => []SealAgreesWithPanel
<1>1. DossierInv => SealAgreesWithPanel
  <2> SUFFICES ASSUME DossierInv PROVE SealAgreesWithPanel
    OBVIOUS
  <2>1. PICK b : b = Bundle(dossier, "MODERATE")
    OBVIOUS
  <2>2. /\ page.seal = Grade(dossier, b)
        /\ page.class["MODERATE"] = b.class
        /\ "MODERATE" \in page.advised => ~b.toxic
    BY <2>1 DEF DossierInv, Page, Profiles
  <2>3. dossier \in Dossiers
    BY DEF DossierInv
  <2> QED
    BY <2>1, <2>2, <2>3, ModerateGrade DEF SealAgreesWithPanel
<1> QED
  BY <1>1, DossierStays, PTL DEF DossierSpec

\* Every ratio is read as it is meant: normalizeRatio takes percent for percent
\* and nothing else, and does so again for what it has already read.
ReadAsMeant ==
  /\ \A n \in (Margins \union Returns \union TtmReturns) \ {Null} :
       Normalize(Raw(n)) = n.ratio /\ Size(n.ratio) <= 1500
  /\ \A s \in Statements \ {Null} :
       s.revenue > 0 => Size((1000 * s.income) \div s.revenue) <= 1500

RatioOf(n) == IF n = Null THEN Null ELSE n.ratio

\* What is told is the same, or a larger number.
NoLess(a, b) == a = b \/ (a \in Int /\ b \in Int /\ a >= b)

LEMMA AsMeant ==
  ASSUME ReadAsMeant, NEW n \in Margins \union Returns \union TtmReturns
  PROVE  /\ Normalize(Raw(n)) = RatioOf(n) /\ RatioOf(n) \in Told
         /\ RatioOf(n) # Null => -1500 <= RatioOf(n) /\ RatioOf(n) <= 1500
<1>1. CASE n = Null
  BY <1>1 DEF Raw, Normalize, RatioOf, Told
<1>2. CASE n # Null
  <2>1. n \in {Null} \union [ratio : Int, percent : BOOLEAN]
    BY DossierAssumption
  <2>2. n.ratio \in Int
    BY <1>2, <2>1
  <2>3. Normalize(Raw(n)) = n.ratio /\ Size(n.ratio) <= 1500
    BY <1>2 DEF ReadAsMeant
  <2> QED
    BY <1>2, <2>2, <2>3 DEF RatioOf, Told, Size
<1> QED
  BY <1>1, <1>2

\* A number that is read already is read as it is.
LEMMA ReadTwice ==
  ASSUME NEW n \in Told, n # Null => -1500 <= n /\ n <= 1500
  PROVE  Normalize(n) = n
BY DEF Normalize, Told, Size

\* What NoWorse says, source by source.
LEMMA NoWorseSources ==
  ASSUME NEW c \in Dossiers, NEW d \in Dossiers, NoWorse(c, d)
  PROVE  /\ NoLess(RatioOf(c.margin), RatioOf(d.margin))
         /\ NoLess(RatioOf(c.roe), RatioOf(d.roe))
         /\ c.ttm = d.ttm
         /\ d.statement = Null <=> c.statement = Null
         /\ d.statement # Null =>
              /\ c.statement.revenue = d.statement.revenue
              /\ c.statement.income >= d.statement.income
         /\ c.streak >= d.streak
         /\ d.growth = Null <=> c.growth = Null
         /\ d.growth # Null => /\ c.growth.years = d.growth.years
                               /\ c.growth.rate >= d.growth.rate
         /\ d.debt = Null <=> c.debt = Null
         /\ d.debt # Null => c.debt.of = d.debt.of /\ c.debt.times <= d.debt.times
         /\ c.esteem = d.esteem
<1>1. /\ NoLess(RatioOf(c.margin), RatioOf(d.margin))
      /\ NoLess(RatioOf(c.roe), RatioOf(d.roe))
      /\ c.ttm = d.ttm
  BY DossierFields DEF NoWorse, NoLess, RatioOf
<1>2. /\ d.statement = Null <=> c.statement = Null
      /\ d.statement # Null => /\ c.statement.revenue = d.statement.revenue
                               /\ c.statement.income >= d.statement.income
  BY DossierFields DEF NoWorse
<1>3. c.streak >= d.streak /\ c.esteem = d.esteem
  BY DEF NoWorse
<1>4. /\ d.growth = Null <=> c.growth = Null
      /\ d.growth # Null => /\ c.growth.years = d.growth.years
                            /\ c.growth.rate >= d.growth.rate
  BY DossierFields DEF NoWorse
<1>5. /\ d.debt = Null <=> c.debt = Null
      /\ d.debt # Null => c.debt.of = d.debt.of /\ c.debt.times <= d.debt.times
  BY DossierFields DEF NoWorse
<1> QED
  BY <1>1, <1>2, <1>3, <1>4, <1>5

\* The return on equity: a quote that gets better may come to agree with the key
\* metrics, or cease to, and neither makes the return less.
LEMMA RoeGrows ==
  ASSUME ReadAsMeant, NEW c \in Dossiers, NEW d \in Dossiers, NoWorse(c, d)
  PROVE  NoLess(Roe(c), Roe(d)) /\ Normalize(Roe(d)) = Roe(d)
<1>1. /\ c.roe \in Returns /\ d.roe \in Returns /\ d.ttm \in TtmReturns
      /\ c.ttm = d.ttm /\ NoLess(RatioOf(c.roe), RatioOf(d.roe))
  BY NoWorseSources DEF Dossiers
<1>2. PICK q \in Told, k \in Told, t \in Told :
        /\ k = RatioOf(c.roe) /\ q = RatioOf(d.roe) /\ t = RatioOf(d.ttm)
        /\ NoLess(k, q)
        /\ q # Null => -1500 <= q /\ q <= 1500
        /\ t # Null => -1500 <= t /\ t <= 1500
  BY <1>1, AsMeant
<1>3. /\ Roe(d) = IF t # Null /\ Agree(q, t) THEN t ELSE q
      /\ Roe(c) = IF t # Null /\ Agree(k, t) THEN t ELSE k
  BY <1>1, <1>2, AsMeant DEF Roe
<1>4. Normalize(Roe(d)) = Roe(d)
  BY <1>2, <1>3, ReadTwice
<1>5. CASE q = Null \/ k = Null
  <2>1. k = q
    BY <1>2, <1>5, DossierAssumption DEF NoLess
  <2> QED
    BY <1>3, <1>4, <2>1 DEF NoLess
<1>6. CASE t = Null
  BY <1>2, <1>3, <1>4, <1>6
<1>7. CASE q # Null /\ k # Null /\ t # Null
  <2>1. q \in Int /\ k \in Int /\ t \in Int /\ k >= q
    BY <1>2, <1>7 DEF Told, NoLess
  <2>2. /\ Agree(q, t) <=> 100 * Size(q - t) <= 45 * (IF Size(q) > Size(t) THEN Size(q)
                                                                           ELSE Size(t))
        /\ Agree(k, t) <=> 100 * Size(k - t) <= 45 * (IF Size(k) > Size(t) THEN Size(k)
                                                                           ELSE Size(t))
    BY <1>7 DEF Agree
  <2>3. Agree(k, t) /\ ~Agree(q, t) => t >= q
    BY <2>1, <2>2, SMT DEF Size
  <2>4. ~Agree(k, t) /\ Agree(q, t) => k >= t
    BY <2>1, <2>2, SMT DEF Size
  <2> QED
    BY <1>3, <1>4, <1>7, <2>1, <2>3, <2>4 DEF NoLess
<1> QED
  BY <1>4, <1>5, <1>6, <1>7

\* The margin: what is above zero does not become less, and of a company with a
\* year of profit nothing does.
LEMMA MarginGrows ==
  ASSUME ReadAsMeant, NEW c \in Dossiers, NEW d \in Dossiers, NoWorse(c, d)
  PROVE  /\ OrElse(Margin(d), 0) > 0 \/ Years(d) >= 1 => NoLess(Margin(c), Margin(d))
         /\ Years(d) >= 1 => Normalize(Margin(d)) = Margin(d)
<1>1. /\ d.margin \in Margins /\ c.margin \in Margins
      /\ d.statement \in Statements /\ c.statement \in Statements
  BY DEF Dossiers
<1>2. PICK q \in Told, k \in Told :
        /\ k = Normalize(Raw(c.margin)) /\ q = Normalize(Raw(d.margin))
        /\ NoLess(k, q)
        /\ q # Null => -1500 <= q /\ q <= 1500
  BY <1>1, AsMeant, NoWorseSources
<1>3. CASE d.statement = Null
  BY <1>2, <1>3, NoWorseSources, ReadTwice DEF Margin
<1>4. CASE d.statement # Null /\ d.statement.revenue > 0
  <2>1. /\ c.statement # Null /\ c.statement.revenue = d.statement.revenue
        /\ c.statement.income >= d.statement.income
        /\ c.statement.income \in Int /\ d.statement.income \in Int
        /\ d.statement.revenue \in Nat
    BY <1>4, NoWorseSources, DossierFields
  <2>2. PICK x \in Int, z \in Int :
          /\ x = (1000 * c.statement.income) \div d.statement.revenue
          /\ z = (1000 * d.statement.income) \div d.statement.revenue
          /\ x >= z
    <3>1. /\ 1000 * c.statement.income \in Int /\ 1000 * d.statement.income \in Int
          /\ 1000 * c.statement.income >= 1000 * d.statement.income
      BY <2>1
    <3>2. /\ (1000 * c.statement.income) \div d.statement.revenue \in Int
          /\ (1000 * d.statement.income) \div d.statement.revenue \in Int
      BY <1>4, <2>1, <3>1
    <3> QED
      BY <1>4, <2>1, <3>1, <3>2, DivGrows
  <2>3. Size(x) <= 1500 /\ Size(z) <= 1500
    BY <1>1, <1>4, <2>1, <2>2 DEF ReadAsMeant
  <2>4. Normalize(x) = x /\ Normalize(z) = z
    BY <2>2, <2>3 DEF Normalize, Size
  <2> QED
    BY <1>4, <2>1, <2>2, <2>4 DEF Margin, NoLess
<1>5. CASE d.statement # Null /\ d.statement.revenue = 0 /\ d.statement.income >= 0
  <2>1. /\ c.statement # Null /\ c.statement.revenue = 0 /\ c.statement.income >= 0
        /\ c.statement.income \in Int /\ d.statement.income \in Int
    BY <1>5, NoWorseSources, DossierFields
  <2> QED
    BY <1>2, <1>5, <2>1, ReadTwice DEF Margin
<1>6. CASE d.statement # Null /\ d.statement.revenue = 0 /\ d.statement.income < 0
  <2>1. d.statement.income \in Int
    BY <1>6, DossierFields
  <2>2. Normalize(1000 * d.statement.income) < 0
           /\ Normalize(1000 * d.statement.income) \in Int
           /\ 1000 * d.statement.income # Null
    BY <1>6, <2>1, DossierAssumption DEF Normalize, Size
  <2>3. Margin(d) \in Int /\ Margin(d) < 0
    BY <1>6, <2>1, <2>2 DEF Margin
  <2>4. Years(d) = 0 /\ ~(OrElse(Margin(d), 0) > 0)
    BY <1>6, <2>1, <2>3, DossierAssumption DEF Years, OrElse
  <2> QED
    BY <2>4, SMT
<1> QED
  BY <1>3, <1>4, <1>5, <1>6, DossierFields

LEMMA YearsGrow ==
  ASSUME ReadAsMeant, NEW c \in Dossiers, NEW d \in Dossiers, NoWorse(c, d)
  PROVE  Years(c) \in Nat /\ Years(d) \in Nat /\ Years(c) >= Years(d)
<1>1. Years(c) \in Nat /\ Years(d) \in Nat
  BY YearsAreCounted
<1>2. /\ c.streak \in Nat /\ d.streak \in Nat /\ c.streak >= d.streak
      /\ d.statement = Null <=> c.statement = Null
      /\ d.statement # Null => /\ c.statement.income >= d.statement.income
                               /\ c.statement.income \in Int
                               /\ d.statement.income \in Int
  BY NoWorseSources, DossierFields
<1>3. OrElse(Margin(d), 0) > 0 => OrElse(Margin(c), 0) > 0
  BY MarginGrows, MarginIsTold, Readings, DossierAssumption DEF NoLess, OrElse
<1> QED
  BY <1>1, <1>2, <1>3 DEF Years

LEMMA GrowthGrows ==
  ASSUME NEW c \in Dossiers, NEW d \in Dossiers, NoWorse(c, d)
  PROVE  Growth(c) \in Int /\ Growth(d) \in Int /\ Growth(c) >= Growth(d)
<1>1. d.growth # Null =>
        /\ c.growth.rate \in Int /\ d.growth.rate \in Int
        /\ c.growth.rate >= d.growth.rate /\ c.growth.years = d.growth.years
        /\ c.growth.rate \div 3 >= d.growth.rate \div 3
  BY NoWorseSources, DossierFields
<1>2. d.growth = Null <=> c.growth = Null
  BY NoWorseSources
<1> QED
  BY <1>1, <1>2, GrowthIsTold DEF Growth

LEMMA PenaltyShrinks ==
  ASSUME NEW c \in Dossiers, NEW d \in Dossiers, NoWorse(c, d), NEW p \in Profiles
  PROVE  /\ Penalty(c, p) \in Nat /\ Penalty(d, p) \in Nat
         /\ Penalty(c, p) <= Penalty(d, p)
<1>1. Debt(c) \in Int /\ Debt(d) \in Int /\ Debt(c) <= Debt(d)
  <2>1. /\ d.debt = Null <=> c.debt = Null
        /\ d.debt # Null =>
             /\ d.debt.of \in {"income", "equity"} /\ c.debt.of = d.debt.of
             /\ c.debt.times \in Int /\ d.debt.times \in Int
             /\ c.debt.times <= d.debt.times
             /\ (3 * c.debt.times) \div 4 + 35 \in Int
             /\ (3 * d.debt.times) \div 4 + 35 \in Int
             /\ (3 * c.debt.times) \div 4 + 35 <= (3 * d.debt.times) \div 4 + 35
    BY NoWorseSources, DossierFields
  <2> QED
    BY <2>1 DEF Debt
<1>2. \/ Config[p].debt = 200 /\ Config[p].fine = 25
      \/ Config[p].debt = 300 /\ Config[p].fine = 20
      \/ Config[p].debt = 450 /\ Config[p].fine = 15
  BY DEF Config, Profiles
<1> QED
  BY <1>1, <1>2 DEF Penalty

\* What is cut keeps its order, and of what is below zero nothing is left.
LEMMA CutGrows ==
  ASSUME NEW high \in Nat, NEW n \in Int, NEW k \in Int, n >= k \/ k <= 0
  PROVE  /\ Between(0, high, n) \in Nat /\ Between(0, high, k) \in Nat
         /\ Between(0, high, n) >= Between(0, high, k)
BY DEF Between

LEMMA NoLessOf ==
  ASSUME NEW a, NEW b, NoLess(a, b), OrElse(a, 0) \in Int, OrElse(b, 0) \in Int
  PROVE  OrElse(a, 0) >= OrElse(b, 0)
<1>1. CASE a = b
  BY <1>1, SMT
<1>2. CASE a # b
  BY <1>2, DossierAssumption DEF NoLess, OrElse
<1> QED
  BY <1>1, <1>2

LEMMA RatiosGrow ==
  ASSUME ReadAsMeant, NEW c \in Dossiers, NEW d \in Dossiers, NoWorse(c, d)
  PROVE  /\ OrElse(Margin(c), 0) \in Int /\ OrElse(Margin(d), 0) \in Int
         /\ OrElse(Margin(c), 0) >= OrElse(Margin(d), 0) \/ OrElse(Margin(d), 0) <= 0
         /\ OrElse(Roe(c), 0) \in Int /\ OrElse(Roe(d), 0) \in Int
         /\ OrElse(Roe(c), 0) >= OrElse(Roe(d), 0)
<1>1. /\ OrElse(Margin(c), 0) \in Int /\ OrElse(Margin(d), 0) \in Int
      /\ OrElse(Roe(c), 0) \in Int /\ OrElse(Roe(d), 0) \in Int
  BY MarginIsTold, RoeIsTold, Readings
<1>2. /\ OrElse(Margin(c), 0) >= OrElse(Margin(d), 0) \/ OrElse(Margin(d), 0) <= 0
  <2>1. OrElse(Margin(d), 0) > 0 => NoLess(Margin(c), Margin(d))
    BY MarginGrows
  <2> QED
    BY <1>1, <2>1, NoLessOf
<1>3. OrElse(Roe(c), 0) >= OrElse(Roe(d), 0)
  BY <1>1, RoeGrows, NoLessOf
<1> QED
  BY <1>1, <1>2, <1>3

LEMMA HealthGrows ==
  ASSUME ReadAsMeant, NEW c \in Dossiers, NEW d \in Dossiers, NoWorse(c, d),
         NEW p \in Profiles
  PROVE  /\ ExactHealth(c, p) \in Nat /\ ExactHealth(d, p) \in Nat
         /\ ExactHealth(c, p) >= ExactHealth(d, p)
<1>1. /\ OrElse(Margin(c), 0) \in Int /\ OrElse(Margin(d), 0) \in Int
      /\ OrElse(Margin(c), 0) >= OrElse(Margin(d), 0) \/ OrElse(Margin(d), 0) <= 0
      /\ OrElse(Roe(c), 0) \in Int /\ OrElse(Roe(d), 0) \in Int
      /\ OrElse(Roe(c), 0) >= OrElse(Roe(d), 0)
  BY RatiosGrow
<1>2. Years(c) \in Nat /\ Years(d) \in Nat /\ Years(c) >= Years(d)
  BY YearsGrow
<1>3. /\ Growth(c) \in Int /\ Growth(d) \in Int /\ Growth(c) >= Growth(d)
      /\ Penalty(c, p) \in Nat /\ Penalty(d, p) \in Nat /\ Penalty(c, p) <= Penalty(d, p)
  BY GrowthGrows, PenaltyShrinks
<1>4. PICK ky \in {40000, 60000, 120000}, km \in {1500, 2400, 6000},
           kr \in {1000, 1500, 2400} :
        /\ ky = 120000 \div Config[p].years /\ km = 120000 \div Config[p].margin
        /\ kr = 120000 \div Config[p].roe
  <2>1. /\ 120000 \div 3 = 40000 /\ 120000 \div 2 = 60000 /\ 120000 \div 1 = 120000
        /\ 120000 \div 80 = 1500 /\ 120000 \div 50 = 2400 /\ 120000 \div 20 = 6000
        /\ 120000 \div 120 = 1000
    BY SMT
  <2>2. Config[p].years \in {3, 2, 1} /\ Config[p].margin \in {80, 50, 20}
          /\ Config[p].roe \in {120, 80, 50}
    BY SMT DEF Config, Profiles
  <2> QED
    BY <2>1, <2>2, SMT
<1>5. PICK wMargin \in {22, 20, 18}, wRoe \in {22, 20, 18}, wGrowth \in {16, 18, 22} :
        /\ wMargin = Config[p].wMargin /\ wRoe = Config[p].wRoe
        /\ wGrowth = Config[p].wGrowth
  BY SMT DEF Config, Profiles
<1> DEFINE longevity(e) == Between(0, 120000, Years(e) * ky)
           margin(e) == Between(0, 120000, OrElse(Margin(e), 0) * km)
           roe(e) == Between(0, 120000, OrElse(Roe(e), 0) * kr)
           growth(e) == Between(0, 120000, (Growth(e) + 50) * 480)
           whole(e) == 28 * longevity(e) + wMargin * margin(e) + wRoe * roe(e)
                         + wGrowth * growth(e) - 1200 * Penalty(e, p)
<1>6. /\ ExactHealth(c, p) = Between(0, 12000000, whole(c))
      /\ ExactHealth(d, p) = Between(0, 12000000, whole(d))
  BY <1>4, <1>5, SMT DEF ExactHealth
<1>7. /\ longevity(c) \in Nat /\ longevity(d) \in Nat /\ longevity(c) >= longevity(d)
      /\ margin(c) \in Nat /\ margin(d) \in Nat /\ margin(c) >= margin(d)
      /\ roe(c) \in Nat /\ roe(d) \in Nat /\ roe(c) >= roe(d)
      /\ growth(c) \in Nat /\ growth(d) \in Nat /\ growth(c) >= growth(d)
  <2>1. /\ Years(c) * ky \in Int /\ Years(d) * ky \in Int
        /\ Years(c) * ky >= Years(d) * ky
    BY <1>2, <1>4, SMT
  <2>2. /\ OrElse(Margin(c), 0) * km \in Int /\ OrElse(Margin(d), 0) * km \in Int
        /\ \/ OrElse(Margin(c), 0) * km >= OrElse(Margin(d), 0) * km
           \/ OrElse(Margin(d), 0) * km <= 0
    BY <1>1, <1>4, SMT
  <2>3. /\ OrElse(Roe(c), 0) * kr \in Int /\ OrElse(Roe(d), 0) * kr \in Int
        /\ OrElse(Roe(c), 0) * kr >= OrElse(Roe(d), 0) * kr
    BY <1>1, <1>4, SMT
  <2>4. /\ (Growth(c) + 50) * 480 \in Int /\ (Growth(d) + 50) * 480 \in Int
        /\ (Growth(c) + 50) * 480 >= (Growth(d) + 50) * 480
    BY <1>3, SMT
  <2>5. longevity(c) \in Nat /\ longevity(d) \in Nat /\ longevity(c) >= longevity(d)
    BY <2>1, SMT DEF Between
  <2>6. margin(c) \in Nat /\ margin(d) \in Nat /\ margin(c) >= margin(d)
    BY <2>2, SMT DEF Between
  <2>7. roe(c) \in Nat /\ roe(d) \in Nat /\ roe(c) >= roe(d)
    BY <2>3, SMT DEF Between
  <2>8. growth(c) \in Nat /\ growth(d) \in Nat /\ growth(c) >= growth(d)
    BY <2>4, SMT DEF Between
  <2> QED
    BY <2>5, <2>6, <2>7, <2>8
<1> HIDE DEF longevity, margin, roe, growth
<1>8. whole(c) \in Int /\ whole(d) \in Int /\ whole(c) >= whole(d)
  <2>1. PICK y \in Int, y1 \in Int : y = longevity(d) /\ y1 = longevity(c) /\ y1 >= y
    BY <1>7
  <2>2. PICK m \in Int, m1 \in Int : m = margin(d) /\ m1 = margin(c) /\ m1 >= m
    BY <1>7
  <2>3. PICK r \in Int, r1 \in Int : r = roe(d) /\ r1 = roe(c) /\ r1 >= r
    BY <1>7
  <2>4. PICK g \in Int, g1 \in Int : g = growth(d) /\ g1 = growth(c) /\ g1 >= g
    BY <1>7
  <2>5. PICK f \in Int, f1 \in Int : f = Penalty(d, p) /\ f1 = Penalty(c, p) /\ f1 <= f
    BY <1>3
  <2>6. /\ wMargin * m1 \in Int /\ wMargin * m \in Int /\ wMargin * m1 >= wMargin * m
        /\ wRoe * r1 \in Int /\ wRoe * r \in Int /\ wRoe * r1 >= wRoe * r
        /\ wGrowth * g1 \in Int /\ wGrowth * g \in Int /\ wGrowth * g1 >= wGrowth * g
    BY <1>5, <2>2, <2>3, <2>4, SMT
  <2> QED
    BY <2>1, <2>2, <2>3, <2>4, <2>5, <2>6, SMT
<1> HIDE DEF whole
<1> QED
  BY <1>6, <1>8, CutGrows, SMT

\* The four qualitative scores.
LEMMA QualitativeGrows ==
  ASSUME ReadAsMeant, NEW c \in Dossiers, NEW d \in Dossiers, NoWorse(c, d)
  PROVE  /\ Qualitative(c) \in Int /\ Qualitative(d) \in Int
         /\ Qualitative(d) >= 0 /\ Qualitative(c) >= Qualitative(d)
<1>1. /\ OrElse(Margin(c), 0) \in Int /\ OrElse(Margin(d), 0) \in Int
      /\ OrElse(Margin(c), 0) >= OrElse(Margin(d), 0) \/ OrElse(Margin(d), 0) <= 0
      /\ OrElse(Roe(c), 0) \in Int /\ OrElse(Roe(d), 0) \in Int
      /\ OrElse(Roe(c), 0) >= OrElse(Roe(d), 0)
  BY RatiosGrow
<1>2. /\ Years(c) \in Nat /\ Years(d) \in Nat /\ Years(c) >= Years(d)
      /\ Growth(c) \in Int /\ Growth(d) \in Int /\ Growth(c) >= Growth(d)
  BY YearsGrow, GrowthGrows
<1>3. c.esteem = d.esteem /\ (d.growth = Null <=> c.growth = Null)
  BY NoWorseSources
<1>4. /\ Between(0, 200, OrElse(Margin(c), 0)) \in Nat
      /\ Between(0, 200, OrElse(Margin(d), 0)) \in Nat
      /\ Between(0, 200, OrElse(Margin(c), 0)) >= Between(0, 200, OrElse(Margin(d), 0))
      /\ Between(0, 250, OrElse(Roe(c), 0)) \in Nat
      /\ Between(0, 250, OrElse(Roe(d), 0)) \in Nat
      /\ Between(0, 250, OrElse(Roe(c), 0)) >= Between(0, 250, OrElse(Roe(d), 0))
  BY <1>1, SMT DEF Between
<1>5. /\ Between(0, 5, Years(c)) \in Nat /\ Between(0, 5, Years(d)) \in Nat
      /\ Between(0, 5, Years(c)) >= Between(0, 5, Years(d))
      /\ Between(0, 200, Growth(c) + 50) \in Nat /\ Between(0, 200, Growth(d) + 50) \in Nat
      /\ Between(0, 200, Growth(c) + 50) >= Between(0, 200, Growth(d) + 50)
  BY <1>2, SMT DEF Between
<1>6. PICK dividend \in {0, 1000} : dividend = IF d.esteem.dividend THEN 1000 ELSE 0
  OBVIOUS
<1>7. PICK risen \in {0, 1000} : risen = IF d.esteem.risen THEN 1000 ELSE 0
  OBVIOUS
<1>8. Moat(c) \in Nat /\ Moat(d) \in Nat /\ Moat(c) >= Moat(d)
  <2>1. PICK n \in Int, k \in Int :
          /\ n = 11000 + 25 * Between(0, 200, OrElse(Margin(c), 0))
                   + 16 * Between(0, 250, OrElse(Roe(c), 0)) + dividend
          /\ k = 11000 + 25 * Between(0, 200, OrElse(Margin(d), 0))
                   + 16 * Between(0, 250, OrElse(Roe(d), 0)) + dividend
          /\ n >= k
    BY <1>4, <1>6, SMT
  <2>2. Moat(c) = Between(0, 20000, n) /\ Moat(d) = Between(0, 20000, k)
    BY <1>3, <1>6, <2>1, SMT DEF Moat
  <2> QED
    BY <2>1, <2>2, SMT DEF Between
<1>9. Execution(c) \in Nat /\ Execution(d) \in Nat /\ Execution(c) >= Execution(d)
  <2>1. PICK grew \in Nat, had \in Nat :
          /\ grew = IF c.growth = Null THEN 0 ELSE 25 * Between(0, 200, Growth(c) + 50)
          /\ had = IF d.growth = Null THEN 0 ELSE 25 * Between(0, 200, Growth(d) + 50)
          /\ grew >= had
    BY <1>3, <1>5, SMT
  <2>2. PICK n \in Int, k \in Int :
          /\ n = 10000 + 1000 * Between(0, 5, Years(c)) + grew + risen
          /\ k = 10000 + 1000 * Between(0, 5, Years(d)) + had + risen
          /\ n >= k
    BY <1>5, <1>7, <2>1, SMT
  <2>3. Execution(c) = Between(0, 20000, n) /\ Execution(d) = Between(0, 20000, k)
    BY <1>3, <1>7, <2>1, <2>2, SMT DEF Execution
  <2> QED
    BY <2>2, <2>3, SMT DEF Between
<1>10. PICK sector \in 55..85, governance \in 65..86 :
         sector = d.esteem.sector /\ governance = d.esteem.governance
  BY DossierFields
<1>11. /\ Qualitative(c) = 35 * 200 * sector + 25 * 200 * governance
                              + 20 * Moat(c) + 20 * Execution(c)
       /\ Qualitative(d) = 35 * 200 * sector + 25 * 200 * governance
                              + 20 * Moat(d) + 20 * Execution(d)
  BY <1>3, <1>10 DEF Qualitative
<1> QED
  BY <1>8, <1>9, <1>10, <1>11, SMT

\* The bundle of each profile.
LEMMA BundleGrows ==
  ASSUME ReadAsMeant, NEW c \in Dossiers, NEW d \in Dossiers, NoWorse(c, d),
         NEW p \in Profiles, NEW a, NEW b, a = Bundle(c, p), b = Bundle(d, p)
  PROVE  /\ a.health \in Nat /\ b.health \in Nat /\ a.health >= b.health
         /\ a.pci \in Int /\ b.pci \in Int /\ a.pci >= b.pci
         /\ a.penalty = Penalty(c, p) /\ b.penalty = Penalty(d, p)
         /\ ~b.toxic => ~a.toxic /\ Years(d) >= 1
<1>1. /\ ExactHealth(c, p) \in Nat /\ ExactHealth(d, p) \in Nat
      /\ ExactHealth(c, p) >= ExactHealth(d, p)
  BY HealthGrows
<1>2. /\ Qualitative(c) \in Int /\ Qualitative(d) \in Int
      /\ Qualitative(d) >= 0 /\ Qualitative(c) >= Qualitative(d)
      /\ Years(c) \in Nat /\ Years(d) \in Nat /\ Years(c) >= Years(d)
  BY QualitativeGrows, YearsGrow
<1>3. PICK h \in Nat, k \in Nat :
        /\ h = (ExactHealth(c, p) + 600) \div 1200 /\ k = (ExactHealth(d, p) + 600) \div 1200
        /\ h >= k
  BY <1>1, SMT
<1>4. PICK m \in Nat, n \in Nat :
        /\ m = (1200 * h + 4 * Qualitative(c) + 1000) \div 2000
        /\ n = (1200 * k + 4 * Qualitative(d) + 1000) \div 2000
        /\ m >= n
  BY <1>2, <1>3, SMT
<1> DEFINE bad == ExactHealth(c, p) < 50 * 120000 \/ Years(c) = 0
           ill == ExactHealth(d, p) < 50 * 120000 \/ Years(d) = 0
<1>5. ~ill => ~bad /\ Years(d) >= 1
  BY <1>1, <1>2, SMT
<1> HIDE DEF bad, ill
<1>6. /\ a.health = h /\ a.toxic = bad /\ a.penalty = Penalty(c, p)
      /\ a.pci = IF bad THEN 0 ELSE m
  BY <1>3, <1>4 DEF Bundle, bad
<1>7. /\ b.health = k /\ b.toxic = ill /\ b.penalty = Penalty(d, p)
      /\ b.pci = IF ill THEN 0 ELSE n
  BY <1>3, <1>4 DEF Bundle, ill
<1> QED
  BY <1>3, <1>4, <1>5, <1>6, <1>7

\* The grade of the seal.
LEMMA GradeGrows ==
  ASSUME ReadAsMeant, NEW c \in Dossiers, NEW d \in Dossiers, NoWorse(c, d),
         NEW a, NEW b, a = Bundle(c, "MODERATE"), b = Bundle(d, "MODERATE")
  PROVE  Grade(c, a) >= Grade(d, b)
<1> DEFINE composite(e, f) == 38500 * f.pci + 9 * Pillars(e, f)
           climbed(e, f) == {n \in {12, 28, 46, 64, 80} : composite(e, f) >= n * 7000000}
<1>1. /\ Grade(c, a) = IF Distress(c, a) THEN 0 ELSE Cardinality(climbed(c, a))
      /\ Grade(d, b) = IF Distress(d, b) THEN 0 ELSE Cardinality(climbed(d, b))
  BY DEF Grade
<1>2. /\ IsFiniteSet(climbed(c, a)) /\ Cardinality(climbed(c, a)) \in Nat
      /\ IsFiniteSet(climbed(d, b)) /\ Cardinality(climbed(d, b)) \in Nat
  BY FewSteps
<1> HIDE DEF climbed
<1>3. Grade(c, a) \in Nat /\ Grade(d, b) \in Nat
  BY <1>1, <1>2
<1>4. CASE Distress(d, b)
  BY <1>1, <1>3, <1>4
<1>5. CASE ~Distress(d, b)
  <2>1. "MODERATE" \in Profiles
    BY DEF Profiles
  <2>2. /\ a.health \in Nat /\ b.health \in Nat /\ a.health >= b.health
        /\ a.pci \in Int /\ b.pci \in Int /\ a.pci >= b.pci
        /\ a.penalty = Penalty(c, "MODERATE") /\ b.penalty = Penalty(d, "MODERATE")
        /\ ~b.toxic => ~a.toxic /\ Years(d) >= 1
    BY <2>1, BundleGrows
  <2>3. ~b.toxic /\ ~a.toxic
    BY <1>5, <2>2 DEF Distress
  <2>4. /\ Years(c) \in Nat /\ Years(d) \in Nat /\ Years(c) >= Years(d) /\ Years(d) >= 1
    BY <2>2, <2>3, YearsGrow
  <2>5. /\ NoLess(Margin(c), Margin(d)) /\ Normalize(Margin(d)) = Margin(d)
        /\ Normalize(Margin(c)) = Margin(c)
    <3>1. NoWorse(c, c)
      BY DossierFields DEF NoWorse
    <3>2. Years(c) >= 1
      BY <2>4
    <3> QED
      BY <2>4, <3>1, <3>2, MarginGrows
  <2>6. /\ NoLess(Roe(c), Roe(d)) /\ Normalize(Roe(d)) = Roe(d)
        /\ Normalize(Roe(c)) = Roe(c)
    <3>1. NoWorse(c, c)
      BY DossierFields DEF NoWorse
    <3> QED
      BY <3>1, RoeGrows
  <2>7. /\ OrElse(Margin(c), 0) \in Int /\ OrElse(Margin(d), 0) \in Int
        /\ OrElse(Roe(c), 0) \in Int /\ OrElse(Roe(d), 0) \in Int
        /\ OrElse(Margin(c), 0) >= OrElse(Margin(d), 0)
        /\ OrElse(Roe(c), 0) >= OrElse(Roe(d), 0)
    BY <2>5, RatiosGrow, NoLessOf
  <2>8. ~Distress(c, a)
    <3>1. ~Loss(c)
      BY <2>4, YearsAreCounted
    <3>2. ~(OrElse(Margin(d), 0) < -50)
      BY <1>5 DEF Distress
    <3>3. ~(OrElse(Margin(c), 0) < -50)
      BY <2>7, <3>2
    <3>4. Years(c) # 0
      BY <2>4
    <3> QED
      BY <2>3, <3>1, <3>3, <3>4 DEF Distress
  <2>9. /\ Growth(c) \in Int /\ Growth(d) \in Int /\ Growth(c) >= Growth(d)
        /\ a.penalty \in Nat /\ b.penalty \in Nat /\ a.penalty <= b.penalty
    BY <2>1, <2>2, GrowthGrows, PenaltyShrinks
  <2>10. PICK told \in Int, was \in Int :
           /\ told = (Qualitative(c) + 1000) \div 2000
           /\ was = (Qualitative(d) + 1000) \div 2000
           /\ told >= was
    BY QualitativeGrows, SMT
  <2>11. /\ Pillars(c, a) \in Int /\ Pillars(d, b) \in Int /\ Pillars(c, a) >= Pillars(d, b)
    <3> DEFINE m == OrElse(Margin(c), 0)  n == OrElse(Margin(d), 0)
               r == OrElse(Roe(c), 0)  s == OrElse(Roe(d), 0)
    <3>1. Pillars(c, a) =
              Between(0, 7000000, 70 * (200 * (m + 50) + 120 * r))
            + Between(0, 7000000, 7 * (180000 * Years(c) + 35 * a.health))
            + Between(0, 7000000, 25000 * (Growth(c) + 80))
            + Between(0, 7000000, 70 * (10 * a.health - 4 * a.penalty))
            + Between(0, 7000000, 7000 * told)
      BY <2>5, <2>6, <2>10 DEF Pillars
    <3>2. Pillars(d, b) =
              Between(0, 7000000, 70 * (200 * (n + 50) + 120 * s))
            + Between(0, 7000000, 7 * (180000 * Years(d) + 35 * b.health))
            + Between(0, 7000000, 25000 * (Growth(d) + 80))
            + Between(0, 7000000, 70 * (10 * b.health - 4 * b.penalty))
            + Between(0, 7000000, 7000 * was)
      BY <2>5, <2>6, <2>10 DEF Pillars
    <3>3. m \in Int /\ n \in Int /\ m >= n /\ r \in Int /\ s \in Int /\ r >= s
      BY <2>7
    <3> HIDE DEF m, n, r, s
    <3>4. /\ Between(0, 7000000, 70 * (200 * (m + 50) + 120 * r)) \in Int
          /\ Between(0, 7000000, 70 * (200 * (n + 50) + 120 * s)) \in Int
          /\ Between(0, 7000000, 70 * (200 * (m + 50) + 120 * r))
               >= Between(0, 7000000, 70 * (200 * (n + 50) + 120 * s))
      BY <3>3, SMT DEF Between
    <3>5. /\ Between(0, 7000000, 7 * (180000 * Years(c) + 35 * a.health)) \in Int
          /\ Between(0, 7000000, 7 * (180000 * Years(d) + 35 * b.health)) \in Int
          /\ Between(0, 7000000, 7 * (180000 * Years(c) + 35 * a.health))
               >= Between(0, 7000000, 7 * (180000 * Years(d) + 35 * b.health))
      BY <2>2, <2>4, SMT DEF Between
    <3>6. /\ Between(0, 7000000, 25000 * (Growth(c) + 80)) \in Int
          /\ Between(0, 7000000, 25000 * (Growth(d) + 80)) \in Int
          /\ Between(0, 7000000, 25000 * (Growth(c) + 80))
               >= Between(0, 7000000, 25000 * (Growth(d) + 80))
      BY <2>9, SMT DEF Between
    <3>7. /\ Between(0, 7000000, 70 * (10 * a.health - 4 * a.penalty)) \in Int
          /\ Between(0, 7000000, 70 * (10 * b.health - 4 * b.penalty)) \in Int
          /\ Between(0, 7000000, 70 * (10 * a.health - 4 * a.penalty))
               >= Between(0, 7000000, 70 * (10 * b.health - 4 * b.penalty))
      BY <2>2, <2>9, SMT DEF Between
    <3>8. /\ Between(0, 7000000, 7000 * told) \in Int
          /\ Between(0, 7000000, 7000 * was) \in Int
          /\ Between(0, 7000000, 7000 * told) >= Between(0, 7000000, 7000 * was)
      BY <2>10, SMT DEF Between
    <3> QED
      BY <3>1, <3>2, <3>4, <3>5, <3>6, <3>7, <3>8, SMT
  <2>12. PICK n \in Int, k \in Int :
           n = composite(c, a) /\ k = composite(d, b) /\ n >= k
    BY <2>2, <2>11, SMT
  <2>13. climbed(d, b) \subseteq climbed(c, a)
    BY <2>12, SMT DEF climbed
  <2> QED
    BY <1>1, <1>2, <1>5, <2>8, <2>13, FS_Subset
<1> QED
  BY <1>4, <1>5

\* Under any profile, and whatever the sources say: as long as every ratio is read
\* as it is meant, a company whose numbers get better never loses health, PCI or a
\* grade of its seal.
THEOREM BetterScoresHold ==
  ASSUME ReadAsMeant
  PROVE  DossierSpec => BetterNeverScoresLower
<1>1. DossierInv /\ DossierInv' /\ [Reload]_dossierVars =>
        [dossier' # dossier /\ NoWorse(dossier', dossier) =>
           /\ page'.seal >= page.seal
           /\ \A p \in Profiles : /\ page'.health[p] >= page.health[p]
                                  /\ page'.pci[p] >= page.pci[p]]_dossierVars
  <2> SUFFICES ASSUME DossierInv, DossierInv', NoWorse(dossier', dossier)
               PROVE  /\ page'.seal >= page.seal
                      /\ \A p \in Profiles : /\ page'.health[p] >= page.health[p]
                                             /\ page'.pci[p] >= page.pci[p]
    OBVIOUS
  <2>0. PICK c \in Dossiers, d \in Dossiers :
          /\ c = dossier' /\ d = dossier
          /\ page' = Page(c) /\ page = Page(d)
    BY DEF DossierInv
  <2>1. PICK new, old : /\ new = page' /\ old = page
                        /\ new = Page(c) /\ old = Page(d)
                        /\ c \in Dossiers /\ d \in Dossiers /\ NoWorse(c, d)
    BY <2>0
  <2>2. new.seal >= old.seal
    <3>1. PICK a, b : a = Bundle(c, "MODERATE") /\ b = Bundle(d, "MODERATE")
      OBVIOUS
    <3>2. new.seal = Grade(c, a) /\ old.seal = Grade(d, b)
      BY <2>1, <3>1 DEF Page, Profiles
    <3> QED
      BY <2>1, <3>1, <3>2, GradeGrows
  <2>3. ASSUME NEW p \in Profiles
        PROVE  new.health[p] >= old.health[p] /\ new.pci[p] >= old.pci[p]
    <3>1. PICK a, b : a = Bundle(c, p) /\ b = Bundle(d, p)
      OBVIOUS
    <3>2. /\ new.health[p] = a.health /\ old.health[p] = b.health
          /\ new.pci[p] = a.pci /\ old.pci[p] = b.pci
      BY <2>1, <2>3, <3>1 DEF Page
    <3> QED
      BY <2>1, <2>3, <3>1, <3>2, BundleGrows
  <2> QED
    BY <2>1, <2>2, <2>3
<1> QED
  BY <1>1, DossierStays, PTL DEF DossierSpec, BetterNeverScoresLower
=============================================================================
