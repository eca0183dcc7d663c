------------------------------- MODULE RateLimit -------------------------------
(***************************************************************************)
(* The fixed-window rate limit of the web tier for one key                 *)
(* (web/src/lib/security/distributed-rate-limit.ts): one row per window in *)
(* a table that every instance writes, and a counter in the memory of each *)
(* instance (simple-rate-limit.ts) for when the database fails and the     *)
(* caller did not ask to be denied.  Keys do not interact.                 *)
(*                                                                         *)
(* A call takes its window from the clock when it starts and its answer    *)
(* when the database answers, which may be windows later.                  *)
(***************************************************************************)
EXTENDS Integers, FiniteSets

CONSTANTS Calls,      \* calls of consumeRateLimit in flight
          Servers,    \* server instances
          Window,     \* windowMs
          Max,        \* max
          MaxTime,    \* bound: the clock
          MaxCount    \* bound: what a window's row may count to

ASSUME RateLimitAssumption ==
  /\ Window \in Nat \ {0} /\ Max \in Nat \ {0}
  /\ MaxTime \in Nat /\ MaxCount \in Nat

VARIABLES
  failClosed,  \* options.failClosed of this key's callers
  clock,       \* Date.now()
  row,         \* authRateLimit: the count of each window, 0 for no row
  memory,      \* of every instance and window: the bucket in its memory
  call,        \* of every call: what it is doing, for which window, where
  byRow,       \* of every window: calls let through by its row while it is open
  byMemory     \* of every window and instance: the same by memory

limitVars == <<failClosed, clock, row, memory, call, byRow, byMemory>>

Windows == 0..MaxTime
WindowStart(w) == w * Window
WindowEndsAt(w) == WindowStart(w) + Window
Begun(w) == WindowStart(w) <= clock
Open(w) == clock < WindowEndsAt(w)

\* A bucket whose resetAt has passed is the same as none, so purging the
\* buckets that are past it changes nothing.
NoBucket == [count |-> 0, resetAt |-> 0]
Buckets == [count : Nat, resetAt : Nat]

Idle == [pc |-> "idle"]
CallRecords ==
  [pc : {"idle"}] \union
  [pc : {"asking", "cleaning"}, window : Windows, server : Servers]

LimitInit ==
  /\ failClosed \in BOOLEAN
  /\ clock = 0
  /\ row = [w \in Windows |-> 0]
  /\ memory = [i \in Servers |-> [w \in Windows |-> NoBucket]]
  /\ call = [c \in Calls |-> Idle]
  /\ byRow = [w \in Windows |-> 0]
  /\ byMemory = [w \in Windows |-> [i \in Servers |-> 0]]

-----------------------------------------------------------------------------

\* bucket = floor(now / windowMs)
Ask(c, i) ==
  /\ call[c].pc = "idle"
  /\ \E w \in Windows :
       /\ Begun(w) /\ Open(w)
       /\ call' = [call EXCEPT ![c] =
                     [pc |-> "asking", window |-> w, server |-> i]]
  /\ UNCHANGED <<failClosed, clock, row, memory, byRow, byMemory>>

\* Mutant: the count is compared before the call is counted.
CountRowBefore(c) ==
  /\ call[c].pc = "asking"
  /\ LET w == call[c].window IN
       /\ row[w] < MaxCount
       /\ row' = [row EXCEPT ![w] = @ + 1]
       /\ byRow' = [byRow EXCEPT ![w] = IF row[w] <= Max /\ Open(w) THEN @ + 1 ELSE @]
       /\ \/ call' = [call EXCEPT ![c] = Idle]
          \/ call' = [call EXCEPT ![c].pc = "cleaning"]
  /\ UNCHANGED <<failClosed, clock, memory, byMemory>>

\* The upsert inserts the row or adds one to it, and answers with the count;
\* two calls in a hundred go on to clean up before they answer.
CountRow(c) ==
  /\ call[c].pc = "asking"
  /\ LET w == call[c].window IN
       /\ row[w] < MaxCount
       /\ row' = [row EXCEPT ![w] = @ + 1]
       /\ byRow' = [byRow EXCEPT ![w] = IF row'[w] <= Max /\ Open(w) THEN @ + 1 ELSE @]
       /\ \/ call' = [call EXCEPT ![c] = Idle]
          \/ call' = [call EXCEPT ![c].pc = "cleaning"]
  /\ UNCHANGED <<failClosed, clock, memory, byMemory>>

\* deleteMany of the rows whose expiresAt has passed; its failure is ignored.
CleanUp(c) ==
  /\ call[c].pc = "cleaning"
  /\ call' = [call EXCEPT ![c] = Idle]
  /\ \/ row' = [w \in Windows |-> IF WindowEndsAt(w) < clock THEN 0 ELSE row[w]]
     \/ UNCHANGED row
  /\ UNCHANGED <<failClosed, clock, memory, byRow, byMemory>>

\* allowWithinWindow: the bucket of the window's key in the instance's memory.
Remember(i, w) ==
  LET bucket == memory[i][w] IN
  \/ /\ clock >= bucket.resetAt
     /\ memory' = [memory EXCEPT ![i][w] =
                     [count |-> 1, resetAt |-> clock + Window]]
     /\ byMemory' = [byMemory EXCEPT ![w][i] = IF Open(w) THEN @ + 1 ELSE @]
  \/ /\ clock < bucket.resetAt
     /\ bucket.count < Max
     /\ memory' = [memory EXCEPT ![i][w].count = @ + 1]
     /\ byMemory' = [byMemory EXCEPT ![w][i] = IF Open(w) THEN @ + 1 ELSE @]
  \/ /\ clock < bucket.resetAt
     /\ bucket.count >= Max
     /\ UNCHANGED <<memory, byMemory>>

\* The database fails, before or after it counted the call.  A caller that
\* fails closed is denied; the others are counted in memory.
DatabaseFails(c) ==
  /\ call[c].pc = "asking"
  /\ LET w == call[c].window IN
       /\ \/ UNCHANGED row
          \/ row[w] < MaxCount /\ row' = [row EXCEPT ![w] = @ + 1]
       /\ \/ failClosed /\ UNCHANGED <<memory, byMemory>>
          \/ ~failClosed /\ Remember(call[c].server, w)
  /\ call' = [call EXCEPT ![c] = Idle]
  /\ UNCHANGED <<failClosed, clock, byRow>>

PassTime ==
  /\ clock < MaxTime
  /\ clock' = clock + 1
  /\ UNCHANGED <<failClosed, row, memory, call, byRow, byMemory>>

LimitNext ==
  \/ \E c \in Calls :
       \/ \E i \in Servers : Ask(c, i)
       \/ CountRow(c)
       \/ CleanUp(c)
       \/ DatabaseFails(c)
  \/ PassTime

LimitSpec == LimitInit /\ [][LimitNext]_limitVars

-----------------------------------------------------------------------------
(* Properties                                                              *)

LimitTypeOK ==
  /\ failClosed \in BOOLEAN
  /\ clock \in 0..MaxTime
  /\ row \in [Windows -> Nat]
  /\ memory \in [Servers -> [Windows -> Buckets]]
  /\ call \in [Calls -> CallRecords]
  /\ byRow \in [Windows -> Nat]
  /\ byMemory \in [Windows -> [Servers -> Nat]]

\* While its window is open a key lets through at most Max calls by the
\* shared row, whatever fails, whoever cleans up and however late the database
\* answers; each instance adds at most Max of its own, and none when the
\* caller fails closed.
WindowHolds ==
  \A w \in Windows : Open(w) =>
    /\ byRow[w] <= Max
    /\ \A i \in Servers :
         byMemory[w][i] <= (IF failClosed THEN 0 ELSE Max)

=============================================================================
