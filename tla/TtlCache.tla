-------------------------------- MODULE TtlCache --------------------------------
(***************************************************************************)
(* rememberWithTtl (web/src/lib/market/market-server-cache.ts) for one     *)
(* key: the value cache, the in-flight table and the guard timer that      *)
(* forgets a loader that takes too long.  Keys do not interact.            *)
(*                                                                         *)
(* A loader is its rank in starting order, and so is the value it brings:  *)
(* a higher value was fetched later.  The promise of a loader settles in   *)
(* two microtasks, `then` (Store) and `finally` (Settle), with no timer    *)
(* and no clock tick in between; the callers that wait for it are answered *)
(* with Settle.                                                            *)
(***************************************************************************)
EXTENDS Integers, FiniteSets

CONSTANTS Callers,    \* calls of rememberWithTtl that may be pending together
          Ttl,        \* ttlMs
          ShortTtl,   \* shortTtlMs, when shouldRetain says no
          GuardDelay, \* Math.max(ttlMs, 55_000)
          LoadTimes,  \* bound: what the longest load may take
          MaxTime,    \* bound: the clock
          MaxLoads    \* bound: loaders started

ASSUME TtlCacheAssumption ==
  /\ Ttl \in Nat \ {0} /\ ShortTtl \in Nat \ {0}
  /\ GuardDelay \in Nat \ {0} /\ GuardDelay >= Ttl
  /\ LoadTimes \subseteq Nat /\ MaxTime \in Nat /\ MaxLoads \in Nat

VARIABLES
  longest,    \* the longest a loader takes in this behaviour
  now,        \* Date.now()
  cached,     \* valueCache.get(key).value, NoLoad for undefined
  expiresAt,  \* valueCache.get(key).expiresAt
  inFlight,   \* the loader of inFlight.get(key), NoLoad for undefined
  loads,      \* loaders started so far
  state,      \* of every loader: running, stored or failed (settling), done
  started,    \* when a loader was called
  guarded,    \* loaders whose guard timer is pending
  waiting     \* of every caller: the loader whose promise it awaits

vars == <<longest, now, cached, expiresAt, inFlight, loads, state, started,
          guarded, waiting>>

LoadIds == 1..MaxLoads
NoLoad  == 0

Init ==
  /\ longest \in LoadTimes
  /\ now = 0
  /\ cached = NoLoad
  /\ expiresAt = 0
  /\ inFlight = NoLoad
  /\ loads = 0
  /\ state = [l \in LoadIds |-> "none"]
  /\ started = [l \in LoadIds |-> 0]
  /\ guarded = {}
  /\ waiting = [c \in Callers |-> NoLoad]

Running == {l \in LoadIds : state[l] = "running"}

\* Loaders between `then` and `finally`.
Settling == {l \in LoadIds : state[l] \in {"stored", "failed"}}

Fresh == cached # NoLoad /\ expiresAt > now

-----------------------------------------------------------------------------

\* A value in the cache answers at once (no state changes); otherwise the
\* caller joins the loader in flight.
Join(c) ==
  /\ waiting[c] = NoLoad
  /\ ~Fresh
  /\ inFlight # NoLoad
  /\ waiting' = [waiting EXCEPT ![c] = inFlight]
  /\ UNCHANGED <<longest, now, cached, expiresAt, inFlight, loads, state, started,
                 guarded>>

\* Mutant: the table of loaders in flight is not consulted.
LoadAlways(c) ==
  /\ waiting[c] = NoLoad
  /\ ~Fresh
  /\ loads < MaxLoads
  /\ loads' = loads + 1
  /\ state' = [state EXCEPT ![loads + 1] = "running"]
  /\ started' = [started EXCEPT ![loads + 1] = now]
  /\ inFlight' = loads + 1
  /\ guarded' = guarded \union {loads + 1}
  /\ waiting' = [waiting EXCEPT ![c] = loads + 1]
  /\ UNCHANGED <<longest, now, cached, expiresAt>>

\* Nothing usable: the caller starts the loader and its guard.
Load(c) ==
  /\ waiting[c] = NoLoad
  /\ ~Fresh
  /\ inFlight = NoLoad
  /\ loads < MaxLoads
  /\ loads' = loads + 1
  /\ state' = [state EXCEPT ![loads + 1] = "running"]
  /\ started' = [started EXCEPT ![loads + 1] = now]
  /\ inFlight' = loads + 1
  /\ guarded' = guarded \union {loads + 1}
  /\ waiting' = [waiting EXCEPT ![c] = loads + 1]
  /\ UNCHANGED <<longest, now, cached, expiresAt>>

\* then: the value replaces what is cached; shouldRetain picks the time.
Store(l) ==
  /\ state[l] = "running"
  /\ Settling = {}
  /\ state' = [state EXCEPT ![l] = "stored"]
  /\ cached' = l
  /\ \E retain \in BOOLEAN :
       expiresAt' = now + (IF retain THEN Ttl ELSE ShortTtl)
  /\ UNCHANGED <<longest, now, inFlight, loads, started, guarded, waiting>>

\* The loader rejects: nothing is stored.
Reject(l) ==
  /\ state[l] = "running"
  /\ Settling = {}
  /\ state' = [state EXCEPT ![l] = "failed"]
  /\ UNCHANGED <<longest, now, cached, expiresAt, inFlight, loads, started,
                 guarded, waiting>>

\* Mutant: only a value that was stored leaves the table of loaders in flight.
SettleStored(l) ==
  /\ l \in Settling
  /\ inFlight' = IF state[l] = "stored" THEN NoLoad ELSE inFlight
  /\ state' = [state EXCEPT ![l] = "done"]
  /\ guarded' = guarded \ {l}
  /\ waiting' = [c \in Callers |-> IF waiting[c] = l THEN NoLoad ELSE waiting[c]]
  /\ UNCHANGED <<longest, now, cached, expiresAt, loads, started>>

\* finally: the key leaves the in-flight table, whoever's promise it holds;
\* the guard is cleared and the callers get the value or the error.
Settle(l) ==
  /\ l \in Settling
  /\ inFlight' = NoLoad
  /\ state' = [state EXCEPT ![l] = "done"]
  /\ guarded' = guarded \ {l}
  /\ waiting' = [c \in Callers |-> IF waiting[c] = l THEN NoLoad ELSE waiting[c]]
  /\ UNCHANGED <<longest, now, cached, expiresAt, loads, started>>

\* Mutant: the guard does not wait for its delay.
GuardFiresEarly(l) ==
  /\ l \in guarded
  /\ Settling = {}
  /\ inFlight' = NoLoad
  /\ guarded' = guarded \ {l}
  /\ UNCHANGED <<longest, now, cached, expiresAt, loads, state, started, waiting>>

\* The guard timer: the key leaves the in-flight table.
GuardFires(l) ==
  /\ l \in guarded
  /\ Settling = {}
  /\ now >= started[l] + GuardDelay
  /\ inFlight' = NoLoad
  /\ guarded' = guarded \ {l}
  /\ UNCHANGED <<longest, now, cached, expiresAt, loads, state, started, waiting>>

\* Time passes between macrotasks, and no loader exceeds the longest.
Tick ==
  /\ now < MaxTime
  /\ Settling = {}
  /\ \A l \in Running : now < started[l] + longest
  /\ now' = now + 1
  /\ UNCHANGED <<longest, cached, expiresAt, inFlight, loads, state, started,
                 guarded, waiting>>

Next ==
  \/ \E c \in Callers : Join(c) \/ Load(c)
  \/ \E l \in LoadIds : Store(l) \/ Reject(l) \/ Settle(l) \/ GuardFires(l)
  \/ Tick

Spec == Init /\ [][Next]_vars

\* Every promise settles: the loaders' fetches carry their own timeouts.
Fairness == \A l \in LoadIds : WF_vars(Store(l) \/ Reject(l)) /\ WF_vars(Settle(l))

FairSpec == Spec /\ Fairness

-----------------------------------------------------------------------------
(* Properties                                                              *)

TypeOK ==
  /\ longest \in LoadTimes
  /\ now \in 0..MaxTime
  /\ cached \in 0..loads
  /\ expiresAt \in Nat
  /\ inFlight \in 0..loads
  /\ loads \in 0..MaxLoads
  /\ state \in [LoadIds -> {"none", "running", "stored", "failed", "done"}]
  /\ started \in [LoadIds -> 0..MaxTime]
  /\ guarded \subseteq 1..loads
  /\ waiting \in [Callers -> 0..loads]

\* The guard never has to act: every load ends before it.
LoadsEndBeforeGuard == longest < GuardDelay

\* While no load outlives the guard, callers share one loader: the upstream
\* provider is never asked twice at the same time for the same key.
SingleFlight == LoadsEndBeforeGuard => Cardinality(Running) <= 1

\* Nor is a value replaced by one whose load began earlier: what the desk
\* shows does not go back in time.
ValuesNeverGoBack == [][LoadsEndBeforeGuard => cached' >= cached]_vars

\* Every caller is answered.
EveryCallerAnswered ==
  \A c \in Callers : waiting[c] # NoLoad ~> waiting[c] = NoLoad

=============================================================================
