----------------------------- MODULE TtlCacheProofs -----------------------------
(***************************************************************************)
(* What rememberWithTtl guarantees for any number of callers and any times *)
(* to live, as long as every load ends before its guard: that is what the  *)
(* inductive invariant needs to know that the loader in flight is the only *)
(* one.                                                                    *)
(*                                                                         *)
(* However long loads take, whoever waits, waits for a loader that has not *)
(* settled, and there are ever fewer of them as long as loaders end (their *)
(* fairness, with the guards spelled out): so that he is answered.         *)
(***************************************************************************)
EXTENDS TtlCache, FiniteSetTheorems, WellFoundedInduction, TLAPS

Pending(l) == state[l] \in {"running", "stored", "failed"}

\* The only loader that has not settled is the one in the in-flight table.
OnePending == \A l \in LoadIds : Pending(l) => l = inFlight

\* No load has exceeded its bound.
InTime == \A l \in LoadIds : state[l] = "running" => now <= started[l] + longest

GuardsPending == \A l \in guarded : Pending(l)

\* A loader that runs brings a later value than the cached one.
RunningIsNewer == \A l \in LoadIds : state[l] = "running" => l > cached

NotYetStarted == \A l \in LoadIds : l > loads => state[l] = "none"

IndInv ==
  /\ TypeOK
  /\ OnePending
  /\ InTime
  /\ GuardsPending
  /\ RunningIsNewer
  /\ NotYetStarted

LEMMA InitIndInv == Init => IndInv
<1> SUFFICES ASSUME Init PROVE IndInv
  OBVIOUS
<1>1. TypeOK
  BY TtlCacheAssumption DEF Init, TypeOK, NoLoad
<1> QED
  BY <1>1 DEF Init, IndInv, OnePending, InTime, GuardsPending, RunningIsNewer,
              NotYetStarted, Pending

LEMMA LoadStep ==
  ASSUME IndInv, NEW c \in Callers, Load(c)
  PROVE  IndInv'
<1>1. /\ loads + 1 \in LoadIds /\ loads' = loads + 1 /\ loads \in Nat
      /\ state' = [state EXCEPT ![loads + 1] = "running"]
      /\ started' = [started EXCEPT ![loads + 1] = now]
      /\ inFlight = NoLoad /\ inFlight' = loads + 1
      /\ guarded' = guarded \union {loads + 1}
      /\ waiting' = [waiting EXCEPT ![c] = loads + 1]
      /\ UNCHANGED <<longest, now, cached, expiresAt>>
  BY TtlCacheAssumption DEF Load, IndInv, TypeOK, LoadIds
<1>2. TypeOK'
  <2>1. loads' \in 0..MaxLoads /\ inFlight' \in 0..loads'
    BY <1>1, TtlCacheAssumption DEF LoadIds
  <2>2. /\ state' \in [LoadIds -> {"none", "running", "stored", "failed", "done"}]
        /\ started' \in [LoadIds -> 0..MaxTime]
    BY <1>1 DEF IndInv, TypeOK
  <2>3. guarded' \subseteq 1..loads' /\ cached' \in 0..loads'
    BY <1>1 DEF IndInv, TypeOK
  <2>4. waiting' \in [Callers -> 0..loads']
    <3>1. waiting \in [Callers -> 0..loads]
      BY DEF IndInv, TypeOK
    <3> QED
      BY <1>1, <3>1
  <2> QED
    BY <1>1, <2>1, <2>2, <2>3, <2>4 DEF IndInv, TypeOK
<1>3. \A l \in LoadIds : ~Pending(l)
  BY <1>1 DEF IndInv, OnePending, LoadIds, NoLoad
<1>4. \A l \in LoadIds : l # loads + 1 => state'[l] = state[l]
  BY <1>1 DEF IndInv, TypeOK
<1>5. OnePending'
  BY <1>1, <1>3, <1>4 DEF OnePending, Pending
<1>6. InTime'
  BY <1>1, <1>3, <1>4, TtlCacheAssumption DEF IndInv, TypeOK, InTime, Pending
<1>7. GuardsPending'
  <2>1. state'[loads + 1] = "running"
    BY <1>1 DEF IndInv, TypeOK
  <2>2. guarded = {}
    <3>1. guarded \subseteq LoadIds
      BY TtlCacheAssumption DEF IndInv, TypeOK, LoadIds
    <3>2. \A l \in guarded : Pending(l)
      BY DEF IndInv, GuardsPending
    <3> QED
      BY <1>3, <3>1, <3>2
  <2> QED
    BY <1>1, <2>1, <2>2 DEF GuardsPending, Pending
<1>8. RunningIsNewer'
  BY <1>1, <1>3, <1>4 DEF IndInv, TypeOK, RunningIsNewer, Pending
<1>9. NotYetStarted'
  BY <1>1, <1>4 DEF IndInv, NotYetStarted, LoadIds
<1> QED
  BY <1>2, <1>5, <1>6, <1>7, <1>8, <1>9 DEF IndInv

LEMMA StoreStep ==
  ASSUME IndInv, NEW l \in LoadIds, Store(l) \/ Reject(l)
  PROVE  IndInv'
<1>1. PICK next \in {"stored", "failed"} : state' = [state EXCEPT ![l] = next]
  BY DEF Store, Reject
<1>2. /\ state[l] = "running" /\ cached' \in {cached, l} /\ cached' \in 0..loads
      /\ UNCHANGED <<longest, now, inFlight, loads, started, guarded, waiting>>
  <2>1. l \in 1..loads
    BY DEF IndInv, TypeOK, NotYetStarted, LoadIds, Store, Reject
  <2> QED
    BY <2>1 DEF Store, Reject, IndInv, TypeOK
<1>3. expiresAt' \in Nat
  BY TtlCacheAssumption DEF Store, Reject, IndInv, TypeOK
<1>4. TypeOK'
  BY <1>1, <1>2, <1>3 DEF IndInv, TypeOK
<1>5. \A k \in LoadIds : state'[k] = IF k = l THEN next ELSE state[k]
  BY <1>1 DEF IndInv, TypeOK
<1>6. \A k \in LoadIds : k # l => state'[k] # "running"
  BY <1>2, <1>5 DEF IndInv, OnePending, Pending
<1>7. OnePending' /\ InTime' /\ NotYetStarted'
  BY <1>2, <1>5, <1>6
  DEF IndInv, OnePending, InTime, NotYetStarted, Pending
<1>8. RunningIsNewer'
  BY <1>5, <1>6 DEF RunningIsNewer
<1>9. GuardsPending'
  <2>1. \A k \in guarded : k \in LoadIds
    BY TtlCacheAssumption DEF IndInv, TypeOK, LoadIds
  <2> QED
    BY <1>2, <1>5, <2>1 DEF IndInv, GuardsPending, Pending
<1> QED
  BY <1>4, <1>7, <1>8, <1>9 DEF IndInv

LEMMA SettleStep ==
  ASSUME IndInv, NEW l \in LoadIds, Settle(l)
  PROVE  IndInv'
<1>1. /\ state[l] \in {"stored", "failed"} /\ inFlight' = NoLoad
      /\ state' = [state EXCEPT ![l] = "done"] /\ guarded' = guarded \ {l}
      /\ UNCHANGED <<longest, now, cached, expiresAt, loads, started>>
      /\ waiting' \in [Callers -> 0..loads]
  BY DEF Settle, Settling, IndInv, TypeOK, NoLoad
<1>2. TypeOK'
  <2>1. state' \in [LoadIds -> {"none", "running", "stored", "failed", "done"}]
    BY <1>1 DEF IndInv, TypeOK
  <2>2. loads \in Nat /\ guarded \subseteq 1..loads
    BY TtlCacheAssumption DEF IndInv, TypeOK
  <2>3. inFlight' \in 0..loads'
    BY <1>1, <2>2 DEF NoLoad
  <2>4. guarded' \subseteq 1..loads'
    BY <1>1, <2>2
  <2>5. waiting' \in [Callers -> 0..loads']
    BY <1>1
  <2> QED
    BY <1>1, <2>1, <2>3, <2>4, <2>5 DEF IndInv, TypeOK
<1>3. \A k \in LoadIds : state'[k] = IF k = l THEN "done" ELSE state[k]
  BY <1>1 DEF IndInv, TypeOK
<1>4. \A k \in LoadIds : ~Pending(k)'
  BY <1>1, <1>3 DEF IndInv, OnePending, Pending
<1>5. OnePending' /\ InTime' /\ RunningIsNewer'
  BY <1>4 DEF OnePending, InTime, RunningIsNewer, Pending
<1>6. GuardsPending'
  <2>1. \A k \in guarded : k \in LoadIds
    BY TtlCacheAssumption DEF IndInv, TypeOK, LoadIds
  <2>2. \A k \in guarded : k = l
    BY <1>1, <2>1 DEF IndInv, GuardsPending, OnePending, Pending
  <2> QED
    BY <1>1, <2>2 DEF GuardsPending
<1>7. NotYetStarted'
  BY <1>1, <1>3 DEF IndInv, NotYetStarted, TypeOK
<1> QED
  BY <1>2, <1>5, <1>6, <1>7 DEF IndInv

\* Under the assumption no guard ever fires.
LEMMA GuardIsIdle ==
  ASSUME LoadsEndBeforeGuard, IndInv, NEW l \in LoadIds
  PROVE  ~GuardFires(l)
<1> SUFFICES ASSUME GuardFires(l) PROVE FALSE
  OBVIOUS
<1>1. state[l] = "running"
  BY DEF GuardFires, IndInv, GuardsPending, Pending, Settling
<1>2. now <= started[l] + longest
  BY <1>1 DEF IndInv, InTime
<1>3. /\ started[l] \in Nat /\ now \in Nat /\ longest \in Nat /\ GuardDelay \in Nat
  BY TtlCacheAssumption DEF IndInv, TypeOK
<1>4. now >= started[l] + GuardDelay /\ longest < GuardDelay
  BY DEF GuardFires, LoadsEndBeforeGuard
<1> QED
  BY <1>2, <1>3, <1>4

LEMMA JoinTickStep ==
  ASSUME IndInv, Tick \/ \E c \in Callers : Join(c)
  PROVE  IndInv'
<1>1. CASE Tick
  <2>1. TypeOK'
    BY <1>1, TtlCacheAssumption DEF Tick, IndInv, TypeOK
  <2>2. InTime'
    BY <1>1, TtlCacheAssumption DEF Tick, IndInv, TypeOK, InTime, Running
  <2> QED
    BY <1>1, <2>1, <2>2
    DEF Tick, IndInv, OnePending, GuardsPending, RunningIsNewer, NotYetStarted,
        Pending
<1>2. CASE \E c \in Callers : Join(c)
  <2>1. TypeOK'
    BY <1>2 DEF Join, IndInv, TypeOK
  <2> QED
    BY <1>2, <2>1
    DEF Join, IndInv, OnePending, GuardsPending, RunningIsNewer, NotYetStarted,
        Pending, InTime
<1> QED
  BY <1>1, <1>2

LEMMA Step ==
  ASSUME LoadsEndBeforeGuard, IndInv, [Next]_vars
  PROVE  IndInv' /\ cached' >= cached
<1>1. CASE UNCHANGED vars
  BY <1>1
  DEF vars, IndInv, TypeOK, OnePending, InTime, GuardsPending, RunningIsNewer,
      NotYetStarted, Pending
<1>2. ASSUME NEW c \in Callers, Load(c)
      PROVE  IndInv' /\ cached' >= cached
  <2>1. IndInv'
    BY <1>2, LoadStep
  <2>2. cached' = cached
    BY <1>2 DEF Load
  <2>3. cached \in Nat
    BY DEF IndInv, TypeOK
  <2> QED
    BY <2>1, <2>2, <2>3
<1>3. ASSUME NEW l \in LoadIds, Store(l) \/ Reject(l)
      PROVE  IndInv' /\ cached' >= cached
  <2>1. IndInv'
    BY <1>3, StoreStep
  <2>2. state[l] = "running" /\ cached' \in {cached, l}
    BY <1>3 DEF Store, Reject
  <2>3. l > cached /\ l \in Nat /\ cached \in Nat
    BY <2>2 DEF IndInv, RunningIsNewer, TypeOK, LoadIds
  <2> QED
    BY <2>1, <2>2, <2>3
<1>4. ASSUME NEW l \in LoadIds, Settle(l)
      PROVE  IndInv' /\ cached' >= cached
  <2>1. IndInv'
    BY <1>4, SettleStep
  <2>2. cached' = cached
    BY <1>4 DEF Settle
  <2>3. cached \in Nat
    BY DEF IndInv, TypeOK
  <2> QED
    BY <2>1, <2>2, <2>3
<1>5. ASSUME Tick \/ \E c \in Callers : Join(c)
      PROVE  IndInv' /\ cached' >= cached
  BY <1>5, JoinTickStep DEF Tick, Join, IndInv, TypeOK
<1> QED
  BY <1>1, <1>2, <1>3, <1>4, <1>5, GuardIsIdle DEF Next

\* How long loads take is settled when a behaviour begins.
LEMMA LongestStays == [Next]_vars => LoadsEndBeforeGuard' = LoadsEndBeforeGuard
<1> SUFFICES ASSUME [Next]_vars PROVE longest' = longest
  BY DEF LoadsEndBeforeGuard
<1> QED
  BY DEF Next, vars, Join, Load, Store, Reject, Settle, GuardFires, Tick

\* While every load ends before its guard, the invariant is inductive.
THEOREM Inductive == Spec => [](LoadsEndBeforeGuard => IndInv)
<1>1. Init => (LoadsEndBeforeGuard => IndInv)
  BY InitIndInv
<1>2. (LoadsEndBeforeGuard => IndInv) /\ [Next]_vars => (LoadsEndBeforeGuard => IndInv)'
  BY Step, LongestStays
<1> QED
  BY <1>1, <1>2, PTL DEF Spec

\* While every load ends before its guard, callers share one loader.
THEOREM CallersShareOneLoad == Spec => []SingleFlight
<1>1. (LoadsEndBeforeGuard => IndInv) => SingleFlight
  <2> SUFFICES ASSUME IndInv PROVE Cardinality(Running) <= 1
    BY DEF SingleFlight
  <2>1. Running \subseteq {inFlight}
    BY DEF IndInv, OnePending, Pending, Running
  <2>2. IsFiniteSet({inFlight}) /\ Cardinality({inFlight}) = 1
    BY FS_Singleton
  <2>3. Cardinality(Running) <= 1 /\ Cardinality(Running) \in Nat
    BY <2>1, <2>2, FS_Subset, FS_CardinalityType
  <2> QED
    BY <2>3
<1> QED
  BY <1>1, Inductive, PTL

\* While every load ends before its guard, a cached value is only replaced by
\* one whose load began later.
THEOREM ValuesMoveForward == Spec => ValuesNeverGoBack
<1>1. /\ LoadsEndBeforeGuard => IndInv
      /\ [Next]_vars
      => [LoadsEndBeforeGuard => cached' >= cached]_vars
  BY Step
<1> QED
  BY <1>1, Inductive, PTL DEF Spec, ValuesNeverGoBack

-----------------------------------------------------------------------------
(* Every caller is answered, the loads that outlive their guard included.   *)

\* What is in the table, and what a caller waits for, has not ended yet.
NobodyWaitsInVain ==
  /\ inFlight # NoLoad => Pending(inFlight)
  /\ \A c \in Callers : waiting[c] # NoLoad => Pending(waiting[c])

WaitInv == TypeOK /\ NobodyWaitsInVain /\ NotYetStarted

LEMMA InitWaitInv == Init => WaitInv
<1> SUFFICES ASSUME Init PROVE WaitInv
  OBVIOUS
<1>1. TypeOK
  BY TtlCacheAssumption DEF Init, TypeOK, NoLoad
<1> QED
  BY <1>1 DEF Init, WaitInv, NobodyWaitsInVain, NotYetStarted, NoLoad

LEMMA WaitStep == WaitInv /\ [Next]_vars => WaitInv'
<1> SUFFICES ASSUME WaitInv, [Next]_vars PROVE WaitInv'
  OBVIOUS
<1>0. TypeOK /\ NobodyWaitsInVain /\ NotYetStarted /\ MaxLoads \in Nat /\ MaxTime \in Nat
      /\ Ttl \in Nat /\ ShortTtl \in Nat
  BY TtlCacheAssumption DEF WaitInv
<1>1. loads \in 0..MaxLoads /\ state \in [LoadIds -> {"none", "running", "stored", "failed", "done"}]
      /\ waiting \in [Callers -> 0..loads] /\ inFlight \in 0..loads
  BY <1>0 DEF TypeOK
<1>2. CASE UNCHANGED vars
  BY <1>0, <1>2 DEF vars, WaitInv, TypeOK, NobodyWaitsInVain, NotYetStarted, Pending, LoadIds
<1>3. ASSUME NEW c \in Callers, Join(c) PROVE WaitInv'
  <2>1. TypeOK'
    BY <1>0, <1>3 DEF Join, TypeOK, LoadIds
  <2> QED
    BY <1>0, <1>1, <1>3, <2>1 DEF Join, WaitInv, NobodyWaitsInVain, NotYetStarted, Pending
<1>4. ASSUME NEW c \in Callers, Load(c) PROVE WaitInv'
  <2>1. PICK n \in LoadIds : n = loads + 1
    BY <1>0, <1>1, <1>4 DEF Load, LoadIds
  <2>2. /\ loads' = n /\ inFlight' = n /\ state' = [state EXCEPT ![n] = "running"]
        /\ waiting' = [waiting EXCEPT ![c] = n] /\ n \in Nat /\ loads < n
    BY <1>1, <1>4, <2>1 DEF Load, LoadIds
  <2>3. TypeOK'
    <3>1. started' \in [LoadIds -> 0..MaxTime] /\ guarded' \subseteq 1..n
      BY <1>0, <1>1, <1>4, <2>1, <2>2 DEF Load, TypeOK, LoadIds
    <3>2. waiting' \in [Callers -> 0..n] /\ state' \in [LoadIds -> {"none", "running", "stored", "failed", "done"}]
      BY <1>1, <2>1, <2>2
    <3>3. UNCHANGED <<longest, now, cached, expiresAt>> /\ n \in 0..MaxLoads
      BY <1>4, <2>1 DEF Load, LoadIds
    <3>4. cached \in 0..n
      BY <1>0, <1>1, <2>2 DEF TypeOK
    <3> QED
      BY <1>0, <2>2, <3>1, <3>2, <3>3, <3>4 DEF TypeOK
  <2>4. \A l \in LoadIds : Pending(l) => Pending(l)'
    BY <1>1, <2>2 DEF Pending
  <2>5. Pending(n)'
    BY <1>1, <2>1, <2>2 DEF Pending
  <2>6. \A d \in Callers : d # c => waiting'[d] = waiting[d] /\ (waiting[d] # NoLoad => waiting[d] \in LoadIds)
    BY <1>0, <1>1, <2>2 DEF LoadIds, NoLoad
  <2>7. waiting'[c] = n
    BY <1>1, <2>2
  <2>8. NobodyWaitsInVain'
    <3>1. ASSUME NEW d \in Callers, waiting'[d] # NoLoad PROVE Pending(waiting[d])'
      BY <1>0, <2>4, <2>5, <2>6, <2>7, <3>1 DEF NobodyWaitsInVain
    <3> QED
      BY <2>2, <2>5, <3>1 DEF NobodyWaitsInVain
  <2>9. NotYetStarted'
    BY <1>0, <1>1, <2>1, <2>2 DEF NotYetStarted
  <2> QED
    BY <2>3, <2>8, <2>9 DEF WaitInv
<1>5. ASSUME NEW l \in LoadIds, Store(l) \/ Reject(l) PROVE WaitInv'
  <2>1. PICK s \in {"stored", "failed"} : state' = [state EXCEPT ![l] = s]
    BY <1>5 DEF Store, Reject
  <2>2. UNCHANGED <<inFlight, loads, waiting, longest, now, started, guarded>>
    BY <1>5 DEF Store, Reject
  <2>3. \A k \in LoadIds : Pending(k) => Pending(k)'
    BY <1>1, <2>1 DEF Pending
  <2>4. cached' \in 0..loads /\ expiresAt' \in Nat
    <3>1. CASE Store(l)
      <4>1. l \in 1..loads
        BY <1>0, <1>1, <3>1 DEF Store, NotYetStarted, LoadIds
      <4> QED
        BY <1>0, <3>1, <4>1 DEF Store, TypeOK, LoadIds
    <3>2. CASE Reject(l)
      BY <1>0, <3>2 DEF Reject, TypeOK
    <3> QED
      BY <1>5, <3>1, <3>2
  <2>5. TypeOK'
    BY <1>0, <1>1, <2>1, <2>2, <2>4 DEF TypeOK
  <2>6. \A c \in Callers : waiting[c] # NoLoad => waiting[c] \in LoadIds
    BY <1>0, <1>1 DEF LoadIds, NoLoad
  <2>7. inFlight # NoLoad => inFlight \in LoadIds
    BY <1>0, <1>1 DEF LoadIds, NoLoad
  <2>8. NotYetStarted'
    BY <1>0, <1>1, <1>5, <2>1, <2>2 DEF NotYetStarted, Store, Reject
  <2> QED
    BY <1>0, <2>2, <2>3, <2>5, <2>6, <2>7, <2>8 DEF WaitInv, NobodyWaitsInVain
<1>6. ASSUME NEW l \in LoadIds, Settle(l) PROVE WaitInv'
  <2>1. /\ state' = [state EXCEPT ![l] = "done"] /\ inFlight' = NoLoad
        /\ waiting' = [c \in Callers |-> IF waiting[c] = l THEN NoLoad ELSE waiting[c]]
        /\ UNCHANGED <<longest, now, cached, expiresAt, loads, started>>
        /\ guarded' = guarded \ {l}
    BY <1>6 DEF Settle
  <2>2. TypeOK'
    <3>1. waiting' \in [Callers -> 0..loads] /\ inFlight' \in 0..loads
      BY <1>1, <2>1 DEF NoLoad
    <3>2. state' \in [LoadIds -> {"none", "running", "stored", "failed", "done"}]
      BY <1>1, <2>1
    <3>3. guarded' \subseteq 1..loads
      BY <1>0, <2>1 DEF TypeOK
    <3> QED
      BY <1>0, <2>1, <3>1, <3>2, <3>3 DEF TypeOK
  <2>5. NotYetStarted'
    <3>1. state[l] # "none"
      BY <1>6 DEF Settle, Settling
    <3> QED
      BY <1>0, <1>1, <2>1, <3>1 DEF NotYetStarted
  <2>3. \A c \in Callers : waiting'[c] # NoLoad => waiting'[c] = waiting[c] /\ waiting[c] # l
    BY <2>1 DEF NoLoad
  <2>4. \A c \in Callers : waiting[c] # NoLoad => waiting[c] \in LoadIds
    BY <1>0, <1>1 DEF LoadIds, NoLoad
  <2> QED
    BY <1>0, <1>1, <2>1, <2>2, <2>3, <2>4, <2>5 DEF WaitInv, NobodyWaitsInVain, Pending
<1>7. ASSUME NEW l \in LoadIds, GuardFires(l) PROVE WaitInv'
  <2>1. TypeOK'
    BY <1>0, <1>7 DEF GuardFires, TypeOK, NoLoad
  <2> QED
    BY <1>0, <1>7, <2>1 DEF GuardFires, WaitInv, NobodyWaitsInVain, NotYetStarted, Pending
<1>8. CASE Tick
  <2>1. TypeOK'
    BY <1>0, <1>8 DEF Tick, TypeOK
  <2> QED
    BY <1>0, <1>8, <2>1 DEF Tick, WaitInv, NobodyWaitsInVain, NotYetStarted, Pending
<1> QED
  BY <1>2, <1>3, <1>4, <1>5, <1>6, <1>7, <1>8 DEF Next

\* The types hold however long loads take, and no caller waits for a promise that
\* has been settled without him.
THEOREM NoCallerForgotten == Spec => [](TypeOK /\ NobodyWaitsInVain)
<1>1. WaitInv => TypeOK /\ NobodyWaitsInVain
  BY DEF WaitInv
<1> QED
  BY <1>1, InitWaitInv, WaitStep, PTL DEF Spec

\* Loaders that have not ended, and how many ends and settlements there may
\* still be.
Unended == {l \in LoadIds : state[l] \in {"none", "running"}}
LoadRank == 2 * Cardinality(Unended) + Cardinality(Settling)

LEMMA LoadsCounted ==
  IsFiniteSet(Unended) /\ IsFiniteSet(Settling)
    /\ Cardinality(Unended) \in Nat /\ Cardinality(Settling) \in Nat /\ LoadRank \in Nat
<1>1. IsFiniteSet(LoadIds)
  BY TtlCacheAssumption, FS_Interval DEF LoadIds
<1>2. IsFiniteSet(Unended) /\ IsFiniteSet(Settling)
  BY <1>1, FS_Subset DEF Unended, Settling
<1>3. Cardinality(Unended) \in Nat /\ Cardinality(Settling) \in Nat
  BY <1>2, FS_CardinalityType
<1> QED
  BY <1>2, <1>3 DEF LoadRank

\* A load that ends, and one whose promise settles, leave fewer to come.
LEMMA EndLowers ==
  ASSUME WaitInv, NEW l \in LoadIds, Store(l) \/ Reject(l)
  PROVE  LoadRank' < LoadRank
<1>1. state \in [LoadIds -> {"none", "running", "stored", "failed", "done"}]
  BY DEF WaitInv, TypeOK
<1>2. PICK s \in {"stored", "failed"} : state' = [state EXCEPT ![l] = s]
  BY DEF Store, Reject
<1>3. state[l] = "running" /\ Settling = {}
  BY DEF Store, Reject
<1>4. Unended' = Unended \ {l} /\ l \in Unended
  BY <1>1, <1>2, <1>3 DEF Unended
<1>5. Settling' = {l}
  <2>1. \A k \in LoadIds : state[k] \notin {"stored", "failed"}
    BY <1>3 DEF Settling
  <2> QED
    BY <1>1, <1>2, <2>1 DEF Settling
<1>6. Cardinality(Unended') = Cardinality(Unended) - 1
  BY <1>4, LoadsCounted, FS_RemoveElement
<1>7. Cardinality(Settling') = 1 /\ Cardinality(Settling) = 0
  BY <1>3, <1>5, FS_Singleton, FS_EmptySet
<1> QED
  BY <1>6, <1>7, LoadsCounted DEF LoadRank

LEMMA SettleLowers ==
  ASSUME WaitInv, NEW l \in LoadIds, Settle(l)
  PROVE  LoadRank' < LoadRank
<1>1. state \in [LoadIds -> {"none", "running", "stored", "failed", "done"}]
  BY DEF WaitInv, TypeOK
<1>2. state' = [state EXCEPT ![l] = "done"] /\ l \in Settling
  BY DEF Settle
<1>3. Unended' = Unended
  BY <1>1, <1>2 DEF Unended, Settling
<1>4. Settling' = Settling \ {l}
  BY <1>1, <1>2 DEF Settling
<1>5. Cardinality(Settling') = Cardinality(Settling) - 1
  BY <1>2, <1>4, LoadsCounted, FS_RemoveElement
<1> QED
  BY <1>3, <1>5, LoadsCounted DEF LoadRank

\* Nothing else changes what is to come.
LEMMA OthersKeep ==
  ASSUME WaitInv, [Next]_vars,
         \A l \in LoadIds : ~Store(l) /\ ~Reject(l) /\ ~Settle(l)
  PROVE  /\ Unended' = Unended /\ Settling' = Settling /\ LoadRank' = LoadRank
         /\ \A l \in LoadIds : state[l] = "running" => state'[l] = "running"
<1>1. state \in [LoadIds -> {"none", "running", "stored", "failed", "done"}]
      /\ loads \in 0..MaxLoads /\ NotYetStarted /\ MaxLoads \in Nat
  BY TtlCacheAssumption DEF WaitInv, TypeOK
<1>2. CASE state' = state
  <2>1. Unended' = Unended /\ Settling' = Settling
    BY <1>2 DEF Unended, Settling
  <2> QED
    BY <1>2, <2>1 DEF LoadRank
<1>3. ASSUME NEW c \in Callers, Load(c)
      PROVE  /\ Unended' = Unended /\ Settling' = Settling
             /\ \A l \in LoadIds : state[l] = "running" => state'[l] = "running"
  <2>1. PICK n \in LoadIds : n = loads + 1
    BY <1>1, <1>3 DEF Load, LoadIds
  <2>2. state[n] = "none" /\ state' = [state EXCEPT ![n] = "running"]
    BY <1>1, <1>3, <2>1 DEF Load, NotYetStarted
  <2> QED
    BY <1>1, <2>2 DEF Unended, Settling
<1>4. (\E c \in Callers : Load(c)) \/ state' = state
  BY DEF Next, Join, GuardFires, Tick, vars
<1> QED
  BY <1>2, <1>3, <1>4 DEF LoadRank

LEMMA RankNeverRises ==
  WaitInv /\ [Next]_vars => LoadRank' <= LoadRank
<1> SUFFICES ASSUME WaitInv, [Next]_vars PROVE LoadRank' <= LoadRank
  OBVIOUS
<1>1. LoadRank \in Nat
  BY LoadsCounted
<1>2. (LoadRank \in Nat)'
  BY LoadsCounted, PTL
<1> QED
  BY <1>1, <1>2, EndLowers, SettleLowers, OthersKeep

\* The fairness of the loaders with its guards spelled out: a loader runs and no
\* other is settling; a loader is settling.
EndComes(l) ==
  <>~(state[l] = "running" /\ Settling = {}) \/ <><<Store(l) \/ Reject(l)>>_vars
FinallyComes(l) == <>~(l \in Settling) \/ <><<Settle(l)>>_vars
LoadsGoOn == \A l \in LoadIds : EndComes(l) /\ FinallyComes(l)

FairCache == [][Next]_vars /\ []WaitInv /\ []LoadsGoOn

\* As long as somebody waits there is less and less to come.
LEMMA LoadsProgress ==
  ASSUME NEW c \in Callers, NEW n \in Nat
  PROVE  FairCache => (LoadRank <= n + 1 => waiting[c] = NoLoad \/ <>(LoadRank <= n))
<1>1. ASSUME NEW l \in LoadIds
      PROVE  FairCache => (l \in Settling /\ LoadRank <= n + 1 => <>(LoadRank <= n))
  <2>1. WaitInv /\ l \in Settling /\ LoadRank <= n + 1 /\ [Next]_vars
          => (l \in Settling /\ LoadRank <= n + 1)' \/ (LoadRank <= n)'
    <3> SUFFICES ASSUME WaitInv, l \in Settling, LoadRank <= n + 1, [Next]_vars,
                        ~(LoadRank' <= n)
                 PROVE  l \in Settling' /\ LoadRank' <= n + 1
      OBVIOUS
    <3>1. LoadRank \in Nat
      BY LoadsCounted
    <3>2. (LoadRank \in Nat)'
      BY LoadsCounted, PTL
    <3>3. \A k \in LoadIds : ~Store(k) /\ ~Reject(k) /\ ~Settle(k)
      BY <3>1, <3>2, EndLowers, SettleLowers
    <3> QED
      BY <3>1, <3>2, <3>3, OthersKeep
  <2>2. WaitInv /\ LoadRank <= n + 1 /\ <<Settle(l)>>_vars => (LoadRank <= n)'
    <3>1. (LoadRank \in Nat)'
      BY LoadsCounted, PTL
    <3> QED
      BY <3>1, LoadsCounted, SettleLowers
  <2>3. LoadsGoOn => <>~(l \in Settling) \/ <><<Settle(l)>>_vars
    BY DEF LoadsGoOn, FinallyComes
  <2> QED
    BY <2>1, <2>2, <2>3, PTL DEF FairCache
<1>2. ASSUME NEW l \in LoadIds
      PROVE  FairCache => (state[l] = "running" /\ Settling = {} /\ LoadRank <= n + 1
                             => <>(LoadRank <= n))
  <2>1. WaitInv /\ (state[l] = "running" /\ Settling = {}) /\ LoadRank <= n + 1 /\ [Next]_vars
          => ((state[l] = "running" /\ Settling = {}) /\ LoadRank <= n + 1)' \/ (LoadRank <= n)'
    <3> SUFFICES ASSUME WaitInv, state[l] = "running", Settling = {}, LoadRank <= n + 1,
                        [Next]_vars, ~(LoadRank' <= n)
                 PROVE  state'[l] = "running" /\ Settling' = {} /\ LoadRank' <= n + 1
      OBVIOUS
    <3>1. LoadRank \in Nat
      BY LoadsCounted
    <3>2. (LoadRank \in Nat)'
      BY LoadsCounted, PTL
    <3>3. \A k \in LoadIds : ~Store(k) /\ ~Reject(k) /\ ~Settle(k)
      BY <3>1, <3>2, EndLowers, SettleLowers
    <3> QED
      BY <3>1, <3>2, <3>3, OthersKeep
  <2>2. WaitInv /\ LoadRank <= n + 1 /\ <<Store(l) \/ Reject(l)>>_vars => (LoadRank <= n)'
    <3>1. (LoadRank \in Nat)'
      BY LoadsCounted, PTL
    <3> QED
      BY <3>1, LoadsCounted, EndLowers
  <2>3. LoadsGoOn => <>~(state[l] = "running" /\ Settling = {})
                     \/ <><<Store(l) \/ Reject(l)>>_vars
    BY DEF LoadsGoOn, EndComes
  <2> QED
    BY <2>1, <2>2, <2>3, PTL DEF FairCache
<1>3. FairCache => WaitInv
  BY PTL DEF FairCache
<1>4. WaitInv => \/ waiting[c] = NoLoad
                 \/ \E l \in LoadIds : l \in Settling
                 \/ \E l \in LoadIds : state[l] = "running" /\ Settling = {}
  <2> SUFFICES ASSUME WaitInv, waiting[c] # NoLoad, Settling = {}
               PROVE  \E l \in LoadIds : state[l] = "running"
    BY DEF Settling
  <2>1. Pending(waiting[c]) /\ waiting[c] \in LoadIds
    BY TtlCacheAssumption DEF WaitInv, TypeOK, NobodyWaitsInVain, LoadIds, NoLoad
  <2> QED
    BY <2>1 DEF Pending, Settling
<1> QED
  BY <1>1, <1>2, <1>3, <1>4

\* A caller gets his answer when there is so little to come.
AnsweredWithin(c, n) == [](FairCache => (LoadRank <= n => <>(waiting[c] = NoLoad)))

LEMMA AnsweredAtOnce ==
  ASSUME NEW c \in Callers
  PROVE  AnsweredWithin(c, 0)
<1>1. WaitInv /\ LoadRank <= 0 => waiting[c] = NoLoad
  <2> SUFFICES ASSUME WaitInv, waiting[c] # NoLoad PROVE ~(LoadRank <= 0)
    OBVIOUS
  <2>1. Pending(waiting[c]) /\ waiting[c] \in LoadIds
    BY TtlCacheAssumption DEF WaitInv, TypeOK, NobodyWaitsInVain, LoadIds, NoLoad
  <2>2. Unended # {} \/ Settling # {}
    BY <2>1 DEF Pending, Unended, Settling
  <2>3. Cardinality(Unended) # 0 \/ Cardinality(Settling) # 0
    BY <2>2, LoadsCounted, FS_EmptySet
  <2> QED
    BY <2>3, LoadsCounted DEF LoadRank
<1> QED
  BY <1>1, PTL DEF AnsweredWithin, FairCache

LEMMA AnsweredLater ==
  ASSUME NEW c \in Callers, NEW n \in Nat
  PROVE  AnsweredWithin(c, n) => AnsweredWithin(c, n + 1)
<1>1. FairCache => (LoadRank <= n + 1 => waiting[c] = NoLoad \/ <>(LoadRank <= n))
  BY LoadsProgress
<1> QED
  BY <1>1, PTL DEF AnsweredWithin, FairCache

LEMMA NumberByNumber ==
  ASSUME NEW holds, holds[0], \A n \in Nat : holds[n] => holds[n + 1]
  PROVE  \A n \in Nat : holds[n]
<1> DEFINE Fails == {n \in Nat : ~holds[n]}
           R == {s \in Nat \X Nat : s[1] < s[2]}
<1> SUFFICES ASSUME Fails # {} PROVE FALSE
  OBVIOUS
<1>1. IsWellFoundedOn(OpToRel(<, Nat), Nat)
  BY NatLessThanWellFounded
<1>2. OpToRel(<, Nat) = R
  BY DEF OpToRel
<1>3. PICK m \in Fails : \A n \in Fails : ~(<<n, m>> \in R)
  <2>1. Fails \subseteq Nat
    OBVIOUS
  <2> HIDE DEF R, Fails
  <2> QED
    BY <1>1, <1>2, <2>1, WFMin
<1>4. m \in Nat /\ m # 0 /\ ~holds[m]
  OBVIOUS
<1>5. m - 1 \in Nat /\ (m - 1) + 1 = m /\ <<m - 1, m>> \in R
  BY <1>4
<1>6. holds[m - 1]
  BY <1>3, <1>5
<1> QED
  BY <1>4, <1>5, <1>6

\* How many loads are to come is a number that MaxLoads bounds, any number; what
\* holds of a behaviour for each number makes no set of TLA+.  Named as the
\* sequence of its truth it is there for the provers to find.
Told(sequence) == TRUE

LEMMA AlwaysAnswered ==
  ASSUME NEW c \in Callers
  PROVE  \A n \in Nat : AnsweredWithin(c, n)
<1>1. \E holds : \A n \in Nat : holds[n] <=> AnsweredWithin(c, n)
  <2>1. Told([n \in Nat |-> AnsweredWithin(c, n)])
    BY DEF Told
  <2> QED
    BY <2>1
<1>2. PICK holds : \A n \in Nat : holds[n] <=> AnsweredWithin(c, n)
  BY <1>1
<1>3. holds[0] /\ \A n \in Nat : holds[n] => holds[n + 1]
  BY <1>2, AnsweredAtOnce, AnsweredLater
<1> QED
  BY <1>2, <1>3, NumberByNumber

\* Whoever asks is answered, however long loads take, as long as they end: no
\* promise of the table is forgotten, not even of a load that its guard gave up.
THEOREM CallersAreAnswered == Spec /\ []LoadsGoOn => EveryCallerAnswered
<1> SUFFICES ASSUME NEW c \in Callers
             PROVE  Spec /\ []LoadsGoOn => (waiting[c] # NoLoad ~> waiting[c] = NoLoad)
  BY DEF EveryCallerAnswered
<1>1. FairCache => <>(waiting[c] = NoLoad)
  <2>1. \E n \in Nat : LoadRank <= n
    BY LoadsCounted
  <2>2. ASSUME NEW n \in Nat
        PROVE  FairCache => (LoadRank <= n => <>(waiting[c] = NoLoad))
    <3>1. AnsweredWithin(c, n)
      BY AlwaysAnswered
    <3> QED
      BY <3>1, PTL DEF AnsweredWithin
  <2> QED
    BY <2>1, <2>2
<1> QED
  BY <1>1, InitWaitInv, WaitStep, PTL DEF Spec, FairCache

=============================================================================
