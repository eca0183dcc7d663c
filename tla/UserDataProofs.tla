----------------------------- MODULE UserDataProofs -----------------------------
(***************************************************************************)
(* What a user's data promises, for any number of requests in any order:   *)
(*                                                                         *)
(*   - the limits of the tables: the rows there are, those that requests   *)
(*     which passed the check are about to write, and the new rows that    *)
(*     bulk imports may still write out of the room they were given;       *)
(*   - the limit of a route's active alerts, counted together with those   *)
(*     about to be created;                                                *)
(*   - the page of the alert rules, which tells what is stored in every    *)
(*     row it shows and waits for nothing in;                              *)
(*   - the history of the signals, which repeats nothing within the        *)
(*     interval: what a post calls news stays news until it is stored,     *)
(*     but for the rows that it did not see;                               *)
(*   - what the radar and the evaluation of a route say, for any rules,    *)
(*     dossiers and routes: the balances of a loop month by month, by      *)
(*     induction on the months;                                            *)
(*   - that what is paid beside a debt never costs more of it: the         *)
(*     installments pay off what they are calculated for in the months     *)
(*     that remain, and leave a fraction that does not depend on it.       *)
(***************************************************************************)
EXTENDS UserTables, RouteAlerts, AlertRules, SignalHistory, Radar, RouteEngine,
        Amortization, FiniteSetTheorems, SequenceTheorems, WellFoundedInduction, TLAPS

\* The requests of a slot; only the portfolio takes several rows at once.
BulkSteps == {"bulk", "bulk_update", "bulk_create"}

WellFormed(q) ==
  \/ q = NoPost
  \/ \E step \in {"count", "write"}, s \in Symbols : q = Single(step, s)
  \/ /\ table = "portfolio"
     /\ \E step \in BulkSteps, left \in SUBSET Symbols, room \in 0..MaxRows,
           s \in Symbols \union {"none"} :
          /\ q = Bulk(step, left, room, s)
          /\ IsFiniteSet(left)
          /\ Cardinality(left) <= (IF step = "bulk" THEN MaxBulk ELSE MaxBulk - 1)
          /\ step # "bulk" => s \in Symbols
          /\ step = "bulk_create" => room > 0

TablesTypeOK ==
  /\ table \in Tables
  /\ IsFiniteSet(rows) /\ rows \subseteq Symbols
  /\ open \in SUBSET Posts /\ open # {}
  /\ DOMAIN posts = Posts
  /\ \A q \in open : WellFormed(posts[q])
  /\ \A q \in Posts \ open : posts[q] = NoPost

\* Rows about to be written that were checked one by one, or were there.
Arriving == {q \in Posts : posts[q].step \in {"write", "bulk_update"}}
Coming == {posts[q].symbol : q \in Arriving}

\* New rows a request may still write out of the room it was given.
Fewer(a, b) == IF a <= b THEN a ELSE b

Spare(q) ==
  CASE q.step \in {"bulk", "bulk_update"} -> Fewer(q.room, Cardinality(q.left))
    [] q.step = "bulk_create" -> Fewer(q.room, Cardinality(q.left) + 1)
    [] OTHER -> 0

Reserved == {e \in Posts \X (1..Batch) : e[2] <= Spare(posts[e[1]])}

\* What is there, what is coming and what is reserved are within the limit, but
\* for what every request but one may write.
Allowed == (Cardinality(open) - 1) * Batch

Fits == Cardinality(rows \union Coming) + Cardinality(Reserved) <= MaxRows + Allowed

LEMMA SmallUnion ==
  ASSUME NEW S, NEW T, IsFiniteSet(S), IsFiniteSet(T)
  PROVE  /\ IsFiniteSet(S \union T)
         /\ Cardinality(S) \in Nat /\ Cardinality(T) \in Nat
         /\ Cardinality(S \union T) \in Nat
         /\ Cardinality(S \union T) <= Cardinality(S) + Cardinality(T)
         /\ S \intersect T = {}
              => Cardinality(S \union T) = Cardinality(S) + Cardinality(T)
<1>1. /\ IsFiniteSet(S \union T)
      /\ Cardinality(S \union T)
           = Cardinality(S) + Cardinality(T) - Cardinality(S \intersect T)
  BY FS_Union
<1>2. Cardinality(S) \in Nat /\ Cardinality(T) \in Nat
      /\ Cardinality(S \union T) \in Nat
  BY <1>1, FS_CardinalityType
<1>3. Cardinality(S \intersect T) \in Nat
  BY FS_Intersection, FS_CardinalityType
<1>4. S \intersect T = {} => Cardinality(S \intersect T) = 0
  BY FS_EmptySet
<1> QED
  BY <1>1, <1>2, <1>3, <1>4

\* What a well formed request is made of, and how much of the limit it holds.
LEMMA RequestFields ==
  ASSUME TablesTypeOK, NEW q, WellFormed(q)
  PROVE  /\ q.step \in {"none", "count", "write"} \union BulkSteps
         /\ q # NoPost <=> q.step # "none"
         /\ q.step \notin {"none", "bulk"} => q.symbol \in Symbols
         /\ q.step \in BulkSteps =>
              /\ table = "portfolio" /\ q.left \in SUBSET Symbols
              /\ q.room \in 0..MaxRows /\ IsFiniteSet(q.left)
              /\ Cardinality(q.left) \in Nat
              /\ Cardinality(q.left)
                   <= (IF q.step = "bulk" THEN MaxBulk ELSE MaxBulk - 1)
              /\ q.step = "bulk_create" => q.room > 0
         /\ Spare(q) \in Nat /\ Batch \in Nat \ {0} /\ Spare(q) <= Batch
         /\ q.step \in {"none", "count", "write"} => Spare(q) = 0
         /\ q.step \in {"write", "bulk_update"} => Spare(q) <= Batch - 1
<1> USE TablesAssumption DEF BulkSteps
<1>0. Batch \in Nat \ {0} /\ (table = "portfolio" => Batch = MaxBulk)
  BY DEF Batch
<1>1. CASE q = NoPost
  BY <1>0, <1>1 DEF NoPost, Spare
<1>2. CASE \E step \in {"count", "write"}, s \in Symbols : q = Single(step, s)
  <2>1. PICK step \in {"count", "write"}, s \in Symbols : q = Single(step, s)
    BY <1>2
  <2>2. q.step = step /\ q.symbol = s
    BY <2>1 DEF Single
  <2>3. q # NoPost
    BY <2>2 DEF NoPost
  <2> QED
    BY <1>0, <2>2, <2>3 DEF Spare
<1>3. ASSUME table = "portfolio", NEW step \in BulkSteps,
             NEW left \in SUBSET Symbols, NEW room \in 0..MaxRows,
             NEW s \in Symbols \union {"none"},
             q = Bulk(step, left, room, s), IsFiniteSet(left),
             Cardinality(left) <= (IF step = "bulk" THEN MaxBulk ELSE MaxBulk - 1),
             step # "bulk" => s \in Symbols,
             step = "bulk_create" => room > 0
      PROVE  /\ q # NoPost
             /\ q.step = step /\ q.left = left /\ q.room = room /\ q.symbol = s
             /\ Cardinality(left) \in Nat
             /\ Spare(q) \in Nat /\ Spare(q) <= Batch
             /\ step = "bulk_update" => Spare(q) <= Batch - 1
  <2>1. q.step = step /\ q.left = left /\ q.room = room /\ q.symbol = s
    BY <1>3 DEF Bulk
  <2>2. q # NoPost
    BY <2>1 DEF NoPost
  <2>3. Cardinality(left) \in Nat
    BY <1>3, FS_CardinalityType
  <2>4. /\ Spare(q) \in Nat /\ Spare(q) <= Batch
        /\ step = "bulk_update" => Spare(q) <= Batch - 1
    BY <1>0, <1>3, <2>1, <2>3 DEF Spare, Fewer
  <2> QED
    BY <2>1, <2>2, <2>3, <2>4
<1>4. CASE /\ table = "portfolio"
           /\ \E step \in BulkSteps, left \in SUBSET Symbols, room \in 0..MaxRows,
                 s \in Symbols \union {"none"} :
                /\ q = Bulk(step, left, room, s)
                /\ IsFiniteSet(left)
                /\ Cardinality(left)
                     <= (IF step = "bulk" THEN MaxBulk ELSE MaxBulk - 1)
                /\ step # "bulk" => s \in Symbols
                /\ step = "bulk_create" => room > 0
  <2>1. PICK step \in BulkSteps, left \in SUBSET Symbols, room \in 0..MaxRows,
             s \in Symbols \union {"none"} :
          /\ q = Bulk(step, left, room, s)
          /\ IsFiniteSet(left)
          /\ Cardinality(left) <= (IF step = "bulk" THEN MaxBulk ELSE MaxBulk - 1)
          /\ step # "bulk" => s \in Symbols
          /\ step = "bulk_create" => room > 0
    BY <1>4
  <2>2. /\ q # NoPost
        /\ q.step = step /\ q.left = left /\ q.room = room /\ q.symbol = s
        /\ Cardinality(left) \in Nat
        /\ Spare(q) \in Nat /\ Spare(q) <= Batch
        /\ step = "bulk_update" => Spare(q) <= Batch - 1
    BY <1>3, <1>4, <2>1
  <2> QED
    BY <1>0, <1>4, <2>1, <2>2
<1> QED
  BY <1>1, <1>2, <1>4 DEF WellFormed

LEMMA SlotFields ==
  ASSUME TablesTypeOK, NEW q \in Posts
  PROVE  WellFormed(posts[q]) /\ (posts[q].step # "none" => q \in open)
<1>1. CASE q \in open
  BY <1>1 DEF TablesTypeOK
<1>2. CASE q \notin open
  BY <1>2 DEF TablesTypeOK, WellFormed, NoPost
<1> QED
  BY <1>1, <1>2

LEMMA OpenIsFinite ==
  ASSUME TablesTypeOK
  PROVE  /\ IsFiniteSet(open) /\ Cardinality(open) \in Nat \ {0}
         /\ Batch \in Nat \ {0} /\ Allowed \in Nat
<1>1. IsFiniteSet(open) /\ open # {}
  BY TablesAssumption, FS_Subset DEF TablesTypeOK
<1>2. Cardinality(open) \in Nat \ {0}
  BY <1>1, FS_CardinalityType, FS_EmptySet
<1>3. Batch \in Nat \ {0}
  BY TablesAssumption DEF Batch
<1>4. Cardinality(open) - 1 \in Nat
  BY <1>2
<1>5. Allowed \in Nat
  BY <1>3, <1>4 DEF Allowed
<1> QED
  BY <1>1, <1>2, <1>3, <1>5

\* What the requests of some open slots may write: a row that is coming from
\* each, of the top of its Batch, and its spare rows below.
ComingOf(Q) == {posts[q].symbol : q \in Q \intersect Arriving}
ReservedOf(Q) == {e \in Reserved : e[1] \in Q}

LEMMA SlotsWriteTheirBatch ==
  ASSUME TablesTypeOK, NEW Q \in SUBSET open
  PROVE  /\ IsFiniteSet(Q)
         /\ IsFiniteSet(ComingOf(Q)) /\ IsFiniteSet(ReservedOf(Q))
         /\ Cardinality(ComingOf(Q)) + Cardinality(ReservedOf(Q))
              <= Cardinality(Q) * Batch
<1> DEFINE A == Q \intersect Arriving
           X == A \X {Batch}
           R == ReservedOf(Q)
<1>1. IsFiniteSet(Q) /\ Batch \in Nat \ {0}
  BY OpenIsFinite, FS_Subset
<1>2. IsFiniteSet(A) /\ Cardinality(A) \in Nat
  BY <1>1, FS_Intersection, FS_CardinalityType
<1>3. IsFiniteSet(ComingOf(Q)) /\ Cardinality(ComingOf(Q)) <= Cardinality(A)
  <2> DEFINE f == [q \in A |-> posts[q].symbol]
  <2>1. f \in Surjection(A, ComingOf(Q))
    BY DEF ComingOf, Surjection
  <2> HIDE DEF f, A
  <2> QED
    BY <1>2, <2>1, FS_Surjection
<1>4. /\ IsFiniteSet(Q \X (1..Batch))
      /\ Cardinality(Q \X (1..Batch)) = Cardinality(Q) * Batch
  <2>1. IsFiniteSet(1..Batch) /\ Cardinality(1..Batch) = Batch
    BY <1>1, FS_Interval
  <2> QED
    BY <1>1, <2>1, FS_Product
<1>5. IsFiniteSet(X) /\ Cardinality(X) = Cardinality(A)
  <2>1. IsFiniteSet({Batch}) /\ Cardinality({Batch}) = 1
    BY FS_Singleton
  <2> HIDE DEF A
  <2>2. IsFiniteSet(X) /\ Cardinality(X) = Cardinality(A) * 1
    BY <1>2, <2>1, FS_Product
  <2> QED
    BY <1>2, <2>2
<1>6. R \in SUBSET (Q \X (1..Batch))
  BY DEF ReservedOf, Reserved
<1>7. X \intersect R = {}
  <2> SUFFICES ASSUME NEW e \in X, e \in R PROVE FALSE
    OBVIOUS
  <2>1. e[1] \in A /\ e[2] = Batch /\ e[2] <= Spare(posts[e[1]])
    BY DEF ReservedOf, Reserved
  <2>2. PICK q \in Posts : q = e[1] /\ q \in Arriving
    BY <2>1 DEF Arriving
  <2>3. Spare(posts[q]) <= Batch - 1 /\ Spare(posts[q]) \in Nat
    BY <2>2, SlotFields, RequestFields DEF Arriving
  <2> QED
    BY <1>1, <2>1, <2>2, <2>3
<1>8. X \union R \in SUBSET (Q \X (1..Batch))
  <2>1. Batch \in 1..Batch
    BY <1>1
  <2> QED
    BY <1>6, <2>1
<1>9. IsFiniteSet(R)
  BY <1>4, <1>6, FS_Subset
<1>10. Cardinality(X \union R) <= Cardinality(Q) * Batch
  BY <1>4, <1>8, FS_Subset
<1>11. /\ Cardinality(X \union R) = Cardinality(A) + Cardinality(R)
       /\ Cardinality(R) \in Nat
  BY <1>5, <1>7, <1>9, SmallUnion
<1>12. Cardinality(ComingOf(Q)) \in Nat /\ Cardinality(Q) * Batch \in Nat
  <2>1. Cardinality(Q) \in Nat
    BY <1>1, FS_CardinalityType
  <2> QED
    BY <1>1, <1>3, <2>1, FS_CardinalityType
<1> DEFINE b == Cardinality(Q) * Batch
<1>13. Cardinality(ComingOf(Q)) + Cardinality(R) <= b
  <2> HIDE DEF b, A, X, R
  <2>1. b \in Nat /\ Cardinality(X \union R) <= b
    BY <1>10, <1>12 DEF b
  <2> QED
    BY <1>2, <1>3, <1>11, <1>12, <2>1
<1> QED
  BY <1>1, <1>3, <1>9, <1>13

TablesInv == TablesTypeOK /\ Fits

\* The two counts that Fits adds up.
LEMMA FitsCounts ==
  ASSUME TablesTypeOK
  PROVE  /\ IsFiniteSet(rows \union Coming) /\ IsFiniteSet(Reserved)
         /\ Cardinality(rows \union Coming) \in Nat
         /\ Cardinality(Reserved) \in Nat /\ Cardinality(rows) \in Nat
         /\ Cardinality(rows) <= Cardinality(rows \union Coming)
<1>1. Arriving \subseteq open
  BY SlotFields DEF Arriving
<1>2. \A e \in Reserved : e[1] \in open
  <2> SUFFICES ASSUME NEW e \in Reserved PROVE e[1] \in open
    OBVIOUS
  <2>1. PICK q \in Posts : q = e[1] /\ e[2] <= Spare(posts[q]) /\ e[2] \in 1..Batch
    BY DEF Reserved
  <2>2. posts[q].step # "none"
    BY <2>1, SlotFields, RequestFields
  <2> QED
    BY <2>1, <2>2, SlotFields
<1>3. ComingOf(open) = Coming /\ ReservedOf(open) = Reserved
  BY <1>1, <1>2 DEF ComingOf, Coming, ReservedOf
<1>4. IsFiniteSet(Coming) /\ IsFiniteSet(Reserved) /\ IsFiniteSet(rows)
  BY <1>3, SlotsWriteTheirBatch DEF TablesTypeOK
<1>5. IsFiniteSet(rows \union Coming)
  BY <1>4, SmallUnion
<1>6. rows \in SUBSET (rows \union Coming)
  OBVIOUS
<1> QED
  BY <1>4, <1>5, <1>6, FS_Subset, FS_CardinalityType

\* A step after which nothing is there, coming or reserved that was not before
\* keeps the limit.
LEMMA NothingNew ==
  ASSUME TablesInv, TablesTypeOK', table' = table, open' = open,
         (rows \union Coming)' \subseteq rows \union Coming,
         Reserved' \subseteq Reserved
  PROVE  Fits'
<1>1. /\ IsFiniteSet(rows \union Coming) /\ Cardinality(rows \union Coming) \in Nat
      /\ IsFiniteSet(Reserved) /\ Cardinality(Reserved) \in Nat
  BY FitsCounts DEF TablesInv
<1>2. /\ IsFiniteSet((rows \union Coming)') /\ IsFiniteSet(Reserved')
      /\ Cardinality((rows \union Coming)') <= Cardinality(rows \union Coming)
      /\ Cardinality(Reserved') <= Cardinality(Reserved)
  BY <1>1, FS_Subset
<1>3. Cardinality((rows \union Coming)') \in Nat /\ Cardinality(Reserved') \in Nat
  BY <1>2, FS_CardinalityType
<1>4. Allowed' = Allowed /\ Allowed \in Nat
  BY OpenIsFinite DEF TablesInv, Allowed, Batch
<1> QED
  BY <1>1, <1>2, <1>3, <1>4, TablesAssumption DEF TablesInv, Fits

\* An open slot moves to another request, or is free again.
LEMMA SlotMoves ==
  ASSUME TablesTypeOK, NEW p \in open, NEW request, WellFormed(request),
         Moves(p, request), IsFiniteSet(rows'), rows' \subseteq Symbols, TablesSame
  PROVE  /\ TablesTypeOK' /\ table' = table /\ open' = open
         /\ p \in Posts /\ posts'[p] = request
         /\ \A q \in Posts \ {p} : posts'[q] = posts[q]
<1>1. p \in Posts /\ table' = table /\ open' = open
  BY DEF TablesTypeOK, TablesSame
<1>2. /\ posts' = [posts EXCEPT ![p] = request] /\ DOMAIN posts' = Posts
      /\ posts'[p] = request /\ \A q \in Posts \ {p} : posts'[q] = posts[q]
  BY <1>1 DEF Moves, TablesTypeOK
<1>3. ASSUME NEW q \in open
      PROVE  WellFormed(posts[q])'
  <2>1. WellFormed(posts'[q])
    <3>1. CASE q = p
      BY <1>2, <3>1
    <3>2. CASE q # p
      BY <1>1, <1>2, <3>2 DEF TablesTypeOK
    <3> QED
      BY <3>1, <3>2
  <2> QED
    BY <1>1, <2>1 DEF WellFormed
<1>4. \A q \in Posts \ open : posts'[q] = NoPost
  BY <1>2 DEF TablesTypeOK
<1> QED
  BY <1>1, <1>2, <1>3, <1>4 DEF TablesTypeOK

\* What a move changes in the counts of Fits.
LEMMA MoveCounts ==
  ASSUME NEW p \in Posts, NEW request, table' = table, posts'[p] = request,
         \A q \in Posts \ {p} : posts'[q] = posts[q]
  PROVE  /\ Coming' = ComingOf(Posts \ {p}) \union
              (IF request.step \in {"write", "bulk_update"} THEN {request.symbol} ELSE {})
         /\ Reserved' = ReservedOf(Posts \ {p}) \union
              {e \in {p} \X (1..Batch) : e[2] <= Spare(request)}
<1>1. Coming' = ComingOf(Posts \ {p}) \union
        (IF request.step \in {"write", "bulk_update"} THEN {request.symbol} ELSE {})
  BY DEF Coming, Arriving, ComingOf
<1>2. Batch' = Batch
  BY DEF Batch
<1>3. ASSUME NEW e \in Posts \X (1..Batch)
      PROVE  /\ e[1] = p => posts'[e[1]] = request
             /\ e[1] # p => posts'[e[1]] = posts[e[1]]
  OBVIOUS
<1>4. Reserved' = {e \in Posts \X (1..Batch) : e[2] <= Spare(posts'[e[1]])}
  BY <1>2 DEF Reserved
<1>5. Reserved' = ReservedOf(Posts \ {p}) \union
        {e \in {p} \X (1..Batch) : e[2] <= Spare(request)}
  BY <1>3, <1>4 DEF Reserved, ReservedOf
<1> QED
  BY <1>1, <1>5

\* A move of a slot that brings no row that is not there and reserves no more.
LEMMA QuietMove ==
  ASSUME TablesInv, NEW p \in open, NEW request, WellFormed(request),
         Moves(p, request), rows' = rows, TablesSame,
         request.step \in {"write", "bulk_update"} => request.symbol \in rows \union Coming,
         Spare(request) <= Spare(posts[p])
  PROVE  TablesInv'
<1>1. TablesTypeOK /\ IsFiniteSet(rows') /\ rows' \subseteq Symbols
  BY DEF TablesInv, TablesTypeOK
<1>2. /\ TablesTypeOK' /\ table' = table /\ open' = open
      /\ p \in Posts /\ posts'[p] = request
      /\ \A q \in Posts \ {p} : posts'[q] = posts[q]
  BY <1>1, SlotMoves
<1> DEFINE one == IF request.step \in {"write", "bulk_update"}
                  THEN {request.symbol} ELSE {}
           spare == {e \in {p} \X (1..Batch) : e[2] <= Spare(request)}
<1>0. /\ Coming' = ComingOf(Posts \ {p}) \union one
      /\ Reserved' = ReservedOf(Posts \ {p}) \union spare
  BY <1>2, MoveCounts
<1>3. (rows \union Coming)' \subseteq rows \union Coming
  BY <1>0 DEF ComingOf, Coming
<1>4. Reserved' \subseteq Reserved
  <2>1. Spare(request) \in Nat /\ Spare(posts[p]) \in Nat
    BY <1>1, <1>2, SlotFields, RequestFields
  <2>2. ASSUME NEW e \in {p} \X (1..Batch), e[2] <= Spare(request)
        PROVE  e \in Reserved
    <3>1. Batch \in Nat /\ e[2] \in 1..Batch /\ e[1] = p
      BY <1>1, OpenIsFinite
    <3>2. e[2] <= Spare(posts[p])
      BY <2>1, <2>2, <3>1
    <3> QED
      BY <1>2, <3>1, <3>2 DEF Reserved
  <2> QED
    BY <1>0, <2>2 DEF ReservedOf
<1> QED
  BY <1>1, <1>2, <1>3, <1>4, NothingNew DEF TablesInv

\* A request that takes no more than the count of the rows left it keeps the
\* limit: each of the others writes its batch at most.
LEMMA CheckedMove ==
  ASSUME TablesInv, NEW p \in open, NEW request, WellFormed(request),
         Moves(p, request), rows' = rows, TablesSame,
         Cardinality(rows) + Spare(request)
           + (IF request.step \in {"write", "bulk_update"} THEN 1 ELSE 0) <= MaxRows
  PROVE  TablesInv'
<1>1. TablesTypeOK /\ IsFiniteSet(rows) /\ rows' \subseteq Symbols /\ IsFiniteSet(rows')
  BY DEF TablesInv, TablesTypeOK
<1>2. /\ TablesTypeOK' /\ table' = table /\ open' = open
      /\ p \in Posts /\ posts'[p] = request
      /\ \A q \in Posts \ {p} : posts'[q] = posts[q]
  BY <1>1, SlotMoves
<1> DEFINE Q == open \ {p}
           one == IF request.step \in {"write", "bulk_update"}
                  THEN {request.symbol} ELSE {}
           spare == {e \in {p} \X (1..Batch) : e[2] <= Spare(request)}
<1>3. /\ IsFiniteSet(ComingOf(Q)) /\ IsFiniteSet(ReservedOf(Q))
      /\ Cardinality(ComingOf(Q)) \in Nat /\ Cardinality(ReservedOf(Q)) \in Nat
      /\ Cardinality(ComingOf(Q)) + Cardinality(ReservedOf(Q)) <= Allowed
  <2>1. Cardinality(Q) = Cardinality(open) - 1
    BY <1>1, OpenIsFinite, FS_RemoveElement
  <2>2. Q \in SUBSET open
    OBVIOUS
  <2>3. /\ IsFiniteSet(ComingOf(Q)) /\ IsFiniteSet(ReservedOf(Q))
        /\ Cardinality(ComingOf(Q)) + Cardinality(ReservedOf(Q))
             <= Cardinality(Q) * Batch
    BY <1>1, <2>2, SlotsWriteTheirBatch
  <2> QED
    BY <2>1, <2>3, FS_CardinalityType DEF Allowed
<1>4. Coming' = ComingOf(Q) \union one
  <2>1. ComingOf(Posts \ {p}) = ComingOf(Q)
    <3>1. (Posts \ {p}) \intersect Arriving = Q \intersect Arriving
      BY <1>1, SlotFields DEF Arriving, TablesTypeOK
    <3> QED
      BY <3>1 DEF ComingOf
  <2> QED
    BY <1>2, <2>1, MoveCounts
<1>5. Reserved' = ReservedOf(Q) \union spare
  <2>1. ReservedOf(Posts \ {p}) = ReservedOf(Q)
    <3>1. ASSUME NEW e \in Reserved
          PROVE  e[1] \in open
      <4>1. PICK q \in Posts : q = e[1] /\ e[2] <= Spare(posts[q]) /\ e[2] \in 1..Batch
        BY DEF Reserved
      <4>2. posts[q].step # "none"
        BY <1>1, <4>1, SlotFields, RequestFields
      <4> QED
        BY <1>1, <4>1, <4>2, SlotFields
    <3>2. \A e \in Reserved : e[1] \in Posts \ {p} <=> e[1] \in Q
      BY <3>1, <1>1 DEF TablesTypeOK
    <3> QED
      BY <3>2 DEF ReservedOf
  <2> QED
    BY <1>2, <2>1, MoveCounts
<1>6. /\ IsFiniteSet(one) /\ Cardinality(one) \in Nat
      /\ Cardinality(one)
           = (IF request.step \in {"write", "bulk_update"} THEN 1 ELSE 0)
  <2>1. IsFiniteSet({request.symbol}) /\ Cardinality({request.symbol}) = 1
    BY FS_Singleton
  <2>2. IsFiniteSet({}) /\ Cardinality({}) = 0
    BY FS_EmptySet
  <2> QED
    BY <2>1, <2>2
<1>7. Spare(request) \in Nat /\ Batch \in Nat
  BY <1>1, RequestFields
<1>8. /\ IsFiniteSet(spare) /\ Cardinality(spare) \in Nat
      /\ Cardinality(spare) <= Spare(request)
  <2>1. IsFiniteSet(1..Spare(request)) /\ Cardinality(1..Spare(request)) = Spare(request)
    BY <1>7, FS_Interval
  <2>2. IsFiniteSet({p}) /\ Cardinality({p}) = 1
    BY FS_Singleton
  <2>3. /\ IsFiniteSet({p} \X (1..Spare(request)))
        /\ Cardinality({p} \X (1..Spare(request)))
             = Cardinality({p}) * Cardinality(1..Spare(request))
    BY <2>1, <2>2, FS_Product, Zenon
  <2>4. spare \in SUBSET ({p} \X (1..Spare(request)))
    <3> SUFFICES ASSUME NEW e \in spare PROVE e \in {p} \X (1..Spare(request))
      OBVIOUS
    <3>1. e \in {p} \X (1..Batch) /\ e[2] \in 1..Batch /\ e[2] <= Spare(request)
      OBVIOUS
    <3>2. e[2] \in 1..Spare(request)
      BY <1>7, <3>1
    <3> QED
      BY <3>1, <3>2
  <2>5. Cardinality({p} \X (1..Spare(request))) = Spare(request)
    <3>1. 1 * Spare(request) = Spare(request)
      BY <1>7
    <3> QED
      BY <2>1, <2>2, <2>3, <3>1, Zenon
  <2> HIDE DEF spare
  <2>6. IsFiniteSet(spare) /\ Cardinality(spare) <= Cardinality({p} \X (1..Spare(request)))
    BY <2>3, <2>4, FS_Subset
  <2> QED
    BY <2>5, <2>6, FS_CardinalityType
<1> HIDE DEF one, spare, Q
<1>9. /\ Cardinality(Reserved') <= Cardinality(ReservedOf(Q)) + Cardinality(spare)
      /\ Cardinality(Reserved') \in Nat
  BY <1>3, <1>5, <1>8, SmallUnion
<1>10. /\ IsFiniteSet(ComingOf(Q) \union one)
       /\ Cardinality(ComingOf(Q) \union one) \in Nat
       /\ Cardinality(ComingOf(Q) \union one)
            <= Cardinality(ComingOf(Q)) + Cardinality(one)
  BY <1>3, <1>6, SmallUnion
<1>11. /\ Cardinality((rows \union Coming)')
            <= Cardinality(rows) + Cardinality(ComingOf(Q) \union one)
       /\ Cardinality((rows \union Coming)') \in Nat /\ Cardinality(rows) \in Nat
  BY <1>1, <1>4, <1>10, SmallUnion
<1>12. Allowed' = Allowed /\ Allowed \in Nat
  BY <1>1, <1>2, OpenIsFinite DEF Allowed, Batch
<1>13. Fits'
  <2>1. Cardinality(rows) + Spare(request) + Cardinality(one) <= MaxRows
    BY <1>6
  <2> QED
    BY <1>3, <1>6, <1>7, <1>8, <1>9, <1>10, <1>11, <1>12, <2>1, TablesAssumption
       DEF Fits
<1> QED
  BY <1>2, <1>13 DEF TablesInv

LEMMA TablesInitInv == TablesInit => TablesInv
<1> SUFFICES ASSUME TablesInit PROVE TablesInv
  OBVIOUS
<1>1. TablesTypeOK
  BY DEF TablesInit, TablesTypeOK, WellFormed
<1>2. Coming = {}
  BY DEF TablesInit, Coming, Arriving, NoPost
<1>3. Reserved = {}
  <2> SUFFICES ASSUME NEW e \in Reserved PROVE FALSE
    OBVIOUS
  <2>1. PICK q \in Posts : e[2] <= Spare(posts[q]) /\ e[2] \in 1..Batch
    BY DEF Reserved
  <2>2. Spare(posts[q]) = 0
    BY DEF TablesInit, NoPost, Spare
  <2> QED
    BY <1>1, <2>1, <2>2, OpenIsFinite
<1>4. /\ Cardinality(rows \union Coming) = Cardinality(rows)
      /\ Cardinality(Reserved) = 0
  <2>1. rows \union Coming = rows
    BY <1>2
  <2> QED
    BY <1>3, <2>1, FS_EmptySet
<1>5. Cardinality(rows) <= MaxRows /\ Cardinality(rows) \in Nat
  BY <1>1, FitsCounts DEF TablesInit
<1>6. Allowed \in Nat
  BY <1>1, OpenIsFinite
<1> QED
  BY <1>1, <1>4, <1>5, <1>6, TablesAssumption DEF TablesInv, Fits

LEMMA BulkFields ==
  ASSUME NEW step, NEW left, NEW room, NEW s
  PROVE  /\ Bulk(step, left, room, s).step = step
         /\ Bulk(step, left, room, s).left = left
         /\ Bulk(step, left, room, s).room = room
         /\ Bulk(step, left, room, s).symbol = s
BY DEF Bulk

LEMMA TablesStepInv == TablesInv /\ [TablesNext]_tablesVars => TablesInv'
<1> SUFFICES ASSUME TablesInv, [TablesNext]_tablesVars PROVE TablesInv'
  OBVIOUS
<1> USE TablesAssumption
<1>1. TablesTypeOK /\ Fits
  BY DEF TablesInv
<1>2. ASSUME NEW p \in Posts, NEW s \in Symbols, LookUp(p, s) \/ Offer(p, s)
      PROVE  TablesInv'
  <2>1. p \in open /\ posts[p] = NoPost /\ rows' = rows /\ TablesSame
    BY <1>2 DEF LookUp, Offer, Idle
  <2>2. PICK step \in {"count", "write"} : /\ Moves(p, Single(step, s))
                                           /\ step = "write" => s \in rows
    BY <1>2 DEF LookUp, Offer
  <2>3. PICK q : q = Single(step, s)
    OBVIOUS
  <2>4. /\ WellFormed(q) /\ q.step = step /\ q.symbol = s
        /\ Spare(q) = 0 /\ Spare(posts[p]) = 0
    BY <2>1, <2>3 DEF WellFormed, Single, Spare, NoPost
  <2> QED
    BY <2>1, <2>2, <2>3, <2>4, QuietMove
<1>3. ASSUME NEW p \in Posts, Count(p)
      PROVE  TablesInv'
  <2>1. posts[p].step = "count" /\ rows' = rows /\ TablesSame
    BY <1>3 DEF Count
  <2>2. p \in open /\ posts[p].symbol \in Symbols /\ Spare(posts[p]) = 0
    BY <1>1, <2>1, SlotFields, RequestFields
  <2>3. CASE Cardinality(rows) >= MaxRows
    <3>1. Moves(p, NoPost)
      BY <1>3, <2>3 DEF Count
    <3>2. WellFormed(NoPost) /\ NoPost.step = "none" /\ Spare(NoPost) = 0
      BY DEF WellFormed, NoPost, Spare
    <3> QED
      BY <2>1, <2>2, <3>1, <3>2, QuietMove
  <2>4. CASE ~(Cardinality(rows) >= MaxRows)
    <3>1. PICK q : q = Single("write", posts[p].symbol) /\ Moves(p, q)
      BY <1>3, <2>4 DEF Count
    <3>2. WellFormed(q) /\ q.step = "write" /\ Spare(q) = 0
      BY <2>2, <3>1 DEF WellFormed, Single, Spare
    <3>3. Cardinality(rows) \in Nat
      BY <1>1, FitsCounts
    <3>4. Cardinality(rows) + Spare(q) + 1 <= MaxRows
      BY <2>4, <3>2, <3>3
    <3> QED
      BY <2>1, <2>2, <3>1, <3>2, <3>4, CheckedMove
  <2> QED
    BY <2>3, <2>4
<1>4. ASSUME NEW p \in Posts, Write(p)
      PROVE  TablesInv'
  <2>1. /\ posts[p].step = "write" /\ Moves(p, NoPost) /\ TablesSame
        /\ rows' \in {rows, rows \union {posts[p].symbol}}
    BY <1>4 DEF Write
  <2>2. /\ p \in open /\ posts[p].symbol \in Symbols
        /\ posts[p].symbol \in Coming
    BY <1>1, <2>1, SlotFields, RequestFields DEF Coming, Arriving
  <2>3. IsFiniteSet(rows') /\ rows' \subseteq Symbols
    BY <1>1, <2>1, <2>2, FS_AddElement DEF TablesTypeOK
  <2>4. WellFormed(NoPost) /\ NoPost.step = "none" /\ Spare(NoPost) = 0
    BY DEF WellFormed, NoPost, Spare
  <2>5. /\ TablesTypeOK' /\ table' = table /\ open' = open
        /\ posts'[p] = NoPost /\ \A q \in Posts \ {p} : posts'[q] = posts[q]
    BY <1>1, <2>1, <2>2, <2>3, <2>4, SlotMoves
  <2>6. /\ Coming' = ComingOf(Posts \ {p})
        /\ Reserved' = ReservedOf(Posts \ {p}) \union
             {e \in {p} \X (1..Batch) : e[2] <= 0}
    <3>1. p \in Posts
      BY <1>4
    <3>2. /\ Coming' = ComingOf(Posts \ {p}) \union
               (IF NoPost.step \in {"write", "bulk_update"} THEN {NoPost.symbol} ELSE {})
          /\ Reserved' = ReservedOf(Posts \ {p}) \union
               {e \in {p} \X (1..Batch) : e[2] <= Spare(NoPost)}
      BY <2>5, <3>1, MoveCounts
    <3> QED
      BY <2>4, <3>2
  <2>7. Batch \in Nat
    BY <1>1, OpenIsFinite
  <2>8. Reserved' \subseteq Reserved
    BY <2>6, <2>7 DEF ReservedOf
  <2>9. (rows \union Coming)' \subseteq rows \union Coming
    BY <2>1, <2>2, <2>6 DEF ComingOf, Coming
  <2> QED
    BY <2>5, <2>8, <2>9, NothingNew DEF TablesInv
<1>5. CASE RemoveRows
  <2>1. rows' \in SUBSET rows /\ posts' = posts /\ TablesSame
    BY <1>5 DEF RemoveRows
  <2>2. IsFiniteSet(rows')
    BY <1>1, <2>1, FS_Subset DEF TablesTypeOK
  <2>3. TablesTypeOK' /\ table' = table /\ open' = open
    BY <1>1, <2>1, <2>2 DEF TablesTypeOK, TablesSame, WellFormed
  <2>4. (rows \union Coming)' \subseteq rows \union Coming /\ Reserved' \subseteq Reserved
    BY <2>1, <2>3 DEF Coming, Arriving, Reserved, Batch
  <2> QED
    BY <2>3, <2>4, NothingNew DEF TablesInv
<1>6. ASSUME NEW p \in Posts, BulkStart(p)
      PROVE  TablesInv'
  <2>1. /\ table = "portfolio" /\ p \in open /\ posts[p] = NoPost
        /\ rows' = rows /\ TablesSame
    BY <1>6 DEF BulkStart, Idle
  <2>2. Cardinality(rows) \in Nat
    BY <1>1, FitsCounts
  <2>3. PICK left \in SUBSET Symbols, room \in 0..MaxRows :
          /\ IsFiniteSet(left) /\ Cardinality(left) \in 1..MaxBulk
          /\ room = (IF Cardinality(rows) < MaxRows THEN MaxRows - Cardinality(rows) ELSE 0)
          /\ Moves(p, Bulk("bulk", left, room, "none"))
    BY <1>6, <2>2 DEF BulkStart
  <2>4. PICK q : q = Bulk("bulk", left, room, "none")
    OBVIOUS
  <2>5. /\ q.step = "bulk" /\ q.left = left /\ q.room = room
        /\ Spare(q) = Fewer(room, Cardinality(left))
    BY <2>4, BulkFields DEF Spare
  <2>6. WellFormed(q)
    BY <2>1, <2>3, <2>4 DEF WellFormed, BulkSteps
  <2>7. Spare(q) <= room /\ Spare(q) \in Nat
    BY <2>3, <2>5 DEF Fewer
  <2>8. CASE Cardinality(rows) < MaxRows
    <3>1. Cardinality(rows) + Spare(q) + 0 <= MaxRows
      BY <2>2, <2>3, <2>7, <2>8
    <3> QED
      BY <2>1, <2>3, <2>4, <2>5, <2>6, <3>1, CheckedMove
  <2>9. CASE ~(Cardinality(rows) < MaxRows)
    <3>1. Spare(q) = 0 /\ Spare(posts[p]) = 0
      BY <2>1, <2>3, <2>7, <2>9 DEF Spare, NoPost
    <3> QED
      BY <2>1, <2>3, <2>4, <2>5, <2>6, <3>1, QuietMove
  <2> QED
    BY <2>8, <2>9
<1>7. ASSUME NEW p \in Posts, BulkLook(p)
      PROVE  TablesInv'
  <2> DEFINE b == posts[p]
  <2>1. b.step = "bulk" /\ rows' = rows /\ TablesSame
    BY <1>7 DEF BulkLook
  <2>2. /\ p \in open /\ table = "portfolio" /\ b.left \in SUBSET Symbols
        /\ b.room \in 0..MaxRows /\ IsFiniteSet(b.left)
        /\ Cardinality(b.left) \in Nat /\ Cardinality(b.left) <= MaxBulk
    BY <1>1, <2>1, SlotFields, RequestFields DEF BulkSteps
  <2>3. PICK s \in b.left :
          Moves(p, IF s \in rows THEN Bulk("bulk_update", b.left \ {s}, b.room, s)
                   ELSE IF b.room > 0 THEN Bulk("bulk_create", b.left \ {s}, b.room, s)
                   ELSE Bulk("bulk", b.left \ {s}, b.room, "none"))
    BY <1>7 DEF BulkLook
  <2>4. PICK left \in SUBSET Symbols : left = b.left \ {s}
    BY <2>2
  <2>5. /\ IsFiniteSet(left) /\ Cardinality(left) \in Nat
        /\ Cardinality(left) = Cardinality(b.left) - 1
    BY <2>2, <2>3, <2>4, FS_RemoveElement, FS_CardinalityType
  <2>6. Spare(b) = Fewer(b.room, Cardinality(b.left))
    BY <2>1 DEF Spare
  <2>7. PICK step \in BulkSteps, t \in Symbols \union {"none"} :
          /\ Moves(p, Bulk(step, left, b.room, t))
          /\ step = "bulk_update" => t \in rows
          /\ step # "bulk" => t \in Symbols
          /\ step = "bulk_create" => b.room > 0
    BY <2>2, <2>3, <2>4 DEF BulkSteps
  <2>8. PICK q : q = Bulk(step, left, b.room, t)
    OBVIOUS
  <2>9. q.step = step /\ q.left = left /\ q.room = b.room /\ q.symbol = t
    BY <2>8, BulkFields
  <2>10. WellFormed(q)
    <3>1. Cardinality(left) <= (IF step = "bulk" THEN MaxBulk ELSE MaxBulk - 1)
      BY <2>2, <2>5
    <3> QED
      BY <2>2, <2>5, <2>7, <2>8, <3>1 DEF WellFormed
  <2>11. Spare(q) <= Spare(b)
    BY <2>2, <2>5, <2>6, <2>9 DEF Spare, Fewer, BulkSteps
  <2>12. q.step \notin {"write"} /\ (q.step = "bulk_update" => q.symbol \in rows)
    BY <2>7, <2>9 DEF BulkSteps
  <2> HIDE DEF b
  <2> QED
    BY <2>1, <2>2, <2>7, <2>8, <2>10, <2>11, <2>12, QuietMove DEF b
<1>8. ASSUME NEW p \in Posts, BulkWrite(p)
      PROVE  TablesInv'
  <2> DEFINE b == posts[p]
  <2>1. b.step \in {"bulk_update", "bulk_create"} /\ TablesSame
    BY <1>8 DEF BulkWrite
  <2>2. /\ p \in open /\ table = "portfolio" /\ b.left \in SUBSET Symbols
        /\ b.room \in 0..MaxRows /\ IsFiniteSet(b.left) /\ b.symbol \in Symbols
        /\ Cardinality(b.left) \in Nat /\ Cardinality(b.left) <= MaxBulk - 1
        /\ b.step = "bulk_create" => b.room > 0
        /\ Spare(b) \in Nat
    BY <1>1, <2>1, SlotFields, RequestFields DEF BulkSteps
  <2>3. CASE rows' = rows /\ Moves(p, Bulk("bulk", b.left, b.room, "none"))
    <3>1. PICK q : q = Bulk("bulk", b.left, b.room, "none")
      OBVIOUS
    <3>2. q.step = "bulk" /\ q.left = b.left /\ q.room = b.room
      BY <3>1, BulkFields
    <3>3. WellFormed(q)
      <4>1. Cardinality(b.left) <= MaxBulk
        BY <2>2
      <4> QED
        BY <2>2, <3>1, <4>1 DEF WellFormed, BulkSteps
    <3>4. Spare(q) <= Spare(b)
      BY <2>1, <2>2, <3>2 DEF Spare, Fewer
    <3> HIDE DEF b
    <3> QED
      BY <2>1, <2>2, <2>3, <3>1, <3>2, <3>3, <3>4, QuietMove DEF b
  <2>4. CASE /\ rows' = rows \union {b.symbol}
             /\ Moves(p, Bulk("bulk", b.left,
                              IF b.step = "bulk_create" THEN b.room - 1 ELSE b.room,
                              "none"))
    <3>1. PICK room \in 0..MaxRows :
            room = IF b.step = "bulk_create" THEN b.room - 1 ELSE b.room
      BY <2>2
    <3>2. PICK q : q = Bulk("bulk", b.left, room, "none")
      OBVIOUS
    <3>3. q.step = "bulk" /\ q.left = b.left /\ q.room = room
      BY <3>2, BulkFields
    <3>4. WellFormed(q)
      <4>1. Cardinality(b.left) <= MaxBulk
        BY <2>2
      <4> QED
        BY <2>2, <3>2, <4>1 DEF WellFormed, BulkSteps
    <3>5. Moves(p, q)
      BY <2>4, <3>1, <3>2
    <3>6. IsFiniteSet(rows') /\ rows' \subseteq Symbols
      BY <1>1, <2>2, <2>4, FS_AddElement DEF TablesTypeOK
    <3>7. /\ TablesTypeOK' /\ table' = table /\ open' = open
          /\ p \in Posts /\ posts'[p] = q
          /\ \A r \in Posts \ {p} : posts'[r] = posts[r]
      BY <1>1, <2>1, <2>2, <3>4, <3>5, <3>6, SlotMoves
    <3>8. /\ Coming' = ComingOf(Posts \ {p})
          /\ Reserved' = ReservedOf(Posts \ {p}) \union
               {e \in {p} \X (1..Batch) : e[2] <= Spare(q)}
      BY <3>3, <3>7, MoveCounts, ZenonT(40)
    <3>9. Batch \in Nat /\ Spare(q) \in Nat
      BY <1>1, <3>4, RequestFields
    \* A row that was there takes nothing of the room.
    <3>10. CASE b.step = "bulk_update"
      <4>1. b.symbol \in Coming
        BY <3>7, <3>10 DEF Coming, Arriving
      <4>2. (rows \union Coming)' \subseteq rows \union Coming
        BY <2>4, <3>8, <4>1 DEF ComingOf, Coming
      <4>3. Spare(q) = Spare(b)
        BY <3>1, <3>3, <3>10 DEF Spare
      <4>4. Reserved' \subseteq Reserved
        BY <3>7, <3>8, <4>3 DEF ReservedOf, Reserved
      <4> QED
        BY <3>7, <4>2, <4>4, NothingNew DEF TablesInv
    \* A new row takes the place it was reserved.
    <3>11. CASE b.step = "bulk_create"
      <4>1. Spare(b) = Spare(q) + 1 /\ Spare(b) \in 1..Batch
        <5>1. Spare(b) = Fewer(b.room, Cardinality(b.left) + 1)
          BY <3>11 DEF Spare
        <5>2. Spare(q) = Fewer(b.room - 1, Cardinality(b.left))
          BY <3>1, <3>3, <3>11 DEF Spare
        <5>3. Spare(b) <= Batch
          BY <1>1, <3>7, SlotFields, RequestFields
        <5> QED
          BY <2>2, <3>9, <3>11, <5>1, <5>2, <5>3 DEF Fewer
      <4>2. PICK taken \in Reserved : taken = <<p, Spare(b)>>
        <5>1. <<p, Spare(b)>> \in Posts \X (1..Batch)
          BY <3>7, <4>1
        <5> QED
          BY <2>2, <5>1 DEF Reserved
      <4>3. Reserved' \subseteq Reserved \ {taken}
        <5> SUFFICES ASSUME NEW e \in Reserved' PROVE e \in Reserved /\ e # taken
          OBVIOUS
        <5>1. CASE e \in ReservedOf(Posts \ {p})
          BY <4>2, <5>1 DEF ReservedOf
        <5>2. CASE e \in {p} \X (1..Batch) /\ e[2] <= Spare(q)
          <6>1. e[1] = p /\ e[2] \in 1..Batch /\ e[2] <= Spare(b) /\ e[2] # Spare(b)
            BY <2>2, <3>9, <4>1, <5>2
          <6> QED
            BY <3>7, <4>2, <5>2, <6>1 DEF Reserved
        <5> QED
          BY <3>8, <5>1, <5>2
      <4>4. (rows \union Coming)' \subseteq (rows \union Coming) \union {b.symbol}
        BY <2>4, <3>8 DEF ComingOf, Coming
      <4>5. /\ IsFiniteSet(rows \union Coming) /\ IsFiniteSet(Reserved)
            /\ Cardinality(rows \union Coming) \in Nat /\ Cardinality(Reserved) \in Nat
        BY <1>1, FitsCounts
      <4>6. /\ Cardinality(Reserved') <= Cardinality(Reserved) - 1
            /\ Cardinality(Reserved') \in Nat
        <5>1. /\ IsFiniteSet(Reserved \ {taken})
              /\ Cardinality(Reserved \ {taken}) = Cardinality(Reserved) - 1
          BY <4>5, <4>2, FS_RemoveElement
        <5> QED
          BY <4>3, <5>1, FS_Subset, FS_CardinalityType
      <4>7. /\ Cardinality((rows \union Coming)') <= Cardinality(rows \union Coming) + 1
            /\ Cardinality((rows \union Coming)') \in Nat
        <5> DEFINE K == rows \union Coming
                   K2 == K \union {b.symbol}
        <5>1. IsFiniteSet({b.symbol}) /\ Cardinality({b.symbol}) = 1
          BY FS_Singleton
        <5>2. IsFiniteSet(K2) /\ Cardinality(K2) \in Nat
              /\ Cardinality(K2) <= Cardinality(K) + 1
          BY <4>5, <5>1, SmallUnion
        <5>3. (rows \union Coming)' \in SUBSET K2
          BY <4>4
        <5> HIDE DEF K2
        <5>4. /\ Cardinality((rows \union Coming)') <= Cardinality(K2)
              /\ Cardinality((rows \union Coming)') \in Nat
          BY <5>2, <5>3, FS_Subset, FS_CardinalityType
        <5> QED
          BY <4>5, <5>2, <5>4
      <4>8. Allowed' = Allowed /\ Allowed \in Nat
        BY <1>1, <3>7, OpenIsFinite DEF Allowed, Batch
      <4>9. Fits'
        BY <1>1, <4>5, <4>6, <4>7, <4>8 DEF Fits
      <4> QED
        BY <3>7, <4>9 DEF TablesInv
    <3> QED
      BY <2>1, <3>10, <3>11
  <2> QED
    BY <1>8, <2>3, <2>4 DEF BulkWrite
<1>9. ASSUME NEW p \in Posts, BulkEnds(p)
      PROVE  TablesInv'
  <2>1. posts[p].step = "bulk" /\ Moves(p, NoPost) /\ rows' = rows /\ TablesSame
    BY <1>9 DEF BulkEnds
  <2>2. p \in open /\ Spare(posts[p]) \in Nat
    BY <1>1, <2>1, SlotFields, RequestFields
  <2>3. WellFormed(NoPost) /\ NoPost.step = "none" /\ Spare(NoPost) = 0
    BY DEF WellFormed, NoPost, Spare
  <2>4. Spare(NoPost) <= Spare(posts[p])
    BY <2>2, <2>3
  <2> QED
    BY <2>1, <2>2, <2>3, <2>4, QuietMove
<1>10. CASE UNCHANGED tablesVars
  <2>1. table' = table /\ open' = open /\ rows' = rows /\ posts' = posts
    BY <1>10 DEF tablesVars
  <2>2. TablesTypeOK'
    BY <1>1, <2>1 DEF TablesTypeOK, WellFormed
  <2>3. (rows \union Coming)' \subseteq rows \union Coming /\ Reserved' \subseteq Reserved
    BY <2>1 DEF Coming, Arriving, Reserved, Batch
  <2> QED
    BY <2>1, <2>2, <2>3, NothingNew DEF TablesInv
<1> QED
  BY <1>2, <1>3, <1>4, <1>5, <1>6, <1>7, <1>8, <1>9, <1>10 DEF TablesNext

\* A table of the user exceeds its limit by at most what the requests beside one
\* another may write, bulk imports included, however long they go on.
THEOREM LimitsHold == TablesSpec => []QuotaHolds
<1>1. TablesInv => QuotaHolds
  <2> SUFFICES ASSUME TablesInv PROVE QuotaHolds
    OBVIOUS
  <2>1. /\ Cardinality(rows \union Coming) \in Nat
        /\ Cardinality(Reserved) \in Nat /\ Cardinality(rows) \in Nat
        /\ Cardinality(rows) <= Cardinality(rows \union Coming)
        /\ Allowed \in Nat
    BY FitsCounts, OpenIsFinite DEF TablesInv
  <2>2. Cardinality(rows) <= MaxRows + Allowed
    BY <2>1, TablesAssumption DEF TablesInv, Fits
  <2> QED
    BY <2>2 DEF QuotaHolds, Allowed
<1> QED
  BY <1>1, TablesInitInv, TablesStepInv, PTL DEF TablesSpec

-----------------------------------------------------------------------------
(* The alerts of the routes                                                *)

SyncRecords ==
  {NoSync} \union [step : {"find"}, due : SUBSET Pairs, since : Int]
           \union [step : {"create"}, due : SUBSET Pairs, since : Int, pair : Pairs]

\* The active alerts of the day, and the evaluations about to create one.
Today(p) == {x \in Rows : Active(x, p) /\ alerts[x].createdAt >= clock - Day}
Pending(p) == {s \in Syncs : syncs[s].step = "create" /\ syncs[s].pair = p}

AlertsTypeOK ==
  /\ routes \subseteq Routes /\ clock \in Nat
  /\ alerts \in [Rows -> {NoRow} \union
                   [route : Routes, type : Types, createdAt : Nat, dismissed : BOOLEAN]]
  /\ syncs \in [Syncs -> SyncRecords]

\* No evaluation looks at less than the last day.
LooksBackADay ==
  \A s \in Syncs : syncs[s].step \in {"find", "create"} => syncs[s].since <= clock - Day

DayFits(p) ==
  /\ IsFiniteSet(Today(p))
  /\ Cardinality(Today(p)) + Cardinality(Pending(p)) <= Cardinality(Syncs)

AlertsInv == AlertsTypeOK /\ LooksBackADay /\ \A p \in Pairs : DayFits(p)

LEMMA SyncFields ==
  ASSUME AlertsTypeOK, NEW s \in Syncs
  PROVE  /\ syncs[s].step \in {"none", "find", "create"}
         /\ syncs[s].step \in {"find", "create"} =>
              syncs[s].due \in SUBSET Pairs /\ syncs[s].since \in Int
         /\ syncs[s].step = "create" => syncs[s].pair \in Pairs
<1>1. syncs[s] \in SyncRecords
  BY DEF AlertsTypeOK
<1>2. CASE syncs[s] = NoSync
  BY <1>2 DEF NoSync
<1>3. CASE syncs[s] # NoSync
  BY <1>1, <1>3 DEF SyncRecords
<1> QED
  BY <1>2, <1>3

LEMMA PendingIsFinite ==
  \A p : /\ IsFiniteSet(Pending(p)) /\ Cardinality(Pending(p)) \in Nat
         /\ Cardinality(Pending(p)) <= Cardinality(Syncs) /\ Cardinality(Syncs) \in Nat
<1> TAKE p
<1>1. Pending(p) \in SUBSET Syncs
  BY DEF Pending
<1>2. IsFiniteSet(Pending(p)) /\ Cardinality(Pending(p)) <= Cardinality(Syncs)
  BY <1>1, AlertsAssumption, FS_Subset
<1> QED
  BY <1>2, AlertsAssumption, FS_CardinalityType

LEMMA AlertsInitInv == AlertsInit => AlertsInv
<1> SUFFICES ASSUME AlertsInit PROVE AlertsInv
  OBVIOUS
<1>1. AlertsTypeOK
  <2>1. routes \subseteq Routes /\ clock \in Nat
    BY AlertsAssumption DEF AlertsInit
  <2>2. alerts \in [Rows -> {NoRow} \union
                   [route : Routes, type : Types, createdAt : Nat, dismissed : BOOLEAN]]
    BY DEF AlertsInit
  <2>3. syncs \in [Syncs -> SyncRecords]
    BY DEF AlertsInit, SyncRecords
  <2> QED
    BY <2>1, <2>2, <2>3 DEF AlertsTypeOK
<1>2. LooksBackADay
  BY DEF AlertsInit, LooksBackADay, NoSync
<1>3. ASSUME NEW p \in Pairs PROVE DayFits(p)
  <2>1. Today(p) = {} /\ Pending(p) = {}
    BY DEF AlertsInit, Today, Pending, Active, Used, NoSync
  <2> QED
    BY <2>1, PendingIsFinite, FS_EmptySet DEF DayFits
<1> QED
  BY <1>1, <1>2, <1>3 DEF AlertsInv

\* With no more alerts and no more to come than before, the day is as it was.
LEMMA DayShrinks ==
  ASSUME NEW p, DayFits(p), Today(p)' \subseteq Today(p), Pending(p)' \subseteq Pending(p)
  PROVE  DayFits(p)'
<1>1. /\ IsFiniteSet(Today(p)') /\ Cardinality(Today(p)') <= Cardinality(Today(p))
      /\ IsFiniteSet(Pending(p)') /\ Cardinality(Pending(p)') <= Cardinality(Pending(p))
  BY PendingIsFinite, FS_Subset DEF DayFits
<1>2. /\ Cardinality(Today(p)) \in Nat /\ Cardinality(Today(p)') \in Nat
      /\ Cardinality(Pending(p)') \in Nat
  BY <1>1, FS_CardinalityType DEF DayFits
<1> QED
  BY <1>1, <1>2, PendingIsFinite DEF DayFits

\* A step of an evaluation that leaves the alerts alone and is not about to
\* create anything keeps the day.
LEMMA SyncMoves ==
  ASSUME AlertsInv, NEW s \in Syncs, NEW r \in SyncRecords, r.step # "create",
         r.step = "find" => r.since <= clock - Day,
         syncs' = [syncs EXCEPT ![s] = r], UNCHANGED <<routes, alerts, clock>>
  PROVE  AlertsInv'
<1>1. AlertsTypeOK'
  BY DEF AlertsInv, AlertsTypeOK
<1>2. \A u \in Syncs : syncs'[u] = IF u = s THEN r ELSE syncs[u]
  BY DEF AlertsInv, AlertsTypeOK
<1>3. LooksBackADay'
  BY <1>2 DEF AlertsInv, LooksBackADay
<1>4. ASSUME NEW p \in Pairs PROVE DayFits(p)'
  <2>1. Today(p)' = Today(p)
    BY DEF Today, Active, Used
  <2>2. Pending(p)' \subseteq Pending(p)
    BY <1>2 DEF Pending
  <2> QED
    BY <2>1, <2>2, DayShrinks DEF AlertsInv
<1> QED
  BY <1>1, <1>3, <1>4 DEF AlertsInv

\* A step of one evaluation leaves every other pair of the day alone.
LEMMA OtherPairs ==
  ASSUME AlertsInv, NEW s \in Syncs, NEW r, syncs' = [syncs EXCEPT ![s] = r],
         NEW p \in Pairs, r.step = "create" => r.pair # p,
         Today(p)' \subseteq Today(p)
  PROVE  DayFits(p)'
<1>1. \A u \in Syncs : syncs'[u] = IF u = s THEN r ELSE syncs[u]
  BY DEF AlertsInv, AlertsTypeOK
<1>2. Pending(p)' \subseteq Pending(p)
  BY <1>1 DEF Pending
<1> QED
  BY <1>2, DayShrinks DEF AlertsInv

LEMMA FindInv ==
  ASSUME AlertsInv, NEW s \in Syncs, Find(s)
  PROVE  AlertsInv'
<1>1. syncs[s].step = "find" /\ UNCHANGED <<routes, alerts, clock>>
  BY DEF Find
<1>2. syncs[s].due \in SUBSET Pairs /\ syncs[s].since \in Int
  BY <1>1, SyncFields DEF AlertsInv
<1>3. syncs[s].since <= clock - Day
  BY <1>1 DEF AlertsInv, LooksBackADay
<1>4. syncs[s] \in [step : {"find"}, due : SUBSET Pairs, since : Int]
  <2>1. syncs[s] \in SyncRecords
    BY DEF AlertsInv, AlertsTypeOK
  <2>2. syncs[s] # NoSync
    BY <1>1 DEF NoSync
  <2> QED
    BY <1>1, <2>1, <2>2 DEF SyncRecords
<1>5. PICK p \in syncs[s].due :
        syncs' = [syncs EXCEPT ![s] =
          IF \E x \in Rows : Active(x, p) /\ alerts[x].createdAt >= syncs[s].since
          THEN [syncs[s] EXCEPT !.due = syncs[s].due \ {p}]
          ELSE [step |-> "create", due |-> syncs[s].due \ {p},
                since |-> syncs[s].since, pair |-> p]]
  BY DEF Find
<1>6. p \in Pairs /\ syncs[s].due \ {p} \in SUBSET Pairs
  BY <1>2
<1>7. CASE \E x \in Rows : Active(x, p) /\ alerts[x].createdAt >= syncs[s].since
  <2> DEFINE r == [syncs[s] EXCEPT !.due = syncs[s].due \ {p}]
  <2>1. syncs' = [syncs EXCEPT ![s] = r]
    BY <1>5, <1>7
  <2>2. /\ r \in [step : {"find"}, due : SUBSET Pairs, since : Int]
        /\ r.step = "find" /\ r.since = syncs[s].since
    BY <1>4, <1>6
  <2>3. r \in SyncRecords
    BY <2>2 DEF SyncRecords
  <2> HIDE DEF r
  <2> QED
    BY <1>1, <1>3, <2>1, <2>2, <2>3, SyncMoves
<1>8. CASE ~\E x \in Rows : Active(x, p) /\ alerts[x].createdAt >= syncs[s].since
  <2> DEFINE r == [step |-> "create", due |-> syncs[s].due \ {p},
                   since |-> syncs[s].since, pair |-> p]
  <2>1. syncs' = [syncs EXCEPT ![s] = r]
    BY <1>5, <1>8
  <2>2. /\ r \in [step : {"create"}, due : SUBSET Pairs, since : Int, pair : Pairs]
        /\ r.since = syncs[s].since /\ r.pair = p
    BY <1>2, <1>6
  <2>3. r \in SyncRecords
    BY <2>2 DEF SyncRecords
  <2> HIDE DEF r
  <2>4. AlertsTypeOK'
    BY <1>1, <2>1, <2>3 DEF AlertsInv, AlertsTypeOK
  <2>5. \A u \in Syncs : syncs'[u] = IF u = s THEN r ELSE syncs[u]
    BY <2>1 DEF AlertsInv, AlertsTypeOK
  <2>6. LooksBackADay'
    BY <1>1, <1>3, <2>2, <2>5 DEF AlertsInv, LooksBackADay
  <2>7. \A q \in Pairs : Today(q)' = Today(q)
    BY <1>1 DEF Today, Active, Used
  <2>8. Today(p) = {}
    <3> SUFFICES ASSUME NEW x \in Rows, Active(x, p), alerts[x].createdAt >= clock - Day
                 PROVE  FALSE
      BY DEF Today
    <3>1. alerts[x] \in [route : Routes, type : Types, createdAt : Nat, dismissed : BOOLEAN]
      BY DEF Active, Used, AlertsInv, AlertsTypeOK
    <3>2. alerts[x].createdAt \in Nat
      BY <3>1
    <3>3. clock \in Nat /\ Day \in Nat
      BY AlertsAssumption DEF AlertsInv, AlertsTypeOK
    <3>4. alerts[x].createdAt >= syncs[s].since
      BY <1>2, <1>3, <3>2, <3>3
    <3> QED
      BY <1>8, <3>4
  <2>9. DayFits(p)'
    <3>1. Today(p)' = {}
      BY <1>6, <2>7, <2>8
    <3>2. IsFiniteSet(Today(p)') /\ Cardinality(Today(p)') = 0
      BY <3>1, FS_EmptySet
    <3>3. Cardinality(Pending(p)') \in Nat /\ Cardinality(Pending(p)') <= Cardinality(Syncs)
      <4>1. Pending(p)' \in SUBSET Syncs
        BY DEF Pending
      <4>2. IsFiniteSet(Pending(p)') /\ Cardinality(Pending(p)') <= Cardinality(Syncs)
        BY <4>1, AlertsAssumption, FS_Subset
      <4> QED
        BY <4>2, FS_CardinalityType
    <3> QED
      BY <3>2, <3>3, PendingIsFinite DEF DayFits
  <2>10. ASSUME NEW q \in Pairs, q # p PROVE DayFits(q)'
    BY <2>1, <2>2, <2>7, <2>10, OtherPairs
  <2> QED
    BY <2>4, <2>6, <2>9, <2>10 DEF AlertsInv
<1> QED
  BY <1>7, <1>8

LEMMA CreateInv ==
  ASSUME AlertsInv, NEW s \in Syncs, Create(s)
  PROVE  AlertsInv'
<1>1. syncs[s].step = "create" /\ UNCHANGED <<routes, clock>>
  BY DEF Create
<1>p. PICK p \in Pairs : p = syncs[s].pair
  BY <1>1, SyncFields DEF AlertsInv
<1>2. syncs[s].due \in SUBSET Pairs /\ syncs[s].since \in Int
  BY <1>1, SyncFields DEF AlertsInv
<1>3. syncs[s].since <= clock - Day
  BY <1>1 DEF AlertsInv, LooksBackADay
<1>4. CASE syncs' = [syncs EXCEPT ![s] = NoSync] /\ UNCHANGED alerts
  <2>1. NoSync \in SyncRecords /\ NoSync.step = "none"
    BY DEF SyncRecords, NoSync
  <2> QED
    BY <1>1, <1>4, <2>1, SyncMoves
<1>5. CASE /\ p[1] \in routes
           /\ Used # Rows
           /\ alerts' = [alerts EXCEPT ![CHOOSE x \in Rows : x \notin Used]
                           = Row(p[1], p[2])]
           /\ syncs' = [syncs EXCEPT ![s] = [step |-> "find", due |-> syncs[s].due,
                                             since |-> syncs[s].since]]
  <2> DEFINE r == [step |-> "find", due |-> syncs[s].due, since |-> syncs[s].since]
             x == CHOOSE y \in Rows : y \notin Used
             row == Row(p[1], p[2])
  <2>1. /\ r \in [step : {"find"}, due : SUBSET Pairs, since : Int]
        /\ r.step = "find" /\ r.since = syncs[s].since
    BY <1>2
  <2>2. r \in SyncRecords
    BY <2>1 DEF SyncRecords
  <2>3. x \in Rows
    BY <1>5 DEF Used
  <2>4. p[1] \in Routes /\ p[2] \in Types
    BY DEF Pairs
  <2>5. /\ row \in [route : Routes, type : Types, createdAt : Nat, dismissed : BOOLEAN]
        /\ row.route = p[1] /\ row.type = p[2]
    BY <2>4 DEF Row, AlertsInv, AlertsTypeOK
  <2>6. syncs' = [syncs EXCEPT ![s] = r] /\ alerts' = [alerts EXCEPT ![x] = row]
    BY <1>5
  <2> HIDE DEF r, x, row
  <2>7. AlertsTypeOK'
    <3>1. alerts' \in [Rows -> {NoRow} \union
                   [route : Routes, type : Types, createdAt : Nat, dismissed : BOOLEAN]]
      BY <2>3, <2>5, <2>6 DEF AlertsInv, AlertsTypeOK
    <3>2. syncs' \in [Syncs -> SyncRecords]
      BY <2>2, <2>6 DEF AlertsInv, AlertsTypeOK
    <3> QED
      BY <1>1, <3>1, <3>2 DEF AlertsInv, AlertsTypeOK
  <2>8. \A u \in Syncs : syncs'[u] = IF u = s THEN r ELSE syncs[u]
    BY <2>6 DEF AlertsInv, AlertsTypeOK
  <2>9. LooksBackADay'
    BY <1>1, <1>3, <2>1, <2>8 DEF AlertsInv, LooksBackADay
  <2>10. \A y \in Rows : alerts'[y] = IF y = x THEN row ELSE alerts[y]
    BY <2>6 DEF AlertsInv, AlertsTypeOK
  <2>11. ASSUME NEW q \in Pairs, q # p PROVE DayFits(q)'
    <3>1. q[1] # p[1] \/ q[2] # p[2]
      BY <2>11 DEF Pairs
    <3>2. Today(q)' \subseteq Today(q)
      BY <1>1, <2>5, <2>10, <3>1 DEF Today, Active, Used
    <3> QED
      BY <2>1, <2>6, <3>2, OtherPairs
  <2>12. DayFits(p)'
    <3>1. Today(p)' \subseteq Today(p) \union {x}
      BY <1>1, <2>10 DEF Today, Active, Used
    <3>2. /\ IsFiniteSet(Today(p)) /\ Cardinality(Today(p)) \in Nat
          /\ Cardinality(Today(p)) + Cardinality(Pending(p)) <= Cardinality(Syncs)
      BY FS_CardinalityType DEF AlertsInv, DayFits
    <3>3. /\ IsFiniteSet(Today(p) \union {x})
          /\ Cardinality(Today(p) \union {x}) <= Cardinality(Today(p)) + 1
      BY <3>2, FS_AddElement
    <3>4. /\ IsFiniteSet(Today(p)')
          /\ Cardinality(Today(p)') <= Cardinality(Today(p) \union {x})
      BY <3>1, <3>3, FS_Subset
    <3>5. Cardinality(Today(p)') \in Nat /\ Cardinality(Today(p) \union {x}) \in Nat
      BY <3>3, <3>4, FS_CardinalityType
    <3>6. {u \in Syncs : syncs'[u].step = "create" /\ syncs'[u].pair = p} = Pending(p) \ {s}
      BY <2>1, <2>8 DEF Pending
    <3>7. s \in Pending(p)
      BY <1>1, <1>p DEF Pending
    <3>8. /\ Cardinality(Pending(p) \ {s}) = Cardinality(Pending(p)) - 1
          /\ Cardinality(Pending(p)) \in Nat /\ Cardinality(Syncs) \in Nat
      BY <3>7, PendingIsFinite, FS_RemoveElement
    <3>9. Cardinality(Pending(p)') = Cardinality(Pending(p)) - 1
      BY <3>6, <3>8 DEF Pending
    <3>10. Cardinality(Today(p)') + Cardinality(Pending(p)') <= Cardinality(Syncs)
      BY <3>2, <3>3, <3>4, <3>5, <3>8, <3>9
    <3> QED
      BY <3>4, <3>10 DEF DayFits
  <2> QED
    BY <2>7, <2>9, <2>11, <2>12 DEF AlertsInv
<1> QED
  BY <1>p, <1>4, <1>5 DEF Create

\* A step of the user or of the clock.
LEMMA DayGoesOn ==
  ASSUME AlertsInv, AlertsTypeOK', LooksBackADay', syncs' = syncs,
         \A p \in Pairs : Today(p)' \subseteq Today(p)
  PROVE  AlertsInv'
<1>1. \A p \in Pairs : Pending(p)' = Pending(p)
  BY DEF Pending
<1> QED
  BY <1>1, DayShrinks DEF AlertsInv

LEMMA AlertsStepInv == AlertsInv /\ [AlertsNext]_alertsVars => AlertsInv'
<1> SUFFICES ASSUME AlertsInv, [AlertsNext]_alertsVars PROVE AlertsInv'
  OBVIOUS
<1>1. AlertsTypeOK /\ LooksBackADay /\ clock \in Nat /\ Day \in Nat
  BY AlertsAssumption DEF AlertsInv, AlertsTypeOK
<1>2. CASE SaveRoute
  <2>1. UNCHANGED <<alerts, syncs, clock>> /\ routes' \subseteq Routes
    BY <1>1, <1>2 DEF SaveRoute, AlertsTypeOK
  <2>2. AlertsTypeOK' /\ LooksBackADay'
    BY <1>1, <2>1 DEF AlertsTypeOK, LooksBackADay
  <2>3. \A p \in Pairs : Today(p)' = Today(p)
    BY <2>1 DEF Today, Active, Used
  <2> QED
    BY <2>1, <2>2, <2>3, DayGoesOn
<1>3. CASE DeleteRoute
  <2>1. PICK r \in routes :
          /\ routes' = routes \ {r}
          /\ alerts' = [x \in Rows |-> IF x \in Used /\ alerts[x].route = r THEN NoRow
                                                                          ELSE alerts[x]]
    BY <1>3 DEF DeleteRoute
  <2>2. UNCHANGED <<syncs, clock>>
    BY <1>3 DEF DeleteRoute
  <2>3. \A x \in Rows : alerts'[x] \in {NoRow, alerts[x]}
    BY <2>1
  <2>4. AlertsTypeOK' /\ LooksBackADay'
    BY <1>1, <2>1, <2>2, <2>3 DEF AlertsTypeOK, LooksBackADay
  <2>5. \A p \in Pairs : Today(p)' \subseteq Today(p)
    BY <2>2, <2>3 DEF Today, Active, Used
  <2> QED
    BY <2>2, <2>4, <2>5, DayGoesOn
<1>4. CASE Dismiss
  <2>1. PICK x \in Used : alerts' = [alerts EXCEPT ![x].dismissed = TRUE]
    BY <1>4 DEF Dismiss
  <2>2. UNCHANGED <<routes, syncs, clock>>
    BY <1>4 DEF Dismiss
  <2>3. /\ x \in Rows
        /\ alerts[x] \in [route : Routes, type : Types, createdAt : Nat, dismissed : BOOLEAN]
    BY <1>1 DEF Used, AlertsTypeOK
  <2>4. /\ alerts'[x] \in [route : Routes, type : Types, createdAt : Nat,
                           dismissed : BOOLEAN]
        /\ alerts'[x].dismissed
        /\ \A y \in Rows \ {x} : alerts'[y] = alerts[y]
        /\ alerts' = [y \in Rows |-> alerts'[y]]
    BY <1>1, <2>1, <2>3 DEF AlertsTypeOK
  <2>5. AlertsTypeOK' /\ LooksBackADay'
    BY <1>1, <2>2, <2>4 DEF AlertsTypeOK, LooksBackADay
  <2>6. \A p \in Pairs : Today(p)' \subseteq Today(p)
    BY <2>2, <2>4 DEF Today, Active, Used
  <2> QED
    BY <2>2, <2>5, <2>6, DayGoesOn
<1>5. CASE Tick
  <2>1. clock' = clock + 1 /\ UNCHANGED <<routes, alerts, syncs>>
    BY <1>5 DEF Tick
  <2>2. AlertsTypeOK'
    BY <1>1, <2>1 DEF AlertsTypeOK
  <2>3. LooksBackADay'
    <3> SUFFICES ASSUME NEW s \in Syncs, syncs[s].step \in {"find", "create"}
                 PROVE  syncs[s].since <= clock' - Day
      BY <2>1 DEF LooksBackADay
    <3>1. syncs[s].since \in Int /\ syncs[s].since <= clock - Day
      BY <1>1, SyncFields DEF LooksBackADay
    <3> QED
      BY <1>1, <2>1, <3>1
  <2>4. ASSUME NEW p \in Pairs PROVE Today(p)' \subseteq Today(p)
    <3> SUFFICES ASSUME NEW x \in Rows, Active(x, p), alerts[x].createdAt >= clock' - Day
                 PROVE  alerts[x].createdAt >= clock - Day
      BY <2>1 DEF Today, Active, Used
    <3>1. alerts[x] \in [route : Routes, type : Types, createdAt : Nat, dismissed : BOOLEAN]
      BY <1>1 DEF Active, Used, AlertsTypeOK
    <3>2. alerts[x].createdAt \in Nat
      BY <3>1
    <3> QED
      BY <1>1, <2>1, <3>2
  <2> QED
    BY <2>1, <2>2, <2>3, <2>4, DayGoesOn
<1>6. ASSUME NEW s \in Syncs, Evaluate(s) PROVE AlertsInv'
  <2>1. PICK due \in SUBSET (routes \X Types) :
          syncs' = [syncs EXCEPT ![s] = [step |-> "find", due |-> due,
                                         since |-> clock - Day]]
    BY <1>6 DEF Evaluate
  <2> DEFINE r == [step |-> "find", due |-> due, since |-> clock - Day]
  <2>2. due \in SUBSET Pairs
    BY <1>1 DEF AlertsTypeOK, Pairs
  <2>3. r \in [step : {"find"}, due : SUBSET Pairs, since : Int]
    BY <1>1, <2>2
  <2>4. r \in SyncRecords /\ r.step = "find" /\ r.since <= clock - Day
    BY <1>1, <2>3 DEF SyncRecords
  <2>5. syncs' = [syncs EXCEPT ![s] = r] /\ UNCHANGED <<routes, alerts, clock>>
    BY <1>6, <2>1 DEF Evaluate
  <2> HIDE DEF r
  <2> QED
    BY <2>4, <2>5, SyncMoves
<1>7. ASSUME NEW s \in Syncs, SyncEnds(s) PROVE AlertsInv'
  <2>1. NoSync \in SyncRecords /\ NoSync.step = "none"
    BY DEF SyncRecords, NoSync
  <2> QED
    BY <1>7, <2>1, SyncMoves DEF SyncEnds
<1>8. CASE UNCHANGED alertsVars
  <2>1. UNCHANGED <<routes, alerts, syncs, clock>>
    BY <1>8 DEF alertsVars
  <2>2. AlertsTypeOK' /\ LooksBackADay'
    BY <1>1, <2>1 DEF AlertsTypeOK, LooksBackADay
  <2>3. \A p \in Pairs : Today(p)' = Today(p)
    BY <2>1 DEF Today, Active, Used
  <2> QED
    BY <2>1, <2>2, <2>3, DayGoesOn
<1> QED
  BY <1>2, <1>3, <1>4, <1>5, <1>6, <1>7, <1>8, FindInv, CreateInv DEF AlertsNext

\* The alerts and the evaluations in progress are what the steps take them for.
THEOREM AlertsTypeCorrect == AlertsSpec => []AlertsTypeOK
<1>1. AlertsInv => AlertsTypeOK
  BY DEF AlertsInv
<1> QED
  BY <1>1, AlertsInitInv, AlertsStepInv, PTL DEF AlertsSpec

\* Of one route and type, a day brings no more active alerts than evaluations
\* run at a time.
THEOREM DailyAlerts == AlertsSpec => []AlertsAreDaily
<1>1. AlertsInv => AlertsAreDaily
  <2> SUFFICES ASSUME AlertsInv, NEW p \in Pairs
               PROVE  Cardinality(Today(p)) <= Cardinality(Syncs)
    BY DEF AlertsAreDaily, Today
  <2>1. /\ IsFiniteSet(Today(p))
        /\ Cardinality(Today(p)) + Cardinality(Pending(p)) <= Cardinality(Syncs)
    BY DEF AlertsInv, DayFits
  <2>2. Cardinality(Today(p)) \in Nat
    BY <2>1, FS_CardinalityType
  <2> QED
    BY <2>1, <2>2, PendingIsFinite
<1> QED
  BY <1>1, AlertsInitInv, AlertsStepInv, PTL DEF AlertsSpec

-----------------------------------------------------------------------------
(* The page of the alert rules                                             *)

WellSent(x) ==
  \/ x = NoSend
  \/ \E c : x \in [step : {"sent"}, change : {c}, alone : BOOLEAN]
  \/ x \in [step : {"stored"}, alone : BOOLEAN]
  \/ \E r : /\ DOMAIN r = Rules
            /\ x \in [step : {"answered"}, rules : {r}, alone : BOOLEAN]

ShowsStored == \A p \in Rules \ edited : drafts[p] = Effective(stored)[p]

\* A request that left alone and was not joined since is alone in flight; the
\* rules it is answered are those in effect; and while nothing that is in flight
\* has reached the store, the page shows what is stored.
RulesInv ==
  /\ DOMAIN drafts = Rules /\ DOMAIN sends = Sends
  /\ \A s \in Sends : WellSent(sends[s])
  /\ \A s \in InFlight : sends[s].alone =>
       /\ InFlight = {s}
       /\ sends[s].step = "answered" => sends[s].rules = Effective(stored)
  /\ ~crossed /\ (\A s \in InFlight : sends[s].step = "sent") => ShowsStored

LEMMA SentFields ==
  ASSUME NEW x, WellSent(x)
  PROVE  /\ x.step \in {"none", "sent", "stored", "answered"}
         /\ x = NoSend <=> x.step = "none"
         /\ x # NoSend => x.alone \in BOOLEAN
         /\ x.step = "answered" => DOMAIN x.rules = Rules
BY DEF WellSent, NoSend

\* A request that is joined is not alone any more, and is the same otherwise.
LEMMA JoinedFields ==
  ASSUME NEW x, WellSent(x), x # NoSend,
         NEW y, y = [x EXCEPT !.alone = FALSE]
  PROVE  WellSent(y) /\ y.step = x.step /\ ~y.alone /\ y # NoSend
<1>1. ASSUME NEW c, x \in [step : {"sent"}, change : {c}, alone : BOOLEAN]
      PROVE  /\ y \in [step : {"sent"}, change : {c}, alone : BOOLEAN]
             /\ y.step = "sent" /\ x.step = "sent" /\ ~y.alone
  BY <1>1
<1>2. ASSUME x \in [step : {"stored"}, alone : BOOLEAN]
      PROVE  /\ y \in [step : {"stored"}, alone : BOOLEAN]
             /\ y.step = "stored" /\ x.step = "stored" /\ ~y.alone
  BY <1>2
<1>3. ASSUME NEW r, x \in [step : {"answered"}, rules : {r}, alone : BOOLEAN]
      PROVE  /\ y \in [step : {"answered"}, rules : {r}, alone : BOOLEAN]
             /\ y.step = "answered" /\ x.step = "answered" /\ ~y.alone
  BY <1>3
<1>4. WellSent(y) /\ y.step = x.step /\ ~y.alone
        /\ y.step \in {"sent", "stored", "answered"}
  BY <1>1, <1>2, <1>3 DEF WellSent
<1> QED
  BY <1>4 DEF NoSend

LEMMA RulesInitInv == RulesInit => RulesInv
<1> SUFFICES ASSUME RulesInit PROVE RulesInv
  OBVIOUS
<1>1. /\ sends = [s \in Sends |-> NoSend] /\ edited = {}
      /\ \E found \in Found : drafts = Effective(found) /\ crossed = (found # stored)
  BY DEF RulesInit
<1>2. InFlight = {}
  BY <1>1 DEF InFlight
<1>3. DOMAIN drafts = Rules /\ (~crossed => ShowsStored)
  BY <1>1 DEF Effective, ShowsStored
<1>4. \A s \in Sends : WellSent(sends[s])
  BY <1>1 DEF WellSent
<1> QED
  BY <1>1, <1>2, <1>3, <1>4 DEF RulesInv

LEMMA RulesStepInv == RulesInv /\ [RulesNext]_rulesVars => RulesInv'
<1> SUFFICES ASSUME RulesInv, [RulesNext]_rulesVars PROVE RulesInv'
  OBVIOUS
<1>1. /\ DOMAIN drafts = Rules /\ DOMAIN sends = Sends
      /\ \A s \in Sends : WellSent(sends[s])
  BY DEF RulesInv
\* One request changes, the others do not.
<1>2. ASSUME NEW s \in Sends, NEW x, sends' = [sends EXCEPT ![s] = x], WellSent(x)
      PROVE  /\ DOMAIN sends' = Sends /\ sends'[s] = x
             /\ \A t \in Sends \ {s} : sends'[t] = sends[t]
             /\ \A t \in Sends : WellSent(sends'[t])
             /\ x # NoSend /\ s \in InFlight => InFlight' = InFlight
             /\ x = NoSend => InFlight' = InFlight \ {s}
  BY <1>1, <1>2 DEF InFlight
<1>3. ASSUME NEW p \in Rules, Edit(p)
      PROVE  RulesInv'
  <2>1. /\ DOMAIN drafts' = Rules /\ edited' = edited \union {p}
        /\ \A q \in Rules \ {p} : drafts'[q] = drafts[q]
        /\ UNCHANGED <<stored, sends, crossed>>
    BY <1>1, <1>3 DEF Edit
  <2>2. ShowsStored => ShowsStored'
    BY <2>1 DEF ShowsStored, Effective
  <2>3. InFlight' = InFlight /\ Effective(stored)' = Effective(stored)
    BY <2>1 DEF InFlight, Effective
  <2> QED
    BY <2>1, <2>2, <2>3 DEF RulesInv, WellSent
<1>4. ASSUME NEW s \in Sends, NEW change, Leaves(s, change)
      PROVE  RulesInv'
  <2>1. /\ sends[s] = NoSend /\ UNCHANGED <<stored, drafts, edited, crossed>>
        /\ DOMAIN sends' = Sends
    BY <1>4 DEF Leaves
  <2>2. PICK a \in BOOLEAN : a = (InFlight = {})
    OBVIOUS
  <2>3. sends'[s] = [step |-> "sent", change |-> change, alone |-> a]
    BY <1>4, <2>2 DEF Leaves
  <2>4. /\ sends'[s].step = "sent" /\ sends'[s].alone = a /\ sends'[s] # NoSend
        /\ WellSent(sends'[s])
    BY <2>3 DEF NoSend, WellSent
  <2>5. ASSUME NEW t \in InFlight
        PROVE  /\ t \in Sends \ {s} /\ sends'[t] = [sends[t] EXCEPT !.alone = FALSE]
               /\ WellSent(sends'[t]) /\ sends'[t].step = sends[t].step
               /\ ~sends'[t].alone /\ sends'[t] # NoSend
    <3>1. t \in Sends /\ t # s /\ sends[t] # NoSend /\ WellSent(sends[t])
      BY <1>1, <2>1 DEF InFlight
    <3>2. sends'[t] = [sends[t] EXCEPT !.alone = FALSE]
      BY <1>4, <3>1 DEF Leaves
    <3> QED
      BY <3>1, <3>2, JoinedFields
  <2>6. ASSUME NEW t \in Sends \ {s}, t \notin InFlight
        PROVE  sends'[t] = NoSend
    BY <1>4, <2>6 DEF Leaves
  <2>7. InFlight' = InFlight \union {s}
    BY <2>4, <2>5, <2>6 DEF InFlight
  <2>8. \A t \in Sends : WellSent(sends'[t])
    BY <2>4, <2>5, <2>6 DEF WellSent
  <2>9. \A t \in InFlight' : sends'[t].alone =>
          InFlight' = {t} /\ sends'[t].step = "sent"
    BY <2>2, <2>4, <2>5, <2>7
  <2>10. (\A t \in InFlight' : sends'[t].step = "sent") =>
           \A t \in InFlight : sends[t].step = "sent"
    BY <2>5, <2>7
  <2>11. ShowsStored' <=> ShowsStored
    BY <2>1 DEF ShowsStored, Effective
  <2> QED
    BY <1>1, <2>1, <2>8, <2>9, <2>10, <2>11 DEF RulesInv, WellSent
<1>5. ASSUME NEW s \in Sends, Store(s)
      PROVE  RulesInv'
  <2>1. sends[s].step = "sent" /\ UNCHANGED <<drafts, edited, crossed>>
    BY <1>5 DEF Store
  <2>2. s \in InFlight /\ sends[s].alone \in BOOLEAN
    BY <1>1, <2>1, SentFields DEF InFlight
  <2>3. PICK x : /\ sends' = [sends EXCEPT ![s] = x]
                 /\ x = [step |-> "stored", alone |-> sends[s].alone]
    BY <1>1, <1>5 DEF Store
  <2>4. x.step = "stored" /\ x.alone = sends[s].alone /\ WellSent(x) /\ x # NoSend
    BY <2>2, <2>3 DEF WellSent, NoSend
  <2>5. /\ DOMAIN sends' = Sends /\ sends'[s] = x
        /\ \A t \in Sends \ {s} : sends'[t] = sends[t]
        /\ \A t \in Sends : WellSent(sends'[t])
        /\ InFlight' = InFlight
    BY <1>2, <2>2, <2>3, <2>4
  <2>6. \A t \in InFlight' : sends'[t].alone =>
          InFlight' = {t} /\ (sends'[t].step = "answered" => FALSE)
    <3> SUFFICES ASSUME NEW t \in InFlight, sends'[t].alone
                 PROVE  InFlight = {t} /\ sends'[t].step # "answered"
      BY <2>5
    <3>1. sends[t].alone /\ t \in Sends
      BY <2>4, <2>5 DEF InFlight
    <3>2. InFlight = {t}
      BY <3>1 DEF RulesInv
    <3> QED
      BY <2>2, <2>4, <2>5, <3>2
  <2>7. ~(\A t \in InFlight' : sends'[t].step = "sent")
    BY <2>2, <2>4, <2>5
  <2> QED
    BY <1>1, <2>1, <2>5, <2>6, <2>7 DEF RulesInv, WellSent
<1>6. ASSUME NEW s \in Sends, ListRules(s)
      PROVE  RulesInv'
  <2>1. sends[s].step = "stored" /\ UNCHANGED <<stored, drafts, edited, crossed>>
    BY <1>6 DEF ListRules
  <2>2. s \in InFlight /\ sends[s].alone \in BOOLEAN
    BY <1>1, <2>1, SentFields DEF InFlight
  <2>0. PICK found \in Found :
          sends' = [sends EXCEPT ![s] = [step |-> "answered", rules |-> Effective(found),
                                         alone |-> @.alone /\ found = stored]]
    BY <1>6 DEF ListRules
  <2>3. PICK x : /\ sends' = [sends EXCEPT ![s] = x]
                 /\ x = [step |-> "answered", rules |-> Effective(found),
                         alone |-> sends[s].alone /\ found = stored]
    BY <1>1, <2>0
  <2>4. /\ x.step = "answered" /\ x.rules = Effective(found) /\ x # NoSend
        /\ x.alone => sends[s].alone /\ found = stored
    BY <2>3 DEF NoSend
  <2>5. WellSent(x)
    BY <2>3 DEF WellSent, Effective
  <2>6. /\ DOMAIN sends' = Sends /\ sends'[s] = x
        /\ \A t \in Sends \ {s} : sends'[t] = sends[t]
        /\ \A t \in Sends : WellSent(sends'[t])
        /\ InFlight' = InFlight
    BY <1>2, <2>2, <2>3, <2>4, <2>5
  <2>7. Effective(stored)' = Effective(stored)
    BY <2>1 DEF Effective
  <2>8. ASSUME NEW t \in InFlight', sends'[t].alone
        PROVE  /\ InFlight' = {t}
               /\ sends'[t].step = "answered" => sends'[t].rules = Effective(stored)
    <3>1. t \in InFlight /\ t \in Sends
      BY <2>6 DEF InFlight
    <3>2. CASE t = s
      BY <2>3, <2>4, <2>6, <2>8, <3>1, <3>2 DEF RulesInv
    <3>3. CASE t # s
      BY <2>6, <2>8, <3>1, <3>3 DEF RulesInv
    <3> QED
      BY <3>2, <3>3
  <2>9. ~(\A t \in InFlight' : sends'[t].step = "sent")
    BY <2>2, <2>4, <2>6
  <2> QED
    BY <1>1, <2>1, <2>6, <2>7, <2>8, <2>9 DEF RulesInv, WellSent
<1>7. ASSUME NEW s \in Sends, Receive(s)
      PROVE  RulesInv'
  <2>1. /\ sends[s].step = "answered" /\ drafts' = sends[s].rules
        /\ sends' = [sends EXCEPT ![s] = NoSend]
        /\ crossed' = ~sends[s].alone /\ stored' = stored
    BY <1>7 DEF Receive
  <2>2. s \in InFlight /\ DOMAIN drafts' = Rules
    BY <1>1, <2>1, SentFields DEF InFlight
  <2>3. /\ DOMAIN sends' = Sends /\ sends'[s] = NoSend
        /\ \A t \in Sends \ {s} : sends'[t] = sends[t]
        /\ \A t \in Sends : WellSent(sends'[t])
        /\ InFlight' = InFlight \ {s}
    BY <1>2, <2>1 DEF WellSent
  <2>4. Effective(stored)' = Effective(stored)
    BY <2>1 DEF Effective
  <2>5. ~crossed' => ShowsStored'
    <3> SUFFICES ASSUME ~crossed' PROVE ShowsStored'
      OBVIOUS
    <3>1. drafts' = Effective(stored)
      BY <2>1, <2>2 DEF RulesInv
    <3> QED
      BY <2>4, <3>1 DEF ShowsStored
  <2>6. ASSUME NEW t \in InFlight', sends'[t].alone
        PROVE  FALSE
    <3>1. t \in InFlight /\ t # s /\ sends[t].alone
      BY <2>3, <2>6 DEF InFlight
    <3> QED
      BY <2>2, <3>1 DEF RulesInv
  <2> QED
    BY <1>1, <2>2, <2>3, <2>5, <2>6 DEF RulesInv, WellSent
<1>8. ASSUME NEW s \in Sends, Lose(s)
      PROVE  RulesInv'
  <2>1. /\ s \in InFlight /\ sends' = [sends EXCEPT ![s] = NoSend]
        /\ crossed' = (crossed \/ sends[s].step # "sent")
        /\ UNCHANGED <<stored, drafts, edited>>
    BY <1>8 DEF Lose
  <2>2. /\ DOMAIN sends' = Sends /\ sends'[s] = NoSend
        /\ \A t \in Sends \ {s} : sends'[t] = sends[t]
        /\ \A t \in Sends : WellSent(sends'[t])
        /\ InFlight' = InFlight \ {s}
    BY <1>2, <2>1 DEF WellSent
  <2>3. ShowsStored' <=> ShowsStored
    BY <2>1 DEF ShowsStored, Effective
  <2>4. ASSUME ~crossed', \A t \in InFlight' : sends'[t].step = "sent"
        PROVE  ShowsStored
    <3>1. ~crossed /\ sends[s].step = "sent"
      BY <2>1, <2>4
    <3>2. \A t \in InFlight : sends[t].step = "sent"
      BY <2>2, <2>4, <3>1 DEF InFlight
    <3> QED
      BY <3>1, <3>2 DEF RulesInv
  <2>5. ASSUME NEW t \in InFlight', sends'[t].alone
        PROVE  FALSE
    <3>1. t \in InFlight /\ t # s /\ sends[t].alone
      BY <2>2, <2>5 DEF InFlight
    <3> QED
      BY <2>1, <3>1 DEF RulesInv
  <2> QED
    BY <1>1, <2>1, <2>2, <2>3, <2>4, <2>5 DEF RulesInv, WellSent
<1>9. CASE UNCHANGED rulesVars
  BY <1>9 DEF rulesVars, RulesInv, InFlight, ShowsStored, Effective, WellSent
<1> QED
  BY <1>3, <1>4, <1>5, <1>6, <1>7, <1>8, <1>9 DEF RulesNext, Save, Reset

\* Whatever is edited, saved, reset or lost, and however requests overlap: a page
\* that is not misled by answers that crossed shows what is stored.
THEOREM PageIsTrue == RulesSpec => []PageShowsStored
<1>1. RulesInv => PageShowsStored
  BY DEF RulesInv, PageShowsStored, ShowsStored
<1> QED
  BY <1>1, RulesInitInv, RulesStepInv, PTL DEF RulesSpec

-----------------------------------------------------------------------------
(* The history of the radar's signals                                      *)

SignalRows == [symbol : Watched, level : Levels, at : Nat, read : Nat]

LoadRecords ==
  {NoLoad} \union [step : {"looked"}, signals : [Watched -> Levels], read : Nat,
                   news : SUBSET Watched]

\* Row i is the last of symbol y that a query of n rows finds.
LastSeen(i, y, n) ==
  /\ i \in 1..n /\ i > n - Window
  /\ history[i].symbol = y
  /\ \A k \in (i + 1)..n : history[k].symbol # y

\* What a post in progress calls news still is, as rows are only added and time
\* only passes.
StaysNews(x) ==
  /\ x.read <= Len(history)
  /\ \A y \in x.news : \A i \in 1..x.read :
       LastSeen(i, y, x.read) =>
         ticks - history[i].at >= MinInterval \/ history[i].level # x.signals[y]

HistoryInv ==
  /\ history \in Seq(SignalRows) /\ ticks \in Nat
  /\ loads \in [Loads -> LoadRecords]
  /\ \A l \in Loads : loads[l].step = "looked" => StaysNews(loads[l])
  /\ HistoryIsSparse

LEMMA HistoryInitInv == HistoryInit => HistoryInv
<1> SUFFICES ASSUME HistoryInit PROVE HistoryInv
  OBVIOUS
<1>1. history \in Seq(SignalRows) /\ Len(history) = 0
  BY EmptySeq DEF HistoryInit
<1>2. HistoryIsSparse
  BY <1>1 DEF HistoryIsSparse
<1>3. /\ ticks \in Nat /\ loads \in [Loads -> LoadRecords]
      /\ \A l \in Loads : loads[l].step # "looked"
  BY DEF HistoryInit, LoadRecords, NoLoad
<1> QED
  BY <1>1, <1>2, <1>3 DEF HistoryInv

\* Rows that are added after those a post has read, and time, change nothing.
LEMMA NewsStays ==
  ASSUME NEW x \in LoadRecords, x.step = "looked", StaysNews(x),
         history \in Seq(SignalRows), ticks \in Nat, ticks' \in Nat, ticks <= ticks',
         history' \in Seq(SignalRows), Len(history) <= Len(history'),
         \A i \in 1..Len(history) : history'[i] = history[i]
  PROVE  StaysNews(x)'
<1>1. x.read \in Nat /\ x.read <= Len(history) /\ Len(history) \in Nat
  BY LenProperties DEF LoadRecords, NoLoad, StaysNews
<1>2. \A i \in 1..x.read : history'[i] = history[i] /\ history[i].at \in Nat
  <2> SUFFICES ASSUME NEW i \in 1..x.read
               PROVE  history'[i] = history[i] /\ history[i].at \in Nat
    OBVIOUS
  <2>1. i \in 1..Len(history)
    BY <1>1
  <2>2. history[i] \in SignalRows
    BY <2>1, ElementOfSeq
  <2> QED
    BY <2>1, <2>2 DEF SignalRows
<1>3. Len(history') \in Nat
  BY LenProperties
<1>4. ASSUME NEW y \in x.news, NEW i \in 1..x.read, LastSeen(i, y, x.read)'
      PROVE  ticks' - history'[i].at >= MinInterval \/ history'[i].level # x.signals[y]
  <2>1. \A k \in (i + 1)..x.read : k \in 1..x.read
    BY <1>1
  <2>2. LastSeen(i, y, x.read)
    BY <1>2, <1>4, <2>1 DEF LastSeen
  <2>3. ticks - history[i].at >= MinInterval \/ history[i].level # x.signals[y]
    BY <2>2 DEF StaysNews
  <2> QED
    BY <1>2, <2>3, HistoryAssumption
<1> QED
  BY <1>1, <1>3, <1>4 DEF StaysNews

\* What a query that succeeds calls news is so.
LEMMA LookFindsNews ==
  ASSUME history \in Seq(SignalRows), NEW x \in LoadRecords,
         x.step = "looked", x.read = Len(history),
         \A y \in x.news : IsNews(y, x.signals[y])
  PROVE  StaysNews(x)
<1>1. Len(history) \in Nat
  BY LenProperties
<1>2. ASSUME NEW y \in x.news, NEW i \in 1..Len(history), LastSeen(i, y, Len(history))
      PROVE  ticks - history[i].at >= MinInterval \/ history[i].level # x.signals[y]
  <2>1. i \in Newest /\ history[i].symbol = y
    BY <1>2 DEF LastSeen, Newest
  <2>2. ASSUME NEW k \in Newest, history[k].symbol = y
        PROVE  k <= i
    BY <1>1, <1>2, <2>2 DEF LastSeen, Newest
  <2>3. i \in Previous(y)
    BY <2>1, <2>2 DEF Previous
  <2> QED
    BY <2>3 DEF IsNews
<1> QED
  BY <1>1, <1>2 DEF StaysNews

\* The rows a post adds are of different symbols, and none repeats what the post
\* has seen.
LEMMA AddedKeepSparse ==
  ASSUME history \in Seq(SignalRows), ticks \in Nat, HistoryIsSparse,
         NEW x \in LoadRecords, x.step = "looked", StaysNews(x),
         NEW added \in Seq(SignalRows), history' = history \o added,
         \A i \in 1..Len(added) :
           /\ added[i].symbol \in x.news /\ added[i].level = x.signals[added[i].symbol]
           /\ added[i].at = ticks /\ added[i].read = x.read,
         \A i, j \in 1..Len(added) : i # j => added[i].symbol # added[j].symbol
  PROVE  HistoryIsSparse'
<1> DEFINE n == Len(history)
           m == Len(added)
<1>1. /\ n \in Nat /\ m \in Nat /\ Len(history') = n + m
      /\ \A i \in 1..n : history'[i] = history[i]
      /\ \A i \in (n + 1)..(n + m) : history'[i] = added[i - n] /\ i - n \in 1..m
  <2>1. n \in Nat /\ m \in Nat
    BY LenProperties
  <2>2. /\ Len(history') = n + m
        /\ \A i \in 1..(n + m) :
             history'[i] = IF i <= n THEN history[i] ELSE added[i - n]
    BY ConcatProperties
  <2> HIDE DEF n, m
  <2>3. \A i \in 1..n : i \in 1..(n + m) /\ i <= n
    BY <2>1
  <2>4. \A i \in (n + 1)..(n + m) : i \in 1..(n + m) /\ ~(i <= n) /\ i - n \in 1..m
    BY <2>1
  <2> QED
    BY <2>1, <2>2, <2>3, <2>4
<1>2. x.read \in Nat /\ x.read <= n
  BY DEF LoadRecords, NoLoad, StaysNews
<1>3. \A i \in 1..n : history[i].at \in Nat
  <2> SUFFICES ASSUME NEW i \in 1..n PROVE history[i].at \in Nat
    OBVIOUS
  <2>1. history[i] \in SignalRows
    BY ElementOfSeq
  <2> QED
    BY <2>1 DEF SignalRows
<1> HIDE DEF n, m
<1>4. ASSUME NEW i \in 1..(n + m), NEW j \in 1..(n + m), i < j,
             history'[i].symbol = history'[j].symbol,
             history'[i].level = history'[j].level,
             \A k \in (i + 1)..(j - 1) : history'[k].symbol # history'[i].symbol,
             history'[j].at - history'[i].at < MinInterval
      PROVE  i > history'[j].read \/ i <= history'[j].read - Window
  <2>1. CASE j \in 1..n
    <3>1. i \in 1..n /\ \A k \in (i + 1)..(j - 1) : k \in 1..n
      BY <1>1, <1>4, <2>1
    <3>2. /\ history[i].symbol = history[j].symbol /\ history[i].level = history[j].level
          /\ \A k \in (i + 1)..(j - 1) : history[k].symbol # history[i].symbol
          /\ history[j].at - history[i].at < MinInterval
      BY <1>1, <1>4, <2>1, <3>1
    <3>3. i > history[j].read \/ i <= history[j].read - Window
      BY <1>4, <2>1, <3>1, <3>2 DEF HistoryIsSparse, n
    <3> QED
      BY <1>1, <2>1, <3>3
  <2>2. CASE j \in (n + 1)..(n + m) /\ i \in (n + 1)..(n + m)
    <3>1. i - n \in 1..m /\ j - n \in 1..m /\ i - n # j - n
      BY <1>1, <1>4, <2>2
    <3>2. history'[i] = added[i - n] /\ history'[j] = added[j - n]
      BY <1>1, <2>2
    <3> QED
      BY <1>4, <3>1, <3>2 DEF m
  <2>3. CASE j \in (n + 1)..(n + m) /\ i \in 1..n
    <3>0. j - n \in 1..m /\ history'[j] = added[j - n]
      BY <1>1, <2>3
    <3>1. PICK y \in x.news :
            /\ history'[j].symbol = y /\ history'[j].level = x.signals[y]
            /\ history'[j].at = ticks /\ history'[j].read = x.read
      <4>1. PICK c \in 1..m : c = j - n
        BY <3>0
      <4>2. /\ added[c].symbol \in x.news /\ added[c].level = x.signals[added[c].symbol]
            /\ added[c].at = ticks /\ added[c].read = x.read
        BY DEF m
      <4> QED
        BY <3>0, <4>1, <4>2
    <3>2. history'[i] = history[i]
      BY <1>1, <2>3
    <3>3. SUFFICES ASSUME i <= x.read, i > x.read - Window PROVE FALSE
      BY <1>1, <1>2, <3>1, HistoryAssumption
    <3>4. ASSUME NEW k \in (i + 1)..x.read
          PROVE  history[k].symbol # y
      <4>1. k \in 1..n /\ k \in (i + 1)..(j - 1)
        BY <1>1, <1>2, <2>3, <3>4
      <4> QED
        BY <1>1, <1>4, <3>1, <4>1
    <3>5. i \in 1..x.read /\ LastSeen(i, y, x.read)
      BY <1>2, <1>4, <2>3, <3>1, <3>2, <3>3, <3>4 DEF LastSeen
    <3>6. ticks - history[i].at >= MinInterval \/ history[i].level # x.signals[y]
      BY <3>5 DEF StaysNews
    <3> QED
      BY <1>3, <1>4, <2>3, <3>1, <3>2, <3>6, HistoryAssumption
  <2>4. j \in 1..n \/ j \in (n + 1)..(n + m)
    BY <1>1
  <2>5. i \in 1..n \/ i \in (n + 1)..(n + m)
    BY <1>1
  <2> QED
    BY <2>1, <2>2, <2>3, <2>4, <2>5
<1> QED
  BY <1>1, <1>4 DEF HistoryIsSparse

LEMMA HistoryStepInv == HistoryInv /\ [HistoryNext]_historyVars => HistoryInv'
<1> SUFFICES ASSUME HistoryInv, [HistoryNext]_historyVars PROVE HistoryInv'
  OBVIOUS
<1>1. /\ history \in Seq(SignalRows) /\ ticks \in Nat /\ loads \in [Loads -> LoadRecords]
      /\ \A l \in Loads : loads[l].step = "looked" => StaysNews(loads[l])
      /\ HistoryIsSparse /\ Len(history) \in Nat
  BY LenProperties DEF HistoryInv
\* The posts that do not move keep their news.
<1>2. ASSUME history' \in Seq(SignalRows), Len(history) <= Len(history'),
             \A i \in 1..Len(history) : history'[i] = history[i],
             ticks' \in Nat, ticks <= ticks',
             NEW l \in Loads, loads'[l] = loads[l], loads[l].step = "looked"
      PROVE  StaysNews(loads[l])'
  <2>1. PICK x \in LoadRecords : x = loads[l]
    BY <1>1
  <2>2. StaysNews(x)'
    BY <1>1, <1>2, <2>1, NewsStays
  <2> QED
    BY <1>2, <2>1, <2>2 DEF StaysNews, LastSeen
<1>3. CASE Elapse
  <2>1. ticks' = ticks + 1 /\ history' = history /\ loads' = loads
    BY <1>3 DEF Elapse
  <2>2. HistoryIsSparse'
    BY <1>1, <2>1 DEF HistoryIsSparse
  <2>3. \A l \in Loads : loads[l].step = "looked" => StaysNews(loads[l])'
    BY <1>1, <1>2, <2>1
  <2> QED
    BY <1>1, <2>1, <2>2, <2>3 DEF HistoryInv
<1>4. ASSUME NEW l \in Loads, Look(l)
      PROVE  HistoryInv'
  <2>1. history' = history /\ ticks' = ticks
    BY <1>4 DEF Look
  <2>2. PICK signals \in [Watched -> Levels], read \in Nat, news \in SUBSET Watched :
          /\ loads' = [loads EXCEPT ![l] = [step |-> "looked", signals |-> signals,
                                            read |-> read, news |-> news]]
          /\ \/ read = 0
             \/ read = Len(history) /\ \A y \in news : IsNews(y, signals[y])
    <3>1. ASSUME NEW signals \in [Watched -> Levels], NEW read \in Nat,
                 NEW news \in SUBSET Watched,
                 loads' = [loads EXCEPT ![l] = [step |-> "looked", signals |-> signals,
                                                read |-> read, news |-> news]],
                 read = 0 \/ (read = Len(history) /\ \A y \in news : IsNews(y, signals[y]))
          PROVE  \E sig \in [Watched -> Levels], rd \in Nat, nw \in SUBSET Watched :
                   /\ loads' = [loads EXCEPT ![l] = [step |-> "looked", signals |-> sig,
                                                     read |-> rd, news |-> nw]]
                   /\ \/ rd = 0
                      \/ rd = Len(history) /\ \A y \in nw : IsNews(y, sig[y])
      BY <3>1
    <3>2. PICK signals \in [Watched -> Levels] :
            \/ loads' = [loads EXCEPT ![l] =
                 [step |-> "looked", signals |-> signals, read |-> Len(history),
                  news |-> {y \in Watched : IsNews(y, signals[y])}]]
            \/ loads' = [loads EXCEPT ![l] =
                 [step |-> "looked", signals |-> signals, read |-> 0,
                  news |-> Watched]]
      BY <1>4 DEF Look
    <3>3. PICK nw \in SUBSET Watched : nw = {y \in Watched : IsNews(y, signals[y])}
      OBVIOUS
    <3>4. PICK rd \in Nat : rd = Len(history)
      BY <1>1
    <3>5. \A y \in nw : IsNews(y, signals[y])
      BY <3>3
    <3>6. CASE loads' = [loads EXCEPT ![l] =
                 [step |-> "looked", signals |-> signals, read |-> rd, news |-> nw]]
      BY <3>1, <3>4, <3>5, <3>6
    <3>7. CASE loads' = [loads EXCEPT ![l] =
                 [step |-> "looked", signals |-> signals, read |-> 0, news |-> Watched]]
      BY <3>1, <3>7
    <3> QED
      BY <3>2, <3>3, <3>4, <3>6, <3>7
  <2>3. PICK x : x = [step |-> "looked", signals |-> signals, read |-> read,
                      news |-> news]
    OBVIOUS
  <2>4. /\ x \in LoadRecords /\ x.step = "looked" /\ x.signals = signals
        /\ x.read = read /\ x.news = news
    BY <2>3 DEF LoadRecords
  <2>5. StaysNews(x)
    <3>1. CASE read = 0
      BY <1>1, <2>4, <3>1 DEF StaysNews
    <3>2. CASE read = Len(history) /\ \A y \in news : IsNews(y, signals[y])
      BY <1>1, <2>4, <3>2, LookFindsNews
    <3> QED
      BY <2>2, <3>1, <3>2
  <2>6. StaysNews(x)'
    BY <2>1, <2>5 DEF StaysNews, LastSeen
  <2>7. /\ loads' \in [Loads -> LoadRecords] /\ loads'[l] = x
        /\ \A k \in Loads \ {l} : loads'[k] = loads[k]
    BY <1>1, <2>2, <2>3, <2>4
  <2>8. ASSUME NEW k \in Loads, loads'[k].step = "looked"
        PROVE  StaysNews(loads[k])'
    <3>1. CASE k = l
      BY <2>6, <2>7, <3>1 DEF StaysNews, LastSeen
    <3>2. CASE k # l
      BY <1>1, <1>2, <2>1, <2>7, <2>8, <3>2
    <3> QED
      BY <3>1, <3>2
  <2>9. HistoryIsSparse'
    BY <1>1, <2>1, SMTT(30) DEF HistoryIsSparse
  <2> QED
    BY <1>1, <2>1, <2>7, <2>8, <2>9 DEF HistoryInv
<1>5. ASSUME NEW l \in Loads, Insert(l)
      PROVE  HistoryInv'
  <2>1. PICK x \in LoadRecords : x = loads[l]
    BY <1>1
  <2>2. /\ x.step = "looked" /\ StaysNews(x) /\ ticks' = ticks
        /\ loads' = [loads EXCEPT ![l] = NoLoad]
    BY <1>1, <1>5, <2>1 DEF Insert, StaysNews, LastSeen
  <2>3. /\ x.read \in Nat /\ x.news \in SUBSET Watched
        /\ x.signals \in [Watched -> Levels]
    BY <2>2 DEF LoadRecords, NoLoad
  <2>4. PICK news \in SetToSeqs(x.news) :
          \/ history' = history
          \/ history' = history \o
               [i \in DOMAIN news |->
                  [symbol |-> news[i], level |-> x.signals[news[i]], at |-> ticks,
                   read |-> x.read]]
    BY <1>5, <2>1 DEF Insert
  <2>5. PICK m \in Nat : /\ news \in [1..m -> x.news]
                         /\ \A i, j \in 1..m : i # j => news[i] # news[j]
    <3>1. IsFiniteSet(x.news)
      BY <2>3, HistoryAssumption, FS_Subset
    <3>2. Cardinality(x.news) \in Nat
      BY <3>1, FS_CardinalityType
    <3> QED
      BY <3>2 DEF SetToSeqs
  <2>6. PICK added : added =
          [i \in 1..m |-> [symbol |-> news[i], level |-> x.signals[news[i]],
                           at |-> ticks, read |-> x.read]]
    OBVIOUS
  <2>7. added \in [1..m -> SignalRows]
    <3>1. ASSUME NEW i \in 1..m
          PROVE  [symbol |-> news[i], level |-> x.signals[news[i]], at |-> ticks,
                  read |-> x.read] \in SignalRows
      <4>1. news[i] \in Watched /\ x.signals[news[i]] \in Levels
        BY <2>3, <2>5
      <4> QED
        BY <1>1, <2>3, <4>1 DEF SignalRows
    <3> QED
      BY <2>6, <3>1
  <2>8. added \in Seq(SignalRows) /\ Len(added) = m
    BY <2>7, SeqDef
  <2>9. history' = history \/ history' = history \o added
    BY <2>4, <2>5, <2>6
  <2>10. /\ history' \in Seq(SignalRows) /\ Len(history) <= Len(history')
         /\ \A i \in 1..Len(history) : history'[i] = history[i]
    <3>1. CASE history' = history
      BY <1>1, <3>1
    <3>2. CASE history' = history \o added
      <4>1. /\ history' \in Seq(SignalRows) /\ Len(history') = Len(history) + m
            /\ \A i \in 1..(Len(history) + m) : history'[i] =
                 IF i <= Len(history) THEN history[i] ELSE added[i - Len(history)]
        BY <1>1, <2>8, <3>2, ConcatProperties
      <4>2. \A i \in 1..Len(history) : i \in 1..(Len(history) + m) /\ i <= Len(history)
        BY <1>1
      <4> QED
        BY <1>1, <4>1, <4>2
    <3> QED
      BY <2>9, <3>1, <3>2
  <2>11. HistoryIsSparse'
    <3>1. CASE history' = history
      BY <1>1, <3>1 DEF HistoryIsSparse
    <3>2. CASE history' = history \o added
      <4>1. \A i \in 1..Len(added) :
              /\ added[i].symbol = news[i] /\ news[i] \in x.news
              /\ added[i].level = x.signals[news[i]]
              /\ added[i].at = ticks /\ added[i].read = x.read
        BY <2>5, <2>6, <2>8
      <4>2. \A i, j \in 1..Len(added) : i # j => added[i].symbol # added[j].symbol
        BY <2>5, <2>8, <4>1
      <4>3. \A i \in 1..Len(added) :
              /\ added[i].symbol \in x.news
              /\ added[i].level = x.signals[added[i].symbol]
              /\ added[i].at = ticks /\ added[i].read = x.read
        BY <4>1
      <4> QED
        BY <1>1, <2>2, <2>8, <3>2, <4>2, <4>3, AddedKeepSparse
    <3> QED
      BY <2>9, <3>1, <3>2
  <2>12. /\ loads' \in [Loads -> LoadRecords] /\ loads'[l] = NoLoad
         /\ \A k \in Loads \ {l} : loads'[k] = loads[k]
    BY <1>1, <2>2 DEF LoadRecords
  <2>13. ASSUME NEW k \in Loads, loads'[k].step = "looked"
         PROVE  StaysNews(loads[k])'
    <3>1. k # l
      BY <2>12, <2>13 DEF NoLoad
    <3> QED
      BY <1>1, <1>2, <2>2, <2>10, <2>12, <2>13, <3>1
  <2> QED
    BY <1>1, <2>2, <2>10, <2>11, <2>12, <2>13 DEF HistoryInv
<1>6. CASE UNCHANGED historyVars
  BY <1>1, <1>6 DEF historyVars, HistoryInv, HistoryIsSparse, StaysNews, LastSeen
<1> QED
  BY <1>3, <1>4, <1>5, <1>6 DEF HistoryNext

\* Whatever dashboards load at once, and whatever fails: a signal repeats another
\* within the interval only if its load could not have seen it.
THEOREM HistoryStaysSparse == HistorySpec => []HistoryIsSparse
<1>1. HistoryInv => HistoryIsSparse
  BY DEF HistoryInv
<1> QED
  BY <1>1, HistoryInitInv, HistoryStepInv, PTL DEF HistorySpec

-----------------------------------------------------------------------------
(* What the radar says of an asset                                         *)

\* Fewer than three reasons come before any of the first three, and before the
\* fourth unless they are all told.
LEMMA ReasonsBefore ==
  ASSUME NEW code \in Applying, NEW S \in SUBSET {"large_move", "news_flow"},
         {c \in Applying : ReasonPlace[c] < ReasonPlace[code]} = S
  PROVE  code \in FirstThree(ReasonPlace)
<1>1. IsFiniteSet({"large_move"}) /\ Cardinality({"large_move"}) = 1
  BY FS_Singleton
<1>2. /\ {"large_move", "news_flow"} = {"large_move"} \union {"news_flow"}
      /\ "news_flow" \notin {"large_move"}
  OBVIOUS
<1>3. /\ IsFiniteSet({"large_move", "news_flow"})
      /\ Cardinality({"large_move", "news_flow"}) = 2
  <2>1. Cardinality({"large_move"} \union {"news_flow"}) = Cardinality({"large_move"}) + 1
    BY <1>1, <1>2, FS_AddElement
  <2> QED
    BY <1>1, <1>2, <2>1, FS_AddElement
<1>4. Cardinality(S) \in Nat /\ Cardinality(S) <= 2
  BY <1>3, FS_Subset, FS_CardinalityType
<1> QED
  BY <1>4 DEF FirstThree

\* What the signal and its event say, once they are said.
RadarInv ==
  said # NotSaid => /\ said.signal.reasons = Reasons
                    /\ said.kind = EventKind(said.signal)

\* For any rules, dossier and last signal: what a rule raised is told, and an asset
\* at an extreme of its range is not announced as steady or as nothing new.
THEOREM ExtremesTold == RadarSpec => []ExtremesAreTold
<1>1. RadarInit => RadarInv
  BY DEF RadarInit, RadarInv
<1>2. RadarInv /\ [EvaluateSignal]_radarVars => RadarInv'
  <2>1. ASSUME EvaluateSignal PROVE RadarInv'
    BY <2>1, ZenonT(40) DEF EvaluateSignal, RadarInv, NotSaid, Reasons, Applying, FirstThree,
       EventKind, NearHigh, NearLow, Threshold, ThresholdOf, Enabled
  <2>2. ASSUME RadarInv, UNCHANGED radarVars PROVE RadarInv'
    <3>1. /\ ownRules' = ownRules /\ deskRules' = deskRules /\ dossier' = dossier
          /\ previous' = previous /\ said' = said
      BY <2>2 DEF radarVars
    <3>2. \A ty : Threshold(ty)' = Threshold(ty)
      BY <3>1 DEF Threshold, ThresholdOf, Enabled
    <3>3. (NearHigh <=> NearHigh') /\ (NearLow <=> NearLow')
      BY <3>1, <3>2 DEF NearHigh, NearLow
    <3>4. Applying' = Applying
      BY <3>1, Zenon DEF Applying, NearHigh, NearLow, Threshold, ThresholdOf, Enabled
    <3>5. Reasons' = Reasons
      BY <3>4, Zenon DEF Reasons, FirstThree
    <3>6. EventKind(said.signal)' = EventKind(said.signal)
      BY <3>1, <3>2, Zenon DEF EventKind
    <3> QED
      BY <2>2, <3>1, <3>5, <3>6 DEF RadarInv
  <2> QED
    BY <2>1, <2>2
<1>3. RadarInv => ExtremesAreTold
  <2> SUFFICES ASSUME RadarInv, said # NotSaid PROVE ExtremesAreTold
    BY DEF ExtremesAreTold
  <2> DEFINE earlier(code) == {c \in Applying : ReasonPlace[c] < ReasonPlace[code]}
  <2>1. /\ dossier.move >= Threshold("large_move") <=> "large_move" \in Applying
        /\ dossier.news >= Threshold("news_flow") <=> "news_flow" \in Applying
        /\ NearHigh <=> "near_52w_high" \in Applying
        /\ NearLow <=> "near_52w_low" \in Applying
    BY DEF Applying, ReasonPlace
  <2>2. Applying \subseteq {"large_move", "news_flow", "near_52w_high", "near_52w_low",
                            "live_history", "liquid"}
    BY DEF Applying, ReasonPlace
  <2>3. /\ earlier("large_move") \subseteq {"large_move", "news_flow"}
        /\ earlier("news_flow") \subseteq {"large_move", "news_flow"}
        /\ earlier("near_52w_high") \subseteq {"large_move", "news_flow"}
        /\ ~NearHigh => earlier("near_52w_low") \subseteq {"large_move", "news_flow"}
    <3>1. /\ ReasonPlace["large_move"] = 1 /\ ReasonPlace["news_flow"] = 2
          /\ ReasonPlace["near_52w_high"] = 3 /\ ReasonPlace["near_52w_low"] = 4
          /\ ReasonPlace["live_history"] = 5 /\ ReasonPlace["liquid"] = 6
      BY DEF ReasonPlace
    <3>2. \A c \in Applying : /\ ReasonPlace[c] \in Int
                              /\ ReasonPlace[c] < 3 => c \in {"large_move", "news_flow"}
                              /\ ReasonPlace[c] < 4 => c \in {"large_move", "news_flow",
                                                              "near_52w_high"}
      BY <2>2, <3>1, SMT
    <3>3. \A code : ReasonPlace[code] \in {1, 2, 3} =>
                      earlier(code) \subseteq {"large_move", "news_flow"}
      BY <3>2, SMT
    <3>4. ASSUME ~NearHigh PROVE earlier("near_52w_low") \subseteq {"large_move", "news_flow"}
      BY <2>1, <3>1, <3>2, <3>4, SMT
    <3> HIDE DEF earlier
    <3> QED
      BY <3>1, <3>3, <3>4, SMT
  <2> HIDE DEF earlier
  <2>4. ASSUME NEW code \in Applying, earlier(code) \subseteq {"large_move", "news_flow"}
        PROVE  code \in said.signal.reasons
    <3>1. code \in FirstThree(ReasonPlace)
      BY <2>4, ReasonsBefore DEF earlier
    <3> QED
      BY <3>1 DEF RadarInv, Reasons
  <2>5. NearHigh => Told("near_52w_high")
    BY <2>1, <2>3, <2>4 DEF Told
  <2>6. NearHigh \/ NearLow => said.kind \notin {"steady_high", "baseline"}
    <3> SUFFICES ASSUME NearHigh \/ NearLow
                 PROVE  said.kind \notin {"steady_high", "baseline"}
      OBVIOUS
    <3>1. said.signal.reasons \intersect {"near_52w_high", "near_52w_low"} # {}
      BY <2>1, <2>3, <2>4
    <3> QED
      BY <3>1 DEF RadarInv, EventKind
  <2> QED
    BY <2>1, <2>3, <2>4, <2>5, <2>6 DEF Told, ExtremesAreTold
<1> QED
  BY <1>1, <1>2, <1>3, PTL DEF RadarSpec

-----------------------------------------------------------------------------
(* The evaluation of a route                                               *)

LEMMA LeastNumber ==
  ASSUME NEW S \in SUBSET Nat, S # {}
  PROVE  Least(S) \in S /\ \A k \in S : Least(S) <= k
<1> DEFINE R == {s \in Nat \X Nat : s[1] < s[2]}
<1>1. IsWellFoundedOn(OpToRel(<, Nat), Nat)
  BY NatLessThanWellFounded
<1>2. OpToRel(<, Nat) = R
  BY DEF OpToRel
<1>3. PICK m \in S : \A n \in S : ~(<<n, m>> \in R)
  <2> HIDE DEF R
  <2> QED
    BY <1>1, <1>2, WFMin
<1>4. \A n \in S : n \in Nat /\ m \in Nat /\ ~(n < m)
  BY <1>3
<1>5. \E k \in S : \A n \in S : k <= n
  BY <1>4
<1> QED
  BY <1>5 DEF Least

\* What holds of no month, and of the next with every one, holds of all.
LEMMA MonthByMonth ==
  ASSUME NEW S \in SUBSET Nat, 0 \in S, \A n \in S : n + 1 \in S
  PROVE  S = Nat
<1> SUFFICES ASSUME Nat \ S # {} PROVE FALSE
  OBVIOUS
<1>1. PICK n \in Nat \ S : \A k \in Nat \ S : n <= k
  BY LeastNumber
<1>2. n - 1 \in Nat /\ ~(n <= n - 1)
  BY <1>1
<1>3. n - 1 \in S /\ (n - 1) + 1 = n
  BY <1>1, <1>2
<1> QED
  BY <1>1, <1>3

Balances == [num : Nat, den : Nat \ {0}]

\* The balances of so many months, by the loop.
IsCourse(p, c, f, m) ==
  f = [n \in 0..m |-> IF n = 0 THEN [num |-> p.wealth, den |-> 1]
                      ELSE NextMonth(p, c, f[n - 1])]

LEMMA RouteFields ==
  ASSUME NEW p \in Plans
  PROVE  /\ p.wealth \in Nat /\ p.target \in Nat \ {0} /\ p.contribution \in Nat
         /\ p.returns \in Nat /\ p.remaining \in Nat
         /\ Scale \in Nat \ {0} /\ MaxMonths \in Nat
BY EngineAssumption

LEMMA CourseExists ==
  ASSUME NEW p, NEW c, NEW m \in Nat
  PROVE  \E f : IsCourse(p, c, f, m)
<1> DEFINE S == {n \in Nat : \E f : IsCourse(p, c, f, n)}
<1>1. 0 \in S
  <2> DEFINE f == [n \in 0..0 |-> [num |-> p.wealth, den |-> 1]]
  <2>1. IsCourse(p, c, f, 0)
    BY DEF IsCourse
  <2> QED
    BY <2>1
<1>2. ASSUME NEW n \in S PROVE n + 1 \in S
  <2>1. PICK f : IsCourse(p, c, f, n)
    BY <1>2
  <2> DEFINE g == [k \in 0..n + 1 |-> IF k = n + 1 THEN NextMonth(p, c, f[n]) ELSE f[k]]
  <2>2. n \in Nat /\ n + 1 \in Nat
    BY <1>2
  <2>3. \A k \in 0..n : k \in 0..n + 1 /\ k # n + 1 /\ (k # 0 => k - 1 \in 0..n)
    BY <2>2
  <2>4. \A k \in 0..n : f[k] = IF k = 0 THEN [num |-> p.wealth, den |-> 1]
                                         ELSE NextMonth(p, c, f[k - 1])
    BY <2>1 DEF IsCourse
  <2>5. \A k \in 0..n : g[k] = f[k]
    BY <2>3
  <2>6. \A k \in 0..n + 1 : k \in 0..n \/ k = n + 1
    BY <2>2
  <2>7. \A k \in 0..n + 1 : g[k] = IF k = 0 THEN [num |-> p.wealth, den |-> 1]
                                           ELSE NextMonth(p, c, g[k - 1])
    <3> SUFFICES ASSUME NEW k \in 0..n + 1
                 PROVE  g[k] = IF k = 0 THEN [num |-> p.wealth, den |-> 1]
                                        ELSE NextMonth(p, c, g[k - 1])
      OBVIOUS
    <3>1. CASE k \in 0..n
      BY <2>3, <2>4, <2>5, <3>1
    <3>2. CASE k = n + 1
      <4>1. k # 0 /\ k - 1 = n /\ n \in 0..n
        BY <2>2, <3>2
      <4> QED
        BY <2>5, <3>2, <4>1
    <3> QED
      BY <2>6, <3>1, <3>2
  <2>8. IsCourse(p, c, g, n + 1)
    BY <2>7, Zenon DEF IsCourse
  <2> QED
    BY <2>2, <2>8
<1> HIDE DEF S
<1>3. S = Nat
  BY <1>1, <1>2, MonthByMonth DEF S
<1> QED
  BY <1>3 DEF S

LEMMA CourseAgrees ==
  ASSUME NEW p, NEW c, NEW m \in Nat, NEW k \in Nat, NEW f, NEW g,
         IsCourse(p, c, f, m), IsCourse(p, c, g, k), NEW n \in Nat, n <= m, n <= k
  PROVE  f[n] = g[n]
<1> DEFINE S == {i \in Nat : i <= m /\ i <= k => f[i] = g[i]}
<1>1. 0 \in S
  BY DEF IsCourse
<1>2. ASSUME NEW i \in S PROVE i + 1 \in S
  <2>1. i \in Nat
    BY <1>2
  <2>2. ASSUME i + 1 <= m, i + 1 <= k PROVE f[i + 1] = g[i + 1]
    <3>1. f[i] = g[i]
      BY <1>2, <2>1, <2>2
    <3>2. i + 1 \in 0..m /\ i + 1 \in 0..k /\ i + 1 # 0 /\ (i + 1) - 1 = i
      BY <2>1, <2>2
    <3>3. f[i + 1] = NextMonth(p, c, f[i]) /\ g[i + 1] = NextMonth(p, c, g[i])
      BY <3>2 DEF IsCourse
    <3> QED
      BY <3>1, <3>3
  <2> QED
    BY <2>1, <2>2
<1> HIDE DEF S
<1>3. n \in S
  BY <1>1, <1>2, MonthByMonth DEF S
<1> QED
  BY <1>3 DEF S

\* The balance at the end, which the loop goes on from.
LEMMA NextBalance ==
  ASSUME NEW p, NEW c, NEW n \in Nat
  PROVE  /\ ProjectBalance(p, c, 0) = [num |-> p.wealth, den |-> 1]
         /\ ProjectBalance(p, c, n + 1) = NextMonth(p, c, ProjectBalance(p, c, n))
<1>1. ASSUME NEW m \in Nat
      PROVE  \E f : IsCourse(p, c, f, m) /\ ProjectBalance(p, c, m) = f[m]
  <2> DEFINE f == CHOOSE g : IsCourse(p, c, g, m)
  <2>1. ProjectBalance(p, c, m) = f[m]
    BY Zenon DEF ProjectBalance, IsCourse
  <2>2. IsCourse(p, c, f, m)
    BY CourseExists
  <2> QED
    BY <2>1, <2>2
<1>2. ProjectBalance(p, c, 0) = [num |-> p.wealth, den |-> 1]
  <2>1. PICK f : IsCourse(p, c, f, 0) /\ ProjectBalance(p, c, 0) = f[0]
    BY <1>1
  <2> QED
    BY <2>1 DEF IsCourse
<1>3. ProjectBalance(p, c, n + 1) = NextMonth(p, c, ProjectBalance(p, c, n))
  <2>1. PICK f : IsCourse(p, c, f, n) /\ ProjectBalance(p, c, n) = f[n]
    BY <1>1
  <2>2. n + 1 \in Nat
    OBVIOUS
  <2>3. PICK g : IsCourse(p, c, g, n + 1) /\ ProjectBalance(p, c, n + 1) = g[n + 1]
    BY <1>1, <2>2
  <2>4. f[n] = g[n]
    BY <2>1, <2>2, <2>3, CourseAgrees
  <2>5. n + 1 \in 0..n + 1 /\ n + 1 # 0 /\ (n + 1) - 1 = n
    OBVIOUS
  <2>6. g[n + 1] = NextMonth(p, c, g[n])
    BY <2>3, <2>5 DEF IsCourse
  <2> QED
    BY <2>1, <2>3, <2>4, <2>6
<1> QED
  BY <1>2, <1>3

LEMMA Products ==
  ASSUME NEW a \in Nat, NEW b \in Nat, NEW n \in Nat, a >= b
  PROVE  a * n \in Nat /\ b * n \in Nat /\ a * n >= b * n
BY SMT

LEMMA MonthIsFraction ==
  ASSUME NEW p \in Plans, NEW c \in Nat, NEW b \in Balances
  PROVE  /\ NextMonth(p, c, b) \in Balances
         /\ NextMonth(p, c, b).num = b.num * (Scale + p.returns) + c * (Scale * b.den)
         /\ NextMonth(p, c, b).den = Scale * b.den
<1>1. b.num \in Nat /\ b.den \in Nat /\ b.den > 0
  BY DEF Balances
<1>2. Scale \in Nat /\ Scale > 0 /\ Scale + p.returns \in Nat
  BY RouteFields
<1>3. Scale * b.den \in Nat /\ Scale * b.den > 0
  BY <1>1, <1>2, SMT
<1>4. b.num * (Scale + p.returns) \in Nat /\ c * (Scale * b.den) \in Nat
  BY <1>1, <1>2, <1>3, SMT
<1> QED
  BY <1>3, <1>4, SMT DEF NextMonth, Balances

\* Who pays more a month never has less.
LEMMA MoreIsMore ==
  ASSUME NEW p \in Plans, NEW c \in Nat, NEW e \in Nat, c >= e, NEW n \in Nat
  PROVE  /\ ProjectBalance(p, c, n) \in Balances /\ ProjectBalance(p, e, n) \in Balances
         /\ ProjectBalance(p, c, n).den = ProjectBalance(p, e, n).den
         /\ ProjectBalance(p, c, n).num >= ProjectBalance(p, e, n).num
<1> DEFINE more(i) == ProjectBalance(p, c, i)
           less(i) == ProjectBalance(p, e, i)
           S == {i \in Nat : /\ more(i) \in Balances /\ less(i) \in Balances
                             /\ more(i).den = less(i).den /\ more(i).num >= less(i).num}
<1>1. 0 \in S
  BY NextBalance, RouteFields DEF Balances
<1>2. ASSUME NEW i \in S PROVE i + 1 \in S
  <2>0. more(i + 1) = NextMonth(p, c, more(i)) /\ less(i + 1) = NextMonth(p, e, less(i))
    BY <1>2, NextBalance
  <2> HIDE DEF more, less
  <2>1. PICK b \in Balances, d \in Balances :
          b = more(i) /\ d = less(i) /\ b.den = d.den /\ b.num >= d.num
    BY <1>2
  <2>2. /\ NextMonth(p, c, b) \in Balances /\ NextMonth(p, e, d) \in Balances
        /\ NextMonth(p, c, b).num = b.num * (Scale + p.returns) + c * (Scale * b.den)
        /\ NextMonth(p, e, d).num = d.num * (Scale + p.returns) + e * (Scale * b.den)
        /\ NextMonth(p, c, b).den = Scale * b.den
        /\ NextMonth(p, e, d).den = Scale * b.den
    BY <2>1, MonthIsFraction
  <2>3. /\ b.num \in Nat /\ d.num \in Nat /\ Scale + p.returns \in Nat
        /\ Scale * b.den \in Nat
    BY <2>1, <2>2, RouteFields DEF Balances
  <2>4. /\ b.num * (Scale + p.returns) \in Nat /\ d.num * (Scale + p.returns) \in Nat
        /\ b.num * (Scale + p.returns) >= d.num * (Scale + p.returns)
    BY <2>1, <2>3, Products
  <2>5. /\ c * (Scale * b.den) \in Nat /\ e * (Scale * b.den) \in Nat
        /\ c * (Scale * b.den) >= e * (Scale * b.den)
    BY <2>3, Products
  <2>6. NextMonth(p, c, b).num >= NextMonth(p, e, d).num
    BY <2>2, <2>4, <2>5
  <2> QED
    BY <1>2, <2>0, <2>1, <2>2, <2>6
<1> HIDE DEF S
<1>3. n \in S
  BY <1>1, <1>2, MonthByMonth DEF S
<1> QED
  BY <1>3 DEF S

\* A target that is reached is reached in every month from then on.
LEMMA ReachedStays ==
  ASSUME NEW p \in Plans, NEW c \in Nat, NEW m \in Nat, NEW n \in Nat, m <= n,
         Reaches(p, c, m)
  PROVE  Reaches(p, c, n)
<1> DEFINE S == {i \in Nat : i >= m => Reaches(p, c, i)}
<1>1. 0 \in S
  BY SMT
<1>2. ASSUME NEW i \in S PROVE i + 1 \in S
  <2>1. i \in Nat
    BY <1>2
  <2>2. ASSUME Reaches(p, c, i) PROVE Reaches(p, c, i + 1)
    <3>1. PICK b \in Balances : b = ProjectBalance(p, c, i)
      BY <2>1, MoreIsMore
    <3>2. ProjectBalance(p, c, i + 1) = NextMonth(p, c, b)
      BY <2>1, <3>1, NextBalance
    <3>3. /\ NextMonth(p, c, b).num = b.num * (Scale + p.returns) + c * (Scale * b.den)
          /\ NextMonth(p, c, b).den = Scale * b.den
      BY MonthIsFraction
    <3>4. /\ b.num \in Nat /\ b.den \in Nat /\ p.target \in Nat /\ p.returns \in Nat
          /\ Scale \in Nat /\ Scale * b.den \in Nat
      BY RouteFields DEF Balances
    <3>5. b.num >= p.target * b.den
      BY <2>2, <3>1 DEF Reaches
    <3>6. PICK t \in Nat : t = p.target * b.den
      BY <3>4
    <3>7. b.num * Scale \in Nat /\ t * Scale \in Nat /\ b.num * Scale >= t * Scale
      BY <3>4, <3>5, <3>6, Products
    <3>8. t * Scale = p.target * (Scale * b.den)
      BY <3>4, <3>6, SMT
    <3>9. /\ b.num * (Scale + p.returns) = b.num * Scale + b.num * p.returns
          /\ b.num * p.returns \in Nat /\ c * (Scale * b.den) \in Nat
      BY <3>4, SMT
    <3>10. NextMonth(p, c, b).num >= p.target * NextMonth(p, c, b).den
      BY <3>3, <3>7, <3>8, <3>9
    <3> QED
      BY <3>2, <3>10 DEF Reaches
  <2>3. i + 1 >= m => i >= m \/ i + 1 = m
    BY <2>1
  <2> QED
    BY <1>2, <2>1, <2>2, <2>3
<1> HIDE DEF S
<1>3. n \in S
  BY <1>1, <1>2, MonthByMonth DEF S
<1> QED
  BY <1>3 DEF S

LEMMA ReachedWithMore ==
  ASSUME NEW p \in Plans, NEW c \in Nat, NEW e \in Nat, c >= e, NEW n \in Nat,
         Reaches(p, e, n)
  PROVE  Reaches(p, c, n)
<1>1. PICK b \in Balances, d \in Balances :
        /\ b = ProjectBalance(p, c, n) /\ d = ProjectBalance(p, e, n)
        /\ b.den = d.den /\ b.num >= d.num
  BY MoreIsMore
<1>2. b.num \in Nat /\ d.num \in Nat /\ p.target * d.den \in Nat
  BY RouteFields DEF Balances
<1> QED
  BY <1>1, <1>2 DEF Reaches

\* What is paid in is there in the end.
LEMMA PaidIn ==
  ASSUME NEW p \in Plans, NEW c \in Nat, NEW n \in Nat
  PROVE  ProjectBalance(p, c, n).num >= (n * c) * ProjectBalance(p, c, n).den
<1> DEFINE S == {i \in Nat : ProjectBalance(p, c, i).num
                               >= (i * c) * ProjectBalance(p, c, i).den}
<1>1. 0 \in S
  <2>1. ProjectBalance(p, c, 0).num = p.wealth /\ ProjectBalance(p, c, 0).den = 1
    BY NextBalance
  <2> QED
    BY <2>1, RouteFields
<1>2. ASSUME NEW i \in S PROVE i + 1 \in S
  <2>1. PICK b \in Balances : b = ProjectBalance(p, c, i)
    BY <1>2, MoreIsMore
  <2>2. ProjectBalance(p, c, i + 1) = NextMonth(p, c, b)
    BY <1>2, <2>1, NextBalance
  <2>3. /\ NextMonth(p, c, b).num = b.num * (Scale + p.returns) + c * (Scale * b.den)
        /\ NextMonth(p, c, b).den = Scale * b.den
    BY MonthIsFraction
  <2>4. /\ b.num \in Nat /\ b.den \in Nat /\ p.returns \in Nat
        /\ Scale \in Nat /\ Scale * b.den \in Nat /\ i \in Nat /\ i * c \in Nat
    BY RouteFields DEF Balances
  <2>5. PICK s \in Nat : s = (i * c) * b.den
    BY <2>4
  <2>6. b.num * Scale \in Nat /\ s * Scale \in Nat /\ b.num * Scale >= s * Scale
    BY <1>2, <2>1, <2>4, <2>5, Products
  <2>7. s * Scale = (i * c) * (Scale * b.den)
    <3>1. PICK k \in Nat : k = i * c
      BY <2>4
    <3> QED
      BY <2>4, <2>5, <3>1, SMT
  <2>8. /\ b.num * (Scale + p.returns) = b.num * Scale + b.num * p.returns
        /\ b.num * p.returns \in Nat /\ c * (Scale * b.den) \in Nat
    BY <2>4, SMT
  <2>9. ((i + 1) * c) * (Scale * b.den) = (i * c) * (Scale * b.den) + c * (Scale * b.den)
    <3>1. PICK k \in Nat : k = Scale * b.den
      BY <2>4
    <3>2. (i + 1) * c = i * c + c
      BY <2>4, SMT
    <3> QED
      BY <2>4, <3>1, <3>2, SMT
  <2>10. NextMonth(p, c, b).num >= ((i + 1) * c) * NextMonth(p, c, b).den
    BY <2>3, <2>6, <2>7, <2>8, <2>9
  <2> QED
    BY <2>2, <2>4, <2>10
<1> HIDE DEF S
<1>3. n \in S
  BY <1>1, <1>2, MonthByMonth DEF S
<1> QED
  BY <1>3 DEF S

\* The most that the search for an extra looks at is enough.
LEMMA ShareReaches ==
  ASSUME NEW p \in Plans, p.remaining > 0, NEW hi \in Nat,
         hi >= (p.target + p.remaining - 1) \div p.remaining
  PROVE  Reaches(p, p.contribution + hi, p.remaining)
<1>1. /\ p.target \in Nat /\ p.remaining \in Nat /\ p.contribution \in Nat
      /\ p.contribution + hi \in Nat /\ p.contribution + hi >= hi
  BY RouteFields
<1>2. PICK share \in Nat : share = (p.target + p.remaining - 1) \div p.remaining
  BY <1>1
<1>3. p.remaining * share >= p.target
  BY <1>1, <1>2, SMT
<1>4. p.remaining * hi \in Nat /\ p.remaining * hi >= p.remaining * share
  <2>1. hi * p.remaining >= share * p.remaining /\ hi * p.remaining \in Nat
    BY <1>1, <1>2, Products
  <2> QED
    BY <1>1, <1>2, <2>1, SMT
<1>5. PICK b \in Balances : b = ProjectBalance(p, hi, p.remaining)
  BY <1>1, MoreIsMore
<1>6. b.num >= (p.remaining * hi) * b.den
  BY <1>1, <1>5, PaidIn
<1>7. /\ b.num \in Nat /\ b.den \in Nat
      /\ (p.remaining * hi) * b.den \in Nat /\ p.target * b.den \in Nat
      /\ (p.remaining * hi) * b.den >= p.target * b.den
  <2>1. p.remaining * hi >= p.target
    BY <1>1, <1>2, <1>3, <1>4
  <2> QED
    BY <1>1, <1>4, <2>1, Products DEF Balances
<1>8. Reaches(p, hi, p.remaining)
  BY <1>5, <1>6, <1>7 DEF Reaches
<1> QED
  BY <1>1, <1>8, ReachedWithMore

\* When a route is off its track, has months left and can be reached, it is behind
\* and short of its target, and then each suggested extra is enough.
LEMMA BehindIsHelped ==
  ASSUME NEW p \in Plans, ~OnTrack(p), MonthsNeeded(p) # {}, p.remaining > 0
  PROVE  /\ Behind(p) # {}
         /\ Suggestions(p) # {}
         /\ \A e \in Suggestions(p) : Reaches(p, p.contribution + e, p.remaining)
<1>0. /\ p.contribution \in Nat /\ p.remaining \in Nat /\ p.target \in Nat \ {0}
      /\ MaxMonths \in Nat
  BY RouteFields
<1>1. PICK needed \in 0..MaxMonths :
        /\ MonthsNeeded(p) = {needed}
        /\ Reaches(p, p.contribution, needed)
        /\ \A n \in 0..MaxMonths : Reaches(p, p.contribution, n) => needed <= n
  <2> DEFINE reached == {n \in 0..MaxMonths : Reaches(p, p.contribution, n)}
  <2>1. reached # {} /\ MonthsNeeded(p) = {Least(reached)}
    BY DEF MonthsNeeded
  <2>2. reached \in SUBSET Nat
    BY <1>0
  <2>3. Least(reached) \in reached /\ \A n \in reached : Least(reached) <= n
    <3> HIDE DEF reached
    <3> QED
      BY <2>1, <2>2, LeastNumber
  <2> QED
    BY <2>1, <2>3
<1>2. ~Reaches(p, p.contribution, p.remaining)
  <2> SUFFICES ASSUME Reaches(p, p.contribution, p.remaining) PROVE FALSE
    OBVIOUS
  <2>1. ~(needed > p.remaining)
    BY <1>0, <1>1
  <2>2. Behind(p) = {}
    BY <1>1, <2>1 DEF Behind
  <2> QED
    BY <2>2 DEF OnTrack
<1>3. needed > p.remaining
  <2> SUFFICES ASSUME needed <= p.remaining PROVE FALSE
    BY <1>0, <1>1
  <2> QED
    BY <1>0, <1>1, <1>2, ReachedStays
<1>4. Behind(p) # {}
  BY <1>1, <1>3 DEF Behind
<1> DEFINE share == (p.target + p.remaining - 1) \div p.remaining
           hi == IF share > 100 THEN share ELSE 100
           enough == {e \in 0..hi : Reaches(p, p.contribution + e, p.remaining)}
           exact == IF enough = {} THEN hi ELSE Least(enough)
           tens == (exact + 9) \div 10
<1>5. Suggestions(p) = {10 * tens, 10 * tens + 10}
  BY <1>2, <1>4 DEF Suggestions
<1>6. share \in Nat /\ hi \in Nat /\ hi >= share
  BY <1>0, SMT
<1>7. hi \in enough /\ enough \in SUBSET Nat
  <2>1. Reaches(p, p.contribution + hi, p.remaining)
    BY <1>6, ShareReaches
  <2> HIDE DEF hi
  <2> QED
    BY <1>6, <2>1
<1>8. exact \in enough
  <2> HIDE DEF enough
  <2> QED
    BY <1>7, LeastNumber
<1>9. exact \in Nat /\ Reaches(p, p.contribution + exact, p.remaining)
  BY <1>7, <1>8
<1>10. tens \in Nat /\ 10 * tens >= exact
  <2> HIDE DEF exact
  <2> QED
    BY <1>9, SMT
<1> HIDE DEF exact, tens
<1>11. ASSUME NEW e \in Suggestions(p) PROVE Reaches(p, p.contribution + e, p.remaining)
  <2>1. e \in Nat /\ e >= exact
    BY <1>5, <1>9, <1>10, <1>11
  <2>2. /\ p.contribution + e \in Nat /\ p.contribution + exact \in Nat
        /\ p.contribution + e >= p.contribution + exact
    BY <1>0, <1>9, <2>1
  <2> QED
    BY <1>0, <1>9, <2>2, ReachedWithMore
<1> QED
  BY <1>4, <1>5, <1>11

EngineInv ==
  /\ plan \in Plans
  /\ status.known =>
       /\ status.onTrack = OnTrack(plan) /\ status.needed = MonthsNeeded(plan)
       /\ status.alerts = ScheduleAlerts(plan)
       /\ IF Suggestions(plan) = {} THEN status.extra = {}
          ELSE \E e \in Suggestions(plan) : status.extra = {e}

\* For any routes, rates and amounts: a route that is off its track and can be
\* reached is told to be behind, with an extra that brings it to the target in time,
\* and one on its track is left alone.
THEOREM OffTrackTold == EngineSpec => []OffTrackIsTold
<1>1. EngineInit => EngineInv
  BY DEF EngineInit, EngineInv, NotEvaluated
<1>2. EngineInv /\ [EvaluateRoute]_engineVars => EngineInv'
  BY DEF EngineInv, EvaluateRoute, engineVars
<1>3. EngineInv => OffTrackIsTold
  <2> SUFFICES ASSUME EngineInv, status.known PROVE OffTrackIsTold
    BY DEF OffTrackIsTold
  <2>1. ASSUME ~status.onTrack, status.needed # {}, plan.remaining > 0
        PROVE  /\ "schedule_behind" \in status.alerts
               /\ status.extra # {}
               /\ \A e \in status.extra : Reaches(plan, plan.contribution + e, plan.remaining)
    <3>1. /\ Behind(plan) # {} /\ Suggestions(plan) # {}
          /\ \A e \in Suggestions(plan) :
               Reaches(plan, plan.contribution + e, plan.remaining)
      BY <2>1, BehindIsHelped DEF EngineInv
    <3> QED
      BY <3>1 DEF EngineInv, ScheduleAlerts
  <2>2. ASSUME status.onTrack PROVE status.alerts = {} /\ status.extra = {}
    <3>1. Behind(plan) = {} /\ OnTrack(plan)
      BY <2>2 DEF EngineInv, OnTrack
    <3>2. Suggestions(plan) = {} /\ ScheduleAlerts(plan) = {}
      BY <3>1 DEF Suggestions, ScheduleAlerts
    <3> QED
      BY <3>2 DEF EngineInv
  <2> QED
    BY <2>1, <2>2 DEF OffTrackIsTold
<1> QED
  BY <1>1, <1>2, <1>3, PTL DEF EngineSpec

-----------------------------------------------------------------------------
(* The calculator of debts                                                 *)

\* The products of so many factors, by the recursion.
IsProduct(f, h, m) == h = [n \in 0..m |-> IF n = 0 THEN 1 ELSE f[n] * h[n - 1]]

LEMMA ProductExists ==
  ASSUME NEW f, NEW m \in Nat
  PROVE  \E h : IsProduct(f, h, m)
<1> DEFINE S == {n \in Nat : \E h : IsProduct(f, h, n)}
<1>1. 0 \in S
  <2> DEFINE h == [n \in 0..0 |-> 1]
  <2>1. IsProduct(f, h, 0)
    BY DEF IsProduct
  <2> QED
    BY <2>1
<1>2. ASSUME NEW n \in S PROVE n + 1 \in S
  <2>1. PICK h : IsProduct(f, h, n)
    BY <1>2
  <2> DEFINE g == [k \in 0..n + 1 |-> IF k = n + 1 THEN f[n + 1] * h[n] ELSE h[k]]
  <2>2. n \in Nat /\ n + 1 \in Nat
    BY <1>2
  <2>3. \A k \in 0..n : k \in 0..n + 1 /\ k # n + 1 /\ (k # 0 => k - 1 \in 0..n)
    BY <2>2
  <2>4. \A k \in 0..n : h[k] = IF k = 0 THEN 1 ELSE f[k] * h[k - 1]
    BY <2>1 DEF IsProduct
  <2>5. \A k \in 0..n : g[k] = h[k]
    BY <2>3
  <2>6. \A k \in 0..n + 1 : k \in 0..n \/ k = n + 1
    BY <2>2
  <2>7. \A k \in 0..n + 1 : g[k] = IF k = 0 THEN 1 ELSE f[k] * g[k - 1]
    <3> SUFFICES ASSUME NEW k \in 0..n + 1
                 PROVE  g[k] = IF k = 0 THEN 1 ELSE f[k] * g[k - 1]
      OBVIOUS
    <3>1. CASE k \in 0..n
      BY <2>3, <2>4, <2>5, <3>1
    <3>2. CASE k = n + 1
      <4>1. k # 0 /\ k - 1 = n /\ n \in 0..n
        BY <2>2, <3>2
      <4> QED
        BY <2>5, <3>2, <4>1
    <3> QED
      BY <2>6, <3>1, <3>2
  <2>8. IsProduct(f, g, n + 1)
    BY <2>7, Zenon DEF IsProduct
  <2> QED
    BY <2>2, <2>8
<1> HIDE DEF S
<1>3. S = Nat
  BY <1>1, <1>2, MonthByMonth DEF S
<1> QED
  BY <1>3 DEF S

LEMMA ProductAgrees ==
  ASSUME NEW f, NEW m \in Nat, NEW g, NEW h,
         IsProduct(f, g, m), IsProduct(f, h, m + 1), NEW n \in Nat, n <= m
  PROVE  g[n] = h[n]
<1> DEFINE S == {i \in Nat : i <= m => g[i] = h[i]}
<1>1. 0 \in S
  BY DEF IsProduct
<1>2. ASSUME NEW i \in S PROVE i + 1 \in S
  <2>1. i \in Nat
    BY <1>2
  <2>2. ASSUME i + 1 <= m PROVE g[i + 1] = h[i + 1]
    <3>1. g[i] = h[i]
      BY <1>2, <2>1, <2>2
    <3>2. i + 1 \in 0..m /\ i + 1 \in 0..m + 1 /\ i + 1 # 0 /\ (i + 1) - 1 = i
      BY <2>1, <2>2
    <3>3. g[i + 1] = f[i + 1] * g[i] /\ h[i + 1] = f[i + 1] * h[i]
      BY <3>2 DEF IsProduct
    <3> QED
      BY <3>1, <3>3
  <2> QED
    BY <2>1, <2>2
<1> HIDE DEF S
<1>3. n \in S
  BY <1>1, <1>2, MonthByMonth DEF S
<1> QED
  BY <1>3 DEF S

LEMMA ProductStep ==
  ASSUME NEW f, NEW n \in Nat
  PROVE  /\ Product(f, 0) = 1
         /\ Product(f, n + 1) = f[n + 1] * Product(f, n)
<1>1. ASSUME NEW m \in Nat
      PROVE  \E h : IsProduct(f, h, m) /\ Product(f, m) = h[m]
  <2> DEFINE h == CHOOSE g : IsProduct(f, g, m)
  <2>1. Product(f, m) = h[m]
    BY Zenon DEF Product, IsProduct
  <2>2. IsProduct(f, h, m)
    BY ProductExists
  <2> QED
    BY <2>1, <2>2
<1>2. Product(f, 0) = 1
  <2>1. PICK h : IsProduct(f, h, 0) /\ Product(f, 0) = h[0]
    BY <1>1
  <2> QED
    BY <2>1 DEF IsProduct
<1>3. Product(f, n + 1) = f[n + 1] * Product(f, n)
  <2>1. PICK g : IsProduct(f, g, n) /\ Product(f, n) = g[n]
    BY <1>1
  <2>2. n + 1 \in Nat
    OBVIOUS
  <2>3. PICK h : IsProduct(f, h, n + 1) /\ Product(f, n + 1) = h[n + 1]
    BY <1>1, <2>2
  <2>4. g[n] = h[n]
    BY <2>1, <2>3, ProductAgrees
  <2>5. n + 1 \in 0..n + 1 /\ n + 1 # 0 /\ (n + 1) - 1 = n
    OBVIOUS
  <2>6. h[n + 1] = f[n + 1] * h[n]
    BY <2>3, <2>5 DEF IsProduct
  <2> QED
    BY <2>1, <2>3, <2>4, <2>6
<1> QED
  BY <1>2, <1>3

LEMMA PowerStep ==
  ASSUME NEW x \in Nat, NEW n \in Nat
  PROVE  /\ Power(x, 0) = 1
         /\ Power(x, n) \in Nat
         /\ Power(x, n + 1) = x * Power(x, n)
<1> DEFINE S == {i \in Nat : Power(x, i) \in Nat}
<1>1. \A i \in Nat : Power(x, i + 1) = x * Power(x, i)
  <2> TAKE i \in Nat
  <2> DEFINE f == [k \in Nat |-> x]
  <2>1. f[i + 1] = x
    OBVIOUS
  <2> HIDE DEF f
  <2>2. Product(f, i + 1) = f[i + 1] * Product(f, i)
    BY ProductStep
  <2> QED
    BY <2>1, <2>2 DEF Power, f
<1>2. Power(x, 0) = 1
  BY ProductStep DEF Power
<1>3. 0 \in S
  BY <1>2
<1>4. ASSUME NEW i \in S PROVE i + 1 \in S
  <2>1. Power(x, i + 1) = x * Power(x, i)
    BY <1>1, <1>4
  <2>2. Power(x, i) \in Nat /\ x * Power(x, i) \in Nat
    BY <1>4
  <2> QED
    BY <1>4, <2>1, <2>2
<1>5. S \in SUBSET Nat
  OBVIOUS
<1> HIDE DEF S
<1>6. S = Nat
  BY <1>3, <1>4, <1>5, MonthByMonth
<1>7. n \in S
  BY <1>6
<1> QED
  BY <1>1, <1>2, <1>7 DEF S

\* Multiplying by more gives more.
LEMMA MoreTimesMore ==
  ASSUME NEW a \in Nat, NEW b \in Nat, NEW c \in Nat, NEW d \in Nat, a <= b, c <= d
  PROVE  /\ a * c \in Nat /\ b * d \in Nat
         /\ a * c <= b * d
         /\ a < b /\ d > 0 => a * c < b * d
<1>1. a * c \in Nat /\ b * d \in Nat /\ a * d \in Nat
  BY SMT
<1>2. a * c <= a * d
  BY SMT
<1>3. a * d <= b * d
  BY SMT
<1>4. a < b /\ d > 0 => a * d < b * d
  BY SMT
<1> QED
  BY <1>1, <1>2, <1>3, <1>4

LEMMA PowerGrows ==
  ASSUME NEW x \in Nat \ {0}, NEW y \in Nat, x < y, NEW n \in Nat
  PROVE  /\ Power(x, n) >= 1
         /\ Power(x, n) <= Power(y, n)
         /\ n > 0 => Power(x, n) < Power(y, n)
<1> DEFINE S == {i \in Nat : /\ Power(x, i) >= 1
                             /\ Power(x, i) <= Power(y, i)
                             /\ i > 0 => Power(x, i) < Power(y, i)}
<1>1. 0 \in S
  BY PowerStep
<1>2. ASSUME NEW i \in S PROVE i + 1 \in S
  <2> DEFINE X == Power(x, i)
             Y == Power(y, i)
  <2>1. X \in Nat /\ Y \in Nat /\ X >= 1 /\ X <= Y
    BY <1>2, PowerStep
  <2>2. Power(x, i + 1) = x * X /\ Power(y, i + 1) = y * Y
    BY <1>2, PowerStep
  <2> HIDE DEF X, Y
  <2>3. x * X \in Nat /\ y * Y \in Nat /\ x * X < y * Y
    BY <2>1, MoreTimesMore
  <2>4. 1 * 1 <= x * X
    BY <2>1, MoreTimesMore
  <2> QED
    BY <1>2, <2>2, <2>3, <2>4
<1> HIDE DEF S
<1>3. n \in S
  BY <1>1, <1>2, MonthByMonth DEF S
<1> QED
  BY <1>3 DEF S

\* What is divided by a factor of it.
LEMMA DividesOut ==
  ASSUME NEW c \in Nat \ {0}, NEW q \in Nat
  PROVE  c * q \in Nat /\ (c * q) \div c = q
BY SMT

LEMMA Cancel ==
  ASSUME NEW a \in Int, NEW b \in Int, NEW c \in Nat \ {0}
  PROVE  /\ a * c = b * c => a = b
         /\ a * c <= b * c => a <= b
<1>1. a < b => a * c < b * c
  BY SMT
<1>2. b < a => b * c < a * c
  BY SMT
<1> QED
  BY <1>1, <1>2, SMT

\* Who owes more has more left after a month of the same share.
LEMMA SharesLeaveOrder ==
  ASSUME NEW a \in Nat, NEW b \in Nat, a <= b, NEW k \in Nat \ {0}
  PROVE  /\ a \div k \in Nat /\ b \div k \in Nat
         /\ a \div k <= a /\ b \div k <= b
         /\ a - a \div k <= b - b \div k
BY SMT

LEMMA FloorGrows ==
  ASSUME NEW a \in Nat, NEW b \in Nat, a <= b, NEW k \in Nat \ {0}
  PROVE  a \div k \in Nat /\ b \div k \in Nat /\ a \div k <= b \div k
BY SMT

LEMMA PartLeavesOrder ==
  ASSUME NEW a \in Nat, NEW b \in Nat, a <= b, NEW m \in Nat, m <= 100
  PROVE  /\ (a * m) \div 100 \in Nat /\ (b * m) \div 100 \in Nat
         /\ a - (a * m) \div 100 <= b - (b * m) \div 100
BY SMT

LEMMA OverpaidAtOnce ==
  ASSUME NEW a \in Nat, NEW m \in Nat, m > 100
  PROVE  (a * m) \div 100 \in Nat /\ (a * m) \div 100 >= a
BY SMT

\* One month of an installment, where G and P are the powers that remain of
\* g = p + r and of p, and c = g * G - p * P is what the installment is divided by.
LEMMA InstallmentMonth ==
  ASSUME NEW p \in Nat \ {0}, NEW r \in Nat \ {0}, NEW G \in Nat, NEW P \in Nat \ {0},
         P <= G, NEW B \in Nat, NEW A \in Nat, NEW I \in Nat, NEW c \in Int,
         c = (p + r) * G - p * P,
         I * p = B * r, (B * r) * ((p + r) * G) = A * (p * c)
  PROVE  /\ c > 0
         /\ I <= A /\ A - I <= B
         /\ (B - (A - I)) * c = B * ((p + r) * (G - P))
         /\ ((B - (A - I)) * r) * G = A * (p * (G - P))
<1> DEFINE g == p + r
<1>1. g \in Nat /\ g > p /\ g * G \in Nat /\ p * P \in Nat /\ p * P < g * G
  <2>1. g \in Nat /\ p <= g /\ p < g
    OBVIOUS
  <2>2. p * P \in Nat /\ g * P \in Nat /\ g * G \in Nat /\ p * P < g * P
    BY <2>1, MoreTimesMore
  <2>3. g * P <= g * G
    BY <2>1, MoreTimesMore
  <2> QED
    BY <2>1, <2>2, <2>3
<1>2. c \in Nat \ {0}
  BY <1>1
<1>3. (A - I) * c = (B * r) * P
  <2>1. ((A - I) * c) * p = A * (p * c) - (I * p) * c
    BY <1>2, SMT
  <2>2. ((A - I) * c) * p = (B * r) * (g * G) - (B * r) * c
    BY <2>1
  <2>3. (B * r) * (g * G) - (B * r) * c = (B * r) * (p * P)
    <3> DEFINE u == B * r
               v == g * G
               w == p * P
    <3>1. u \in Int /\ v \in Int /\ w \in Int /\ c = v - w
      BY <1>1
    <3> HIDE DEF u, v, w
    <3>2. u * v - u * c = u * w
      BY <3>1, SMT
    <3> QED
      BY <3>2 DEF u, v, w
  <2>4. (B * r) * (p * P) = ((B * r) * P) * p
    BY SMT
  <2>5. (A - I) * c \in Int /\ (B * r) * P \in Int
    BY <1>2
  <2> QED
    BY <2>2, <2>3, <2>4, <2>5, Cancel
<1>4. (B - (A - I)) * c = B * (g * (G - P))
  <2>1. (B - (A - I)) * c = B * c - (A - I) * c
    BY <1>2, SMT
  <2>2. (B - (A - I)) * c = B * c - (B * r) * P
    BY <1>3, <2>1
  <2>3. B * c - (B * r) * P = B * (g * (G - P))
    <3>1. g * (G - P) = g * G - g * P /\ g * P = p * P + r * P
      BY SMT
    <3>2. g * (G - P) = c - r * P
      BY <1>1, <3>1, SMT
    <3> DEFINE w == r * P
    <3>3. w \in Int /\ (B * r) * P = B * w
      BY SMT
    <3>4. g * (G - P) = c - w
      BY <3>2
    <3> HIDE DEF w, g
    <3>5. B * (c - w) = B * c - B * w
      BY <3>3, <1>2, SMT
    <3> QED
      BY <3>3, <3>4, <3>5
  <2> QED
    BY <2>2, <2>3
<1>5. I <= A
  <2>1. (A - I) * c >= 0 * c
    <3>1. (B * r) * P \in Nat
      BY SMT
    <3> QED
      BY <1>2, <1>3, <3>1
  <2>2. A - I >= 0
    BY <1>2, <2>1, Cancel
  <2> QED
    BY <2>2
<1>6. A - I <= B
  <2>1. B * (g * (G - P)) \in Nat
    <3>1. G - P \in Nat /\ g \in Nat
      BY <1>1
    <3>2. g * (G - P) \in Nat
      BY <3>1, MoreTimesMore
    <3> QED
      BY <3>2, MoreTimesMore
  <2>2. 0 * c <= (B - (A - I)) * c
    BY <1>2, <1>4, <2>1
  <2>3. 0 <= B - (A - I)
    BY <1>2, <2>2, Cancel
  <2> QED
    BY <2>3
<1>7. ((B - (A - I)) * r) * G = A * (p * (G - P))
  <2> DEFINE rest == B - (A - I)
             h == G - P
  <2>1. rest \in Nat /\ h \in Nat
    BY <1>5, <1>6
  <2>2. rest * c = B * (g * h)
    BY <1>4
  <2> HIDE DEF rest, h
  <2>3. ((rest * r) * G) * c = (rest * c) * (r * G)
    BY <1>2, <2>1, SMT
  <2>4. (B * (g * h)) * (r * G) = ((B * r) * (g * G)) * h
    BY <1>1, <2>1, SMT
  <2>5. (A * (p * c)) * h = (A * (p * h)) * c
    BY <1>2, <2>1, SMT
  <2>6. ((rest * r) * G) * c = (A * (p * h)) * c
    BY <2>2, <2>3, <2>4, <2>5
  <2>7. (rest * r) * G \in Int /\ A * (p * h) \in Int
    BY <2>1, SMT
  <2>8. (rest * r) * G = A * (p * h)
    BY <1>2, <2>6, <2>7, Cancel
  <2> QED
    BY <2>8 DEF rest, h
<1> QED
  BY <1>2, <1>4, <1>5, <1>6, <1>7

Whole(l, amount, n) == \E q \in Nat : amount = Grain(l, n) * q

\* The installment that pays a debt off in n months.
PaysOff(l, debt, paid, n) ==
  IF l.rate = 0 THEN debt = paid * n
  ELSE (debt * l.rate) * Power(Parts + l.rate, n)
         = paid * (Parts * (Power(Parts + l.rate, n) - Power(Parts, n)))

LEMMA LoanFields ==
  ASSUME NEW l \in Loans
  PROVE  /\ l.system \in {"sac", "price", "card"}
         /\ l.strategy \in {"reduceTerm", "reduceInstallment"}
         /\ l.principal \in Nat /\ l.term \in Nat /\ l.rate \in Nat
         /\ l.extra \in Nat /\ l.lump \in Nat /\ l.lumpMonth \in Nat
         /\ l.minimum \in Nat /\ l.fixed \in Nat
         /\ Parts \in Nat \ {0} /\ Coin \in Nat \ {0}
         /\ Slack \in Nat /\ CardMonths \in Nat
BY DebtAssumption

\* The powers that a loan with interest grows by.
LEMMA LoanPowers ==
  ASSUME NEW l \in Loans, l.rate # 0, NEW n \in Nat
  PROVE  /\ Power(Parts + l.rate, n) \in Nat /\ Power(Parts, n) \in Nat \ {0}
         /\ Power(Parts + l.rate, n + 1) \in Nat
         /\ Power(Parts, n) <= Power(Parts + l.rate, n)
         /\ Power(Parts + l.rate, n + 1) = (Parts + l.rate) * Power(Parts + l.rate, n)
         /\ Power(Parts, n + 1) = Parts * Power(Parts, n)
         /\ Power(Parts + l.rate, n + 1) - Power(Parts, n + 1) \in Nat \ {0}
<1>1. Parts \in Nat \ {0} /\ Parts + l.rate \in Nat /\ Parts < Parts + l.rate
  BY LoanFields
<1>2. n + 1 \in Nat /\ n + 1 > 0
  OBVIOUS
<1>3. /\ Power(Parts, n) \in Nat /\ Power(Parts, n + 1) \in Nat
      /\ Power(Parts + l.rate, n) \in Nat /\ Power(Parts + l.rate, n + 1) \in Nat
  BY <1>1, <1>2, PowerStep
<1>4. /\ Power(Parts, n) >= 1 /\ Power(Parts, n) <= Power(Parts + l.rate, n)
      /\ Power(Parts, n + 1) < Power(Parts + l.rate, n + 1)
  BY <1>1, <1>2, PowerGrows
<1>5. /\ Power(Parts + l.rate, n + 1) = (Parts + l.rate) * Power(Parts + l.rate, n)
      /\ Power(Parts, n + 1) = Parts * Power(Parts, n)
  BY <1>1, PowerStep
<1> QED
  BY <1>3, <1>4, <1>5

LEMMA DivisorIsNat ==
  ASSUME NEW l \in Loans, NEW n \in Nat
  PROVE  Divisor(l, n + 1) \in Nat \ {0}
<1>1. CASE l.system = "price" /\ l.rate > 0
  <2> DEFINE c == Power(Parts + l.rate, n + 1) - Power(Parts, n + 1)
  <2>1. c \in Nat \ {0} /\ Parts \in Nat \ {0}
    <3>1. l.rate # 0 /\ Parts \in Nat \ {0}
      BY <1>1, LoanFields
    <3>2. c \in Nat \ {0}
      BY <3>1, LoanPowers
    <3> QED
      BY <3>1, <3>2
  <2>2. Divisor(l, n + 1) = Parts * c
    BY <1>1 DEF Divisor
  <2> HIDE DEF c
  <2>3. Parts * c \in Nat /\ 1 * 1 <= Parts * c
    BY <2>1, MoreTimesMore
  <2> QED
    BY <2>2, <2>3
<1>2. CASE ~(l.system = "price" /\ l.rate > 0)
  BY <1>2 DEF Divisor
<1> QED
  BY <1>1, <1>2

LEMMA GrainStep ==
  ASSUME NEW l \in Loans, NEW n \in Nat
  PROVE  /\ Grain(l, n) \in Nat \ {0}
         /\ Grain(l, n + 1) = Divisor(l, n + 1) * Grain(l, n)
<1> DEFINE S == {i \in Nat : Grain(l, i) \in Nat \ {0}}
<1>1. \A i \in Nat : Grain(l, i + 1) = Divisor(l, i + 1) * Grain(l, i)
  <2> TAKE i \in Nat
  <2> DEFINE f == [k \in Nat |-> Divisor(l, k)]
  <2>1. f[i + 1] = Divisor(l, i + 1)
    OBVIOUS
  <2> HIDE DEF f
  <2>2. Product(f, i + 1) = f[i + 1] * Product(f, i)
    BY ProductStep
  <2> QED
    BY <2>1, <2>2 DEF Grain, f
<1>2. Grain(l, 0) = 1
  BY ProductStep DEF Grain
<1>3. 0 \in S
  BY <1>2
<1>4. ASSUME NEW i \in S PROVE i + 1 \in S
  <2> DEFINE d == Divisor(l, i + 1)
             e == Grain(l, i)
  <2>1. d \in Nat \ {0} /\ e \in Nat \ {0} /\ Grain(l, i + 1) = d * e
    BY <1>1, <1>4, DivisorIsNat
  <2> HIDE DEF d, e
  <2>2. d * e \in Nat /\ 1 * 1 <= d * e
    BY <2>1, MoreTimesMore
  <2> QED
    BY <1>4, <2>1, <2>2
<1>5. S \in SUBSET Nat
  OBVIOUS
<1> HIDE DEF S
<1>6. S = Nat
  BY <1>3, <1>4, <1>5, MonthByMonth
<1>7. n \in S
  BY <1>6
<1> QED
  BY <1>1, <1>7 DEF S

\* What divides evenly for a longer rest of the term does so for a shorter one.
LEMMA WholeStays ==
  ASSUME NEW l \in Loans, NEW n \in Nat, NEW a, Whole(l, a, n + 1)
  PROVE  a \in Nat /\ Whole(l, a, n)
<1> DEFINE d == Divisor(l, n + 1)
           e == Grain(l, n)
<1>1. d \in Nat \ {0} /\ e \in Nat \ {0} /\ Grain(l, n + 1) = d * e
  BY DivisorIsNat, GrainStep
<1>2. PICK q \in Nat : a = Grain(l, n + 1) * q
  BY DEF Whole
<1> HIDE DEF d, e
<1>3. (d * e) * q = e * (d * q) /\ d * q \in Nat /\ e * (d * q) \in Nat
  BY <1>1, SMT
<1>4. a = e * (d * q)
  BY <1>1, <1>2, <1>3
<1> QED
  BY <1>3, <1>4 DEF Whole, e

LEMMA PaymentIsNat ==
  ASSUME loan \in Loans, NEW n \in Nat, NEW debt \in Nat
  PROVE  PricePayment(debt, n + 1) \in Nat
<1>1. CASE loan.rate = 0
  BY <1>1, FloorGrows DEF PricePayment
<1>2. CASE loan.rate # 0
  <2> DEFINE g == Power(Parts + loan.rate, n + 1)
             c == g - Power(Parts, n + 1)
  <2>1. g \in Nat /\ c \in Nat \ {0} /\ Parts \in Nat \ {0} /\ loan.rate \in Nat
    <3>1. Parts \in Nat \ {0} /\ loan.rate \in Nat
      BY LoanFields
    <3>2. g \in Nat /\ c \in Nat \ {0}
      BY <1>2, LoanPowers
    <3> QED
      BY <3>1, <3>2
  <2>2. PricePayment(debt, n + 1) = (debt * loan.rate * g) \div (Parts * c)
    BY <1>2 DEF PricePayment
  <2> HIDE DEF g, c
  <2>3. Parts * c \in Nat /\ 1 * 1 <= Parts * c
    BY <2>1, MoreTimesMore
  <2>4. debt * loan.rate * g \in Nat
    BY <2>1, SMT
  <2> HIDE <2>1
  <2>5. (debt * loan.rate * g) \div (Parts * c) \in Nat
    BY <2>3, <2>4, FloorGrows
  <2> QED
    BY <2>2, <2>5
<1> QED
  BY <1>1, <1>2

\* The payment of calculatePricePayment pays a debt off that divides evenly.
LEMMA PaymentPaysOff ==
  ASSUME loan \in Loans, loan.system = "price", NEW n \in Nat, NEW debt,
         Whole(loan, debt, n + 1)
  PROVE  PaysOff(loan, debt, PricePayment(debt, n + 1), n + 1)
<1> DEFINE d == Divisor(loan, n + 1)
           e == Grain(loan, n)
<1>1. d \in Nat \ {0} /\ e \in Nat \ {0} /\ Grain(loan, n + 1) = d * e
  BY DivisorIsNat, GrainStep
<1>2. PICK q \in Nat : debt = Grain(loan, n + 1) * q
  BY DEF Whole
<1>3. CASE loan.rate = 0
  <2>1. d = n + 1
    BY <1>3 DEF Divisor
  <2> HIDE DEF d, e
  <2>2. e * q \in Nat /\ debt = d * (e * q) /\ (e * q) * d = d * (e * q)
    BY <1>1, <1>2, SMT
  <2>3. debt \div d = e * q
    BY <1>1, <2>2, DividesOut
  <2> QED
    BY <1>3, <2>1, <2>2, <2>3 DEF PaysOff, PricePayment
<1>4. CASE loan.rate # 0
  <2> DEFINE g == Power(Parts + loan.rate, n + 1)
  <2>1. g \in Nat /\ loan.rate \in Nat
    <3>1. g \in Nat
      BY <1>4, LoanPowers
    <3>2. loan.rate \in Nat
      BY LoanFields
    <3> QED
      BY <3>1, <3>2
  <2>2. d = Parts * (g - Power(Parts, n + 1))
    BY <1>4, <2>1 DEF Divisor
  <2>3. PricePayment(debt, n + 1) = (debt * loan.rate * g) \div d
    BY <1>4, <2>2 DEF PricePayment
  <2>4. PaysOff(loan, debt, PricePayment(debt, n + 1), n + 1)
          <=> (debt * loan.rate) * g = PricePayment(debt, n + 1) * d
    BY <1>4, <2>2 DEF PaysOff
  <2> HIDE DEF d, e, g
  <2> DEFINE r == loan.rate
             paid == ((e * q) * r) * g
  <2>5. paid \in Nat /\ ((d * e) * q) * r * g = d * paid /\ paid * d = d * paid
    BY <1>1, <2>1, SMT
  <2>6. (debt * r) * g = d * paid
    BY <1>1, <1>2, <2>5
  <2> HIDE DEF paid
  <2>7. (d * paid) \div d = paid
    BY <1>1, <2>5, DividesOut
  <2> QED
    BY <2>3, <2>4, <2>5, <2>6, <2>7
<1> QED
  BY <1>3, <1>4

\* What an installment leaves of a debt, as a fraction of it that depends on the
\* rate and on the months that remain, and not on the debt.
Before(l, n) ==
  IF l.rate = 0 THEN n + 1 ELSE Power(Parts + l.rate, n + 1) - Power(Parts, n + 1)
After(l, n) ==
  IF l.rate = 0 THEN n
  ELSE (Parts + l.rate) * (Power(Parts + l.rate, n) - Power(Parts, n))

LEMMA PlainMonth ==
  ASSUME loan \in Loans, loan.system = "price", loan.rate = 0, NEW n \in Nat,
         NEW debt \in Nat, NEW paid \in Nat,
         Whole(loan, debt, n + 1), PaysOff(loan, debt, paid, n + 1)
  PROVE  /\ Interest(debt) = 0
         /\ paid <= debt
         /\ Whole(loan, debt - paid, n) /\ PaysOff(loan, debt - paid, paid, n)
         /\ (debt - paid) * Before(loan, n) = debt * After(loan, n)
<1>1. Interest(debt) = 0
  <2>1. debt * 0 = 0 /\ Parts \in Nat \ {0}
    BY LoanFields
  <2>2. 0 \div Parts = 0
    BY <2>1, SMT
  <2> QED
    BY <2>1, <2>2 DEF Interest
<1>2. debt = paid * (n + 1)
  BY DEF PaysOff
<1>3. debt = paid * n + paid /\ paid * n \in Nat
  BY <1>2, SMT
<1>4. debt - paid = paid * n /\ paid <= debt
  BY <1>3
<1>5. PaysOff(loan, debt - paid, paid, n)
  BY <1>4 DEF PaysOff
<1>6. (debt - paid) * (n + 1) = debt * n
  BY <1>2, <1>4, SMT
<1>7. Whole(loan, debt - paid, n)
  <2> DEFINE e == Grain(loan, n)
  <2>1. PICK q \in Nat : debt = Grain(loan, n + 1) * q
    BY DEF Whole
  <2>2. e \in Nat \ {0} /\ Grain(loan, n + 1) = (n + 1) * e
    BY GrainStep DEF Divisor
  <2> HIDE DEF e
  <2>3. paid * (n + 1) = (e * q) * (n + 1) /\ e * q \in Nat
    BY <1>2, <2>1, <2>2, SMT
  <2>4. paid = e * q
    BY <2>3, Cancel
  <2>5. paid * n = e * (q * n) /\ q * n \in Nat
    BY <2>2, <2>4, SMT
  <2> QED
    BY <1>4, <2>5 DEF Whole, e
<1> QED
  BY <1>1, <1>4, <1>5, <1>6, <1>7 DEF Before, After

LEMMA InterestMonth ==
  ASSUME loan \in Loans, loan.system = "price", loan.rate # 0, NEW n \in Nat,
         NEW debt \in Nat, NEW paid \in Nat,
         Whole(loan, debt, n + 1), PaysOff(loan, debt, paid, n + 1)
  PROVE  /\ Interest(debt) \in Nat /\ Interest(debt) <= paid
         /\ paid - Interest(debt) <= debt
         /\ Whole(loan, debt - (paid - Interest(debt)), n)
         /\ PaysOff(loan, debt - (paid - Interest(debt)), paid, n)
         /\ (debt - (paid - Interest(debt))) * Before(loan, n) = debt * After(loan, n)
<1> DEFINE p == Parts
           r == loan.rate
           G == Power(Parts + loan.rate, n)
           P == Power(Parts, n)
           c == Before(loan, n)
           h == After(loan, n)
           e == Grain(loan, n)
           I == Interest(debt)
           rest == debt - (paid - I)
<1>1. p \in Nat \ {0} /\ r \in Nat \ {0}
  BY LoanFields
<1>2. G \in Nat /\ P \in Nat \ {0} /\ P <= G
  BY LoanPowers
<1>3. c \in Nat \ {0} /\ c = (p + r) * G - p * P /\ h = (p + r) * (G - P)
  BY LoanPowers DEF Before, After
<1>4. e \in Nat \ {0} /\ Grain(loan, n + 1) = (p * c) * e
  <2>1. Divisor(loan, n + 1) = p * c
    BY <1>1 DEF Divisor, Before
  <2>2. e \in Nat \ {0} /\ Grain(loan, n + 1) = Divisor(loan, n + 1) * e
    BY GrainStep
  <2> QED
    BY <2>1, <2>2
<1>5. PICK q \in Nat : debt = Grain(loan, n + 1) * q
  BY DEF Whole
<1>6. (debt * r) * ((p + r) * G) = paid * (p * c)
  <2>1. Power(Parts + loan.rate, n + 1) = (p + r) * G
    BY LoanPowers
  <2>2. (debt * loan.rate) * Power(Parts + loan.rate, n + 1)
          = paid * (Parts * (Power(Parts + loan.rate, n + 1) - Power(Parts, n + 1)))
    BY DEF PaysOff
  <2> QED
    BY <2>1, <2>2 DEF Before
<1>7. I = (debt * r) \div p
  BY DEF Interest
<1>8. PaysOff(loan, rest, paid, n) <=> (rest * r) * G = paid * (p * (G - P))
  BY DEF PaysOff
<1> HIDE DEF p, r, G, P, c, h, e, I
<1>9. debt = ((p * c) * e) * q
  BY <1>4, <1>5
<1>10. I \in Nat /\ I * p = debt * r
  <2> DEFINE t == ((c * e) * q) * r
  <2>1. t \in Nat /\ debt * r = p * t /\ t * p = p * t
    BY <1>1, <1>3, <1>4, <1>9, SMT
  <2> HIDE DEF t
  <2>2. (p * t) \div p = t
    BY <1>1, <2>1, DividesOut
  <2> QED
    BY <1>7, <2>1, <2>2
<1>11. /\ I <= paid /\ paid - I <= debt
       /\ rest * c = debt * ((p + r) * (G - P))
       /\ (rest * r) * G = paid * (p * (G - P))
  BY <1>1, <1>2, <1>3, <1>6, <1>10, InstallmentMonth
<1>12. rest \in Nat
  BY <1>10, <1>11
<1>13. Whole(loan, rest, n)
  <2>1. h \in Nat
    <3>1. p + r \in Nat /\ G - P \in Nat
      BY <1>1, <1>2
    <3> QED
      BY <1>3, <3>1, MoreTimesMore
  <2>2. rest * c = debt * h
    BY <1>3, <1>11
  <2> DEFINE z == (p * q) * h
  <2>3. z \in Nat /\ e * z \in Nat /\ debt * h = (e * z) * c
    BY <1>1, <1>3, <1>4, <1>9, <2>1, SMT
  <2> HIDE DEF z, rest
  <2>4. rest * c = (e * z) * c
    BY <2>2, <2>3
  <2>5. rest \in Int /\ e * z \in Int /\ c \in Nat \ {0}
    BY <1>3, <1>12, <2>3
  <2>6. rest = e * z
    BY <2>4, <2>5, Cancel
  <2> QED
    BY <2>3, <2>6 DEF Whole, e
<1> QED
  BY <1>3, <1>8, <1>10, <1>11, <1>13 DEF I, c, h

LEMMA PriceMonth ==
  ASSUME loan \in Loans, loan.system = "price", NEW n \in Nat,
         NEW debt \in Nat, NEW paid \in Nat,
         Whole(loan, debt, n + 1), PaysOff(loan, debt, paid, n + 1)
  PROVE  /\ Interest(debt) \in Nat /\ Interest(debt) <= paid
         /\ paid - Interest(debt) <= debt
         /\ Whole(loan, debt - (paid - Interest(debt)), n)
         /\ PaysOff(loan, debt - (paid - Interest(debt)), paid, n)
         /\ (debt - (paid - Interest(debt))) * Before(loan, n) = debt * After(loan, n)
<1>1. CASE loan.rate = 0
  <2>1. /\ Interest(debt) = 0 /\ paid <= debt
        /\ Whole(loan, debt - paid, n) /\ PaysOff(loan, debt - paid, paid, n)
        /\ (debt - paid) * Before(loan, n) = debt * After(loan, n)
    BY <1>1, PlainMonth
  <2>2. paid - 0 = paid
    OBVIOUS
  <2> QED
    BY <2>1, <2>2
<1>2. CASE loan.rate # 0
  BY <1>2, InterestMonth
<1> QED
  BY <1>1, <1>2

LEMMA FractionFields ==
  ASSUME NEW l \in Loans, NEW n \in Nat
  PROVE  /\ Before(l, n) \in Nat \ {0} /\ After(l, n) \in Nat
         /\ n = 0 => After(l, n) = 0
<1>1. CASE l.rate = 0
  BY <1>1 DEF Before, After
<1>2. CASE l.rate # 0
  <2> DEFINE G == Power(Parts + l.rate, n)
             P == Power(Parts, n)
             g == Parts + l.rate
  <2>1. Before(l, n) \in Nat \ {0}
    BY <1>2, LoanPowers DEF Before
  <2>2. G - P \in Nat
    <3>1. G \in Nat /\ P \in Nat /\ P <= G
      BY <1>2, LoanPowers
    <3> QED
      BY <3>1
  <2>3. g \in Nat /\ Parts \in Nat
    BY LoanFields
  <2>4. n = 0 => G - P = 0
    <3>1. Power(g, 0) = 1
      BY <2>3, PowerStep
    <3>2. Power(Parts, 0) = 1
      BY <2>3, PowerStep
    <3> QED
      BY <3>1, <3>2
  <2>5. After(l, n) = g * (G - P)
    BY <1>2 DEF After
  <2> HIDE DEF G, P, g
  <2>6. g * (G - P) \in Nat
    BY <2>2, <2>3, MoreTimesMore
  <2>7. g * 0 = 0
    BY <2>3
  <2> QED
    BY <2>1, <2>4, <2>5, <2>6, <2>7
<1> QED
  BY <1>1, <1>2

\* After the last installment nothing is left, and who owed more has more left.
LEMMA InstallmentsEnd ==
  ASSUME loan \in Loans, NEW debt \in Nat, NEW rest \in Nat,
         rest * Before(loan, 0) = debt * After(loan, 0)
  PROVE  rest = 0
<1>1. Before(loan, 0) \in Nat \ {0} /\ After(loan, 0) = 0
  BY FractionFields
<1>2. debt * 0 = 0 /\ 0 * Before(loan, 0) = 0
  BY <1>1, SMT
<1>3. rest * Before(loan, 0) = 0 * Before(loan, 0)
  BY <1>1, <1>2
<1> QED
  BY <1>1, <1>3, Cancel

LEMMA InstallmentsLeaveOrder ==
  ASSUME loan \in Loans, NEW n \in Nat,
         NEW a \in Nat, NEW b \in Nat, a <= b, NEW u \in Nat, NEW v \in Nat,
         u * Before(loan, n) = a * After(loan, n),
         v * Before(loan, n) = b * After(loan, n)
  PROVE  u <= v
<1>1. Before(loan, n) \in Nat \ {0} /\ After(loan, n) \in Nat
  BY FractionFields
<1>2. a * After(loan, n) <= b * After(loan, n)
  BY <1>1, MoreTimesMore
<1>3. u * Before(loan, n) <= v * Before(loan, n)
  BY <1>2
<1> QED
  BY <1>1, <1>3, Cancel

DebtTypeOK ==
  /\ loan \in Loans
  /\ month \in Nat
  /\ owed \in [Schedules -> Nat]
  /\ installment \in [Schedules -> Nat]

Remaining == Term - month

OnCourse(x) ==
  /\ Whole(loan, owed[x], Remaining)
  /\ PaysOff(loan, owed[x], installment[x], Remaining)

\* A slice of the principal is paid a month: no more is owed than those that
\* remain.
SlicesRemain ==
  loan.system = "sac" /\ loan.strategy = "reduceTerm" =>
    \A x \in Schedules : owed[x] <= Remaining * (loan.principal \div Term)

\* The installments pay off what they are calculated for, in the months that
\* remain; where the term shrinks, the installment is the one agreed.
InstallmentsRemain ==
  loan.system = "price" =>
    /\ Whole(loan, loan.extra, Remaining) /\ Whole(loan, loan.lump, Remaining)
    /\ OnCourse("baseline")
    /\ loan.strategy = "reduceInstallment" => OnCourse("optimized")
    /\ loan.strategy = "reduceTerm" => installment["optimized"] = installment["baseline"]

DebtInv ==
  /\ DebtTypeOK
  /\ Settled(owed["optimized"]) \/ owed["optimized"] <= owed["baseline"]
  /\ loan.system # "card" =>
       month <= Term /\ (month = Term => \A x \in Schedules : owed[x] = 0)
  /\ SlicesRemain
  /\ InstallmentsRemain

LEMMA TermIsNat ==
  ASSUME loan \in Loans
  PROVE  Term \in Nat \ {0} /\ (Term # 1 => Term = loan.term)
BY LoanFields DEF Term, Higher

LEMMA ExtraIsNat ==
  ASSUME DebtTypeOK, NEW x \in Schedules
  PROVE  Extra(x) \in Nat /\ Extra("baseline") = 0
BY LoanFields DEF DebtTypeOK, Extra

LEMMA InterestIsNat ==
  ASSUME loan \in Loans, NEW debt \in Nat
  PROVE  Interest(debt) \in Nat
<1>1. debt * loan.rate \in Nat /\ Parts \in Nat \ {0}
  BY LoanFields, SMT
<1> QED
  BY <1>1, FloorGrows DEF Interest

\* The systems, one by one.
LEMMA ScheduledIs ==
  ASSUME DebtTypeOK, NEW x \in Schedules
  PROVE  /\ loan.system = "sac" /\ loan.strategy = "reduceTerm" =>
              Scheduled(x) = loan.principal \div Term
         /\ loan.system = "sac" /\ loan.strategy = "reduceInstallment" =>
              Scheduled(x) = owed[x] \div Higher(1, loan.term - month)
         /\ loan.system = "price" =>
              Scheduled(x) = Higher(0, installment[x] - Interest(owed[x]))
         /\ loan.system = "card" /\ loan.fixed > 0 =>
              Scheduled(x) = Higher(loan.fixed - Interest(owed[x]), Coin)
         /\ loan.system = "card" /\ loan.fixed = 0 =>
              Scheduled(x) = Higher((owed[x] * loan.minimum) \div 100, Coin)
BY DEF Scheduled

LEMMA ScheduledIsNat ==
  ASSUME DebtTypeOK, NEW x \in Schedules
  PROVE  owed[x] \in Nat /\ Scheduled(x) \in Nat
<1>1. loan \in Loans /\ month \in Nat /\ owed[x] \in Nat /\ installment[x] \in Nat
  BY DEF DebtTypeOK
<1>2. Interest(owed[x]) \in Nat
  BY <1>1, InterestIsNat
<1>3. CASE loan.system = "sac" /\ loan.strategy = "reduceTerm"
  <2>1. loan.principal \div Term \in Nat
    BY <1>1, TermIsNat, LoanFields, FloorGrows
  <2> QED
    BY <1>1, <1>3, <2>1, ScheduledIs
<1>4. CASE loan.system = "sac" /\ loan.strategy = "reduceInstallment"
  <2>1. Higher(1, loan.term - month) \in Nat \ {0}
    BY <1>1, LoanFields DEF Higher
  <2>2. owed[x] \div Higher(1, loan.term - month) \in Nat
    BY <1>1, <2>1, FloorGrows
  <2> QED
    BY <1>1, <1>4, <2>2, ScheduledIs
<1>5. CASE loan.system = "price"
  BY <1>1, <1>2, <1>5, ScheduledIs DEF Higher
<1>6. CASE loan.system = "card" /\ loan.fixed > 0
  BY <1>1, <1>2, <1>6, LoanFields, ScheduledIs DEF Higher
<1>7. CASE loan.system = "card" /\ loan.fixed = 0
  <2>1. owed[x] * loan.minimum \in Nat
    BY <1>1, LoanFields, SMT
  <2>2. (owed[x] * loan.minimum) \div 100 \in Nat
    BY <2>1, FloorGrows
  <2> QED
    BY <1>1, <1>7, <2>2, LoanFields, ScheduledIs DEF Higher
<1> QED
  BY <1>1, <1>3, <1>4, <1>5, <1>6, <1>7, LoanFields

LEMMA LeftIs ==
  ASSUME DebtTypeOK, NEW x \in Schedules
  PROVE  /\ Left(x) \in Nat
         /\ Left(x) = IF owed[x] <= Scheduled(x) + Extra(x) THEN 0
                      ELSE owed[x] - (Scheduled(x) + Extra(x))
BY ScheduledIsNat, ExtraIsNat DEF Left, Lower

\* A month that is left for a loan: one of those that remain.
LEMMA MonthsRemain ==
  ASSUME DebtInv, PayMonth, loan.system # "card"
  PROVE  /\ Remaining - 1 \in Nat /\ Remaining = (Remaining - 1) + 1
         /\ Remaining' = Remaining - 1
         /\ month' <= Term /\ Term' = Term
         /\ Higher(1, loan.term - month) = Remaining
         /\ Remaining - 1 > 0 => Higher(1, loan.term - month - 1) = Remaining - 1
<1>1. loan \in Loans /\ month \in Nat /\ month <= Term
  BY DEF DebtInv, DebtTypeOK
<1>2. month # Term
  BY DEF DebtInv, PayMonth, Open, Settled
<1>3. Term \in Nat \ {0} /\ loan.term \in Nat /\ (Term # 1 => Term = loan.term)
  BY <1>1, TermIsNat, LoanFields
<1>4. month' = month + 1 /\ loan' = loan
  BY DEF PayMonth
<1>5. Term' = Term
  BY <1>4 DEF Term
<1>6. Term = 1 => loan.term <= 1
  BY <1>3 DEF Term, Higher
<1>7. Higher(1, loan.term - month) = Remaining
  BY <1>1, <1>2, <1>3, <1>6 DEF Remaining, Higher
<1>8. Remaining - 1 > 0 => Higher(1, loan.term - month - 1) = Remaining - 1
  BY <1>1, <1>2, <1>3, <1>6 DEF Remaining, Higher
<1> QED
  BY <1>1, <1>2, <1>3, <1>4, <1>5, <1>7, <1>8 DEF Remaining

\* Of a loan the month leaves what Left says, also where nothing is owed.
LEMMA LoanMonth ==
  ASSUME DebtInv, PayMonth, loan.system # "card", NEW x \in Schedules
  PROVE  /\ owed'[x] = Left(x)
         /\ ~Open(x) => owed[x] = 0 /\ Left(x) = 0
<1>1. DebtTypeOK
  BY DEF DebtInv
<1>2. month < LastMonth
  BY DEF PayMonth, Open
<1>3. ~Open(x) => owed[x] = 0
  BY <1>2 DEF Open, Settled
<1>4. owed[x] = 0 => Left(x) = 0
  BY <1>1, LeftIs, ScheduledIsNat, ExtraIsNat
<1> QED
  BY <1>3, <1>4 DEF PayMonth

\* What an installment leaves where it is on its course.
LEMMA CourseMonth ==
  ASSUME DebtInv, PayMonth, loan.system = "price", NEW x \in Schedules, OnCourse(x)
  PROVE  LET n == Remaining - 1
             rest == owed[x] - Scheduled(x)
         IN /\ Scheduled(x) = installment[x] - Interest(owed[x])
            /\ rest \in Nat /\ Whole(loan, rest, n)
            /\ PaysOff(loan, rest, installment[x], n)
            /\ rest * Before(loan, n) = owed[x] * After(loan, n)
            /\ n = 0 => rest = 0
<1> DEFINE n == Remaining - 1
           s == installment[x] - Interest(owed[x])
<1>1. DebtTypeOK /\ loan \in Loans /\ owed[x] \in Nat /\ installment[x] \in Nat
  BY DEF DebtInv, DebtTypeOK
<1>2. n \in Nat /\ Remaining = n + 1
  BY MonthsRemain
<1> HIDE DEF n
<1>3. /\ Interest(owed[x]) \in Nat /\ Interest(owed[x]) <= installment[x]
      /\ s <= owed[x]
      /\ Whole(loan, owed[x] - s, n) /\ PaysOff(loan, owed[x] - s, installment[x], n)
      /\ (owed[x] - s) * Before(loan, n) = owed[x] * After(loan, n)
  BY <1>1, <1>2, PriceMonth DEF OnCourse
<1>4. Scheduled(x) = s
  <2>1. Scheduled(x) = Higher(0, s)
    BY <1>1, ScheduledIs
  <2> QED
    BY <1>1, <1>3, <2>1 DEF Higher
<1>5. owed[x] - s \in Nat
  BY <1>1, <1>3
<1>6. n = 0 => owed[x] - s = 0
  BY <1>1, <1>3, <1>5, InstallmentsEnd
<1> QED
  BY <1>3, <1>4, <1>5, <1>6 DEF n

\* Of two schedules that owe what they may, the one that owes more pays no more
\* of it than the difference.
LEMMA OrderOfShares ==
  ASSUME DebtInv, PayMonth, owed["optimized"] <= owed["baseline"]
  PROVE  \/ owed["optimized"] <= Scheduled("optimized")
         \/ owed["optimized"] - Scheduled("optimized")
              <= owed["baseline"] - Scheduled("baseline")
<1> DEFINE o == owed["optimized"]
           b == owed["baseline"]
<1>1. DebtTypeOK /\ loan \in Loans
  BY DEF DebtInv, DebtTypeOK
<1>2. "optimized" \in Schedules /\ "baseline" \in Schedules
  BY DEF Schedules
<1>3. /\ o \in Nat /\ b \in Nat /\ o <= b
      /\ installment["optimized"] \in Nat /\ installment["baseline"] \in Nat
      /\ Interest(o) \in Nat /\ Interest(b) \in Nat
  BY <1>1, <1>2, InterestIsNat DEF DebtTypeOK
<1>4. Interest(o) <= Interest(b)
  <2>1. o * loan.rate \in Nat /\ b * loan.rate \in Nat /\ o * loan.rate <= b * loan.rate
    BY <1>1, <1>3, LoanFields, MoreTimesMore
  <2> QED
    BY <1>1, <2>1, LoanFields, FloorGrows DEF Interest
<1>5. CASE loan.system = "sac" /\ loan.strategy = "reduceTerm"
  BY <1>1, <1>2, <1>3, <1>5, ScheduledIs, ScheduledIsNat
<1>6. CASE loan.system = "sac" /\ loan.strategy = "reduceInstallment"
  <2> DEFINE k == Higher(1, loan.term - month)
  <2>1. k \in Nat \ {0}
    BY <1>6, MonthsRemain
  <2>2. Scheduled("optimized") = o \div k /\ Scheduled("baseline") = b \div k
    BY <1>1, <1>2, <1>6, ScheduledIs
  <2> HIDE DEF k, o, b
  <2>3. o - o \div k <= b - b \div k
    BY <1>3, <2>1, SharesLeaveOrder
  <2> QED
    BY <2>2, <2>3 DEF o, b
<1>7. CASE loan.system = "price" /\ loan.strategy = "reduceTerm"
  <2>1. installment["optimized"] = installment["baseline"]
    BY <1>7 DEF DebtInv, InstallmentsRemain
  <2>2. /\ Scheduled("optimized") = Higher(0, installment["optimized"] - Interest(o))
        /\ Scheduled("baseline") = Higher(0, installment["baseline"] - Interest(b))
    BY <1>1, <1>2, <1>7, ScheduledIs
  <2> QED
    BY <1>3, <1>4, <2>1, <2>2 DEF Higher
<1>8. CASE loan.system = "price" /\ loan.strategy = "reduceInstallment"
  <2> DEFINE n == Remaining - 1
             u == o - Scheduled("optimized")
             v == b - Scheduled("baseline")
  <2>1. OnCourse("optimized") /\ OnCourse("baseline")
    BY <1>8 DEF DebtInv, InstallmentsRemain
  <2>2. /\ u \in Nat /\ v \in Nat
        /\ u * Before(loan, n) = o * After(loan, n)
        /\ v * Before(loan, n) = b * After(loan, n)
    BY <1>2, <1>8, <2>1, CourseMonth
  <2>3. n \in Nat
    BY <1>8, MonthsRemain
  <2> HIDE DEF n, o, b, u, v
  <2>4. u <= v
    BY <1>1, <1>3, <2>2, <2>3, InstallmentsLeaveOrder
  <2> QED
    BY <2>4 DEF u, v, o, b
<1>9. CASE loan.system = "card" /\ loan.fixed > 0
  BY <1>1, <1>2, <1>3, <1>4, <1>9, LoanFields, ScheduledIs DEF Higher
<1>10. CASE loan.system = "card" /\ loan.fixed = 0
  <2> DEFINE f == (o * loan.minimum) \div 100
             h == (b * loan.minimum) \div 100
  <2>1. Scheduled("optimized") = Higher(f, Coin) /\ Scheduled("baseline") = Higher(h, Coin)
    BY <1>1, <1>2, <1>10, ScheduledIs
  <2>2. loan.minimum \in Nat /\ Coin \in Nat
    BY <1>1, LoanFields
  <2>3. CASE loan.minimum <= 100
    <3>1. f \in Nat /\ h \in Nat /\ o - f <= b - h
      BY <1>3, <2>2, <2>3, PartLeavesOrder
    <3> HIDE DEF f, h
    <3> QED
      BY <1>3, <2>1, <2>2, <3>1 DEF Higher
  <2>4. CASE loan.minimum > 100
    <3>1. f \in Nat /\ f >= o
      BY <1>3, <2>2, <2>4, OverpaidAtOnce
    <3> HIDE DEF f
    <3> QED
      BY <1>3, <2>1, <2>2, <3>1 DEF Higher
  <2> QED
    BY <2>2, <2>3, <2>4
<1> QED
  BY <1>1, <1>5, <1>6, <1>7, <1>8, <1>9, <1>10, LoanFields

LEMMA OrderStays ==
  ASSUME DebtInv, PayMonth
  PROVE  (Settled(owed["optimized"]) \/ owed["optimized"] <= owed["baseline"])'
<1>1. DebtTypeOK /\ loan \in Loans /\ loan' = loan
  BY DEF DebtInv, DebtTypeOK, PayMonth
<1>2. "optimized" \in Schedules /\ "baseline" \in Schedules
  BY DEF Schedules
<1>3. /\ owed["optimized"] \in Nat /\ owed["baseline"] \in Nat
      /\ Scheduled("optimized") \in Nat /\ Scheduled("baseline") \in Nat
      /\ Extra("optimized") \in Nat /\ Extra("baseline") = 0
  BY <1>1, <1>2, ScheduledIsNat, ExtraIsNat
<1>4. month < LastMonth
  BY DEF PayMonth, Open
<1>5. CASE ~Open("optimized")
  <2>1. Settled(owed["optimized"])
    BY <1>4, <1>5 DEF Open
  <2>2. owed'["optimized"] = owed["optimized"]
    BY <1>2, <1>5 DEF PayMonth
  <2> QED
    BY <1>1, <2>1, <2>2 DEF Settled
<1>6. CASE Open("optimized")
  <2>1. ~Settled(owed["optimized"]) /\ owed["optimized"] <= owed["baseline"]
    BY <1>6 DEF Open, DebtInv
  <2>2. ~Settled(owed["baseline"])
    BY <1>1, <1>3, <2>1, LoanFields DEF Settled
  <2>3. Open("baseline")
    BY <1>4, <2>2 DEF Open
  <2>4. owed'["optimized"] = Left("optimized") /\ owed'["baseline"] = Left("baseline")
    BY <1>2, <1>6, <2>3 DEF PayMonth
  <2>5. /\ Left("optimized") =
             IF owed["optimized"] <= Scheduled("optimized") + Extra("optimized") THEN 0
             ELSE owed["optimized"] - (Scheduled("optimized") + Extra("optimized"))
        /\ Left("baseline") =
             IF owed["baseline"] <= Scheduled("baseline") + Extra("baseline") THEN 0
             ELSE owed["baseline"] - (Scheduled("baseline") + Extra("baseline"))
    BY <1>1, <1>2, LeftIs
  <2>6. Left("optimized") <= Left("baseline")
    BY <1>3, <2>1, <2>5, OrderOfShares
  <2> QED
    BY <2>4, <2>6
<1> QED
  BY <1>5, <1>6

LEMMA SlicesStay ==
  ASSUME DebtInv, PayMonth
  PROVE  SlicesRemain'
<1> SUFFICES ASSUME loan.system = "sac", loan.strategy = "reduceTerm", NEW x \in Schedules
             PROVE  owed'[x] <= Remaining' * (loan.principal \div Term)
  <2>1. loan' = loan
    BY DEF PayMonth
  <2> QED
    BY <2>1 DEF SlicesRemain, Term
<1> DEFINE slice == loan.principal \div Term
           n == Remaining - 1
<1>1. DebtTypeOK /\ loan \in Loans
  BY DEF DebtInv, DebtTypeOK
<1>2. slice \in Nat
  BY <1>1, TermIsNat, LoanFields, FloorGrows
<1>3. n \in Nat /\ Remaining = n + 1 /\ Remaining' = n
  BY MonthsRemain
<1>4. owed[x] <= Remaining * slice
  BY DEF DebtInv, SlicesRemain
<1>5. Scheduled(x) = slice /\ owed[x] \in Nat /\ Extra(x) \in Nat
  BY <1>1, ScheduledIs, ScheduledIsNat, ExtraIsNat
<1>6. /\ Left(x) = IF owed[x] <= Scheduled(x) + Extra(x) THEN 0
                   ELSE owed[x] - (Scheduled(x) + Extra(x))
      /\ owed'[x] = Left(x)
  BY <1>1, LeftIs, LoanMonth
<1> HIDE DEF slice, n
<1>7. (n + 1) * slice = n * slice + slice /\ n * slice \in Nat
  BY <1>2, <1>3, SMT
<1>8. owed[x] <= n * slice + slice
  BY <1>3, <1>4, <1>7
<1>9. owed'[x] <= n * slice
  <2> DEFINE w == n * slice
  <2>1. w \in Nat /\ owed[x] <= w + slice
    BY <1>7, <1>8
  <2> HIDE DEF w
  <2>2. owed'[x] <= w
    BY <1>2, <1>5, <1>6, <2>1
  <2> QED
    BY <2>2 DEF w
<1> QED
  BY <1>3, <1>9 DEF slice

LEMMA DebtTypeStays ==
  ASSUME DebtInv, PayMonth
  PROVE  DebtTypeOK'
<1>1. DebtTypeOK
  BY DEF DebtInv
<1>2. \A x \in Schedules : Left(x) \in Nat
  BY <1>1, LeftIs
<1>3. ASSUME NEW x \in Schedules PROVE NextInstallment(x) \in Nat
  <2>1. installment[x] \in Nat /\ loan \in Loans
    BY <1>1 DEF DebtTypeOK
  <2> DEFINE k == Higher(1, loan.term - month - 1)
  <2>2. k \in Nat /\ k - 1 \in Nat /\ k = (k - 1) + 1
    BY <1>1, <2>1, LoanFields DEF DebtTypeOK, Higher
  <2> HIDE DEF k
  <2>3. PricePayment(Left(x), (k - 1) + 1) \in Nat
    BY <1>2, <2>1, <2>2, PaymentIsNat
  <2>4. PricePayment(Left(x), k) \in Nat
    BY <2>2, <2>3
  <2> QED
    BY <2>1, <2>4 DEF NextInstallment, k
<1>4. owed' \in [Schedules -> Nat]
  BY <1>1, <1>2 DEF DebtTypeOK, PayMonth
<1>5. installment' \in [Schedules -> Nat]
  BY <1>1, <1>3 DEF DebtTypeOK, PayMonth
<1> QED
  BY <1>1, <1>4, <1>5 DEF DebtTypeOK, PayMonth

\* What is paid besides divides as evenly as the debt.
LEMMA ExtraIsWhole ==
  ASSUME loan \in Loans, NEW n \in Nat, NEW x \in Schedules, NEW rest \in Nat,
         Whole(loan, loan.extra, n), Whole(loan, loan.lump, n), Whole(loan, rest, n)
  PROVE  /\ Extra(x) \in Nat
         /\ Whole(loan, IF rest <= Extra(x) THEN 0 ELSE rest - Extra(x), n)
<1> DEFINE e == Grain(loan, n)
<1>1. e \in Nat \ {0}
  BY GrainStep
<1>2. PICK i \in Nat : loan.extra = e * i
  BY DEF Whole
<1>3. PICK j \in Nat : loan.lump = e * j
  BY DEF Whole
<1>4. PICK q \in Nat : rest = e * q
  BY DEF Whole
<1>5. PICK k \in Nat : Extra(x) = e * k
  <2> HIDE DEF e
  <2>1. e * 0 = 0 /\ e * (i + j) = e * i + e * j /\ e * i + 0 = e * i
    BY <1>1, SMT
  <2>2. Extra(x) \in {0, e * i, e * i + e * j}
    BY <1>2, <1>3, <2>1 DEF Extra
  <2>3. i + j \in Nat
    OBVIOUS
  <2> QED
    BY <2>1, <2>2, <2>3
<1> HIDE DEF e
<1>6. e * k \in Nat /\ e * q \in Nat /\ e * q - e * k = e * (q - k) /\ e * 0 = 0
  BY <1>1, SMT
<1>7. e * k < e * q => q - k \in Nat
  <2>1. q <= k => e * q <= e * k
    BY <1>1, MoreTimesMore
  <2> QED
    BY <1>6, <2>1
<1>8. CASE rest <= Extra(x)
  BY <1>5, <1>6, <1>8 DEF Whole, e
<1>9. CASE ~(rest <= Extra(x))
  <2>1. rest - Extra(x) = e * (q - k) /\ q - k \in Nat
    BY <1>4, <1>5, <1>6, <1>7, <1>9
  <2>2. Whole(loan, rest - Extra(x), n)
    BY <2>1 DEF Whole, e
  <2> QED
    BY <1>5, <1>6, <1>9, <2>2
<1> QED
  BY <1>5, <1>6, <1>8, <1>9

\* Nothing is paid off by anything, in no months.
LEMMA NothingRemains ==
  ASSUME NEW l \in Loans, NEW paid \in Nat
  PROVE  PaysOff(l, 0, paid, 0)
<1>1. Parts \in Nat \ {0} /\ l.rate \in Nat /\ Parts + l.rate \in Nat
  BY LoanFields
<1>2. Power(Parts + l.rate, 0) = 1
  BY <1>1, PowerStep
<1>3. Power(Parts, 0) = 1
  BY <1>1, PowerStep
<1>4. /\ (0 * l.rate) * 1 = 0 /\ paid * (Parts * (1 - 1)) = 0 /\ paid * 0 = 0
  BY <1>1, SMT
<1> QED
  BY <1>2, <1>3, <1>4 DEF PaysOff

LEMMA CourseStays ==
  ASSUME DebtInv, PayMonth, loan.system = "price", NEW x \in Schedules, OnCourse(x),
         x = "optimized" => loan.strategy = "reduceInstallment"
  PROVE  OnCourse(x)'
<1> DEFINE n == Remaining - 1
           rest == owed[x] - Scheduled(x)
<1>1. DebtTypeOK /\ loan \in Loans /\ loan' = loan /\ installment[x] \in Nat
  BY DEF DebtInv, DebtTypeOK, PayMonth
<1>2. /\ n \in Nat /\ Remaining = n + 1 /\ Remaining' = n
      /\ n > 0 => Higher(1, loan.term - month - 1) = n
  BY MonthsRemain
<1>3. /\ rest \in Nat /\ Whole(loan, rest, n) /\ PaysOff(loan, rest, installment[x], n)
      /\ n = 0 => rest = 0
  BY CourseMonth
<1>4. owed[x] \in Nat /\ Scheduled(x) \in Nat /\ Extra(x) \in Nat /\ Extra("baseline") = 0
  BY <1>1, ScheduledIsNat, ExtraIsNat
<1>5. Left(x) = IF rest <= Extra(x) THEN 0 ELSE rest - Extra(x)
  <2>1. Left(x) = IF owed[x] <= Scheduled(x) + Extra(x) THEN 0
                  ELSE owed[x] - (Scheduled(x) + Extra(x))
    BY <1>1, LeftIs
  <2> QED
    BY <1>4, <2>1
<1>6. owed'[x] = Left(x) /\ (~Open(x) => owed[x] = 0 /\ Left(x) = 0)
  BY LoanMonth
<1>7. Whole(loan, loan.extra, n) /\ Whole(loan, loan.lump, n)
  BY <1>1, <1>2, WholeStays DEF DebtInv, InstallmentsRemain
<1> HIDE DEF n, rest
<1>8. Whole(loan, Left(x), n)
  BY <1>1, <1>2, <1>3, <1>5, <1>7, ExtraIsWhole
<1>9. OnCourse(x)' <=> Whole(loan, Left(x), n) /\ PaysOff(loan, Left(x), installment'[x], n)
  BY <1>1, <1>2, <1>6 DEF OnCourse, Whole, PaysOff, Grain, Divisor
<1>10. CASE installment'[x] = installment[x] /\ (Extra(x) = 0 \/ ~Open(x))
  <2>1. Left(x) = rest
    <3>1. Extra(x) = 0 => Left(x) = rest
      BY <1>3, <1>5
    <3>2. owed[x] = 0 => rest = 0
      BY <1>3, <1>4 DEF rest
    <3> QED
      BY <1>6, <1>10, <3>1, <3>2
  <2> QED
    BY <1>3, <1>8, <1>9, <1>10, <2>1
<1>11. CASE installment'[x] = PricePayment(Left(x), Higher(1, loan.term - month - 1))
  <2>1. CASE n = 0
    <3>1. Left(x) = 0
      BY <1>3, <1>4, <1>5, <2>1
    <3>2. installment'[x] \in Nat
      BY DebtTypeStays DEF DebtTypeOK
    <3> QED
      BY <1>1, <1>8, <1>9, <2>1, <3>1, <3>2, NothingRemains
  <2>2. CASE n # 0
    <3>1. n - 1 \in Nat /\ n = (n - 1) + 1
      BY <1>2, <2>2
    <3>2. Whole(loan, Left(x), (n - 1) + 1)
      BY <1>8, <3>1
    <3>3. PaysOff(loan, Left(x), PricePayment(Left(x), (n - 1) + 1), (n - 1) + 1)
      BY <1>1, <3>1, <3>2, PaymentPaysOff
    <3>4. PaysOff(loan, Left(x), PricePayment(Left(x), n), n)
      BY <3>1, <3>3
    <3>5. installment'[x] = PricePayment(Left(x), n)
      BY <1>2, <1>11, <2>2
    <3> QED
      BY <1>8, <1>9, <3>4, <3>5
  <2> QED
    BY <2>1, <2>2
<1>12. installment'[x] = IF Open(x) THEN NextInstallment(x) ELSE installment[x]
  BY DEF PayMonth
<1>13. CASE ~Open(x)
  BY <1>10, <1>12, <1>13
<1>14. CASE Open(x) /\ x = "optimized" /\ (Extra(x) > 0 \/ loan.lump > 0)
  BY <1>11, <1>12, <1>14 DEF NextInstallment
<1>15. CASE Open(x) /\ ~(x = "optimized" /\ (Extra(x) > 0 \/ loan.lump > 0))
  <2>1. installment'[x] = installment[x]
    BY <1>12, <1>15 DEF NextInstallment
  <2>2. x = "baseline" \/ x = "optimized"
    BY DEF Schedules
  <2>3. Extra(x) = 0
    BY <1>4, <1>15, <2>2
  <2> QED
    BY <1>10, <2>1, <2>3
<1> QED
  BY <1>13, <1>14, <1>15

LEMMA InstallmentsStay ==
  ASSUME DebtInv, PayMonth
  PROVE  InstallmentsRemain'
<1>1. loan' = loan /\ loan \in Loans
  BY DEF DebtInv, DebtTypeOK, PayMonth
<1> SUFFICES ASSUME loan.system = "price"
             PROVE  InstallmentsRemain'
  BY <1>1 DEF InstallmentsRemain
<1> DEFINE n == Remaining - 1
<1>2. n \in Nat /\ Remaining = n + 1 /\ Remaining' = n
  BY MonthsRemain
<1>3. "optimized" \in Schedules /\ "baseline" \in Schedules
  BY DEF Schedules
<1>4. Whole(loan, loan.extra, n) /\ Whole(loan, loan.lump, n)
  BY <1>1, <1>2, WholeStays DEF DebtInv, InstallmentsRemain
<1>5. OnCourse("baseline")'
  BY <1>3, CourseStays DEF DebtInv, InstallmentsRemain
<1>6. loan.strategy = "reduceInstallment" => OnCourse("optimized")'
  BY <1>3, CourseStays DEF DebtInv, InstallmentsRemain
<1>7. ASSUME loan.strategy = "reduceTerm"
      PROVE  installment'["optimized"] = installment'["baseline"]
  <2>1. \A x \in Schedules : installment'[x] = installment[x]
    BY <1>7 DEF PayMonth, NextInstallment
  <2> QED
    BY <1>3, <1>7, <2>1 DEF DebtInv, InstallmentsRemain
<1> HIDE DEF n
<1>8. Whole(loan, loan.extra, Remaining)' /\ Whole(loan, loan.lump, Remaining)'
  BY <1>1, <1>2, <1>4 DEF Whole, Grain, Divisor
<1> QED
  BY <1>1, <1>5, <1>6, <1>7, <1>8 DEF InstallmentsRemain

LEMMA DebtEnds ==
  ASSUME DebtInv, PayMonth, loan.system # "card"
  PROVE  month' <= Term' /\ (month' = Term' => \A x \in Schedules : owed'[x] = 0)
<1> DEFINE n == Remaining - 1
<1>1. DebtTypeOK /\ loan \in Loans /\ loan' = loan
  BY DEF DebtInv, DebtTypeOK, PayMonth
<1>2. /\ n \in Nat /\ Remaining = n + 1 /\ month' <= Term /\ Term' = Term
      /\ Higher(1, loan.term - month) = Remaining
  BY MonthsRemain
<1>3. month' = Term' => n = 0
  BY <1>1, <1>2, TermIsNat DEF Remaining, PayMonth, DebtTypeOK
<1>4. ASSUME n = 0, NEW x \in Schedules PROVE owed'[x] = 0
  <2>1. /\ owed'[x] = Left(x) /\ owed[x] \in Nat /\ Scheduled(x) \in Nat /\ Extra(x) \in Nat
        /\ Left(x) = IF owed[x] <= Scheduled(x) + Extra(x) THEN 0
                     ELSE owed[x] - (Scheduled(x) + Extra(x))
    BY <1>1, LoanMonth, LeftIs, ScheduledIsNat, ExtraIsNat
  <2>2. owed[x] <= Scheduled(x) => owed'[x] = 0
    BY <2>1
  <2>3. CASE loan.system = "sac" /\ loan.strategy = "reduceTerm"
    <3> DEFINE slice == loan.principal \div Term
    <3>1. slice \in Nat
      BY <1>1, TermIsNat, LoanFields, FloorGrows
    <3>2. owed[x] <= Remaining * slice /\ Remaining = 1
      BY <1>2, <1>4, <2>3 DEF DebtInv, SlicesRemain
    <3>3. Scheduled(x) = slice
      BY <1>1, <2>3, ScheduledIs
    <3> QED
      BY <2>2, <3>1, <3>2, <3>3
  <2>4. CASE loan.system = "sac" /\ loan.strategy = "reduceInstallment"
    <3>1. Scheduled(x) = owed[x] \div 1
      BY <1>1, <1>2, <1>4, <2>4, ScheduledIs
    <3>2. owed[x] \div 1 = owed[x]
      BY <2>1, SMT
    <3> QED
      BY <2>1, <2>2, <3>1, <3>2
  <2>5. CASE loan.system = "price" /\ OnCourse(x)
    <3>1. owed[x] - Scheduled(x) = 0
      BY <1>4, <2>5, CourseMonth
    <3> QED
      BY <2>1, <2>2, <3>1
  <2>6. CASE loan.system = "price" /\ ~OnCourse(x)
    <3>1. x = "optimized" /\ OnCourse("baseline") /\ "baseline" \in Schedules
      BY <2>6 DEF DebtInv, InstallmentsRemain, Schedules
    <3>2. owed'["baseline"] = 0
      <4>1. /\ owed'["baseline"] = Left("baseline") /\ owed["baseline"] \in Nat
            /\ Scheduled("baseline") \in Nat /\ Extra("baseline") \in Nat
            /\ Left("baseline") =
                 IF owed["baseline"] <= Scheduled("baseline") + Extra("baseline") THEN 0
                 ELSE owed["baseline"] - (Scheduled("baseline") + Extra("baseline"))
        BY <1>1, <3>1, LoanMonth, LeftIs, ScheduledIsNat, ExtraIsNat
      <4>2. owed["baseline"] - Scheduled("baseline") = 0
        BY <1>4, <2>6, <3>1, CourseMonth
      <4> QED
        BY <4>1, <4>2
    <3>3. owed'["optimized"] = 0 \/ owed'["optimized"] <= owed'["baseline"]
      BY <1>1, <2>6, OrderStays DEF Settled
    <3>4. owed'[x] \in Nat
      BY <1>1, <2>1, LeftIs
    <3> QED
      BY <3>1, <3>2, <3>3, <3>4
  <2> QED
    BY <1>1, <2>3, <2>4, <2>5, <2>6, LoanFields
<1> QED
  BY <1>2, <1>3, <1>4

LEMMA DebtInitInv == DebtInit => DebtInv
<1> SUFFICES ASSUME DebtInit PROVE DebtInv
  OBVIOUS
<1> DEFINE n == Term - 1
<1>1. loan \in Loans /\ month = 0 /\ loan.principal \in Nat
  BY LoanFields DEF DebtInit
<1>2. n \in Nat /\ Term = n + 1 /\ Remaining = n + 1
  BY <1>1, TermIsNat DEF Remaining
<1>3. \A x \in Schedules : owed[x] = loan.principal
  BY DEF DebtInit
<1>4. \A x \in Schedules : installment[x] = IF loan.system = "price"
                                          THEN PricePayment(loan.principal, Term) ELSE 0
  BY DEF DebtInit
<1>5. "optimized" \in Schedules /\ "baseline" \in Schedules
  BY DEF Schedules
<1>6. ASSUME loan.system # "card", NEW a \in {loan.principal, loan.extra, loan.lump}
      PROVE  Whole(loan, a, Term)
  <2>1. Term \in Nat /\ a \in Nat
    BY <1>1, <1>2, LoanFields
  <2>2. a = Grain(loan, Term) * (a \div Grain(loan, Term))
    BY <1>1, <1>6, EvenAssumption DEF Term
  <2>3. a \div Grain(loan, Term) \in Nat
    <3>1. Grain(loan, Term) \in Nat \ {0}
      BY <1>1, <2>1, GrainStep
    <3> QED
      BY <2>1, <3>1, FloorGrows
  <2> QED
    BY <2>2, <2>3 DEF Whole
<1> HIDE DEF n
<1>7. PricePayment(loan.principal, Term) \in Nat
  <2>1. PricePayment(loan.principal, n + 1) \in Nat
    BY <1>1, <1>2, PaymentIsNat
  <2> QED
    BY <1>2, <2>1
<1>8. DebtTypeOK
  BY <1>1, <1>7 DEF DebtInit, DebtTypeOK
<1>9. SlicesRemain
  <2> SUFFICES ASSUME loan.system = "sac"
               PROVE  loan.principal <= Remaining * (loan.principal \div Term)
    BY <1>3 DEF SlicesRemain
  <2> DEFINE e == Grain(loan, n)
  <2>1. e \in Nat /\ Grain(loan, n + 1) = (n + 1) * e
    BY <1>1, <1>2, GrainStep DEF Divisor
  <2>2. Whole(loan, loan.principal, n + 1)
    BY <1>2, <1>6
  <2>3. PICK q \in Nat : loan.principal = Grain(loan, n + 1) * q
    BY <2>2 DEF Whole
  <2> HIDE DEF e
  <2>4. ((n + 1) * e) * q = (n + 1) * (e * q) /\ e * q \in Nat
    BY <1>2, <2>1, SMT
  <2>5. loan.principal = (n + 1) * (e * q)
    BY <2>1, <2>3, <2>4
  <2>6. n + 1 \in Nat \ {0}
    BY <1>2
  <2>7. ((n + 1) * (e * q)) \div (n + 1) = e * q
    BY <2>4, <2>6, DividesOut
  <2>8. loan.principal \div Term = e * q
    BY <1>2, <2>5, <2>7
  <2> QED
    BY <1>1, <1>2, <2>5, <2>8
<1>10. InstallmentsRemain
  <2> SUFFICES ASSUME loan.system = "price" PROVE InstallmentsRemain
    BY DEF InstallmentsRemain
  <2>1. /\ Whole(loan, loan.principal, n + 1)
        /\ Whole(loan, loan.extra, n + 1) /\ Whole(loan, loan.lump, n + 1)
    BY <1>2, <1>6
  <2>2. PaysOff(loan, loan.principal, PricePayment(loan.principal, n + 1), n + 1)
    BY <1>1, <1>2, <2>1, PaymentPaysOff
  <2>3. \A x \in Schedules :
          owed[x] = loan.principal /\ installment[x] = PricePayment(loan.principal, n + 1)
    BY <1>2, <1>3, <1>4
  <2>4. \A x \in Schedules : OnCourse(x)
    BY <1>2, <2>1, <2>2, <2>3 DEF OnCourse
  <2> QED
    BY <1>2, <1>5, <2>1, <2>3, <2>4 DEF InstallmentsRemain
<1>11. owed["optimized"] <= owed["baseline"]
  BY <1>1, <1>3, <1>5
<1>12. month <= Term /\ month # Term
  BY <1>1, <1>2
<1> QED
  BY <1>8, <1>9, <1>10, <1>11, <1>12 DEF DebtInv

LEMMA DebtStepInv == DebtInv /\ [PayMonth]_debtVars => DebtInv'
<1>1. ASSUME DebtInv, PayMonth PROVE DebtInv'
  <2>1. loan' = loan
    BY <1>1 DEF PayMonth
  <2>2. DebtTypeOK'
    BY <1>1, DebtTypeStays
  <2>3. (Settled(owed["optimized"]) \/ owed["optimized"] <= owed["baseline"])'
    BY <1>1, OrderStays
  <2>4. loan'.system # "card" =>
          month' <= Term' /\ (month' = Term' => \A x \in Schedules : owed'[x] = 0)
    BY <1>1, <2>1, DebtEnds
  <2>5. SlicesRemain' /\ InstallmentsRemain'
    BY <1>1, SlicesStay, InstallmentsStay
  <2> QED
    BY <2>2, <2>3, <2>4, <2>5 DEF DebtInv
<1>2. ASSUME DebtInv, UNCHANGED debtVars PROVE DebtInv'
  BY <1>2 DEF DebtInv, debtVars, DebtTypeOK, SlicesRemain, InstallmentsRemain, OnCourse,
              Remaining, Term, Settled, Whole, PaysOff, Grain, Divisor
<1> QED
  BY <1>1, <1>2

\* Whatever is paid beside a debt, there is never more of it than without, and a
\* loan ends with its term: of any loans, in any number of months.
THEOREM ExtrasCostNothing == DebtSpec => []ExtrasNeverCost
<1>1. DebtInv => ExtrasNeverCost
  <2> SUFFICES ASSUME DebtInv PROVE ExtrasNeverCost
    OBVIOUS
  <2>1. DebtTypeOK /\ loan \in Loans /\ month \in Nat
    BY DEF DebtInv, DebtTypeOK
  <2>2. ASSUME \A x \in Schedules : ~Open(x), loan.system # "card"
        PROVE  owed = [x \in Schedules |-> 0]
    <3>1. CASE month = Term
      BY <2>1, <2>2, <3>1 DEF DebtInv, DebtTypeOK
    <3>2. CASE month # Term
      <4>1. month < LastMonth
        BY <2>1, <2>2, <3>2, TermIsNat, LoanFields DEF DebtInv, LastMonth
      <4>2. \A x \in Schedules : owed[x] = 0
        BY <2>2, <4>1 DEF Open, Settled
      <4> QED
        BY <2>1, <4>2 DEF DebtTypeOK
    <3> QED
      BY <3>1, <3>2
  <2> QED
    BY <2>2 DEF DebtInv, ExtrasNeverCost
<1> QED
  BY <1>1, DebtInitInv, DebtStepInv, PTL DEF DebtSpec

=============================================================================
