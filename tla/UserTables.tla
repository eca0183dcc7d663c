------------------------------- MODULE UserTables -------------------------------
(***************************************************************************)
(* The tables of one user that have a limit: the watchlist, the portfolio, *)
(* the saved scenarios and the financial routes (web/src/app/api/user/*,   *)
(* web/src/lib/user-portfolio/bulk.ts), one statement per step, and the    *)
(* button that adds a symbol to the watchlist.                             *)
(*                                                                         *)
(* Watchlist and portfolio are keyed by symbol: a request for a symbol     *)
(* that is there already is not counted.  Scenarios and routes get a new   *)
(* identifier, and every request is counted.                               *)
(***************************************************************************)
EXTENDS Naturals, FiniteSets

CONSTANTS Symbols,   \* symbols, or identifiers of scenarios and routes
          Posts,     \* slots for requests
          MaxRows,   \* MAX_WATCHLIST_ITEMS, MAX_PORTFOLIO_POSITIONS, ...
          MaxBulk,   \* MAX_BULK_PORTFOLIO_ITEMS
          Tables     \* tables a behaviour may be about

ASSUME TablesAssumption ==
  /\ IsFiniteSet(Posts) /\ MaxRows \in Nat /\ MaxBulk \in Nat \ {0}
  /\ Tables \subseteq {"watchlist", "portfolio", "scenarios", "routes"}

VARIABLES
  table,  \* the table this behaviour is about
  open,   \* history: the slots in use
  rows,   \* symbols or identifiers of the user's rows
  posts   \* of every slot: the request in progress

tablesVars == <<table, open, rows, posts>>

Keyed == table \in {"watchlist", "portfolio"}

NoPost == [step |-> "none"]
Single(step, s) == [step |-> step, symbol |-> s]
Bulk(step, left, room, s) == [step |-> step, left |-> left, room |-> room, symbol |-> s]

TablesInit ==
  /\ table \in Tables
  /\ open \in (SUBSET Posts) \ {{}}
  /\ rows \in {r \in SUBSET Symbols : IsFiniteSet(r) /\ Cardinality(r) <= MaxRows}
  /\ posts = [p \in Posts |-> NoPost]

Idle(p) == p \in open /\ posts[p] = NoPost
Moves(p, request) == posts' = [posts EXCEPT ![p] = request]
TablesSame == UNCHANGED <<table, open>>

\* findUnique by symbol: one that is there goes straight to the upsert.
LookUp(p, s) ==
  /\ Keyed /\ Idle(p)
  /\ Moves(p, Single(IF s \in rows THEN "write" ELSE "count", s))
  /\ UNCHANGED rows /\ TablesSame

\* A scenario or a route has no symbol to look up.
Offer(p, s) ==
  /\ ~Keyed /\ Idle(p)
  /\ s \notin rows /\ \A q \in Posts : posts[q] # NoPost => posts[q].symbol # s
  /\ Moves(p, Single("count", s))
  /\ UNCHANGED rows /\ TablesSame

\* Mutant: one row more than the limit passes.
CountLoose(p) ==
  /\ posts[p].step = "count"
  /\ Moves(p, IF Cardinality(rows) > MaxRows THEN NoPost
              ELSE Single("write", posts[p].symbol))
  /\ UNCHANGED rows /\ TablesSame

\* The user's rows are counted, and the limit refuses the request (400).
Count(p) ==
  /\ posts[p].step = "count"
  /\ Moves(p, IF Cardinality(rows) >= MaxRows THEN NoPost
              ELSE Single("write", posts[p].symbol))
  /\ UNCHANGED rows /\ TablesSame

\* upsert or create; it may fail (500).
Write(p) ==
  /\ posts[p].step = "write"
  /\ Moves(p, NoPost)
  /\ rows' \in {rows, rows \union {posts[p].symbol}}
  /\ TablesSame

\* DELETE, of one row or of all: one statement.
RemoveRows ==
  /\ \/ \E s \in rows : rows' = rows \ {s}
     \/ rows' = {} /\ table = "portfolio"
  /\ UNCHANGED posts /\ TablesSame

\* bulkUpsertUserPortfolio: of the valid symbols at most MaxBulk are taken, and
\* what room there is is counted once.
BulkStart(p) ==
  /\ table = "portfolio" /\ Idle(p)
  /\ \E left \in SUBSET Symbols :
       /\ IsFiniteSet(left) /\ Cardinality(left) \in 1..MaxBulk
       /\ LET used == Cardinality(rows)
          IN Moves(p, Bulk("bulk", left, IF used < MaxRows THEN MaxRows - used ELSE 0,
                           "none"))
  /\ UNCHANGED rows /\ TablesSame

\* The next row is looked up; a new one needs room, or it is reported as failed.
BulkLook(p) ==
  /\ posts[p].step = "bulk"
  /\ LET b == posts[p]
     IN \E s \in b.left :
          Moves(p, IF s \in rows THEN Bulk("bulk_update", b.left \ {s}, b.room, s)
                   ELSE IF b.room > 0 THEN Bulk("bulk_create", b.left \ {s}, b.room, s)
                   ELSE Bulk("bulk", b.left \ {s}, b.room, "none"))
  /\ UNCHANGED rows /\ TablesSame

\* Its upsert fails, or takes one of the room unless the row was there.
BulkWrite(p) ==
  /\ posts[p].step \in {"bulk_update", "bulk_create"}
  /\ LET b == posts[p]
     IN \/ /\ rows' = rows \union {b.symbol}
           /\ Moves(p, Bulk("bulk", b.left,
                            IF b.step = "bulk_create" THEN b.room - 1 ELSE b.room, "none"))
        \/ /\ rows' = rows
           /\ Moves(p, Bulk("bulk", b.left, b.room, "none"))
  /\ TablesSame

\* The answer: what was saved and what was not.
BulkEnds(p) ==
  /\ posts[p].step = "bulk" /\ posts[p].left = {}
  /\ Moves(p, NoPost)
  /\ UNCHANGED rows /\ TablesSame

TablesNext ==
  \/ RemoveRows
  \/ \E p \in Posts : \/ \E s \in Symbols : LookUp(p, s) \/ Offer(p, s)
                      \/ Count(p) \/ Write(p)
                      \/ BulkStart(p) \/ BulkLook(p) \/ BulkWrite(p) \/ BulkEnds(p)

TablesSpec == TablesInit /\ [][TablesNext]_tablesVars

-----------------------------------------------------------------------------
(* Properties                                                              *)

\* What one request may add after others have passed the check.
Batch == IF table = "portfolio" THEN MaxBulk ELSE 1

\* Requests that come one at a time keep the limit, updates of rows that are
\* deleted meanwhile included; each that runs beside them adds at most what one
\* request may write, however long they go on.
QuotaHolds ==
  Cardinality(rows) <= MaxRows + (Cardinality(open) - 1) * Batch

=============================================================================
