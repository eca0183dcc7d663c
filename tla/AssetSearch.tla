------------------------------ MODULE AssetSearch ------------------------------
(***************************************************************************)
(* The asset search of the browser (web/src/hooks/                         *)
(* use-global-asset-search.ts): the debounced query is fetched with an     *)
(* AbortController, and the results are shown while the query they settled *)
(* is the active one.  A payload stands for the query it was asked for.    *)
(***************************************************************************)
EXTENDS Naturals, FiniteSets

CONSTANTS Queries,   \* queries of two characters and more
          Requests,  \* slots for requests in flight
          Blank      \* a disabled, empty or one-character query

ASSUME SearchAssumption == Blank \notin Queries

VARIABLES
  active,      \* activeQuery
  results,     \* payload: the query whose results it holds, or Blank
  settled,     \* settledQuery
  failed,      \* error
  requests,    \* of every slot: the request in flight
  controller   \* abortRef: the slot it would abort, as a set of at most one

searchVars == <<active, results, settled, failed, requests, controller>>

Queried == Queries \union {Blank}
NoRequest == [query |-> Blank, aborted |-> FALSE]
RequestFor(q) == [query |-> q, aborted |-> FALSE]

SearchInit ==
  /\ active = Blank /\ results = Blank /\ settled = Blank
  /\ failed = FALSE
  /\ requests = [r \in Requests |-> NoRequest]
  /\ controller = {}

Aborted == [r \in Requests |->
              IF r \in controller /\ requests[r] # NoRequest
              THEN [requests[r] EXCEPT !.aborted = TRUE] ELSE requests[r]]

\* The debounced query changes: the last request is aborted, and a query that
\* is long enough sends its own.
Search(q) ==
  /\ q # active
  /\ active' = q
  /\ \/ /\ q = Blank
        /\ requests' = Aborted /\ controller' = {}
     \/ /\ q # Blank
        /\ \E r \in Requests :
             /\ requests[r] = NoRequest
             /\ requests' = [Aborted EXCEPT ![r] = RequestFor(q)]
             /\ controller' = {r}
  /\ UNCHANGED <<results, settled, failed>>

\* The request of slot r is over, and no controller aborts it any more.
Closes(r) ==
  /\ requests' = [requests EXCEPT ![r] = NoRequest]
  /\ controller' = controller \ {r}
  /\ UNCHANGED active

\* Mutant: results are taken whether or not their request was aborted.
SettleAnyway(r) ==
  /\ requests[r] # NoRequest
  /\ Closes(r)
  /\ LET q == requests[r].query IN
       /\ settled' = q
       /\ \/ results' = q /\ failed' = FALSE
          \/ results' = Blank /\ failed' = TRUE

\* The answer, or an error in its place, is taken unless its request was
\* aborted.
Settle(r) ==
  /\ requests[r] # NoRequest
  /\ Closes(r)
  /\ LET q == requests[r].query IN
     \/ /\ requests[r].aborted
        /\ UNCHANGED <<results, settled, failed>>
     \/ /\ ~requests[r].aborted
        /\ settled' = q
        /\ \/ results' = q /\ failed' = FALSE
           \/ results' = Blank /\ failed' = TRUE

SearchNext ==
  \/ \E q \in Queried : Search(q)
  \/ \E r \in Requests : Settle(r)

SearchSpec == SearchInit /\ [][SearchNext]_searchVars

\* A fetch ends, or its abort does.
SearchFairness == \A r \in Requests : WF_searchVars(Settle(r))

-----------------------------------------------------------------------------
(* Properties                                                              *)

\* A query the user keeps is answered and stays so: no answer of an earlier
\* query unsettles it, which would leave its spinner turning.
SearchSettles ==
  \A q \in Queries : <>[](active = q) => <>[](settled = q)

=============================================================================
