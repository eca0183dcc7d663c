------------------------------- MODULE QuoteDesk -------------------------------
(***************************************************************************)
(* A sector desk in the browser: useSectorQuotesBook and                   *)
(* useCryptoSectorQuotesBook (web/src/hooks), on useSequentialInterval.    *)
(* The equity desk keeps its last book of every selection in the session's *)
(* storage; the crypto desk keeps none.                                    *)
(*                                                                         *)
(* A pull asks for the selection of the render that made it, and nothing   *)
(* stops it when the user moves on: pulls of old selections may answer     *)
(* last.  A book stands for the selection it was asked for.                *)
(***************************************************************************)
EXTENDS Naturals, FiniteSets

CONSTANTS Selections,  \* market and sector, or crypto sector
          Pulls,       \* slots for pulls in flight
          NoBook       \* nothing in the storage

ASSUME DeskAssumption == NoBook \notin Selections

VARIABLES
  stored,     \* the hook keeps books in the session's storage
  selection,  \* market, sector
  visible,    \* ~document.hidden
  storage,    \* of every selection: the book kept for it
  task,       \* taskRef.current, pullRef.current: the selection they pull
  pulls,      \* of every slot: the pull in flight
  busy,       \* the slot the interval waits for, as a set of at most one
  payload     \* what the desk shows

deskVars == <<stored, selection, visible, storage, task, pulls, busy, payload>>

Free == [for |-> NoBook]
PullOf(k) == [for |-> k]
Unused == {s \in Pulls : pulls[s] = Free}

\* Before an answer a desk shows empty rows; after a failure it shows them,
\* too, and says so.
Placeholder(k) == [of |-> k, state |-> "loading"]
Degraded(k) == [of |-> k, state |-> "degraded"]
Live(k) == [of |-> k, state |-> "live"]

\* What the desk shows on its first render of a selection.
FirstPaint(k) == IF storage[k] # NoBook THEN Live(storage[k]) ELSE Placeholder(k)

\* Mounted: the effect and the first tick of the interval have each pulled.
DeskInit ==
  /\ stored \in BOOLEAN
  /\ selection \in Selections
  /\ visible \in BOOLEAN
  /\ storage \in [Selections -> Selections \union {NoBook}]
  /\ \A k \in Selections : storage[k] \in {k, NoBook} /\ (~stored => storage[k] = NoBook)
  /\ task = selection
  /\ payload = FirstPaint(selection)
  /\ \E s, t \in Pulls :
       /\ s # t
       /\ pulls = [x \in Pulls |-> IF visible /\ x \in {s, t} THEN PullOf(selection)
                                                              ELSE Free]
       /\ busy = IF visible THEN {t} ELSE {}

\* Mutant: the interval goes on with the pull it was mounted with.
SelectForgetful(k) ==
  /\ k # selection
  /\ selection' = k
  /\ payload' = FirstPaint(k)
  /\ \/ ~visible /\ UNCHANGED pulls
     \/ visible /\ \E s \in Unused : pulls' = [pulls EXCEPT ![s] = PullOf(k)]
  /\ UNCHANGED <<stored, visible, storage, task, busy>>

\* The user chooses another market or sector: the payload is that of the
\* storage or a placeholder, the refs take the new pull, and an effect pulls.
Select(k) ==
  /\ k # selection
  /\ selection' = k
  /\ payload' = FirstPaint(k)
  /\ task' = k
  /\ \/ ~visible /\ UNCHANGED pulls
     \/ visible /\ \E s \in Unused : pulls' = [pulls EXCEPT ![s] = PullOf(k)]
  /\ UNCHANGED <<stored, visible, storage, busy>>

Hide ==
  /\ visible
  /\ visible' = FALSE
  /\ UNCHANGED <<stored, selection, storage, task, pulls, busy, payload>>

\* onVisibility
Show ==
  /\ ~visible
  /\ visible' = TRUE
  /\ \E s \in Unused : pulls' = [pulls EXCEPT ![s] = PullOf(task)]
  /\ UNCHANGED <<stored, selection, storage, task, busy, payload>>

\* The interval fires: not while its last pull runs, and nothing is pulled
\* while the page is hidden.
Fire ==
  /\ busy = {} /\ visible
  /\ \E s \in Unused : /\ pulls' = [pulls EXCEPT ![s] = PullOf(task)]
                       /\ busy' = {s}
  /\ UNCHANGED <<stored, selection, visible, storage, task, payload>>

Ends(s) == pulls' = [pulls EXCEPT ![s] = Free] /\ busy' = busy \ {s}

\* Mutant: the book is stored under the selection of the moment.
AnswerHere(s) ==
  /\ pulls[s] # Free
  /\ Ends(s)
  /\ LET k == pulls[s].for IN
       /\ payload' = Live(k)
       /\ \/ UNCHANGED storage
          \/ stored /\ storage' = [storage EXCEPT ![selection] = k]
  /\ UNCHANGED <<stored, selection, visible, task>>

\* The book arrives: it is shown whatever is selected by now, and stored under
\* its own selection when it has a price.
Answer(s) ==
  /\ pulls[s] # Free
  /\ Ends(s)
  /\ LET k == pulls[s].for IN
       /\ payload' = Live(k)
       /\ \/ UNCHANGED storage
          \/ stored /\ storage' = [storage EXCEPT ![k] = k]
  /\ UNCHANGED <<stored, selection, visible, task>>

\* No answer, or none that is ok: the rows are emptied, stored or not.
Fail(s) ==
  /\ pulls[s] # Free
  /\ Ends(s)
  /\ payload' = Degraded(pulls[s].for)
  /\ UNCHANGED <<stored, selection, visible, storage, task>>

\* Five minutes after it was saved a stored book is not read any more.
Outdate(k) ==
  /\ storage[k] # NoBook
  /\ storage' = [storage EXCEPT ![k] = NoBook]
  /\ UNCHANGED <<stored, selection, visible, task, pulls, busy, payload>>

DeskNext ==
  \/ \E k \in Selections : Select(k) \/ Outdate(k)
  \/ Hide \/ Show \/ Fire
  \/ \E s \in Pulls : Answer(s) \/ Fail(s)

DeskSpec == DeskInit /\ [][DeskNext]_deskVars

\* The interval fires as long as the page lives, and a fetch ends.
DeskFairness ==
  /\ WF_deskVars(Fire)
  /\ \A s \in Pulls : WF_deskVars(Answer(s) \/ Fail(s))

-----------------------------------------------------------------------------
(* Properties                                                              *)

\* A desk that has just changed its selection never shows another one's rows,
\* however many late answers of other selections have been stored meanwhile.
SwitchShowsSelection ==
  [][selection' # selection => payload'.of = selection']_deskVars

\* Once the user stays, with the page in view, the desk comes to show the
\* selection's own rows and keeps to them: the answers of old pulls may
\* overwrite it for a while and no longer.
DeskSettles ==
  \A k \in Selections :
    <>[](selection = k /\ visible)
      => <>[](payload.of = k /\ payload.state # "loading")

=============================================================================
