----------------------------- MODULE BrowserProofs -----------------------------
(***************************************************************************)
(* What the browser promises while answers are under way, for any number   *)
(* of slots, selections, tabs and keys:                                    *)
(*                                                                         *)
(*   - a desk that changes its selection shows the selection's own rows,   *)
(*     as a book is only ever stored under what it was asked for;          *)
(*   - the keys of the AI engines are kept: as long as a key was not       *)
(*     written across another save, every save that has read the row has   *)
(*     read that key as it still is, so writing it back changes nothing;   *)
(*   - the chosen engine answers: an engine leaves the order only by a     *)
(*     turn it passes without a key, and the chosen one comes first;       *)
(*   - what is waited for comes: a message is answered, a query that is    *)
(*     kept is, and a desk at which the user stays comes to show its rows. *)
(*     Fairness is stated with the guards of the actions spelled out where *)
(*     WF_ has ENABLED, which the provers do not expand.  A request of the *)
(*     chat has a rank that every step of its own lowers; the only request *)
(*     of the search whose answer is taken is the active query's; the late *)
(*     pulls of a desk become fewer, and no one is sent for what is not    *)
(*     selected any more.                                                  *)
(***************************************************************************)
EXTENDS QuoteDesk, Assistant, AssetSearch, FiniteSetTheorems, WellFoundedInduction, TLAPS

-----------------------------------------------------------------------------
(* A quote desk                                                            *)

Shown == {"loading", "degraded", "live"}

DeskTypeOK ==
  /\ stored \in BOOLEAN /\ visible \in BOOLEAN
  /\ selection \in Selections /\ task \in Selections
  /\ storage \in [Selections -> Selections \union {NoBook}]
  /\ pulls \in [Pulls -> [for : Selections \union {NoBook}]]
  /\ busy \subseteq Pulls
  /\ payload \in [of : Selections, state : Shown]

\* A book is stored under the selection it was asked for.
StoredUnderItsOwn == \A k \in Selections : storage[k] \in {k, NoBook}

DeskInv == DeskTypeOK /\ StoredUnderItsOwn

LEMMA FirstPaintIsOwn ==
  ASSUME DeskInv, NEW k \in Selections
  PROVE  FirstPaint(k) \in [of : Selections, state : Shown] /\ FirstPaint(k).of = k
BY DEF DeskInv, StoredUnderItsOwn, FirstPaint, Live, Placeholder, Shown

LEMMA DeskInitInv == DeskInit => DeskInv
<1> SUFFICES ASSUME DeskInit PROVE DeskInv
  OBVIOUS
<1>1. /\ stored \in BOOLEAN /\ visible \in BOOLEAN
      /\ selection \in Selections /\ task \in Selections
      /\ storage \in [Selections -> Selections \union {NoBook}]
      /\ StoredUnderItsOwn
  BY DEF DeskInit, StoredUnderItsOwn
<1>2. pulls \in [Pulls -> [for : Selections \union {NoBook}]] /\ busy \subseteq Pulls
  BY DEF DeskInit, PullOf, Free
<1>3. payload \in [of : Selections, state : Shown]
  BY <1>1 DEF DeskInit, StoredUnderItsOwn, FirstPaint, Live, Placeholder, Shown
<1> QED
  BY <1>1, <1>2, <1>3 DEF DeskInv, DeskTypeOK

\* A pull that leaves, with what it may leave alone.
LEMMA PullLeaves ==
  ASSUME DeskInv, NEW k \in Selections,
         \/ UNCHANGED pulls
         \/ \E s \in Unused : pulls' = [pulls EXCEPT ![s] = PullOf(k)]
  PROVE  pulls' \in [Pulls -> [for : Selections \union {NoBook}]]
BY DEF DeskInv, DeskTypeOK, PullOf, Unused

LEMMA DeskStepInv == DeskInv /\ [DeskNext]_deskVars => DeskInv'
<1> SUFFICES ASSUME DeskInv, [DeskNext]_deskVars PROVE DeskInv'
  OBVIOUS
<1> USE DEF DeskInv
<1>1. ASSUME NEW k \in Selections, Select(k) PROVE DeskInv'
  <2>1. pulls' \in [Pulls -> [for : Selections \union {NoBook}]]
    BY <1>1, PullLeaves DEF Select
  <2>2. payload' \in [of : Selections, state : Shown]
    BY <1>1, FirstPaintIsOwn DEF Select
  <2> QED
    BY <1>1, <2>1, <2>2 DEF Select, DeskTypeOK, StoredUnderItsOwn
<1>2. ASSUME NEW k \in Selections, Outdate(k) PROVE DeskInv'
  BY <1>2 DEF Outdate, DeskTypeOK, StoredUnderItsOwn
<1>3. CASE Hide
  BY <1>3 DEF Hide, DeskTypeOK, StoredUnderItsOwn
<1>4. CASE Show
  <2>1. pulls' \in [Pulls -> [for : Selections \union {NoBook}]]
    BY <1>4, PullLeaves DEF Show, DeskTypeOK
  <2> QED
    BY <1>4, <2>1 DEF Show, DeskTypeOK, StoredUnderItsOwn
<1>5. CASE Fire
  <2>1. pulls' \in [Pulls -> [for : Selections \union {NoBook}]]
    BY <1>5, PullLeaves DEF Fire, DeskTypeOK
  <2>2. busy' \subseteq Pulls
    BY <1>5 DEF Fire, Unused
  <2> QED
    BY <1>5, <2>1, <2>2 DEF Fire, DeskTypeOK, StoredUnderItsOwn
<1>6. ASSUME NEW s \in Pulls, Ends(s)
      PROVE  /\ pulls' \in [Pulls -> [for : Selections \union {NoBook}]]
             /\ busy' \subseteq Pulls
  BY <1>6 DEF Ends, Free, DeskTypeOK
<1>7. ASSUME NEW s \in Pulls, pulls[s] # Free PROVE pulls[s].for \in Selections
  <2>1. PICK k \in Selections \union {NoBook} : pulls[s] = [for |-> k]
    BY DEF DeskTypeOK
  <2> QED
    BY <1>7, <2>1 DEF Free
<1>8. ASSUME NEW s \in Pulls, Answer(s) PROVE DeskInv'
  <2>1. PICK k \in Selections : k = pulls[s].for
    BY <1>7, <1>8 DEF Answer
  <2>2. payload' \in [of : Selections, state : Shown]
    BY <1>8, <2>1 DEF Answer, Live, Shown
  <2>3. UNCHANGED storage \/ storage' = [storage EXCEPT ![k] = k]
    BY <1>8, <2>1 DEF Answer
  <2>4. storage' \in [Selections -> Selections \union {NoBook}] /\ StoredUnderItsOwn'
    BY <2>3 DEF DeskTypeOK, StoredUnderItsOwn
  <2> QED
    BY <1>6, <1>8, <2>2, <2>4 DEF Answer, DeskTypeOK
<1>9. ASSUME NEW s \in Pulls, Fail(s) PROVE DeskInv'
  <2>1. payload' \in [of : Selections, state : Shown]
    BY <1>7, <1>9 DEF Fail, Degraded, Shown
  <2> QED
    BY <1>6, <1>9, <2>1 DEF Fail, DeskTypeOK, StoredUnderItsOwn
<1>10. CASE UNCHANGED deskVars
  BY <1>10 DEF deskVars, DeskTypeOK, StoredUnderItsOwn
<1> QED
  BY <1>1, <1>2, <1>3, <1>4, <1>5, <1>8, <1>9, <1>10 DEF DeskNext

\* The desk, its pulls and what it shows keep their types: every row it shows is
\* of a selection.
THEOREM DeskTypeCorrect == DeskSpec => []DeskTypeOK
<1>1. DeskInv => DeskTypeOK
  BY DEF DeskInv
<1> QED
  BY <1>1, DeskInitInv, DeskStepInv, PTL DEF DeskSpec

\* However many pulls of old selections answer late, and are stored, a desk that
\* has just changed its selection shows that selection's rows, or none.
THEOREM SwitchesShowSelection == DeskSpec => SwitchShowsSelection
<1>1. DeskInv /\ [DeskNext]_deskVars
        => [selection' # selection => payload'.of = selection']_deskVars
  <2> SUFFICES ASSUME DeskInv, DeskNext, selection' # selection
               PROVE  payload'.of = selection'
    BY DEF deskVars
  <2>1. PICK k \in Selections : Select(k)
    BY DEF DeskNext, Outdate, Hide, Show, Fire, Answer, Fail
  <2> QED
    BY <2>1, FirstPaintIsOwn DEF Select
<1> QED
  BY <1>1, DeskInitInv, DeskStepInv, PTL DEF DeskSpec, SwitchShowsSelection

-----------------------------------------------------------------------------
(* The keys of the AI engines                                              *)

\* What a save has read of a key that was not crossed is what the row holds.
ReadersAgree ==
  \A t \in Tabs, k \in KeyedEngines \ crossed :
    saves[t].step = "read" => saves[t].row[k] = ciphers[k]

KeysInv == KeysTypeOK /\ ReadersAgree /\ KeysAreKept

\* A save is nothing, an asked one or one that has read, and its fields have
\* their types.
LEMMA SaveFields ==
  ASSUME KeysTypeOK, NEW t \in Tabs
  PROVE  /\ saves[t].step = "asked" => saves[t].ask \in Asks
         /\ saves[t].step = "read" => /\ saves[t].ask \in Asks
                                      /\ saves[t].row \in [KeyedEngines -> Keys]
<1>1. \/ saves[t] = NoSave
      \/ \E a \in Asks : saves[t] = Asked(a)
      \/ \E a \in Asks, row \in [KeyedEngines -> Keys] : saves[t] = HasRead(a, row)
  BY DEF KeysTypeOK
<1>2. CASE saves[t] = NoSave
  BY <1>2 DEF NoSave
<1>3. CASE \E a \in Asks : saves[t] = Asked(a)
  BY <1>3 DEF Asked
<1>4. CASE \E a \in Asks, row \in [KeyedEngines -> Keys] : saves[t] = HasRead(a, row)
  BY <1>4 DEF HasRead
<1> QED
  BY <1>1, <1>2, <1>3, <1>4

\* What is written keeps the types.
LEMMA MergedType ==
  ASSUME KeysTypeOK, NEW t \in Tabs, saves[t].step = "read"
  PROVE  Merged(saves[t]) \in [KeyedEngines -> Keys]
<1>1. saves[t].ask \in Asks /\ saves[t].row \in [KeyedEngines -> Keys]
  BY SaveFields
<1>2. \A k \in KeyedEngines :
        (IF saves[t].ask[k] = Keep THEN saves[t].row[k] ELSE saves[t].ask[k]) \in Keys
  BY <1>1 DEF Asks
<1> QED
  BY <1>2 DEF Merged

LEMMA KeysInitInv == KeysInit => KeysInv
<1> SUFFICES ASSUME KeysInit PROVE KeysInv
  OBVIOUS
<1>1. KeysTypeOK
  BY DEF KeysInit, KeysTypeOK
<1>2. ReadersAgree
  BY DEF KeysInit, ReadersAgree, NoSave
<1>3. KeysAreKept
  BY DEF KeysInit, KeysAreKept
<1> QED
  BY <1>1, <1>2, <1>3 DEF KeysInv

\* A save that leaves the row alone, and does not come to read anything but the
\* row as it is, keeps the invariant.
LEMMA SaveMoves ==
  ASSUME KeysInv, NEW t \in Tabs, NEW s,
         saves' = [saves EXCEPT ![t] = s],
         UNCHANGED <<ciphers, meant, crossed>>,
         \/ s = NoSave
         \/ \E a \in Asks : s = Asked(a) \/ s = HasRead(a, ciphers)
  PROVE  KeysInv'
<1> USE DEF KeysInv
<1>1. KeysTypeOK'
  BY DEF KeysTypeOK
<1>2. ReadersAgree'
  <2> SUFFICES ASSUME NEW u \in Tabs, NEW k \in KeyedEngines \ crossed,
                      saves'[u].step = "read"
               PROVE  saves'[u].row[k] = ciphers[k]
    BY DEF ReadersAgree
  <2>1. CASE u = t
    <3>1. saves'[u] = s
      BY <2>1 DEF KeysTypeOK
    <3>2. \E a \in Asks : s = HasRead(a, ciphers)
      BY <3>1 DEF NoSave, Asked
    <3> QED
      BY <3>1, <3>2 DEF HasRead
  <2>2. CASE u # t
    BY <2>2 DEF KeysTypeOK, ReadersAgree
  <2> QED
    BY <2>1, <2>2
<1>3. KeysAreKept'
  BY DEF KeysAreKept
<1> QED
  BY <1>1, <1>2, <1>3

LEMMA KeysStepInv == KeysInv /\ [KeysNext]_keysVars => KeysInv'
<1> SUFFICES ASSUME KeysInv, [KeysNext]_keysVars PROVE KeysInv'
  OBVIOUS
<1>1. ASSUME NEW t \in Tabs, Submit(t) PROVE KeysInv'
  BY <1>1, SaveMoves DEF Submit
<1>2. ASSUME NEW t \in Tabs, ReadRow(t) PROVE KeysInv'
  <2>1. saves[t].ask \in Asks
    BY <1>2, SaveFields DEF ReadRow, KeysInv
  <2> QED
    BY <1>2, <2>1, SaveMoves DEF ReadRow
<1>3. ASSUME NEW t \in Tabs, SaveFails(t) PROVE KeysInv'
  BY <1>3, SaveMoves DEF SaveFails
<1>4. ASSUME NEW t \in Tabs, WriteRow(t) PROVE KeysInv'
  <2>1. saves[t].step = "read" /\ t \in Reads
    BY <1>4 DEF WriteRow, Reads
  <2>2. Merged(saves[t]) \in [KeyedEngines -> Keys]
    BY <2>1, MergedType DEF KeysInv
  <2>3. KeysTypeOK'
    <3>1. ciphers' \in [KeyedEngines -> Keys] /\ meant' \in [KeyedEngines -> Keys]
      BY <1>4, <2>2 DEF WriteRow, KeysInv, KeysTypeOK
    <3>2. crossed' \subseteq KeyedEngines
      BY <1>4 DEF WriteRow, KeysInv, KeysTypeOK, AsksAbout
    <3>3. saves' \in [Tabs -> {NoSave} \union {Asked(a) : a \in Asks}
            \union {HasRead(a, row) : a \in Asks, row \in [KeyedEngines -> Keys]}]
      BY <1>4 DEF WriteRow, KeysInv, KeysTypeOK
    <3> QED
      BY <3>1, <3>2, <3>3 DEF KeysTypeOK
  <2>4. ASSUME NEW k \in KeyedEngines \ AsksAbout(t), k \notin crossed
        PROVE  ciphers'[k] = ciphers[k]
    <3>1. saves[t].ask[k] = Keep
      BY <2>4 DEF AsksAbout
    <3>2. saves[t].row[k] = ciphers[k]
      BY <2>1, <2>4 DEF KeysInv, ReadersAgree
    <3> QED
      BY <1>4, <3>1, <3>2 DEF WriteRow, Merged
  <2>5. ReadersAgree'
    <3> SUFFICES ASSUME NEW u \in Tabs, NEW k \in KeyedEngines \ crossed',
                        saves'[u].step = "read"
                 PROVE  saves'[u].row[k] = ciphers'[k]
      BY DEF ReadersAgree
    <3>1. u # t /\ saves'[u] = saves[u]
      BY <1>4 DEF WriteRow, KeysInv, KeysTypeOK, NoSave
    <3>2. Reads # {t}
      BY <3>1 DEF Reads
    <3>3. k \notin AsksAbout(t) /\ k \notin crossed
      BY <1>4, <3>2 DEF WriteRow
    <3>4. ciphers'[k] = ciphers[k]
      BY <2>4, <3>3
    <3> QED
      BY <3>1, <3>3, <3>4 DEF KeysInv, ReadersAgree
  <2>6. KeysAreKept'
    <3> SUFFICES ASSUME NEW k \in KeyedEngines \ crossed'
                 PROVE  ciphers'[k] = meant'[k]
      BY DEF KeysAreKept
    <3>1. CASE k \in AsksAbout(t)
      BY <1>4, <3>1 DEF WriteRow
    <3>2. CASE k \notin AsksAbout(t)
      <4>1. k \notin crossed
        BY <1>4, <3>2 DEF WriteRow
      <4>2. ciphers'[k] = ciphers[k]
        BY <2>4, <3>2, <4>1
      <4>3. meant'[k] = meant[k]
        BY <1>4, <3>2 DEF WriteRow
      <4> QED
        BY <4>1, <4>2, <4>3 DEF KeysInv, KeysAreKept
    <3> QED
      BY <3>1, <3>2
  <2> QED
    BY <2>3, <2>5, <2>6 DEF KeysInv
<1>5. CASE UNCHANGED keysVars
  BY <1>5 DEF keysVars, KeysInv, KeysTypeOK, ReadersAgree, KeysAreKept
<1> QED
  BY <1>1, <1>2, <1>3, <1>4, <1>5 DEF KeysNext, KeysStep

\* The ciphers, the saves and what they have read keep their types.
THEOREM KeysTypeCorrect == KeysSpec => []KeysTypeOK
<1>1. KeysInv => KeysTypeOK
  BY DEF KeysInv
<1> QED
  BY <1>1, KeysInitInv, KeysStepInv, PTL DEF KeysSpec

\* A key that was not written across another save is what the user last asked
\* for, however many tabs save the other key, and however many saves fail.
THEOREM KeysKept == KeysSpec => []KeysAreKept
<1>1. KeysInv => KeysAreKept
  BY DEF KeysInv
<1> QED
  BY <1>1, KeysInitInv, KeysStepInv, PTL DEF KeysSpec

-----------------------------------------------------------------------------
(* The chat with the assistant                                             *)

\* A request whose engines are being tried, or that is with the panel.
Tries == [step : {"panel", "trying"}, explicit : Engines \union {AutoPick},
          available : SUBSET Engines, ranked : Rankings, left : SUBSET Engines,
          keys : [KeyedEngines -> Keys], keyless : SUBSET Engines]

RequestOK ==
  /\ request.step \in {"posted", "listed"} => request.explicit \in Engines \union {AutoPick}
  /\ request.step = "listed" =>
       request.available \in SUBSET Engines /\ request.ranked \in Rankings
  /\ request.step \in {"panel", "trying"} => request \in Tries
  /\ request.step \in {"none", "posted", "listed", "panel", "trying"}

ChatTypeOK ==
  /\ messages \in Nat /\ tooLong \in BOOLEAN
  /\ known \subseteq Engines /\ engine \in Engines \union {AutoPick} /\ panel \in BOOLEAN
  /\ RequestOK

\* An engine that is not left has passed its turn, having no key in the row the
\* request has read.
OnlyKeylessPass ==
  request.step \in {"panel", "trying"} =>
    /\ request.available \ request.left \subseteq request.keyless
    /\ request.left \subseteq request.available
    /\ \A e \in request.keyless : ~HasKey(e, request.keys)

ChatInv == ChatTypeOK /\ OnlyKeylessPass /\ ChosenEngineAnswers

LEMMA LeastPlace ==
  ASSUME NEW S \in SUBSET Nat, S # {}
  PROVE  \E m \in S : \A n \in S : m <= n
<1> DEFINE R == {s \in Nat \X Nat : s[1] < s[2]}
<1>1. IsWellFoundedOn(OpToRel(<, Nat), Nat)
  BY NatLessThanWellFounded
<1>2. OpToRel(<, Nat) = R
  BY DEF OpToRel
<1>3. PICK m \in S : \A n \in S : ~(<<n, m>> \in R)
  <2> HIDE DEF R
  <2> QED
    BY <1>1, <1>2, WFMin
<1>4. \A n \in S : n \in Nat /\ m \in Nat /\ ~(n < m)
  BY <1>3
<1> QED
  BY <1>4

\* As long as an engine is left there is one whose turn it is.
LEMMA SomebodysTurn ==
  ASSUME NEW left \in SUBSET Engines, left # {}, NEW ranked \in Rankings,
         NEW explicit
  PROVE  TurnOf(left, ranked, explicit) \in left
<1>1. ranked \in Seq(Engines) /\ Range(ranked) = Engines
  BY AssistantAssumption
<1>2. \A e \in Engines : Place(ranked, e) \in Nat
  <2> SUFFICES ASSUME NEW e \in Engines PROVE Place(ranked, e) \in Nat
    OBVIOUS
  <2>1. \E i \in DOMAIN ranked : ranked[i] = e
    BY <1>1 DEF Range
  <2>2. Place(ranked, e) \in DOMAIN ranked
    BY <2>1 DEF Place
  <2> QED
    BY <1>1, <2>2
<1> DEFINE S == {Place(ranked, e) : e \in left}
<1>3. PICK m \in S : \A n \in S : m <= n
  <2>1. S \in SUBSET Nat /\ S # {}
    BY <1>2
  <2> HIDE DEF S
  <2> QED
    BY <2>1, LeastPlace
<1>4. PICK e \in left : \A d \in left : Place(ranked, e) <= Place(ranked, d)
  BY <1>3
<1>5. FirstOf(ranked, left) \in left
  BY <1>4 DEF FirstOf
<1> QED
  BY <1>5 DEF TurnOf

LEMMA ChatInitInv == ChatInit => ChatInv
<1> SUFFICES ASSUME ChatInit PROVE ChatInv
  OBVIOUS
<1>1. request.step = "none" /\ outcome.kind = "none"
  BY DEF ChatInit, Idle
<1>2. ChatTypeOK
  BY <1>1 DEF ChatInit, ChatTypeOK, RequestOK
<1> QED
  BY <1>1, <1>2 DEF ChatInv, OnlyKeylessPass, ChosenEngineAnswers

\* However a request ends, the chat keeps its types.
LEMMA ConclusionsType ==
  ASSUME ChatTypeOK, NEW o, Concludes(o)
  PROVE  ChatTypeOK' /\ OnlyKeylessPass'
<1>1. request'.step = "none"
  BY DEF Concludes, Idle
<1>2. RequestOK' /\ OnlyKeylessPass'
  BY <1>1 DEF RequestOK, OnlyKeylessPass
<1>3. tooLong' \in BOOLEAN
  <2>1. (IF o.kind \in {"reply", "panel"} THEN {tooLong, TRUE} ELSE {tooLong})
          \subseteq BOOLEAN
    BY Zenon DEF ChatTypeOK
  <2> QED
    BY <2>1, Zenon DEF Concludes
<1>4. messages' \in Nat /\ UNCHANGED <<known, engine, panel>>
  BY DEF Concludes, ChatTypeOK
<1> QED
  BY <1>2, <1>3, <1>4 DEF ChatTypeOK

\* A request ends, with anything but a reply of one engine.
LEMMA ConclusionsKeep ==
  ASSUME ChatInv, NEW o, Concludes(o), o.kind # "reply"
  PROVE  ChatInv'
<1>1. ChatTypeOK' /\ OnlyKeylessPass'
  BY ConclusionsType DEF ChatInv
<1>2. ChosenEngineAnswers'
  BY DEF Concludes, ChosenEngineAnswers
<1> QED
  BY <1>1, <1>2 DEF ChatInv

\* A turn without a key, and an answer.
LEMMA TurnsKeep ==
  ASSUME ChatInv, TryEngine
  PROVE  ChatInv'
<1>1. /\ request \in Tries /\ request.step = "trying"
      /\ request.available \ request.left \subseteq request.keyless
      /\ request.left \subseteq request.available
      /\ \A e \in request.keyless : ~HasKey(e, request.keys)
  BY DEF TryEngine, ChatInv, ChatTypeOK, RequestOK, OnlyKeylessPass
<1>2. CASE Concludes(Unavailable)
  BY <1>2, ConclusionsKeep DEF Unavailable
<1>3. CASE /\ request.left # {} /\ "null" \in May(Turn, request.keys)
           /\ request' = [request EXCEPT !.left = @ \ {Turn},
                                         !.keyless = @ \union {Turn}]
           /\ UNCHANGED <<messages, tooLong, known, engine, panel, outcome>>
  <2>1. Turn \in request.left /\ Turn \in Engines
    BY <1>1, <1>3, SomebodysTurn DEF Turn, Tries
  <2>2. ~HasKey(Turn, request.keys)
    BY <1>3 DEF May
  <2>3. /\ request' \in Tries /\ request'.step = "trying"
        /\ request'.left = request.left \ {Turn}
        /\ request'.keyless = request.keyless \union {Turn}
        /\ request'.available = request.available /\ request'.keys = request.keys
    BY <1>1, <1>3, <2>1 DEF Tries
  <2>4. ChatTypeOK'
    BY <1>3, <2>3 DEF ChatInv, ChatTypeOK, RequestOK
  <2>5. OnlyKeylessPass'
    <3>1. \A e \in request'.keyless : ~HasKey(e, request'.keys)
      BY <1>1, <2>2, <2>3
    <3>2. /\ request'.available \ request'.left \subseteq request'.keyless
          /\ request'.left \subseteq request'.available
      BY <1>1, <2>3
    <3> QED
      BY <3>1, <3>2 DEF OnlyKeylessPass, HasKey
  <2>6. ChosenEngineAnswers'
    BY <1>3 DEF ChatInv, ChosenEngineAnswers
  <2> QED
    BY <2>4, <2>5, <2>6 DEF ChatInv
<1>4. CASE request.left # {} /\ Concludes(ReplyOf(Turn))
  <2>1. ChatTypeOK' /\ OnlyKeylessPass'
    BY <1>4, ConclusionsType DEF ChatInv
  <2>2. \/ Turn = request.explicit \/ request.explicit \notin request.available
        \/ request.explicit \in request.keyless
    BY <1>1 DEF Turn, TurnOf
  <2>3. ChosenEngineAnswers'
    BY <1>4, <2>2 DEF Concludes, ReplyOf, ChosenEngineAnswers
  <2> QED
    BY <2>1, <2>3 DEF ChatInv
<1> QED
  BY <1>2, <1>3, <1>4 DEF TryEngine

LEMMA ChatStepInv ==
  KeysTypeOK /\ ChatInv /\ [ChatAndKeysNext]_<<chatVars, keysVars>> => ChatInv'
<1> SUFFICES ASSUME KeysTypeOK, ChatInv, [ChatAndKeysNext]_<<chatVars, keysVars>>
             PROVE  ChatInv'
  OBVIOUS
<1>1. RowOrNothing \subseteq [KeyedEngines -> Keys]
  BY DEF KeysTypeOK, RowOrNothing, NoKeys, Keys
<1>2. CASE RefreshEngines
  <2>1. known' \subseteq Engines /\ engine' \in Engines \union {AutoPick}
    BY <1>2 DEF RefreshEngines, EnginesFor, ChatInv, ChatTypeOK
  <2> QED
    BY <1>2, <2>1 DEF RefreshEngines, ChatInv, ChatTypeOK, RequestOK, OnlyKeylessPass,
         ChosenEngineAnswers
<1>3. CASE Choose
  BY <1>3 DEF Choose, ChatInv, ChatTypeOK, RequestOK, OnlyKeylessPass,
       ChosenEngineAnswers
<1>4. CASE Send
  <2>1. request'.step = "posted" /\ request'.explicit \in Engines \union {AutoPick}
    BY <1>4 DEF Send, ChatInv, ChatTypeOK
  <2> QED
    BY <1>4, <2>1 DEF Send, ChatInv, ChatTypeOK, RequestOK, OnlyKeylessPass,
         ChosenEngineAnswers
<1>5. CASE Refuse
  BY <1>5, ConclusionsKeep DEF Refuse
<1>6. CASE Reject
  BY <1>6, ConclusionsKeep DEF Reject
<1>7. CASE ListEngines
  <2>1. CASE Concludes([kind |-> "no_engine"])
    BY <2>1, ConclusionsKeep
  <2>2. ASSUME NEW row \in RowOrNothing, NEW ranked \in Rankings,
               request' = [step |-> "listed", explicit |-> request.explicit,
                           ensemble |-> /\ request.ensemble
                                        /\ request.explicit = AutoPick
                                        /\ Cardinality(EnginesFor(row)) >= 2,
                           available |-> EnginesFor(row), ranked |-> ranked],
               UNCHANGED <<messages, tooLong, known, engine, panel, outcome>>
        PROVE  ChatInv'
    <3>1. /\ request'.step = "listed" /\ request'.ranked \in Rankings
          /\ request'.explicit \in Engines \union {AutoPick}
          /\ request'.available \in SUBSET Engines
      BY <1>7, <2>2 DEF ListEngines, EnginesFor, ChatInv, ChatTypeOK, RequestOK
    <3> QED
      BY <2>2, <3>1 DEF ChatInv, ChatTypeOK, RequestOK, OnlyKeylessPass,
           ChosenEngineAnswers
  <2> QED
    BY <1>7, <2>1, <2>2 DEF ListEngines
<1>8. CASE LoadKeys
  <2>1. PICK row \in [KeyedEngines -> Keys] :
          request' = [step |-> IF request.ensemble THEN "panel" ELSE "trying",
                      explicit |-> request.explicit, available |-> request.available,
                      ranked |-> request.ranked, left |-> request.available,
                      keys |-> row, keyless |-> {}]
    BY <1>1, <1>8 DEF LoadKeys
  <2>2. /\ request.explicit \in Engines \union {AutoPick}
        /\ request.available \in SUBSET Engines /\ request.ranked \in Rankings
    BY <1>8 DEF LoadKeys, ChatInv, ChatTypeOK, RequestOK
  <2>3. /\ request' \in Tries /\ request'.step \in {"panel", "trying"}
        /\ request'.left = request'.available /\ request'.keyless = {}
    BY <2>1, <2>2 DEF Tries
  <2>4. ChatTypeOK'
    BY <1>8, <2>3 DEF LoadKeys, ChatInv, ChatTypeOK, RequestOK
  <2> QED
    BY <1>8, <2>3, <2>4 DEF LoadKeys, ChatInv, OnlyKeylessPass, ChosenEngineAnswers
<1>9. CASE Panel
  <2>1. CASE \E o \in {Unavailable, [kind |-> "panel"]} : Concludes(o)
    BY <2>1, ConclusionsKeep DEF Unavailable
  <2>2. CASE /\ request' = [request EXCEPT !.step = "trying"]
             /\ UNCHANGED <<messages, tooLong, known, engine, panel, outcome>>
    <3>1. request \in Tries /\ request.step = "panel"
      BY <1>9 DEF Panel, ChatInv, ChatTypeOK, RequestOK
    <3>2. /\ request' \in Tries /\ request'.step = "trying"
          /\ request'.left = request.left /\ request'.keyless = request.keyless
          /\ request'.available = request.available /\ request'.keys = request.keys
      BY <2>2, <3>1 DEF Tries
    <3>3. ChatTypeOK'
      BY <2>2, <3>2 DEF ChatInv, ChatTypeOK, RequestOK
    <3>4. OnlyKeylessPass'
      BY <3>1, <3>2 DEF ChatInv, OnlyKeylessPass, HasKey
    <3> QED
      BY <2>2, <3>3, <3>4 DEF ChatInv, ChosenEngineAnswers
  <2> QED
    BY <1>9, <2>1, <2>2 DEF Panel
<1>10. CASE UNCHANGED chatVars
  BY <1>10 DEF chatVars, ChatInv, ChatTypeOK, RequestOK, OnlyKeylessPass,
       ChosenEngineAnswers
<1> QED
  BY <1>2, <1>3, <1>4, <1>5, <1>6, <1>7, <1>8, <1>9, <1>10, TurnsKeep
  DEF ChatAndKeysNext, ChatNext, Serve

LEMMA ChatInvariant == ChatSpec => [](KeysInv /\ ChatInv)
<1>1. KeysInv /\ [ChatAndKeysNext]_<<chatVars, keysVars>> => KeysInv'
  <2>1. [ChatAndKeysNext]_<<chatVars, keysVars>> => [KeysNext]_keysVars
    BY DEF ChatAndKeysNext
  <2> QED
    BY <2>1, KeysStepInv
<1>2. KeysInv /\ ChatInv /\ [ChatAndKeysNext]_<<chatVars, keysVars>>
        => (KeysInv /\ ChatInv)'
  BY <1>1, ChatStepInv DEF KeysInv
<1> QED
  BY <1>2, KeysInitInv, ChatInitInv, PTL DEF ChatSpec

\* The chat and its request keep their types, whatever the keys do meanwhile.
THEOREM ChatTypeCorrect == ChatSpec => []ChatTypeOK
<1>1. ChatInv => ChatTypeOK
  BY DEF ChatInv
<1> QED
  BY <1>1, ChatInvariant, PTL

\* However the keys change between the two reads of the row: a reply comes from
\* the engine the user had chosen, unless that engine had no key.
THEOREM ChosenAnswers == ChatSpec => []ChosenEngineAnswers
<1>1. ChatInv => ChosenEngineAnswers
  BY DEF ChatInv
<1> QED
  BY <1>1, ChatInvariant, PTL

-----------------------------------------------------------------------------
(* Every message is answered                                               *)

\* The fairness of Serve with its guard spelled out: a request is open.
ServeComes == <>(request = Idle) \/ <><<Serve>>_chatVars

\* A request without a step is none.
NoneIsIdle == request.step = "none" => request = Idle

\* How far a request is from its end.
ChatRank ==
  IF request = Idle THEN 0
  ELSE CASE request.step = "posted" -> 8
         [] request.step = "listed" -> 7
         [] request.step = "panel"  -> Cardinality(request.left) + 2
         [] request.step = "trying" -> Cardinality(request.left) + 1

LEMMA EnginesCounted ==
  ASSUME NEW S \in SUBSET Engines
  PROVE  IsFiniteSet(S) /\ Cardinality(S) \in 0..4
<1>1. IsFiniteSet({}) /\ Cardinality({}) = 0
  BY FS_EmptySet
<1>2. IsFiniteSet({"fable"}) /\ Cardinality({"fable"}) \in 0..1
  BY <1>1, FS_AddElement
<1>3. IsFiniteSet({"fable", "openai"}) /\ Cardinality({"fable", "openai"}) \in 0..2
  <2>1. {"fable", "openai"} = {"fable"} \union {"openai"}
    OBVIOUS
  <2> QED
    BY <1>2, <2>1, FS_AddElement
<1>4. IsFiniteSet({"fable", "openai", "gemini"}) /\ Cardinality({"fable", "openai", "gemini"}) \in 0..3
  <2>1. {"fable", "openai", "gemini"} = {"fable", "openai"} \union {"gemini"}
    OBVIOUS
  <2> QED
    BY <1>3, <2>1, FS_AddElement
<1>5. IsFiniteSet(Engines) /\ Cardinality(Engines) \in 0..4
  <2>1. Engines = {"fable", "openai", "gemini"} \union {"ollama"}
    BY DEF Engines
  <2> QED
    BY <1>4, <2>1, FS_AddElement
<1>6. IsFiniteSet(S) /\ Cardinality(S) <= Cardinality(Engines)
  BY <1>5, FS_Subset
<1>7. Cardinality(S) \in Nat
  BY <1>6, FS_CardinalityType
<1> QED
  BY <1>5, <1>6, <1>7

LEMMA RankType ==
  ChatInv /\ NoneIsIdle => ChatRank \in 0..8 /\ (ChatRank <= 0 => request = Idle)
<1> SUFFICES ASSUME ChatInv, NoneIsIdle
             PROVE  ChatRank \in 0..8 /\ (ChatRank <= 0 => request = Idle)
  OBVIOUS
<1>1. RequestOK
  BY DEF ChatInv, ChatTypeOK
<1>2. request.step \in {"panel", "trying"} => Cardinality(request.left) \in 0..4
  BY <1>1, EnginesCounted DEF RequestOK, Tries
<1> QED
  BY <1>1, <1>2 DEF ChatRank, NoneIsIdle, RequestOK

\* Each thing the server does ends the request or brings it nearer its end.
LEMMA ServeLowers ==
  ASSUME KeysTypeOK, ChatInv, NoneIsIdle, ChatInv', Serve
  PROVE  NoneIsIdle' /\ (request' = Idle \/ ChatRank' < ChatRank)
<1>1. ASSUME NEW o, Concludes(o)
      PROVE  request' = Idle
  BY <1>1 DEF Concludes
<1>2. CASE request' = Idle
  BY <1>2 DEF NoneIsIdle
<1>3. CASE ListEngines /\ request'.step = "listed"
  <2>1. request.step = "posted" /\ request # Idle /\ request' # Idle
    BY <1>3 DEF ListEngines, Idle
  <2> QED
    BY <1>3, <2>1 DEF ChatRank, NoneIsIdle
<1>4. CASE LoadKeys
  <2>1. request.step = "listed" /\ request # Idle
    BY <1>4 DEF LoadKeys, Idle
  <2>2. request'.step \in {"panel", "trying"}
    BY <1>4 DEF LoadKeys
  <2>3. request'.left \in SUBSET Engines /\ request' # Idle
    BY <2>2 DEF ChatInv, ChatTypeOK, RequestOK, Tries, Idle
  <2>4. Cardinality(request'.left) \in 0..4
    BY <2>3, EnginesCounted
  <2>5. ChatRank = 7
    BY <2>1 DEF ChatRank
  <2>6. ChatRank' \in 0..6
    BY <2>2, <2>3, <2>4 DEF ChatRank
  <2> QED
    BY <2>2, <2>5, <2>6 DEF NoneIsIdle
<1>5. CASE Panel /\ request' = [request EXCEPT !.step = "trying"]
  <2>1. request.step = "panel" /\ request \in Tries
    BY <1>5 DEF Panel, ChatInv, ChatTypeOK, RequestOK
  <2>2. /\ request'.step = "trying" /\ request'.left = request.left
        /\ request.left \in SUBSET Engines /\ request # Idle /\ request' # Idle
    BY <1>5, <2>1 DEF Tries, Idle
  <2>3. Cardinality(request.left) \in 0..4
    BY <2>2, EnginesCounted
  <2> QED
    BY <2>1, <2>2, <2>3 DEF ChatRank, NoneIsIdle
<1>6. CASE /\ TryEngine /\ request.left # {}
           /\ request' = [request EXCEPT !.left = @ \ {Turn}, !.keyless = @ \union {Turn}]
  <2>1. request.step = "trying" /\ request \in Tries
    BY <1>6 DEF TryEngine, ChatInv, ChatTypeOK, RequestOK
  <2>0. request'.step = "trying" /\ request'.left = request.left \ {Turn}
    BY <1>6, <2>1 DEF Tries
  <2>2. /\ request'.step = "trying" /\ request'.left = request.left \ {Turn}
        /\ request.left \in SUBSET Engines /\ request # Idle /\ request' # Idle
    BY <2>0, <2>1 DEF Tries, Idle
  <2>3. Turn \in request.left
    BY <1>6, <2>1, SomebodysTurn DEF Turn, Tries
  <2>4. Cardinality(request.left) \in 0..4 /\ IsFiniteSet(request.left)
    BY <2>2, EnginesCounted
  <2>5. Cardinality(request'.left) = Cardinality(request.left) - 1
    BY <2>2, <2>3, <2>4, FS_RemoveElement
  <2> QED
    BY <2>1, <2>2, <2>4, <2>5 DEF ChatRank, NoneIsIdle
<1>7. Reject => request' = Idle
  BY <1>1 DEF Reject
<1>8. ListEngines => request' = Idle \/ request'.step = "listed"
  BY <1>1 DEF ListEngines
<1>9. Panel => request' = Idle \/ request' = [request EXCEPT !.step = "trying"]
  BY <1>1 DEF Panel
<1>10. TryEngine => \/ request' = Idle
                    \/ /\ request.left # {}
                       /\ request' = [request EXCEPT !.left = @ \ {Turn}, !.keyless = @ \union {Turn}]
  BY <1>1 DEF TryEngine
<1> QED
  BY <1>2, <1>3, <1>4, <1>5, <1>6, <1>7, <1>8, <1>9, <1>10 DEF Serve

\* Nothing else takes a request back, and a new one waits for the last.
LEMMA OthersWait ==
  ASSUME KeysTypeOK, ChatInv, NoneIsIdle, ChatInv',
         [ChatAndKeysNext]_<<chatVars, keysVars>>
  PROVE  NoneIsIdle' /\ (request = Idle \/ request' = Idle \/ ChatRank' <= ChatRank)
<1>1. CASE Serve
  <2>1. ChatRank \in Nat
    BY RankType
  <2>2. (ChatInv /\ NoneIsIdle => ChatRank \in 0..8)'
    BY RankType, PTL
  <2> QED
    BY <1>1, <2>1, <2>2, ServeLowers
<1>2. CASE request' = request
  <2>1. ChatRank' = ChatRank /\ NoneIsIdle'
    BY <1>2 DEF ChatRank, NoneIsIdle
  <2> QED
    BY <2>1, RankType
<1>3. CASE Send
  BY <1>3 DEF Send, NoneIsIdle
<1>4. CASE request' = Idle
  BY <1>4 DEF NoneIsIdle
<1>5. \/ Serve \/ Send \/ request' = request \/ request' = Idle
  BY DEF ChatAndKeysNext, ChatNext, chatVars, RefreshEngines, Choose, Refuse, Concludes
<1> QED
  BY <1>1, <1>2, <1>3, <1>4, <1>5

\* A behaviour of the chat whose server goes on with what it has begun.
FairChat ==
  /\ [][ChatAndKeysNext]_<<chatVars, keysVars>>
  /\ [](KeysTypeOK /\ ChatInv /\ NoneIsIdle)
  /\ []ServeComes

\* A request that is so near its end comes to it.
ChatEndsWithin(n) == [](FairChat => (ChatRank <= n => <>(request = Idle)))

LEMMA ChatEndsAtOnce == ChatEndsWithin(0)
BY RankType, PTL DEF ChatEndsWithin, FairChat

LEMMA ChatEndsLater ==
  ASSUME NEW n \in Nat
  PROVE  ChatEndsWithin(n) => ChatEndsWithin(n + 1)
<1>1. /\ KeysTypeOK /\ ChatInv /\ NoneIsIdle /\ (KeysTypeOK /\ ChatInv /\ NoneIsIdle)'
      /\ ChatRank <= n + 1 /\ [ChatAndKeysNext]_<<chatVars, keysVars>>
      => request = Idle \/ (request = Idle)' \/ (ChatRank <= n + 1)'
  <2>1. (ChatInv /\ NoneIsIdle => ChatRank \in 0..8)'
    BY RankType, PTL
  <2> QED
    BY <2>1, RankType, OthersWait
<1>2. /\ KeysTypeOK /\ ChatInv /\ NoneIsIdle /\ (KeysTypeOK /\ ChatInv /\ NoneIsIdle)'
      /\ ChatRank <= n + 1 /\ <<Serve>>_chatVars
      => (request = Idle)' \/ (ChatRank <= n)'
  <2>1. (ChatInv /\ NoneIsIdle => ChatRank \in 0..8)'
    BY RankType, PTL
  <2> QED
    BY <2>1, RankType, ServeLowers
<1> QED
  BY <1>1, <1>2, PTL DEF ChatEndsWithin, FairChat, ServeComes

\* No request is farther from its end than eight things that the server does.
LEMMA ChatEnds == ChatEndsWithin(8)
<1>1. \A n \in Nat : ChatEndsWithin(n) => ChatEndsWithin(n + 1)
  BY ChatEndsLater
<1>2. ChatEndsWithin(1) /\ ChatEndsWithin(2)
  <2>1. ChatEndsWithin(0 + 1)
    BY <1>1, ChatEndsAtOnce
  <2>2. ChatEndsWithin(1 + 1)
    BY <1>1, <2>1
  <2> QED
    BY <2>1, <2>2
<1>3. ChatEndsWithin(3) /\ ChatEndsWithin(4)
  <2>1. ChatEndsWithin(2 + 1)
    BY <1>1, <1>2
  <2>2. ChatEndsWithin(3 + 1)
    BY <1>1, <2>1
  <2> QED
    BY <2>1, <2>2
<1>4. ChatEndsWithin(5) /\ ChatEndsWithin(6)
  <2>1. ChatEndsWithin(4 + 1)
    BY <1>1, <1>3
  <2>2. ChatEndsWithin(5 + 1)
    BY <1>1, <2>1
  <2> QED
    BY <2>1, <2>2
<1>5. ChatEndsWithin(6 + 1)
  BY <1>1, <1>4
<1>6. ChatEndsWithin(7 + 1)
  BY <1>1, <1>5
<1> QED
  BY <1>6

\* Whatever keys come and go: as long as the server goes on with what it has
\* begun, each message is answered, by a text or by a failure.
THEOREM MessagesAreAnswered == ChatSpec /\ []ServeComes => ChatAnswers
<1>1. ChatInv /\ NoneIsIdle => ChatRank <= 8
  BY RankType
<1>2. ChatSpec => [](KeysTypeOK /\ ChatInv /\ NoneIsIdle)
  <2>1. ChatInit => NoneIsIdle
    BY DEF ChatInit, NoneIsIdle
  <2>2. /\ KeysInv /\ ChatInv /\ NoneIsIdle /\ (KeysInv /\ ChatInv)'
        /\ [ChatAndKeysNext]_<<chatVars, keysVars>>
        => NoneIsIdle'
    BY OthersWait DEF KeysInv
  <2>3. KeysInv => KeysTypeOK
    BY DEF KeysInv
  <2> QED
    BY <2>1, <2>2, <2>3, ChatInvariant, PTL DEF ChatSpec
<1>3. ChatSpec => [][ChatAndKeysNext]_<<chatVars, keysVars>>
  BY PTL DEF ChatSpec
<1> QED
  BY <1>1, <1>2, <1>3, ChatEnds, PTL DEF FairChat, ChatEndsWithin, ChatAnswers

-----------------------------------------------------------------------------
(* The asset search                                                        *)

InFlight(r) == requests[r] # NoRequest
Taken(r) == InFlight(r) /\ ~requests[r].aborted

SearchTypeOK ==
  /\ active \in Queried /\ results \in Queried /\ settled \in Queried /\ failed \in BOOLEAN
  /\ requests \in [Requests -> [query : Queried, aborted : BOOLEAN]]
  /\ controller \subseteq Requests

\* The only request whose answer will be taken is the active query's, the one the
\* controller would abort; and unless it has been answered, there is one.
ActiveIsSought ==
  /\ \A r \in Requests : Taken(r) => requests[r].query = active /\ controller = {r}
  /\ \A r \in controller : Taken(r)
  /\ \A r \in Requests : InFlight(r) => requests[r].query # Blank
  /\ active # Blank => settled = active \/ controller # {}

SearchInv == SearchTypeOK /\ ActiveIsSought

LEMMA SearchInitInv == SearchInit => SearchInv
<1> SUFFICES ASSUME SearchInit PROVE SearchInv
  OBVIOUS
<1>1. SearchTypeOK
  BY DEF SearchInit, SearchTypeOK, Queried, NoRequest
<1>2. \A r \in Requests : ~InFlight(r)
  BY DEF SearchInit, InFlight
<1> QED
  BY <1>1, <1>2 DEF SearchInit, SearchInv, ActiveIsSought, Taken

\* The requests as the next one finds them: none will be taken any more.
LEMMA AllAborted ==
  ASSUME SearchInv
  PROVE  /\ Aborted \in [Requests -> [query : Queried, aborted : BOOLEAN]]
         /\ \A r \in Requests : Aborted[r] # NoRequest =>
              Aborted[r].aborted /\ Aborted[r].query # Blank
<1>1. SearchTypeOK /\ ActiveIsSought
  BY DEF SearchInv
<1> SUFFICES ASSUME NEW r \in Requests
             PROVE  /\ Aborted[r] \in [query : Queried, aborted : BOOLEAN]
                    /\ Aborted[r] # NoRequest => Aborted[r].aborted /\ Aborted[r].query # Blank
  BY DEF Aborted
<1>2. requests[r] \in [query : Queried, aborted : BOOLEAN]
  BY <1>1 DEF SearchTypeOK
<1>3. CASE r \in controller
  <2>1. InFlight(r) /\ requests[r].query # Blank
    BY <1>1, <1>3 DEF ActiveIsSought, Taken
  <2>2. Aborted[r] = [requests[r] EXCEPT !.aborted = TRUE]
    BY <1>3, <2>1 DEF Aborted, InFlight
  <2> QED
    BY <1>2, <2>1, <2>2
<1>4. CASE r \notin controller
  <2>1. Aborted[r] = requests[r]
    BY <1>4 DEF Aborted
  <2>2. ~Taken(r)
    BY <1>1, <1>4 DEF ActiveIsSought
  <2> QED
    BY <1>1, <1>2, <2>1, <2>2 DEF ActiveIsSought, Taken, InFlight
<1> QED
  BY <1>3, <1>4

LEMMA SearchStepInv == SearchInv /\ [SearchNext]_searchVars => SearchInv'
<1> SUFFICES ASSUME SearchInv, [SearchNext]_searchVars PROVE SearchInv'
  OBVIOUS
<1>1. SearchTypeOK /\ ActiveIsSought
  BY DEF SearchInv
<1>2. CASE UNCHANGED searchVars
  BY <1>1, <1>2 DEF searchVars, SearchInv, SearchTypeOK, ActiveIsSought, Taken, InFlight
<1>3. ASSUME NEW q \in Queried, Search(q), q = Blank PROVE SearchInv'
  <2>1. requests' = Aborted /\ controller' = {} /\ active' = Blank
    BY <1>3 DEF Search
  <2>2. SearchTypeOK'
    BY <1>1, <1>3, <2>1, AllAborted DEF Search, SearchTypeOK, Queried
  <2>3. ActiveIsSought'
    BY <2>1, AllAborted DEF ActiveIsSought, Taken, InFlight
  <2> QED
    BY <2>2, <2>3 DEF SearchInv
<1>4. ASSUME NEW q \in Queried, Search(q), q # Blank PROVE SearchInv'
  <2>1. PICK r \in Requests : /\ requests' = [Aborted EXCEPT ![r] = RequestFor(q)]
                              /\ controller' = {r}
    BY <1>4 DEF Search
  <2>2. active' = q /\ UNCHANGED <<results, settled, failed>>
    BY <1>4 DEF Search
  <2>3. RequestFor(q) \in [query : Queried, aborted : BOOLEAN]
        /\ RequestFor(q).query = q /\ ~RequestFor(q).aborted /\ RequestFor(q) # NoRequest
    BY <1>4 DEF RequestFor, NoRequest
  <2>4. SearchTypeOK'
    BY <1>1, <2>1, <2>2, <2>3, AllAborted DEF SearchTypeOK
  <2>5. requests'[r] = RequestFor(q) /\ \A s \in Requests : s # r => requests'[s] = Aborted[s]
    BY <2>1, AllAborted
  <2>6. \A s \in Requests : s # r => ~Taken(s)' /\ (InFlight(s)' => requests'[s].query # Blank)
    BY <2>5, AllAborted DEF Taken, InFlight
  <2>7. Taken(r)'
    BY <2>3, <2>5 DEF Taken, InFlight
  <2>8. ActiveIsSought'
    BY <1>4, <2>1, <2>2, <2>3, <2>5, <2>6, <2>7 DEF ActiveIsSought
  <2> QED
    BY <2>4, <2>8 DEF SearchInv
<1>5. ASSUME NEW r \in Requests, Settle(r) PROVE SearchInv'
  <2>1. /\ requests' = [requests EXCEPT ![r] = NoRequest]
        /\ controller' = controller \ {r} /\ active' = active /\ InFlight(r)
    BY <1>5 DEF Settle, Closes, InFlight
  <2>2. NoRequest \in [query : Queried, aborted : BOOLEAN]
        /\ requests[r].query \in Queried
    BY <1>1 DEF NoRequest, Queried, SearchTypeOK
  <2>3. SearchTypeOK'
    <3>1. results' \in Queried /\ settled' \in Queried /\ failed' \in BOOLEAN
      BY <1>1, <1>5, <2>2 DEF Settle, SearchTypeOK, Queried
    <3> QED
      BY <1>1, <2>1, <2>2, <3>1 DEF SearchTypeOK
  <2>4. ~InFlight(r)' /\ \A s \in Requests : s # r => requests'[s] = requests[s]
    BY <1>1, <2>1 DEF SearchTypeOK, InFlight
  <2>5. active # Blank => settled' = active \/ controller' # {}
    <3>1. CASE Taken(r)
      BY <1>1, <1>5, <3>1 DEF Settle, ActiveIsSought, Taken
    <3>2. CASE ~Taken(r)
      <4>1. r \notin controller /\ settled' = settled
        BY <1>1, <1>5, <2>1, <3>2 DEF Settle, ActiveIsSought, Taken
      <4> QED
        BY <1>1, <2>1, <4>1 DEF ActiveIsSought
    <3> QED
      BY <3>1, <3>2
  <2>6. \A s \in Requests : Taken(s)' => Taken(s) /\ s # r
    BY <2>4 DEF Taken, InFlight
  <2>7. ActiveIsSought'
    <3>1. \A s \in Requests : Taken(s)' => requests'[s].query = active' /\ controller' = {s}
      BY <1>1, <2>1, <2>4, <2>6 DEF ActiveIsSought
    <3>2. \A s \in controller' : Taken(s)'
      BY <1>1, <2>1, <2>4 DEF ActiveIsSought, SearchTypeOK, Taken, InFlight
    <3>3. \A s \in Requests : InFlight(s)' => requests'[s].query # Blank
      BY <1>1, <2>4 DEF ActiveIsSought, InFlight
    <3> QED
      BY <2>1, <2>5, <3>1, <3>2, <3>3 DEF ActiveIsSought
  <2> QED
    BY <2>3, <2>7 DEF SearchInv
<1> QED
  BY <1>2, <1>3, <1>4, <1>5 DEF SearchNext

\* At every moment, the query that is typed is answered or an answer of its own is
\* on the way that nothing but another query will keep from being taken.
THEOREM TypedQueryIsSought == SearchSpec => [](SearchTypeOK /\ ActiveIsSought)
<1>1. SearchInv => SearchTypeOK /\ ActiveIsSought
  BY DEF SearchInv
<1> QED
  BY <1>1, SearchInitInv, SearchStepInv, PTL DEF SearchSpec

\* The fairness of Settle with its guard spelled out: a request is in flight.
SettleComes(r) == <>(requests[r] = NoRequest) \/ <><<Settle(r)>>_searchVars
FetchesEnd == \A r \in Requests : SettleComes(r)

FairSearch == [][SearchNext]_searchVars /\ []SearchInv /\ []FetchesEnd

\* The active query comes to be answered, unless the user goes on to another.
LEMMA SearchAnswers ==
  ASSUME NEW q \in Queries
  PROVE  FairSearch => (active = q => <>(settled = q \/ active # q))
<1>1. ASSUME NEW r \in Requests
      PROVE  FairSearch => (active = q /\ requests[r] = RequestFor(q)
                              => <>(settled = q \/ active # q))
  <2>1. SearchInv /\ active = q /\ requests[r] = RequestFor(q) /\ [SearchNext]_searchVars
          => (active # q)' \/ (settled = q)' \/ (active = q /\ requests[r] = RequestFor(q))'
    <3> SUFFICES ASSUME SearchInv, requests[r] = RequestFor(q), active = q, active' = q,
                        settled' # q, [SearchNext]_searchVars
                 PROVE  requests'[r] = RequestFor(q)
      OBVIOUS
    <3>1. ~Settle(r)
      BY DEF Settle, RequestFor
    <3>2. ASSUME NEW s \in Requests, s # r, Settle(s) PROVE requests'[r] = RequestFor(q)
      BY <3>2 DEF Settle, Closes, SearchInv, SearchTypeOK
    <3>3. \A p \in Queried : ~Search(p)
      BY DEF Search
    <3> QED
      BY <3>1, <3>2, <3>3 DEF SearchNext, searchVars
  <2>2. SearchInv /\ active = q /\ requests[r] = RequestFor(q) /\ <<Settle(r)>>_searchVars
          => (settled = q)'
    BY DEF Settle, RequestFor
  <2>3. active = q /\ requests[r] = RequestFor(q) => ~(requests[r] = NoRequest)
    BY SearchAssumption DEF RequestFor, NoRequest
  <2>4. FetchesEnd => <>(requests[r] = NoRequest) \/ <><<Settle(r)>>_searchVars
    BY DEF FetchesEnd, SettleComes
  <2> QED
    BY <2>1, <2>2, <2>3, <2>4, PTL DEF FairSearch
<1>2. FairSearch => SearchInv
  BY PTL DEF FairSearch
<1>3. SearchInv /\ active = q
        => settled = q \/ \E r \in Requests : active = q /\ requests[r] = RequestFor(q)
  <2> SUFFICES ASSUME SearchInv, active = q, settled # q
               PROVE  \E r \in Requests : requests[r] = RequestFor(q)
    OBVIOUS
  <2>1. PICK r \in Requests : Taken(r)
    BY SearchAssumption DEF SearchInv, SearchTypeOK, ActiveIsSought
  <2>2. requests[r] \in [query : Queried, aborted : BOOLEAN]
        /\ requests[r].query = q /\ ~requests[r].aborted
    BY <2>1 DEF SearchInv, SearchTypeOK, ActiveIsSought, Taken
  <2> QED
    BY <2>2 DEF RequestFor
<1>4. settled = q => <>(settled = q \/ active # q)
  BY PTL
<1> QED
  BY <1>1, <1>2, <1>3, <1>4

\* However often the query changes and in whatever order the answers arrive: as
\* long as fetches end, a query the user keeps is answered and stays so.
THEOREM KeptQueryIsAnswered == SearchSpec /\ []FetchesEnd => SearchSettles
<1> SUFFICES ASSUME NEW q \in Queries
             PROVE  SearchSpec /\ []FetchesEnd => (<>[](active = q) => <>[](settled = q))
  BY DEF SearchSettles
<1>1. FairSearch => (active = q => <>(settled = q \/ active # q))
  BY SearchAnswers
<1>2. SearchInv /\ active = q /\ settled = q /\ [SearchNext]_searchVars
        => (active # q)' \/ (settled = q)'
  <2> SUFFICES ASSUME SearchInv, active = q, settled = q, [SearchNext]_searchVars, active' = q
               PROVE  settled' = q
    OBVIOUS
  <2>1. ASSUME NEW r \in Requests, Settle(r) PROVE settled' = q
    BY <2>1 DEF Settle, SearchInv, ActiveIsSought, Taken, InFlight
  <2>2. \A p \in Queried : ~Search(p)
    BY DEF Search
  <2> QED
    BY <2>1, <2>2 DEF SearchNext, searchVars
<1>3. active # q <=> ~(active = q)
  OBVIOUS
<1> QED
  BY <1>1, <1>2, <1>3, SearchInitInv, SearchStepInv, PTL DEF SearchSpec, FairSearch

-----------------------------------------------------------------------------
(* The desk settles                                                        *)

Sent == {s \in Pulls : pulls[s] # Free}

\* The pulls of other selections than k that have not come back.
Late(k) == {s \in Sent : pulls[s].for # k}

\* The interval pulls for the selection, waits only for a pull that is on its way,
\* and there are only so many of these.
TasksFollow ==
  /\ task = selection
  /\ busy \subseteq Sent
  /\ IsFiniteSet(Sent)
  /\ Pulls # {}

PullInv == DeskInv /\ TasksFollow

LEMMA SentBeforeAfter ==
  ASSUME DeskInv, NEW k \in Selections, NEW s \in Unused, pulls' = [pulls EXCEPT ![s] = PullOf(k)]
  PROVE  /\ Sent' = Sent \union {s} /\ s \notin Sent
         /\ pulls'[s] = PullOf(k) /\ \A x \in Sent : pulls'[x] = pulls[x]
<1>1. PullOf(k) # Free
  BY DeskAssumption DEF PullOf, Free
<1>2. pulls \in [Pulls -> [for : Selections \union {NoBook}]] /\ s \in Pulls /\ pulls[s] = Free
  BY DEF DeskInv, DeskTypeOK, Unused
<1> QED
  BY <1>1, <1>2 DEF Sent

LEMMA SentEnds ==
  ASSUME DeskInv, NEW s \in Pulls, Ends(s)
  PROVE  Sent' = Sent \ {s} /\ \A x \in Sent \ {s} : pulls'[x] = pulls[x]
BY DEF DeskInv, DeskTypeOK, Ends, Sent

LEMMA PullInitInv == DeskInit => PullInv
<1> SUFFICES ASSUME DeskInit PROVE PullInv
  OBVIOUS
<1>1. DeskInv /\ task = selection /\ selection \in Selections
  BY DeskInitInv DEF DeskInit
<1>2. PICK s \in Pulls, t \in Pulls :
        /\ pulls = [x \in Pulls |-> IF visible /\ x \in {s, t} THEN PullOf(selection) ELSE Free]
        /\ busy = IF visible THEN {t} ELSE {}
  BY DEF DeskInit
<1>3. PullOf(selection) # Free
  BY <1>1, DeskAssumption DEF PullOf, Free
<1>4. busy \subseteq Sent /\ Sent \subseteq {s} \union {t}
  BY <1>2, <1>3 DEF Sent
<1>5. IsFiniteSet({s} \union {t})
  BY FS_Singleton, FS_AddElement
<1> QED
  BY <1>1, <1>2, <1>4, <1>5, FS_Subset DEF PullInv, TasksFollow

\* What a step does to the pulls: one is sent, for the selection, or one ends.
LEMMA PullsStep ==
  ASSUME PullInv, [DeskNext]_deskVars
  PROVE  /\ task' = selection'
         /\ \/ pulls' = pulls /\ busy' = busy
            \/ /\ busy' \subseteq Sent'
               /\ \E s \in Unused : pulls' = [pulls EXCEPT ![s] = PullOf(selection')]
            \/ \E s \in Pulls : Answer(s) \/ Fail(s)
<1>1. task = selection /\ busy \subseteq Sent /\ DeskInv
  BY DEF PullInv, TasksFollow
<1>2. CASE UNCHANGED deskVars
  BY <1>1, <1>2 DEF deskVars
<1>3. ASSUME NEW k \in Selections, NEW s \in Unused, pulls' = [pulls EXCEPT ![s] = PullOf(k)],
             busy' = busy \/ busy' = {s}
      PROVE  busy' \subseteq Sent'
  BY <1>1, <1>3, SentBeforeAfter
<1>4. ASSUME NEW k \in Selections, Select(k)
      PROVE  /\ task' = selection' /\ busy' = busy
             /\ \/ pulls' = pulls
                \/ \E s \in Unused : pulls' = [pulls EXCEPT ![s] = PullOf(selection')]
  BY <1>4 DEF Select
<1>5. CASE Show
  BY <1>1, <1>3, <1>5 DEF Show, DeskInv, DeskTypeOK
<1>6. CASE Fire
  BY <1>1, <1>3, <1>6 DEF Fire, DeskInv, DeskTypeOK
<1>7. ASSUME NEW k \in Selections, Select(k)
      PROVE  \/ pulls' = pulls /\ busy' = busy
             \/ /\ busy' \subseteq Sent'
                /\ \E s \in Unused : pulls' = [pulls EXCEPT ![s] = PullOf(selection')]
  BY <1>3, <1>4, <1>7 DEF Select
<1>8. ASSUME NEW k \in Selections, Outdate(k)
      PROVE  task' = selection' /\ pulls' = pulls /\ busy' = busy
  BY <1>1, <1>8 DEF Outdate
<1>9. CASE Hide
  BY <1>1, <1>9 DEF Hide
<1>10. ASSUME NEW s \in Pulls, Answer(s) \/ Fail(s) PROVE task' = selection'
  BY <1>1, <1>10 DEF Answer, Fail
<1> QED
  BY <1>2, <1>4, <1>5, <1>6, <1>7, <1>8, <1>9, <1>10 DEF DeskNext

LEMMA PullStepInv == PullInv /\ [DeskNext]_deskVars => PullInv'
<1> SUFFICES ASSUME PullInv, [DeskNext]_deskVars PROVE PullInv'
  OBVIOUS
<1>1. DeskInv /\ DeskInv' /\ TasksFollow /\ task' = selection'
  BY DeskStepInv, PullsStep DEF PullInv
<1>2. CASE pulls' = pulls /\ busy' = busy
  BY <1>1, <1>2 DEF PullInv, TasksFollow, Sent
<1>3. CASE /\ busy' \subseteq Sent'
           /\ \E s \in Unused : pulls' = [pulls EXCEPT ![s] = PullOf(selection')]
  <2>1. PICK s \in Unused : pulls' = [pulls EXCEPT ![s] = PullOf(selection')]
    BY <1>3
  <2>2. selection' \in Selections
    BY <1>1 DEF DeskInv, DeskTypeOK
  <2>3. Sent' = Sent \union {s}
    BY <1>1, <2>1, <2>2, SentBeforeAfter
  <2>4. IsFiniteSet(Sent')
    BY <1>1, <2>3, FS_AddElement DEF TasksFollow
  <2> QED
    BY <1>1, <1>3, <2>4 DEF PullInv, TasksFollow
<1>4. ASSUME NEW s \in Pulls, Answer(s) \/ Fail(s) PROVE PullInv'
  <2>1. Ends(s)
    BY <1>4 DEF Answer, Fail
  <2>2. Sent' = Sent \ {s} /\ busy' = busy \ {s}
    BY <1>1, <2>1, SentEnds DEF Ends
  <2>3. IsFiniteSet(Sent')
    BY <1>1, <2>2, FS_RemoveElement DEF TasksFollow
  <2> QED
    BY <1>1, <2>2, <2>3 DEF PullInv, TasksFollow
<1> QED
  BY <1>2, <1>3, <1>4, PullsStep

\* The user stays with selection k and has the page in view.
Stays(k) == selection = k /\ visible

\* The desk shows rows of k, or that there are none.
Shows(k) == payload.of = k /\ payload.state # "loading"

\* The fairness of the interval and of the fetches with its guards spelled out: the
\* last pull has come back, the page is in view and a slot is free; a pull is on
\* its way.
FireComes == <>~(busy = {} /\ visible /\ Unused # {}) \/ <><<Fire>>_deskVars
PullComes(s) == <>(pulls[s] = Free) \/ <><<Answer(s) \/ Fail(s)>>_deskVars
PullsGoOn == FireComes /\ \A s \in Pulls : PullComes(s)

FairDesk(k) == [][DeskNext]_deskVars /\ []PullInv /\ []Stays(k) /\ []PullsGoOn

LEMMA LateCounted ==
  ASSUME NEW k
  PROVE  PullInv => /\ IsFiniteSet(Late(k)) /\ Cardinality(Late(k)) \in Nat
                    /\ (Cardinality(Late(k)) <= 0 <=> Late(k) = {})
<1> SUFFICES ASSUME PullInv
             PROVE  /\ IsFiniteSet(Late(k)) /\ Cardinality(Late(k)) \in Nat
                    /\ (Cardinality(Late(k)) <= 0 <=> Late(k) = {})
  OBVIOUS
<1>1. IsFiniteSet(Late(k))
  BY FS_Subset DEF PullInv, TasksFollow, Late
<1> QED
  BY <1>1, FS_CardinalityType, FS_EmptySet

\* While the user stays, a pull that is on its way is so until it ends, and
\* another selection's is one less then.
LEMMA StayStep ==
  ASSUME PullInv, [DeskNext]_deskVars, NEW k, Stays(k)'
  PROVE  /\ Late(k)' \subseteq Late(k)
         /\ \A s \in Sent :
              /\ (s \in Sent' /\ pulls'[s] = pulls[s]) \/ Answer(s) \/ Fail(s)
              /\ Answer(s) \/ Fail(s) => s \notin Sent'
<1>1. DeskInv /\ selection' = k /\ selection' \in Selections
  BY DeskStepInv DEF PullInv, Stays, DeskInv, DeskTypeOK
<1>2. CASE pulls' = pulls
  <2>1. Sent' = Sent /\ Late(k)' = Late(k)
    BY <1>2 DEF Sent, Late
  <2>2. \A s \in Sent : ~Answer(s) /\ ~Fail(s)
    BY <1>1, <1>2, SentEnds DEF Answer, Fail, Sent
  <2> QED
    BY <1>2, <2>1, <2>2
<1>3. ASSUME NEW u \in Unused, pulls' = [pulls EXCEPT ![u] = PullOf(selection')]
      PROVE  /\ Late(k)' \subseteq Late(k)
             /\ \A s \in Sent : s \in Sent' /\ pulls'[s] = pulls[s]
  <2>1. /\ Sent' = Sent \union {u} /\ pulls'[u] = PullOf(k)
        /\ \A x \in Sent : pulls'[x] = pulls[x]
    BY <1>1, <1>3, SentBeforeAfter
  <2> QED
    BY <2>1 DEF Late, PullOf
<1>4. ASSUME NEW u \in Pulls, Answer(u) \/ Fail(u)
      PROVE  /\ Late(k)' \subseteq Late(k) /\ Sent' = Sent \ {u}
             /\ \A x \in Sent \ {u} : pulls'[x] = pulls[x]
  <2>1. Sent' = Sent \ {u} /\ \A x \in Sent \ {u} : pulls'[x] = pulls[x]
    BY <1>1, <1>4, SentEnds DEF Answer, Fail
  <2> QED
    BY <2>1 DEF Late
<1>5. Sent \subseteq Pulls
  BY DEF Sent
<1>6. \A s \in Sent : Answer(s) \/ Fail(s) => s \notin Sent'
  BY <1>4, <1>5
<1> QED
  BY <1>2, <1>3, <1>4, <1>6, PullsStep

\* A step that ends no pull of another selection changes what the desk shows
\* only to rows of the user's own.
LEMMA StayShows ==
  ASSUME PullInv, [DeskNext]_deskVars, NEW k, Stays(k), Stays(k)', Late(k) = {}
  PROVE  /\ Shows(k) => Shows(k)'
         /\ \A s \in Pulls : Answer(s) \/ Fail(s) => Shows(k)'
<1>1. ASSUME NEW s \in Pulls, Answer(s) \/ Fail(s) PROVE Shows(k)'
  <2>1. pulls[s].for = k
    BY <1>1 DEF Answer, Fail, Late, Sent
  <2> QED
    BY <1>1, <2>1 DEF Answer, Fail, Live, Degraded, Shows
<1>2. ASSUME \A s \in Pulls : ~Answer(s) /\ ~Fail(s) PROVE payload' = payload
  BY <1>2 DEF DeskNext, Select, Outdate, Hide, Show, Fire, deskVars, Stays
<1> QED
  BY <1>1, <1>2 DEF Shows

\* Once no pull of another selection is on its way the desk comes to show what
\* the user stays with: the next pull brings it, and no other ends.
LEMMA OwnPullsShow ==
  ASSUME NEW k
  PROVE  FairDesk(k) => (Late(k) = {} => <>[]Shows(k))
<1>1. PullInv /\ [DeskNext]_deskVars /\ Stays(k)' /\ Late(k) = {} => (Late(k) = {})'
  BY StayStep
<1>2. ASSUME NEW s \in Pulls
      PROVE  FairDesk(k) => (Late(k) = {} /\ s \in Sent => <>Shows(k))
  <2>1. PullInv /\ [DeskNext]_deskVars /\ Stays(k) /\ Stays(k)' /\ Late(k) = {} /\ s \in Sent
          => (Late(k) = {} /\ s \in Sent)' \/ Shows(k)'
    BY <1>1, StayStep, StayShows
  <2>2. PullInv /\ Stays(k) /\ Stays(k)' /\ Late(k) = {} /\ <<Answer(s) \/ Fail(s)>>_deskVars
          => Shows(k)'
    BY StayShows DEF DeskNext
  <2>3. pulls[s] = Free => ~(s \in Sent)
    BY DEF Sent
  <2>4. PullsGoOn => <>(pulls[s] = Free) \/ <><<Answer(s) \/ Fail(s)>>_deskVars
    BY DEF PullsGoOn, PullComes
  <2> QED
    BY <2>1, <2>2, <2>3, <2>4, PTL DEF FairDesk
<1>3. FairDesk(k) => (Late(k) = {} /\ Sent = {} => <>(Late(k) = {} /\ Sent # {}))
  <2>1. PullInv /\ Stays(k) /\ Sent = {} => busy = {} /\ visible /\ Unused # {}
    BY DEF PullInv, TasksFollow, Stays, Sent, Unused
  <2>2. PullInv /\ Stays(k) /\ <<Fire>>_deskVars => (Sent # {})'
    <3> SUFFICES ASSUME PullInv, Stays(k), Fire PROVE Sent' # {}
      OBVIOUS
    <3>1. PICK s \in Unused : pulls' = [pulls EXCEPT ![s] = PullOf(task)]
      BY DEF Fire
    <3>2. DeskInv /\ task \in Selections
      BY DEF PullInv, DeskInv, DeskTypeOK
    <3> QED
      BY <3>1, <3>2, SentBeforeAfter
  <2>3. PullsGoOn => <>~(busy = {} /\ visible /\ Unused # {}) \/ <><<Fire>>_deskVars
    BY DEF PullsGoOn, FireComes
  <2>4. (Sent # {} <=> ~(Sent = {})) /\ ((Sent # {})' <=> ~(Sent = {})')
    OBVIOUS
  <2> QED
    BY <1>1, <2>1, <2>2, <2>3, <2>4, PTL DEF FairDesk
<1>4. FairDesk(k) => (Late(k) = {} /\ Sent # {} => <>Shows(k))
  <2>1. Sent # {} => \E s \in Pulls : s \in Sent
    BY DEF Sent
  <2> QED
    BY <1>2, <2>1
<1>5. PullInv /\ [DeskNext]_deskVars /\ Stays(k) /\ Stays(k)' /\ Late(k) = {} /\ Shows(k)
        => Shows(k)'
  BY StayShows
<1>6. Sent = {} \/ Sent # {}
  OBVIOUS
<1> QED
  BY <1>1, <1>3, <1>4, <1>5, <1>6, PTL DEF FairDesk

\* As long as one is on its way, there are fewer of them later.
LEMMA LateOnesEnd ==
  ASSUME NEW k, NEW n \in Nat
  PROVE  FairDesk(k) => (Cardinality(Late(k)) <= n + 1 => <>(Cardinality(Late(k)) <= n))
<1>1. PullInv /\ [DeskNext]_deskVars /\ Stays(k)' /\ Cardinality(Late(k)) <= n + 1
        => (Cardinality(Late(k)) <= n + 1)'
  <2> SUFFICES ASSUME PullInv, [DeskNext]_deskVars, Stays(k)', Cardinality(Late(k)) <= n + 1
               PROVE  Cardinality(Late(k)') <= n + 1
    OBVIOUS
  <2>1. IsFiniteSet(Late(k)) /\ Cardinality(Late(k)) \in Nat /\ Late(k)' \subseteq Late(k)
    BY LateCounted, StayStep
  <2>2. Cardinality(Late(k)') <= Cardinality(Late(k)) /\ Cardinality(Late(k)') \in Nat
    BY <2>1, FS_Subset, FS_CardinalityType
  <2> QED
    BY <2>1, <2>2
<1>2. ASSUME NEW s \in Pulls
      PROVE  FairDesk(k) => (Cardinality(Late(k)) <= n + 1 /\ s \in Late(k)
                               => <>(Cardinality(Late(k)) <= n))
  <2>1. PullInv /\ [DeskNext]_deskVars /\ Stays(k)' /\ Cardinality(Late(k)) <= n + 1
          /\ s \in Late(k) /\ (s \notin Late(k))'
          => (Cardinality(Late(k)) <= n)'
    <3> SUFFICES ASSUME PullInv, [DeskNext]_deskVars, Stays(k)', Cardinality(Late(k)) <= n + 1,
                        s \in Late(k), s \notin Late(k)'
                 PROVE  Cardinality(Late(k)') <= n
      OBVIOUS
    <3>1. IsFiniteSet(Late(k)) /\ Cardinality(Late(k)) \in Nat /\ Late(k)' \subseteq Late(k) \ {s}
      BY LateCounted, StayStep
    <3>2. /\ IsFiniteSet(Late(k) \ {s})
          /\ Cardinality(Late(k) \ {s}) = Cardinality(Late(k)) - 1
      BY <3>1, FS_RemoveElement
    <3>3. Cardinality(Late(k)') <= Cardinality(Late(k) \ {s}) /\ Cardinality(Late(k)') \in Nat
      BY <3>1, <3>2, FS_Subset, FS_CardinalityType
    <3> QED
      BY <3>1, <3>2, <3>3
  <2>2. PullInv /\ Stays(k)' /\ s \in Late(k) /\ <<Answer(s) \/ Fail(s)>>_deskVars
          => (s \notin Late(k))'
    BY StayStep DEF DeskNext, Late
  <2>3. pulls[s] = Free => ~(s \in Late(k))
    BY DEF Late, Sent
  <2>4. PullsGoOn => <>(pulls[s] = Free) \/ <><<Answer(s) \/ Fail(s)>>_deskVars
    BY DEF PullsGoOn, PullComes
  <2>5. (s \notin Late(k))' <=> ~(s \in Late(k))'
    OBVIOUS
  <2> QED
    BY <1>1, <2>1, <2>2, <2>3, <2>4, <2>5, PTL DEF FairDesk
<1>3. FairDesk(k) => PullInv
  BY PTL DEF FairDesk
<1>4. PullInv => Cardinality(Late(k)) <= n \/ \E s \in Pulls : s \in Late(k)
  <2>1. Late(k) # {} => \E s \in Pulls : s \in Late(k)
    BY DEF Late, Sent
  <2> QED
    BY <2>1, LateCounted, FS_EmptySet
<1>5. Cardinality(Late(k)) <= n => <>(Cardinality(Late(k)) <= n)
  BY PTL
<1> QED
  BY <1>2, <1>3, <1>4, <1>5

LEMMA NumberByNumber ==
  ASSUME NEW holds, holds[0], \A n \in Nat : holds[n] => holds[n + 1]
  PROVE  \A n \in Nat : holds[n]
<1> DEFINE Fails == {n \in Nat : ~holds[n]}
<1> SUFFICES ASSUME Fails # {} PROVE FALSE
  OBVIOUS
<1>1. PICK m \in Fails : \A n \in Fails : m <= n
  <2>1. Fails \in SUBSET Nat
    OBVIOUS
  <2> HIDE DEF Fails
  <2> QED
    BY <2>1, LeastPlace
<1>2. m \in Nat /\ m # 0 /\ ~holds[m]
  OBVIOUS
<1>3. m - 1 \in Nat /\ (m - 1) + 1 = m /\ ~(m <= m - 1)
  BY <1>2
<1>4. holds[m - 1]
  BY <1>1, <1>3
<1> QED
  BY <1>2, <1>3, <1>4

\* The desk settles when so few pulls of other selections are on their way.
SettlesAfter(k, n) == [](FairDesk(k) => (Cardinality(Late(k)) <= n => <>[]Shows(k)))

\* How many there are is a number, but no constant bounds it; and what holds of a
\* behaviour for each number makes no set of TLA+.  Named as the sequence of its
\* truth it is there for the provers to find.
Told(sequence) == TRUE

LEMMA AlwaysSettles ==
  ASSUME NEW k
  PROVE  \A n \in Nat : SettlesAfter(k, n)
<1>1. SettlesAfter(k, 0)
  <2>1. FairDesk(k) => (Late(k) = {} => <>[]Shows(k))
    BY OwnPullsShow
  <2>2. PullInv /\ Cardinality(Late(k)) <= 0 => Late(k) = {}
    BY LateCounted
  <2> QED
    BY <2>1, <2>2, PTL DEF SettlesAfter, FairDesk
<1>2. ASSUME NEW n \in Nat PROVE SettlesAfter(k, n) => SettlesAfter(k, n + 1)
  <2>1. FairDesk(k) => (Cardinality(Late(k)) <= n + 1 => <>(Cardinality(Late(k)) <= n))
    BY LateOnesEnd
  <2> QED
    BY <2>1, PTL DEF SettlesAfter, FairDesk
<1>3. \E holds : \A n \in Nat : holds[n] <=> SettlesAfter(k, n)
  <2>1. Told([n \in Nat |-> SettlesAfter(k, n)])
    BY DEF Told
  <2> QED
    BY <2>1
<1>4. PICK holds : \A n \in Nat : holds[n] <=> SettlesAfter(k, n)
  BY <1>3
<1>5. holds[0] /\ \A n \in Nat : holds[n] => holds[n + 1]
  BY <1>1, <1>2, <1>4
<1> QED
  BY <1>4, <1>5, NumberByNumber

\* However many pulls of old selections are on their way when the user comes to
\* stay, the desk comes to show the selection's own rows and keeps to them, as
\* long as the interval fires and fetches end.
THEOREM StaysAndSees == DeskSpec /\ []PullsGoOn => DeskSettles
<1> SUFFICES ASSUME NEW k \in Selections
             PROVE  DeskSpec /\ []PullsGoOn
                      => (<>[](selection = k /\ visible)
                            => <>[](payload.of = k /\ payload.state # "loading"))
  BY DEF DeskSettles
<1>1. FairDesk(k) => <>[]Shows(k)
  <2>1. FairDesk(k) => PullInv
    BY PTL DEF FairDesk
  <2>2. PullInv => \E n \in Nat : Cardinality(Late(k)) <= n
    BY LateCounted
  <2>3. ASSUME NEW n \in Nat
        PROVE  FairDesk(k) => (Cardinality(Late(k)) <= n => <>[]Shows(k))
    <3>1. SettlesAfter(k, n)
      BY AlwaysSettles
    <3> QED
      BY <3>1, PTL DEF SettlesAfter
  <2> QED
    BY <2>1, <2>2, <2>3
<1>2. DeskSpec => [][DeskNext]_deskVars /\ []PullInv
  BY PullInitInv, PullStepInv, PTL DEF DeskSpec
<1>3. selection = k /\ visible => Stays(k)
  BY DEF Stays
<1>4. Shows(k) => payload.of = k /\ payload.state # "loading"
  BY DEF Shows
<1> QED
  BY <1>1, <1>2, <1>3, <1>4, PTL DEF FairDesk

=============================================================================
