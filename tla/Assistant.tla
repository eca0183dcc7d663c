------------------------------- MODULE Assistant -------------------------------
(***************************************************************************)
(* A chat with the market assistant: components/assistant/                 *)
(* assistant-chat.tsx in the browser, the handler of POST /api/market-ai,  *)
(* the choice of engines (lib/market/market-ai-providers.ts,               *)
(* market-ai-engine-pick.ts), the panel (market-ai-ensemble.ts) and the    *)
(* engines themselves.  The user's keys, module AiKeys, may change while a *)
(* request runs: the handler reads the row twice.                          *)
(*                                                                         *)
(* Of a text only matters whether it is longer than the handler accepts.   *)
(***************************************************************************)
EXTENDS AiKeys, Sequences, SequencesExt

CONSTANTS Platform,     \* engines with a key or an origin of the platform
          Rankings,     \* the orders keywordAdjustedOrder may return
          PanelSize,    \* ensembleMaxEngines
          MaxMessages,  \* what the schema accepts: 28 in the code
          MaxChat       \* bound: messages of a chat

Engines == {"fable", "openai", "gemini", "ollama"}
AutoPick == "auto"

ASSUME AssistantAssumption ==
  /\ Platform \subseteq Engines
  /\ \A r \in Rankings : r \in Seq(Engines) /\ Range(r) = Engines
  /\ PanelSize \in 2..5 /\ MaxMessages \in Nat /\ MaxChat \in Nat

VARIABLES
  messages,  \* how many messages the chat holds
  tooLong,   \* one of them is longer than the schema accepts
  known,     \* engines
  engine,    \* the engine the user chose, or AutoPick
  panel,     \* ensemblePanel
  request,   \* the request the chat waits for
  outcome    \* what came of the last request

chatVars == <<messages, tooLong, known, engine, panel, request, outcome>>

ENGINE_ORDER == <<"fable", "openai", "gemini", "ollama">>

\* listEnginesForUser, with the flags of the row as they were read
EnginesFor(row) ==
  {e \in Engines : e \in Platform \/ (e \in KeyedEngines /\ row[e] # NoKey)}

\* Flags that cannot be read count as no keys, and so do keys.
NoKeys == [k \in KeyedEngines |-> NoKey]
RowOrNothing == {ciphers, NoKeys}

HasKey(e, keys) == e \in Platform \/ (e \in KeyedEngines /\ keys[e] # NoKey)

Place(order, e) == CHOOSE i \in DOMAIN order : order[i] = e

\* The engine of a set that an order names first.
FirstOf(order, engines) ==
  CHOOSE e \in engines : \A d \in engines : Place(order, e) <= Place(order, d)

\* Mutant: the order of the channel only.
TurnOfRanked(left, ranked, explicit) == FirstOf(ranked, left)

\* resolveMarketAiEngineTryOrder, one turn at a time: of the available engines
\* that have not been tried, the chosen one comes first, then the ranking, which
\* names every engine, so that the last loop of the code adds nothing.
TurnOf(left, ranked, explicit) ==
  IF explicit \in left THEN explicit ELSE FirstOf(ranked, left)

\* available.slice(0, ensembleMaxEngines)
Panelists(available) ==
  {e \in available :
     Cardinality({d \in available : Place(ENGINE_ORDER, d) < Place(ENGINE_ORDER, e)})
       < PanelSize}

Idle == [step |-> "none"]

ChatInit ==
  /\ messages = 1 /\ tooLong = FALSE
  /\ known = {} /\ engine = AutoPick /\ panel = FALSE
  /\ request = Idle
  /\ outcome = [kind |-> "none"]

\* refreshEngines, when the chat opens and after keys were saved.
RefreshEngines ==
  /\ \E row \in RowOrNothing : known' = EnginesFor(row)
  /\ engine' = IF engine \in known' THEN engine ELSE AutoPick
  /\ UNCHANGED <<messages, tooLong, panel, request, outcome>>

Choose ==
  /\ engine' \in known \union {AutoPick}
  /\ panel' \in BOOLEAN
  /\ UNCHANGED <<messages, tooLong, known, request, outcome>>

\* handleSend: the whole chat is sent.
Send ==
  /\ request = Idle /\ known # {} /\ messages < MaxChat
  /\ messages' = messages + 1
  /\ request' = [step |-> "posted",
                 explicit |-> IF panel THEN AutoPick ELSE engine,
                 ensemble |-> panel /\ Cardinality(known) >= 2]
  /\ outcome' = [kind |-> "none"]
  /\ UNCHANGED <<tooLong, known, engine, panel>>

\* Whatever comes back becomes a message of the assistant.
Concludes(o) ==
  /\ request' = Idle
  /\ outcome' = o
  /\ messages' = messages + 1
  /\ tooLong' \in IF o.kind \in {"reply", "panel"} THEN {tooLong, TRUE} ELSE {tooLong}
  /\ UNCHANGED <<known, engine, panel>>

\* No session, a limit, a request or an answer that is lost.
Refuse == request # Idle /\ Concludes([kind |-> "refused"])

\* A chat of more messages than the schema takes is refused, as is one with a
\* message that is too long.
TooMuch == messages > MaxMessages \/ tooLong
Reject ==
  /\ request.step = "posted" /\ TooMuch
  /\ Concludes([kind |-> "invalid"])

\* listEnginesForUser reads the flags; none of them set, there is no engine.
ListEngines ==
  /\ request.step = "posted" /\ ~TooMuch
  /\ \E row \in RowOrNothing, ranked \in Rankings :
       LET available == EnginesFor(row)
       IN  \/ /\ available = {}
              /\ Concludes([kind |-> "no_engine"])
           \/ /\ available # {}
              /\ request' = [step |-> "listed", explicit |-> request.explicit,
                             ensemble |-> /\ request.ensemble
                                          /\ request.explicit = AutoPick
                                          /\ Cardinality(available) >= 2,
                             available |-> available,
                             ranked |-> ranked]
              /\ UNCHANGED <<messages, tooLong, known, engine, panel, outcome>>

\* loadDecryptedAiKeys reads the row again.
LoadKeys ==
  /\ request.step = "listed"
  /\ \E row \in RowOrNothing :
       request' = [step |-> IF request.ensemble THEN "panel" ELSE "trying",
                   explicit |-> request.explicit, available |-> request.available,
                   ranked |-> request.ranked, left |-> request.available,
                   keys |-> row, keyless |-> {}]
  /\ UNCHANGED <<messages, tooLong, known, engine, panel, outcome>>

Unavailable == [kind |-> "unavailable"]

\* runMarketEngine: null without a key; else a text, or an exception for
\* everything that may go wrong.
May(e, keys) == IF HasKey(e, keys) THEN {"text", "throws"} ELSE {"null"}

\* The panel asks its engines at once, and one exception ends it and the
\* request with it; of two texts and more it makes a reply, of fewer nothing.
Panel ==
  /\ request.step = "panel"
  /\ LET members == Panelists(request.available)
     IN \E said \in [members -> {"text", "throws", "null"}] :
          LET texts == {e \in members : said[e] = "text"}
          IN /\ \A e \in members : said[e] \in May(e, request.keys)
             /\ \/ /\ "throws" \in Range(said)
                   /\ Concludes(Unavailable)
                \/ /\ "throws" \notin Range(said)
                   /\ Cardinality(texts) >= 2
                   /\ Concludes([kind |-> "panel"])
                \/ /\ "throws" \notin Range(said)
                   /\ Cardinality(texts) < 2
                   /\ request' = [request EXCEPT !.step = "trying"]
                   /\ UNCHANGED <<messages, tooLong, known, engine, panel, outcome>>

Turn == TurnOf(request.left, request.ranked, request.explicit)
ReplyOf(e) == [kind |-> "reply", from |-> e, explicit |-> request.explicit,
               available |-> request.available, keyless |-> request.keyless]

\* Mutant: an engine without a key is tried again.
TryAgain ==
  /\ request.step = "trying" /\ request.left # {}
  /\ "text" \in May(Turn, request.keys)
  /\ Concludes(ReplyOf(Turn))

\* One turn of the loop over tryOrder.  The engine without a key passes the
\* turn; the first exception leaves the loop, and the engines behind it.
TryEngine ==
  /\ request.step = "trying"
  /\ \/ request.left = {} /\ Concludes(Unavailable)
     \/ /\ request.left # {}
        /\ \/ /\ "null" \in May(Turn, request.keys)
              /\ request' = [request EXCEPT !.left = @ \ {Turn},
                                            !.keyless = @ \union {Turn}]
              /\ UNCHANGED <<messages, tooLong, known, engine, panel, outcome>>
           \/ "throws" \in May(Turn, request.keys) /\ Concludes(Unavailable)
           \/ "text" \in May(Turn, request.keys) /\ Concludes(ReplyOf(Turn))

Serve == Reject \/ ListEngines \/ LoadKeys \/ Panel \/ TryEngine
ChatNext == RefreshEngines \/ Choose \/ Send \/ Refuse \/ Serve

\* The chat and the saves of the keys beside it.
ChatAndKeysNext ==
  \/ ChatNext /\ UNCHANGED keysVars
  \/ KeysNext /\ UNCHANGED chatVars
ChatSpec == ChatInit /\ KeysInit /\ [][ChatAndKeysNext]_<<chatVars, keysVars>>

\* Every step of a request comes to its end: the server's calls have timeouts.
ChatFairness == WF_chatVars(Serve)

-----------------------------------------------------------------------------
(* Properties                                                              *)

\* A reply comes from the engine the user had chosen when he sent his message,
\* unless that engine had no key by then: keys that come and go between the two
\* reads of the row never hand the question to another engine behind his back.
ChosenEngineAnswers ==
  outcome.kind = "reply" /\ outcome.explicit # AutoPick =>
    \/ outcome.from = outcome.explicit
    \/ outcome.explicit \notin outcome.available
    \/ outcome.explicit \in outcome.keyless

\* A message is answered, by a text or by a failure: keys that vanish between
\* the two reads never keep a request going round its engines.
ChatAnswers == request # Idle ~> request = Idle

=============================================================================
