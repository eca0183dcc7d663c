------------------------------- MODULE MCBrowser -------------------------------
(* Instances for TLC of the parts of the browser that wait for answers: a
   sector desk, the asset search, the form of the AI keys in two tabs, and a
   chat with one such form beside it.  They share nothing but the keys, so a
   behaviour is about one of them, and the others stay where nothing is to be
   done. *)
EXTENDS QuoteDesk, AssetSearch, Assistant

VARIABLE part

allVars == <<part, deskVars, searchVars, keysVars, chatVars>>

MCRankings == {<<"fable", "openai", "gemini", "ollama">>,
               <<"fable", "gemini", "openai", "ollama">>,
               <<"ollama", "fable", "openai", "gemini">>}

Init ==
  /\ part \in {"desk", "search", "keys", "chat"}
  /\ DeskInit /\ SearchInit /\ KeysInit /\ ChatInit
  /\ part # "desk" => /\ ~visible /\ ~stored
                      /\ selection = CHOOSE k \in Selections : TRUE
  /\ part \notin {"keys", "chat"} => ciphers = NoKeys

DeskMoves == /\ part = "desk" /\ DeskNext
             /\ UNCHANGED <<part, searchVars, keysVars, chatVars>>
SearchMoves == /\ part = "search" /\ SearchNext
               /\ UNCHANGED <<part, deskVars, keysVars, chatVars>>
\* Beside the chat one tab sets and clears one key.
OneKey == {a \in Asks : a.gemini = Keep /\ a.openai # Keep}
KeysMove == /\ \/ part = "keys" /\ KeysNext
               \/ /\ part = "chat"
                  /\ KeysStep(CHOOSE t \in Tabs : TRUE)
                  /\ \A t \in Tabs : saves'[t] # NoSave => saves'[t].ask \in OneKey
            /\ UNCHANGED <<part, deskVars, searchVars, chatVars>>
ChatMoves == /\ part = "chat" /\ ChatNext
             /\ UNCHANGED <<part, deskVars, searchVars, keysVars>>

Moves == DeskMoves \/ SearchMoves \/ KeysMove \/ ChatMoves

Spec == Init /\ [][Moves]_allVars /\ DeskFairness /\ SearchFairness /\ ChatFairness
=============================================================================
