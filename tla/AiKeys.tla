--------------------------------- MODULE AiKeys ---------------------------------
(***************************************************************************)
(* The user's own keys for the AI engines (web/src/app/api/user/ai-keys/   *)
(* route.ts, and the card that calls it): both ciphers of the user's row   *)
(* are read, one or both replaced, and both are written back.  A key is a  *)
(* model value; ciphers that cannot be decrypted count as no key.          *)
(***************************************************************************)
EXTENDS Naturals, FiniteSets

CONSTANTS Tabs,     \* browser tabs with the form open; each saves one at a time
          Secrets,  \* keys a user may enter
          NoKey     \* null

ASSUME KeysAssumption == NoKey \notin Secrets

VARIABLES
  ciphers,  \* of every engine: the key in the user's row
  saves,    \* of every tab: the save in progress
  meant,    \* history: of every engine, what the last write that asked about it left
  crossed   \* history: the engines whose last such write overlapped another save

keysVars == <<ciphers, saves, meant, crossed>>

KeyedEngines == {"openai", "gemini"}
Keys == Secrets \union {NoKey}
Keep == "keep"
Asks == [KeyedEngines -> Keys \union {Keep}]

NoSave == [step |-> "none"]
Asked(a) == [step |-> "asked", ask |-> a]
HasRead(a, row) == [step |-> "read", ask |-> a, row |-> row]

KeysInit ==
  /\ ciphers \in [KeyedEngines -> Keys]
  /\ saves = [t \in Tabs |-> NoSave]
  /\ meant = ciphers
  /\ crossed = {}

\* onSubmit, up to the checks of the handler: an engine is cleared, given a key,
\* or left out, and a form that says nothing is sent, too.
Submit(t) ==
  /\ saves[t] = NoSave
  /\ \E a \in Asks : saves' = [saves EXCEPT ![t] = Asked(a)]
  /\ UNCHANGED <<ciphers, meant, crossed>>

\* The handler reads both ciphers, null where there is no row.
ReadRow(t) ==
  /\ saves[t].step = "asked"
  /\ saves' = [saves EXCEPT ![t] = HasRead(saves[t].ask, ciphers)]
  /\ UNCHANGED <<ciphers, meant, crossed>>

\* Mutant: what the form leaves out is written as null.
MergedBlank(s) ==
  [k \in KeyedEngines |-> IF s.ask[k] = Keep THEN NoKey ELSE s.ask[k]]

\* nextOpenai, nextGemini
Merged(s) == [k \in KeyedEngines |-> IF s.ask[k] = Keep THEN s.row[k] ELSE s.ask[k]]

Reads == {t \in Tabs : saves[t].step = "read"}
AsksAbout(t) == {k \in KeyedEngines : saves[t].ask[k] # Keep}

\* The upsert writes both ciphers.  Saves that have read by now will write what
\* they read over it.
WriteRow(t) ==
  /\ t \in Reads
  /\ ciphers' = Merged(saves[t])
  /\ saves' = [saves EXCEPT ![t] = NoSave]
  /\ meant' = [k \in KeyedEngines |-> IF k \in AsksAbout(t) THEN Merged(saves[t])[k]
                                                            ELSE meant[k]]
  /\ crossed' = IF Reads # {t} THEN crossed \union AsksAbout(t)
                               ELSE crossed \ AsksAbout(t)

\* The read or the upsert fails (503): the form keeps its drafts.
SaveFails(t) ==
  /\ saves[t] # NoSave
  /\ saves' = [saves EXCEPT ![t] = NoSave]
  /\ UNCHANGED <<ciphers, meant, crossed>>

KeysStep(t) == Submit(t) \/ ReadRow(t) \/ WriteRow(t) \/ SaveFails(t)
KeysNext == \E t \in Tabs : KeysStep(t)

KeysSpec == KeysInit /\ [][KeysNext]_keysVars

-----------------------------------------------------------------------------
(* Properties                                                              *)

KeysTypeOK ==
  /\ ciphers \in [KeyedEngines -> Keys] /\ meant \in [KeyedEngines -> Keys]
  /\ crossed \subseteq KeyedEngines
  /\ saves \in [Tabs -> {NoSave} \union {Asked(a) : a \in Asks}
                  \union {HasRead(a, row) : a \in Asks, row \in [KeyedEngines -> Keys]}]

\* The row holds what the user last saved for each engine, through saves about
\* the other one and failed saves: only a save that had read the row when this
\* one wrote it can bring an older key back, or lose a new one.
KeysAreKept == \A k \in KeyedEngines \ crossed : ciphers[k] = meant[k]

=============================================================================
