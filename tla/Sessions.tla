-------------------------------- MODULE Sessions --------------------------------
(***************************************************************************)
(* What the refresh-token store promises, without requests or statements:  *)
(* a session is named by the token of the login that opened it and has at  *)
(* most one token that can be exchanged, its leaf.  A token is minted      *)
(* once, a session passes from one leaf to the next, and a closed session  *)
(* is closed for good.                                                     *)
(***************************************************************************)
EXTENDS Naturals

CONSTANT MaxTokens  \* bound: tokens minted in a behaviour

VARIABLES minted,   \* number of tokens minted
          leaf      \* session -> its exchangeable token, 0 if it has none

Tokens == 1..MaxTokens

Init == minted = 0 /\ leaf = [s \in Tokens |-> 0]

\* A login.
Open ==
  /\ minted < MaxTokens
  /\ minted' = minted + 1
  /\ leaf' = [leaf EXCEPT ![minted + 1] = minted + 1]

\* A refresh.
Exchange(s) ==
  /\ leaf[s] # 0
  /\ minted < MaxTokens
  /\ minted' = minted + 1
  /\ leaf' = [leaf EXCEPT ![s] = minted + 1]

\* A logout, a reuse, the device cap, or a revocation by the user.
Close(S) ==
  /\ leaf' = [s \in Tokens |-> IF s \in S THEN 0 ELSE leaf[s]]
  /\ UNCHANGED minted

Next ==
  \/ Open
  \/ \E s \in Tokens : Exchange(s)
  \/ \E S \in SUBSET Tokens : Close(S)

Spec == Init /\ [][Next]_<<minted, leaf>>
=============================================================================
