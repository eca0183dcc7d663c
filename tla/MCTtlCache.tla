------------------------------- MODULE MCTtlCache -------------------------------
(* Instance of TtlCache for TLC. *)
EXTENDS TtlCache
=============================================================================
