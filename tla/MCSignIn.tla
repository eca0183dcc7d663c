-------------------------------- MODULE MCSignIn --------------------------------
(* Instance of SignIn for TLC: requests and devices are interchangeable. *)
EXTENDS SignIn, TLC

Symmetry == Permutations(Requests) \union Permutations(Devices)
=============================================================================
