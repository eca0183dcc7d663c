---------------------------- MODULE MCRefreshTokens ----------------------------
(* RefreshTokens for TLC: requests are interchangeable.                    *)
EXTENDS RefreshTokens, TLC

RequestSymmetry == Permutations(Requests)
=============================================================================
