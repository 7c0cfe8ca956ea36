------------------------- MODULE MCRefreshTokens -------------------------
(* Small instances of RefreshTokens for TLC. *)
EXTENDS RefreshTokens, TLC

CONSTANTS r1, r2, s1, u1

MCOwner == [s \in Sessions |-> u1]
Symmetry == Permutations(Requests)
=============================================================================
