--------------------------- MODULE TokenRegister ---------------------------
(***************************************************************************)
(* What rotating refresh tokens promises, however many requests race and   *)
(* wherever they fail.  Tokens are numbered as they are issued.  A token   *)
(* either starts a family, which bears its number, or takes the place of   *)
(* the one token of its family that could still be rotated; a family in    *)
(* which none is left gets none again.                                     *)
(***************************************************************************)
EXTENDS Naturals

VARIABLES
    issued,     \* how many tokens have been issued
    inForce     \* of each family, the tokens that can still be rotated: one or none
registerVars == <<issued, inForce>>

\* A database may begin with tokens that an earlier version issued.
RegisterInit == issued \in Nat /\ inForce = [f \in 1..issued |-> {f}]

StartFamily ==
    /\ issued' = issued + 1
    /\ inForce' = [f \in DOMAIN inForce \cup {issued + 1} |->
                     IF f = issued + 1 THEN {issued + 1} ELSE inForce[f]]

\* The token in force is consumed and its successor issued, in one step.
RotateToken(f) ==
    /\ inForce[f] # {}
    /\ issued' = issued + 1
    /\ inForce' = [inForce EXCEPT ![f] = {issued + 1}]

\* A logout, the user's deletion, or a rotation that finds no session.
EndFamilies(F) ==
    /\ issued' = issued
    /\ inForce' = [f \in DOMAIN inForce |-> IF f \in F THEN {} ELSE inForce[f]]

RegisterNext ==
    \/ StartFamily
    \/ \E f \in DOMAIN inForce : RotateToken(f)
    \/ \E F \in SUBSET DOMAIN inForce : EndFamilies(F)
RegisterSpec == RegisterInit /\ [][RegisterNext]_registerVars
=============================================================================
