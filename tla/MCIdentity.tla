------------------------------ MODULE MCIdentity ------------------------------
(***************************************************************************)
(* Provider identities and the mailed links of an account.  A behaviour is *)
(* of the one in focus, and the other stays in its initial state.          *)
(***************************************************************************)
EXTENDS IdentityLinks, AccountLinks, TLC

CONSTANTS u1, u2, i1, i2, b1, q1, q2, a1, a2, j1, j2

VARIABLE focus

MCSym == Permutations(Slots) \cup Permutations(Jobs)
\* i1's address is u1's, i2's is u2's, who has not signed up.
MCClaims == [i \in Identities |-> IF i = i1 THEN u1 ELSE u2]

Init ==
    /\ IdentityInit /\ AccountInit
    /\ focus \in {"identities", "account"}
    /\ focus = "identities" => ~confirmed

InIdentities == focus = "identities" /\ UNCHANGED <<accountVars, focus>>
InAccount == focus = "account" /\ UNCHANGED <<identityVars, focus>>
Next ==
    \/ InIdentities /\ IdentityNext
    \/ InAccount /\ AccountNext

vars == <<identityVars, accountVars, focus>>
Spec == Init /\ [][Next]_vars

\* The variables of both have their types.
TypeOK == IdentityTypeOK /\ AccountTypeOK
===============================================================================
