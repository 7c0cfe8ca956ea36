------------------------------- MODULE MCGrants -------------------------------
(* Agent grants, and the refresh tokens of the in-memory store.  A behaviour   *)
(* is of the one in focus, and the other stays in its initial state.           *)
EXTENDS AgentGrants, FallbackAuth, TLC

CONSTANTS u1, u2, t1, t2, j1, j2, h1, h2

VARIABLE focus

vars == <<focus, grantVars, fallbackVars>>

MCSymmetry == Permutations(GrantJobs) \cup Permutations(Handlers)
\* u1 belongs to both tenants, u2 to one.
MCMember == [u \in Users |-> IF u = u1 THEN {t1, t2} ELSE {t2}]

Init == GrantInit /\ FallbackInit /\ focus \in {"grants", "fallback"}

InGrants == focus = "grants" /\ UNCHANGED <<focus, fallbackVars>>
InFallback == focus = "fallback" /\ UNCHANGED <<focus, grantVars>>

Next ==
    \/ InGrants /\ GrantNext
    \/ InFallback /\ FallbackNext

Spec == Init /\ [][Next]_vars

\* The variables of both have their types.
TypeOK == GrantTypeOK /\ FallbackTypeOK
===============================================================================
