-------------------------------- MODULE MCFeed --------------------------------
(* The hub, the listener's connection and the delivery of row changes.  A     *)
(* behaviour is of the one in focus, and the others stay in their initial     *)
(* states.  In the hub, c1 uses two presence keys and reaches the cap on its  *)
(* entries, c2 uses one; each sends two messages at a time.                   *)
EXTENDS RealtimeHub, PgListener, RowChanges

CONSTANTS c1, c2, c3, k1, k2, k3, w1, w2, x1

MCKeysOf == [c \in Conns |-> IF c = c1 THEN {k1, k2} ELSE {k3}]
AllKinds == Events \cup {"limit", "close", "expire"}
NoExpiry == AllKinds \ {"expire"}
MCSize == [w \in Writers |-> IF w = w2 THEN 2 ELSE 1]
TwoEach == [c \in Conns |-> 2]

VARIABLE focus

vars == <<focus, hubVars, listenerVars, feedVars>>

Init ==
    /\ HubInit /\ ListenerInit /\ FeedInit
    /\ focus \in {"hub", "listener", "changes"}
    /\ focus # "changes" => ~notify /\ op = [w \in Writers |-> "INSERT"]

InHub == focus = "hub" /\ UNCHANGED <<focus, listenerVars, feedVars>>
InListener == focus = "listener" /\ UNCHANGED <<focus, hubVars, feedVars>>
InChanges == focus = "changes" /\ UNCHANGED <<focus, hubVars, listenerVars>>

Next ==
    \/ InHub /\ HubNext
    \/ InListener /\ ListenerNext
    \/ InChanges /\ FeedNext

Spec == Init /\ [][Next]_vars

\* The variables of the three have their types.
TypeOK == HubTypeOK /\ ListenerTypeOK /\ FeedTypeOK
=============================================================================
