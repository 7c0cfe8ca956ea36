------------------------------ MODULE MCLiveness ------------------------------
(* The liveness properties of the components, on one small instance of each.  *)
(* A behaviour runs one component, the one in focus, and the others stay in   *)
(* their initial states.                                                      *)
EXTENDS Integers, Sequences, FiniteSets

CONSTANTS r1, r2, s1, u1, c1, t1, k1, k2, NoKey, p1, p2, m1, w1, w2, x1, d1, NoWriter, NoClient

VARIABLES
    focus,
    minted, present, consumed, compromised, expired, recent, access, live, lapsed, gone, req,
    open, sent, queue, gen, heap, clients, subscribed, presence, knows, told,
    rep, sessions, lock, wait, ledger, applied, tables, triggers,
    running, client, retries, beat, beats, checking, calls, conns, app, fails,
    notify, row, log, op, at, pubs, notes, listening, missed, joined, left, got,
    code, file, call, stopped

(***************************************************************************)
(* Refresh tokens: two requests for one session.                           *)
(***************************************************************************)
R == INSTANCE RefreshTokens WITH
    Users <- {u1}, Sessions <- {s1}, Owner <- [s \in {s1} |-> u1], Legacy <- {},
    Requests <- {r1, r2}, Kinds <- {"signIn", "exchange", "logout", "delete", "fail"},
    MaxToken <- 2

(***************************************************************************)
(* Realtime: one connection with two presence keys and three messages.      *)
(***************************************************************************)
H == INSTANCE RealtimeHub WITH
    Conns <- {c1}, Topics <- {t1}, Keys <- {k1, k2}, KeysOf <- [c \in {c1} |-> {k1, k2}],
    MaxEntries <- 2, MaxSent <- [c \in {c1} |-> 3],
    Kinds <- {"join", "leave", "heartbeat", "broadcast", "track", "untrack",
              "limit", "close", "expire"}

(***************************************************************************)
(* Replicas: two starting servers, one migration, and losses of connections.*)
(***************************************************************************)
P == INSTANCE Replicas WITH
    queue <- wait, Replicas <- {p1, p2}, Migrations <- {m1},
    Lists <- [r \in {p1, p2} |-> [system |-> IF r = p1 THEN <<m1>> ELSE <<>>, app |-> <<>>]],
    Kinds <- {"lose"}, MaxSessions <- 2, MaxOps <- 1

(***************************************************************************)
(* The listener, and two handlers that delete a row somebody inserted and   *)
(* share a pool of two.                                                     *)
(***************************************************************************)
L == INSTANCE PgListener WITH MaxConns <- 3, MaxFails <- 2
F == INSTANCE RowChanges WITH
    Writers <- {w1, w2, x1}, External <- {x1}, Deniers <- {}, Clients <- {d1}, Service <- {},
    Readers <- {d1}, PoolSize <- 2, MaxLeft <- 1,
    Size <- [w \in {w1, w2, x1} |-> 1], PayloadLimit <- 3

(***************************************************************************)
(* Edge functions: two calls of a file that is written once.               *)
(***************************************************************************)
E == INSTANCE EdgeFunctions WITH
    Calls <- {r1, r2}, Bodies <- {"loops", "broken", "spins"}, MaxVersions <- 1

refreshVars == <<minted, present, consumed, compromised, expired, recent, access, live, lapsed, gone, req>>
hubVars == <<open, sent, queue, gen, heap, clients, subscribed, presence, knows, told>>
replicaVars == <<rep, sessions, lock, wait, ledger, applied, tables, triggers>>
listenerVars == <<running, client, retries, beat, beats, checking, calls, conns, app, fails>>
feedVars == <<notify, row, log, op, at, pubs, notes, listening, missed, joined, left, got>>
functionVars == <<code, file, call, stopped>>
vars == <<focus, refreshVars, hubVars, replicaVars, listenerVars, feedVars, functionVars>>

Init ==
    /\ focus \in {"refresh", "realtime", "replicas", "listener", "changes", "functions"}
    /\ R!Init /\ H!HubInit /\ P!Init /\ L!ListenerInit /\ F!FeedInit /\ E!FunctionInit
    /\ ~notify /\ op = [w \in {w1, w2, x1} |-> IF w = x1 THEN "INSERT" ELSE "DELETE"]

InRefresh == focus = "refresh" /\ UNCHANGED <<focus, hubVars, replicaVars, listenerVars, feedVars, functionVars>>
InRealtime == focus = "realtime" /\ UNCHANGED <<focus, refreshVars, replicaVars, listenerVars, feedVars, functionVars>>
InReplicas == focus = "replicas" /\ UNCHANGED <<focus, refreshVars, hubVars, listenerVars, feedVars, functionVars>>
InListener == focus = "listener" /\ UNCHANGED <<focus, refreshVars, hubVars, replicaVars, feedVars, functionVars>>
InChanges == focus = "changes" /\ UNCHANGED <<focus, refreshVars, hubVars, replicaVars, listenerVars, functionVars>>
InFunctions == focus = "functions"
    /\ UNCHANGED <<focus, refreshVars, hubVars, replicaVars, listenerVars, feedVars>>

Next ==
    \/ InRefresh /\ R!Next
    \/ InRealtime /\ H!HubNext
    \/ InReplicas /\ P!Next
    \/ InListener /\ L!ListenerNext
    \/ InChanges /\ F!FeedNext
    \/ InFunctions /\ E!FunctionNext

(* The conjuncts of each module's FairSpec. *)
Fairness ==
    /\ \A r \in {r1, r2} : SF_vars(InRefresh /\ R!Serve(r))
    /\ WF_vars(InRealtime /\ H!Serve(c1))
    /\ WF_vars(InRealtime /\ H!Ages)
    /\ WF_vars(InRealtime /\ H!Sweep)
    /\ \A r \in {p1, p2} : WF_vars(InReplicas /\ P!Step(r))
    /\ WF_vars(InReplicas /\ P!Postgres)
    /\ WF_vars(InListener /\ L!ListenerStep)
    /\ WF_vars(InChanges /\ F!FeedStep)
    /\ \A c \in {r1, r2} : WF_vars(InFunctions /\ E!CallSteps(c))

Spec == Init /\ [][Next]_vars /\ Fairness

\* Every request is answered: no cycle of row locks and no leaked transaction
\* keeps it waiting for ever.
EveryRequestAnswers == R!EveryRequestAnswers
\* Every start comes to an end: a replica that fails or loses its
\* connection leaves the migration lock to the next.
StartEnds == P!StartEnds
\* At the latest the sweeper removes the presence of a connection that closed, and
\* every message is evaluated and answered, whatever happened to those before it; a
\* running listener listens again after every loss, the silent ones included, and a
\* DELETE ends even when its check waits for connections that DELETEs hold.
FeedGoesOn ==
    /\ H!ClosedPresenceGoes /\ H!EveryMessageAnswered
    /\ L!KeepsListening /\ F!DeletesEnd
\* A call that reached its worker is answered, whatever the function does there, as
\* long as the server itself runs.
WorkersEnd == E!WorkersEnd
=============================================================================
