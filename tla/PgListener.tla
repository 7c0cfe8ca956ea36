------------------------------- MODULE PgListener ------------------------------
(***************************************************************************)
(* The connection that listens for row changes:                            *)
(* src/apis/realtime-pg-listener.ts, class PgRealtimeListener.             *)
(*                                                                         *)
(* start() connects, configures and LISTENs, one await each; a reported    *)
(* loss, the heartbeat or a failed start releases the connection and       *)
(* schedules another start.  The retry timer waits a second or more, by    *)
(* which time a released connection has emitted its 'end'.                 *)
(***************************************************************************)
EXTENDS Integers, Sequences, FiniteSets, SequencesExt

CONSTANTS
    MaxConns,   \* bound: connections checked out in all
    MaxFails    \* bound: statements that fail on a healthy connection

ASSUME ListenerBounds == MaxConns \in Nat /\ MaxFails \in Nat

VARIABLES
    running,    \* this.running
    client,     \* this.client, 0 for null
    retries,    \* pending retry timeouts
    beat,       \* this.heartbeatTimer is set
    beats,      \* intervals that are ticking
    checking,   \* the connection a heartbeat is checking, 0 for none
    calls,      \* the await each start() in progress is at
    conns,      \* every connection checked out so far
    app,        \* "new", "starting", "up", "stopped": what the application asked for
    fails

listenerVars == <<running, client, retries, beat, beats, checking, calls, conns, app, fails>>

Connection == [out : BOOLEAN, up : BOOLEAN, handled : BOOLEAN, ends : BOOLEAN]
Opened == [out |-> TRUE, up |-> TRUE, handled |-> FALSE, ends |-> FALSE]

ListenerInit ==
    /\ running = FALSE /\ client = 0 /\ retries = 0
    /\ beat = FALSE /\ beats = 0 /\ checking = 0
    /\ calls = <<>> /\ conns = <<>> /\ app = "new" /\ fails = 0

ClientUp == client # 0 /\ conns[client].up

\* The connection is destroyed; whoever listens to it will hear its 'end'.
Released(cs, c) ==
    IF c = 0 THEN cs
    ELSE [cs EXCEPT ![c] = [@ EXCEPT !.out = FALSE, !.up = FALSE, !.ends = cs[c].handled /\ cs[c].out]]

\* Mutant: every failure schedules a retry of its own.
Scheduled_Always == retries + 1

\* One retry at a time.
Scheduled == IF retries > 0 THEN retries ELSE retries + 1

\* Mutant: the cleared interval's handle is kept.
ClearHeartbeat_KeepsHandle ==
    /\ UNCHANGED beat
    /\ beats' = IF beat THEN beats - 1 ELSE beats

ClearHeartbeat ==
    /\ beat' = FALSE
    /\ beats' = IF beat THEN beats - 1 ELSE beats

\* reconnect(), cs being the connections after the event that called it.
Reconnect(cs) ==
    IF running
    THEN /\ ClearHeartbeat
         /\ conns' = Released(cs, client) /\ client' = 0
         /\ retries' = Scheduled
    ELSE conns' = cs /\ UNCHANGED <<client, retries, beat, beats>>

(***************************************************************************)
(* start(), called by the application once and by every retry.             *)
(***************************************************************************)
StartListening ==
    /\ app = "new" /\ app' = "starting"
    /\ running' = TRUE /\ calls' = Append(calls, "connect")
    /\ UNCHANGED <<client, retries, beat, beats, checking, conns, fails>>

\* The application's start has returned, one way or the other.
Returned == app' = IF app = "starting" THEN "up" ELSE app

Connect(i) ==
    /\ calls[i] = "connect" /\ Len(conns) < MaxConns
    /\ conns' = Append(conns, Opened) /\ client' = Len(conns) + 1
    /\ calls' = [calls EXCEPT ![i] = "config"]
    /\ UNCHANGED <<running, retries, beat, beats, checking, app, fails>>

Configure(i) ==
    /\ calls[i] = "config" /\ ClientUp
    /\ calls' = [calls EXCEPT ![i] = "listen"]
    /\ UNCHANGED <<running, client, retries, beat, beats, checking, conns, app, fails>>

\* LISTEN, the handlers and the heartbeat.
Listening(i) ==
    /\ calls[i] = "listen" /\ ClientUp
    /\ conns' = [conns EXCEPT ![client].handled = TRUE]
    /\ beat' = TRUE /\ beats' = beats + 1
    /\ calls' = RemoveAt(calls, i) /\ Returned
    /\ UNCHANGED <<running, client, retries, checking, fails>>

\* The pool has no connection, a statement is refused, the connection is lost
\* or was released by a stop.
StartThrows(i) ==
    /\ \/ calls[i] # "connect" /\ ~ClientUp /\ UNCHANGED fails
       \/ fails < MaxFails /\ fails' = fails + 1
    /\ conns' = Released(conns, client) /\ client' = 0
    /\ retries' = IF running THEN Scheduled ELSE retries
    /\ calls' = RemoveAt(calls, i) /\ Returned
    /\ UNCHANGED <<running, beat, beats, checking>>

Retry ==
    /\ retries > 0 /\ \A c \in DOMAIN conns : ~conns[c].ends
    /\ retries' = retries - 1
    /\ calls' = IF running THEN Append(calls, "connect") ELSE calls
    /\ UNCHANGED <<running, client, beat, beats, checking, conns, app, fails>>

StopListening ==
    /\ app = "up" /\ app' = "stopped"
    /\ running' = FALSE /\ retries' = 0 /\ ClearHeartbeat
    /\ conns' = Released(conns, client) /\ client' = 0
    /\ UNCHANGED <<checking, calls, fails>>

(***************************************************************************)
(* The connection and its heartbeat.                                       *)
(***************************************************************************)
\* A loss the socket reports: 'error', and 'end' after it.
Lost(c) ==
    /\ conns[c].out /\ conns[c].up /\ conns[c].handled
    /\ Reconnect([conns EXCEPT ![c].up = FALSE])
    /\ UNCHANGED <<running, checking, calls, app, fails>>
\* One that nothing reports.
Silent(c) ==
    /\ conns[c].out /\ conns[c].up
    /\ conns' = [conns EXCEPT ![c].up = FALSE]
    /\ UNCHANGED <<running, client, retries, beat, beats, checking, calls, app, fails>>

Ended(c) ==
    /\ conns[c].ends
    /\ Reconnect([conns EXCEPT ![c].ends = FALSE])
    /\ UNCHANGED <<running, checking, calls, app, fails>>

Heartbeat_ ==
    /\ beats > 0 /\ checking = 0 /\ client # 0
    /\ checking' = client
    /\ UNCHANGED <<running, client, retries, beat, beats, calls, conns, app, fails>>

Alive ==
    /\ checking # 0 /\ conns[checking].up
    /\ checking' = 0
    /\ UNCHANGED <<running, client, retries, beat, beats, calls, conns, app, fails>>

\* Mutant: a failed heartbeat leaves `checking` set.
HeartbeatFails_KeepsChecking ==
    /\ checking # 0 /\ ~conns[checking].up
    /\ IF client = checking THEN Reconnect(conns)
       ELSE UNCHANGED <<client, retries, beat, beats, conns>>
    /\ UNCHANGED <<running, checking, calls, app, fails>>

\* The query fails or five seconds pass.
HeartbeatFails ==
    /\ checking # 0 /\ ~conns[checking].up
    /\ checking' = 0
    /\ IF client = checking THEN Reconnect(conns)
       ELSE UNCHANGED <<client, retries, beat, beats, conns>>
    /\ UNCHANGED <<running, calls, app, fails>>

ListenerStep ==
    \/ \E i \in DOMAIN calls : Connect(i) \/ Configure(i) \/ Listening(i) \/ StartThrows(i)
    \/ Retry \/ Heartbeat_ \/ Alive \/ HeartbeatFails
    \/ \E c \in DOMAIN conns : Ended(c)

ListenerNext ==
    \/ StartListening \/ StopListening \/ ListenerStep
    \/ \E c \in DOMAIN conns : Lost(c) \/ Silent(c)

ListenerSpec == ListenerInit /\ [][ListenerNext]_listenerVars
FairListenerSpec == ListenerSpec /\ WF_listenerVars(ListenerStep)

(***************************************************************************)
(* Properties.                                                             *)
(***************************************************************************)
\* Every variable has its type, and this.client is checked out.
ListenerTypeOK ==
    /\ running \in BOOLEAN /\ beat \in BOOLEAN
    /\ conns \in Seq(Connection) /\ Len(conns) <= MaxConns
    /\ client \in {0} \cup {c \in DOMAIN conns : conns[c].out} /\ checking \in 0..Len(conns)
    /\ retries \in Nat /\ beats \in Nat /\ fails \in 0..MaxFails
    /\ calls \in Seq({"connect", "config", "listen"})
    /\ app \in {"new", "starting", "up", "stopped"}

\* However losses, heartbeats, failed starts and retries interleave, the listener
\* keeps one connection of the pool at most, the one it knows; one interval ticks
\* when a connection is listening, and none when not.
OneConnection ==
    /\ \A c \in DOMAIN conns : conns[c].out => c = client
    /\ beats = IF beat THEN 1 ELSE 0

\* "Stop listening and release the connection": a listener that has stopped holds
\* no connection of the pool.
StopReleases == app = "stopped" /\ calls = <<>> => \A c \in DOMAIN conns : ~conns[c].out

\* A running listener listens again after every loss, the silent ones included.
KeepsListening ==
    running ~> ~running \/ Len(conns) = MaxConns \/ (ClientUp /\ conns[client].handled)
=============================================================================
