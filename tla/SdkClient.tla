-------------------------------- MODULE SdkClient --------------------------------
(***************************************************************************)
(* The client library: the session of its auth client (sdk/auth-impl.ts),  *)
(* the sockets and channels of its realtime client (sdk/realtime-impl.ts)  *)
(* and what keeps the second up to date with the first (sdk/client.ts).    *)
(*                                                                         *)
(* Sessions are numbered in the order the server answers them, and 0 is    *)
(* none: realtime then has the API key.  All channels are of one topic and *)
(* listen for the same event with the same filter.                         *)
(***************************************************************************)
EXTENDS Integers, Sequences, FiniteSets

CONSTANTS
    Channels,    \* channel objects of the topic
    AuthCalls,   \* slots for concurrent calls of the auth client
    MaxSession,  \* bound: sessions ever answered
    MaxSockets   \* bound: sockets ever made

ASSUME SdkBounds == MaxSession \in Nat /\ MaxSockets \in Nat

Nobody == "nobody"
ASSUME Nobody \notin Channels

VARIABLES
    answered,   \* sessions answered so far
    session,    \* currentSession
    asking,     \* what each call of the auth client waits for
    authToken,      \* authToken, and accessToken
    sockets,    \* every socket made: its state, the token of its URL, and of its joins
    socket,     \* the current one, 0 for null
    heartbeat,  \* the heartbeat timer is running
    waiting,    \* the socket each channel's subscribe awaits, 0 for none
    subscribed, \* the channels told SUBSCRIBED, and not unsubscribed since
    own,        \* whose callbacks are in each channel's list
    dispatched, \* whose callbacks are in the topic's dispatcher
    shares      \* the channel whose list the dispatcher's is

authVars == <<answered, session, asking>>
socketVars == <<sockets, socket, heartbeat>>
channelVars == <<waiting, subscribed, own, dispatched, shares>>
sdkVars == <<authVars, authToken, socketVars, channelVars>>

SdkInit ==
    /\ answered = 0 /\ session = 0 /\ asking \in [AuthCalls -> {[op |-> "nothing", of |-> 0], [op |-> "renew", of |-> 0]}]
    /\ authToken = 0 /\ sockets = <<>> /\ socket = 0 /\ heartbeat = FALSE
    /\ waiting = [c \in Channels |-> 0] /\ subscribed = {}
    /\ own = [c \in Channels |-> {c}]
    /\ dispatched = {} /\ shares = Nobody

StateOf(s) == IF s = 0 THEN "null" ELSE sockets[s].state

(***************************************************************************)
(* Realtime: the credentials.                                              *)
(***************************************************************************)
\* Mutant: a socket that is still opening is left alone.
SetAuth_Opened(t) ==
    /\ authToken' = t
    /\ IF StateOf(socket) = "open"
       THEN sockets' = [sockets EXCEPT ![socket].state = "closing"] /\ heartbeat' = FALSE
       ELSE UNCHANGED <<sockets, heartbeat>>
    /\ UNCHANGED socket
SetAuth(t) ==
    /\ authToken' = t
    /\ IF StateOf(socket) \in {"connecting", "open"}
       THEN sockets' = [sockets EXCEPT ![socket].state = "closing"] /\ heartbeat' = FALSE
       ELSE UNCHANGED <<sockets, heartbeat>>
    /\ UNCHANGED socket

(***************************************************************************)
(* Auth: a call captures the session there is when it asks, and takes      *)
(* effect when it is answered.  emitAuthChange tells realtime.             *)
(***************************************************************************)
\* "renew" stands for every call that is answered a new session whatever there is by then: signIn,
\* signUp, the exchange of a code, a refresh and the constructor's probe of the cookies.
AuthOps == {"renew", "signOut", "getSession", "setSession"}
Nothing == [op |-> "nothing", of |-> 0]

\* setSession restores its session before it asks.
Ask(a, op) ==
    /\ asking[a] = Nothing
    /\ IF op = "setSession"
       THEN answered < MaxSession /\ answered' = answered + 1 /\ session' = answered + 1
       ELSE UNCHANGED <<answered, session>>
    /\ asking' = [asking EXCEPT ![a] = [op |-> op, of |-> IF op \in {"renew", "signOut"} THEN 0 ELSE session']]
    /\ UNCHANGED <<authToken, socketVars, channelVars>>

Asks(a, ops) == asking[a].op \in ops
Answered(a) == asking' = [asking EXCEPT ![a] = Nothing] /\ UNCHANGED channelVars

\* A new session, whatever there is by now; setSession may refresh as well.
NewSession(a) ==
    /\ Asks(a, {"renew", "setSession"}) /\ answered < MaxSession
    /\ answered' = answered + 1 /\ session' = answered + 1
    /\ SetAuth(answered + 1) /\ Answered(a)
\* The restored session is verified.
Verified(a) ==
    /\ Asks(a, {"setSession"})
    /\ session' = asking[a].of /\ SetAuth(asking[a].of) /\ Answered(a) /\ UNCHANGED answered
\* fetchSession: a session of the cookies, or none, which counts if there was none.
\* Nobody is told.
CookieSession(a) ==
    /\ Asks(a, {"getSession"})
    /\ \/ answered < MaxSession /\ answered' = answered + 1 /\ session' = answered + 1
       \/ UNCHANGED answered /\ session' = IF asking[a].of = 0 THEN 0 ELSE session
    /\ Answered(a) /\ UNCHANGED <<authToken, socketVars>>
\* signOut announces the session it ended, of which realtime takes the token.
SignedOut(a) ==
    /\ Asks(a, {"signOut"})
    /\ session' = 0 /\ SetAuth(session) /\ Answered(a) /\ UNCHANGED answered
\* An error; a refused setSession leaves no session.
AuthFails(a) ==
    /\ asking[a] # Nothing
    /\ \/ UNCHANGED session
       \/ Asks(a, {"setSession"}) /\ session' = 0
    /\ Answered(a) /\ UNCHANGED <<answered, authToken, socketVars>>

(***************************************************************************)
(* Realtime: sockets.                                                      *)
(***************************************************************************)
NewSocket(maker) ==
    /\ Len(sockets) < MaxSockets
    /\ sockets' = Append(sockets, [state |-> "connecting", by |-> maker, auth |-> authToken, joined |-> {}])
    /\ socket' = Len(sockets) + 1

Connect ==
    /\ StateOf(socket) \in {"null", "closed"}
    /\ NewSocket("connect") /\ heartbeat' = TRUE
    /\ UNCHANGED <<authVars, authToken, channelVars>>
Disconnect ==
    /\ socket # 0 /\ socket' = 0 /\ heartbeat' = FALSE
    /\ sockets' = IF StateOf(socket) = "closed" THEN sockets
                  ELSE [sockets EXCEPT ![socket].state = "closing"]
    /\ UNCHANGED <<authVars, authToken, channelVars>>

\* A join, on whatever socket is current.
Join(from) == IF socket # 0 /\ from[socket].state = "open"
              THEN [from EXCEPT ![socket].joined = @ \cup {authToken}] ELSE from

\* Sending is without effect on a socket that closes, and throws on one that connects.
Sends(from) == socket # 0 /\ from[socket].state # "connecting"

\* A subscribe ends; one that fails takes the topic's dispatcher with it.
Tell(c, s) ==
    /\ waiting' = [waiting EXCEPT ![c] = 0]
    /\ IF s = "SUBSCRIBED" THEN subscribed' = subscribed \cup {c} /\ UNCHANGED <<dispatched, shares>>
       ELSE dispatched' = {} /\ shares' = Nobody /\ UNCHANGED subscribed
    /\ UNCHANGED own
TellWaiter(s, status_) ==
    IF \E c \in Channels : waiting[c] = s
    THEN \E c \in Channels : waiting[c] = s /\ Tell(c, status_)
    ELSE UNCHANGED channelVars

\* The channel that made the socket joins, on the current one, unless its three seconds
\* are over.
Opens(s) ==
    LET opened == [sockets EXCEPT ![s].state = "open"]
        awaited == \E c \in Channels : waiting[c] = s
    IN /\ StateOf(s) = "connecting"
       /\ sockets' = IF awaited THEN Join(opened) ELSE opened
       /\ heartbeat' = (heartbeat \/ sockets[s].by = "subscribe")
       /\ TellWaiter(s, IF Sends(opened) THEN "SUBSCRIBED" ELSE "ERROR")
       /\ UNCHANGED <<authVars, authToken, socket>>

\* A socket that is closed, by either side or the network; what it was for is of no use any more.
Closes(s) ==
    /\ StateOf(s) \in {"connecting", "open", "closing"}
    /\ sockets' = [sockets EXCEPT ![s] = [state |-> "closed", by |-> "connect", auth |-> 0, joined |-> {}]]
    /\ TellWaiter(s, "ERROR")
    /\ UNCHANGED <<authVars, authToken, socket, heartbeat>>

\* Three seconds: the socket goes on, the subscription does not.
TimesOut(c) ==
    /\ waiting[c] # 0 /\ Tell(c, "ERROR")
    /\ UNCHANGED <<authVars, authToken, socketVars>>

(***************************************************************************)
(* Realtime: channels.                                                     *)
(***************************************************************************)
\* The callbacks are copied into a list there is, and make one there is not.
Register(c) ==
    IF c \in subscribed THEN UNCHANGED <<dispatched, shares, own>>
    ELSE IF dispatched # {}
         THEN /\ dispatched' = dispatched \cup own[c] /\ UNCHANGED shares
              /\ own' = IF shares = Nobody THEN own ELSE [own EXCEPT ![shares] = @ \cup own[c]]
         ELSE dispatched' = own[c] /\ shares' = c /\ UNCHANGED own

\* A caller awaits the subscribe of a channel before it calls the next.
Subscribe(c) ==
    /\ waiting[c] = 0 /\ Register(c)
    /\ IF StateOf(socket) = "open"
       THEN /\ sockets' = Join(sockets)
            /\ subscribed' = subscribed \cup {c}
            /\ UNCHANGED <<socket, waiting>>
       ELSE /\ NewSocket("subscribe") /\ waiting' = [waiting EXCEPT ![c] = Len(sockets) + 1]
            /\ UNCHANGED subscribed
    /\ UNCHANGED <<authVars, authToken, heartbeat>>

\* On a connecting socket sending throws, and nothing is done.  The topic is left for
\* every channel, and its list is deleted with everybody's callbacks.
Unsubscribe(c) ==
    /\ c \notin subscribed \/ socket = 0 \/ Sends(sockets)
    /\ IF c \in subscribed /\ StateOf(socket) = "open"
       THEN sockets' = [sockets EXCEPT ![socket].joined = {}] ELSE UNCHANGED sockets
    /\ dispatched' = {} /\ shares' = Nobody
    /\ subscribed' = subscribed \ {c}
    /\ UNCHANGED <<authVars, authToken, socket, heartbeat, waiting, own>>

SdkNext ==
    \/ \E a \in AuthCalls : \/ \E op \in AuthOps : Ask(a, op)
                            \/ NewSession(a) \/ Verified(a) \/ CookieSession(a) \/ SignedOut(a) \/ AuthFails(a)
    \/ Connect \/ Disconnect
    \/ \E s \in DOMAIN sockets : Opens(s) \/ Closes(s)
    \/ \E c \in Channels : Subscribe(c) \/ Unsubscribe(c) \/ TimesOut(c)

SdkSpec == SdkInit /\ [][SdkNext]_sdkVars

(***************************************************************************)
(* Properties.                                                             *)
(***************************************************************************)
SessionIds == 0..MaxSession
SocketIds == 0..MaxSockets

\* Every variable has its type.
SdkTypeOK ==
    /\ answered \in SessionIds /\ session \in 0..answered /\ authToken \in 0..answered
    /\ asking \in [AuthCalls -> [op : AuthOps \cup {"nothing"}, of : 0..answered]]
    /\ sockets \in Seq([state : {"connecting", "open", "closing", "closed"},
                        by : {"connect", "subscribe"}, auth : SessionIds, joined : SUBSET SessionIds])
    /\ Len(sockets) <= MaxSockets
    /\ socket \in SocketIds /\ heartbeat \in BOOLEAN
    /\ waiting \in [Channels -> SocketIds] /\ subscribed \subseteq Channels
    /\ own \in [Channels -> SUBSET Channels] /\ dispatched \subseteq Channels
    /\ shares \in Channels \cup {Nobody}

\* "Drop the live socket so the old credentials stop working immediately": whatever is
\* joined on an open socket is joined with the credentials of now, also when sockets
\* replaced each other while they were opening; and the current one has a heartbeat.
OldCredentialsStop ==
    /\ \A s \in DOMAIN sockets : sockets[s].state = "open" /\ sockets[s].joined # {} =>
         sockets[s].auth = authToken /\ sockets[s].joined = {authToken}
    /\ StateOf(socket) = "open" => heartbeat

\* "We must not wipe the other channel's callbacks", and "Channels re-join when
\* subscribe() is called again": a channel told SUBSCRIBED hears.  False.
SubscribedHears == subscribed \subseteq dispatched

\* "Keep the realtime session authToken in sync with auth": false after a sign-out, whose
\* event carries the session that ended, and after sessions nobody is told of.
InSync == (\A a \in AuthCalls : asking[a] = Nothing) => authToken = session

\* "unsubscribe() of one channel must not mutate another channel's callback lists":
\* false, the first channel of a topic shares its list with the dispatcher.
OwnCallbacks == \A c \in Channels : own[c] = {c}
==================================================================================
