----------------------------- MODULE RealtimeHub -----------------------------
(***************************************************************************)
(* The realtime hub (src/apis/realtime.ts): joining and leaving topics,    *)
(* presence, broadcasts, token expiry and disconnection, for WebSocket     *)
(* connections that send several messages without waiting for replies.     *)
(*                                                                         *)
(* handleMessage chains each message onto the connection's promise in      *)
(* messageQueue, and processMessage runs without interruption up to its    *)
(* only await, the authorize callback.  Here the chain is the connection's *)
(* queue: messages of the same generation run in order, and removeClient,  *)
(* which forgets the promise, starts a new generation.  processMessage     *)
(* keeps its reference to the client's entry across the await, so entries  *)
(* live in a heap and clients holds references to them.                    *)
(***************************************************************************)
EXTENDS Integers, Sequences, FiniteSets, SequencesExt

CONSTANTS
    Conns,        \* WebSocket connections
    Topics,
    Keys,         \* presence keys
    NoKey,        \* no presence key given, or none tracked
    KeysOf,       \* the presence keys each connection uses
    MaxEntries,   \* MAX_PRESENCE_ENTRIES_PER_CLIENT
    Kinds,        \* bound: the messages and faults an instance has
    MaxSent       \* bound: how many messages each connection ever sends

ASSUME NoKeyAssumption == NoKey \notin Keys
ASSUME KeysOfAssumption == KeysOf \in [Conns -> SUBSET Keys] /\ \A c \in Conns : IsFiniteSet(KeysOf[c])
ASSUME MaxEntriesAssumption == MaxEntries \in Nat \ {0}
Events == {"join", "leave", "heartbeat", "broadcast", "track", "untrack"}
ASSUME MaxSentAssumption == MaxSent \in [Conns -> Nat]
ASSUME KindsAssumption == Kinds \subseteq Events \cup {"limit", "close", "expire"}

VARIABLES
    open,       \* connections whose socket is open
    sent,       \* how many messages each connection has sent
    queue,      \* each connection's messages not yet answered, as sent
    gen,        \* how often the connection's promise was forgotten
    heap,       \* the client entries ever created for a connection
    clients,    \* the entry that is in the clients map, 0 for none
    subscribed, \* the sockets' own subscriptions, by topic (ws.subscribe)
    presence,   \* presenceByTopic
    knows,      \* topics whose presence_state a connection was told
    told        \* their keys, as the later diffs changed them

hubVars == <<open, sent, queue, gen, heap, clients, subscribed, presence, told, knows>>

NewEntry == [context |-> FALSE, topics |-> {}, keys |-> [t \in Topics |-> NoKey]]

HubInit ==
    /\ open = Conns
    /\ sent = [c \in Conns |-> 0]
    /\ queue = [c \in Conns |-> <<>>]
    /\ gen = [c \in Conns |-> 0]
    /\ heap = [c \in Conns |-> <<>>]
    /\ clients = [c \in Conns |-> 0]
    /\ subscribed = [t \in Topics |-> {}]
    /\ presence = [t \in Topics |-> <<>>]
    /\ told = [c \in Conns |-> [t \in Topics |-> {}]]
    /\ knows = [c \in Conns |-> {}]

(***************************************************************************)
(* Presence.  A diff goes to every client that has joined the topic.       *)
(***************************************************************************)
Joined(c, t) == clients[c] # 0 /\ t \in heap[c][clients[c]].topics
KeysIn(P) == {P[i].key : i \in DOMAIN P}
EntriesOf(P, c) == {i \in DOMAIN P : P[i].conn = c}
\* filter: what is left of P at the places I, each element at its rank.
Rank(I, i) == Cardinality({j \in I : j <= i})
Remaining(P, I) == [n \in 1..Cardinality(I) |-> P[CHOOSE i \in I : Rank(I, i) = n]]
Without(P, c, k) == Remaining(P, {i \in DOMAIN P : ~(P[i].conn = c /\ P[i].key = k)})

\* Mutant: room for one entry too many.
Evict_OffByOne(P, c) == LET own == EntriesOf(P, c) IN
    IF Cardinality(own) <= MaxEntries THEN P
    ELSE Remaining(P, DOMAIN P \ {CHOOSE i \in own : \A j \in own : i <= j})

\* The client's oldest entry makes room, and nobody is told.
Evict(P, c) == LET own == EntriesOf(P, c) IN
    IF Cardinality(own) < MaxEntries THEN P
    ELSE Remaining(P, DOMAIN P \ {CHOOSE i \in own : \A j \in own : i <= j})
Tracked(P, c, k) ==
    Append(Evict(Without(P, c, k), c), [conn |-> c, key |-> k, stale |-> FALSE])

\* What the clients were told of once k joined topic t, or G[t] left each topic t.
Audience(t) == {c \in Conns : Joined(c, t) /\ t \in knows[c]}
Gained(t, k) == [c \in Conns |-> IF c \in Audience(t) THEN [told[c] EXCEPT ![t] = @ \cup {k}] ELSE told[c]]
Diff(G) == [c \in Conns |-> [t \in Topics |->
                IF c \in Audience(t) THEN told[c][t] \ G[t] ELSE told[c][t]]]
\* The keys that untracking k for c removes, nothing when it is not tracked.
Removed(t, c, k) == {presence[t][i].key : i \in {j \in EntriesOf(presence[t], c) : presence[t][j].key = k}}
OnTopic(t, K) == [u \in Topics |-> IF u = t THEN K ELSE {}]

(***************************************************************************)
(* Messages.  One that is at its turn runs as a microtask, before the      *)
(* event loop takes up a new message, a closing socket or a timer.         *)
(***************************************************************************)
Turn(c, i, ev) ==
    /\ queue[c][i].ev = ev /\ queue[c][i].pc = "queued"
    /\ \A j \in 1..(i - 1) : queue[c][j].gen # queue[c][i].gen
NextEvent == \A c \in Conns : \A i \in DOMAIN queue[c] : ~Turn(c, i, queue[c][i].ev)

\* Mutant: every message starts a promise of its own.
Send_NoChain(c, ev, t, k, token) ==
    /\ NextEvent /\ c \in open /\ sent[c] < MaxSent[c] /\ ev \in Kinds
    /\ sent' = [sent EXCEPT ![c] = @ + 1]
    /\ queue' = [queue EXCEPT ![c] = Append(@, [ev |-> ev, topic |-> t, key |-> k, token |-> token,
                    gen |-> gen[c], pc |-> "queued", entry |-> 0])]
    /\ gen' = [gen EXCEPT ![c] = @ + 1]
    /\ UNCHANGED <<open, heap, clients, subscribed, presence, told, knows>>

Send(c, ev, t, k, token) ==
    /\ NextEvent /\ c \in open /\ sent[c] < MaxSent[c] /\ ev \in Kinds
    /\ sent' = [sent EXCEPT ![c] = @ + 1]
    /\ queue' = [queue EXCEPT ![c] = Append(@, [ev |-> ev, topic |-> t, key |-> k, token |-> token,
                    gen |-> gen[c], pc |-> "queued", entry |-> 0])]
    /\ UNCHANGED <<open, gen, heap, clients, subscribed, presence, told, knows>>

Awaited(c, i, ev) == queue[c][i].ev = ev /\ queue[c][i].pc = "authorize"
Done(c, i) == queue' = [queue EXCEPT ![c] = RemoveAt(@, i)]

\* The entry processMessage works on: the one in the map, or a new one.
Ref(c) == IF clients[c] = 0 THEN Len(heap[c]) + 1 ELSE clients[c]
Heap(c) == IF clients[c] = 0 THEN Append(heap[c], NewEntry) ELSE heap[c]
Fetch(c) == heap' = [heap EXCEPT ![c] = Heap(c)] /\ clients' = [clients EXCEPT ![c] = Ref(c)]
\* Fetch, and give the entry the value x.
FetchSet(c, x) ==
    /\ heap' = [heap EXCEPT ![c] = [Heap(c) EXCEPT ![Ref(c)] = x]]
    /\ clients' = [clients EXCEPT ![c] = Ref(c)]
Entry(c) == Heap(c)[Ref(c)]
Await(c, i) == queue' = [queue EXCEPT ![c][i].pc = "authorize", ![c][i].entry = Ref(c)]

\* Over the per-minute limit: an error reply, before the entry is looked up.
Limited(c, i) ==
    /\ "limit" \in Kinds
    /\ \E ev \in Events : Turn(c, i, ev)
    /\ Done(c, i)
    /\ UNCHANGED <<open, sent, gen, heap, clients, subscribed, presence, told, knows>>

JoinStart(c, i) ==
    /\ Turn(c, i, "join")
    /\ Fetch(c) /\ Await(c, i)
    /\ UNCHANGED <<open, sent, gen, subscribed, presence, told, knows>>

JoinDenied(c, i) ==
    /\ Awaited(c, i, "join")
    /\ Done(c, i)
    /\ UNCHANGED <<open, sent, gen, heap, clients, subscribed, presence, told, knows>>

\* The entry of a client that joined t with k.
Entered(e, t, k) == [e EXCEPT !.context = TRUE, !.topics = @ \cup {t}, !.keys[t] = IF k = NoKey THEN @ ELSE k]

\* The entry may be out of the map by now; socket and presence change anyway.
\* The reply's presence_state is taken before the joiner's own key is tracked.
JoinAccepted(c, i) ==
    LET m == queue[c][i]  t == m.topic  k == m.key IN
    /\ Awaited(c, i, "join")
    /\ heap' = [heap EXCEPT ![c][m.entry] = Entered(@, t, k)]
    /\ subscribed' = [subscribed EXCEPT ![t] = @ \cup {c}]
    /\ IF k = NoKey
         THEN /\ knows' = [knows EXCEPT ![c] = @ \ {t}]
              /\ told' = [told EXCEPT ![c][t] = {}]
              /\ UNCHANGED presence
         ELSE /\ presence' = [presence EXCEPT ![t] = Tracked(@, c, k)]
              /\ told' = [Gained(t, k) EXCEPT ![c][t] = KeysIn(presence[t]) \cup {k}]
              /\ knows' = [knows EXCEPT ![c] = @ \cup {t}]
    /\ Done(c, i)
    /\ UNCHANGED <<open, sent, gen, clients>>

\* Mutant: presenceKeys forgets the topic before the key is untracked.
Leave_ForgetsFirst(c, i) ==
    LET t == queue[c][i].topic IN
    /\ Turn(c, i, "leave")
    /\ told' = [told EXCEPT ![c][t] = {}]
    /\ knows' = [knows EXCEPT ![c] = @ \ {t}]
    /\ FetchSet(c, [Entry(c) EXCEPT !.topics = @ \ {t}, !.keys[t] = NoKey])
    /\ subscribed' = [subscribed EXCEPT ![t] = @ \ {c}]
    /\ Done(c, i)
    /\ UNCHANGED <<open, sent, gen, presence>>

\* Only the key presenceKeys remembers is untracked.
Leave(c, i) ==
    LET t == queue[c][i].topic  k == Entry(c).keys[t] IN
    /\ Turn(c, i, "leave")
    /\ presence' = [presence EXCEPT ![t] = Without(@, c, k)]
    /\ told' = [Diff(OnTopic(t, Removed(t, c, k))) EXCEPT ![c][t] = {}]
    /\ knows' = [knows EXCEPT ![c] = @ \ {t}]
    /\ FetchSet(c, [Entry(c) EXCEPT !.topics = @ \ {t}, !.keys[t] = NoKey])
    /\ subscribed' = [subscribed EXCEPT ![t] = @ \ {c}]
    /\ Done(c, i)
    /\ UNCHANGED <<open, sent, gen>>

\* To whom a broadcast goes is the sockets' business; the hub keeps nothing of it.
Broadcast(c, i) ==
    /\ Turn(c, i, "broadcast")
    /\ Fetch(c) /\ Done(c, i)
    /\ UNCHANGED <<open, sent, gen, subscribed, presence, told, knows>>

Track(c, i) ==
    LET t == queue[c][i].topic  k == queue[c][i].key IN
    /\ Turn(c, i, "track")
    /\ IF t \in Entry(c).topics /\ k # NoKey
         THEN /\ presence' = [presence EXCEPT ![t] = Tracked(@, c, k)]
              /\ told' = Gained(t, k)
              /\ FetchSet(c, [Entry(c) EXCEPT !.keys[t] = k])
         ELSE Fetch(c) /\ UNCHANGED <<presence, told>>
    /\ Done(c, i)
    /\ UNCHANGED <<open, sent, gen, subscribed, knows>>

\* Untracking any key makes presenceKeys forget the topic.
Untrack(c, i) ==
    LET t == queue[c][i].topic
        k == IF queue[c][i].key # NoKey THEN queue[c][i].key ELSE Entry(c).keys[t]
    IN
    /\ Turn(c, i, "untrack")
    /\ IF t \in Entry(c).topics /\ k # NoKey
         THEN /\ presence' = [presence EXCEPT ![t] = Without(@, c, k)]
              /\ told' = Diff(OnTopic(t, Removed(t, c, k)))
              /\ FetchSet(c, [Entry(c) EXCEPT !.keys[t] = NoKey])
         ELSE Fetch(c) /\ UNCHANGED <<presence, told>>
    /\ Done(c, i)
    /\ UNCHANGED <<open, sent, gen, subscribed, knows>>

Refreshed(P, c) == [i \in DOMAIN P |-> IF P[i].conn = c THEN [P[i] EXCEPT !.stale = FALSE] ELSE P[i]]

\* Refreshes the client's entries on the topics presenceKeys remembers, then
\* validates the token it carries or the one validated last, if there is one.
Heartbeat(c, i) ==
    /\ Turn(c, i, "heartbeat")
    /\ presence' = [t \in Topics |-> IF Entry(c).keys[t] # NoKey THEN Refreshed(presence[t], c)
                                                                 ELSE presence[t]]
    /\ Fetch(c)
    /\ IF queue[c][i].token \/ Entry(c).context THEN Await(c, i) ELSE Done(c, i)
    /\ UNCHANGED <<open, sent, gen, subscribed, told, knows>>

HeartbeatValid(c, i) ==
    /\ Awaited(c, i, "heartbeat")
    /\ heap' = [heap EXCEPT ![c][queue[c][i].entry].context = TRUE]
    /\ Done(c, i)
    /\ UNCHANGED <<open, sent, gen, clients, subscribed, presence, told, knows>>

\* removeClient: untracks what presenceKeys remembers and forgets the client.
\* The socket's own subscriptions stay.
RemoveClient(c) ==
    /\ IF clients[c] = 0
         THEN UNCHANGED <<presence, told>>
         ELSE LET k == heap[c][clients[c]].keys IN
              /\ presence' = [t \in Topics |-> Without(presence[t], c, k[t])]
              /\ told' = [Diff([t \in Topics |-> Removed(t, c, k[t])])
                            EXCEPT ![c] = [t \in Topics |-> {}]]
    /\ knows' = [knows EXCEPT ![c] = {}]
    /\ clients' = [clients EXCEPT ![c] = 0]
    /\ gen' = [gen EXCEPT ![c] = @ + 1]

\* A token that no longer resolves evicts the client, if it had a context.
HeartbeatInvalid(c, i) ==
    /\ Awaited(c, i, "heartbeat") /\ "expire" \in Kinds
    /\ IF heap[c][queue[c][i].entry].context
         THEN RemoveClient(c)
         ELSE UNCHANGED <<gen, clients, presence, told, knows>>
    /\ Done(c, i)
    /\ UNCHANGED <<open, sent, heap, subscribed>>

\* The socket closes, and takes its own subscriptions with it.
Close(c) ==
    /\ NextEvent /\ "close" \in Kinds /\ c \in open
    /\ open' = open \ {c}
    /\ subscribed' = [t \in Topics |-> subscribed[t] \ {c}]
    /\ RemoveClient(c)
    /\ UNCHANGED <<sent, queue, heap>>

(***************************************************************************)
(* The presence sweeper.                                                   *)
(***************************************************************************)
\* PRESENCE_TIMEOUT passes without a heartbeat for the entry.
Age(t, i) ==
    /\ NextEvent /\ ~presence[t][i].stale
    /\ presence' = [presence EXCEPT ![t][i].stale = TRUE]
    /\ UNCHANGED <<open, sent, queue, gen, heap, clients, subscribed, told, knows>>
Ages == \E t \in Topics : \E i \in DOMAIN presence[t] : Age(t, i)

Stale(t) == {i \in DOMAIN presence[t] : presence[t][i].stale}

Sweep ==
    /\ NextEvent /\ \E t \in Topics : Stale(t) # {}
    /\ presence' = [t \in Topics |-> Remaining(presence[t], {i \in DOMAIN presence[t] : ~presence[t][i].stale})]
    /\ told' = Diff([t \in Topics |-> {presence[t][i].key : i \in Stale(t)}])
    /\ UNCHANGED <<open, sent, queue, gen, heap, clients, subscribed, knows>>

Process(c, i) ==
    \/ Limited(c, i) \/ JoinStart(c, i) \/ Leave(c, i) \/ Broadcast(c, i)
    \/ Track(c, i) \/ Untrack(c, i) \/ Heartbeat(c, i)
Authorized(c, i) ==
    JoinDenied(c, i) \/ JoinAccepted(c, i) \/ HeartbeatValid(c, i) \/ HeartbeatInvalid(c, i)

Serve(c) == \E i \in DOMAIN queue[c] : Process(c, i) \/ Authorized(c, i)

\* The SDK sends a heartbeat on a topic of its own, without a token or a key.
Arrive(c) ==
    \/ \E ev \in Events \ {"heartbeat"}, t \in Topics, k \in KeysOf[c] \cup {NoKey} :
         /\ ev \in {"leave", "broadcast"} => k = NoKey
         /\ Send(c, ev, t, k, FALSE)
    \/ \E t \in Topics, token \in BOOLEAN : Send(c, "heartbeat", t, NoKey, token)

HubNext ==
    \/ \E c \in Conns : Arrive(c) \/ Serve(c) \/ Close(c)
    \/ Ages \/ Sweep

HubSpec == HubInit /\ [][HubNext]_hubVars
\* Promises are resolved and callbacks answer, time passes, and the interval
\* timer sweeps as long as the hub is not disposed of.
HubFairSpec ==
    /\ HubSpec
    /\ \A c \in Conns : WF_hubVars(Serve(c))
    /\ WF_hubVars(Ages)
    /\ WF_hubVars(Sweep)

(***************************************************************************)
(* Properties.                                                             *)
(***************************************************************************)
EntryType == [context : BOOLEAN, topics : SUBSET Topics, keys : [Topics -> Keys \cup {NoKey}]]
MessageType == [ev : Events, topic : Topics, key : Keys \cup {NoKey}, token : BOOLEAN,
                gen : Nat, pc : {"queued", "authorize"}, entry : Nat]

\* Every variable has its type, every reference points into the heap, and a client
\* has no more entries on a topic than the cap allows, and never two of one key.
HubTypeOK ==
    /\ open \subseteq Conns
    /\ sent \in [Conns -> Nat] /\ \A c \in Conns : sent[c] <= MaxSent[c]
    /\ queue \in [Conns -> Seq(MessageType)]
    /\ gen \in [Conns -> Nat]
    /\ heap \in [Conns -> Seq(EntryType)]
    /\ \A c \in Conns : clients[c] \in 0..Len(heap[c])
    /\ \A c \in Conns : \A i \in DOMAIN queue[c] :
         queue[c][i].pc = "authorize" => queue[c][i].entry \in 1..Len(heap[c])
    /\ subscribed \in [Topics -> SUBSET Conns]
    /\ presence \in [Topics -> Seq([conn : Conns, key : Keys, stale : BOOLEAN])]
    /\ \A t \in Topics, c \in Conns :
         /\ Cardinality(EntriesOf(presence[t], c)) <= MaxEntries
         /\ \A i, j \in EntriesOf(presence[t], c) : presence[t][i].key = presence[t][j].key => i = j
    /\ told \in [Conns -> [Topics -> SUBSET Keys]]
    /\ knows \in [Conns -> SUBSET Topics]

\* "Messages from each client are serialised": one is evaluated only when all
\* those sent before it are done.
Serialised == \A c \in Conns : \A i \in DOMAIN queue[c] : i > 1 => queue[c][i].pc = "queued"

\* The socket of a live connection listens to exactly the topics the hub has it
\* down for, once nothing is in progress for it ("evicted and the WebSocket closed").
SubscriptionMatchesJoin == \A c \in open, t \in Topics :
    queue[c] = <<>> => (c \in subscribed[t] <=> Joined(c, t))

\* presence_state and the diffs that follow keep a joined client's picture in step
\* with the topic's presence, through joins, leaves, expiry and closing: it lacks no
\* key, and shows no key that is gone, except one that the cap evicted.
ViewAgrees == \A c \in Conns, t \in Topics :
    Joined(c, t) /\ t \in knows[c] =>
        /\ KeysIn(presence[t]) \subseteq told[c][t]
        /\ \A d \in Conns : Cardinality(KeysOf[d]) <= MaxEntries =>
             told[c][t] \cap KeysOf[d] \subseteq KeysIn(presence[t])

\* A connection that uses one presence key, as the SDK's channels do.
OneKeyed(c) == \A k, l \in KeysOf[c] : k = l

\* "On channel unsubscribe (phx_leave), all presence entries for that client are
\* removed immediately", whatever was tracked and untracked before, if the client
\* is connected and has one key.
LeaveClearsPresence ==
    [][\A c \in open : \A i \in DOMAIN queue[c] :
         OneKeyed(c) /\ Leave(c, i) => EntriesOf(presence'[queue[c][i].topic], c) = {}]_hubVars

\* The three of them: hub, sockets and clients agree on who is in a topic.
RoomsAgree == []SubscriptionMatchesJoin /\ []ViewAgrees /\ LeaveClearsPresence

\* At the latest the sweeper removes the presence of a connection that closed.
ClosedPresenceGoes == \A c \in Conns :
    c \notin open ~> \A t \in Topics : EntriesOf(presence[t], c) = {}

\* Every message is evaluated and answered, whatever happened to those before it.
EveryMessageAnswered == \A c \in Conns : queue[c] # <<>> ~> queue[c] = <<>>
=============================================================================
