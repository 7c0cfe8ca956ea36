------------------------------ MODULE RowChanges ------------------------------
(***************************************************************************)
(* How a committed row change reaches the WebSocket clients: the mutation  *)
(* handlers of src/apis/postgrest.ts, the notify trigger and its listener, *)
(* and RealtimeHub.preparePostgresChange of src/apis/realtime.ts.          *)
(*                                                                         *)
(* Without PG_NOTIFY the handler that made a change publishes it and       *)
(* answers afterwards.  With it the trigger notifies every listening       *)
(* replica of changes that are small enough, and they publish in parallel  *)
(* whatever they hear.  Either way an iterator over the hub's Map goes     *)
(* from client to client, and waits at each for the answer whether it can  *)
(* read the row, which is a transaction of its own on a connection of the  *)
(* pool.  A handler that prepares a DELETE has one already.                *)
(* One row and one replica; every writer makes one change, named after it. *)
(* Leaving is leaving the topic: a socket that closes is a client that     *)
(* never comes back.                                                       *)
(***************************************************************************)
EXTENDS Integers, Sequences, FiniteSets, SequencesExt

CONSTANTS
    Writers,
    External,   \* writers that use PostgreSQL directly
    Deniers,    \* writers whose DELETE no policy admits
    Clients,
    Service,    \* clients with the service role: nothing is queried for them
    Readers,    \* clients the row's policy lets read it
    PoolSize,   \* maxPoolSize
    MaxLeft,    \* bound: clients that leave, each once
    Size,       \* what the row takes in a payload as each writer leaves it
    PayloadLimit,
    NoWriter, NoClient

ASSUME WritersAssumption == External \subseteq Writers /\ Deniers \subseteq Writers
ASSUME ClientsAssumption == Service \subseteq Clients /\ Readers \subseteq Clients
ASSUME BoundsAssumption == PoolSize \in Nat \ {0} /\ MaxLeft \in Nat
ASSUME SizeAssumption == Size \in [Writers -> Nat] /\ PayloadLimit \in Nat
ASSUME NoWriterAssumption == NoWriter \notin Writers
ASSUME NoClientAssumption == NoClient \notin Clients

VARIABLES
    notify,     \* enablePgNotify
    row,        \* the writer of the row as it is, NoWriter when there is none
    log,        \* the writers whose changes are committed, in order
    op,         \* what each writer does
    at,         \* where its handler is
    pubs,       \* publications in progress, the prepared ones of a DELETE included
    notes,      \* notifications on their way to the listener
    listening,
    missed,     \* writers whose changes were given up: unheard, or a check failed
    joined,     \* clients that are joined
    left,       \* clients that were not joined at some time since the first change
    got         \* the changes each client was sent, in order

feedVars == <<notify, row, log, op, at, pubs, notes, listening, missed, joined, left, got>>

Pcs == {"idle", "delete", "publishing", "done", "failed"}
Ops == {"INSERT", "UPDATE", "DELETE"}
\* A publication has passed the clients in seen; it is asking for one of them, and
\* counts what it has for each to be sent.
Publication == [of : Writers, seen : SUBSET Clients, asking : Clients \cup {NoClient},
                hits : [Clients -> Nat], held : BOOLEAN]

\* The iterator goes on: past clients that are not joined to one that is, for whom it
\* asks, or to the end.  Whoever joins a topic that it has passed is not seen any more.
StopsAt(p, c) == {[p EXCEPT !.seen = @ \cup passed \cup {c}, !.asking = c] :
                    passed \in SUBSET (Clients \ joined)}
Onward(p) ==
    IF joined \subseteq p.seen THEN {[p EXCEPT !.seen = Clients, !.asking = NoClient]}
    ELSE UNION {StopsAt(p, c) : c \in joined \ p.seen}

Publish(w, held) == Onward([of |-> w, seen |-> {}, asking |-> NoClient,
                            hits |-> [c \in Clients |-> 0], held |-> held])
Over(p) == p.asking = NoClient

FeedInit ==
    /\ notify \in BOOLEAN /\ row = NoWriter /\ log = <<>>
    /\ op \in [Writers -> Ops] /\ at = [w \in Writers |-> "idle"]
    /\ pubs = {} /\ notes = <<>> /\ listening = notify /\ missed = {}
    /\ joined = Clients /\ left = {} /\ got = [c \in Clients |-> <<>>]

Goto(w, l) == at' = [at EXCEPT ![w] = l]

\* Every connection of the pool is a handler's that prepares a DELETE.
PoolEmpty == Cardinality({w \in Writers : at[w] = "delete"}) >= PoolSize

(***************************************************************************)
(* The writers.  A transaction takes effect when it commits.               *)
(***************************************************************************)
\* The handlers have no publisher when the listener is on.
\* Mutant: they always have one.
Direct_Always(w) == w \notin External
Direct(w) == w \notin External /\ ~notify

\* A DELETE publishes before it commits, but holds the delivery back.
Prepare(w) ==
    /\ at[w] = "idle" /\ op[w] = "DELETE" /\ Direct(w) /\ ~PoolEmpty
    /\ IF row = NoWriter THEN UNCHANGED pubs
       ELSE \E p \in Publish(w, TRUE) : pubs' = pubs \cup {p}
    /\ Goto(w, "delete")
    /\ UNCHANGED <<notify, row, log, op, notes, listening, missed, joined, left, got>>

\* The prepared deliveries of w are ready.
Prepared(w) == \A p \in pubs : p.of = w => Over(p)

Effect(w) ==
    CASE op[w] = "INSERT" -> row = NoWriter
      [] op[w] = "UPDATE" -> row # NoWriter
      [] op[w] = "DELETE" -> row # NoWriter /\ w \notin Deniers

\* The payload of a notification: the row as it is, as it was, or both.
Payload(w, old) ==
    (IF op[w] = "DELETE" THEN 0 ELSE Size[w]) + (IF op[w] = "INSERT" THEN 0 ELSE Size[old])

\* The change and its notification.  A payload over the limit is not notified.
Takes(w) ==
    /\ row' = IF op[w] = "DELETE" THEN NoWriter ELSE w
    /\ log' = Append(log, w)
    /\ notes' = IF notify /\ listening /\ Payload(w, row) < PayloadLimit
                THEN Append(notes, w) ELSE notes
    /\ missed' = IF notify /\ ~listening THEN missed \cup {w} ELSE missed

\* INSERT and UPDATE commit, publish the row they returned, and answer when that is
\* done; the others answer when they have committed.
Mutate(w) ==
    /\ at[w] = "idle" /\ (op[w] = "DELETE" => ~Direct(w))
    /\ w \in External \/ ~PoolEmpty
    /\ IF Effect(w) THEN Takes(w) ELSE UNCHANGED <<row, log, notes, missed>>
    /\ IF Direct(w) /\ Effect(w)
       THEN Goto(w, "publishing") /\ \E p \in Publish(w, FALSE) : pubs' = pubs \cup {p}
       ELSE Goto(w, "done") /\ UNCHANGED pubs
    /\ UNCHANGED <<notify, op, listening, joined, left, got>>

\* The prepared deliveries go out whichever rows were removed.
Delete(w) ==
    /\ at[w] = "delete" /\ Prepared(w)
    /\ IF Effect(w) THEN Takes(w) ELSE UNCHANGED <<row, log, notes, missed>>
    /\ pubs' = {[p EXCEPT !.held = @ /\ p.of # w] : p \in pubs}
    /\ Goto(w, IF \E p \in pubs : p.of = w THEN "publishing" ELSE "done")
    /\ UNCHANGED <<notify, op, listening, joined, left, got>>

\* The transaction fails.
Abort(w) ==
    /\ at[w] \in {"idle", "delete"} /\ Prepared(w)
    /\ pubs' = {p \in pubs : p.of # w}
    /\ Goto(w, "failed")
    /\ UNCHANGED <<notify, row, log, op, notes, listening, missed, joined, left, got>>

(***************************************************************************)
(* The listener.                                                           *)
(***************************************************************************)
Hear ==
    /\ notes # <<>> /\ listening
    /\ notes' = Tail(notes)
    /\ \E p \in Publish(Head(notes), FALSE) : pubs' = pubs \cup {p}
    /\ UNCHANGED <<notify, row, log, op, at, listening, missed, joined, left, got>>

\* Notifications on their way are lost with the connection.
Disconnect ==
    /\ listening /\ listening' = FALSE
    /\ missed' = missed \cup Range(notes) /\ notes' = <<>>
    /\ UNCHANGED <<notify, row, log, op, at, pubs, joined, left, got>>
Reconnected ==
    /\ notify /\ ~listening /\ listening' = TRUE
    /\ UNCHANGED <<notify, row, log, op, at, pubs, notes, missed, joined, left, got>>

(***************************************************************************)
(* The hub.                                                                *)
(***************************************************************************)
\* canRead counts the row by its id, as the client's role, when it is asked.
CanRead(c) == c \in Service \/ (c \in Readers /\ row # NoWriter)

\* The client is admitted or not, whether or not it is still joined, and the iterator
\* goes on.  For the service role there is no query that waits for a connection.
Answer(p) ==
    /\ p.asking \in Service \/ (~Over(p) /\ ~PoolEmpty)
    /\ \E q \in Onward([p EXCEPT !.hits[p.asking] = IF CanRead(p.asking) THEN @ + 1 ELSE @]) :
         pubs' = (pubs \ {p}) \cup {q}
    /\ UNCHANGED <<notify, row, log, op, at, notes, listening, missed, joined, left, got>>

\* The query fails, or gets no connection within connectionTimeoutMillis.  The
\* publication is given up: the transaction of a DELETE with it, while a handler that
\* has committed answers with an error.
CheckFails(p) ==
    /\ ~Over(p) /\ p.asking \notin Service
    /\ pubs' = pubs \ {p}
    /\ at' = IF at[p.of] = "done" THEN at ELSE [at EXCEPT ![p.of] = "failed"]
    /\ missed' = IF p.held THEN missed ELSE missed \cup {p.of}
    /\ UNCHANGED <<notify, row, log, op, notes, listening, joined, left, got>>

\* All at once, and also to a client that has left since it was asked for.
Deliver(p) ==
    /\ ~p.held /\ Over(p)
    /\ got' = [c \in Clients |-> got[c] \o [i \in 1..p.hits[c] |-> p.of]]
    /\ pubs' = pubs \ {p} /\ Goto(p.of, "done")
    /\ UNCHANGED <<notify, row, log, op, notes, listening, missed, joined, left>>

\* A topic that is joined again goes to the end of its client's Map, which the iterator
\* is in while it asks for the client: it meets the topic once more.
JoinFeed(c) ==
    /\ c \notin joined /\ joined' = joined \cup {c}
    /\ pubs' = {[p EXCEPT !.seen = IF p.asking = c THEN @ \ {c} ELSE @] : p \in pubs}
    /\ UNCHANGED <<notify, row, log, op, at, notes, listening, missed, left, got>>
LeaveFeed(c) ==
    /\ Cardinality(left) < MaxLeft
    /\ c \in joined \ left /\ joined' = joined \ {c} /\ left' = left \cup {c}
    /\ UNCHANGED <<notify, row, log, op, at, pubs, notes, listening, missed, got>>

FeedNext ==
    \/ \E w \in Writers : Prepare(w) \/ Mutate(w) \/ Delete(w) \/ Abort(w)
    \/ Hear \/ Disconnect \/ Reconnected
    \/ \E p \in pubs : Answer(p) \/ CheckFails(p) \/ Deliver(p)
    \/ \E c \in Clients : JoinFeed(c) \/ LeaveFeed(c)

FeedSpec == FeedInit /\ [][FeedNext]_feedVars

\* What the handlers and the hub do without being asked again.
FeedStep ==
    \/ \E w \in Writers : Delete(w)
    \/ \E p \in pubs : Answer(p) \/ CheckFails(p) \/ Deliver(p)
FairFeedSpec == FeedSpec /\ WF_feedVars(FeedStep)

(***************************************************************************)
(* Properties.                                                             *)
(***************************************************************************)
\* Every variable has its type, and a delivery is held back for a handler only.
FeedTypeOK ==
    /\ notify \in BOOLEAN /\ listening \in BOOLEAN /\ (listening => notify)
    /\ row \in Writers \cup {NoWriter} /\ log \in Seq(Writers) /\ notes \in Seq(Writers)
    /\ op \in [Writers -> Ops] /\ at \in [Writers -> Pcs]
    /\ pubs \subseteq Publication /\ missed \subseteq Writers
    /\ \A p \in pubs : p.held => at[p.of] = "delete"
    /\ joined \subseteq Clients /\ left \subseteq Clients /\ got \in [Clients -> Seq(Writers)]

\* A change reaches a client that stays once at most, although a change through the REST
\* API has two ways to it, and nobody is told of an INSERT or UPDATE that is not committed.
DeliveredOnce == \A c \in Clients :
    /\ c \notin left => IsInjective(got[c])
    /\ \A w \in Range(got[c]) : op[w] # "DELETE" => w \in Range(log)

\* Nothing is being written or published.
Quiet == pubs = {} /\ notes = <<>> /\ \A w \in Writers : at[w] # "delete"
\* The row was deleted after w changed it.
DeletedAfter(w) == \E i, j \in DOMAIN log : i < j /\ log[i] = w /\ op[log[j]] = "DELETE"
\* Whether c can still read what w wrote.
Reaches(c, w) == c \in Service \/ ~DeletedAfter(w)
\* The row w wrote and the one it found, the previous change's, are too much to notify.
TooLarge(w) == \E i \in DOMAIN log :
    log[i] = w /\ Payload(w, IF i = 1 THEN NoWriter ELSE log[i - 1]) >= PayloadLimit
\* The changes somebody publishes.
Published(w) == w \notin missed /\ IF notify THEN ~TooLarge(w) ELSE w \notin External
Hears(w) == \A c \in (Readers \cup Service) \ left : Reaches(c, w) => w \in Range(got[c])

\* A joined client that can read the row is told of every INSERT and UPDATE, unless the
\* change was given up or the row is gone before the client was asked for.
ReadersHear ==
    Quiet => \A w \in Range(log) : op[w] # "DELETE" /\ Published(w) => Hears(w)

\* A handler that answers its INSERT or UPDATE with success has told the readers before;
\* one that answers an error has changed nothing, or its publication was given up.
AnswersFollow == \A w \in Range(log) : Direct(w) =>
    /\ at[w] = "done" /\ op[w] # "DELETE" => Hears(w)
    /\ at[w] = "failed" => w \in missed

\* All three: a change is heard, heard once, and heard before its answer.
ReadersHearOnce == DeliveredOnce /\ ReadersHear /\ AnswersFollow

\* "Database change notifications (INSERT/UPDATE/DELETE)": so it is of a DELETE
\* the listener heard of.
DeletesAreHeard ==
    notify /\ Quiet => \A c \in Readers \ left : \A w \in Range(log) :
        op[w] = "DELETE" /\ Published(w) => w \in Range(got[c])

\* A DELETE comes to an end, although it may have to wait for connections that
\* other DELETEs hold which wait for it.
DeletesEnd == \A w \in Writers : at[w] = "delete" ~> at[w] # "delete"

\* A transaction of a request does "not open a second connection": handlers never
\* hold all connections and wait for another.
NoSecondConnection == PoolEmpty => \E w \in Writers : at[w] = "delete" /\ Prepared(w)

\* A client is told of a DELETE only when it removed the row.
DeletesAreReal == \A c \in Clients : \A w \in Range(got[c]) : op[w] = "DELETE" => w \in Range(log)
=============================================================================
