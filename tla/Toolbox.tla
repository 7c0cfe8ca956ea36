------------------------------ MODULE Toolbox ------------------------------
(***************************************************************************)
(* Tools that the server's own code and its extensions share: the ticker   *)
(* of jobs, the locked store and the broker of subscriptions.              *)
(***************************************************************************)
EXTENDS Integers, Sequences, FiniteSets, SequencesExt

(***************************************************************************)
(* Jobs that run by the clock (tools/cron): cron expressions become sets   *)
(* of slots, and at every tick the jobs run whose slots the minute is in.  *)
(*                                                                         *)
(* Time goes by instants, Instants of them a minute.  A segment of an      *)
(* expression is a set of items, [kind, from, to, step], of kind "all",    *)
(* "one", "range" or what is no such thing; the event loop may be late.    *)
(* The jobs of one tick are fired in the background, in an order that      *)
(* nothing here depends on.                                                *)
(***************************************************************************)

CONSTANTS CronFields,     \* the least and most of each field of an expression
          Clock,          \* the fields at each minute, in the time zone
          CronMacros,     \* names of expressions
          CronTexts,      \* the expressions given, names or sequences of segments
          CronIds,
          Instants,       \* instants of a minute
          Intervals,      \* intervals that are set, in instants
          MaxChanges,        \* calls that are made of the cron
          MaxInstant      \* when the model ends
ASSUME CronTime ==
    /\ Instants \in Nat \ {0} /\ MaxInstant \in Nat \ {0} /\ Intervals \subseteq Nat \ {0}
    /\ \A i \in DOMAIN CronFields : CronFields[i].min \in Nat /\ CronFields[i].max \in Nat
    /\ \A minute \in 0..MaxInstant \div Instants : \A i \in DOMAIN CronFields :
          Clock[minute][i] \in CronFields[i].min..CronFields[i].max

VARIABLES cronNow, cronJobs, cronTimer, every,
          changes,           \* calls made so far
          ran,            \* the ticks that ran jobs, in order, with these
          punctual        \* no timer was late since the start
cronTickVars == <<cronNow, cronJobs, cronTimer, every, changes, ran, punctual>>

NoTimer == [kind |-> "none", at |-> 0, from |-> 0]
MinuteAt(instant) == instant \div Instants

(* -------- expressions -------- *)
\* An item that is sound: a step of one value must be 1, and none passes the greatest value.
SoundItem(item, f) ==
    /\ item.kind \in {"all", "one", "range"} /\ item.step \in 1..f.max
    /\ item.kind = "one" => item.step = 1 /\ item.from \in f.min..f.max
    /\ item.kind = "range" => item.from \in f.min..f.max /\ item.to \in item.from..f.max
\* The slots of an item, one step after the other.
Slots(item, f) ==
    LET first == IF item.kind = "all" THEN f.min ELSE item.from
        last == CASE item.kind = "all" -> f.max [] item.kind = "one" -> item.from [] item.kind = "range" -> item.to
    IN  {first + n * item.step : n \in 0..((last - first) \div item.step)}
ParseCronSegment(segment, f) == UNION {Slots(item, f) : item \in segment}

Expression(text) == IF text \in DOMAIN CronMacros THEN CronMacros[text] ELSE text
IsExpression(text) ==
    LET e == Expression(text) IN
    DOMAIN e = DOMAIN CronFields /\ \A i \in DOMAIN e : \A item \in e[i] : SoundItem(item, CronFields[i])
NewSchedule(text) == [i \in DOMAIN CronFields |-> ParseCronSegment(Expression(text)[i], CronFields[i])]
IsDue(schedule, minute) == \A i \in DOMAIN schedule : Clock[minute][i] \in schedule[i]

(* -------- jobs and timers -------- *)
CronTickInit ==
    /\ cronNow = 1 /\ cronJobs = {} /\ cronTimer = NoTimer /\ every = Instants
    /\ changes = 0 /\ ran = <<>> /\ punctual = TRUE

Change == changes < MaxChanges /\ changes' = changes + 1
Without(id) == {job \in cronJobs : job.id # id}
\* A job takes the place of that of its id; an expression that is refused changes nothing.
AddJob(id, text) ==
    /\ Change /\ IsExpression(text)
    /\ cronJobs' = Without(id) \cup {[id |-> id, text |-> text, schedule |-> NewSchedule(text), since |-> cronNow]}
    /\ UNCHANGED <<cronNow, cronTimer, every, ran, punctual>>
RemoveJob(id) == Change /\ cronJobs' = Without(id) /\ UNCHANGED <<cronNow, cronTimer, every, ran, punctual>>

\* The timer waits for the next boundary of the interval, which may be now.
Starting(interval) ==
    LET boundary == ((cronNow + interval - 1) \div interval) * interval
    IN  cronTimer' = [kind |-> "start", at |-> boundary, from |-> boundary] /\ punctual' = TRUE
StartCron == Change /\ Starting(every) /\ UNCHANGED <<cronNow, cronJobs, every, ran>>
StopCron == Change /\ cronTimer' = NoTimer /\ UNCHANGED <<cronNow, cronJobs, every, ran, punctual>>
\* A cron that ticks starts again; one that waits for its first boundary does not.
SetCronInterval(interval) ==
    /\ Change /\ every' = interval
    /\ IF cronTimer.kind = "tick" THEN Starting(interval) ELSE UNCHANGED <<cronTimer, punctual>>
    /\ UNCHANGED <<cronNow, cronJobs, ran>>

\* The jobs that are due run; the next tick is an interval after this one.
RunDueJobs ==
    LET due == {job \in cronJobs : IsDue(job.schedule, MinuteAt(cronNow))} IN
    /\ cronTimer.kind # "none" /\ cronTimer.at <= cronNow
    /\ ran' = IF due = {} THEN ran
              ELSE Append(ran, [at |-> cronNow, first |-> cronTimer.kind = "start", jobs |-> due])
    /\ cronTimer' = [cronTimer EXCEPT !.kind = "tick", !.at = cronNow + every]
    /\ UNCHANGED <<cronNow, cronJobs, every, changes, punctual>>

CronTimePasses ==
    /\ cronNow < MaxInstant /\ cronNow' = cronNow + 1
    /\ punctual' = (punctual /\ (cronTimer.kind = "none" \/ cronTimer.at > cronNow))
    /\ UNCHANGED <<cronJobs, cronTimer, every, changes, ran>>

CronTickNext ==
    \/ \E id \in CronIds, text \in CronTexts : AddJob(id, text)
    \/ \E id \in CronIds : RemoveJob(id)
    \/ StartCron \/ StopCron \/ RunDueJobs \/ CronTimePasses
    \/ \E interval \in Intervals \ {every} : SetCronInterval(interval)

CronTickSpec == CronTickInit /\ [][CronTickNext]_cronTickVars

CronTickTypeOK ==
    /\ cronNow \in 0..MaxInstant /\ every \in Intervals /\ changes \in 0..MaxChanges /\ punctual \in BOOLEAN
    /\ cronTimer.kind \in {"none", "start", "tick"} /\ \A j, k \in cronJobs : j.id = k.id => j = k

(* -------- properties -------- *)

\* What an expression says of a minute, item by item.
Says(text, minute) ==
    \A i \in DOMAIN CronFields : \E item \in Expression(text)[i] :
        LET v == Clock[minute][i]
            f == CronFields[i]
            from == IF item.kind = "all" THEN f.min ELSE item.from
        IN  v >= from /\ v <= f.max /\ (v - from) % item.step = 0
            /\ (item.kind = "one" => v = from) /\ (item.kind = "range" => v <= item.to)
\* Jobs run in minutes that their expressions name.
RunsWhenDue == \A i \in DOMAIN ran : \A job \in ran[i].jobs : Says(job.text, MinuteAt(ran[i].at))

\* However late ticks are, no job runs twice in a minute, unless a cron is started again at the very
\* boundary at which it ran.
OncePerMinute ==
    \A i, j \in DOMAIN ran : \A job \in ran[i].jobs, again \in ran[j].jobs :
        job.id = again.id /\ MinuteAt(ran[i].at) = MinuteAt(ran[j].at) =>
            \/ i = j /\ job = again
            \/ i < j /\ ran[j].first /\ ran[i].at % Instants = 0
            \/ j < i /\ ran[i].first /\ ran[j].at % Instants = 0

\* While timers are on time and the interval is a minute, a job runs in each minute that its
\* expression names, from the first boundary on.
NoMinuteMissed ==
    cronTimer.kind = "tick" /\ punctual /\ every = Instants =>
        \A job \in cronJobs, minute \in 0..MinuteAt(MaxInstant) :
            LET start == minute * Instants IN
            start >= cronTimer.from /\ start > job.since /\ start < cronTimer.at /\ Says(job.text, minute)
                => \E k \in DOMAIN ran : ran[k].at = start /\ \E run \in ran[k].jobs : run.id = job.id

(***************************************************************************)
(* tools/store: the map with an awaiting getOrSet behind a FIFO lock.      *)
(* Every other operation is one synchronous step that takes no lock.       *)
(***************************************************************************)

CONSTANTS
    Keys,        \* keys of the store
    Getters,     \* calls of getOrSet, one after another for each
    MaxValues    \* bound on the values written
ASSUME StoreBounds == MaxValues \in Nat

VARIABLES
    entries,     \* value of each key, NoEntry when it has none; values are numbered in order of writing
    locked,   \* the lock's flag
    lockQueue,\* getters waiting for it
    getters,  \* pc, key and result of each getter
    values    \* values written or computed so far

storeVars == <<entries, locked, lockQueue, getters, values>>

NoEntry == 0
NotGetting == [pc |-> "idle", key |-> NoEntry, got |-> NoEntry]

StoreInit ==
    /\ entries = [k \in Keys |-> NoEntry]
    /\ locked = FALSE /\ lockQueue = <<>> /\ values = 0
    /\ getters = [g \in Getters |-> NotGetting]

(* -------- the store -------- *)
Steps(g, pc) == getters' = [getters EXCEPT ![g].pc = pc]
Gets(g, value) == getters' = [getters EXCEPT ![g].pc = "idle", ![g].got = value]

\* The fast path reads without the lock; otherwise the lock is taken or queued for.
GetOrSet(g, k) ==
    /\ getters[g].pc = "idle"
    /\ \/ /\ entries[k] # NoEntry
          /\ Gets(g, entries[k]) /\ UNCHANGED <<locked, lockQueue>>
       \/ /\ entries[k] = NoEntry /\ ~locked
          /\ locked' = TRUE /\ UNCHANGED lockQueue
          /\ getters' = [getters EXCEPT ![g] = [pc |-> "holds", key |-> k, got |-> NoEntry]]
       \/ /\ entries[k] = NoEntry /\ locked
          /\ lockQueue' = Append(lockQueue, g) /\ UNCHANGED locked
          /\ getters' = [getters EXCEPT ![g] = [pc |-> "queued", key |-> k, got |-> NoEntry]]
    /\ UNCHANGED <<entries, values>>

\* release() hands the lock to the first in the queue without opening it.
Release(states) ==
    IF lockQueue = <<>> THEN locked' = FALSE /\ getters' = states /\ UNCHANGED lockQueue
    ELSE /\ lockQueue' = Tail(lockQueue) /\ UNCHANGED locked
         /\ getters' = [states EXCEPT ![Head(lockQueue)].pc = "holds"]

\* The holder reads again; a value found meanwhile ends the call.
Recheck(g) ==
    /\ getters[g].pc = "holds"
    /\ \/ entries[getters[g].key] = NoEntry /\ Steps(g, "computes") /\ UNCHANGED <<locked, lockQueue>>
       \/ /\ entries[getters[g].key] # NoEntry
          /\ Release([getters EXCEPT ![g].pc = "idle", ![g].got = entries[getters[g].key]])
    /\ UNCHANGED <<entries, values>>

\* setFunc answers and its value is written over whatever the key has by now, or it throws.
Computed(g) ==
    /\ getters[g].pc = "computes"
    /\ \/ /\ values < MaxValues /\ values' = values + 1
          /\ entries' = [entries EXCEPT ![getters[g].key] = values + 1]
          /\ Release([getters EXCEPT ![g].pc = "idle", ![g].got = values + 1])
       \/ Release([getters EXCEPT ![g].pc = "idle", ![g].got = NoEntry]) /\ UNCHANGED <<entries, values>>

StoreSet(k) ==
    /\ values < MaxValues /\ values' = values + 1
    /\ entries' = [entries EXCEPT ![k] = values + 1]
    /\ UNCHANGED <<locked, lockQueue, getters>>

StoreRemove(k) ==
    /\ entries[k] # NoEntry /\ entries' = [entries EXCEPT ![k] = NoEntry]
    /\ UNCHANGED <<locked, lockQueue, getters, values>>

StoreReset ==
    /\ \E k \in Keys : entries[k] # NoEntry
    /\ entries' = [k \in Keys |-> NoEntry]
    /\ UNCHANGED <<locked, lockQueue, getters, values>>

StoreNext ==
    \/ \E g \in Getters : Recheck(g) \/ Computed(g) \/ \E k \in Keys : GetOrSet(g, k)
    \/ \E k \in Keys : StoreSet(k) \/ StoreRemove(k)
    \/ StoreReset

StoreSpec == StoreInit /\ [][StoreNext]_storeVars

StoreTypeOK ==
    /\ entries \in [Keys -> 0..MaxValues] /\ values \in 0..MaxValues /\ locked \in BOOLEAN
    /\ getters \in [Getters -> [pc : {"idle", "queued", "holds", "computes"}, key : Keys \cup {NoEntry}, got : 0..MaxValues]]

\* The lock has one holder exactly while it is locked, and the getters in its queue are those
\* that wait, each once: nobody waits for a lock nobody will release (store.ts: Lock).
LockHeld ==
    /\ Cardinality({g \in Getters : getters[g].pc \in {"holds", "computes"}}) = IF locked THEN 1 ELSE 0
    /\ Range(lockQueue) = {g \in Getters : getters[g].pc = "queued"} /\ IsInjective(lockQueue)
    /\ lockQueue # <<>> => locked

(***************************************************************************)
(* The subscription broker (tools/subscriptions): clients register by id,  *)
(* subscribe to topics and are sent messages.  A broadcast goes through    *)
(* the clients there were when it began and calls each one's handler,      *)
(* which may itself register, subscribe, unregister and broadcast.         *)
(*                                                                         *)
(* A client is known by its number; two of one id are different clients.   *)
(* A subscription is its topic with the options written behind it.         *)
(***************************************************************************)

CONSTANTS ConnIds,        \* ids of connections
          Topics,         \* topics of messages, AnyTopic for all
          AnyTopic,
          Options,        \* options behind a topic, NoOption for none
          NoOption,
          MaxConns,       \* bound: clients ever made
          MaxCasts,       \* bound: broadcasts that nest
          MaxCalled       \* bound: calls made
ASSUME ConnIdsFinite == IsFiniteSet(ConnIds)

VARIABLES conns,          \* every client: [id, topics, discarded, late], the last a history
          registered,     \* the broker's store, in the order of its keys: [id, conn]
          casts,          \* the broadcasts under way, the last one running
          called
subscriptionVars == <<conns, registered, casts, called>>

SubscriptionInit == conns = <<>> /\ registered = <<>> /\ casts = <<>> /\ called = 0

CallBroker == called < MaxCalled /\ called' = called + 1
\* Code runs that can call the broker: outside of broadcasts, or the handler of a client just sent to.
Handling == IF casts = <<>> THEN TRUE ELSE Last(casts).handling
Holds(c, topic) == <<topic, NoOption>> \in conns[c].topics
ClientById(id) == {registered[i].conn : i \in {j \in DOMAIN registered : registered[j].id = id}}
\* The subscriptions whose names begin with one of the prefixes, and all if there is none.
SubscriptionsOf(c, prefixes) == {s \in conns[c].topics : prefixes = {} \/ s[1] \in prefixes}
\* History: who is left of those that a broadcast should reach.
StillDue(set) == casts' = [i \in DOMAIN casts |-> [casts[i] EXCEPT !.due = @ \cap set]]

(* -------- clients -------- *)
\* A client of the id of another takes its place; nobody tells the other.
RegisterConn(id) ==
    /\ Handling /\ CallBroker /\ Len(conns) < MaxConns
    /\ casts' = [i \in DOMAIN casts |-> IF casts[i].byId THEN [casts[i] EXCEPT !.due = @ \ ClientById(id)] ELSE casts[i]]
    /\ LET c == Len(conns) + 1 IN
       /\ conns' = Append(conns, [id |-> id, topics |-> {}, discarded |-> FALSE, late |-> FALSE])
       /\ registered' = IF ClientById(id) = {} THEN Append(registered, [id |-> id, conn |-> c])
                        ELSE [i \in DOMAIN registered |-> IF registered[i].id = id THEN [id |-> id, conn |-> c] ELSE registered[i]]
Unregister(id) ==
    /\ Handling /\ CallBroker
    /\ \E i \in DOMAIN registered :
          /\ registered[i].id = id /\ registered' = RemoveAt(registered, i)
          /\ LET c == registered[i].conn IN
             conns' = [conns EXCEPT ![c].discarded = TRUE] /\ StillDue(DOMAIN conns \ {c})
SubscribeTo(c, topic, option) ==
    /\ Handling /\ CallBroker /\ topic # AnyTopic /\ UNCHANGED <<registered, casts>>
    /\ conns' = [conns EXCEPT ![c].topics = @ \cup {<<topic, option>>}]
\* Without a topic, all of them.
UnsubscribeFrom(c, topics) ==
    /\ Handling /\ CallBroker /\ UNCHANGED registered
    /\ LET gone == IF topics = {} THEN conns[c].topics ELSE topics IN
       /\ conns' = [conns EXCEPT ![c].topics = @ \ gone]
       /\ casts' = [i \in DOMAIN casts |->
              IF <<casts[i].topic, NoOption>> \in gone THEN [casts[i] EXCEPT !.due = @ \ {c}] ELSE casts[i]]

(* -------- messages -------- *)
Cast(topic, byId, to, due) ==
    /\ Handling /\ CallBroker /\ Len(casts) < MaxCasts /\ UNCHANGED <<conns, registered>>
    /\ casts' = Append(casts, [topic |-> topic, byId |-> byId, left |-> to, due |-> due, heard |-> <<>>, handling |-> FALSE])
Broadcast(topic) ==
    LET all == [i \in DOMAIN registered |-> registered[i].conn]
        for == {c \in ToSet(all) : topic = AnyTopic \/ Holds(c, topic)}
    IN  Cast(topic, FALSE, all, for)
\* To the clients of some ids, looked up one by one, whatever they are subscribed to.
BroadcastTo(ids) == Cast(AnyTopic, TRUE, ids, UNION {ClientById(ids[i]) : i \in DOMAIN ids})

\* The next client; discarded and subscribed are as they are by now.
SendNext ==
    /\ casts # <<>> /\ ~Last(casts).handling /\ Last(casts).left # <<>> /\ UNCHANGED <<registered, called>>
    /\ LET b == Last(casts)
           next == IF b.byId THEN ClientById(Head(b.left)) ELSE {Head(b.left)}
           sent == {c \in next : ~conns[c].discarded /\ (b.topic = AnyTopic \/ Holds(c, b.topic))}
       IN  /\ conns' = [c \in DOMAIN conns |-> IF c \in sent THEN [conns[c] EXCEPT !.late = @ \/ conns[c].discarded] ELSE conns[c]]
           /\ casts' = [casts EXCEPT ![Len(casts)] =
               [b EXCEPT !.left = Tail(@), !.handling = sent # {}, !.heard = @ \o SetToSeq(sent)]]
\* A handler returns or throws.
HandlerEnds ==
    /\ casts # <<>> /\ Last(casts).handling /\ UNCHANGED <<conns, registered, called>>
    /\ casts' = [casts EXCEPT ![Len(casts)].handling = FALSE]
BroadcastEnds ==
    /\ casts # <<>> /\ ~Last(casts).handling /\ Last(casts).left = <<>> /\ UNCHANGED <<conns, registered, called>>
    /\ casts' = Front(casts)

SubscriptionNext ==
    \/ \E id \in ConnIds : RegisterConn(id) \/ Unregister(id)
    \/ \E c \in DOMAIN conns :
          \/ \E t \in Topics, o \in Options : SubscribeTo(c, t, o)
          \/ \E t \in Topics : UnsubscribeFrom(c, {<<t, NoOption>>})
          \/ UnsubscribeFrom(c, {})
    \/ \E t \in Topics : Broadcast(t)
    \/ \E ids \in SetToSeqs(ConnIds) : BroadcastTo(ids)
    \/ SendNext \/ HandlerEnds \/ BroadcastEnds

SubscriptionSpec == SubscriptionInit /\ [][SubscriptionNext]_subscriptionVars

SubscriptionTypeOK ==
    /\ Len(conns) <= MaxConns /\ Len(casts) <= MaxCasts /\ called \in 0..MaxCalled
    /\ \A c \in DOMAIN conns : conns[c].topics \subseteq Topics \X Options

(* -------- properties -------- *)
\* A broadcast has reached, when it ends, every client that was there and wanted it all the time, and
\* none of them twice, whatever the handlers did meanwhile.
BroadcastsReach ==
    \A i \in DOMAIN casts :
        /\ casts[i].left = <<>> => casts[i].due \subseteq ToSet(casts[i].heard)
        /\ IsInjective(casts[i].heard)
\* A client that was discarded is sent nothing more.
DiscardedHearNothing == \A c \in DOMAIN conns : ~conns[c].late
\* Who is in the store has not been discarded, and has the id it is there by.
StoreHoldsLive == \A i \in DOMAIN registered :
    LET c == registered[i].conn IN
    /\ ~conns[c].discarded /\ conns[c].id = registered[i].id
    /\ \A j \in DOMAIN registered : registered[i].id = registered[j].id => i = j
\* A client that is no more in the store is sent nothing.  False: one whose place was taken was not
\* discarded, and a broadcast under way reaches it.
OnlyRegisteredHear ==
    casts # <<>> /\ Last(casts).handling => Last(Last(casts).heard) \in {registered[i].conn : i \in DOMAIN registered}
================================================================================
