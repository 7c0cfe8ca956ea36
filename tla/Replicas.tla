------------------------------- MODULE Replicas -------------------------------
(***************************************************************************)
(* Replicas of the server starting and stopping on one PostgreSQL: the     *)
(* lifecycle of src/core/app.ts, the migration lock of                     *)
(* src/core/migration-lock.ts, and the migration runner.                   *)
(*                                                                         *)
(* A start runs its steps one await at a time.  Migrations run on a        *)
(* connection of their own, the lock session: PostgreSQL queues it on the  *)
(* advisory lock, keeps what its transaction did until COMMIT, and drops   *)
(* both some time after the connection is lost.  A COMMIT that was sent    *)
(* before the connection is lost may still be executed.                    *)
(***************************************************************************)
EXTENDS Integers, Sequences, FiniteSets, SequencesExt

CONSTANTS
    Replicas,
    Migrations,
    Lists,        \* the migrations of a replica's version, by stage, in order
    Kinds,        \* bound: the calls and faults an instance has
    MaxSessions,  \* bound: lock sessions ever opened
    MaxOps        \* bound: lifecycle calls waiting at a time

Stages == {"system", "app"}
ASSUME ListsAssumption == Lists \in [Replicas -> [Stages -> Seq(Migrations)]]
\* Two files of one name would both be pending, and both run.
ASSUME DistinctAssumption == \A r \in Replicas, st \in Stages : IsInjective(Lists[r][st])
ASSUME KindsAssumption == Kinds \subseteq {"stop", "migrationFails", "startFails", "stopFails", "lose", "crash"}
ASSUME TablesAssumption == "todos" \notin Migrations /\ "user" \notin Migrations

VARIABLES
    rep,        \* the replicas' processes, with the locals of a start
    sessions,   \* every lock session ever opened, as PostgreSQL sees it
    lock,       \* the session holding pg_advisory_lock(732031, 1), 0 for none
    queue,      \* the sessions waiting for it
    ledger,     \* names in the committed _migrations table
    applied,    \* how often each migration was committed
    tables,     \* committed tables: a migration's is named after it
    triggers    \* tables with the notify trigger

pgVars == <<sessions, lock, queue, ledger, applied, tables, triggers>>
vars == <<rep, pgVars>>

LockPcs == {"lock", "load", "apply", "record", "commit", "unlock", "rollback", "unlockFailed"}
Pcs == LockPcs \cup {"down", "connect", "auth", "todos", "createTodos", "listener",
        "discover", "attach", "createTrigger", "plugins", "preflight", "failed", "serving"}

NewProcess == [pc |-> "down", ops |-> <<>>, called |-> "none", stage |-> "system", todo |-> {}, cur |-> "none",
               ses |-> 0, pooled |-> {}, listener |-> FALSE, timer |-> FALSE, timers |-> 0]

Init ==
    /\ rep = [r \in Replicas |-> NewProcess]
    /\ sessions = <<>> /\ lock = 0 /\ queue = <<>>
    /\ ledger = {} /\ applied = [m \in Migrations |-> 0]
    /\ tables = {} /\ triggers = {}

\* The migrations of a replica's version.
Mine(r) == UNION {Range(Lists[r][st]) : st \in Stages}

At(r, l) == rep[r].pc = l
Assign(r, x) == rep' = [rep EXCEPT ![r] = x]
Goto(r, l) == Assign(r, [rep[r] EXCEPT !.pc = l])
Session(r) == sessions[rep[r].ses]
Connected(r) == rep[r].ses # 0 /\ ~Session(r).lost
SetSession(s, x) == sessions' = [sessions EXCEPT ![s] = x]

(***************************************************************************)
(* start() and stop() are chained on one promise.                          *)
(***************************************************************************)
Settled(r) == rep[r].pc \in {"down", "serving"}

Call(r, op) ==
    /\ Len(rep[r].ops) < MaxOps
    /\ op = "stop" => "stop" \in Kinds
    /\ Assign(r, [rep[r] EXCEPT !.called = op, !.ops = Append(@, op)])
    /\ UNCHANGED pgVars

\* The connections in S are closed by their owner.
Closed(S) == [s \in DOMAIN sessions |-> IF s \in S THEN [sessions[s] EXCEPT !.lost = TRUE] ELSE sessions[s]]

Calls(r, op) == Settled(r) /\ rep[r].ops # <<>> /\ Head(rep[r].ops) = op

\* Every start opens one lock session.
RoomForSession ==
    Len(sessions) + Cardinality({r \in Replicas : At(r, "connect")}) < MaxSessions

\* A start of a running server returns at once.
StartServer(r) ==
    /\ Calls(r, "start")
    /\ At(r, "down") => RoomForSession
    /\ Assign(r, [rep[r] EXCEPT !.ops = Tail(@), !.pc = IF @ = "serving" THEN @ ELSE "connect"])
    /\ UNCHANGED pgVars

\* Mutant: the cleared timer's handle is kept, and cleared again by the next stop.
StopServer_KeepsHandle(r) ==
    /\ Calls(r, "stop")
    /\ Assign(r, [rep[r] EXCEPT !.ops = Tail(@), !.pc = "down", !.pooled = {}, !.listener = FALSE,
                    !.timers = IF rep[r].timer THEN @ - 1 ELSE @])
    /\ sessions' = Closed(rep[r].pooled)
    /\ UNCHANGED <<lock, queue, ledger, applied, tables, triggers>>

\* When the HTTP server cannot be stopped the rest is not done.
StopServer(r) ==
    /\ Calls(r, "stop")
    /\ \/ /\ Assign(r, [rep[r] EXCEPT !.ops = Tail(@), !.pc = "down", !.pooled = {}, !.listener = FALSE,
                          !.timers = IF rep[r].timer THEN @ - 1 ELSE @, !.timer = FALSE])
          /\ sessions' = Closed(rep[r].pooled)
       \/ /\ At(r, "serving") /\ "stopFails" \in Kinds
          /\ Assign(r, [rep[r] EXCEPT !.ops = Tail(@), !.called = "none"])
          /\ UNCHANGED sessions
    /\ UNCHANGED <<lock, queue, ledger, applied, tables, triggers>>

\* closeDatabaseAfterStartupFailure: the log pruning timer is left alone.
StartFailed(r) ==
    /\ At(r, "failed")
    /\ Assign(r, [rep[r] EXCEPT !.pc = "down", !.listener = FALSE, !.pooled = {}])
    /\ sessions' = Closed(rep[r].pooled)
    /\ UNCHANGED <<lock, queue, ledger, applied, tables, triggers>>

(***************************************************************************)
(* Migrations, under the lock.                                             *)
(***************************************************************************)
NewSession == [lost |-> FALSE, done |-> {}, named |-> {}, commit |-> FALSE]

Gone == [NewSession EXCEPT !.lost = TRUE]

\* The connection is opened and pg_advisory_lock sent.
RequestLock(r) ==
    /\ At(r, "connect")
    /\ sessions' = Append(sessions, NewSession)
    /\ queue' = Append(queue, Len(sessions) + 1)
    /\ Assign(r, [rep[r] EXCEPT !.pc = "lock", !.ses = Len(sessions) + 1])
    /\ UNCHANGED <<lock, ledger, applied, tables, triggers>>

\* Mutant: nobody waits for the lock.
LockAcquired_TryLock(r) ==
    /\ At(r, "lock") /\ Connected(r)
    /\ Assign(r, [rep[r] EXCEPT !.pc = "load", !.stage = "system"])
    /\ UNCHANGED pgVars

\* BEGIN follows at once.
LockAcquired(r) ==
    /\ At(r, "lock") /\ Connected(r) /\ lock = rep[r].ses
    /\ Assign(r, [rep[r] EXCEPT !.pc = "load", !.stage = "system"])
    /\ UNCHANGED pgVars

List(r) == Lists[r][rep[r].stage]

\* Each stage has a runner of its own, which reads the ledger first: here the
\* transaction sees what is committed and its own rows.
LoadApplied(r) ==
    /\ At(r, "load") /\ Connected(r)
    /\ Assign(r, [rep[r] EXCEPT !.pc = "apply",
                    !.todo = Range(List(r)) \ (ledger \cup Session(r).named)])
    /\ UNCHANGED pgVars

\* The statements of the first pending migration.
Up(r) ==
    /\ At(r, "apply") /\ Connected(r)
    /\ \E i \in DOMAIN List(r) :
         /\ List(r)[i] \in rep[r].todo /\ \A j \in 1..i-1 : List(r)[j] \notin rep[r].todo
         /\ SetSession(rep[r].ses, [Session(r) EXCEPT !.done = @ \cup {List(r)[i]}])
         /\ Assign(r, [rep[r] EXCEPT !.pc = "record", !.cur = List(r)[i]])
    /\ UNCHANGED <<lock, queue, ledger, applied, tables, triggers>>

\* Its row in the ledger.
Record(r) ==
    /\ At(r, "record") /\ Connected(r)
    /\ SetSession(rep[r].ses, [Session(r) EXCEPT !.named = @ \cup {rep[r].cur}])
    /\ Assign(r, [rep[r] EXCEPT !.pc = "apply", !.todo = @ \ {rep[r].cur}, !.cur = "none"])
    /\ UNCHANGED <<lock, queue, ledger, applied, tables, triggers>>

\* The system migrations are done, the application's are discovered.
NextStage(r) ==
    /\ At(r, "apply") /\ rep[r].todo = {} /\ rep[r].stage = "system"
    /\ Assign(r, [rep[r] EXCEPT !.pc = "load", !.stage = "app"])
    /\ UNCHANGED pgVars

\* Mutant: COMMIT is sent after any stage.
SendCommit_EachStage(r) ==
    /\ At(r, "apply") /\ Connected(r) /\ rep[r].todo = {}
    /\ SetSession(rep[r].ses, [Session(r) EXCEPT !.commit = TRUE])
    /\ Goto(r, "commit")
    /\ UNCHANGED <<lock, queue, ledger, applied, tables, triggers>>

SendCommit(r) ==
    /\ At(r, "apply") /\ Connected(r) /\ rep[r].todo = {} /\ rep[r].stage = "app"
    /\ SetSession(rep[r].ses, [Session(r) EXCEPT !.commit = TRUE])
    /\ Goto(r, "commit")
    /\ UNCHANGED <<lock, queue, ledger, applied, tables, triggers>>

Committed(r) ==
    /\ At(r, "commit") /\ Connected(r) /\ ~Session(r).commit
    /\ Goto(r, "unlock")
    /\ UNCHANGED pgVars

Rollback(r) ==
    /\ At(r, "rollback") /\ Connected(r)
    /\ SetSession(rep[r].ses, [Session(r) EXCEPT !.done = {}, !.named = {}])
    /\ Goto(r, "unlockFailed")
    /\ UNCHANGED <<lock, queue, ledger, applied, tables, triggers>>

\* Mutant: the connection goes back to the pool without unlocking.
Unlock_Forget(r) ==
    /\ rep[r].pc \in {"unlock", "unlockFailed"} /\ Connected(r)
    /\ Assign(r, [rep[r] EXCEPT !.pc = IF @ = "unlock" THEN "auth" ELSE "failed",
                    !.pooled = @ \cup {rep[r].ses}, !.ses = 0])
    /\ UNCHANGED pgVars
\* Mutant: only a successful run unlocks before it returns the connection.
Unlock_OnSuccess(r) ==
    /\ rep[r].pc \in {"unlock", "unlockFailed"} /\ Connected(r)
    /\ lock' = IF At(r, "unlock") THEN 0 ELSE lock
    /\ Assign(r, [rep[r] EXCEPT !.pc = IF @ = "unlock" THEN "auth" ELSE "failed",
                    !.pooled = @ \cup {rep[r].ses}, !.ses = 0])
    /\ UNCHANGED <<sessions, queue, ledger, applied, tables, triggers>>

\* The healthy connection goes back to the pool, whatever the migrations did.
Unlock(r) ==
    /\ rep[r].pc \in {"unlock", "unlockFailed"} /\ Connected(r)
    /\ lock' = 0
    /\ Assign(r, [rep[r] EXCEPT !.pc = IF @ = "unlock" THEN "auth" ELSE "failed",
                    !.pooled = @ \cup {rep[r].ses}, !.ses = 0])
    /\ UNCHANGED <<sessions, queue, ledger, applied, tables, triggers>>

\* Mutant: a connection lost after COMMIT was sent is no failure.
Aborted_CommitAssumed(r) ==
    /\ rep[r].pc \in LockPcs /\ ~Connected(r)
    /\ Assign(r, [rep[r] EXCEPT !.pc = IF @ = "commit" THEN "auth" ELSE "failed", !.ses = 0])
    /\ UNCHANGED pgVars

\* The connection reported an error or its end, or a query on it failed: the
\* signal is aborted and the connection destroyed.
Aborted(r) ==
    /\ rep[r].pc \in LockPcs /\ ~Connected(r)
    /\ Assign(r, [rep[r] EXCEPT !.pc = "failed", !.ses = 0, !.todo = {}, !.cur = "none"])
    /\ UNCHANGED pgVars

\* A statement fails, or the application's migrations cannot be read from S3.
MigrationFails(r) ==
    /\ "migrationFails" \in Kinds
    /\ rep[r].pc \in {"load", "apply"} /\ Connected(r)
    /\ Assign(r, [rep[r] EXCEPT !.pc = "rollback", !.todo = {}])
    /\ UNCHANGED pgVars

(***************************************************************************)
(* The rest of a start, on the pool.                                       *)
(***************************************************************************)
\* The first connection, validateSchema, createAuth, the listener, a plugin, the preflight or the port fails.
StartFails(r) ==
    /\ "startFails" \in Kinds
    /\ rep[r].pc \in {"connect", "auth", "listener", "plugins", "preflight"}
    /\ Goto(r, "failed")
    /\ UNCHANGED pgVars

\* createAuth: one transaction, in turns under pg_advisory_xact_lock(732031, 2).
CreateAuth(r) ==
    /\ At(r, "auth")
    /\ tables' = tables \cup {"user"}
    /\ Goto(r, "todos")
    /\ UNCHANGED <<sessions, lock, queue, ledger, applied, triggers>>

\* CREATE TABLE IF NOT EXISTS looks the table up, and then inserts it into the
\* catalog, which fails when another session was faster.
EnsureTables(r) ==
    /\ At(r, "todos")
    /\ Goto(r, IF "todos" \in tables THEN "listener" ELSE "createTodos")
    /\ UNCHANGED pgVars
CreateTodos(r) ==
    /\ At(r, "createTodos")
    /\ tables' = tables \cup {"todos"}
    /\ Goto(r, IF "todos" \in tables THEN "failed" ELSE "listener")
    /\ UNCHANGED <<sessions, lock, queue, ledger, applied, triggers>>

StartListener(r) ==
    /\ At(r, "listener")
    /\ Assign(r, [rep[r] EXCEPT !.pc = "discover", !.listener = TRUE])
    /\ UNCHANGED pgVars

\* attachRealtimeTriggers: the tables are read once; a trigger that another
\* replica created after the check is no error.
DiscoverTables(r) ==
    /\ At(r, "discover")
    /\ Assign(r, [rep[r] EXCEPT !.pc = "attach", !.todo = tables])
    /\ UNCHANGED pgVars
CheckTrigger(r, t) ==
    /\ At(r, "attach") /\ t \in rep[r].todo
    /\ Assign(r, IF t \in triggers THEN [rep[r] EXCEPT !.todo = @ \ {t}]
                 ELSE [rep[r] EXCEPT !.pc = "createTrigger", !.cur = t])
    /\ UNCHANGED pgVars

CreateTrigger(r) ==
    /\ At(r, "createTrigger")
    /\ triggers' = triggers \cup {rep[r].cur}
    /\ Assign(r, [rep[r] EXCEPT !.pc = "attach", !.todo = @ \ {rep[r].cur}, !.cur = "none"])
    /\ UNCHANGED <<sessions, lock, queue, ledger, applied, tables>>
TriggersAttached(r) ==
    /\ At(r, "attach") /\ rep[r].todo = {}
    /\ Goto(r, "plugins")
    /\ UNCHANGED pgVars

\* The hourly log pruning starts before the plugins are registered.
PruneLogs(r) ==
    /\ At(r, "plugins")
    /\ Assign(r, [rep[r] EXCEPT !.pc = "preflight", !.timer = TRUE, !.timers = @ + 1])
    /\ UNCHANGED pgVars
Listen(r) == At(r, "preflight") /\ Goto(r, "serving") /\ UNCHANGED pgVars

(***************************************************************************)
(* PostgreSQL, connections and crashes.                                    *)
(***************************************************************************)
Grant ==
    /\ lock = 0 /\ queue # <<>>
    /\ lock' = Head(queue) /\ queue' = Tail(queue)
    /\ UNCHANGED <<rep, sessions, ledger, applied, tables, triggers>>

\* Also of a connection that was lost after the COMMIT was sent.
ExecuteCommit(s) ==
    /\ sessions[s].commit
    /\ ledger' = ledger \cup sessions[s].named
    /\ applied' = [m \in Migrations |-> IF m \in sessions[s].done THEN applied[m] + 1 ELSE applied[m]]
    /\ tables' = tables \cup sessions[s].done
    /\ SetSession(s, [sessions[s] EXCEPT !.done = {}, !.named = {}, !.commit = FALSE])
    /\ UNCHANGED <<rep, lock, queue, triggers>>

\* PostgreSQL notices the lost connection: its transaction and its lock are gone.
BackendExits(s) ==
    /\ sessions[s].lost /\ (lock = s \/ s \in Range(queue) \/ sessions[s] # Gone)
    /\ SetSession(s, Gone)
    /\ lock' = IF lock = s THEN 0 ELSE lock
    /\ queue' \in IF s \in Range(queue) THEN {RemoveAt(queue, i) : i \in {j \in DOMAIN queue : queue[j] = s}}
                 ELSE {queue}
    /\ UNCHANGED <<rep, ledger, applied, tables, triggers>>

LoseConnection(r) ==
    /\ "lose" \in Kinds /\ rep[r].pc \in LockPcs /\ Connected(r)
    /\ sessions' = Closed({rep[r].ses})
    /\ UNCHANGED <<rep, lock, queue, ledger, applied, tables, triggers>>

Crash(r) ==
    /\ "crash" \in Kinds /\ ~(At(r, "down") /\ rep[r].ops = <<>>)
    /\ sessions' = Closed(rep[r].pooled \cup {rep[r].ses})
    /\ Assign(r, NewProcess)
    /\ UNCHANGED <<lock, queue, ledger, applied, tables, triggers>>

Migrate(r) ==
    \/ RequestLock(r) \/ LockAcquired(r) \/ LoadApplied(r) \/ Up(r) \/ Record(r) \/ NextStage(r)
    \/ SendCommit(r) \/ Committed(r) \/ Rollback(r) \/ Unlock(r) \/ Aborted(r)
Start(r) ==
    \/ CreateAuth(r) \/ EnsureTables(r) \/ CreateTodos(r) \/ StartListener(r)
    \/ DiscoverTables(r) \/ CreateTrigger(r) \/ TriggersAttached(r) \/ PruneLogs(r) \/ Listen(r)
    \/ \E t \in rep[r].todo : CheckTrigger(r, t)
    \/ StartFailed(r)
Step(r) == StartServer(r) \/ StopServer(r) \/ Migrate(r) \/ Start(r)
Postgres == Grant \/ \E s \in DOMAIN sessions : ExecuteCommit(s) \/ BackendExits(s)

Next ==
    \/ \E r \in Replicas : Call(r, "start") \/ Call(r, "stop")
    \/ \E r \in Replicas : Step(r) \/ MigrationFails(r) \/ StartFails(r) \/ LoseConnection(r) \/ Crash(r)
    \/ Postgres

Spec == Init /\ [][Next]_vars
\* Every await of a start settles, and PostgreSQL serves, executes and notices
\* the end of its connections.
FairSpec ==
    /\ Spec
    /\ \A r \in Replicas : WF_vars(Step(r))
    /\ WF_vars(Postgres)

(***************************************************************************)
(* Properties.                                                             *)
(***************************************************************************)
Tables == Migrations \cup {"todos", "user"}
ProcessType == [pc : Pcs, ops : Seq({"start", "stop"}), called : {"none", "start", "stop"},
    stage : Stages, todo : SUBSET Tables, cur : Tables \cup {"none"}, ses : Nat, pooled : SUBSET Nat,
    listener : BOOLEAN, timer : BOOLEAN, timers : Nat]
SessionType == [lost : BOOLEAN, done : SUBSET Migrations, named : SUBSET Migrations, commit : BOOLEAN]

\* Every variable has its type.
TypeOK ==
    /\ rep \in [Replicas -> ProcessType]
    /\ sessions \in Seq(SessionType)
    /\ lock \in 0..Len(sessions) /\ queue \in Seq(1..Len(sessions))
    /\ ledger \subseteq Migrations /\ applied \in [Migrations -> Nat]
    /\ tables \subseteq Tables /\ triggers \subseteq Tables

\* "Serialize migration discovery, execution, and ledger writes across replicas":
\* whichever replicas start, fail, lose their connection or crash, no migration is
\* committed twice, and the ledger names exactly the committed ones.
MigratedOnce == \A m \in Migrations : applied[m] = IF m \in ledger THEN 1 ELSE 0

\* All that migrating promises: the database goes from one version's migrations to
\* another's in one step, whichever replicas start, fail, lose their connection or
\* crash; each migration runs once, and the tables are those the ledger names.
Ledger == INSTANCE MigrationLedger WITH
    Versions <- Replicas, Needs <- [r \in Replicas |-> Mine(r)], schema <- tables \cap Migrations
UpgradesAreWhole == Ledger!LedgerSpec

\* A connection that went back to a pool holds no migration lock, waits for none
\* and has no transaction open.
PoolIsClean == \A r \in Replicas : \A s \in rep[r].pooled :
    lock # s /\ s \notin Range(queue) /\ sessions[s].done = {} /\ sessions[s].named = {}

\* A server listens only when every migration of its version is committed, its tables
\* exist, and all of them notify the listener it has started.
ServingIsReady == \A r \in Replicas : At(r, "serving") =>
    /\ Mine(r) \subseteq ledger
    /\ rep[r].listener /\ Mine(r) \cup {"todos", "user"} \subseteq triggers

\* "stops a server when stop is requested during in-flight start": once nothing is
\* in progress, the last call has decided, unless it failed.
LastCallDecides == \A r \in Replicas : Settled(r) /\ rep[r].ops = <<>> /\ rep[r].called = "stop" => At(r, "down")

\* Both: what a server that listens has, and that the last call decides whether it does.
ServesAsCalled == ServingIsReady /\ LastCallDecides

\* "cleans partial startup state": a server that is down has no timer left.
FailedStartCleans == \A r \in Replicas : At(r, "down") => rep[r].timers = 0

\* Every start comes to an end, whatever other replicas do with the lock.
StartEnds == \A r \in Replicas : ~Settled(r) ~> Settled(r)
=============================================================================
