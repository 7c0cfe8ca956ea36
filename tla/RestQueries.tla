------------------------------- MODULE RestQueries -------------------------------
(***************************************************************************)
(* apis/postgrest.ts over core/db-postgres.ts and core/db-memory.ts: the   *)
(* requests of /rest/v1 on one table.  On PostgreSQL each request is one   *)
(* READ COMMITTED transaction: a statement sees what is committed when it  *)
(* starts and the transaction's own writes, waits for the rows another     *)
(* transaction has written, and looks at such a row again before it writes *)
(* it.  In memory every statement takes effect at once, and an error       *)
(* undoes nothing.  A server that does not notify through the database     *)
(* announces changes itself: those of a POST or PATCH after the commit,    *)
(* before it answers.                                                      *)
(* The filter of every request is one condition a row meets while it is    *)
(* Old; inserts write Old rows, updates make them New.                     *)
(***************************************************************************)
EXTENDS Integers, Sequences, FiniteSets, SequencesExt

CONSTANTS
    Ids,       \* ids a row may have, ordered as the requests order them
    Requests,  \* concurrent requests, one each
    Shapes,    \* what a request may ask, see NoShape
    Faults,    \* SQLSTATEs a statement may fail with on its own
    Publishes  \* the server announces changes itself (enablePgNotify is off)

VARIABLES
    backend,  \* "postgres" or "memory"
    table,    \* committed row of each id
    rq,       \* the requests
    effects,  \* ids each request has changed in the table
    writes    \* changes of the table so far

restVars == <<backend, table, rq, effects, writes>>

Absent == "absent"
Old == "old"
New == "new"
Unwritten == "unwritten"

\* rows: the ids of a POST's body; resolution: of its duplicates; or: the filter came in or=;
\* from and limit: the page of a GET; contracts: overloads of the RPC's function; supply: the
\* function is one agents may write with.
NoShape ==
    [op |-> "get", rows |-> <<>>, resolution |-> "none", or |-> FALSE, singular |-> FALSE,
     count |-> FALSE, from |-> 0, limit |-> 2, contracts |-> 1, supply |-> FALSE, role |-> "user"]

ASSUME IdsFinite == IsFiniteSet(Ids)
ASSUME ShapesAssumption == \A shape \in Shapes :
    DOMAIN shape = DOMAIN NoShape /\ shape.rows \in Seq(Ids) /\ shape.from \in Nat /\ shape.limit \in Nat

ASSUME PublishesAssumption == Publishes \in BOOLEAN

\* own: the transaction's writes; targets: rows its statement has still to write; body: ids of
\* the rows to answer; at: writes when the page was read.
NoRequest ==
    [pc |-> "idle", shape |-> NoShape, own |-> [i \in Ids |-> Unwritten], targets |-> {},
     body |-> <<>>, total |-> 0, at |-> 0, status |-> 0]

RestInit ==
    /\ backend \in {"postgres", "memory"}
    /\ table \in [Ids -> {Absent, Old}] /\ writes = 0
    /\ rq = [r \in Requests |-> NoRequest]
    /\ effects = [r \in Requests |-> {}]

(* -------- statements -------- *)
View(r) == [i \in Ids |-> IF rq[r].own[i] = Unwritten THEN table[i] ELSE rq[r].own[i]]
Matching(r) == {i \in Ids : View(r)[i] = Old}
Blocked(r, i) == \E q \in Requests \ {r} : rq[q].own[i] # Unwritten
ReadOnly(shape) == shape.role = "agent" /\ ~shape.supply
Mutates(shape) == shape.op \in {"post", "patch", "delete", "rpc"}

\* sqlStateStatus: by code, by class, and the role for a denial.
SqlStateStatus(code, role) ==
    CASE code = "42501" -> IF role = "anon" THEN 401 ELSE 403
      [] code \in {"23503", "23505"} -> 409
      [] code = "25006" -> 405
      [] code \in {"42883", "42P01"} -> 404
      [] code = "40P01" -> 500
      [] OTHER -> 400

At(r, pc) == rq[r].pc = pc
Continue(r, call) == rq' = [rq EXCEPT ![r] = call]

\* An error answer; on PostgreSQL the transaction is rolled back with it.
Respond(r, status) ==
    Continue(r, [rq[r] EXCEPT !.pc = "answered", !.status = status, !.own = NoRequest.own, !.targets = {}])
Fails(r, code) == Respond(r, SqlStateStatus(code, rq[r].shape.role)) /\ UNCHANGED <<table, effects, writes>>

\* One row written by a statement, and what the request then is.
WriteRow(r, i, value, call) ==
    IF backend = "postgres"
    THEN /\ Continue(r, [call EXCEPT !.own[i] = value])
         /\ UNCHANGED <<table, effects, writes>>
    ELSE /\ Continue(r, call) /\ table' = [table EXCEPT ![i] = value]
         /\ effects' = [effects EXCEPT ![r] = @ \cup {i}] /\ writes' = writes + 1

(* -------- requests -------- *)
\* What an RPC is refused with before its function runs: memory has none, and the arguments may
\* fit no function of the name or several.
Refusal(shape) ==
    IF backend = "memory" THEN 501
    ELSE CASE shape.contracts > 1 -> 300 [] shape.contracts = 0 -> 404 [] OTHER -> 0

\* The request is parsed: its kind decides its first statement.
ChangeStatement(shape) == IF shape.op \in {"patch", "delete"} /\ shape.or THEN "ids" ELSE "match"
FirstStatement(shape) ==
    CASE shape.op = "get" -> "select" [] shape.op = "head" -> "count" [] shape.op = "post" -> IF shape.rows = <<>> THEN "result" ELSE "insert"
      [] shape.op \in {"patch", "delete"} /\ Publishes -> "previous" [] OTHER -> ChangeStatement(shape)

Begin(r, shape) ==
    /\ At(r, "idle") /\ UNCHANGED <<table, effects, writes>>
    /\ LET refused == CASE shape.op = "rpc" -> Refusal(shape)
                        [] shape.op = "post" /\ shape.resolution = "malformed" -> 400
                        [] OTHER -> 0
       IN  Continue(r, [rq[r] EXCEPT !.shape = shape, !.status = refused,
                                     !.pc = IF refused = 0 THEN FirstStatement(shape) ELSE "answered"])

\* GET: the page, then the total in a statement of its own when Prefer asks for it.
Ordered(ids) == {rows \in [1..Cardinality(ids) -> ids] : \A i, j \in DOMAIN rows : i < j => rows[i] < rows[j]}
Page(rows, shape) ==
    LET page == SubSeq(rows, shape.from + 1, Len(rows)) IN
    SubSeq(page, 1, IF Len(page) < shape.limit THEN Len(page) ELSE shape.limit)
SelectPage(r) ==
    /\ At(r, "select") /\ UNCHANGED <<table, effects, writes>>
    /\ \E rows \in Ordered(Matching(r)) :
        Continue(r, [rq[r] EXCEPT !.body = Page(rows, rq[r].shape), !.at = writes,
                                  !.pc = IF rq[r].shape.count THEN "count" ELSE "singular"])

CountRows(r) ==
    /\ At(r, "count") /\ UNCHANGED <<table, effects, writes>>
    /\ Continue(r, [rq[r] EXCEPT !.total = Cardinality(Matching(r)), !.pc = "singular"])

\* buildSingularResponse, for an answer that wrote nothing.
PageResponse(r) ==
    /\ At(r, "singular") /\ UNCHANGED <<table, effects, writes>>
    /\ Respond(r, IF rq[r].shape.op = "get" /\ rq[r].shape.singular /\ Len(rq[r].body) # 1 THEN 406 ELSE 200)

\* What a row's statement comes to: a conflict is skipped or merged as the resolution says, and
\* otherwise refused, but the memory database overwrites.
InsertOutcome(r, i) ==
    LET shape == rq[r].shape
        present == View(r)[i] # Absent
    IN  IF ReadOnly(shape) /\ backend = "postgres" THEN "25006"
        ELSE CASE present /\ shape.resolution = "ignore" -> "skips"
               [] present /\ shape.resolution = "none" /\ backend = "postgres" -> "23505"
               [] OTHER -> "writes"

\* POST: one statement per row of the body, and the next row once it is done.
InsertRow(r) ==
    /\ At(r, "insert")
    /\ LET shape == rq[r].shape
           i == Head(shape.rows)
           rest == [rq[r] EXCEPT !.shape.rows = Tail(@), !.pc = IF Len(shape.rows) = 1 THEN "result" ELSE "insert"]
           outcome == InsertOutcome(r, i)
       IN  \/ outcome = "25006" /\ Fails(r, "25006")
           \/ /\ outcome # "25006" /\ ~Blocked(r, i)
              /\ \/ outcome = "skips" /\ Continue(r, rest) /\ UNCHANGED <<table, effects, writes>>
                 \/ outcome = "23505" /\ Fails(r, "23505")
                 \/ outcome = "writes" /\ WriteRow(r, i, Old, [rest EXCEPT !.body = Append(@, i)])

\* PATCH and DELETE that will be announced read the rows as they are, and a DELETE asks for each
\* of them which readers may see it, on connections of their own.
SelectPrevious(r) ==
    /\ At(r, "previous") /\ UNCHANGED <<table, effects, writes>>
    /\ Continue(r, [rq[r] EXCEPT !.pc = ChangeStatement(rq[r].shape)])

\* PATCH and DELETE with or= select ids first; their statement is then WHERE id IN these ids,
\* whatever the rows have become.
SelectIds(r) ==
    /\ At(r, "ids") /\ UNCHANGED <<table, effects, writes>>
    /\ LET ids == Matching(r) IN
       Continue(r, [rq[r] EXCEPT !.targets = ids, !.pc = IF ids = {} THEN "result" ELSE "match"])

\* The statement starts: the rows it will visit are those its snapshot shows.
MatchRows(r) ==
    /\ At(r, "match")
    /\ IF ReadOnly(rq[r].shape) /\ backend = "postgres" THEN Fails(r, "25006")
       ELSE /\ Continue(r, [rq[r] EXCEPT !.pc = "write",
                                !.targets = IF rq[r].shape.or THEN {i \in @ : View(r)[i] # Absent} ELSE Matching(r)])
            /\ UNCHANGED <<table, effects, writes>>

\* It visits them one by one, waits for a row that is locked, and skips one that is gone or no
\* longer meets the condition.
StillMatches(r, i) == IF rq[r].shape.or THEN View(r)[i] # Absent ELSE View(r)[i] = Old
VisitRow(r) ==
    /\ At(r, "write")
    /\ \/ /\ rq[r].targets = {} /\ Continue(r, [rq[r] EXCEPT !.pc = "result"])
          /\ UNCHANGED <<table, effects, writes>>
       \/ \E i \in rq[r].targets :
            /\ ~Blocked(r, i)
            /\ LET left == [rq[r] EXCEPT !.targets = @ \ {i}] IN
               \/ /\ StillMatches(r, i)
                  /\ WriteRow(r, i, IF rq[r].shape.op = "delete" THEN Absent ELSE New, [left EXCEPT !.body = Append(@, i)])
               \/ ~StillMatches(r, i) /\ Continue(r, left) /\ UNCHANGED <<table, effects, writes>>

\* mutationResult: an answer for one object must have one row.  It throws inside the transaction.
TooMany(r) == rq[r].shape.singular /\ Len(rq[r].body) # 1
Committed(r) == {i \in Ids : rq[r].own[i] # Unwritten}
CommitOwn(r) ==
    /\ table' = View(r)
    /\ effects' = [effects EXCEPT ![r] = @ \cup Committed(r)]
    /\ writes' = IF Committed(r) = {} THEN writes ELSE writes + 1
Success(shape) == IF shape.op = "post" THEN 201 ELSE 200
Announced(shape) == Publishes /\ shape.op \in {"post", "patch"}
\* A mutant: the cardinality is checked when the response is built.
MutationResult_Late(r) ==
    /\ At(r, "result") /\ CommitOwn(r)
    /\ Respond(r, IF TooMany(r) THEN 406 ELSE Success(rq[r].shape))
\* The transaction commits; what a POST or PATCH has written is announced before it is answered.
MutationResult(r) ==
    /\ At(r, "result")
    /\ \/ TooMany(r) /\ Respond(r, 406) /\ UNCHANGED <<table, effects, writes>>
       \/ /\ ~TooMany(r) /\ CommitOwn(r)
          /\ IF Announced(rq[r].shape) /\ rq[r].body # <<>>
             THEN Continue(r, [rq[r] EXCEPT !.pc = "publish", !.own = NoRequest.own])
             ELSE Respond(r, Success(rq[r].shape))

\* publishPostgresChange, awaited for one row after the other: it asks the database, for each
\* subscriber, whether it may read the row, and where that fails nobody catches it.
Publish(r) ==
    /\ At(r, "publish") /\ UNCHANGED <<table, effects, writes>>
    /\ \/ Respond(r, Success(rq[r].shape))
       \/ backend = "postgres" /\ Respond(r, 500)

(* -------- the database's own errors -------- *)
InStatement(r) == rq[r].pc \notin {"idle", "answered", "singular", "publish"}
DatabaseFails(r) == backend = "postgres" /\ InStatement(r) /\ \E code \in Faults : Fails(r, code)

\* The connection is lost, and the transaction with it, unless the COMMIT had arrived.
ConnectionLost(r) ==
    /\ backend = "postgres" /\ InStatement(r) /\ Respond(r, 500)
    /\ \/ UNCHANGED <<table, effects, writes>>
       \/ At(r, "result") /\ ~TooMany(r) /\ CommitOwn(r)

\* The row a request waits for, and the request of a cycle of waiters PostgreSQL ends.
Wanted(r) ==
    CASE At(r, "write") -> rq[r].targets [] At(r, "insert") -> {Head(rq[r].shape.rows)} [] OTHER -> {}
Waits(r, q) == Wanted(r) # {} /\ \A i \in Wanted(r) : Blocked(r, i) /\ rq[q].own[i] # Unwritten
DeadlockFound(r) == \E q \in Requests \ {r} : Waits(r, q) /\ Waits(q, r) /\ Fails(r, "40P01")

RestNext ==
    /\ UNCHANGED backend
    /\ \E r \in Requests :
        \/ \E shape \in Shapes : Begin(r, shape)
        \/ SelectPage(r) \/ CountRows(r) \/ PageResponse(r)
        \/ InsertRow(r) \/ SelectPrevious(r) \/ SelectIds(r) \/ MatchRows(r) \/ VisitRow(r)
        \/ MutationResult(r) \/ Publish(r) \/ DatabaseFails(r) \/ ConnectionLost(r) \/ DeadlockFound(r)

RestSpec == RestInit /\ [][RestNext]_restVars

RestTypeOK ==
    /\ table \in [Ids -> {Absent, Old, New}] /\ writes \in 0..Cardinality(Ids) * Cardinality(Requests)
    /\ \A r \in Requests :
        /\ rq[r].pc \in {"idle", "select", "count", "singular", "insert", "previous", "ids", "match", "write",
                         "result", "publish", "answered"}
        /\ rq[r].status \in {0, 200, 201, 300, 400, 401, 403, 404, 405, 406, 409, 500, 501}
        /\ rq[r].targets \subseteq Ids /\ Range(rq[r].body) \subseteq Ids

\* A request takes effect as a whole or not at all on PostgreSQL, however many statements it had
\* executed when an error was met (withRequestDatabase, mutationResult): one that is refused has
\* changed nothing, and one that is answered 500 either nothing or, where its change could not
\* be announced or its COMMIT's answer was lost, all that it would have answered.
AllOrNothing ==
    backend = "postgres" =>
        \A r \in Requests : rq[r].pc = "answered" /\ rq[r].status >= 300 =>
            \/ effects[r] = {}
            \/ /\ rq[r].status = 500
               /\ effects[r] = Range(rq[r].body) /\ (rq[r].shape.op = "post" => rq[r].shape.rows = <<>>)
\* An error answer means that nothing was changed: false, a publication may fail after the commit.
ErrorsChangeNothing ==
    backend = "postgres" =>
        \A r \in Requests : rq[r].pc = "answered" /\ rq[r].status >= 300 => effects[r] = {}

\* A mutation that succeeds answers exactly the rows it has changed.
AnswerIsEffect == \A r \in Requests :
    rq[r].pc = "answered" /\ rq[r].status < 300 /\ Mutates(rq[r].shape) =>
        Range(rq[r].body) = effects[r]

\* The page of a GET lies within the total it is answered with, when nothing was written between
\* the two statements (contentRange).
PageWithinTotal == \A r \in Requests : LET call == rq[r] IN
    call.pc = "answered" /\ call.shape.op = "get" /\ call.shape.count /\ call.status = 200 /\ call.at = writes =>
        (call.body # <<>> => call.shape.from + Len(call.body) <= call.total)

\* What an agent asks through a tenant's grant writes nothing but by a supply function.
AgentsOnlySupply ==
    backend = "postgres" => \A r \in Requests : ReadOnly(rq[r].shape) => effects[r] = {}

(***************************************************************************)
(* The roles of requests that a start sees to, outside production, before  *)
(* it serves (core/postgres-role-bootstrap.ts, from PostgresDatabase's     *)
(* connect): one transaction of each replica that starts.  All connect as  *)
(* one role, which may create roles or not.  What a transaction made is    *)
(* seen by itself; a name that another one made is waited for.             *)
(***************************************************************************)
CONSTANTS Starters,     \* replicas that start
          RoleOrder     \* REQUEST_ROLES
ASSUME RoleOrderIsList == RoleOrder \in Seq(ToSet(RoleOrder))
ASSUME StartersAssumption == Starters # {}

VARIABLES cluster,      \* what each role is: missing, safe or unsafe
          settable,     \* roles that the connection's role was granted
          owned,        \* roles it created
          power,        \* what it may do: none, createrole or superuser
          starter       \* the transaction of each
roleVars == <<cluster, settable, owned, power, starter>>

AllRoles == ToSet(RoleOrder)
NotStarted == [pc |-> "new", saw |-> {}, made |-> {}, gave |-> {}]

RoleInit ==
    /\ cluster \in [AllRoles -> {"missing", "safe", "unsafe"}]
    /\ power \in {"none", "createrole", "superuser"}
    /\ owned = {} /\ settable \in {{}, {r \in AllRoles : cluster[r] # "missing"}}
    /\ starter = [s \in Starters |-> NotStarted]

\* A transaction that fails leaves nothing, and its replica does not start.
RoleFails(s) == starter' = [starter EXCEPT ![s] = [NotStarted EXCEPT !.pc = "failed"]]
RoleGoes(s, pc) == starter' = [starter EXCEPT ![s].pc = pc]

\* Roles that are there have the attributes that are asked for, or the start fails.
LoadRoles(s) ==
    LET existing == {r \in AllRoles : cluster[r] # "missing"} IN
    /\ starter[s].pc = "new" /\ UNCHANGED <<cluster, settable, owned, power>>
    /\ IF \E r \in existing : cluster[r] = "unsafe" THEN RoleFails(s)
       ELSE starter' = [starter EXCEPT ![s].pc = "create", ![s].saw = existing]

\* CREATE ROLE, in order, of those it did not see.
CreateRole(s) ==
    LET left == {i \in DOMAIN RoleOrder : RoleOrder[i] \notin starter[s].saw \cup starter[s].made}
        role == RoleOrder[CHOOSE i \in left : \A j \in left : i <= j] IN
    /\ starter[s].pc = "create" /\ UNCHANGED <<cluster, settable, owned, power>>
    /\ IF left = {} THEN RoleGoes(s, "grant")
       ELSE IF power = "none" THEN RoleFails(s)
       ELSE /\ \A t \in Starters \ {s} : role \notin starter[t].made
            /\ IF cluster[role] # "missing" THEN RoleFails(s)
               ELSE starter' = [starter EXCEPT ![s].made = @ \cup {role}]

\* GRANT of those it may not set yet, which takes the roles' creator or a superuser.
GrantRoles(s) ==
    LET lacking == IF power = "superuser" THEN {} ELSE AllRoles \ settable IN
    /\ starter[s].pc = "grant" /\ UNCHANGED <<cluster, settable, owned, power>>
    /\ IF lacking \subseteq owned \cup starter[s].made
       THEN starter' = [starter EXCEPT ![s].pc = "verify", ![s].gave = lacking]
       ELSE RoleFails(s)

\* SET ROLE to each, as requests will.
AssertCanSetRole(s) ==
    /\ starter[s].pc = "verify" /\ UNCHANGED <<cluster, settable, owned, power>>
    /\ IF power = "superuser" \/ AllRoles \subseteq settable \cup starter[s].gave THEN RoleGoes(s, "commit") ELSE RoleFails(s)

CommitRoles(s) ==
    /\ starter[s].pc = "commit" /\ UNCHANGED power
    /\ cluster' = [r \in AllRoles |-> IF r \in starter[s].made THEN "safe" ELSE cluster[r]]
    /\ settable' = settable \cup starter[s].gave /\ owned' = owned \cup starter[s].made
    /\ starter' = [starter EXCEPT ![s] = [NotStarted EXCEPT !.pc = "serving"]]

\* The connection breaks.
LoseConnection(s) ==
    /\ starter[s].pc \in {"create", "grant", "verify", "commit"} /\ UNCHANGED <<cluster, settable, owned, power>>
    /\ starter' = [starter EXCEPT ![s] = [NotStarted EXCEPT !.pc = "lost"]]
\* A replica that did not start is started again.
StartAgain(s) ==
    /\ starter[s].pc \in {"failed", "lost"} /\ UNCHANGED <<cluster, settable, owned, power>>
    /\ starter' = [starter EXCEPT ![s] = NotStarted]

RoleNext ==
    \E s \in Starters :
      LoadRoles(s) \/ CreateRole(s) \/ GrantRoles(s) \/ AssertCanSetRole(s) \/ CommitRoles(s) \/ LoseConnection(s) \/ StartAgain(s)

RoleSpec == RoleInit /\ [][RoleNext]_roleVars

RoleTypeOK ==
    /\ cluster \in [AllRoles -> {"missing", "safe", "unsafe"}] /\ settable \cup owned \subseteq AllRoles
    /\ \A s \in Starters : starter[s].made \cup starter[s].saw \cup starter[s].gave \subseteq AllRoles

(* -------- properties -------- *)
\* A replica that serves may set each role, and none of them has more rights than it should.
ServesIsolated ==
    \A s \in Starters : starter[s].pc = "serving" =>
        \A r \in AllRoles : cluster[r] = "safe" /\ (power = "superuser" \/ r \in settable)
\* Roles are there as they were or all of them: a start that failed leaves none of its own.
AllRolesOrNone == owned # {} => \A r \in AllRoles : cluster[r] # "missing"
\* Of replicas that start together on a cluster that can have the roles one gets through, however many
\* find the roles made by another: those fail, and find them when they are started again.
OneGetsThrough ==
    /\ power = "superuser" /\ \A r \in AllRoles : cluster[r] # "unsafe"
    /\ \A s \in Starters : starter[s].pc \in {"failed", "serving"}
    => \E s \in Starters : starter[s].pc = "serving"
\* Each that starts serves: false, as another may have made a role since it looked.
NoneFails == power = "superuser" /\ (\A r \in AllRoles : cluster[r] # "unsafe") => \A s \in Starters : starter[s].pc # "failed"
=================================================================================
