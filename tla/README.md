# Sinopebase: formal models and proofs

TLA+ models of Sinopebase (`src/`), a PostgREST-compatible backend with
authentication, storage, realtime and plugins on one PostgreSQL, checked with TLC
and, where it says so, proved with TLAPS. Paths below are relative to the
repository's implementation directory `src/` unless they start with `docs/`,
`tests/` or `migrations/`.

Contents: [inventory](#1-inventory), [plan](#2-plan),
[modules](#3-modules), [runs](#4-runs), [bounds](#5-bounds),
[fairness](#6-fairness), [proofs](#7-proofs),
[disagreements](#8-where-code-and-words-disagree),
[what is not modelled](#9-what-is-not-modelled).

## 1. Inventory

One process is a Bun server (`core/app.ts`). It owns a PostgreSQL pool
(`core/db-postgres.ts`) or an in-memory database, better-auth
(`tools/auth-better`), a realtime hub, optionally a LISTEN connection, storage on
disk or S3, and plugins. Replicas share PostgreSQL and the bucket, nothing else.
JavaScript code runs to its next `await` without interruption; everything hard
below comes from what happens at the awaits, in the database, or in another
replica.

| Component | State | Operations | Talks to | What is hard | What makes it correct |
|---|---|---|---|---|---|
| Refresh tokens and sessions (`tools/auth-better/refresh-tokens.ts`, `delete-user.ts`, grants of `apis/auth.ts`) | `refresh_tokens` (parent, family, consumed, compromised, expiry), `session`, `user.deletedAt` | issue, exchange (rotate, reuse, replay), legacy exchange, logout by scope, delete | PostgreSQL, one statement or transaction at a time, at READ COMMITTED | races of the same token, statements of two transactions, crashes between statements, lock cycles | a family never forks; a replay ends the session; a pair that is answered belongs together; every request answers |
| Account links (`apis/auth.ts`, `recovery-links.ts`, `email-change.ts`) | verification rows, `user.email`, sessions, mail sent | password change, recovery, verify, email change | better-auth, mailer | links racing the change that should void them, mail failing after the row is written | one live link; a link opens no session after the account changed |
| OAuth flows and identities (`apis/auth-oauth.ts`, `oauth-flows.ts`, `identity-linking-policy.ts`) | flows, tickets, codes, held links, `account` rows | authorize, callback, complete, redeem, link, unlink | providers, better-auth, the user's browser | two browsers, abandoned flows, concurrent unlinks | single use; a held identity signs in to nobody; nobody loses the last way in |
| Agent grants (`agent-grants.ts`) | consents, access and refresh tokens | consent, bind, exchange, renew, look up, revoke | better-auth's OAuth provider, the host database | concurrent consents, revoking during an exchange | every binding was chosen by its user; a revoked grant's tokens are refused |
| Fallback auth store (`apis/auth-store.ts`, `auth-jwt.ts`) | maps of users, tokens, families; a write-through nobody configures | sign in, refresh, replay, logout | nobody | signatures awaited between consuming and storing | one successor per token; a replay ends the family |
| Realtime hub (`apis/realtime.ts`) | clients, topics, presence, message chains | join, leave, heartbeat, broadcast, track, untrack, sweep, disconnect | sockets, an `authorize` callback, the feed | messages during an await, eviction, the cap, closed sockets | messages of a client in order; socket, hub and every client's picture agree; presence ends |
| Notification listener (`apis/realtime-pg-listener.ts`) | a connection, a retry, a heartbeat | start, stop, heartbeat, reconnect | the pool, PostgreSQL, the hub | four sources of "reconnect", silent losses, stop during start | one connection, one heartbeat; listens again after each loss |
| Row changes (`apis/postgrest.ts`, `core/app.ts`, `migrations/1780000000_…`) | rows, notifications, publications | insert, update, delete, publish, check who may read | the pool, the hub, the listener | two ways to a client, checks after the commit, connections held while waiting for others | once, after the commit, to those who may read |
| Startup, shutdown, migrations (`core/app.ts`, `core/migration-*.ts`) | lifecycle chain, pool, lock session, `_migrations`, timers | start, stop, migrate | an advisory lock, other replicas | crash or loss around COMMIT, replicas of two versions, stop during start | each migration once; who serves is ready; the last call decides |
| Storage (`apis/file.ts`, `apis/storage-*.ts`, `apis/signed-url.ts`, `tools/filesystem`) | object rows, bytes, upload tokens, temporary files | upload, move, remove, list, sign | the bucket | one of row and bytes failing; bodies in chunks; roles and policies | row and bytes agree; an upload token is used once; private objects reach their owners only |
| Databases (`core/db-*.ts`, `core/postgres-role-bootstrap.ts`) | pool, transactions, request roles, rows in memory | queries, request transactions, the roles' creation | everything | the pool's limit, nested transactions, replicas on a fresh cluster | one connection per request; nobody serves without the roles |
| PostgREST requests (`apis/postgrest.ts`, `sdk/database.ts`) | none of their own | page, count, insert, upsert, update, delete, call, embed | the pool | errors found after rows were written; punctuation in values; nested embeds | a request takes effect as a whole and answers its effect; it selects what the client wrote |
| Search (`tools/search`, `core/record_field_resolver*.ts`) | joins and multi-match queries of one filter | tokenize, parse, resolve, build, page | the database | precedence, quotes, hidden fields, relations that lead to several rows | a filter selects what it means and never compares what is hidden |
| Backups (`core/backup*.ts`, `core/app.ts`) | directories with manifests, a schedule | dump, copy, restore, schedule | `pg_dump`, `psql`, the bucket, cron | awaits while clients write, the schedule changes and the server stops | only complete backups are restored; one schedule |
| Cron (`tools/cron`) | jobs, one timer | add, remove, start, stop, tick | callers | late timers, restarts at a boundary | jobs run when due, once |
| Logging (`tools/logger/batch_handler.ts`, `plugins/log-retention`) | a queue, batches, a timer | write, flush, dispose, clean up | the database | writes that are awaited and fail | each entry once, in order |
| Rate and body limits, router (`apis/base.ts`, `apis/middlewares*.ts`, `apis/serve.ts`) | windows, the router's store | consume, clean, guard, CORS, redirect, log | every request | a store shared by requests at their awaits, window boundaries | two allowances per window at most; guards decide by the caller's own token |
| Drop functions (`plugins/drop-functions`) | files, workers | write, delete, call | workers | a file rewritten between its check and its run; modules that never end | what runs was authenticated as it asks |
| Subscriptions, hooks, stores (`tools/subscriptions`, `tools/hook`, `tools/store`) | clients, handlers, values and a lock | subscribe, broadcast, bind, trigger, get or set | callers | handlers that re-enter, bind and throw | every live subscriber once; handlers in order, once; one lock holder |
| Collections and records (`core/*collection*`, `core/*record*`, `core/field*.ts`, `forms`, `apis/record_*.ts`) | rows of `_collections`, a table for each, records in memory | CRUD with hooks, imports, table sync, forms, tokens, lookups, expands | the database | renames that swap, requests that read and write back, secrets, a mixture of the new and the old row | values stay, secrets stay inside, a row stays under its id |
| SDK (`sdk/*.ts`) | a session, a socket, channels and their callbacks | sign in and out, renew, subscribe, unsubscribe, query | the server | sockets replaced while connecting | old credentials stop |
| Tokenizer, picker, types; admin APIs; AI, metrics and analytics plugins; commands, mail, archives, UI | little of their own | one statement or call per request | | | |

## 2. Plan

The behaviours that would do most harm came first: sessions (`RefreshTokens`), the
hub, replicas, the listener and row changes, provider identities and account links,
agent grants, storage, their liveness; then the services (backups, logs, limits,
functions, SDK, models, stores, broker, cron), the way of a request (router, roles,
PostgREST, filters, embeds, storage access, uploads), and the collections with their
records. All of that is done. What is left:

1. An abstract specification beside `MigrationLedger` and `TokenRegister`: a *held link*
   with the three states absent, held, active for `IdentityLinks`.
2. The stored jobs of `apis/cron-crud.ts`, batches, storage without a metadata
   database.

Composition. Components that interact are composed in their module (the listener,
the writers and the hub's delivery in `RowChanges`; the cron, the dumps and the
restores in `Backups`; SDK, parser and both databases in `QueryPath`). Components that
share no variables are composed in one MC module that EXTENDS them with a variable
`focus` choosing which one a behaviour runs (`MCFeed`, `MCIdentity`, `MCGrants`,
`MCServices`, `MCLiveness`): one run then asks the same kind of question of several
components, and the properties of those are conjoined, each under its focus. `Services`
conjoins what is proved of the services; `MCServices` adds what is only checked.

## 3. Modules

### `RefreshTokens`: refresh tokens, replay, logout, deletion

*State.* `minted` is the sequence of all rows ever inserted into `refresh_tokens`
(the index is the id and the `created_at` order); `present`, `consumed`,
`compromised`, `expired`, `recent` are sets of ids, `recent` being the rows younger
than the reuse interval. A session is a member of `live` (its row exists), `lapsed`
(its `expiresAt` passed) and has an `access` version, the value of `session.token`.
`gone` is the set of users with `deletedAt`. `req[r]` holds the locals of the
handler in slot `r` and a `pc` naming its next statement.

*Actions.* One per statement of the handlers: `Find`, `Claim`, `Rotate`,
`CommitRotation`, `ReadActive`, `Reads`, `Judge` (the exchange and the reuse),
`LockFamily`, `RevokeFamily`, `EndSession` (the replay), the legacy and issue paths,
logout and deletion. A statement outside a transaction is one step. A transaction
takes row locks (`heldT`, `heldS`) and takes effect at its commit; a statement over
many rows fixes its rows at its start (its snapshot), locks them one at a time in
any order, and acts on those still present. A request may fail at any step
(`Fail`), and the deadlock detector aborts a member of a cycle (`DeadlockAbort`).
`rotate` returning null still commits `consumed`, as the code does.

*Properties.* `RotationIsLinear`: no token has two children and no family two
unconsumed tokens. `ReplayEndsSession`; `PairsFollow`: a pair that is answered belongs
together and what is consumed has a child; `EveryRequestAnswers`. `FamiliesAreRegisters`:
the module implements `TokenRegister`, the abstract specification of rotation, in which a
token starts a family or takes the place of the one token of its family that can still be
rotated, in one step, and a family without one stays without. The mapping reads
off the rows how many were inserted and which of each family are there and not consumed; a
request's other steps, the failing ones among them, change neither.

### `RealtimeHub`: topics, presence, message chains

*State.* A connection's `queue` is what is chained on its promise in `messageQueue`;
`gen` counts how often `removeClient` forgot the promise, so messages of two
generations are not ordered. Client entries live in a `heap`, because
`processMessage` keeps its reference across the `authorize` await while the map
`clients` may lose it. `subscribed` is the socket's own subscription. `told` and
`knows` are what a client would show: `presence_state` followed by diffs.

*Actions.* `Send` (a message arrives), one action per message kind up to its await
and one per answer of `authorize` (`JoinAccepted`, `JoinDenied`, `HeartbeatValid`,
`HeartbeatInvalid`), `Limited`, `Close`, the timers `Age` and `Sweep`. `NextEvent`
says microtasks run before the event loop takes the next event.

*Properties.* `Serialised`; `RoomsAgree` (`SubscriptionMatchesJoin`, `ViewAgrees`,
`LeaveClearsPresence`); `ClosedPresenceGoes`, `EveryMessageAnswered`; the cap on
presence entries is part of `HubTypeOK`. The main run leaves token expiry out
because eviction breaks `SubscriptionMatchesJoin` (section 8).
`ViewAgrees` exempts keys that the cap evicted, of which nobody is told.

### `Replicas`: starting, stopping, migrating

*State.* `rep[r]` is a process with the locals of its start and the queue of
lifecycle calls; `sessions` are lock connections as PostgreSQL sees them (`done`,
`named`: what the open transaction did; `commit`: a COMMIT is on its way); `lock` and
`queue` are the advisory lock; `ledger`, `applied`, `tables`, `triggers` are
committed. The replicas run with `MULTI_REPLICA`, where a failing listener or
trigger fails the start.

*Actions.* One per await of a start. `LoseConnection` may hit before or after COMMIT
is sent, `ExecuteCommit` may still execute it, `BackendExits` is PostgreSQL noticing.
`Crash` forgets the process.

*Properties.* `UpgradesAreWhole`: the module implements `MigrationLedger`, the abstract
specification of what migrating promises, whose one action takes the database from its
committed migrations to those of a version, all that it lacks and each once (so that
`MigratedOnce`, which is proved too, follows). `PoolIsClean`, `ServesAsCalled`
(`ServingIsReady`, `LastCallDecides`), `StartEnds`; `FailedStartCleans` is false
(section 8).

### `PgListener`: the LISTEN connection

*State.* The fields of the class, `calls` (the await each `start()` in progress is
at), `conns` (every connection checked out: still out, up, handlers attached, an
'end' event to come). *Actions.* One per await of `start()`, the retry timer, the
heartbeat and its two outcomes, a reported (`Lost`) and a silent loss, the 'end' of a
released connection, `StopListening`. *Properties.* `OneConnection`,
`KeepsListening`; `StopReleases` is false (section 8).

### `RowChanges`: from a commit to the clients

*State.* One row, named after its last writer; `log` of committed changes; where each
handler is (`at`); publications in progress, each with the clients its iterators have
passed (`seen`), the one it is `asking` for and what it has for each to be sent
(`hits`); `notes` on their way to the listener; what each client got. *Actions.*
`Mutate` (INSERT, UPDATE, and a DELETE with nothing to prepare), `Prepare`/`Delete` (a
DELETE publishes inside its transaction and holds the delivery back), `Abort`, `Hear`,
`Disconnect`, `Answer` (the answer of one client's check, a transaction on the pool,
after which the iterator goes on), `CheckFails` (a database error or
`connectionTimeoutMillis`), `Deliver`, joins and leaves. A handler without the listener
is "publishing" between its commit and its answer: it answers "done" when the change
went out and "failed" when a check failed. The trigger and PostgreSQL's NOTIFY are part
of `Mutate`/`Delete`: a payload of `PayloadLimit` (7900 bytes in the code) or more, the
row as it is and as it was, is not notified. A client that leaves the topic and joins it
again while it is asked for is met once more; one that is joined behind the iterator is
not. *Properties.* `ReadersHearOnce`, which is `DeliveredOnce` (and not before the
commit), `ReadersHear` and `AnswersFollow` (success is answered after the delivery, an
error after the commit only if the publication was given up), and `DeletesEnd`;
`DeletesAreHeard` is refuted, `NoSecondConnection` false (section 8).

### `IdentityLinks`: provider identities

*State.* `accounts` is every identity row ever inserted, `logins` every session (with the
row it came through and whether that was held then),
`flows` every flow with the browser it was bound to, what the provider answered and
how many rows and sessions there were when it started (`startedAt`); `holds`, `codes`
and `tickets` are verification rows; `cookie` and `jar` are a browser's flow cookie
and Better Auth session cookie. `slot[q]` holds a request's locals. `proven` and
`dropped` are history: rows whose code was redeemed with its verifier, users that
lost a link nobody proved.

*Actions.* `Authorize`, `AuthorizeLink`, `StartLink`; `Callback`, what Better Auth does
with the provider's answer under `decideIdentityLink`; the completion statement by
statement (`TakeFlow`, `FindLinked`, `HoldLink`, `WhoSignedIn`, `ListRows`, `HeldLinks`,
the drops, `RefuseHeld`, `CreateCode`); `Redeem`, `DropRow`, `ReleaseLink`,
`SessionGrant`; `Unlink` with the user's lock (`LockUser`, `JudgeRemoval`,
`RemoveMethod`); holds that expire and sessions that end at any time.

*Properties.* `UnprovenStaysOut` (`HeldUntilProven`, `HeldSignsInNobody`), `SingleUse`,
`KeepsAMethod`;
`LastMethodStays` is refuted.

### `AccountLinks`: recovery, email change, deletion

*State.* One account: its `address`, whether it is `confirmed`, its identities and
sessions; `links`, every token ever made with the addresses it was made from and
for; which of them have a reset row (`resets`), an address row (`bound`), a change
row (`pending`) and were mailed (`delivered`). `killed` remembers what a change or
deletion found unused.

*Actions.* A recovery is seven steps, as the handler, Better Auth and the mailer's
callback interleave (`Recover`, `ClaimInterval`, `LookUpUser`, `MakeToken`,
`BindRecoveryLink`, `SendResetPassword` or its failure, `SettleInterval`,
`RetireOlder`); a verification consumes the token, confirms and opens a session in
three (`ConsumeReset`, `ConfirmRecoveredUser`, `OpenSession`). What runs under the
user's row lock (`ApplyEmailChange`, `ChangePassword`, `StageAddressChange`,
`DeleteAccount`) is one step. Other accounts take addresses; a minute passes.

*Properties.* `LinksEnd` (`OneLinkEach`, `UndeliveredIsDropped`, `DeletedStaysOut`);
`LinksProve` (`OldLinksDie`, `ConfirmedIsProven`).

### `AgentGrants`: what a client may do for a user in a tenant

*State.* A binding is a user, a client and a tenant. `grants` are the consent rows
with their ids, `authCodes` the codes not yet exchanged, `tokens` and `renewals` the
bindings that have access and refresh token rows; `gjob[j]` is a request with its
handler's locals. `chosen` and `standing` are history: what users asked for and were
allowed, and what they consented to since it was last revoked.

*Actions.* Accepting is `Accept` (the session), `CanBindTenant`, `Consent` (Better
Auth's own look at the session and the client) and `WriteConsent`, which takes the
tenant from `agentGrantTenant` (`TenantInStore`). The token endpoint is external and
as weak as the code allows: it takes a code or finds a refresh token (`ExchangeCode`,
`Renew`) and inserts rows later (`IssueTokens`), whatever happened in between.
`Lookup` is the join of token, consent and client; `Touch` the update of
`lastUsedAt`. `RevokeAgentGrant` and `DeleteUser` are transactions.

*Properties.* `BindingsAreChosen`, `RevokedEndsAccess`. The second is why the lookup
joins with the consent: rows inserted after a revocation exist, and are refused.

### `FallbackAuth`: the in-memory store

*State.* `pairs` is every pair of tokens ever signed, its index standing for jti and
sid; `stored`, `used`, `families`, `revoked` are the maps of the store; `signing[h]`
is what a handler awaits. *Actions.* `SignIn`, `Rotate` (validate and consume, up to
the await), `AddRefreshToken` (after it), `Replay`, `Logout`, `Expires`, `Restart`.
*Properties.* `FamiliesAreChains` (`OneSuccessor`, `ReplayEndsFamily`); `LogoutEndsFamily` is false
(section 8).

### `Storage`: rows and bytes

*State.* One bucket (`bucket` its row, `dir` its directory) with a few names. A content
is the number of its upload; `row[n]` is the content that the committed row describes,
`bytes[n]` the content in the store. `locked` are the names an open transaction wrote:
the unique index makes a second writer wait. `req[r]` is a request with its place and
locals, `token` and `consumed` the signed upload tokens and the rows of their uses.
`torn` and `spent` are history.

*Actions.* A write is `Insert`, `Persist` (the store's call inside the transaction) and
`Commit`; a removal `DeleteRow`, `Unlink`, `CommitDelete`. A copy or move looks for its
destination (`CopyBegins`), downloads, writes, and a move then removes, each in a
transaction of its own. A signed upload verifies (`Receive`), spends its use (`Spend`),
reads its body and writes. Deleting the bucket counts (`DeleteBucket`), removes the
directory, and deletes the row with all that refers to it (`DropBucket`). The store's
`delete` catches whatever `unlink` throws, so that `Unlink` may leave the bytes and the
deletion commits all the same. `LoseTransaction` is a transaction that PostgreSQL or the
connection ends just before the store is called: the locks are gone, and the handler
calls the store nevertheless and fails at its next statement. `Fail` may end a request
at any place: what the store did stays. A store call cut short is a store call followed
by a failure. That roles may be refused by row-level security only ends requests
earlier, which `Fail` covers. `torn` names what these part: bytes written or removed
without a transaction that commits, bytes left, rows that went with their bucket; the
next write or removal of the name with its transaction brings both together.

*Properties.* `RowsMatchBytes`, `OnlyUpsertsOverwrite`, `SpentOnce`; `BucketGoesEmpty` is
refuted, `MoveTakesItsCopy` false (section 8).

### `Backups`: dumps, manifests, schedules, restores

*State.* `backups` is every directory begun: where its backup is (`pg_dump`, the
statements of the SQL fallback, the files, the manifest), what it holds, what its
manifest says. `data` is two tables, `files` one object. `schedule` is `backupCron`;
`crons`, `starting` and `ticking` are the Cron objects made, those whose start timer is
pending and those whose interval runs. *Actions.* One per await of `createBackup` and
`restoreBackup`, `ScheduleBackup`, `CancelScheduledBackup`, the timers (`Boundary`,
`Tick`), `StopServer`, `StartServer`, failures. *Properties.* `BackupsHold`
(`RestoresAreComplete`, `OneSchedule`); `ManifestTellsTruth` is false.

### `Toolbox`: cron, stores, subscriptions

*Cron.* `cronNow` in instants, the jobs, the timer pending, the interval; `ran` is the
ticks that ran jobs, in their order, `punctual` says that no timer was late. *Actions.* `AddJob` (an expression is
parsed into slots: lists, ranges, steps, macros), `RemoveJob`, `SetCronInterval`,
`StartCron`, `StopCron`, `RunDueJobs`, time. *Properties.* `RunsWhenDue`,
`OncePerMinute`, `NoMinuteMissed`. *Stores* are `getOrSet` under the store's lock,
between other sets, removals and resets. *Property.* `LockHeld`. *Subscriptions* have the
broker's store in the order of its keys, every client ever made, and the stack of
broadcasts whose handlers register, unregister, displace, subscribe and broadcast again.
*Properties.* `BroadcastsReach`, `DiscardedHearNothing`, `StoreHoldsLive`;
`OnlyRegisteredHear` is false.

### `LogBatches`: batches

`LogBatches` has the handler's queue, its `flushing` flag, the batches being written,
the rows and what the retention deleted. `Flush` is what size, interval, `WriteAll` and
`Dispose` call. *Property.* `RowsInOrder`; `DisposeFlushes` is false.

### `EdgeFunctions`: calling a function that is rewritten

*State.* Every version ever written, the one in the directory, each call with the
version it checked and the one its worker loaded, and whether an import hangs in the
server itself. *Actions.* `WriteSource`, `DeleteFile`, `Invoke`, `Import`,
`Authenticate`, the worker's `Load`, `Return`, `Posted`, `Timeout`, `Answer`.
*Properties.* `RunsAsChecked`, `WorkersEnd`; `CallsEnd` is false.

### `SdkClient`: the client library's session and sockets

*State.* The current session and what each call of the auth client waits for; every
socket made, with the token of its URL and of its joins; the heartbeat; per channel the
socket its `subscribe` awaits, whether it was told SUBSCRIBED, and whose callbacks its
list and the dispatcher's hold (lists are shared by reference: `shares`). *Actions.*
`Ask` and one action per answer, `SetAuth` inside each of them, `Connect`, `Disconnect`,
`Opens`, `Closes`, `Subscribe`, `Unsubscribe`, `TimesOut`. *Properties.*
`OldCredentialsStop`; `SubscribedHears`, `InSync`, `OwnCallbacks` are false.

### `Models`: hooks and saves

The handlers of each hook in their order, a model, its table, and each call of save or
delete with the stack of the triggers it is in: a handler may call next, call it twice,
stop the chain or throw. *Properties.* `ChainsSorted`, `RunOnce`, `SavesTakeEffect`.

### `RestQueries`, `QueryPath`, `Embeds`: requests of /rest/v1

`RestQueries` is whole requests on either database: the page and its count, the rows an
INSERT, UPDATE, DELETE or call touches one at a time under their locks, the result
that is checked before the commit, and what is answered. With `Publishes`, a server without
notifications of the database, PATCH and DELETE first read what they change (`SelectPrevious`),
and POST and PATCH announce it after the commit and before they answer (`Publish`), where an
error is the request's. `ConnectionLost` ends a transaction, or only its answer when the COMMIT
had arrived. *Properties.* `AllOrNothing` (no part of a request takes effect; an error other
than a 500 means that nothing did, a 500 that nothing or everything did), `AnswerIsEffect`,
`PageWithinTotal`, `AgentsOnlySupply`; `ErrorsChangeNothing` is false. `QueryPath` follows a
filter from the SDK's builder through its text and the parser to the rows that PostgreSQL and
the memory database select, or to the refusal of an operator there is no expression
for (`RefuseFilter`). Columns are of type text, where both compare texts for equality. Their
orders are two: `SqlLess` by `Collation`, `JsLess` by the numbers that `NumberOf` gives two
numeric texts, else by `Locale`; the three are constants, as both orders are external.
*Properties.* `SelectsAsMeant` (by PostgreSQL's order), `MemoryFollows` (the databases differ
only at nulls and where the two orders do). `Embeds`
prints and parses nested `select` parameters and embeds rows read in batches while
others commit, against a join over the rows as they were read. *Properties.*
`SelectsRoundTrip`, `EmbedsAsJoined`. At the end of `RestQueries` is the transaction in which
replicas create the request roles. *Properties.* `ServesIsolated`, `AllRolesOrNone`,
`OneGetsThrough`; `NoneFails` is false.

### `SearchFilters`, `FieldPaths`: filters of rules and lists

`SearchFilters` writes a tree of comparisons as text, cuts, parses and builds it, and
compares what it selects with the tree's meaning; then sorts and pages. `FieldPaths`
walks a path property by property through relations, back relations, the request and
modifiers, registering joins and multi-match joins, and compares what they select with
where the relations lead. *Properties.* `SelectsMeaning`, `PagesAddUp`;
`HiddenStayHidden`, `PathsLeadRight`, `RequestHangsTogether`.

### `TableSync`, `Collections`: collections, field types and tables

`TableSync` has the columns of a table with the field whose values each holds, and the
statements left of a synchronisation: a validated draft replaces a collection by adding,
renaming over temporary names, and dropping. A column's name is a tuple, of the field's
name or, while it is temporary, of that and a mark for the random letters, so that the two
kinds differ. `Collections` has the rows with their auth
options, requests between their read and their write, and imports; and the field
types as operators: sound settings, kept value, validity, schema. *Properties.*
`ValuesStay`, `ValidMeansPossible`, `ListsAreStable`; `OptionsSurvive`,
`NoClientSecrets`; `KeptAsItself`, `SchemaFits`, `FieldCanBeGiven`.

### `Records`, `RecordQueries`: records

`Records` has three parts: a record in memory (values over the values it was read with,
what is hidden by hand, copies, exports, saves); the form, who may change what of an
account; and the endpoints, which read a row, change it in memory and write it back, and
the tokens they sign. `RecordQueries` is lookups of several reads (by id, by name, by a
token's claims) while collections are renamed and dropped, unique names, expand paths
and written filters. *Properties.* `ExportHidesSecrets`, `SaveWritesAll`;
`FormProtects`, `NewHasPassword`; `RowsStayTheirs`, `PagesCover`, `TokensAreApart`;
`LookupsLeadRight`, `TokensLeadToAccounts`, `UniqueMeansFree`, `PathsCovered`,
`FiltersAsWritten`.

### `Pipeline`: the router

*State.* The one store that the router's requests share, each visitor's place, the log.
*Actions.* `Cors`, `LoadAuthToken` and its answer, `BodyLimit` chunk by chunk, the
guard, the handler, the logger. Redirects and certificates are operators. At its end are
the limiters: the `RateClient` of `apis/middlewares_rate_limit.ts` and the entry of
`plugins/drop-functions/middleware.ts` for one caller, each with its cleaner, and what
passed when.
*Properties.* `GuardsDecideAlone`, `BodiesWithinLimit`, `LoggedOnce`,
`RedirectsSettle`, `WindowBound`; `SeesOwnAccount` and `SuccessIsLogged` are false.

### `StorageRoutes`: who may do what, and bodies

`StorageRoutes` is who may do what: one action per route, in one step, with the row
policies; and how a body is read in chunks into memory or a temporary file, its form cut
into parts, and byte ranges answered. *Properties.* `PrivateStaysPrivate`, `OthersStay`,
`AgentsOnlyRead`, `UploadLinksAdd`; `BodiesArrive` (what was read is what was sent) and
`FormsAsSent` (its parts are those of the form), `RefusedWhenLong`, `TempsGo`,
`PartsMakeWhole`. `LinksReadWhatWasSigned` and `AccountsObjectsStay` are false.

### `FallbackUsers`: accounts of the in-memory store

*State.* Users as objects that two maps lead to; what each call awaits; access tokens.
*Actions.* `SignUp`, `SignInWith` and `StartPatch` up to the hash they await, `MakeUser`,
`EndSignIn`, `ProvePatch`, `FinishPatch` after it, a restart that forgets the users.
*Properties.* `OneAddressEach`, `PasswordsProven`; `ShownAddressLeads` and
`ReplacesWhatItProved` are false.

### `Services`: what is promised together

`Services` has no actions. It EXTENDS the services and conjoins their properties, each
where `focus` chooses its service: `HooksAndStores` (hooks, the store, the broker, cron),
`RequestsHold` (limits, router, requests, storage access, uploads, functions, roles,
queries, paths) and `DataHold` (collections, tables, records, forms, lookups, the fallback
store's accounts). What the prover does not reach is `MeaningsHold`, in `MCServices`.

## 4. Runs

| Run | Instance | Asks | Result |
|---|---|---|---|
| `refresh_requests` | two request slots, one session, three tokens, every request kind and fault | do issue, exchange, legacy exchange, reuse, replay, logout, deletion, expiry and failures keep the family linear, end replayed sessions, keep pairs together; implements `TokenRegister` | holds |
| `refresh_mixed_pair` | the same | "returns the session's current pair" | refuted |
| `replicas` | two replicas of two versions, three migrations, all faults, two lock sessions | implements `MigrationLedger`; clean pool, readiness, last call | holds |
| `feed` | two connections of the hub (one with two keys and a cap of one, one with one key), two messages each; three connections of the listener; two handlers (one's row is larger, so that an update of it is not notified), a direct writer, a reader and a client of the service role, a pool of two | order, sockets against hub, every client's picture, the cap; one connection and heartbeat; delivery once, after the commit, to readers; a handler's success only after its publication | holds |
| `feed_deletes` | listener and changes of the same | DELETE notifications reach readers | refuted in notify mode |
| `identity` | two flows, one browser, two requests; two recovery or change links, two requests, two addresses | unproven links sign nobody in, single use, everybody keeps a method; one link each, links die with what voids them, an address is confirmed by its own mail | holds |
| `identity_last_method` | the same | "removing the last way to log in is refused" | refuted by a held link that is dropped |
| `grants` | two users, one client, two tenants, two requests, two grants, two codes; two handlers of the store and four pairs | bindings are chosen, revocation ends access; one successor, a replay ends the family | holds |
| `storage` | two requests, two names, two signed tokens, two contents; files that cannot be unlinked, transactions lost before the store is called | rows match bytes, nothing but an upsert overwrites, a token is spent once | holds |
| `storage_bucket` | two requests, one name | "only empty buckets can be removed" | refuted by an upload that commits between the count and the deletion |
| `services` | one service at a time, see section 5 | what section 3 promises of `Backups` (`BackupsHold`), `LogBatches` (`RowsInOrder`), `SdkClient` (`OldCredentialsStop`); of `Models` and `Toolbox` (`HooksAndStores`); of `Pipeline`, `RestQueries`, `StorageRoutes`, `EdgeFunctions`, and of what both databases select and paths may look at (`RequestsHold`); of `Collections`, `TableSync`, `Records`, `RecordQueries`, `FallbackUsers` (`DataHold`); and the meaning of filters, paths, embeds, forms, fields, lists of fields and pages (`MeaningsHold`) | holds |
| `liveness` | one small instance of the components of the first runs and of the functions | answers, sweeps, starts, reconnections, deletions and workers end | holds |

## 5. Bounds

Each bound is a constant that a guard names. `MaxToken = 3`: a root, its child and a
racing third; a fork needs two children of one token, a replay a consumed and an
active one. Two request slots are what every race here needs: one statement of the
other request between two of one's own; three slots were checked during
development for the invariants of the exchange and found nothing else.
`MaxSent = 2` per connection: a message awaiting `authorize` and one behind it, on
either side of an eviction or a close. `MaxEntries = 1` makes the second key hit
the cap. `MaxSessions = 2` lock sessions: a holder and a waiter, or a lost holder and
its successor; `MaxOps = 1`: a call during a call. `MaxConns = 3`: a connection, its
replacement, and the replacement of that; `MaxFails = 2`. Three writers give the
orders insert–update–delete; a pool of two lets two DELETEs exhaust it.
`MaxLeft = 1`. `MaxFlows = 2` and two slots give two tabs linking, a sign-in beside a
link, a completion reloaded; `Acting = {1}` lets the registered user's session
unlink and end, which with a password and two links is where methods run out.
`MaxLinks = 2` with two jobs overlaps two recoveries, or one with an email change;
three links (7.4 million states) were checked during development and hold as well.
`MaxGrants = MaxCodes = 2` with two requests: a grant, its revocation and a second consent,
or two consents at once. `MaxPairs = 4`: a pair, two rotations and a racing one. `MaxContents = 2`: what was
there and what replaces it; two tokens, as one's use purges the other's record (three
contents, 6.6 million states, were checked during development and hold as well).
Slots, jobs and handlers are symmetric. `Kinds` bounds which requests and faults an instance has.

`services` bounds each of its components as follows. One restorer, two backups, two
Cron objects, one write while a dump is between its two tables. Five log entries in batches of
two: two full batches and one by the timer. Windows of three seconds in seven: two
windows and what follows them. Two calls of a function and two versions: one is replaced
during the other's call. Two channels of one topic, one auth call and two sockets: the one
that is replaced and its successor. Two saves and two bindings of hooks, with handlers
that share an id and differ in priority. Three getters of one lock: a holder, a waiter and
one that comes later. Three clients of two ids, two broadcasts: one inside the other. Two
requests of /rest/v1 over two rows, each of seventeen shapes, on a server that announces
changes itself (a server that does not skips two steps); calls of the SDK's builder with
two filters over every row of two columns whose texts contain the parsers' punctuation and a
number, in orders that part at 9 and 10 and at a quote and a comma; nested
selects over three tables. Filters of three comparisons, paths of two
relations. Some twenty drafts of a collection in sequences of three synchronisations: the swap of
two names needs two, a failed one and its repetition three. Two patchers and three saves of
collections; three edits of a record, four steps of a form, four calls of the record API
by two requests; every setting with every value of each field type. Jobs in seven
instants, two a minute. Two visitors of the router; two accounts, an agent, a guest and the
service at one bucket; bodies of up to two parts in pieces; two replicas with three roles.
Two collections of three names, two of them alike but for a capital and one an
underscore; two people with two addresses and two passwords.

Deadlock is not checked (`CHECK_DEADLOCK FALSE`) where clients may have nothing left
to ask: the bounds are used up, all sessions ended, all sockets closed. That nothing
hangs before that is what the liveness run checks.

## 6. Fairness

The event loop runs what can run and callbacks answer: weak fairness of each
component's own steps (`Serve`, `Step`, `ListenerStep`, `FeedStep`, and a worker's `CallSteps`). PostgreSQL queues
the waiters of a row lock and grants a waiter whose turn comes again and again:
strong fairness of `Serve(r)` per request slot in `RefreshTokens`, as a
request may be enabled and blocked alternately. Time passes and interval timers fire:
weak fairness of `Ages` and `Sweep`. PostgreSQL executes, grants and notices lost
connections: weak fairness of `Postgres`. Clients, operators and faults owe nothing.

## 7. Proofs

Every theorem holds for all values of the constants (any number of sessions, requests,
replicas, connections, clients, jobs, and of what is bounded only so that TLC ends), from
the `ASSUME`s of the modules. Each is proved from an inductive invariant, which TLC
checked on a run before; one lemma per action, over lemmas for what handlers do alike
(a step of one job, a change of one row) and for the modules' operators.

| Module | Theorems | Along which argument |
|---|---|---|
| `RefreshTokensProofs` | `TypeCorrect`, `RotationLinear` | `ClaimInv`: row locks exclude each other, a request past its claim holds the lock of an unconsumed token, whatever has a child is consumed. `RotationIsLinear` alone is not inductive: a second request may be about to insert |
| | `FamiliesStayRegistered` | the refinement of `TokenRegister`, step by step: a family bears the number of its first row (`RootsStartFamilies`), a claimed row is still there when its successor is inserted (`ClaimInv`), what is removed or consumed is not in force again; every other step stutters |
| | `PairsBelongTogether`, `ReplaysEndSessions` | `PairInv`: a child has its parent's session (`Lineage`), a consumed token a child, and each request what it may claim at its place (`Fits`): an access token no newer than the session's, a replay only of a session that is over |
| `ReplicasProofs` | `TypeCorrect`, `MigratesOnce`, `PoolStaysClean` | only the holder of the advisory lock has a transaction (`TxInv`), from the time its replica learns of the lock until it unlocks (`ProcInv`); replicas have sessions of their own (`OwnSession`). A local step and a statement in the session carry most actions |
| | `ServersServeAsCalled` | `StartInv`: what a start has in ledger, tables and triggers at each of its places (`ReadyInv`, `LedgerOf`), and that a last `stop` is done or still last in the queue (`CallInv`) |
| | `UpgradesRunWhole` | the refinement of `MigrationLedger`, step by step: a commit adds exactly what one version lacks (`PlanInv`), every other step stutters |
| `FeedProofs` | `ListenerHoldsOne` | `ListenerInv`: one start at a time, in progress or in a timer (`OneStart`), during which nothing else calls `reconnect()` (`AtStart`) |
| | `ChangesReachReadersOnce` | `FeedInv`: a change is in one place of its way (`Committed` to `SentOnce`), and the publication that carries it has admitted every reader asked so far (`Heard`) |
| | `PromisesRunInTurn`, `MessagesAreSerialised` | `HubInv`: messages on one promise run in turn; those of a connection are on one promise (`OnePromise`) if no heartbeat presents an expired token |
| | `HubTypes`, `ViewsAgree`, `HubAgrees` | `RoomInv`: a topic's presence has one entry of a key and at most the cap of a connection (`Fits`), with that connection's keys (`KeysOwned`), and messages refer to entries there are (`References`); beside it `ViewAgrees` is inductive, then that an open connection's messages have its entry (`Held`) and that sockets and presence say of it what its entry says (`Recalled`) |
| | `FeedTypes` | each of the three components behaves in `MCFeed` as it does alone (`EachIsItself`) |
| `IdentityProofs` | `LinksEndWell`, `LinksProveAddresses` | `AccountInv`: a token is used up, void or of use, never two of these (`Spent`); one remains unless a request is about to retire the others (`OneEach`); one not mailed has a request that will mail or drop it (`Delivering`) |
| | `ArtefactsAreSpent`, `EverybodyKeepsAMethod`, `UnprovenLinksStayOut` | `IdentityInv`: one slot or code has a flow (`FlowsOnce`, `CodesOnce`), one slot unlinks for a user (`OneUnlinks`), what a slot read before its awaits still bounds what is there (`Relates`), rows with a code are held, proven or gone (`Guarded`) |
| | `EverythingIsTyped` | both invariants, in the specification of `MCIdentity` |
| `GrantsProofs` | `GrantsBindWhatWasChosen`, `RevokingEndsAccess` | `GrantInv`: what a job may carry between its awaits (`JobsCarry`), a grant stands as long as its row is there (`GrantsStand`) |
| | `FallbackFamiliesAreChains` | `FallbackInv`: the pair being signed is nobody else's and not answered yet (`Signing`), a parent is consumed or gone (`ParentsSpent`), also after a restart (`Replayed`) |
| | `GrantTypes` | both, in the specification of `MCGrants` |
| `StorageProofs` | `StorageTypes`, `RowsDescribeBytes`, `TokensAreSpentOnce`, `OnlyUpsertsReplace` | `StorageInv`: a request that calls the store holds the lock of its name alone (`Exclusive`), and what it may rely on and has done at each place unless a writer without its transaction tore the name (`RequestOK`, `Holds`); a use is recorded as long as a request may still present the token (`TokensSpent`) |
| `ServicesProofs` | `LogRowsInOrder` | `LogInv`: one flush at a time (`OneFlush`); rows, batch and queue are in order and together all that was logged (`InLine`) |
| | `FunctionsRunAsChecked` | `FunctionInv`: what a call has seen and may have been let past at each place (`Checked`) |
| | `BackupsAreComplete` | `BackupInv`: what a backup holds at each step (`Sound`), and that a done one stays as it is while it is restored (`SoundRestores`) |
| | `OldCredentialsStopAtOnce` | `SdkInv`: only the current socket has joined, with the token of now; one that still connects has joined nothing and may be replaced (`Rows`) |
| | `TwoWindowsAtMost` | `LimitInv`: the window in force holds what passed since its start (`Within`), and any span as long as a window at most two allowances (`Spans`); over sums of what passed (`PassedBeforeSums`). `WindowBound` alone says nothing of the window in force |
| | `RequestsGoTheirWay` | `PipelineInv`: what a request carries at each place (`Carries`), that the log has one entry of each number that has been logged (`Numbered`), and that a redirect leads to a host that is served. What the requests share, the router's store, is in none of it: no guard reads it |
| | `RequestsAllOrNothing` | `RestInv`: the rows a request has gathered for its answer are those its transaction has written, or in memory those it has changed (`Gathered`), and while they are announced those are the request's effect; one that is read only has none and is never at a write (`Harmless`); `PageInv`: a page that nobody has written since lies within what it counted (`PageOK`) |
| | `RolesAreAllOrNone` | `RoleInv`: what a transaction saw stays as it saw it, nobody else has what it made, and past its CREATEs it saw or made every role (`Known`); a role that is there and that it did not see is of one that serves (`Met`) |
| | `ObjectsStayTheirs` | `AccessInv`: what a request reads and changes is decided in its own step; a link to upload was signed by one who may write (`LinksOfWriters`) |
| | `UploadsArriveWhole` | `UploadInv`: what was read, in memory or in the temporary file, is what was sent, up to where the reader is (`Kept`), whatever the chunks |
| | `MemoryFollowsPostgres` | filter by filter: where the two orders agree on a value, what SQL finds true JavaScript does, and of a value that is not null both find the same (`FiltersAgree`); a row that only one selects, by a conjunction of such and a disjunction of these, fails one of them in the other |
| | `PathsStayClear` | `PathInv`: each path keeps the properties it went through, none of a hidden field (`SeenThrough`), and each value read of the request is what its keys lead to (`StandsFor`). That a longer path is not there without the shorter is an induction over keys (`AlongKeys`, `SameWay`, `NothingWithin`) |
| | `RequestsAreServed` | the conjunction of the theorems about the parts of `RequestsHold` |
| `CoreProofs` | `HooksRunOnce` | `ModelInv`: hooks are sorted with one handler of an id, and so is what is left of a chain (`ChainOK`); a call's stack and its history have each function once (`RunningOK`, `RanOK`), it triggers hooks once and in turn (`InTurn`), and while nothing stopped it a chain hangs inside the function on top (`GoesInside`) and what follows a success has its database call before it (`Unstopped`) |
| | `JobsRunOnTime` | `CronInv`: the tick to come is in a minute of its own or at a boundary that a run may have been at (`CronTimed`), so that the ticks that ran jobs are of ascending minutes unless one was started again at its boundary (`TicksInTurn`); an expression's slots are those its fields name (`SlotsAre`, `DueIs`) |
| | `LockHeldAlways` | `StoreInv`: the lock is locked exactly while one getter has it, the queue is the getters that wait, and whoever is in a call has a key |
| | `BroadcastsReachAll` | `SubscriptionInv`: who is due has been sent to or is still to be visited and wanted (`Reaches`, `Coming`), and nobody sent to is still to be visited under the same name. One lemma says what a call of the broker may change for the broadcasts under way (`CastStays`), one that a step goes on (`GoesOn`) |
| | `RecordsShowNoSecrets` | `RecordInv`: what a record reads is what it was loaded with, or what was set since; until the first save that is the row (`ReadFrom`) |
| | `FormsProtect` | `FormInv`: hidden fields change only once a superuser's body came (`OnlyRaised`), the password is the stored one or one in clear, and what is saved was without errors |
| | `RowsAndTokensAreApart` | `UserInv`: what a request has read is the row of the id it asked for, and a token's key ends in the secret of its type; of two equal keys one's secret is the end of the other's (`EndsOfOne`) |
| | `SecretsStay` | `CollectionInv`: what is stored, or carried between a read and its write, has all settings of its providers and none of their secrets (`StoredOptions`, `HoldsOptions`), and a body without options leaves the token secret it read (`SameSecrets`) |
| | `LookupsAnswer` | `FindInv`: a lookup in progress has noted each collection that was there at some time since, and those that were all the time (`Watching`) |
| | `AddressesAreOnes` | `AccountsInv`: what a call awaits is about a user that was there and a hash the user has or has had (`OfSomebody`), which no other call takes away |
| | `ColumnsKeepValues` | `SyncInv`: the table is always the one that the statements done so far make of that of the collection (`Underway`, `TableAt`), which says where each field's values are; in such a table the next statement is possible and leads to the next (`StepsTo`, `AlterStep`). What is dropped and renamed is found by inductions over the lists of fields (`FieldsAreList`, `PickedIs`); that a validated collection has no two fields of a name or an id is what keeps columns apart (`ListsApart`) |
| | `ToolsKeepTheirWord`, `DataStaysInPlace` | the conjunctions of the theorems about the parts of `HooksAndStores` and `DataHold` |

Several of these need induction over numbers: for sums, of what passed and of a body's
chunks, and for what a recursive function is at each place. The library states induction for a predicate, which the provers cannot
instantiate; `LeastElement` derives it for a *set* of numbers from the library's theorem
that `<` is well founded on them (`Induction`, `SumsUpTo`, in `ServicesProofs` and `CoreProofs`).

Assumptions on constants. Bounds are numbers; things that stand for "none" are no members
of the set (`NoBinding`, `NoUser`, `NoKey`, `NoWriter`, `Nobody`); the names of a request's
doings are no tokens (`TokensAssumption`); users who registered are finitely many
(`RegisteredAssumption`) and so are the presence keys of a connection (`KeysOfAssumption`)
and the ids of the broker's clients (`ConnIdsFinite`); an allowance and its window are not
zero (`LimitBounds`); requests have chunks of some sizes and one of the routers' guards, and
certificates are of texts (`VisitBounds`); a request of /rest/v1 has the fields of `NoShape`, a list of rows
and numbers for its page (`ShapesAssumption`), a server announces changes or does not
(`PublishesAssumption`), and a table's rows are finitely many (`IdsFinite`); a writer's row has
a size (`SizeAssumption`) and `NoClient` is none (`NoClientAssumption`); a collection's token
secrets are texts (`TokenSecretAssumption`); an upload's bounds are numbers (`UploadBounds`) and what a
client sends of a form is a list of tokens (`FormsAreTokens`); the minutes an expression's fields name lie between
their least and greatest, which the clock shows too (`CronTime`); a hook's handler has a number for
its priority and no id of the functions that calls bring themselves (`HookHandlersAssumption`); every field of a collection has a
name, and an account one email (`PathFieldsAssumption`), and the keys of a path are a list
(`RequestKeysAssumption`), and so are the fields of a draft, each with a position to put it
(`DraftsAssumption`); the server's roles are a list
(`RoleOrderIsList`) and some replica starts (`StartersAssumption`); a table of records has
an id (`FieldTableAssumption`), a body that names providers gives all their settings
(`BodiesAssumption`), and what is looked up is text, the empty one no collection's id
(`TextAssumption`).
Some theorems need more, and say so in their `ASSUME`:

* `MessagesAreSerialised`, `HubAgrees`: `"expire" \notin Kinds`, no heartbeat presents an
  expired token. One that does makes `HeartbeatInvalid` forget the client and with it its
  promise, while the socket stays open and subscribed (`apis/realtime.ts:462`): the next
  message overtakes those in progress. `PromisesRunInTurn` says what remains true then.
* `ViewsAgree`, `HubAgrees`: `Apart`, no two connections have a presence key in common.
  `presence_leave` carries a key and not who leaves: with a key of two connections, the
  leave of one takes the other out of every client's picture while the hub still lists it.
* `JobsRunOnTime`, `ToolsKeepTheirWord`: `WholeMinutes`, the cron's interval is a number of
  whole minutes. `SetInterval` takes any number of milliseconds (`tools/cron/cron.ts`), and its
  callers give minutes; with half a minute a job would run twice in one.
* `RowsAndTokensAreApart`, `DataStaysInPlace`: `SecretsApart`, no secret of a token type is the
  end of another's. A key is the account's token key with the secret appended
  (`core/record_tokens.ts:65`), so that other pairs may give the same text. Secrets are
  generated at random with one length (`core/collection_model_auth_options.ts`); nothing in
  the code refuses a PATCH that sets two alike.

The first two hypotheses hold of `Feed.cfg`'s constants (`c1` has `k1`, `k2`; `c2` has `k3`; no
`"expire"`), the last one of `MCTokenSecret`.

Only model-checked:

* liveness (`EveryRequestAnswers`, `StartEnds`, `FeedGoesOn`, `WorkersEnd`): fairness and
  ENABLED are not in the prover's reach;
* `TypeOK` and `MeaningsHold` of `MCServices`. `MCServices` extends `Embeds` and
  `SearchFilters`, whose recursive operators over nested selects and filters the prover does
  not take. The other parts of `MeaningsHold` are about what recursive functions over
  sequences and the concatenation of texts compute for every input, inductions over data:
  that a list of fields is the same when its JSON is read again (`ListsAreStable`), the joins
  of a path and what they select (`PathsLeadRight`), printing and parsing (`SelectsAsMeant`,
  `FormsAsSent`, `FiltersAsWritten`, `PathsCovered`), fields' conversions (`KeptAsItself`,
  `SchemaFits`, `FieldCanBeGiven`) and pages (`PagesCover`: `SetToSeq`, `FlattenSeq`).

## 8. Where code and words disagree

Refuted in runs: see the table. Also met while modelling, without a run:

* Refresh: a crash between the two statements of a replay leaves the family revoked
  and the session alive, which no later refresh repairs (`refresh-tokens.ts:151`;
  `RevocationEndsSession`, defined and not run); a refresh can fail at the user lookup, its fresh access token being rotated
  away already (`apis/auth.ts:1158`); the "always has a child" lookup can throw after
  a logout in between (`refresh-tokens.ts:134`); a token can outlive its deleted user
  (`delete-user.ts:49` against `docs/auth.md:138`).
* Realtime: `removeClient` forgets the promise, so messages before and after an
  eviction are not ordered (`realtime.ts:637`); `phx_leave` clears one key only
  (`:425` against `docs/realtime.md:80`); a heartbeat skips a topic after one of two
  keys is untracked (`:439`); messages after a close recreate the entry (`:353`); the cap
  evicts without a diff (`:679`). The run's properties carry the conditions under
  which they hold (`OneKeyed`, `c \in open`).
* Realtime: a heartbeat with an expired token calls `removeClient` and sends `phx_close`
  as a message, but the WebSocket is neither closed nor unsubscribed, against "eviction
  + WS close" (`realtime.ts:16`): it goes on receiving broadcasts.
* Listener: a stop during the awaits of a retry's `start()` leaves a connection and a
  heartbeat that nobody releases, against "Stop listening and release the connection"
  (`realtime-pg-listener.ts:152`; `StopReleases`, defined and not run).
* Identities: `completedLink` completes with any row of the user that was written since
  the flow started, which with two tabs may be the other flow's
  (`auth-oauth.ts:225`); a second flow of a proven identity holds it again, and its
  abandoned code removes it.
* Links: with mail slower than the interval an undelivered link can retire a delivered
  one, against "leave the earlier links valid" (`apis/auth.ts:904`); a recovery
  session is created after the confirming transaction, so a password change or
  deletion in between does not end it (`:1115`); `confirmRecoveredUser` locks the
  address row before the user's, unlike "every writer here" (`:728`), and may be
  aborted by the deadlock detector.
* Agent grants: Better Auth checks the session and inserts the consent in statements
  of its own; a consent that waits for a deletion's lock is inserted after it, for a
  user row that is still there, although `docs/auth.md:138` says every grant of the
  user is removed "in the same transaction"; `lookupAgentGrantToken` does not look at
  `deletedAt` (`tools/auth-better/agent-grants.ts:279`).
* Fallback store: `invalidateSession` "marks the session's families as compromised"
  (`auth-store.ts:287`), but a family keeps the sid of its first pair and each rotation
  has a new one: a logout after a rotation removes one token, and a refresh in flight
  adds a valid one (`LogoutEndsFamily`, defined and not run). `PATCH /user` changes the
  address of a user that stays indexed by the old one (`apis/auth.ts:381`).
* Storage: a move removes what is under its source by then, an upsert that committed
  after the download included (`apis/file.ts:943`; `MoveTakesItsCopy`, defined and not
  run); a read may return bytes whose upload is not committed, or has failed. A file that
  cannot be unlinked is passed over in silence (`tools/filesystem/store.ts:95`): the
  removal answers success, and the bytes, which no row names, keep the bucket from being
  deleted. A writer whose transaction was lost before it calls the store replaces or
  removes what another committed meanwhile (`storage-postgres.ts:341`, `RowsMatchBytes` and
  `OnlyUpsertsOverwrite` exempt it).
* Startup: a start that fails after the pruning timer was created leaves it running
  (`core/app.ts:1949`; `FailedStartCleans`, defined and not run); `CREATE TABLE IF NOT EXISTS todos` can fail on a race outside the lock
  (`core/app.ts:2349`); a stop whose HTTP server fails to stop leaves the rest undone
  (`stopFails`); `pendingPlugins` is emptied by the first start (`:1671`).
* Feed: in direct mode the announced rows of a DELETE may differ from the removed
  ones (`DeletesAreReal`, defined and not run); updates of one row may be delivered in
  either order. A publication that fails after the commit of a POST or PATCH answers an
  error for rows that are written (`apis/postgrest.ts:287`, `:340`; `ErrorsChangeNothing`):
  a client that repeats the request inserts twice. The trigger notifies of no change whose
  payload has 7900 bytes (`migrations/1780000000_realtime_notify_trigger.ts:19`), as
  `docs/realtime.md:109` says: nobody hears of it, and `ReadersHearOnce` excepts it
  (`TooLarge`). A client that leaves and joins again while the hub awaits its right to read
  hears a change twice, and one that joins a topic that the iterator has passed does not
  hear it (`realtime.ts:762`): the property speaks of clients that stay.
* Backups: a server that stops or starts during a backup makes its manifest tell another
  story than its directory (`core/app.ts:1742`; `ManifestTellsTruth`); the SQL fallback
  reads table by table, not one snapshot; a killed `pg_dump` may have a null exit code;
  the listing skips directories. `PGBackupManager`, which nothing mounts, reads a binary
  dump as UTF-8.
* Cron: a cron started again at a boundary runs its due jobs twice; an interval set while
  the first boundary is pending is ignored until then; late ticks drift and may skip a
  minute. A run through `cron-crud.ts` answers "Error" after it ran, its column
  `last_run` missing.
* Logging: `dispose()` during a flush leaves the queue to nobody, against "the internal
  queue is emptied" (`tools/logger/batch_handler.ts:222`; `DisposeFlushes`).
* Limits: `collectionPathRateLimit` makes a limiter per request; `NewRouter`'s
  `rateLimit` option and a function's own `rateLimit` are not used.
* Drop functions: a module that hangs on import hangs the server, against "a hung
  function kills only its Worker" (`docs/edge-functions.md:81`; `CallsEnd`); the worker
  may run a newer version than the one checked; `ctx.auth` is null for the service role.
* SDK: channels of one topic lose each other's callbacks (`OwnCallbacks`,
  `SubscribedHears`); a sign-out tells the session that ended (`InSync`); the latch of the
  cookie probe outlives a sign-out; `unsubscribe` throws while connecting; `Prefer` may
  start with a comma, a total of `*` becomes NaN, `nullsfirst` is dropped, `columns` is
  sent with GET only.
* Broker: a client that registers under a taken id displaces the other, which goes on
  receiving what it is sent directly (`OnlyRegisteredHear`); subscriptions with options
  never hear a plain broadcast. `Store.getOrSet` overwrites a `set` made while it waits.
* Models: without a database a save resolves and has done nothing, while a deletion runs its
  hooks (`core/base.ts:488`, `:464`); the hooks after an error are never triggered; those after a success run although
  a handler stopped the insert; an insert writes id and dates only; `runInTransaction` is
  none; a nested trigger of the same event loses the outer chain.
* PostgREST: the memory database has no transactions, treats nulls as values and compares by
  `localeCompare`, or as numbers where both texts are (`core/db-memory.ts:309`), so that
  `lt.9` selects a text `10` on PostgreSQL and not in memory (`MemoryFollows`); several
  `or=` are flattened, `and(...)` in one is split at commas; `in.(...)` cannot carry
  quotes; a negative range is a database error; a key that references its own table embeds
  outbound.
* Search: `?!=` and `?!~` are refused; `!=` with a text skips null rows; `~` with a bound
  text adds no `%`; unknown characters and a stray `)` are skipped or end the filter;
  multi-match queries are never used, and `RecordFieldResolver.resolve()` always answers
  an error; aliases clash when a field's name has a `_`; `:lower` of a static value is
  written with a stray brace; missing paths of the request are NULL.
* Collections: the API neither validates nor synchronises: nothing outside tests calls the
  table synchronisation or the collection validator, and no database here has the schema
  capability they ask for, so that `TableSync` and `ColumnsKeepValues` are about functions
  kept for callers to come. `isCollectionNameUnique` excludes the wrong way round: with ids
  to exclude it counts only their rows (`core/collection_query.ts:189`), and
  `UniqueMeansFree` is about calls without any. A PATCH that names an id writes
  the row of that id; overlapping PATCHes lose updates; a provider's secret is never stored;
  a type changed to base and back loses its options; an import replaces whole rows; a GET of
  an auth collection without stored options answers fresh secrets. `ilike` takes the `_` of
  a name for any character; a failed synchronisation leaves temporary columns.
* Fields: a password's least length beyond 72 without a maximum cannot be satisfied, a
  text's is refused; JSON objects and lists never validate; lists whose elements are JSON
  lists change when read again.
* Records: the record API stores and compares passwords as plain text, any rule but null
  admits everybody, requests never authenticate (an empty secret), expands always fail; a
  PATCH after a concurrent DELETE answers 200; a token key is set under `tokenKey+`;
  `fresh()` forgets what was hidden by hand; an empty password passes the form.
  `parseFilterString` drops what it cannot read and splits quotes at `&&`.
  `findAuthRecordByToken` returns its last read un-awaited, so that its errors escape the
  catch (`core/record_query.ts`).
* Router: the account of a request is kept in the router's store, where another request's
  may take its place before the handler reads it (`SeesOwnAccount`), as the wish to skip
  the log (`SuccessIsLogged`); a wildcard origin may be answered with credentials;
  `panicRecover` makes every error a 500.
* Storage access: a signed GET looks at no row, so that it reads what took the name since
  (`LinksReadWhatWasSigned`); visitors may overwrite and remove accounts' objects of a
  public bucket (`AccountsObjectsStay`); moving another's object of a public bucket copies it and
  answers success; an upload looks at the bucket's limits before its transaction.
* Roles: of two replicas on a fresh cluster one may fail on the other's role
  (`NoneFails`).
* Fallback users: a changed address is not the one that signs in (`ShownAddressLeads`); two
  overlapping changes are proved by one password (`ReplacesWhatItProved`); access tokens
  outlive a restart that forgets the users.
* Feed: a handler that publishes holds its connection and asks for another
  (`NoSecondConnection`).

The false properties named here are defined in their modules and not run, except those of the
table; TLC violates each of them.

## 9. What is not modelled

Listed with reasons under `components` in `PROJECT.json`: admin APIs (one statement per
request), tokenizer, picker and dates (pure functions without a hazard), plugins that adapt
external services, commands, mail, archives and the UI; of the modelled components, the
stored jobs of `cron-crud.ts`, storage without a metadata database, thumbnails, CSV and
media types, view collections, batches, what has no caller. External code (better-auth,
the `pg` client, Bun's sockets and workers, S3, `pg_dump`, PostgreSQL) is modelled by what the
code relies on: statement atomicity, row locks, advisory locks, NOTIFY on commit,
per-socket order. Wording, metrics and HTTP details are left out.
