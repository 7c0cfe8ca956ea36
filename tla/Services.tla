-------------------------------- MODULE Services --------------------------------
(***************************************************************************)
(* What the services promise together, each while a behaviour runs it:     *)
(* hooks, stores, broker and cron; the way of a request to rows, objects,  *)
(* functions and roles; collections, their records and the accounts.       *)
(***************************************************************************)
EXTENDS
    Models, Toolbox, RestQueries, Pipeline, StorageRoutes, EdgeFunctions, Collections, Records,
    RecordQueries, FallbackUsers, QueryPath, FieldPaths, TableSync

VARIABLE focus   \* the service that the behaviour runs

\* Hook chains run in order, each handler once, around the database call; a store's lock has one
\* holder; a broadcast reaches every client that is subscribed and not discarded, whatever its
\* handlers do; a cron's jobs run in the minutes that their expressions name, once in each.
HooksAndStores ==
    /\ focus = "models" => ChainsSorted /\ RunOnce /\ SavesTakeEffect
    /\ focus = "stores" => LockHeld
    /\ focus = "topics" => BroadcastsReach /\ DiscardedHearNothing /\ StoreHoldsLive
    /\ focus = "cron" => RunsWhenDue /\ OncePerMinute /\ NoMinuteMissed
\* From the router to the rows and back: guards decide by the caller alone, bodies stay within
\* their limit and callers within theirs; a request of /rest/v1 takes effect as a whole and answers
\* what it did; what an account may not read or write in the storage it does not; a body arrives as
\* it was sent; a function runs for whom it asks; a server serves with all the roles or not at all;
\* the memory database parts from PostgreSQL at nulls and at values that the two put in different
\* order only; no filter looks at hidden fields.
RequestsHold ==
    /\ focus = "limits" => WindowBound
    /\ focus = "pipeline" => GuardsDecideAlone /\ BodiesWithinLimit /\ LoggedOnce /\ RedirectsSettle
    /\ focus = "requests" => AllOrNothing /\ AnswerIsEffect /\ PageWithinTotal /\ AgentsOnlySupply
    /\ focus = "access" => PrivateStaysPrivate /\ OthersStay /\ AgentsOnlyRead /\ UploadLinksAdd
    /\ focus = "uploads" => BodiesArrive /\ RefusedWhenLong /\ TempsGo /\ PartsMakeWhole
    /\ focus = "functions" => RunsAsChecked
    /\ focus = "roles" => ServesIsolated /\ AllRolesOrNone /\ OneGetsThrough
    /\ focus = "queries" => MemoryFollows
    /\ focus = "paths" => HiddenStayHidden /\ RequestHangsTogether
\* From a collection to its records: options survive a change that does not give any; a table follows
\* its collection's fields without losing the values of one that stays; a record shows no secrets,
\* keeps its protected fields and its row; its tokens are of one kind each and lead to it; an address
\* has one account, whose password is changed by those who knew it.
DataHold ==
    /\ focus = "collections" => OptionsSurvive /\ NoClientSecrets
    /\ focus = "sync" => ValuesStay /\ ValidMeansPossible
    /\ focus = "records" => ExportHidesSecrets /\ SaveWritesAll
    /\ focus = "forms" => FormProtects /\ NewHasPassword
    /\ focus = "users" => RowsStayTheirs /\ TokensAreApart
    /\ focus = "finds" => LookupsLeadRight /\ TokensLeadToAccounts /\ UniqueMeansFree
    /\ focus = "accounts" => OneAddressEach /\ PasswordsProven
=================================================================================
