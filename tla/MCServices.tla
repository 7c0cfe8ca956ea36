------------------------------- MODULE MCServices -------------------------------
(***************************************************************************)
(* The server's toolbox and services: backups, log batches, rate limits,   *)
(* edge functions, the client library, hooked models and stores, and the   *)
(* requests of /rest/v1.  A behaviour is of the one in focus, and the      *)
(* others stay in their initial states.                                    *)
(***************************************************************************)
EXTENDS
    Services, Backups, LogBatches, SdkClient, Embeds, SearchFilters, TLC

CONSTANTS o1, c1, c2, h1, h2, a1, s1, s2, g1, g2, g3, r1, r2
\* Handlers to bind: two ids, each with both priorities.
MCHandlers ==
    {[id |-> "a", priority |-> 0, tags |-> {}, does |-> "twice"],
     [id |-> "a", priority |-> 1, tags |-> {"other"}, does |-> "stops"],
     [id |-> "b", priority |-> 0, tags |-> {"table"}, does |-> "stops"],
     [id |-> "b", priority |-> 1, tags |-> {}, does |-> "throws"]}

\* Requests: pages, inserts of no, one and two rows, writes by one condition and by or=, calls.
MCShapes ==
    {[NoShape EXCEPT !.count = TRUE],
     [NoShape EXCEPT !.count = TRUE, !.from = 1, !.singular = TRUE, !.role = "anon"],
     [NoShape EXCEPT !.op = "head"],
     [NoShape EXCEPT !.op = "post"],
     [NoShape EXCEPT !.op = "post", !.rows = <<1, 2>>],
     [NoShape EXCEPT !.op = "post", !.rows = <<2, 1>>, !.singular = TRUE, !.resolution = "merge"],
     [NoShape EXCEPT !.op = "post", !.rows = <<2, 1>>, !.resolution = "ignore"],
     [NoShape EXCEPT !.op = "post", !.rows = <<2>>, !.resolution = "malformed"],
     [NoShape EXCEPT !.op = "post", !.rows = <<1>>, !.role = "agent"],
     [NoShape EXCEPT !.op = "patch"],
     [NoShape EXCEPT !.op = "patch", !.or = TRUE, !.singular = TRUE],
     [NoShape EXCEPT !.op = "delete", !.singular = TRUE],
     [NoShape EXCEPT !.op = "delete", !.or = TRUE],
     [NoShape EXCEPT !.op = "delete", !.role = "agent"],
     [NoShape EXCEPT !.op = "rpc", !.singular = TRUE, !.role = "agent", !.supply = TRUE],
     [NoShape EXCEPT !.op = "rpc", !.contracts = 0],
     [NoShape EXCEPT !.op = "rpc", !.contracts = 2]}

\* Text with the punctuation of the parsers, in values and in rows.
MCTexts == {<<"x">>, <<"x", ",", "y">>, <<"x", ".", "y">>, <<"x", "\"">>}
MCRows == [a : MCTexts \cup {Null, <<"y">>}, b : {Null, <<"x">>, <<"10">>}]
\* 10 comes before 9 as text, and a quote before a comma in one order only.
MCCollation == <<"\"", ",", ".", "10", "9", "x", "y">>
MCLocale == <<",", ".", "\"", "10", "9", "x", "y">>
MCNumberOf == [t \in {<<>>, <<"9">>, <<"10">>} |-> IF t = <<>> THEN 0 ELSE IF t = <<"9">> THEN 9 ELSE 10]
CallOf(key, op, value, list) == [key |-> key, op |-> op, value |-> value, list |-> list]
MCCalls ==
    {CallOf(k, o, v, <<>>) : k \in {"a", "b"}, o \in {"eq", "lt", "not.eq"}, v \in MCTexts}
    \cup {CallOf("a", "neq", v, <<>>) : v \in MCTexts}
    \cup {CallOf("b", "lt", <<"9">>, <<>>)}
    \cup {CallOf(k, o, <<>>, <<>>) : k \in {"a", "b"}, o \in {"is", "not.is"}}
    \cup {CallOf("a", "in", <<>>, <<u, v>>) : u \in MCTexts, v \in {<<>>, <<"y">>}}
    \cup {CallOf("or", "or", <<>>, <<<<<<"a", "eq", u>>>>, <<<<"a", "lt", <<"y">>>>, <<"b", "neq", v>>>>>>) :
              u \in MCTexts, v \in {<<"x">>, <<"x", ",", "y">>}}
    \cup {CallOf("or", "or", <<>>, <<<<<<"a", "since", <<"x">>>>>>>>)}
MCWindows == {[by |-> "none", from |-> 0, size |-> 0], [by |-> "range", from |-> 1, size |-> 1]}

\* Tasks reference users twice and are referenced by notes; one task may have no reviewer, and a
\* user and the note of a task come and go.
MCKeys ==
    {[name |-> "tasks_owner", source |-> "tasks", column |-> "owner", target |-> "users", key |-> "id"],
     [name |-> "tasks_reviewer", source |-> "tasks", column |-> "reviewer", target |-> "users", key |-> "id"],
     [name |-> "notes_task", source |-> "notes", column |-> "task", target |-> "tasks", key |-> "id"]}
MCSnapshots ==
    {[users |-> {[id |-> u] : u \in us},
      tasks |-> {[id |-> 1, owner |-> 1, reviewer |-> x], [id |-> 2, owner |-> y, reviewer |-> 2]},
      notes |-> {[id |-> 1, task |-> n], [id |-> 2, task |-> 1]}] :
        us \in {{1, 2}, {2}}, x \in {0, 2}, y \in {1, 2}, n \in {0, 2}}
Embedded(source, output, hint, inner, fields) ==
    [kind |-> "relationship", source |-> source, output |-> output, hint |-> hint, inner |-> inner, fields |-> fields]
MCSelects ==
    LET id == <<Column("id")>> IN
    UNION {{<<Column("id"), Embedded("users", "users", "", FALSE, id)>>,
            <<Column("id"), Embedded("users", "who", "owner", i, id), Embedded("notes", "notes", "", j, id)>>,
            <<Embedded("reviewer", "r", "", j, <<Column("id"), Embedded("tasks", "own", "tasks_owner", i, id)>>)>>,
            <<Embedded("notes", "notes", "", i,
                       <<Column("id"), Embedded("tasks", "t", "", j, <<[Column("owner") EXCEPT !.output = "o"]>>)>>)>>} :
              i, j \in BOOLEAN}

Field(id, name) == [id |-> id, name |-> name, type |-> "text", system |-> id = ""]
InOrder(fields) == [i \in DOMAIN fields |-> [at |-> -1, field |-> fields[i]]]
Draft(fields) == [id |-> "c1", name |-> "posts", type |-> "base", system |-> FALSE, indexes |-> <<>>,
                  rules |-> [listRule |-> "null", createRule |-> "null"],
                  fields |-> InOrder(<<Field("", "id")>> \o fields)]
\* Fields that are added, removed, renamed, swapped and retyped, with and without ids, and what the
\* validation and the database refuse.
MCDrafts ==
    LET ab == <<Field("f1", "a"), Field("f2", "b")>> IN
    {Draft(ab), Draft(<<Field("f2", "a"), Field("f1", "b")>>), Draft(<<Field("f2", "a")>>),
     Draft(<<Field("f1", "a"), Field("f3", "A")>>), Draft(<<Field("f1", "A"), Field("f2", "b"), Field("f3", "c")>>),
     Draft(<<Field("", "a")>>), Draft(<<Field("text_a", "b"), Field("", "a"), Field("", "b")>>),
     [Draft(<<>>) EXCEPT !.fields = Append(InOrder(<<Field("", "id")>> \o ab), [at |-> 0, field |-> Field("f2", "c")])],
     Draft(<<[Field("f1", "a") EXCEPT !.type = "number"]>>),
     [Draft(ab) EXCEPT !.type = "view"], [Draft(ab) EXCEPT !.type = "view", !.rules.createRule = ""],
     [Draft(ab) EXCEPT !.system = TRUE], [Draft(ab) EXCEPT !.system = TRUE, !.rules.listRule = ""],
     [Draft(ab) EXCEPT !.indexes = <<"CREATE">>], [Draft(ab) EXCEPT !.indexes = <<"DROP">>],
     [Draft(ab) EXCEPT !.name = "1st"], [Draft(ab) EXCEPT !.name = "notes"], [Draft(ab) EXCEPT !.id = "not-an-id"],
     [Draft(<<Field("", "tokenKey"), Field("", "email"), Field("", "emailVisibility"), Field("", "verified"),
              Field("", "password")>>) EXCEPT !.type = "auth"],
     [Draft(<<Field("f1", "email"), Field("", "oldPassword")>>) EXCEPT !.type = "auth"]}

\* Bodies that say nothing of the options, change the type or the id, or give options.
MCPatches ==
    {[name |-> "posts"], [name |-> "users", type |-> "auth"], [type |-> "base"], [id |-> "c2", name |-> "notes"],
     [name |-> "users", type |-> "auth", system |-> TRUE,
      options |-> [oauth2 |-> [enabled |-> TRUE, clientSecret |-> "s", twice |-> FALSE],
                   mfa |-> [enabled |-> TRUE, sound |-> TRUE]]],
     [options |-> [authToken |-> [secret |-> 0, sound |-> TRUE], authAlert |-> "half"]],
     [options |-> [otp |-> [enabled |-> TRUE, sound |-> FALSE],
                   passwordAuth |-> [enabled |-> FALSE, identities |-> 0]]]}
MCImports ==
    {[entries |-> <<[name |-> "posts"], [type |-> "base"]>>, deleteMissing |-> TRUE],
     [entries |-> <<[id |-> "c1"], [name |-> "users", id |-> "c1", type |-> "auth"]>>, deleteMissing |-> FALSE]}

\* An account's fields; bodies that name another row's id; rules with and without access.
MCFieldTable ==
    [k \in {"id", "name", "email", "emailVisibility", "password", "tokenKey", "secret"} |-> k \in {"tokenKey", "secret"}]
MCFormFields == [k \in {"email", "verified", "secret"} |-> k = "secret"]
MCFormBodies ==
    {[email |-> "new"], [verified |-> "new", secret |-> "new"], [password |-> "p1"],
     [password |-> "p1", passwordConfirm |-> "p1"], [oldPassword |-> "p0"], [oldPassword |-> "p1"],
     [password |-> ""], [passwordConfirm |-> "p1", oldPassword |-> "p0"]}
MCUserBodies ==
    {[email |-> "true", password |-> "true"], [id |-> "u1", name |-> "true"], [id |-> "u2", tokenKey |-> "true", extra |-> "true"]}
MCUserRules == [create |-> "", update |-> "x", delete |-> "null"]
MCTokenSecret == [auth |-> <<"s">>, passwordReset |-> <<"r", "p">>, verification |-> <<"true", "v">>]

\* Comparisons whose sides are null, empty, doubled in quotes, calls, numbers and paths.
MCFilterRows == [a : {NoText, <<>>, <<"x">>}, b : {NoText, <<"x">>}, j : {NoText, <<"x", "'">>}]
MCComparisons ==
    LET a == [kind |-> "field", of |-> "a"]
        text(x) == [kind |-> "text", of |-> x]
        cmp(l, op, r) == [left |-> l, op |-> op, right |-> r] IN
    {cmp(a, <<"!", "=">>, text(<<"x">>)), cmp([kind |-> "null", of |-> "null"], <<"!", "=">>, a),
     cmp(a, <<"?", "=">>, [a EXCEPT !.of = "b"]), cmp([kind |-> "path", of |-> "j"], <<"!", "=">>, text(<<"x", "'">>)),
     cmp([kind |-> "number", of |-> <<"1">>], <<"=">>, [kind |-> "true", of |-> "true"]),
     cmp(a, <<"?", "!", "=">>, [kind |-> "macro", of |-> "@now"]), cmp(a, <<"!", "~">>, text(<<"x", " ", ")">>)),
     cmp([kind |-> "function", of |-> <<text(<<"y">>), a>>], <<"?", "<", "=">>, [a EXCEPT !.of = "b"])}
MCSorts ==
    {<<[name |-> "a", direction |-> "DESC"], [name |-> "b", direction |-> "ASC"]>>, <<[name |-> "null", direction |-> "ASC"]>>}

\* Accounts with a boss and a team, one of them in a circle; a request with what is null and nested.
MCPathFields ==
    LET field(type, hidden, multiple) == [type |-> type, hidden |-> hidden, multiple |-> multiple, unique |-> FALSE]
    IN  [email |-> field("email", FALSE, FALSE), boss |-> field("relation", FALSE, FALSE),
         team |-> field("relation", FALSE, TRUE), secret |-> field("relation", TRUE, FALSE)]
MCAccounts ==
    LET account(boss, team) == [email |-> boss, boss |-> boss, team |-> team, secret |-> "u1"]
    IN  {[u1 |-> account("", {}), u2 |-> account("u1", {"u1", "u2"})]}
MCBodyIds == [team |-> {"u1", "u2"}]
MCRequestData ==
    [map |-> [method |-> [text |-> "GET"], body |-> [map |-> [none |-> [null |-> TRUE], tags |-> [list |-> "0" :> [text |-> "t"]]]]]]
MCRequestKeys == {<<"body", "none">>, <<"body", "tags">>, <<"body", "tags", "1">>}

\* Fields of every type, with bounds that are set, left, reversed and beyond what the type takes.
MCFieldSettings ==
    LET of(type, req) == [type |-> type, name |-> "title", help |-> 0, required |-> req, min |-> 0, max |-> 0]
        listOf(type, req, most) ==
            [of(type, req) EXCEPT !.min = 0] @@ [maxSelect |-> most, minSelect |-> 0, values |-> {"a", "b"}, collectionId |-> "c1",
                                                 maxSize |-> 0, thumbs |-> {"100x0"}]
        texts(type, req, least, most) ==
            [of(type, req) EXCEPT !.min = least, !.max = most]
              @@ [pattern |-> NoneGiven, algorithm |-> "bcrypt", primaryKey |-> FALSE]
        addresses(type, req, only, except) == of(type, req) @@ [only |-> only, except |-> except]
        dates(req, first, last) == [of("date", req) EXCEPT !.min = first, !.max = last]
    IN  UNION {
          {listOf(type, r, n), [listOf(type, r, n) EXCEPT !.minSelect = 1], [listOf(type, r, n) EXCEPT !.values = {}]} :
              type \in {"select", "relation", "file"}, r \in BOOLEAN, n \in 0..3}
        \cup UNION {{texts(type, r, m, n), [texts(type, r, m, n) EXCEPT !.pattern = "p"]} :
              type \in {"text", "password"}, r \in BOOLEAN, m \in {0, 8, 80}, n \in {0, 8, 72}}
        \cup {[texts("text", TRUE, 0, 0) EXCEPT !.primaryKey = TRUE, !.name = "id"], [texts("text", TRUE, 0, 0) EXCEPT !.name = "expand"]}
        \cup {[of("editor", r) EXCEPT !.max = n] : r \in BOOLEAN, n \in {0, 8}}
        \cup {dates(r, m, n) : r \in BOOLEAN, m \in {NoneGiven, 1, Malformed}, n \in {NoneGiven, 0, 1, 2}}
        \cup {addresses(type, r, o, e) : type \in {"email", "url"}, r \in BOOLEAN, o \in {{}, {"a.b"}}, e \in {{}, {"a.b"}}}
        \cup {of("number", FALSE), [of("number", TRUE) EXCEPT !.min = NoneGiven, !.max = 1], [of("number", TRUE) EXCEPT !.min = 2, !.max = 1],
               of("bool", FALSE), of("geo_point", TRUE), of("geo_point", FALSE)}
        \cup {of("autodate", FALSE) @@ [onCreate |-> c, onUpdate |-> FALSE] : c \in BOOLEAN}
        \cup {of("json", r) @@ [maxSize |-> n] : r \in BOOLEAN, n \in {-1, 0, 8}}
MCGivenValues ==
    LET lists == {[form |-> "none"], [form |-> "text", text |-> "a"], [form |-> "text", text |-> ""]}
                 \cup {[form |-> f, of |-> list] : f \in {"list", "json"},
                       list \in {<<>>, <<"a">>, <<"a", "", "a">>, <<"b", "a">>, <<"a", "c">>, <<"a", "b", "c">>}}
        texts == {[length |-> n, matches |-> m] : n \in {1, 7, 8, 9, 73, 80}, m \in BOOLEAN} \cup {NothingWritten}
        addresses == {NoneGiven, Malformed, "a.b", "c.d"}
        point(lon, lat) == [lon |-> lon, lat |-> lat]
    IN  [type \in {"select", "relation", "file"} |-> lists] @@ [type \in {"text", "password", "editor"} |-> texts]
        @@ [type \in {"email", "url"} |-> addresses]
        @@ [date |-> {NoneGiven, Malformed, 0, 1, 2}, autodate |-> {NoneGiven, 1}, number |-> 0..2, bool |-> BOOLEAN,
            geo_point |-> {NoneGiven, [lat |-> 1], point(180, 90), point(-181, 0), point(0, 91), point(0, 0) @@ [alt |-> 0]},
            json |-> {[form |-> "none"], [form |-> "object", length |-> 2]} \cup {[form |-> "text", length |-> n] : n \in {0, 1, 8}}
                     \cup {[form |-> "json", of |-> o, length |-> 4] : o \in {"null", "empty", "more"}}
                     \cup {[form |-> "list", length |-> n] : n \in 0..2}]

\* A clock of two minutes an hour and hours 1 to 3; every minute, some by steps, lists and ranges.
MCCronFields == <<[min |-> 0, max |-> 1], [min |-> 1, max |-> 3]>>
MCClock == [minute \in 0..5 |-> <<minute % 2, 1 + (minute \div 2)>>]
MCCronMacros == <<"@hourly">> :> <<{[kind |-> "one", from |-> 0, to |-> 0, step |-> 1]}, {[kind |-> "all", from |-> 0, to |-> 0, step |-> 1]}>>
MCCronTexts ==
    LET item(kind, from, to, step) == [kind |-> kind, from |-> from, to |-> to, step |-> step]
        all == {item("all", 0, 0, 1)} IN
    {<<"@hourly">>, <<all, {item("one", 1, 1, 1), item("range", 1, 3, 2)}>>,
     <<all, {item("all", 0, 0, 4)}>>, <<{item("one", 1, 1, 2)}, all>>, <<all, all, all>>}

\* Requests of a user and of a superuser, with and without a token, that a guard lets through or not;
\* bodies that lie about their length; origins of one, two and three labels.
MCPayloads == [user |-> [id |-> "u1", collection |-> "users"], admin |-> [id |-> "u2", collection |-> "_superusers"]]
MCVisits ==
    LET visit(token, guard) == [token |-> token, guard |-> guard, of |-> IF guard = "owner" THEN "u1" ELSE "users",
                                origin |-> NoAccount, preflight |-> FALSE, length |-> 0, body |-> <<>>]
        origin(labels) == [scheme |-> "https", labels |-> labels] IN
    {visit(token, guard) : token \in {"", "bad", "user", "admin"}, guard \in {"auth", "superuser", "owner", "collection", "guest"}}
    \cup {visit("", "ui"), [visit("user", "open") EXCEPT !.body = <<2, 2>>], [visit("", "open") EXCEPT !.body = <<1, 2>>],
          [visit("", "open") EXCEPT !.length = 4],
          [visit("", "open") EXCEPT !.origin = origin(<<"com", "a", "x">>)],
          [visit("", "open") EXCEPT !.origin = origin(<<"com", "b">>), !.preflight = TRUE]}
MCAllowOrigins == <<[scheme |-> "https", labels |-> <<"com", "a", "*">>], [scheme |-> "http", labels |-> <<"*">>]>>
MCOriginPatterns == {[scheme |-> "https", labels |-> <<"com", "b", "ax">>]}
MCCertificates == {<<"com", "a">>, <<"com", "b">>, <<"com", "b", "www">>, <<"com", "c", "www">>}

\* A bucket for all and one that is not, with a limit each; two accounts, an agent of one of them.
MCContexts ==
    {[role |-> "anon", user |-> NoUser, agent |-> FALSE], [role |-> "service_role", user |-> NoUser, agent |-> FALSE],
     [role |-> "authenticated", user |-> "u1", agent |-> FALSE], [role |-> "authenticated", user |-> "u2", agent |-> FALSE],
     [role |-> "authenticated", user |-> "u2", agent |-> TRUE]}
MCObjectNames == {<<"a">>, <<"d", "a">>}
MCListings == {<<>>, <<"d">>}
MCTypeOf == [n \in MCObjectNames |-> "t"]
MCBucketSettings ==
    {[public |-> TRUE, limit |-> 1, types |-> {}], [public |-> FALSE, limit |-> NoLimit, types |-> {"t"}]}

\* Forms of up to two parts, some with what looks like a boundary or the end of headers in a part.
MCFormData == {<<>>, <<"x">>, <<"D", "x">>, <<"N", "x">>, <<"x", "N", "N">>}
MCForms ==
    LET part(headers, bytes) == [headers |-> headers, data |-> bytes] IN
    {<<part("file", d)>> : d \in MCFormData}
    \cup {<<part(n, d), part("file", <<"x">>)>> : n \in {"", "c"}, d \in MCFormData}
    \cup {<<part("file", d), part(n, <<"x">>)>> : n \in {"file", "c"}, d \in MCFormData}
    \cup {<<part("c", d), part("c", <<"y">>)>> : d \in {<<>>, <<"D">>}}
MCRoleOrder == <<"anon", "authenticated", "service_role">>

\* Two collections whose names are alike but for a capital or an underscore; one has an id that is
\* another's name.
MCListedIds == {<<"i">>, <<"a">>}
MCListedNames == {<<"a">>, <<"A">>, <<"_">>}
MCLowerOf == [c \in {"A"} |-> "a"]
MCSought == {<<"i">>, <<"a">>, <<"_">>}
MCClaims == {[id |-> i, collectionId |-> c] : i \in {"r1"}, c \in {<<"i">>, <<"a">>}}
MCExpandLists ==
    LET paths == {<<>>, <<"a">>, <<"a", "b">>, <<"", "a", "">>, <<"a", "", "b">>, <<"ab">>, <<"via">>, <<"b", "a">>} IN
    UNION {[1..n -> paths] : n \in 0..3}
MCConditions == {[column |-> c, op |-> o, value |-> v] : c \in {"x"}, o \in {"=", "!=", "~", "!~", ">="}, v \in {<<>>, <<"w">>, <<"w", "'", "w">>, <<"=">>}}

\* What only the one in focus chooses is chosen once for the others.
Init ==
    /\ focus \in
        {"backups", "logs", "limits", "functions", "sdk", "models", "stores", "requests",
         "queries", "embeds", "sync", "collections", "records", "forms", "users", "search",
         "paths", "fields", "cron", "pipeline", "access", "uploads", "roles", "finds",
         "accounts", "topics"}
    /\ BackupInit /\ LogInit /\ LimitInit /\ FunctionInit /\ SdkInit
    /\ focus # "sdk" => \A a \in AuthCalls : asking[a] = Nothing
    /\ ModelInit /\ StoreInit /\ RestInit
    /\ focus # "requests" => backend = "memory" /\ table = [i \in Ids |-> Absent]
    /\ QueryInit /\ EmbedInit
    /\ focus # "embeds" => tables = CHOOSE t \in Snapshots : TRUE
    /\ SyncInit /\ CollectionInit /\ RecordInit /\ FormInit
    /\ focus # "forms" => ~form.isNew
    /\ UserInit /\ SearchInit /\ PathInit /\ FieldInit /\ CronTickInit /\ PipelineInit /\
       AccessInit /\ UploadInit /\ RoleInit
    /\ focus # "roles" => power = "none" /\ settable = {} /\ \A r \in AllRoles : cluster[r] = "missing"
    /\ FindInit
    /\ focus # "finds" => listing = CHOOSE l \in [{<<"i">>} -> [name : {<<"a">>}, auth : {TRUE}, relations : {{}}]] : TRUE
    /\ AccountsInit /\ SubscriptionInit

BackupAlone ==
    focus = "backups" /\ UNCHANGED <<focus,
        logVars, limitVars, functionVars, sdkVars, modelVars, storeVars, restVars, queryVars,
        embedVars, syncVars, collectionVars, recordVars, formVars, userVars, searchVars,
        pathVars, fieldVars, cronTickVars, pipelineVars, accessVars, uploadVars, roleVars,
        findVars, accountsVars, subscriptionVars>>
LogAlone ==
    focus = "logs" /\ UNCHANGED <<focus,
        backupVars, limitVars, functionVars, sdkVars, modelVars, storeVars, restVars,
        queryVars, embedVars, syncVars, collectionVars, recordVars, formVars, userVars,
        searchVars, pathVars, fieldVars, cronTickVars, pipelineVars, accessVars, uploadVars,
        roleVars, findVars, accountsVars, subscriptionVars>>
LimitAlone ==
    focus = "limits" /\ UNCHANGED <<focus,
        backupVars, logVars, functionVars, sdkVars, modelVars, storeVars, restVars, queryVars,
        embedVars, syncVars, collectionVars, recordVars, formVars, userVars, searchVars,
        pathVars, fieldVars, cronTickVars, pipelineVars, accessVars, uploadVars, roleVars,
        findVars, accountsVars, subscriptionVars>>
FunctionAlone ==
    focus = "functions" /\ UNCHANGED <<focus,
        backupVars, logVars, limitVars, sdkVars, modelVars, storeVars, restVars, queryVars,
        embedVars, syncVars, collectionVars, recordVars, formVars, userVars, searchVars,
        pathVars, fieldVars, cronTickVars, pipelineVars, accessVars, uploadVars, roleVars,
        findVars, accountsVars, subscriptionVars>>
SdkAlone ==
    focus = "sdk" /\ UNCHANGED <<focus,
        backupVars, logVars, limitVars, functionVars, modelVars, storeVars, restVars,
        queryVars, embedVars, syncVars, collectionVars, recordVars, formVars, userVars,
        searchVars, pathVars, fieldVars, cronTickVars, pipelineVars, accessVars, uploadVars,
        roleVars, findVars, accountsVars, subscriptionVars>>
ModelAlone ==
    focus = "models" /\ UNCHANGED <<focus,
        backupVars, logVars, limitVars, functionVars, sdkVars, storeVars, restVars, queryVars,
        embedVars, syncVars, collectionVars, recordVars, formVars, userVars, searchVars,
        pathVars, fieldVars, cronTickVars, pipelineVars, accessVars, uploadVars, roleVars,
        findVars, accountsVars, subscriptionVars>>
StoreAlone ==
    focus = "stores" /\ UNCHANGED <<focus,
        backupVars, logVars, limitVars, functionVars, sdkVars, modelVars, restVars, queryVars,
        embedVars, syncVars, collectionVars, recordVars, formVars, userVars, searchVars,
        pathVars, fieldVars, cronTickVars, pipelineVars, accessVars, uploadVars, roleVars,
        findVars, accountsVars, subscriptionVars>>
RestAlone ==
    focus = "requests" /\ UNCHANGED <<focus,
        backupVars, logVars, limitVars, functionVars, sdkVars, modelVars, storeVars, queryVars,
        embedVars, syncVars, collectionVars, recordVars, formVars, userVars, searchVars,
        pathVars, fieldVars, cronTickVars, pipelineVars, accessVars, uploadVars, roleVars,
        findVars, accountsVars, subscriptionVars>>
QueryAlone ==
    focus = "queries" /\ UNCHANGED <<focus,
        backupVars, logVars, limitVars, functionVars, sdkVars, modelVars, storeVars, restVars,
        embedVars, syncVars, collectionVars, recordVars, formVars, userVars, searchVars,
        pathVars, fieldVars, cronTickVars, pipelineVars, accessVars, uploadVars, roleVars,
        findVars, accountsVars, subscriptionVars>>
EmbedAlone ==
    focus = "embeds" /\ UNCHANGED <<focus,
        backupVars, logVars, limitVars, functionVars, sdkVars, modelVars, storeVars, restVars,
        queryVars, syncVars, collectionVars, recordVars, formVars, userVars, searchVars,
        pathVars, fieldVars, cronTickVars, pipelineVars, accessVars, uploadVars, roleVars,
        findVars, accountsVars, subscriptionVars>>
SyncAlone ==
    focus = "sync" /\ UNCHANGED <<focus,
        backupVars, logVars, limitVars, functionVars, sdkVars, modelVars, storeVars, restVars,
        queryVars, embedVars, collectionVars, recordVars, formVars, userVars, searchVars,
        pathVars, fieldVars, cronTickVars, pipelineVars, accessVars, uploadVars, roleVars,
        findVars, accountsVars, subscriptionVars>>
CollectionAlone ==
    focus = "collections" /\ UNCHANGED <<focus,
        backupVars, logVars, limitVars, functionVars, sdkVars, modelVars, storeVars, restVars,
        queryVars, embedVars, syncVars, recordVars, formVars, userVars, searchVars, pathVars,
        fieldVars, cronTickVars, pipelineVars, accessVars, uploadVars, roleVars, findVars,
        accountsVars, subscriptionVars>>
RecordAlone ==
    focus = "records" /\ UNCHANGED <<focus,
        backupVars, logVars, limitVars, functionVars, sdkVars, modelVars, storeVars, restVars,
        queryVars, embedVars, syncVars, collectionVars, formVars, userVars, searchVars,
        pathVars, fieldVars, cronTickVars, pipelineVars, accessVars, uploadVars, roleVars,
        findVars, accountsVars, subscriptionVars>>
FormAlone ==
    focus = "forms" /\ UNCHANGED <<focus,
        backupVars, logVars, limitVars, functionVars, sdkVars, modelVars, storeVars, restVars,
        queryVars, embedVars, syncVars, collectionVars, recordVars, userVars, searchVars,
        pathVars, fieldVars, cronTickVars, pipelineVars, accessVars, uploadVars, roleVars,
        findVars, accountsVars, subscriptionVars>>
UserAlone ==
    focus = "users" /\ UNCHANGED <<focus,
        backupVars, logVars, limitVars, functionVars, sdkVars, modelVars, storeVars, restVars,
        queryVars, embedVars, syncVars, collectionVars, recordVars, formVars, searchVars,
        pathVars, fieldVars, cronTickVars, pipelineVars, accessVars, uploadVars, roleVars,
        findVars, accountsVars, subscriptionVars>>
SearchAlone ==
    focus = "search" /\ UNCHANGED <<focus,
        backupVars, logVars, limitVars, functionVars, sdkVars, modelVars, storeVars, restVars,
        queryVars, embedVars, syncVars, collectionVars, recordVars, formVars, userVars,
        pathVars, fieldVars, cronTickVars, pipelineVars, accessVars, uploadVars, roleVars,
        findVars, accountsVars, subscriptionVars>>
PathAlone ==
    focus = "paths" /\ UNCHANGED <<focus,
        backupVars, logVars, limitVars, functionVars, sdkVars, modelVars, storeVars, restVars,
        queryVars, embedVars, syncVars, collectionVars, recordVars, formVars, userVars,
        searchVars, fieldVars, cronTickVars, pipelineVars, accessVars, uploadVars, roleVars,
        findVars, accountsVars, subscriptionVars>>
FieldAlone ==
    focus = "fields" /\ UNCHANGED <<focus,
        backupVars, logVars, limitVars, functionVars, sdkVars, modelVars, storeVars, restVars,
        queryVars, embedVars, syncVars, collectionVars, recordVars, formVars, userVars,
        searchVars, pathVars, cronTickVars, pipelineVars, accessVars, uploadVars, roleVars,
        findVars, accountsVars, subscriptionVars>>
CronTickAlone ==
    focus = "cron" /\ UNCHANGED <<focus,
        backupVars, logVars, limitVars, functionVars, sdkVars, modelVars, storeVars, restVars,
        queryVars, embedVars, syncVars, collectionVars, recordVars, formVars, userVars,
        searchVars, pathVars, fieldVars, pipelineVars, accessVars, uploadVars, roleVars,
        findVars, accountsVars, subscriptionVars>>
PipelineAlone ==
    focus = "pipeline" /\ UNCHANGED <<focus,
        backupVars, logVars, limitVars, functionVars, sdkVars, modelVars, storeVars, restVars,
        queryVars, embedVars, syncVars, collectionVars, recordVars, formVars, userVars,
        searchVars, pathVars, fieldVars, cronTickVars, accessVars, uploadVars, roleVars,
        findVars, accountsVars, subscriptionVars>>
AccessAlone ==
    focus = "access" /\ UNCHANGED <<focus,
        backupVars, logVars, limitVars, functionVars, sdkVars, modelVars, storeVars, restVars,
        queryVars, embedVars, syncVars, collectionVars, recordVars, formVars, userVars,
        searchVars, pathVars, fieldVars, cronTickVars, pipelineVars, uploadVars, roleVars,
        findVars, accountsVars, subscriptionVars>>
UploadAlone ==
    focus = "uploads" /\ UNCHANGED <<focus,
        backupVars, logVars, limitVars, functionVars, sdkVars, modelVars, storeVars, restVars,
        queryVars, embedVars, syncVars, collectionVars, recordVars, formVars, userVars,
        searchVars, pathVars, fieldVars, cronTickVars, pipelineVars, accessVars, roleVars,
        findVars, accountsVars, subscriptionVars>>
RoleAlone ==
    focus = "roles" /\ UNCHANGED <<focus,
        backupVars, logVars, limitVars, functionVars, sdkVars, modelVars, storeVars, restVars,
        queryVars, embedVars, syncVars, collectionVars, recordVars, formVars, userVars,
        searchVars, pathVars, fieldVars, cronTickVars, pipelineVars, accessVars, uploadVars,
        findVars, accountsVars, subscriptionVars>>
FindAlone ==
    focus = "finds" /\ UNCHANGED <<focus,
        backupVars, logVars, limitVars, functionVars, sdkVars, modelVars, storeVars, restVars,
        queryVars, embedVars, syncVars, collectionVars, recordVars, formVars, userVars,
        searchVars, pathVars, fieldVars, cronTickVars, pipelineVars, accessVars, uploadVars,
        roleVars, accountsVars, subscriptionVars>>
AccountsAlone ==
    focus = "accounts" /\ UNCHANGED <<focus,
        backupVars, logVars, limitVars, functionVars, sdkVars, modelVars, storeVars, restVars,
        queryVars, embedVars, syncVars, collectionVars, recordVars, formVars, userVars,
        searchVars, pathVars, fieldVars, cronTickVars, pipelineVars, accessVars, uploadVars,
        roleVars, findVars, subscriptionVars>>
SubscriptionAlone ==
    focus = "topics" /\ UNCHANGED <<focus,
        backupVars, logVars, limitVars, functionVars, sdkVars, modelVars, storeVars, restVars,
        queryVars, embedVars, syncVars, collectionVars, recordVars, formVars, userVars,
        searchVars, pathVars, fieldVars, cronTickVars, pipelineVars, accessVars, uploadVars,
        roleVars, findVars, accountsVars>>

Next ==
    \/ BackupAlone /\ BackupNext
    \/ LogAlone /\ LogNext
    \/ LimitAlone /\ LimitNext
    \/ FunctionAlone /\ FunctionNext
    \/ SdkAlone /\ SdkNext
    \/ ModelAlone /\ ModelNext
    \/ StoreAlone /\ StoreNext
    \/ RestAlone /\ RestNext
    \/ QueryAlone /\ QueryNext
    \/ EmbedAlone /\ EmbedNext
    \/ SyncAlone /\ SyncNext
    \/ CollectionAlone /\ CollectionNext
    \/ RecordAlone /\ RecordNext
    \/ FormAlone /\ FormNext
    \/ UserAlone /\ UserNext
    \/ SearchAlone /\ SearchNext
    \/ PathAlone /\ PathNext
    \/ FieldAlone /\ FieldNext
    \/ CronTickAlone /\ CronTickNext
    \/ PipelineAlone /\ PipelineNext
    \/ AccessAlone /\ AccessNext
    \/ UploadAlone /\ UploadNext
    \/ RoleAlone /\ RoleNext
    \/ FindAlone /\ FindNext
    \/ AccountsAlone /\ AccountsNext
    \/ SubscriptionAlone /\ SubscriptionNext

vars ==
    <<focus,
      backupVars, logVars, limitVars, functionVars, sdkVars, modelVars, storeVars, restVars,
      queryVars, embedVars, syncVars, collectionVars, recordVars, formVars, userVars,
      searchVars, pathVars, fieldVars, cronTickVars, pipelineVars, accessVars, uploadVars,
      roleVars, findVars, accountsVars, subscriptionVars>>
Spec == Init /\ [][Next]_vars

\* The variables of all have their types.
TypeOK ==
    /\ focus = "backups" => BackupTypeOK
    /\ focus = "logs" => LogTypeOK
    /\ focus = "limits" => LimitTypeOK
    /\ focus = "functions" => FunctionTypeOK
    /\ focus = "sdk" => SdkTypeOK
    /\ focus = "models" => ModelTypeOK
    /\ focus = "stores" => StoreTypeOK
    /\ focus = "requests" => RestTypeOK
    /\ focus = "queries" => QueryTypeOK
    /\ focus = "embeds" => EmbedTypeOK
    /\ focus = "sync" => SyncTypeOK
    /\ focus = "collections" => CollectionTypeOK
    /\ focus = "records" => RecordTypeOK
    /\ focus = "forms" => FormTypeOK
    /\ focus = "users" => UserTypeOK
    /\ focus = "search" => SearchTypeOK
    /\ focus = "paths" => PathTypeOK
    /\ focus = "fields" => FieldTypeOK
    /\ focus = "cron" => CronTickTypeOK
    /\ focus = "pipeline" => PipelineTypeOK
    /\ focus = "access" => AccessTypeOK
    /\ focus = "uploads" => UploadTypeOK
    /\ focus = "roles" => RoleTypeOK
    /\ focus = "finds" => FindTypeOK
    /\ focus = "accounts" => AccountsTypeOK
    /\ focus = "topics" => SubscriptionTypeOK
\* What is written is read as it was meant: search filters and paths, the SDK's filters, embeds,
\* forms, values and lists of fields; pages have all rows; a path leads to its field.
MeaningsHold ==
    /\ focus = "search" => SelectsMeaning /\ PagesAddUp
    /\ focus = "paths" => PathsLeadRight
    /\ focus = "queries" => SelectsAsMeant
    /\ focus = "embeds" => SelectsRoundTrip /\ EmbedsAsJoined
    /\ focus = "uploads" => FormsAsSent
    /\ focus = "fields" => KeptAsItself /\ SchemaFits /\ FieldCanBeGiven
    /\ focus = "sync" => ListsAreStable
    /\ focus = "finds" => PathsCovered /\ FiltersAsWritten
    /\ focus = "users" => PagesCover
=================================================================================
