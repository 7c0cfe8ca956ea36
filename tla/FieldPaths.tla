------------------------------- MODULE FieldPaths -------------------------------
(***************************************************************************)
(* How a field path of a filter becomes an identifier and joins: the       *)
(* resolver of a collection's rules (record_field_resolver*.ts).  Paths go *)
(* through relations and back relations; the only collection that can be   *)
(* loaded is the resolver's own, so that they start there and stay there.  *)
(*                                                                         *)
(* A field is [type, hidden, multiple, unique]; a property of a path is    *)
(* [name, via, modifier], via being the field of a back relation or Plain. *)
(* An alias is the sequence of names it is made of.                        *)
(***************************************************************************)
EXTENDS Integers, Sequences, FiniteSets

CONSTANTS PathFields,     \* the fields of the collection: name -> field
          OfAccounts,     \* whether it is an auth collection
          AllowHidden,    \* whether the resolver may use hidden fields
          AuthId,         \* id of the account that asks, or Plain for nobody
          BodyIds,        \* ids the body gives: relation field -> ids, one for a single one
          RequestData,    \* the rest of the request: nested [map], [list], [text], or [null],
                    \* a text that is JSON being what it parses to
          RequestKeys,    \* keys that filters follow in it, texts as the indices of a list are
          Tables,         \* contents of the collection: id -> field -> id, or set of ids and values
          MaxNestedRels,  \* how many relations a path may follow
          MaxPaths        \* how many paths a filter has

VARIABLES joins,          \* the joins registered, [alias, on] in order
          walk,           \* the path being resolved
          walked          \* the paths resolved, with what each stands for
pathVars == <<joins, walk, walked>>

\* An auth collection has one email of an account, and every field has a name.
Plain == ""               \* no field of a back relation, no modifier, nobody
ASSUME PathFieldsAssumption ==
    /\ Plain \notin DOMAIN PathFields
    /\ OfAccounts /\ "email" \in DOMAIN PathFields => ~PathFields["email"].multiple
ASSUME RequestKeysAssumption == \A keys \in RequestKeys : keys \in Seq({keys[i] : i \in DOMAIN keys})

NoWalk == [at |-> "idle"]
Missing == "(none)"
Prop(name, via, modifier) == [name |-> name, via |-> via, modifier |-> modifier]
\* What ":lower" and ":length" do to a value is left out.
PathModifiers == {Plain, "each"}

PathInit == joins = <<>> /\ walk = NoWalk /\ walked = <<>>

(* -------- joins -------- *)
JoinAs(alias, on) == [alias |-> alias, on |-> on]
\* A join of the same alias takes the place of the earlier one.
RegisterJoin(list, join) ==
    IF \E i \in DOMAIN list : list[i].alias = join.alias
    THEN [i \in DOMAIN list |-> IF list[i].alias = join.alias THEN join ELSE list[i]]
    ELSE Append(list, join)

\* What PostgreSQL makes of a join, when the aliases before it stand for rows or elements: each row
\* or element it matches, or Missing.
MatchesOf(on, env, table) ==
    LET found == CASE on.kind = "all" -> DOMAIN table
                   [] on.kind = "ids" -> on.ids \cap DOMAIN table
                   [] on.kind = "each" -> IF env[on.from] = Missing THEN {} ELSE table[env[on.from]][on.field]
                   [] on.kind = "element" -> {env[on.from]} \cap DOMAIN table
                   [] on.kind = "rel" -> IF env[on.from] = Missing THEN {} ELSE {table[env[on.from]][on.field]} \cap DOMAIN table
                   [] on.kind = "back" -> {id \in DOMAIN table : env[on.from] # Missing /\ table[id][on.field] = env[on.from]}
    IN  IF found = {} THEN {Missing} ELSE found

\* The rows of all joins, from one row of the collection.
JoinedRows(list, alias, id, table) ==
    LET rows[i \in 0..Len(list)] ==
            IF i = 0 THEN {[a \in {alias} |-> id]}
            ELSE UNION {{[a \in DOMAIN env \cup {list[i].alias} |-> IF a = list[i].alias THEN m ELSE env[a]] :
                            m \in MatchesOf(list[i].on, env, table)} : env \in rows[i - 1]}
    IN  rows[Len(list)]

\* The values an identifier has in them, null aside.
ValuesOf(list, alias, id, identifier, table) ==
    LET rows == {env[identifier.alias] : env \in JoinedRows(list, alias, id, table)} \ {Missing}
    IN  {IF identifier.field = "value" THEN row ELSE table[row][identifier.field] : row \in rows}

(* -------- starts -------- *)
Base == <<"base">>
BeginPath(first, alias, multi, mm, mmJoins) ==
    /\ walk = NoWalk /\ Len(walked) < MaxPaths /\ UNCHANGED walked
    /\ walk' = [at |-> "walking", start |-> first, alias |-> alias, multi |-> multi, path |-> <<>>, mm |-> mm,
                mmJoins |-> mmJoins]

AtBase == BeginPath(<<"base">>, Base, FALSE, <<"mm">> \o Base, <<>>) /\ UNCHANGED joins
StartAt(first, alias, multi, on) ==
    /\ BeginPath(first, alias, multi, <<"mm">> \o alias, <<JoinAs(<<"mm">> \o alias, on)>>)
    /\ joins' = RegisterJoin(joins, JoinAs(alias, on))

\* Any row of a collection; the account that asks; the rows a body names for a relation.
ProcessCollectionField == StartAt(<<"collection">>, <<"collection", "base">>, TRUE, [kind |-> "all"])
ProcessRequestAuthField ==
    AuthId # Plain /\ OfAccounts /\ StartAt(<<"auth">>, <<"auth", "base">>, FALSE, [kind |-> "ids", ids |-> {AuthId}])
ProcessRequestBodyRelationField(field) ==
    /\ PathFields[field].type = "relation" /\ field \in DOMAIN BodyIds
    /\ StartAt(<<"body", field>>, <<"data", "base", field>>, PathFields[field].multiple, [kind |-> "ids", ids |-> BodyIds[field]])

(* -------- steps -------- *)
Walking == walk.at = "walking"
Knows(name) == name \in DOMAIN PathFields
NonFilterable(name) == Knows(name) /\ PathFields[name].hidden /\ ~AllowHidden
\* The field that a property goes through.
FieldOf(prop) == IF prop.via = Plain THEN prop.name ELSE prop.via
Followed(prop) == Append(walk.path, prop)

\* A path is refused at a field that is hidden or missing, that is no relation, or after too many
\* relations, and the filter with it.
Refuse(prop) ==
    /\ Walking /\ walk' = [at |-> "refused"] /\ UNCHANGED <<joins, walked>>
    /\ \/ NonFilterable(FieldOf(prop))
       \/ ~Knows(FieldOf(prop))
       \/ Len(walk.path) >= MaxNestedRels
       \/ PathFields[FieldOf(prop)].type # "relation"

\* The joins along a relation: of its row, or of its elements and their rows.
StepsAlong(alias, to, field, multiple) ==
    IF multiple THEN <<JoinAs(<<"je">> \o to, [kind |-> "each", from |-> alias, field |-> field]),
                       JoinAs(to, [kind |-> "element", from |-> <<"je">> \o to])>>
    ELSE <<JoinAs(to, [kind |-> "rel", from |-> alias, field |-> field])>>
Registered(list, new) == IF Len(new) = 2 THEN RegisterJoin(RegisterJoin(list, new[1]), new[2]) ELSE RegisterJoin(list, new[1])

FollowRelation(field) ==
    LET f == PathFields[field]
        to == Append(walk.alias, field)
        mmTo == Append(walk.mm, field) IN
    /\ Walking /\ Knows(field) /\ f.type = "relation" /\ ~NonFilterable(field) /\ Len(walk.path) < MaxNestedRels
    /\ joins' = Registered(joins, StepsAlong(walk.alias, to, field, f.multiple))
    /\ walk' = [walk EXCEPT !.alias = to, !.mm = mmTo, !.multi = @ \/ f.multiple, !.path = Followed(Prop(field, Plain, Plain)),
                            !.mmJoins = @ \o StepsAlong(walk.mm, mmTo, field, f.multiple)]
    /\ UNCHANGED walked

\* The rows that refer to the row: one when the field has an index of its own that is unique.  (The
\* join of a multiple field comes before the row it is of, which PostgreSQL refuses.)
FollowBackRelation(field) ==
    LET f == PathFields[field]
        to == walk.alias \o <<"via", field>>
        mmTo == walk.mm \o <<"via", field>>
        step(alias, new) == JoinAs(new, [kind |-> "back", from |-> alias, field |-> field]) IN
    /\ Walking /\ Knows(field) /\ f.type = "relation" /\ ~f.multiple /\ ~NonFilterable(field)
    /\ Len(walk.path) < MaxNestedRels
    /\ joins' = RegisterJoin(joins, step(walk.alias, to))
    /\ walk' = [walk EXCEPT !.alias = to, !.mm = mmTo, !.multi = @ \/ ~f.unique, !.path = Followed(Prop("base", field, Plain)),
                            !.mmJoins = Append(@, step(walk.mm, mmTo))]
    /\ UNCHANGED walked

(* -------- ends -------- *)
Identifier(alias, field) == [alias |-> alias, field |-> field]
ResolvePath(name, modifier, identifier, mm, multi, list, mmList) ==
    /\ joins' = list /\ walk' = NoWalk
    /\ walked' = Append(walked,
          [start |-> walk.start, path |-> Followed(Prop(name, Plain, modifier)), identifier |-> identifier,
           multi |-> multi, mm |-> mm, mmJoins |-> mmList,
           guard |-> IF name = "email" /\ ~PathFields[name].multiple /\ ~AllowHidden /\ OfAccounts
                     THEN walk.alias ELSE <<>>])

\* The id of a related row is the relation's own value; each and length are of multiple fields.
FinalizePath(name, modifier) ==
    LET f == PathFields[name]
        je == <<"je">> \o Append(walk.alias, name)
        mmJe == <<"je">> \o Append(walk.mm, name)
        each(alias) == [kind |-> "each", from |-> alias, field |-> name] IN
    /\ Walking /\ Knows(name) /\ ~NonFilterable(name)
    /\ IF modifier = "each" /\ f.multiple
       THEN ResolvePath(name, modifier, Identifier(je, "value"), Identifier(mmJe, "value"), TRUE,
                 RegisterJoin(joins, JoinAs(je, each(walk.alias))), Append(walk.mmJoins, JoinAs(mmJe, each(walk.mm))))
       ELSE ResolvePath(name, Plain, Identifier(walk.alias, name),
                 Identifier(walk.mm, name), walk.multi, joins, walk.mmJoins)

RelatedId(field) ==
    /\ Walking /\ Knows(field) /\ PathFields[field].type = "relation" /\ ~PathFields[field].multiple /\ ~NonFilterable(field)
    /\ Len(walk.path) < MaxNestedRels
    /\ ResolvePath(field, Plain, Identifier(walk.alias, field), Identifier(walk.mm, field), walk.multi, joins, walk.mmJoins)

\* What follows a JSON field stays within its value.
JsonPath(field) ==
    /\ Walking /\ Knows(field) /\ PathFields[field].type = "json" /\ ~NonFilterable(field)
    /\ ResolvePath(field, Plain, Identifier(walk.alias, field), Identifier(walk.mm, field), walk.multi, joins, walk.mmJoins)

(* -------- values of the request -------- *)
NotThere == [missing |-> TRUE]
ValueIn(value, key) ==
    IF "map" \in DOMAIN value /\ key \in DOMAIN value.map THEN value.map[key]
    ELSE IF "list" \in DOMAIN value /\ key \in DOMAIN value.list THEN value.list[key]
    ELSE NotThere
\* A value is found in nested maps and lists by its keys, one after the other.
ValuesAlong(data, keys) ==
    LET at[i \in 0..Len(keys)] == IF i = 0 THEN data ELSE ValueIn(at[i - 1], keys[i]) IN at
ExtractNestedVal(data, keys) == ValuesAlong(data, keys)[Len(keys)]

\* A value is bound to a placeholder; ":isset" asks whether it is there, null or not.
ResolveStaticRequestField(keys, modifier) ==
    LET value == ExtractNestedVal(RequestData, keys) IN
    /\ walk = NoWalk /\ Len(walked) < MaxPaths /\ UNCHANGED <<joins, walk>>
    /\ walked' = Append(walked,
          [start |-> <<"request">>, path |-> keys, modifier |-> modifier,
           stands |-> IF modifier = "isset" THEN (IF value = NotThere THEN "FALSE" ELSE "TRUE")
                      ELSE IF DOMAIN value \cap {"missing", "null"} # {} THEN "NULL" ELSE "param"])

PathNext ==
    \/ AtBase \/ ProcessCollectionField \/ ProcessRequestAuthField
    \/ \E name \in DOMAIN PathFields :
         \/ ProcessRequestBodyRelationField(name) \/ FollowRelation(name) \/ FollowBackRelation(name)
         \/ RelatedId(name) \/ JsonPath(name) \/ \E modifier \in PathModifiers : FinalizePath(name, modifier)
         \/ Refuse(Prop(name, Plain, Plain))
    \/ \E keys \in RequestKeys, modifier \in {Plain, "isset"} : ResolveStaticRequestField(keys, modifier)

PathSpec == PathInit /\ [][PathNext]_pathVars

PathTypeOK == walk.at \in {"idle", "walking", "refused"} /\ Len(walked) <= MaxPaths

(* -------- properties -------- *)

\* Unless hidden fields are allowed, no path that resolves goes through one, and the email of an
\* account is only compared where its owner shows it.
HiddenStayHidden ==
    \A i \in {k \in DOMAIN walked : walked[k].start # <<"request">>} :
        LET path == walked[i].path
            fields == {FieldOf(path[k]) : k \in DOMAIN path} IN
        ~AllowHidden =>
            /\ \A f \in fields : ~PathFields[f].hidden
            /\ OfAccounts /\ path[Len(path)].name = "email" => walked[i].guard = walked[i].identifier.alias

\* The rows a path leads to from a row.
Reached(w, id, table) ==
    LET start == CASE w.start = <<"base">> -> {id} [] w.start = <<"collection">> -> DOMAIN table
                   [] w.start = <<"auth">> -> {AuthId} \cap DOMAIN table [] OTHER -> BodyIds[w.start[2]] \cap DOMAIN table
        step(from, p) ==
            IF p.via # Plain THEN {r \in DOMAIN table : table[r][p.via] \in from}
            ELSE UNION {IF PathFields[p.name].multiple THEN table[r][p.name] ELSE {table[r][p.name]} : r \in from} \cap DOMAIN table
        at[i \in 0..(Len(w.path) - 1)] == IF i = 0 THEN start ELSE step(at[i - 1], w.path[i])
    IN  at[Len(w.path) - 1]

\* From any row, the joins of a filter's paths give each path the values that its relations lead to,
\* and so do the joins of its multi-match query; a path that may lead to several has that query.
PathsLeadRight ==
    walk = NoWalk =>
    \A i \in {k \in DOMAIN walked : walked[k].start # <<"request">>}, table \in Tables : \A id \in DOMAIN table :
        LET w == walked[i]
            last == w.path[Len(w.path)]
            own(r) == IF last.modifier = "each" THEN table[r][last.name] ELSE {table[r][last.name]}
            values == UNION {own(r) : r \in Reached(w, id, table)}
        IN  /\ ValuesOf(joins, Base, id, w.identifier, table) = values
            /\ ValuesOf(w.mmJoins, <<"mm">> \o Base, id, w.mm, table) = values
            /\ Cardinality(values) > 1 => w.multi

\* What is read of the request hangs together: a value that is bound is set, and so is all it lies in.
RequestHangsTogether ==
    \A i, j \in {k \in DOMAIN walked : walked[k].start = <<"request">>} :
        LET within == Len(walked[i].path) <= Len(walked[j].path)
                      /\ SubSeq(walked[j].path, 1, Len(walked[i].path)) = walked[i].path IN
        within /\ walked[i].modifier = "isset" /\ walked[j].stands \in {"param", "TRUE"} => walked[i].stands = "TRUE"
=================================================================================
