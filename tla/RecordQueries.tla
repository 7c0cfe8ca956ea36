------------------------------- MODULE RecordQueries -------------------------------
(***************************************************************************)
(* How the core looks collections and records up: by id, by name, by the   *)
(* claims of a token, by a written filter, and along the paths of an       *)
(* expansion (collection_query.ts, record_query.ts,                        *)
(* record_query_expand.ts).  A lookup is several reads; the collections    *)
(* and the rows of their tables change between them.                       *)
(*                                                                         *)
(* A name is a sequence of characters; so is the pattern that it is        *)
(* matched against, in which "_" stands for any character.                 *)
(***************************************************************************)
EXTENDS Integers, Sequences, FiniteSets, SequencesExt

CONSTANTS ListedIds,      \* ids of collections, names as well
          ListedNames,    \* names that collections have
          LowerOf,        \* letters that are capitals -> the small ones
          RowIds,         \* ids of records
          Finders,        \* lookups
          Sought,         \* what is looked up: names or ids
          Claims,         \* claims of tokens, [id, collectionId], a claim not given being NoClaim
          NoClaim,
          ExpandLists,    \* expansions given: sequences of paths
          RelationFields, \* the fields of a record's collection that are relations
          Conditions,     \* conditions that filters are written with, [column, op, value]
          MaxListed       \* how many times collections and tables change

\* What is looked up is text, and no collection has the empty one for its id.
IsText(t) == t \in Seq(ToSet(t))
ASSUME TextAssumption ==
    /\ \A t \in ListedIds \cup ListedNames \cup Sought : IsText(t)
    /\ \A claims \in Claims : NoClaim \notin {claims.id, claims.collectionId} => IsText(claims.collectionId)
    /\ <<>> \notin ListedIds

VARIABLES listing,        \* the rows of _collections: id -> [name, auth, relations]
          rowsNamed,      \* the tables: name -> ids of their rows
          finds,          \* finder -> its lookup
          listed          \* how many changes
findVars == <<listing, rowsNamed, finds, listed>>

NoFind == [pc |-> "idle"]
NotFound == [id |-> <<>>, name |-> <<>>, auth |-> FALSE]

(* -------- rows and patterns -------- *)
LowerName(name) == [i \in DOMAIN name |-> IF name[i] \in DOMAIN LowerOf THEN LowerOf[name[i]] ELSE name[i]]
\* ILIKE with what was asked as its pattern.
ILike(name, pattern) ==
    /\ Len(name) = Len(pattern)
    /\ \A i \in DOMAIN name : pattern[i] = "_" \/ LowerName(name)[i] = LowerName(pattern)[i]

\* The fields read back are made without the collection that a relation leads to.
RowToCollection(id, row) ==
    [id |-> id, name |-> row.name, auth |-> row.auth,
     relations |-> {[field |-> r.field] : r \in row.relations}]
Identity(c) == [id |-> c.id, name |-> c.name, auth |-> c.auth]
AllCollections == {RowToCollection(id, listing[id]) : id \in DOMAIN listing}
CollectionsOf(auths) == {c \in AllCollections : auths = {} \/ c.auth \in auths}

(* -------- references and unique names -------- *)
\* The relations that lead to a collection, by the collection they are of.
ReferencesAmong(set, target, exclude) ==
    LET leading(c) == {r \in c.relations : "to" \in DOMAIN r /\ r.to = target}
        holders == {c \in set : c.id \notin exclude /\ leading(c) # {}}
    IN  [c \in holders |-> {r.field : r \in leading(c)}]
FindCollectionReferences(target, exclude) == ReferencesAmong(AllCollections, target, exclude)
FindCachedCollectionReferences(cached, target, exclude) ==
    IF cached = {} THEN [c \in {} |-> {}] ELSE ReferencesAmong(cached, target, exclude)

\* The ids to leave out are the ids that are counted.
IsCollectionNameUnique(name, excludeIds) ==
    /\ name # <<>>
    /\ {id \in DOMAIN listing : ILike(listing[id].name, name) /\ (excludeIds = {} \/ id \in excludeIds)} = {}

(* -------- records -------- *)
\* A table's rows come in any order: what the first of them may be.
AnyRowOf(rows) == IF rows = {} THEN {NoClaim} ELSE rows
RowsNamed(name) == IF name \in DOMAIN rowsNamed THEN rowsNamed[name] ELSE {}
FindRecordById(name, id) == AnyRowOf(RowsNamed(name) \cap {id})
FindRecordsByIds(name, ids) == IF ids = {} THEN {} ELSE RowsNamed(name) \cap ids
FindAllRecords(name, matches) == {r \in RowsNamed(name) : \A m \in matches : r \in m}
FindFirstRecordByData(name, having) == AnyRowOf(RowsNamed(name) \cap having)
FindRecordsByFilter(name, matches, limit) == {page \in SUBSET FindAllRecords(name, matches) :
    Cardinality(page) = (IF Cardinality(FindAllRecords(name, matches)) < limit THEN Cardinality(FindAllRecords(name, matches)) ELSE limit)}
FindFirstRecordByFilter(name, matches) == AnyRowOf(UNION FindRecordsByFilter(name, matches, 1))
CountRecords(name, matches) == Cardinality(FindAllRecords(name, matches))
CanAccessRecord(rule) == rule # "null"

(* -------- written filters -------- *)
\* A filter is a sequence of words, operators, quotes and "&&".
OperatorMap ==
    [o \in {"=", "!=", ">", ">=", "<", "<=", "~", "!~"} |->
        CASE o = "=" -> "eq" [] o = "!=" -> "neq" [] o = ">" -> "gt" [] o = ">=" -> "gte"
          [] o = "<" -> "lt" [] o = "<=" -> "lte" [] o = "~" -> "like" [] o = "!~" -> "not"]
FilterParts(text) ==
    LET cuts == {0, Len(text) + 1} \cup {i \in DOMAIN text : text[i] = "&&"}
        next(i) == CHOOSE j \in cuts : j > i /\ \A k \in cuts : k > i => j <= k
        starts == SetToSortSeq(cuts \ {Len(text) + 1}, <)
    IN  [n \in DOMAIN starts |-> SubSeq(text, starts[n] + 1, next(starts[n]) - 1)]
Unquote(value) ==
    LET open == IF value # <<>> /\ value[1] = "'" THEN Tail(value) ELSE value
    IN  IF open # <<>> /\ open[Len(open)] = "'" THEN Front(open) ELSE open
Readable(part) == Len(part) > 2 /\ part[1] # "'" /\ part[1] \notin DOMAIN OperatorMap /\ part[2] \in DOMAIN OperatorMap
\* Parts that cannot be read are left out, and the order asked for is not used.
ParseFilterString(text) ==
    LET parts == SelectSeq(FilterParts(text), Readable)
    IN  [n \in DOMAIN parts |-> [column |-> parts[n][1], operator |-> OperatorMap[parts[n][2]],
                                 value |-> Unquote(SubSeq(parts[n], 3, Len(parts[n])))]]

(* -------- expansions -------- *)
\* A path is the sequence of its parts, empty ones between two dots; dots at its ends go.
CleanPath(path) ==
    LET full == {i \in DOMAIN path : path[i] # ""}
        first == CHOOSE i \in full : \A j \in full : i <= j
        last == CHOOSE i \in full : \A j \in full : j <= i
    IN  IF full = {} THEN <<>> ELSE SubSeq(path, first, last)
ParseExpands(given) == SelectSeq(given, LAMBDA path : path # <<>>)
\* A path goes when a shorter one leads along it.
NormalizeExpands(paths) ==
    LET cleaned == SelectSeq([i \in DOMAIN paths |-> CleanPath(paths[i])], LAMBDA p : p # <<>>)
        first(i) == \A j \in 1..(i - 1) : cleaned[j] # cleaned[i]
        kept == {i \in DOMAIN cleaned : first(i) /\ \A j \in DOMAIN cleaned : ~IsStrictPrefix(cleaned[j], cleaned[i])}
        order == SetToSortSeq(kept, <)
    IN  [n \in DOMAIN order |-> cleaned[order[n]]]

\* A path back through another collection is not implemented, and the collection that a relation
\* leads to is not looked up.
ExpandIndirectRelation == "not implemented"
ExpandDirectRelation(field) == IF field \notin RelationFields THEN "no relation" ELSE "no collection"
ExpandRecordsInternal(count, path) ==
    IF count = 0 THEN "done" ELSE IF path[1] = "via" THEN ExpandIndirectRelation ELSE ExpandDirectRelation(path[1])
\* Each path that fails, with its error; the records stay as they are.
ExpandRecords(count, paths) ==
    LET kept == ToSet(NormalizeExpands(paths))
        failed == {p \in kept : ExpandRecordsInternal(count, p) # "done"}
    IN  [p \in failed |-> ExpandRecordsInternal(count, p)]
\* What a list of records is answered with does not depend on it.
EnrichRecord(paths) == IF paths = <<>> THEN {} ELSE DOMAIN ExpandRecords(1, paths)

(* -------- collections and rows change -------- *)
\* What each lookup has seen: the collections that were there at any moment, and those that were there
\* at every moment.
Follow(after) ==
    LET now == {Identity(RowToCollection(id, after[id])) : id \in DOMAIN after} IN
    finds' = [p \in Finders |-> IF finds[p].pc \in {"idle", "done"} THEN finds[p]
                                ELSE [finds[p] EXCEPT !.ever = @ \cup now, !.always = @ \cap now]]
ChangeListed == listed < MaxListed /\ listed' = listed + 1
SaveListed(id, row) ==
    /\ ChangeListed /\ UNCHANGED rowsNamed
    /\ listing' = [i \in DOMAIN listing \cup {id} |-> IF i = id THEN row ELSE listing[i]]
    /\ Follow(listing')
DropListed(id) ==
    /\ ChangeListed /\ id \in DOMAIN listing /\ UNCHANGED rowsNamed
    /\ listing' = [i \in DOMAIN listing \ {id} |-> listing[i]] /\ Follow(listing')
\* A table of another name, rows with it.
MoveTable(from, to) ==
    /\ ChangeListed /\ from \in DOMAIN rowsNamed /\ to \notin DOMAIN rowsNamed /\ UNCHANGED <<listing, finds>>
    /\ rowsNamed' = [n \in (DOMAIN rowsNamed \ {from}) \cup {to} |-> IF n = to THEN rowsNamed[from] ELSE rowsNamed[n]]
WriteRowsNamed(name, rows) ==
    /\ ChangeListed /\ name \in DOMAIN rowsNamed /\ UNCHANGED <<listing, finds>>
    /\ rowsNamed' = [rowsNamed EXCEPT ![name] = rows]

(* -------- lookups -------- *)
Now == {Identity(c) : c \in AllCollections}
\* for says what the collection is wanted for: itself, or the record that a token names.
BeginFind(p, asked, for) ==
    finds' = [finds EXCEPT ![p] = [pc |-> "byId", asked |-> asked, for |-> for, ever |-> Now, always |-> Now,
                                   found |-> NotFound, record |-> NoClaim]]
Keeps == UNCHANGED <<listing, rowsNamed, listed>>
\* A name that is not the text of one, but an object: no id and no name is like it.
ResolveCollection(asked) == NotFound

FindCachedByNameOrId(p, asked, cached) ==
    /\ finds[p].pc = "idle" /\ Keeps
    /\ LET match == {c \in cached : c.id = asked \/ LowerName(c.name) = LowerName(asked)} IN
       \/ match = {} /\ BeginFind(p, asked, NoClaim)
       \/ \E c \in match : finds' = [finds EXCEPT ![p] = [pc |-> "done", asked |-> asked, for |-> NoClaim, ever |-> cached,
                                                          always |-> cached, found |-> c, record |-> NoClaim]]
\* Without a secret no token can be verified.
FindAuthRecordByToken(p, claims, secret) ==
    /\ finds[p].pc = "idle" /\ Keeps
    /\ secret # "" /\ NoClaim \notin {claims.id, claims.collectionId}
    /\ BeginFind(p, claims.collectionId, claims.id)
ResolveRecordRequest(p, claims) == FindAuthRecordByToken(p, claims, "")

Finish(p, c) ==
    LET for == finds[p].for
        more == for # NoClaim /\ c.auth
    IN  finds' = [finds EXCEPT ![p].pc = IF more THEN "row" ELSE "done", ![p].found = c]
FindById(p) ==
    /\ finds[p].pc = "byId" /\ Keeps
    /\ LET match == {c \in Now : c.id = finds[p].asked} IN
       \/ match = {} /\ finds' = [finds EXCEPT ![p].pc = "byName"]
       \/ \E c \in match : Finish(p, c)
FindByName(p) ==
    /\ finds[p].pc = "byName" /\ Keeps
    /\ LET match == {c \in Now : ILike(c.name, finds[p].asked)} IN
       \/ match = {} /\ Finish(p, NotFound)
       \/ \E c \in match : Finish(p, c)
\* The row is of the table that has the collection's name as it was read; the promise is returned as
\* it is, so that a missing table is an error of the caller's.
FindRow(p) ==
    /\ finds[p].pc = "row" /\ Keeps
    /\ \E row \in FindRecordById(finds[p].found.name, finds[p].for) :
          finds' = [finds EXCEPT ![p].pc = IF finds[p].found.name \in DOMAIN rowsNamed THEN "done" ELSE "failed",
                                 ![p].record = row]

FindInit ==
    /\ \E i \in ListedIds, n \in ListedNames : listing = [id \in {i} |-> [name |-> n, auth |-> TRUE, relations |-> {}]]
    /\ rowsNamed = [n \in {listing[i].name : i \in DOMAIN listing} |-> RowIds]
    /\ finds = [p \in Finders |-> NoFind] /\ listed = 0
FindNext ==
    \/ \E id \in ListedIds, n \in ListedNames, auth \in BOOLEAN :
          SaveListed(id, [name |-> n, auth |-> auth, relations |-> {[field |-> "rel", to |-> id]}])
    \/ \E id \in ListedIds : DropListed(id)
    \/ \E from, to \in ListedNames : MoveTable(from, to)
    \/ \E n \in ListedNames, rows \in SUBSET RowIds : WriteRowsNamed(n, rows)
    \/ \E p \in Finders :
          \/ \E asked \in Sought, cached \in {{}, Now} : FindCachedByNameOrId(p, asked, cached)
          \/ \E claims \in Claims : FindAuthRecordByToken(p, claims, "s")
          \/ FindById(p) \/ FindByName(p) \/ FindRow(p)

FindSpec == FindInit /\ [][FindNext]_findVars

FindTypeOK ==
    /\ DOMAIN listing \subseteq ListedIds /\ DOMAIN rowsNamed \subseteq ListedNames
    /\ \A p \in Finders : finds[p].pc \in {"idle", "byId", "byName", "row", "done", "failed"}

(* -------- properties -------- *)
\* What does not depend on the state is looked at in the first ones.
AtStart == listed = 0 /\ \A p \in Finders : finds[p] = NoFind
\* A lookup answers a collection that has been there and is what was asked, and nothing only when no
\* collection was it all the time.
LookupsLeadRight ==
    \A p \in Finders : finds[p].pc \in {"row", "done", "failed"} =>
        LET f == finds[p] IN
        IF f.found = NotFound THEN \A c \in f.always : c.id # f.asked /\ LowerName(c.name) # LowerName(f.asked)
        ELSE f.found \in f.ever /\ (f.found.id = f.asked \/ ILike(f.found.name, f.asked))
\* A token leads to a record only by an auth collection, and to the record it names.
TokensLeadToAccounts ==
    \A p \in Finders : finds[p].pc = "done" /\ finds[p].record # NoClaim =>
        finds[p].found.auth /\ finds[p].record = finds[p].for
\* A name said to be unique is no collection's.
UniqueMeansFree == \A n \in ListedNames : IsCollectionNameUnique(n, {}) => \A id \in DOMAIN listing : LowerName(listing[id].name) # LowerName(n)
\* Every path asked for leads along one that is kept, in the order they were asked for; none that is
\* kept leads along another.
PathsCovered ==
    AtStart => \A given \in ExpandLists :
        LET kept == NormalizeExpands(given) IN
        /\ \A i \in DOMAIN given : CleanPath(given[i]) # <<>> => \E p \in ToSet(kept) : IsPrefix(p, CleanPath(given[i]))
        /\ \A i, j \in DOMAIN kept : IsPrefix(kept[i], kept[j]) => i = j
        /\ NormalizeExpands(kept) = kept
        /\ DOMAIN ExpandRecords(0, given) = {}
\* A filter of readable conditions selects by just those, in their order.
FiltersAsWritten ==
    AtStart => \A n \in 0..2 : \A written \in [1..n -> Conditions] :
        LET text(c) == <<c.column, c.op, "'">> \o c.value \o <<"'">>
            joined == IF n = 0 THEN <<>> ELSE IF n = 1 THEN text(written[1]) ELSE text(written[1]) \o <<"&&">> \o text(written[2])
        IN  ParseFilterString(joined) =
                [i \in 1..n |-> [column |-> written[i].column, operator |-> OperatorMap[written[i].op], value |-> written[i].value]]
====================================================================================
