-------------------------------- MODULE QueryPath --------------------------------
(***************************************************************************)
(* A query of the client library on its way through the server: the calls  *)
(* of sdk/database.ts print parameters, apis/postgrest.ts and              *)
(* tools/search/filter.ts parse them, and PostgreSQL or the memory database *)
(* selects the rows.  Text is a sequence of tokens: the punctuation the    *)
(* parsers look for, words and numbers.  The columns are of type text, and *)
(* the two databases put text in two different orders.                     *)
(***************************************************************************)
EXTENDS Integers, Sequences, FiniteSets, SequencesExt

CONSTANTS
    QueryRows,   \* rows of the table: [a |-> text or Null, b |-> text or Null]
    FilterCalls, \* calls of the builder's filters, see Printed
    MaxCalls,    \* bound on the filters of a query
    Windows,     \* what range(), limit() and offset() ask: [by, from, size]
    Collation,   \* tokens in the order of PostgreSQL's collation (external)
    Locale,      \* tokens in the order of localeCompare (external)
    NumberOf     \* what Number() makes of the texts that it takes for numbers

VARIABLES
    calls,   \* the calls made, at most one of a key
    window,  \* the page asked for
    params,  \* the parameters sent
    filters, \* the parsed filters: all of conj, and one group of disj when there is one
    found,   \* rows each database selects
    got      \* what the call resolves to, "" before

queryVars == <<calls, window, params, filters, found, got>>

Null == <<"(null)">>
NoFilters == [conj |-> {}, disj |-> {}]
NoRows == [postgres |-> {}, memory |-> {}]

QueryInit ==
    /\ calls = {} /\ window = [by |-> "none", from |-> 0, size |-> 0]
    /\ params = {} /\ filters = NoFilters /\ found = NoRows /\ got = "building"

(* -------- the builder -------- *)
\* in() quotes a value that has a comma, and not() prints what it is given.
Quoted(value) == IF "," \in Range(value) THEN <<"\"">> \o value \o <<"\"">> ELSE value
Joined(parts) == FlattenSeq([i \in DOMAIN parts |-> IF i = 1 THEN parts[i] ELSE <<",">> \o parts[i]])
InList(list) == <<"(">> \o Joined([i \in DOMAIN list |-> Quoted(list[i])]) \o <<")">>

\* A group of or(): conditions <<column, op, value>>, and(...) when there are several.
PrintedGroup(group) ==
    LET conds == [i \in DOMAIN group |-> <<group[i][1], ".", group[i][2], ".">> \o group[i][3]]
    IN  IF Len(group) = 1 THEN conds[1] ELSE <<"and", "(">> \o Joined(conds) \o <<")">>

Printed(call) ==
    CASE call.op = "or" -> <<"(">> \o Joined([i \in DOMAIN call.list |-> PrintedGroup(call.list[i])]) \o <<")">>
      [] call.op = "in" -> <<"in", ".">> \o InList(call.list)
      [] call.op = "is" -> <<"is", ".", "null">>
      [] call.op = "not.is" -> <<"not", ".", "is", ".", "null">>
      [] call.op = "not.eq" -> <<"not", ".", "eq", ".">> \o call.value
      [] OTHER -> <<call.op, ".">> \o call.value

Call(call) ==
    /\ got = "building" /\ Cardinality(calls) < MaxCalls /\ \A c \in calls : c.key # call.key
    /\ calls' = calls \cup {call}
    /\ UNCHANGED <<window, params, filters, found, got>>

\* The request goes out when the builder is awaited; range() takes the place of limit().
Execute(asked) ==
    /\ got = "building" /\ calls # {} /\ got' = "sent"
    /\ window' = asked
    /\ params' = {[key |-> c.key, raw |-> Printed(c)] : c \in calls}
    /\ UNCHANGED <<calls, filters, found>>

(* -------- the parsers -------- *)
NoFilter == [column |-> "", op |-> "", value |-> <<>>, negate |-> FALSE]
FirstOf(token, text) == IF token \in Range(text) THEN SelectInSeq(text, LAMBDA t : t = token) ELSE 0
From(text, i) == SubSeq(text, i, Len(text))

\* An operator is one word: it is the whole of what stands before the dot.
Word(text) == IF Len(text) = 1 THEN text[1] ELSE "?"

ParseFilterParam(key, raw) ==
    LET dot == FirstOf(".", raw)
        op == Word(SubSeq(raw, 1, dot - 1))
        rest == From(raw, dot + 1)
        inner == FirstOf(".", rest)
    IN  IF dot <= 1 THEN NoFilter
        ELSE IF op # "not" THEN [column |-> key, op |-> op, value |-> rest, negate |-> FALSE]
        ELSE IF inner = 0 THEN NoFilter
        ELSE [column |-> key, op |-> Word(SubSeq(rest, 1, inner - 1)), value |-> From(rest, inner + 1), negate |-> TRUE]

\* The pieces of a text between the commas that Splits allows.
Pieces(text, Splits(_)) ==
    LET cuts == {i \in DOMAIN text : text[i] = "," /\ Splits(i)}
        ends == SetToSortSeq(cuts \cup {0, Len(text) + 1}, <)
    IN  [i \in 1..(Len(ends) - 1) |-> SubSeq(text, ends[i] + 1, ends[i + 1] - 1)]
Count(token, text, upTo) == Cardinality({i \in 1..upTo : text[i] = token})
TopLevel(text) == Pieces(text, LAMBDA i : Count("(", text, i) = Count(")", text, i))
Unwrapped(text) ==
    IF Len(text) >= 2 /\ Head(text) = "(" /\ Last(text) = ")" THEN SubSeq(text, 2, Len(text) - 1) ELSE text

ParseSingleOrFilter(text) ==
    LET dot == FirstOf(".", text)
        rest == From(text, dot + 1)
        inner == FirstOf(".", rest)
    IN  IF dot = 0 \/ inner = 0 THEN NoFilter
        ELSE [column |-> Word(SubSeq(text, 1, dot - 1)), op |-> Word(SubSeq(rest, 1, inner - 1)),
              value |-> From(rest, inner + 1), negate |-> FALSE]

\* and(...) is split at every comma.
ParseOrFilters(raw) ==
    LET group(part) ==
            IF Len(part) > 3 /\ part[1] = "and" /\ part[2] = "(" /\ Last(part) = ")"
            THEN {ParseSingleOrFilter(p) : p \in Range(Pieces(SubSeq(part, 3, Len(part) - 1), LAMBDA i : TRUE))}
            ELSE {ParseSingleOrFilter(part)}
    IN  {group(p) \ {NoFilter} : p \in Range(TopLevel(Unwrapped(raw))) \ {<<>>}} \ {{}}

\* Quotes hide commas and are dropped, and so is an empty value.
ParseInValue(raw) ==
    LET inner == Unwrapped(raw)
        unquoted(text) == SelectSeq(text, LAMBDA t : t # "\"")
    IN  {unquoted(p) : p \in Range(Pieces(inner, LAMBDA i : Count("\"", inner, i) % 2 = 0))} \ {<<>>}

Parse ==
    /\ got = "sent" /\ got' = "parsed"
    /\ filters' = [conj |-> {ParseFilterParam(p.key, p.raw) : p \in {q \in params : q.key # "or"}} \ {NoFilter},
                   disj |-> UNION {ParseOrFilters(p.raw) : p \in {q \in params : q.key = "or"}}]
    /\ UNCHANGED <<calls, window, params, found>>

(* -------- the databases -------- *)
TextBefore(order, u, v) == \E k \in DOMAIN v :
    /\ k <= Len(u) + 1 /\ \A j \in 1..(k - 1) : u[j] = v[j]
    /\ k = Len(u) + 1 \/ FirstOf(u[k], order) < FirstOf(v[k], order)
SqlLess(u, v) == TextBefore(Collation, u, v)

\* Two numbers are compared as numbers, an empty value of the row as 0.
JsLess(u, v) ==
    IF {u, v} \subseteq DOMAIN NumberOf /\ v # <<>> THEN NumberOf[u] < NumberOf[v] ELSE TextBefore(Locale, u, v)

\* SQL: "true", "false", or "unknown" of a null.
Truth(holds) == IF holds THEN "true" ELSE "false"
Sql(row, f) ==
    LET v == row[f.column]
        base == IF f.op = "is" THEN Truth(v = Null)
                ELSE IF f.op = "neq" /\ f.value = <<"null">> THEN Truth(v # Null)
                ELSE IF f.op = "in" /\ ParseInValue(f.value) = {} THEN "false"
                ELSE IF v = Null THEN "unknown"
                ELSE CASE f.op = "eq" -> Truth(v = f.value)
                       [] f.op = "neq" -> Truth(v # f.value)
                       [] f.op = "lt" -> Truth(SqlLess(v, f.value))
                       [] f.op = "in" -> Truth(v \in ParseInValue(f.value))
    IN  IF ~f.negate \/ base = "unknown" THEN base ELSE Truth(base = "false")

\* JavaScript: a null equals nothing and is less than everything.
Js(row, f) ==
    LET v == row[f.column]
        base == CASE f.op = "is" -> v = Null
                  [] f.op = "neq" -> IF f.value = <<"null">> THEN v # Null ELSE v # f.value
                  [] f.op = "eq" -> v = f.value
                  [] f.op = "lt" -> v = Null \/ JsLess(v, f.value)
                  [] f.op = "in" -> v \in ParseInValue(f.value)
    IN  IF f.negate THEN ~base ELSE base

\* The rows all the filters pass, and the filters of one group of the or= if there is one.
Selected(holding) ==
    {row \in QueryRows : /\ filters.conj \subseteq holding[row]
                         /\ filters.disj # {} => \E g \in filters.disj : g \subseteq holding[row]}
\* PostgreSQL makes an error of an operator that has no expression and of a column that there is not.
AllFilters == filters.conj \cup UNION filters.disj
Understood(f) ==
    /\ f.column \in {"a", "b"} /\ f.op \in {"is", "in", "eq", "neq", "lt"}
    /\ f.op = "is" => f.value = <<"null">>
SelectRows ==
    /\ got = "parsed" /\ got' = "selected" /\ \A f \in AllFilters : Understood(f)
    /\ found' = [postgres |-> Selected([row \in QueryRows |-> {f \in AllFilters : Sql(row, f) = "true"}]),
                 memory |-> Selected([row \in QueryRows |-> {f \in AllFilters : Js(row, f)}])]
    /\ UNCHANGED <<calls, window, params, filters>>
RefuseFilter ==
    /\ got = "parsed" /\ got' = "refused" /\ \E f \in AllFilters : ~Understood(f)
    /\ UNCHANGED <<calls, window, params, filters, found>>

\* The page, and what single() and maybeSingle() make of it.
PageSize(total) ==
    LET left == IF total > window.from THEN total - window.from ELSE 0
    IN  IF window.by = "none" THEN total ELSE IF left < window.size THEN left ELSE window.size
Resolve(how) ==
    /\ got = "selected" /\ UNCHANGED <<calls, window, params, filters, found>>
    /\ LET size == PageSize(Cardinality(found.postgres))
       IN  got' = IF how = "rows" THEN "rows" ELSE IF size = 1 THEN "row"
                  ELSE IF size = 0 /\ how = "maybeSingle" THEN "nothing" ELSE "PGRST116"

QueryNext ==
    \/ \E call \in FilterCalls : Call(call)
    \/ \E asked \in Windows : Execute(asked)
    \/ Parse \/ SelectRows \/ RefuseFilter
    \/ \E how \in {"rows", "single", "maybeSingle"} : Resolve(how)

QuerySpec == QueryInit /\ [][QueryNext]_queryVars

QueryTypeOK ==
    /\ calls \subseteq FilterCalls /\ found.postgres \cup found.memory \subseteq QueryRows
    /\ got \in {"building", "sent", "parsed", "selected", "refused", "rows", "row", "nothing", "PGRST116"}

(* -------- what a call means -------- *)
Meets(row, cond) ==
    LET v == row[cond[1]] IN v # Null /\ CASE cond[2] = "eq" -> v = cond[3] [] cond[2] = "neq" -> v # cond[3]
                                            [] cond[2] = "lt" -> SqlLess(v, cond[3])
Meant(row, call) ==
    CASE call.op = "or" -> \E g \in Range(call.list) : \A i \in DOMAIN g : Meets(row, g[i])
      [] call.op = "is" -> row[call.key] = Null
      [] call.op = "not.is" -> row[call.key] # Null
      [] call.op = "in" -> row[call.key] # Null /\ row[call.key] \in Range(call.list)
      [] call.op = "not.eq" -> Meets(row, <<call.key, "neq", call.value>>)
      [] OTHER -> Meets(row, <<call.key, call.op, call.value>>)

\* Text that survives: in() has no way to write an empty value or one with a quote, and or() none
\* to write a comma or a parenthesis.
Writable(call) ==
    CASE call.op = "in" -> \A v \in Range(call.list) : v # <<>> /\ "\"" \notin Range(v)
      [] call.op = "or" -> \A g \in Range(call.list) : \A i \in DOMAIN g : Range(g[i][3]) \cap {",", "(", ")"} = {}
      [] OTHER -> TRUE

\* PostgreSQL selects the rows the calls of the builder describe, whatever punctuation their
\* values have, as long as it can be written (filter.ts: parseFilterParam, parseOrFilters,
\* parseInValue).
SelectsAsMeant ==
    got \in {"selected", "rows", "row", "nothing"} /\ (\A c \in calls : Writable(c)) =>
        found.postgres = {row \in QueryRows : \A c \in calls : Meant(row, c)}

\* The two databases part only where a filter meets a null or their orders part: a row that only
\* PostgreSQL selects has a value that a filter's two orders put on different sides, and one that
\* only the memory database selects has such a value or a null in a filter's column, whatever
\* filters and groups there are besides (db-memory.ts: matchesFilter, compareEq, compareOrdered).
ComparedApart(row) == \E f \in AllFilters :
    LET v == row[f.column] IN f.op = "lt" /\ v # Null /\ SqlLess(v, f.value) # JsLess(v, f.value)
MeetsNull(row) == \E f \in AllFilters : row[f.column] = Null
MemoryFollows ==
    /\ \A row \in found.postgres \ found.memory : ComparedApart(row)
    /\ \A row \in found.memory \ found.postgres : ComparedApart(row) \/ MeetsNull(row)
=================================================================================
