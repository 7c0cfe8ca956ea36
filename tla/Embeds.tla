---------------------------------- MODULE Embeds ----------------------------------
(***************************************************************************)
(* apis/postgrest.ts: select= with embedded resources.  The parameter is   *)
(* parsed into a tree of columns and relationships, each relationship is   *)
(* resolved over the foreign keys, and its rows are read for all rows of   *)
(* the page in one more statement and grouped by the column they join on.  *)
(* The statements are of one READ COMMITTED transaction, so the rows may   *)
(* change between them.                                                    *)
(***************************************************************************)
EXTENDS Integers, Sequences, FiniteSets, SequencesExt

CONSTANTS
    ForeignKeys, \* [name, source, column, target, key]: source.column references target.key
    Snapshots,   \* contents the tables may have: [table |-> set of rows]
    Selects,     \* select parameters: trees, see Printed
    Root         \* the table of the request

VARIABLES
    tables,   \* what the tables contain now
    selected, \* the request: pc, select parameter, parsed tree, page and rows read for it
    changed   \* commits of others during the request

embedVars == <<tables, selected, changed>>

NoSelect == [pc |-> "idle", raw |-> <<>>, tree |-> <<>>, page |-> {}, answer |-> {}]
Column(name) == [kind |-> "column", source |-> name, output |-> name]
NoValue == 0

EmbedInit ==
    /\ tables \in Snapshots /\ changed = 0
    /\ selected = NoSelect

(* -------- parseSelect -------- *)
\* The text of a tree, with which requests write it.
RECURSIVE PrintSelect(_)
PrintPart(s) ==
    LET alias == IF s.output = s.source THEN <<>> ELSE <<s.output, ":">> IN
    IF s.kind = "column" THEN alias \o <<s.source>>
    ELSE alias \o <<s.source>> \o (IF s.hint = "" THEN <<>> ELSE <<"!", s.hint>>)
         \o (IF s.inner THEN <<"!", "inner">> ELSE <<>>) \o <<"(">> \o PrintSelect(s.fields) \o <<")">>
PrintSelect(tree) ==
    FlattenSeq([i \in DOMAIN tree |-> (IF i = 1 THEN <<>> ELSE <<",">>) \o PrintPart(tree[i])])

Depth(text, upTo) ==
    Cardinality({i \in 1..upTo : text[i] = "("}) - Cardinality({i \in 1..upTo : text[i] = ")"})
SplitTopLevel(text) ==
    LET cuts == {i \in DOMAIN text : text[i] = "," /\ Depth(text, i) = 0}
        ends == SetToSortSeq(cuts \cup {0, Len(text) + 1}, <)
    IN  [i \in 1..(Len(ends) - 1) |-> SubSeq(text, ends[i] + 1, ends[i + 1] - 1)]

Place(text, token) == IF token \in Range(text) THEN SelectInSeq(text, LAMBDA t : t = token) ELSE 0
AfterColon(text) == SubSeq(text, Place(text, ":") + 1, Len(text))
Output(text, otherwise) == IF Place(text, ":") = 0 THEN otherwise ELSE text[1]
Modifiers(text) == {text[i] : i \in {j \in DOMAIN text : j > 1 /\ text[j - 1] = "!"}}
RECURSIVE ParseSelect(_)
ParsePart(part) ==
    LET open == Place(part, "(")
        prefix == SubSeq(part, 1, open - 1)
        named == AfterColon(prefix)
        hints == Modifiers(named) \ {"inner"}
    IN  IF open = 0 \/ Last(part) # ")"
        THEN [kind |-> "column", source |-> AfterColon(part)[1], output |-> Output(part, AfterColon(part)[1])]
        ELSE [kind |-> "relationship", source |-> named[1], output |-> Output(prefix, named[1]),
              hint |-> IF hints = {} THEN "" ELSE CHOOSE h \in hints : TRUE,
              inner |-> "inner" \in Modifiers(named),
              fields |-> ParseSelect(SubSeq(part, open + 1, Len(part) - 1))]
ParseSelect(text) ==
    LET parts == SelectSeq(SplitTopLevel(text), LAMBDA p : p # <<>>)
    IN  [i \in DOMAIN parts |-> ParsePart(parts[i])]

BeginSelect(tree) ==
    /\ selected.pc = "idle"
    /\ LET raw == PrintSelect(tree) IN
       selected' = [NoSelect EXCEPT !.pc = "select", !.raw = raw, !.tree = ParseSelect(raw)]
    /\ UNCHANGED <<tables, changed>>

(* -------- resolveRelationship -------- *)
Hinted(table, s) ==
    {k \in ForeignKeys : /\ table \in {k.source, k.target}
                         /\ s.hint = "" \/ s.hint \in {k.name, k.column, k.key, k.source, k.target}}
Score(k, table, selector) ==
    CASE k.name = selector -> 5
      [] k.source = table /\ k.target = selector -> 4
      [] k.target = table /\ k.source = selector -> 4
      [] k.source = table /\ k.column = selector -> 3
      [] k.target = table /\ k.key = selector -> 3
      [] OTHER -> 0
Best(table, s) ==
    LET candidates == {k \in Hinted(table, s) : Score(k, table, s.source) > 0}
    IN  {k \in candidates : \A j \in candidates : Score(j, table, s.source) <= Score(k, table, s.source)}

\* Refused when no key matches and when the two best match alike.
RECURSIVE Resolvable(_, _)
Other(k, table) == IF k.source = table THEN k.target ELSE k.source
Resolvable(table, tree) ==
    \A i \in DOMAIN tree : tree[i].kind = "relationship" =>
        /\ Cardinality(Best(table, tree[i])) = 1
        /\ \A k \in Best(table, tree[i]) : Resolvable(Other(k, table), tree[i].fields)

\* A key from the table to itself reads as outbound.
Outbound(k, table) == k.source = table
Local(k, table) == IF Outbound(k, table) THEN k.column ELSE k.key
Related(k, table) == IF Outbound(k, table) THEN k.key ELSE k.column
(* -------- materializeSelection -------- *)
\* A row that is being selected: what was read, and what is answered by output name.
Project(row, tree) ==
    {[name |-> tree[i].output, is |-> row[tree[i].source]] : i \in {j \in DOMAIN tree : tree[j].kind = "column"}}

\* Rows with the value of a row in the column they join on, of those read for the whole page.
Grouped(rows, column, value) == {r \in rows : value # NoValue /\ r.row[column] = value}

RECURSIVE Materialize(_, _, _)
Embed(table, rows, s) ==
    LET k == CHOOSE b \in Best(table, s) : TRUE
        other == Other(k, table)
        values == {r.row[Local(k, table)] : r \in rows} \ {NoValue}
        read == {row \in tables[other] : row[Related(k, table)] \in values}
        related == Materialize(other, {[row |-> row, shows |-> Project(row, s.fields)] : row \in read}, s.fields)
        matches(r) == Grouped(related, Related(k, table), r.row[Local(k, table)])
        shown(r) == {m.shows : m \in matches(r)}
    IN  {[r EXCEPT !.shows = @ \cup {[name |-> s.output, is |-> shown(r)]}] :
            r \in {q \in rows : ~s.inner \/ matches(q) # {}}}
Materialize(table, rows, tree) ==
    LET rels == SelectSeq(tree, LAMBDA s : s.kind = "relationship")
        step[i \in 0..Len(rels)] == IF i = 0 THEN rows ELSE Embed(table, step[i - 1], rels[i])
    IN  step[Len(rels)]

ReadPage ==
    /\ selected.pc = "select" /\ UNCHANGED <<tables, changed>>
    /\ selected' = IF Resolvable(Root, selected.tree)
                   THEN [selected EXCEPT !.pc = "embed", !.page = tables[Root]]
                   ELSE [selected EXCEPT !.pc = "refused"]

EmbedPage ==
    /\ selected.pc = "embed" /\ UNCHANGED <<tables, changed>>
    /\ LET rows == {[row |-> row, shows |-> Project(row, selected.tree)] : row \in selected.page} IN
       selected' = [selected EXCEPT !.pc = "answered", !.answer = Materialize(Root, rows, selected.tree)]

\* Another transaction commits between the two.
OthersCommit(next) ==
    /\ selected.pc = "embed" /\ changed = 0 /\ changed' = 1
    /\ tables' = next /\ UNCHANGED selected

EmbedNext ==
    \/ \E tree \in Selects : BeginSelect(tree)
    \/ ReadPage \/ EmbedPage
    \/ \E next \in Snapshots : OthersCommit(next)

EmbedTypeOK ==
    /\ tables \in Snapshots /\ changed \in 0..1
    /\ selected.pc \in {"idle", "select", "embed", "answered", "refused"}

(* -------- what a select means -------- *)
\* Row by row: a row shows its columns and, of each relationship, what the rows that reference it
\* or that it references show; an inner relationship with nothing to show removes it.
RECURSIVE Shown(_, _, _)
RelatedRows(table, row, k) ==
    IF k.source = table THEN {r \in tables[k.target] : r[k.key] = row[k.column]}
    ELSE {r \in tables[k.source] : r[k.column] = row[k.key]}
Parts(table, row, s) ==
    LET k == CHOOSE b \in Best(table, s) : TRUE
    IN  UNION {Shown(Other(k, table), r, s.fields) : r \in RelatedRows(table, row, k)}
Shown(table, row, tree) ==
    LET rels == {i \in DOMAIN tree : tree[i].kind = "relationship"} IN
    IF \E i \in rels : tree[i].inner /\ Parts(table, row, tree[i]) = {} THEN {}
    ELSE {Project(row, tree) \cup {[name |-> tree[i].output, is |-> Parts(table, row, tree[i])] : i \in rels}}

\* A select parameter is parsed as it was written, whatever is nested in it (parseSelect).
SelectsRoundTrip == selected.pc # "idle" => PrintSelect(selected.tree) = selected.raw
\* Rows read in batches are embedded where a join would put them, also when others commit between
\* the statements (embedRelationship).
EmbedsAsJoined ==
    selected.pc = "answered" =>
        {r.shows : r \in selected.answer} = UNION {Shown(Root, row, selected.tree) : row \in selected.page}
=================================================================================
