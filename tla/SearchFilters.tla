------------------------------ MODULE SearchFilters ------------------------------
(***************************************************************************)
(* Search queries of tools/search: a filter is written as text, cut into   *)
(* tokens, parsed, and built into a condition that PostgreSQL decides on   *)
(* each row; a page of the rows selected is read in the order asked.       *)
(*                                                                         *)
(* Text is a sequence of the characters the tokenizer looks for and of     *)
(* words.  A filter to write is a tree: a comparison [left, op, right], or *)
(* [join, parts].  An operand is [kind, of].                               *)
(***************************************************************************)
EXTENDS Integers, Sequences, FiniteSets, SequencesExt

CONSTANTS FilterRows,      \* rows of the table: field -> text or NoText
          Comparisons,     \* comparisons that filters are made of
          MaxComparisons,  \* how many of them
          FilterLimit,     \* how many the provider allows in a filter
          Sorts            \* sort parameters: sequences of [name, direction]

VARIABLES filterTrees,     \* the filters of the search, each a tree
          builtFilters,    \* what their texts are built into, see BuildFilter
          searched         \* the page asked and what was found, or NotSearched
searchVars == <<filterTrees, builtFilters, searched>>

NoText == <<"(null)">>
NotSearched == [page |-> 0]
Words == {"a", "b", "j", "x", "y", "@now", "null", "true", "strftime"}
Digits == {"1", "2"}
JoinTokens == [AND |-> <<"&", "&">>, OR |-> <<"|", "|">>]
Signs == {<<"=">>, <<"!", "=">>, <<"~">>, <<"!", "~">>, <<"<">>, <<"<", "=">>, <<">">>, <<">", "=">>,
          <<"?", "=">>, <<"?", "!", "=">>, <<"?", "~">>, <<"?", "!", "~">>, <<"?", "<">>, <<"?", "<", "=">>,
          <<"?", ">">>, <<"?", ">", "=">>}

(* -------- the text of a filter -------- *)
RECURSIVE Written(_), OperandText(_)
Between(parts, glue) == FlattenSeq([i \in DOMAIN parts |-> IF i = 1 THEN parts[i] ELSE glue \o parts[i]])
OperandText(o) ==
    CASE o.kind = "path" -> <<o.of, ".", "k">>
      [] o.kind = "text" -> <<"'">> \o FlattenSeq([i \in DOMAIN o.of |-> IF o.of[i] = "'" THEN <<"'", "'">> ELSE <<o.of[i]>>])
                                    \o <<"'">>
      [] o.kind = "number" -> o.of
      [] o.kind = "function" -> <<"strftime", "(">> \o Between([i \in DOMAIN o.of |-> OperandText(o.of[i])], <<",", " ">>) \o <<")">>
      [] OTHER -> <<o.of>>

IsComparison(tree) == "op" \in DOMAIN tree
\* AND binds tighter than OR: an OR within an AND is put in parentheses.
Written(tree) ==
    LET part(p) == IF ~IsComparison(p) /\ p.join = "OR" /\ tree.join = "AND" THEN <<"(">> \o Written(p) \o <<")">>
                   ELSE Written(p)
    IN  IF IsComparison(tree) THEN OperandText(tree.left) \o tree.op \o OperandText(tree.right)
        ELSE Between([i \in DOMAIN tree.parts |-> part(tree.parts[i])], <<" ">> \o JoinTokens[tree.join] \o <<" ">>)

(* -------- tokens -------- *)
RECURSIVE Tokenize(_)
Past(text, n) == SubSeq(text, n + 1, Len(text))
Leading(text, chars) == Min({i \in 1..(Len(text) + 1) : i > Len(text) \/ text[i] \notin chars}) - 1
ReadIdentifier(text) == SubSeq(text, 1, Leading(text, Words \cup Digits \cup {".", "k"}))

\* How many quotes stand in a row up to the i-th character, the opening one aside.
Quotes(text, i) == Cardinality({j \in 2..i : \A k \in j..i : text[k] = "'"})
\* What would break: a text ends at the first quote in it, a doubled one as well.
TextEnd_First(text) == Min({i \in 2..Len(text) : text[i] = "'"} \cup {Len(text) + 1})

\* A text ends at a quote that is not doubled, or with the filter.
TextEnd(text) ==
    Min({i \in 2..Len(text) : text[i] = "'" /\ Quotes(text, i) % 2 = 1 /\ (i = Len(text) \/ text[i + 1] # "'")}
        \cup {Len(text) + 1})
TextValue(text) ==
    LET kept == SetToSortSeq({i \in 2..(TextEnd(text) - 1) : text[i] = "'" => Quotes(text, i) % 2 = 1}, <)
    IN  [i \in DOMAIN kept |-> text[kept[i]]]

\* The arguments between parentheses, cut at the commas of the first level and made into tokens.
\* Quotes do not hide commas and parentheses.
Nesting(text, i) == Cardinality({j \in 1..i : text[j] = "("}) - Cardinality({j \in 1..i : text[j] = ")"})
ArgsEnd(text) == Min({i \in DOMAIN text : Nesting(text, i) = 0} \cup {Len(text) + 1})
ReadFunctionArgs(text) ==
    LET end == ArgsEnd(text)
        cuts == SetToSortSeq({1} \cup {i \in 1..(end - 1) : text[i] = "," /\ Nesting(text, i) = 1}
                             \cup ({end} \cap DOMAIN text), <)
    IN  FlattenSeq([i \in 1..(Len(cuts) - 1) |-> Tokenize(SubSeq(text, cuts[i] + 1, cuts[i + 1] - 1))])

OperatorAt(text) ==
    LET starts(ops) == {o \in ops : Len(o) <= Len(text) /\ SubSeq(text, 1, Len(o)) = o}
        three == starts({<<"?", "<", "=">>, <<"?", ">", "=">>})
        two == starts({<<"<", "=">>, <<">", "=">>, <<"!", "=">>, <<"?", "=">>, <<"?", "!">>, <<"?", "~">>, <<"!", "~">>,
                       <<"?", "<">>, <<"?", ">">>, <<"&", "&">>, <<"|", "|">>})
        one == starts({<<"=">>, <<"<">>, <<">">>, <<"~">>})
    IN  CASE three # {} -> CHOOSE o \in three : TRUE
          [] two # {} -> CHOOSE o \in two : TRUE
          [] one # {} -> CHOOSE o \in one : TRUE
          [] OTHER -> <<>>

Token(type, literal) == [type |-> type, literal |-> literal, args |-> <<>>]

\* Characters no token starts with are skipped.
Tokenize(text) ==
    LET c == text[1]
        op == OperatorAt(text)
        number == Leading(text, Digits \cup {"."})
        name == ReadIdentifier(text)
        call == Past(text, Len(name) + Leading(Past(text, Len(name)), {" "}))
    IN  IF text = <<>> THEN <<>>
        ELSE CASE c = "(" -> <<Token("open", <<c>>)>> \o Tokenize(Past(text, 1))
               [] c = ")" -> <<Token("close", <<c>>)>> \o Tokenize(Past(text, 1))
               [] c = "'" -> <<Token("text", TextValue(text))>> \o Tokenize(Past(text, TextEnd(text)))
               [] op # <<>> -> <<Token("op", op)>> \o Tokenize(Past(text, Len(op)))
               [] c \in Digits /\ ~(number < Len(text) /\ text[number + 1] \in Words) ->
                      <<Token("number", SubSeq(text, 1, number))>> \o Tokenize(Past(text, number))
               [] c \in Words /\ call # <<>> /\ call[1] = "(" ->
                      <<[Token("function", name) EXCEPT !.args = ReadFunctionArgs(call)]>>
                      \o Tokenize(Past(call, ArgsEnd(call)))
               [] c \in Words \cup Digits -> <<Token("identifier", name)>> \o Tokenize(Past(text, Len(name)))
               [] OTHER -> Tokenize(Past(text, 1))

(* -------- groups -------- *)
RECURSIVE ParseExprGroups(_, _)
IsJoin(t) == t.type = "op" /\ t.literal \in {JoinTokens.AND, JoinTokens.OR}

\* The groups up to a closing parenthesis; what stands before a comparison joins it.
ParseExprGroups(tokens, join) ==
    LET t == tokens[1]
        rest == Past(tokens, 1)
        inner == ParseExprGroups(rest, "AND")
        followed(item, by) ==
            LET more == ParseExprGroups(by, "AND")
            IN  [more EXCEPT !.groups = <<[item |-> item, join |-> join]>> \o @]
        wrong == [groups |-> <<>>, rest |-> <<>>, wrong |-> TRUE]
    IN  IF tokens = <<>> THEN [groups |-> <<>>, rest |-> <<>>, wrong |-> FALSE]
        ELSE CASE t.type = "close" -> [groups |-> <<>>, rest |-> rest, wrong |-> FALSE]
               [] IsJoin(t) -> ParseExprGroups(rest, IF t.literal = JoinTokens.OR THEN "OR" ELSE "AND")
               [] t.type = "open" ->
                      IF inner.wrong THEN wrong
                      ELSE IF inner.groups = <<>> THEN ParseExprGroups(inner.rest, join)
                      ELSE followed(IF Len(inner.groups) = 1 THEN inner.groups[1].item ELSE [list |-> inner.groups],
                                    inner.rest)
               [] OTHER ->
                      IF Len(tokens) >= 3 /\ tokens[2].type = "op" /\ tokens[2].literal \in Signs
                      THEN followed([left |-> t, op |-> tokens[2].literal, right |-> tokens[3]], Past(tokens, 3))
                      ELSE wrong

(* -------- operands -------- *)
\* What a token stands for: a column or a value bound to a placeholder, and how null is taken.
Resolved(id, value, fallback) == [id |-> id, value |-> value, fallback |-> fallback]
Unresolved == Resolved("unresolved", NoText, "auto")
Bound(value) == Resolved("param", value, "auto")

SimpleResolve(name) ==
    IF name[1] \in {"null", "true"} THEN Resolved(name[1], IF name[1] = "null" THEN NoText ELSE <<"1">>, "auto")
    ELSE IF Len(name) = 1 THEN Resolved("column", name, "auto")
    ELSE Resolved("column", name, "disabled")

\* A format, and a time to show in it: the placeholder of the format stays bound.
Strftime(args) ==
    IF args = <<>> \/ Len(args) > 10 \/ args[1].type # "text" \/ \E i \in 3..Len(args) : args[i].type # "text" THEN Unresolved
    ELSE IF Len(args) = 1 THEN Resolved("param", <<"now">>, "enforced")
    ELSE IF args[2].type = "identifier" THEN Resolved("column", args[2].literal, "enforced")
    ELSE Resolved("param", args[2].literal, "enforced")

ResolveToken(t) ==
    CASE t.type \in {"text", "number"} -> Bound(t.literal)
      [] t.type = "identifier" /\ t.literal = <<"@now">> -> Bound(<<"now">>)
      [] t.type = "identifier" -> SimpleResolve(t.literal)
      [] t.type = "function" /\ t.literal = <<"strftime">> -> Strftime(t.args)
      [] OTHER -> Unresolved

ValueOf(r, row) == IF r.id = "column" THEN row[r.value[1]] ELSE r.value

(* -------- conditions -------- *)
IsEmptyIdentifier(r) == r.id = "null"
HasEmptyParam(r) == r.id = "param" /\ r.value = <<>>
IsKnownNonEmptyIdentifier(r) ==
    /\ r.fallback # "enforced"
    /\ r.id = "true" \/ (r.id = "param" /\ ~HasEmptyParam(r))

\* SQL decides "unknown" when a side is null.
Decided(b) == IF b THEN "true" ELSE "false"
Compared(x, y, Holds(_, _)) == IF NoText \in {x, y} THEN "unknown" ELSE Decided(Holds(x, y))
AllOf(S) == IF "false" \in S THEN "false" ELSE IF "unknown" \in S THEN "unknown" ELSE "true"
AnyOf(S) == IF "true" \in S THEN "true" ELSE IF "unknown" \in S THEN "unknown" ELSE "false"
Coalesced(x) == IF x = NoText THEN <<>> ELSE x

\* "=" and "!=" take null for the empty text, unless a side is known not to be empty or is a path.
ResolveEqualExpr(equal, l, r, row) ==
    LET x == ValueOf(l, row)
        y == ValueOf(r, row)
        empty(s) == IsEmptyIdentifier(s) \/ (s.fallback = "auto" /\ HasEmptyParam(s))
        same(u, v) == Compared(u, v, LAMBDA p, q : (p = q) = equal)
        orNull(v) == Decided((v \in {<<>>, NoText}) = equal)
    IN  CASE "disabled" \in {l.fallback, r.fallback} -> Decided((x = y) = equal)
          [] empty(l) /\ empty(r) -> Decided(equal)
          [] IsKnownNonEmptyIdentifier(l) \/ IsKnownNonEmptyIdentifier(r) ->
                same(IF empty(l) THEN <<>> ELSE x, IF empty(r) THEN <<>> ELSE y)
          [] empty(l) -> orNull(y)
          [] empty(r) -> orNull(x)
          [] OTHER -> same(Coalesced(x), Coalesced(y))

\* An order and a likeness of texts: the shorter first; a column is looked for anywhere in the text.
Shorter(x, y) == Len(x) < Len(y)
HasWithin(x, y) == \E i, j \in 1..(Len(x) + 1) : SubSeq(x, i, j - 1) = y

BuildResolversExpr(l, op, r, row) ==
    LET x == ValueOf(l, row)
        y == ValueOf(r, row)
        bare == SelectSeq(op, LAMBDA c : c # "?")
        like == IF r.id = "param" THEN Compared(x, y, LAMBDA p, q : p = q) ELSE Compared(x, y, HasWithin)
    IN  CASE bare = <<"=">> -> ResolveEqualExpr(TRUE, l, r, row)
          [] bare = <<"!", "=">> -> ResolveEqualExpr(FALSE, l, r, row)
          [] bare = <<"~">> -> like
          [] bare = <<"!", "~">> -> IF like = "unknown" THEN like ELSE Decided(like = "false")
          [] bare = <<"<">> -> Compared(x, y, Shorter)
          [] bare = <<">">> -> Compared(y, x, Shorter)
          [] bare = <<"<", "=">> -> Compared(x, y, LAMBDA p, q : ~Shorter(q, p))
          [] bare = <<">", "=">> -> Compared(x, y, LAMBDA p, q : ~Shorter(p, q))

\* The conditions of a list are joined in one line: SQL takes the ANDs first.
RECURSIVE Decide(_, _)
Decide(groups, row) ==
    LET item(g) == IF "list" \in DOMAIN g.item THEN Decide(g.item.list, row)
                   ELSE BuildResolversExpr(g.item.left, g.item.op, g.item.right, row)
        starts == {i \in DOMAIN groups : i = 1 \/ groups[i].join = "OR"}
        run(i) == {j \in i..Len(groups) : starts \cap (i + 1)..j = {}}
    IN  AnyOf({AllOf({item(groups[j]) : j \in run(i)}) : i \in starts})

RECURSIVE Leaves(_), WithOperands(_)
Leaves(groups) ==
    FlattenSeq([i \in DOMAIN groups |-> IF "list" \in DOMAIN groups[i].item THEN Leaves(groups[i].item.list)
                                        ELSE <<groups[i].item>>])
WithOperands(groups) ==
    LET item(it) == IF "list" \in DOMAIN it THEN [list |-> WithOperands(it.list)]
                    ELSE [it EXCEPT !.left = ResolveToken(@), !.right = ResolveToken(@)]
    IN  [i \in DOMAIN groups |-> [groups[i] EXCEPT !.item = item(@)]]

\* The conditions of a filter, and whether it is refused.
BuildFilter(text) ==
    LET parsed == ParseExprGroups(Tokenize(text), "AND")
        groups == WithOperands(parsed.groups)
        leaves == Leaves(groups)
    IN  [groups |-> groups, size |-> Len(leaves),
         refused |-> \/ parsed.wrong \/ groups = <<>> \/ Len(leaves) > FilterLimit
                     \/ \E i \in DOMAIN leaves : Unresolved \in {leaves[i].left, leaves[i].right}]

(* -------- the provider -------- *)
RefusedSearch == \E i \in DOMAIN builtFilters : builtFilters[i].refused
BuildWhere(row) == AllOf({Decide(builtFilters[i].groups, row) : i \in DOMAIN builtFilters}) = "true"

SortText(sort) ==
    Between([i \in DOMAIN sort |-> IF sort[i].direction = "DESC" THEN <<"-", sort[i].name>> ELSE <<sort[i].name>>], <<",">>)
ParseSort(text) ==
    LET cuts == SetToSortSeq({0, Len(text) + 1} \cup {i \in DOMAIN text : text[i] = ","}, <)
        pieces == SelectSeq([i \in 1..(Len(cuts) - 1) |-> SubSeq(text, cuts[i] + 1, cuts[i + 1] - 1)], LAMBDA p : p # <<>>)
    IN  [i \in DOMAIN pieces |->
            [name |-> Last(pieces[i]), direction |-> IF pieces[i][1] = "-" THEN "DESC" ELSE "ASC"]]
\* A sort is by columns only.
BuildOrderBy(sort) == \A i \in DOMAIN sort : SimpleResolve(<<sort[i].name>>).id = "column"

DefaultPerPage == 2
MaxPerPage == 3
PerPage(asked) == IF asked <= 0 THEN DefaultPerPage ELSE IF asked > MaxPerPage THEN MaxPerPage ELSE asked

SearchInit == filterTrees = <<>> /\ builtFilters = <<>> /\ searched = NotSearched

RECURSIVE Size(_)
Size(tree) == IF IsComparison(tree) THEN 1 ELSE Size(tree.parts[1]) + Size(tree.parts[2])
Writing == searched = NotSearched /\ FoldSeq(LAMBDA tree, n : n + Size(tree), 0, filterTrees) < MaxComparisons
Write(trees) ==
    /\ filterTrees' = trees /\ UNCHANGED searched
    /\ builtFilters' = [i \in DOMAIN trees |-> BuildFilter(Written(trees[i]))]

AddFilter(c) == Writing /\ Write(Append(filterTrees, c))

\* A filter grows by a comparison on either side.
WriteMore(c, join) ==
    /\ Writing /\ filterTrees # <<>>
    /\ \E parts \in {<<Last(filterTrees), c>>, <<c, Last(filterTrees)>>} :
          Write([filterTrees EXCEPT ![Len(filterTrees)] = [join |-> join, parts |-> parts]])

\* The total is counted and a page read, with the same condition.
Exec(page, perPage, sort) ==
    /\ searched = NotSearched /\ filterTrees # <<>> /\ ~RefusedSearch /\ BuildOrderBy(ParseSort(SortText(sort)))
    /\ LET first == IF page <= 0 THEN 1 ELSE page
           size == PerPage(perPage)
           total == Cardinality({row \in FilterRows : BuildWhere(row)})
           left == total - size * (first - 1)
       IN  searched' = [page |-> first, perPage |-> size, total |-> total, pages |-> (total + size - 1) \div size,
                        items |-> IF left < 0 THEN 0 ELSE IF left > size THEN size ELSE left,
                        orderBy |-> ParseSort(SortText(sort)), sort |-> sort]
    /\ UNCHANGED <<filterTrees, builtFilters>>

SearchNext ==
    \/ \E c \in Comparisons : AddFilter(c) \/ \E join \in {"AND", "OR"} : WriteMore(c, join)
    \/ \E page \in {-1, 2}, perPage \in {0, 1, 5}, sort \in Sorts : Exec(page, perPage, sort)

SearchTypeOK == Len(filterTrees) \in 0..MaxComparisons /\ searched.page \in Nat

(* -------- properties -------- *)

\* What a comparison means of a row: null and the empty text are the same, but in a path.
MeantOperand(o, row) ==
    CASE o.kind \in {"field", "path"} -> row[o.of]
      [] o.kind = "null" -> NoText
      [] o.kind = "true" -> <<"1">>
      [] o.kind = "macro" -> <<"now">>
      [] o.kind = "function" -> IF Len(o.of) = 1 THEN <<"now">>
                                ELSE IF o.of[2].kind = "field" THEN row[o.of[2].of] ELSE o.of[2].of
      [] OTHER -> o.of
RECURSIVE MeantBy(_, _)
MeantBy(tree, row) ==
    LET x == MeantOperand(tree.left, row)
        y == MeantOperand(tree.right, row)
        path == "path" \in {tree.left.kind, tree.right.kind}
        same == IF path THEN x = y ELSE Coalesced(x) = Coalesced(y)
        known == NoText \notin {x, y}
        bare == SelectSeq(tree.op, LAMBDA c : c # "?")
        like == IF tree.right.kind \in {"text", "number", "macro"} THEN x = y ELSE HasWithin(x, y)
    IN  IF ~IsComparison(tree)
        THEN IF tree.join = "OR" THEN \E i \in DOMAIN tree.parts : MeantBy(tree.parts[i], row)
             ELSE \A i \in DOMAIN tree.parts : MeantBy(tree.parts[i], row)
        ELSE CASE bare = <<"=">> -> same
               [] bare = <<"!", "=">> -> ~same
               [] bare = <<"~">> -> known /\ like
               [] bare = <<"!", "~">> -> known /\ ~like
               [] bare \in {<<"<">>, <<"<", "=">>} -> known /\ (Shorter(x, y) \/ (Len(bare) = 2 /\ Len(x) = Len(y)))
               [] OTHER -> known /\ (Shorter(y, x) \/ (Len(bare) = 2 /\ Len(x) = Len(y)))

\* A filter that is written, cut and parsed selects no row it does not mean, and every row it means
\* that has no null: a row whose field is null is not found by "!=" and a text.  Within the limit,
\* only filters with "?!=" and "?!~" are refused: the tokenizer never finds these.
SelectsMeaning ==
    LET lost == {<<"?", "!", "=">>, <<"?", "!", "~">>}
        has(tree) == \E o \in lost : HasWithin(Written(tree), o)
    IN  searched = NotSearched =>
        /\ (\A i \in DOMAIN filterTrees : ~has(filterTrees[i]) /\ Size(filterTrees[i]) <= FilterLimit) => ~RefusedSearch
        /\ ~RefusedSearch =>
              \A row \in FilterRows :
                 LET means == \A i \in DOMAIN filterTrees : MeantBy(filterTrees[i], row)
                 IN  /\ BuildWhere(row) => means
                     /\ means /\ (\A f \in DOMAIN row : row[f] # NoText) => BuildWhere(row)

\* A search answers a page that exists or is empty, of a size within the limits, in the order asked,
\* and walking its pages reads each row once.
PagesAddUp ==
    searched # NotSearched =>
        /\ searched.page >= 1 /\ searched.perPage \in 1..MaxPerPage /\ searched.orderBy = searched.sort
        /\ searched.items > 0 <=> searched.page <= searched.pages
        /\ searched.page = searched.pages => searched.perPage * (searched.page - 1) + searched.items = searched.total
=================================================================================
