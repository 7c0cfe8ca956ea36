------------------------------ MODULE TableSync ------------------------------
(***************************************************************************)
(* A collection's list of fields, the validation of a changed collection,  *)
(* and the statements that bring its record table in line with it.         *)
(*                                                                         *)
(* The statements run one by one without a transaction, and each may fail. *)
(* A column holds the values of the field that was stored in it; columns   *)
(* maps its name to that field's id.  A column is named after its field,   *)
(* <<name>>, or for a while by a name that random letters make unique,     *)
(* <<name, "~">>.                                                          *)
(***************************************************************************)
EXTENDS Integers, SequencesExt, FiniteSetsExt

CONSTANTS Drafts,    \* collections as submitted; "fields" is the sequence of [at, field] to add
          MaxSyncs   \* how many drafts are saved

VARIABLES current,   \* the collection the table was made for, or NoCollection
          goal,      \* the collection the table is being brought in line with
          todo,      \* the statements left
          columns,   \* the table: column name -> id of the field whose values it holds
          progress,  \* "idle", "running", or "failed"
          faults,    \* how many statements the database failed for its own reasons
          synced     \* how many synchronisations have begun
syncVars == <<current, goal, todo, columns, progress, faults, synced>>

NoCollection == [type |-> "none", fields |-> <<>>]
NoColumns == [c \in {} |-> ""]
IsList(list) == list \in Seq({list[i] : i \in DOMAIN list})
ASSUME DraftsAssumption ==
    \A draft \in Drafts :
        "fields" \in DOMAIN draft /\ IsList(draft.fields) /\ \A i \in DOMAIN draft.fields : draft.fields[i].at \in Int
ASSUME SyncBounds == MaxSyncs \in Nat

(* -------- lists of fields -------- *)
Named(list, name) == {i \in DOMAIN list : name # "" /\ list[i].name = name}
WithId(list, id) == {i \in DOMAIN list : list[i].id = id}

\* The id of a field that comes without one: its type and name, with a number when that is taken.
FreshId(list, field) ==
    LET base == field.type \o "_" \o field.name
        ids == <<base, base \o "2", base \o "3", base \o "4">>
    IN  ids[Min({i \in DOMAIN ids : WithId(list, ids[i]) = {}})]

\* insertAt: a field replaces the one of its id, or of its name when it has no id: in place when
\* added at the end, else by taking the old one out first.
Placed(list, at, field) ==
    LET same == IF field.id = "" THEN Named(list, field.name) ELSE WithId(list, field.id)
        first == Min(same)
        new == [field EXCEPT !.id = CASE field.id # "" -> field.id
                                      [] same # {} -> list[first].id
                                      [] OTHER -> FreshId(list, field)]
        rest == IF same = {} THEN list ELSE RemoveAt(list, first)
        index == IF at < 0 \/ at > Len(rest) THEN Len(rest) + 1 ELSE at + 1
    IN  IF same # {} /\ at < 0 THEN [list EXCEPT ![first] = new] ELSE InsertAt(rest, index, new)

FieldsOf(adds) ==
    LET added[n \in 0..Len(adds)] == IF n = 0 THEN <<>> ELSE Placed(added[n - 1], adds[n].at, adds[n].field)
    IN  added[Len(adds)]
Loaded(draft) == [draft EXCEPT !.fields = FieldsOf(draft.fields)]
\* The JSON of a list, read again.
Reread(list) == FieldsOf([i \in DOMAIN list |-> [at |-> -1, field |-> list[i]]])

(* -------- validation -------- *)
Lower(name) == IF name = "A" THEN "a" ELSE name
NamesOf(list) == {list[i].name : i \in DOMAIN list}
Twice(list, Key(_)) == \E i, j \in DOMAIN list : i # j /\ Key(list[i]) = Key(list[j])
AuthFields == {"password", "tokenKey", "email", "emailVisibility", "verified"}

CheckId(new, old) == IF old = NoCollection /\ new.id = "not-an-id" THEN {"id"} ELSE {}
CheckSystemFlag(new, old) == IF old # NoCollection /\ old.system # new.system THEN {"system"} ELSE {}
CheckType(new, old) ==
    IF new.type \notin {"base", "auth", "view"} \/ (old # NoCollection /\ old.type # new.type) THEN {"type"} ELSE {}
CheckName(new) == IF new.name \in {"", "1st", "Created", "_params"} THEN {"name"} ELSE {}
CheckMinFields(new) ==
    IF \/ "id" \notin NamesOf(new.fields)
       \/ new.type = "auth" /\ \E name \in AuthFields :
             LET found == Named(new.fields, name) IN found = {} \/ ~new.fields[Min(found)].system
    THEN {"fields"} ELSE {}
CheckFieldDuplicates(new) ==
    IF \/ Twice(new.fields, LAMBDA f : f.id) \/ Twice(new.fields, LAMBDA f : Lower(f.name)) THEN {"fields"} ELSE {}
CheckFieldValidators(new, old) ==
    IF \E i \in DOMAIN new.fields, j \in DOMAIN old.fields :
          old.fields[j].id = new.fields[i].id /\ old.fields[j].type # new.fields[i].type
    THEN {"fields"} ELSE {}
CheckReservedAuthKeys(new) ==
    IF new.type = "auth" /\ NamesOf(new.fields) \cap {"passwordConfirm", "oldPassword"} # {} THEN {"fields"} ELSE {}
\* A view has no write rules, and the rules of a system collection stay.
CheckRules(new, old) ==
    {r \in DOMAIN new.rules : \/ new.type = "view" /\ r # "listRule" /\ new.rules[r] # "null"
                              \/ new.system /\ old # NoCollection /\ old.rules[r] # new.rules[r]}
CheckIndexes(new) ==
    IF Twice(new.indexes, LAMBDA x : x) \/ \E i \in DOMAIN new.indexes : new.indexes[i] \in {"", "DROP"}
    THEN {"indexes"} ELSE {}

\* The keys a collection is wrong in, under which the answer lists what is wrong.
Problems(new, old) ==
    UNION {CheckId(new, old), CheckSystemFlag(new, old), CheckType(new, old), CheckName(new),
           CheckMinFields(new), CheckFieldDuplicates(new), CheckFieldValidators(new, old),
           CheckReservedAuthKeys(new), CheckRules(new, old), CheckIndexes(new)}

(* -------- the statements -------- *)
ColumnName(name) == <<name>>
TempName(name) == <<name, "~">>
NoField == ""  \* the id in a statement that makes no column
Statement(op, name, to, id) == [op |-> op, name |-> name, to |-> to, id |-> id]

\* What the database cannot do for a collection, before any statement.
Refused(new, old) ==
    new.type # "view" /\ \/ new.indexes # <<>>
                         \/ old # NoCollection /\ (old.indexes # <<>> \/ Lower(old.name) # Lower(new.name))

CreateTable(new) ==
    [i \in DOMAIN new.fields |-> Statement("add", ColumnName(new.fields[i].name), <<>>, new.fields[i].id)]
\* The elements of a list at some of its places.
Picked(list, places) ==
    LET upTo[n \in 0..Len(list)] ==
            IF n = 0 THEN <<>> ELSE IF n \in places THEN Append(upTo[n - 1], list[n]) ELSE upTo[n - 1]
    IN  upTo[Len(list)]
\* The fields that go, and those that are new or have another name.
Dropped(new, old) == Picked(old.fields, {i \in DOMAIN old.fields : WithId(new.fields, old.fields[i].id) = {}})
IsAdded(old, f) == WithId(old.fields, f.id) = {}
OldField(old, f) == old.fields[Min(WithId(old.fields, f.id))]
ToRename(new, old) ==
    Picked(new.fields,
           {i \in DOMAIN new.fields : LET f == new.fields[i] IN IsAdded(old, f) \/ OldField(old, f).name # f.name})

\* Columns of removed fields go; new and renamed ones get a temporary name first, so that fields
\* can swap their names.
AlterTable(new, old) ==
    LET dropped == Dropped(new, old)
        toRename == ToRename(new, old)
    IN  [i \in DOMAIN dropped |-> Statement("drop", ColumnName(dropped[i].name), <<>>, NoField)]
        \o [i \in DOMAIN toRename |->
              IF IsAdded(old, toRename[i]) THEN Statement("add", TempName(toRename[i].name), <<>>, toRename[i].id)
              ELSE Statement("rename", ColumnName(OldField(old, toRename[i]).name), TempName(toRename[i].name), NoField)]
        \o [i \in DOMAIN toRename |-> Statement("rename", TempName(toRename[i].name), ColumnName(toRename[i].name), NoField)]

Statements(new, old) ==
    IF new.type = "view" THEN <<>> ELSE IF old = NoCollection THEN CreateTable(new) ELSE AlterTable(new, old)

\* The database refuses a column that is there already and one that is not there.
Possible(s) == CASE s.op = "add" -> s.name \notin DOMAIN columns
                 [] s.op = "drop" -> s.name \in DOMAIN columns
                 [] s.op = "rename" -> s.name \in DOMAIN columns /\ s.to \notin DOMAIN columns
Effect(s) ==
    CASE s.op = "add" -> [c \in DOMAIN columns \cup {s.name} |-> IF c = s.name THEN s.id ELSE columns[c]]
      [] s.op = "drop" -> [c \in (DOMAIN columns \ {s.name}) |-> columns[c]]
      [] s.op = "rename" -> [c \in (DOMAIN columns \ {s.name}) \cup {s.to} |-> columns[IF c = s.to THEN s.name ELSE c]]

(* -------- synchronisations -------- *)
SyncInit ==
    /\ current = NoCollection /\ goal = NoCollection /\ todo = <<>> /\ columns = NoColumns
    /\ progress = "idle" /\ faults = 0 /\ synced = 0

\* A valid collection is saved; one the database cannot follow leaves everything as it was.
Sync(draft) ==
    LET new == Loaded(draft) IN
    /\ progress = "idle" /\ synced < MaxSyncs
    /\ Problems(new, current) = {} /\ ~Refused(new, current)
    /\ synced' = synced + 1 /\ progress' = "running"
    /\ goal' = new /\ todo' = Statements(new, current)
    /\ UNCHANGED <<current, columns, faults>>

RunStatement ==
    /\ progress = "running" /\ todo # <<>>
    /\ IF Possible(Head(todo))
       THEN columns' = Effect(Head(todo)) /\ todo' = Tail(todo) /\ UNCHANGED progress
       ELSE progress' = "failed" /\ UNCHANGED <<columns, todo>>
    /\ UNCHANGED <<current, goal, faults, synced>>

StatementFails ==
    /\ progress = "running" /\ todo # <<>>
    /\ progress' = "failed" /\ faults' = faults + 1
    /\ UNCHANGED <<current, goal, todo, columns, synced>>

Synced ==
    /\ progress = "running" /\ todo = <<>>
    /\ progress' = "idle" /\ current' = goal
    /\ UNCHANGED <<goal, todo, columns, faults, synced>>

SyncNext == (\E draft \in Drafts : Sync(draft)) \/ RunStatement \/ StatementFails \/ Synced
SyncSpec == SyncInit /\ [][SyncNext]_syncVars

SyncTypeOK ==
    /\ progress \in {"idle", "running", "failed"} /\ synced \in 0..MaxSyncs /\ faults \in 0..1
    /\ \A i \in DOMAIN todo : todo[i].op \in {"add", "drop", "rename"}

(* -------- properties -------- *)

\* At any statement, failed ones included, the values of every field that stays are in exactly one
\* column, even when fields swap their names; and a finished table has the columns of its fields.
ValuesStay ==
    /\ progress # "idle" => \A i \in DOMAIN current.fields :
          LET id == current.fields[i].id IN
          current.type # "view" /\ WithId(goal.fields, id) # {} =>
             Cardinality({c \in DOMAIN columns : columns[c] = id}) = 1
    /\ progress = "idle" /\ current.type # "view" =>
          /\ DOMAIN columns = {ColumnName(name) : name \in NamesOf(current.fields)}
          /\ \A i \in DOMAIN current.fields : columns[ColumnName(current.fields[i].name)] = current.fields[i].id

\* A collection that passed the validation never makes a statement impossible.
ValidMeansPossible == progress = "failed" => faults > 0

\* Ids are unique in every list of fields, and a list is the same when its JSON is read again.
ListsAreStable ==
    \A list \in {current.fields, goal.fields} :
        Reread(list) = list /\ \A i, j \in DOMAIN list : list[i].id = list[j].id => i = j
=================================================================================
