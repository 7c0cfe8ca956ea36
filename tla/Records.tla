------------------------------ MODULE Records ------------------------------
(***************************************************************************)
(* Records in memory, the form that changes those of accounts, and the     *)
(* API of the records of an auth collection.                               *)
(***************************************************************************)
EXTENDS Integers, Sequences, FiniteSets, SequencesExt

(***************************************************************************)
(* A record in memory: values set over the values it was read with, fields *)
(* hidden and shown, copies, and what of it is exported to clients and to  *)
(* the database.  Related records it was expanded with are left out.       *)
(*                                                                         *)
(* A field is [hidden]; FieldTable maps the names of a collection's fields *)
(* to it.  The stores of values are functions; Unset stands for null.      *)
(***************************************************************************)

CONSTANTS FieldTable,     \* the fields of the collection: name -> whether it is hidden
          IsAuth,         \* whether the collection is of accounts
          RecordValues,   \* values besides Unset
          MaxEdits        \* how often the record is changed between its reading and its saves

ASSUME FieldTableAssumption == "id" \in DOMAIN FieldTable

VARIABLES record,         \* the record in memory
          recordRow,      \* its row in the database
          recordEdits, recordSaves
recordVars == <<record, recordRow, recordEdits, recordSaves>>

Unset == "null"
Blank == ""
FieldNames == DOMAIN FieldTable
NoData == [k \in {} |-> Unset]
Overlaid(new, old) == [k \in DOMAIN new \cup DOMAIN old |-> IF k \in DOMAIN new THEN new[k] ELSE old[k]]

NewRecord ==
    [id |-> Blank, data |-> NoData, original |-> [k \in FieldNames \ {"id"} |-> Unset], shown |-> [k \in {} |-> TRUE],
     custom |-> FALSE, anyEmail |-> FALSE, onlyChanged |-> FALSE, isNew |-> TRUE]

(* -------- values -------- *)
GetRaw(r, k) == IF k = "id" THEN r.id
                ELSE IF k \in DOMAIN r.data THEN r.data[k]
                ELSE IF k \in DOMAIN r.original THEN r.original[k] ELSE Unset
\* An id is kept among the values too.
SetRaw(r, k, v) == [r EXCEPT !.data = Overlaid([x \in {k} |-> v], @), !.id = IF k = "id" THEN v ELSE @]
LoadData(r, values) ==
    [r EXCEPT !.data = Overlaid(values, @), !.id = IF "id" \in DOMAIN values THEN values.id ELSE @]
GetBool(r, k) == GetRaw(r, k) \in {"true", "1"}

FieldsData(r) == [k \in FieldNames |-> GetRaw(r, k)]
CustomData(r) == [k \in DOMAIN r.data \ FieldNames |-> r.data[k]]
RowToRecord(values) == LoadData(NewRecord, values)
PostScan(r) == [r EXCEPT !.isNew = FALSE, !.original = FieldsData(r)]

(* -------- copies -------- *)
Original(r) == [NewRecord EXCEPT !.original = r.original, !.id = IF "id" \in DOMAIN r.original THEN r.original.id ELSE Blank]
Fresh(r) == [Original(r) EXCEPT !.data = FieldsData(r), !.id = r.id]
Clone(r) == [Original(r) EXCEPT !.id = IF "id" \in DOMAIN r.data THEN r.data.id ELSE r.id, !.data = r.data,
                                !.shown = r.shown, !.custom = r.custom, !.anyEmail = r.anyEmail,
                                !.onlyChanged = r.onlyChanged]

(* -------- exports -------- *)
Visible(r, k) == IF k \in DOMAIN r.shown THEN r.shown[k] ELSE ~FieldTable[k]

\* The visible fields and, if asked, the custom values; of an account never the password and the
\* token key, and the email only if its owner shows it; always the id.
PublicExport(r) ==
    LET own == {k \in FieldNames : Visible(r, k)}
        custom == IF r.custom THEN {k \in DOMAIN CustomData(r) : k \in DOMAIN r.shown => r.shown[k]} ELSE {}
        secret == IF IsAuth THEN {"password", "tokenKey"}
                                 \cup IF r.anyEmail \/ GetBool(r, "emailVisibility") THEN {} ELSE {"email"}
                            ELSE {}
    IN  [k \in ((own \cup custom) \ secret) \cup {"id"} |-> GetRaw(r, k)]

\* The fields, or only those that differ from the values the record was read with.
DbRow(r) ==
    LET changed(k) == k = "id" \/ GetRaw(r, k) # GetRaw(Original(r), k)
    IN  [k \in {f \in FieldNames : r.isNew \/ ~r.onlyChanged \/ changed(f)} |-> GetRaw(r, k)]

(* -------- a record and its row -------- *)
RecordInit ==
    /\ recordRow = [k \in FieldNames |-> IF k = "id" THEN "r1" ELSE Unset] /\ recordEdits = 0 /\ recordSaves = 0
    /\ record = PostScan(RowToRecord(recordRow))

EditTo(r) == recordEdits < MaxEdits /\ recordEdits' = recordEdits + 1 /\ record' = r /\ UNCHANGED <<recordRow, recordSaves>>
Edit ==
    \/ \E k \in (FieldNames \ {"id"}) \cup {"extra"}, v \in RecordValues \cup {Unset} : EditTo(SetRaw(record, k, v))
    \/ \E k \in FieldNames \cup {"extra"}, shown \in BOOLEAN :
          EditTo([record EXCEPT !.shown = [x \in DOMAIN @ \cup {k} |-> IF x = k THEN shown ELSE @[x]]])
    \/ \E flag \in {"custom", "anyEmail", "onlyChanged"} : EditTo([record EXCEPT ![flag] = TRUE])
    \/ EditTo(Clone(record))
    \/ EditTo(Fresh(record))

\* The values the record was read with stay what they were.
SaveRecord ==
    /\ recordSaves = 0 /\ recordSaves' = 1
    /\ recordRow' = Overlaid(DbRow(record), recordRow) /\ UNCHANGED <<record, recordEdits>>

RecordNext == Edit \/ SaveRecord
RecordSpec == RecordInit /\ [][RecordNext]_recordVars

RecordTypeOK == recordEdits \in 0..MaxEdits /\ recordSaves \in 0..1 /\ DOMAIN recordRow = FieldNames

(* -------- properties -------- *)

\* Whatever is hidden, shown, set and copied, clients never see a password, a token key or a custom
\* value of one of their names, nor an email its owner keeps, and a copy shows no more than the
\* record unless it forgot what was hidden by hand (fresh()).
ExportHidesSecrets ==
    LET out == PublicExport(record) IN
    /\ IsAuth => DOMAIN out \cap {"password", "tokenKey"} = {}
    /\ IsAuth /\ ~record.anyEmail /\ ~GetBool(record, "emailVisibility") => "email" \notin DOMAIN out
    /\ out.id = record.id
    /\ PublicExport(Clone(record)) = out

\* The first save of a record brings its row in line with it, also when only changed fields are
\* written.
SaveWritesAll == recordSaves = 0 => Overlaid(DbRow(record), recordRow) = FieldsData(record)

(***************************************************************************)
(* The form that changes a record of an auth collection: who submits it,   *)
(* what it takes from the body, and what it checks before it saves.        *)
(*                                                                         *)
(* A password is [plain, hash]: plain is what was given since the record   *)
(* was read, hash what is stored.                                          *)
(***************************************************************************)

CONSTANTS FormFields,     \* the fields of the record besides the password: name -> whether it is hidden
          FormBodies,     \* what callers submit: functions of some of the fields, "password", "passwordConfirm", "oldPassword"
          MaxFormSteps    \* how many calls of the form

VARIABLES form,           \* level, original and current values, and the three passwords given
          formOutcome,    \* "open", "refused", or "saved"
          raised,         \* the highest level that loaded a body
          formSteps
formVars == <<form, formOutcome, raised, formSteps>>

FormLevels == [default |-> 0, manager |-> 1, superuser |-> 2]
NoPassword == [plain |-> Blank, hash |-> Blank]
Said(body, key, before) == IF key \in DOMAIN body THEN body[key] ELSE before
HasManageAccess == form.level \in {FormLevels.manager, FormLevels.superuser}

\* A form of a stored record and one of a new record.
FormInit ==
    /\ \E new \in BOOLEAN :
         LET values == [k \in DOMAIN FormFields |-> IF new THEN Blank ELSE "stored"]
             pass == IF new THEN NoPassword ELSE [plain |-> Blank, hash |-> "p0"] IN
         form = [isNew |-> new, level |-> 0, original |-> values, values |-> values, stored |-> pass, pass |-> pass,
                 password |-> Blank, passwordConfirm |-> Blank, oldPassword |-> Blank]
    /\ formOutcome = "open" /\ raised = 0 /\ formSteps = 0

FormStep == formOutcome # "saved" /\ formSteps < MaxFormSteps /\ formSteps' = formSteps + 1

GrantAccess(level) ==
    /\ FormStep /\ form' = [form EXCEPT !.level = level] /\ UNCHANGED <<formOutcome, raised>>

\* Fields of the body are set, hidden ones only for superusers: for others they get back the value
\* they had.  A password is set on the record as it is given.
LoadBody(body) ==
    LET hidden(k) == form.level # FormLevels.superuser /\ FormFields[k] IN
    /\ FormStep /\ UNCHANGED formOutcome
    /\ raised' = IF form.level > raised THEN form.level ELSE raised
    /\ form' = [form EXCEPT
          !.password = Said(body, "password", @), !.passwordConfirm = Said(body, "passwordConfirm", @),
          !.oldPassword = Said(body, "oldPassword", @),
          !.values = [k \in DOMAIN FormFields |-> IF k \in DOMAIN body /\ hidden(k) THEN form.original[k]
                                                  ELSE Said(body, k, form.values[k])],
          !.pass = IF "password" \in DOMAIN body THEN [plain |-> body.password, hash |-> body.password] ELSE @]

\* The server's own code sets a password on the record behind the form.
SetPasswordDirectly(plain) ==
    /\ FormStep /\ form' = [form EXCEPT !.pass = [plain |-> plain, hash |-> plain]]
    /\ UNCHANGED <<formOutcome, raised>>

(* -------- validation -------- *)
\* A password the form did not give is not the form's to check.
PasswordUnchecked ==
    \/ form.pass.plain # Blank /\ form.pass.plain # form.password
    \/ form.pass.plain = Blank /\ form.pass.hash # Blank /\ form.isNew

ChangeErrors ==
    {k \in {"email", "verified"} : ~form.isNew /\ ~HasManageAccess /\ form.values[k] # form.original[k]}

PasswordFieldErrors ==
    LET given(k) == form[k] # Blank
        wrong == [password |-> /\ form.isNew \/ given("passwordConfirm") \/ given("oldPassword")
                               /\ ~given("password"),
                  passwordConfirm |->
                      \/ (form.isNew \/ given("password") \/ given("oldPassword")) /\ ~given("passwordConfirm")
                      \/ given("password") /\ given("passwordConfirm") /\ form.password # form.passwordConfirm,
                  oldPassword |->
                      \/ /\ ~form.isNew /\ ~HasManageAccess /\ ~given("oldPassword")
                         /\ given("password") \/ given("passwordConfirm")
                      \/ given("oldPassword") /\ form.oldPassword # form.stored.hash]
    IN  IF PasswordUnchecked THEN {} ELSE {k \in DOMAIN wrong : wrong[k]}

Submit ==
    /\ formOutcome # "saved"
    /\ formOutcome' = IF ChangeErrors \cup PasswordFieldErrors = {} THEN "saved" ELSE "refused"
    /\ UNCHANGED <<form, raised, formSteps>>

FormNext ==
    \/ \E level \in 0..2 : GrantAccess(level)
    \/ \E body \in FormBodies : LoadBody(body)
    \/ SetPasswordDirectly("p2") \/ Submit
FormSpec == FormInit /\ [][FormNext]_formVars

FormTypeOK == formOutcome \in {"open", "refused", "saved"} /\ formSteps \in 0..MaxFormSteps /\ form.level \in 0..2 /\ raised \in 0..2

(* -------- properties -------- *)

\* Without manager access a stored account keeps its email and its verification; a hidden field
\* changes only by a superuser's body; and a new password means that the old one was given, or that
\* the server set it.  (An empty password is taken without any check.)
FormProtects ==
    formOutcome = "saved" /\ ~form.isNew =>
        /\ ~HasManageAccess => \A k \in {"email", "verified"} : form.values[k] = form.original[k]
        /\ raised # FormLevels.superuser => \A k \in {f \in DOMAIN FormFields : FormFields[f]} : form.values[k] = form.original[k]
        /\ ~HasManageAccess /\ form.pass \notin {form.stored, NoPassword} =>
              \/ form.oldPassword = form.stored.hash /\ form.passwordConfirm = form.pass.plain
              \/ form.pass.plain # form.password

\* A new account has a password that was given twice, or one that the server set.
NewHasPassword ==
    formOutcome = "saved" /\ form.isNew =>
        \/ form.pass.plain # Blank /\ form.pass.plain = form.passwordConfirm
        \/ form.pass.plain # form.password

(***************************************************************************)
(* The API of the records of an auth collection: rows read, changed in     *)
(* memory and written back; pages of them; and the tokens its endpoints    *)
(* sign for the accounts.                                                  *)
(*                                                                         *)
(* Endpoints that answer "not yet implemented" change nothing and are left *)
(* out.  Statements of one row succeed or change nothing.                  *)
(***************************************************************************)

CONSTANTS UserIds,        \* ids of rows, given by callers or random
          UserBodies,     \* bodies of POST and PATCH: functions of some fields
          Askers,         \* requests
          UserRules,      \* the collection's rules: "create", "update", "delete" -> "null" or another
          TokenSecret,    \* the collection's secrets: type of token -> text
          MaxAsked        \* how many requests

ASSUME TokenSecretAssumption == TokenSecret \in [{"auth", "passwordReset", "verification"} -> Seq(STRING)]

VARIABLES users,          \* the rows: id -> values of the fields
          held,           \* request -> the operation and the record it holds
          userTokens,     \* tokens signed
          removed,        \* ids of rows deleted and not created again
          asked
userVars == <<users, held, userTokens, removed, asked>>

NothingAsked == [op |-> "none"]

\* A rule that is null admits superusers only; any other admits everybody.
CheckRecordAccess(rule, superuser) == superuser \/ rule # "null"

AskUser == asked < MaxAsked /\ asked' = asked + 1
WithKey(values, id) == [k \in DOMAIN values |-> IF k = "id" THEN id ELSE values[k]]
SetRow(id, values) == users' = [u \in DOMAIN users \cup {id} |-> IF u = id THEN values ELSE users[u]]

UserInit ==
    /\ users = [u \in {} |-> recordRow] /\ held = [p \in Askers |-> NothingAsked]
    /\ userTokens = {} /\ removed = {} /\ asked = 0

(* -------- rows -------- *)
\* An id that does not come with the body is a random one.
CreateUser(values, id, superuser) ==
    LET new == LoadData(NewRecord, values)
        key == IF new.id = Blank THEN id ELSE new.id IN
    /\ AskUser /\ CheckRecordAccess(UserRules.create, superuser)
    /\ key \notin DOMAIN users /\ SetRow(key, WithKey(DbRow(new), key)) /\ removed' = removed \ {key}
    /\ UNCHANGED <<held, userTokens>>

ReadUser(p, id, op, values, superuser) ==
    /\ AskUser /\ held[p] = NothingAsked /\ id \in DOMAIN users
    /\ CheckRecordAccess(UserRules[op], superuser)
    /\ held' = [held EXCEPT ![p] = [op |-> op, id |-> id, record |-> LoadData(RowToRecord(users[id]), values)]]
    /\ UNCHANGED <<users, userTokens, removed>>

UserAnswered(p) == held' = [held EXCEPT ![p] = NothingAsked] /\ UNCHANGED <<userTokens, asked>>

\* What would break: a row written whether it is there or not.
UpdateUser_Upserts(p) ==
    /\ held[p].op = "update" /\ UserAnswered(p) /\ UNCHANGED removed
    /\ LET a == held[p] IN SetRow(a.id, WithKey(DbRow(a.record), a.id))

\* All fields are written, to the row the request names; it keeps its id.
UpdateUser(p) ==
    /\ held[p].op = "update" /\ UserAnswered(p) /\ UNCHANGED removed
    /\ LET a == held[p] IN
       IF a.id \in DOMAIN users THEN SetRow(a.id, WithKey(DbRow(a.record), a.id)) ELSE UNCHANGED users

DeleteUser(p) ==
    /\ held[p].op = "delete" /\ UserAnswered(p)
    /\ users' = [u \in DOMAIN users \ {held[p].id} |-> users[u]]
    /\ removed' = removed \cup ({held[p].id} \cap DOMAIN users)

(* -------- pages -------- *)
PageOf(list, page, perPage) ==
    SubSeq(list, (page - 1) * perPage + 1, IF page * perPage < Len(list) THEN page * perPage ELSE Len(list))
TotalPages(list, perPage) == (Len(list) + perPage - 1) \div perPage

(* -------- tokens -------- *)
\* A token is signed with the account's token key and, put after it, the secret of its type.
KeyText(value) == IF value \in {Blank, Unset} THEN <<>> ELSE <<value>>
SigningKey(values, type) == KeyText(values.tokenKey) \o TokenSecret[type]
NewToken(id, type) == [id |-> id, type |-> type, key |-> SigningKey(users[id], type)]

FindByEmail(email) == {id \in DOMAIN users : users[id].email = email /\ email # Unset}

\* The password is compared as it is stored.
AuthWithPassword(email, password) ==
    /\ AskUser /\ \E id \in FindByEmail(email) :
          users[id].password = password /\ userTokens' = userTokens \cup {NewToken(id, "auth")}
    /\ UNCHANGED <<users, held, removed>>

\* Tokens for a reset and a verification go to the log; the answer is the same without an account.
RequestToken(email, type) ==
    /\ AskUser /\ IF FindByEmail(email) = {} THEN UNCHANGED userTokens
                  ELSE \E id \in FindByEmail(email) : userTokens' = userTokens \cup {NewToken(id, type)}
    /\ UNCHANGED <<users, held, removed>>

RequestPasswordReset(email) == RequestToken(email, "passwordReset")
RequestVerification(email) == RequestToken(email, "verification")

Impersonate(id) ==
    /\ AskUser /\ id \in DOMAIN users /\ userTokens' = userTokens \cup {NewToken(id, "auth")}
    /\ UNCHANGED <<users, held, removed>>

UserNext ==
    \/ \E id \in UserIds, super \in BOOLEAN :
         \/ \E values \in UserBodies : CreateUser(values, id, super)
         \/ \E p \in Askers : \/ \E values \in UserBodies : ReadUser(p, id, "update", values, super)
                              \/ ReadUser(p, id, "delete", NoData, super)
    \/ \E p \in Askers : UpdateUser(p) \/ DeleteUser(p)
    \/ \E email \in RecordValues : \/ \E password \in RecordValues : AuthWithPassword(email, password)
                             \/ RequestPasswordReset(email) \/ RequestVerification(email)
    \/ \E id \in UserIds : Impersonate(id)
UserSpec == UserInit /\ [][UserNext]_userVars

UserTypeOK == asked \in 0..MaxAsked /\ DOMAIN users \subseteq UserIds /\ removed \subseteq UserIds

(* -------- properties -------- *)

\* However reads, writes and deletions of a row overlap, a row stays under its own id, whatever id
\* bodies name, and a deleted row comes back only by being created.
RowsStayTheirs ==
    /\ \A id \in DOMAIN users : users[id].id = id /\ DOMAIN users[id] = FieldNames
    /\ removed \cap DOMAIN users = {}

\* The pages of a list, one after the other, are the list.
PagesCover ==
    LET list == SetToSeq(DOMAIN users) IN
    \A perPage \in 1..3 :
        FlattenSeq([page \in 1..TotalPages(list, perPage) |-> PageOf(list, page, perPage)]) = list

\* A token's key fits no other kind of token, so that one kept for a reset does not sign anybody in.
TokensAreApart == \A s, t \in userTokens : s.key = t.key => s.type = t.type
================================================================================
