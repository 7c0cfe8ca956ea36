----------------------------- MODULE Collections -----------------------------
(***************************************************************************)
(* The collections API: rows of _collections, and the requests that read a *)
(* row, change it in memory and write the whole of it back.  A collection  *)
(* of accounts has options with the secrets its tokens are signed with,    *)
(* stored as JSON; what the JSON does not say gets a default, and a secret *)
(* a random one.                                                           *)
(*                                                                         *)
(* Rules, fields and indexes are replaced key by key like the name.  The   *)
(* five kinds of token are one.  A random secret is the next number; 0 is  *)
(* the empty one.                                                          *)
(***************************************************************************)
EXTENDS Integers, Sequences, FiniteSets, SequencesExt

CONSTANTS CollectionIds,  \* ids callers use
          Patchers,       \* requests that read before they write
          Patches,        \* bodies of POST and PATCH: functions of some of the keys
          Imports,        \* bodies of imports: sequences of such bodies, and whether the rest is deleted
          MaxSaves        \* how many requests are made

\* The providers that options give have all their settings.
ProvidersWhole(body) ==
    "options" \in DOMAIN body /\ "oauth2" \in DOMAIN body.options =>
        DOMAIN body.options.oauth2 = {"enabled", "clientSecret", "twice"}
ASSUME BodiesAssumption ==
    /\ \A body \in Patches : ProvidersWhole(body)
    /\ \A import \in Imports : /\ import.entries \in Seq(ToSet(import.entries))
                               /\ \A body \in ToSet(import.entries) : ProvidersWhole(body)

VARIABLES collections,  \* the rows: id -> [name, type, system, options]
          patching,     \* request -> what it holds between its database calls
          secrets,      \* random secrets drawn so far
          requests      \* requests made so far
collectionVars == <<collections, patching, secrets, requests>>

EmptyText == ""
NoOptions == [s \in {} |-> 0]
Idle == [op |-> "none"]
Given(body, key, default) == IF key \in DOMAIN body THEN body[key] ELSE default

(* -------- options of an auth collection -------- *)
OptionDefaults(secret) ==
    [authToken |-> [secret |-> secret, sound |-> TRUE],
     passwordAuth |-> [enabled |-> TRUE, identities |-> 1],
     oauth2 |-> [enabled |-> FALSE, clientSecret |-> EmptyText, twice |-> FALSE],
     mfa |-> [enabled |-> FALSE, sound |-> TRUE],
     otp |-> [enabled |-> FALSE, sound |-> TRUE],
     authAlert |-> "empty"]

\* Reading takes each section from the JSON as a whole; writing leaves out the providers' secrets.
FromJSON(json, secret) == [s \in DOMAIN OptionDefaults(secret) |-> Given(json, s, OptionDefaults(secret)[s])]
ToJSON(options) == [options EXCEPT !.oauth2.clientSecret = EmptyText]

TokenErrors(o) == IF o.authToken.secret = 0 \/ ~o.authToken.sound THEN {"authToken"} ELSE {}
PasswordErrors(o) == IF o.passwordAuth.enabled /\ o.passwordAuth.identities = 0 THEN {"identityFields"} ELSE {}
MfaErrors(o) == IF o.mfa.enabled /\ ~o.mfa.sound THEN {"mfa"} ELSE {}
OtpErrors(o) == IF o.otp.enabled /\ ~o.otp.sound THEN {"otp"} ELSE {}
\* The secrets of the providers are not looked at.
OAuth2Errors(o) == IF o.oauth2.enabled /\ o.oauth2.twice THEN {"providers"} ELSE {}
AlertErrors(o) == IF o.authAlert = "half" THEN {"authAlert"} ELSE {}
OptionErrors(o) ==
    UNION {TokenErrors(o), PasswordErrors(o), MfaErrors(o), OtpErrors(o), OAuth2Errors(o), AlertErrors(o)}
    \cup IF o.mfa.enabled /\ Cardinality({s \in {"passwordAuth", "oauth2", "otp"} : o[s].enabled}) < 2
         THEN {"mfa"} ELSE {}

(* -------- a collection in memory -------- *)
NewCollection == [id |-> EmptyText, name |-> EmptyText, type |-> "base", system |-> FALSE, options |-> NoOptions]

LoadFromJSON(c, body, secret) ==
    LET type == Given(body, "type", c.type) IN
    [id |-> Given(body, "id", c.id), name |-> Given(body, "name", c.name), type |-> type,
     system |-> Given(body, "system", c.system),
     options |-> IF type = "auth" /\ "options" \in DOMAIN body THEN FromJSON(body.options, secret) ELSE c.options]

\* What only an auth collection stores; another stores no options.
DbExport(c) ==
    [name |-> c.name, type |-> c.type, system |-> c.system,
     options |-> IF c.type = "auth" /\ c.options # NoOptions THEN ToJSON(c.options) ELSE NoOptions]

LoadFromDb(id, row, secret) ==
    [id |-> id, name |-> row.name, type |-> row.type, system |-> row.system,
     options |-> IF row.type = "auth" THEN FromJSON(row.options, secret) ELSE NoOptions]

(* -------- requests -------- *)
CollectionInit ==
    /\ collections = [id \in {} |-> DbExport(NewCollection)]
    /\ patching = [p \in Patchers |-> Idle] /\ secrets = 0 /\ requests = 0

Draws == secrets' = secrets + 2
StoreRow(id, row) == collections' = [i \in DOMAIN collections \cup {id} |-> IF i = id THEN row ELSE collections[i]]
Drop(id) == collections' = [i \in DOMAIN collections \ {id} |-> collections[i]]
NewRequest == requests < MaxSaves /\ requests' = requests + 1
Done(p) == patching' = [patching EXCEPT ![p] = Idle]

\* A collection that comes without an id gets a random one, which no row has.
Identified(c, id) == [c EXCEPT !.id = IF c.id = EmptyText THEN id ELSE c.id]

\* Neither the validation nor the table's synchronisation is part of it; a taken id is refused by
\* the database.
CreateCollection(body, id) ==
    LET c == Identified(LoadFromJSON(NewCollection, body, secrets + 1), id) IN
    /\ NewRequest /\ Given(body, "name", EmptyText) # EmptyText /\ c.id \notin DOMAIN collections
    /\ StoreRow(c.id, DbExport(c)) /\ Draws /\ UNCHANGED patching

ReadCollection(p, id, op, body) ==
    /\ NewRequest /\ patching[p] = Idle /\ id \in DOMAIN collections
    /\ LET c == LoadFromDb(id, collections[id], secrets + 1) IN
       patching' = [patching EXCEPT ![p] = [op |-> op, row |-> collections[id], body |-> body,
                                            c |-> LoadFromJSON(c, body, secrets + 2)]]
    /\ Draws /\ UNCHANGED collections

\* The row written is the one of the id the collection has now, if it is there; the answer does
\* not depend on it.
WriteCollection(p) ==
    /\ patching[p].op = "patch" /\ Done(p) /\ UNCHANGED <<secrets, requests>>
    /\ LET c == patching[p].c IN
       IF c.id \in DOMAIN collections THEN StoreRow(c.id, DbExport(c)) ELSE UNCHANGED collections

DeleteCollection(p) ==
    /\ patching[p].op = "delete" /\ Done(p) /\ UNCHANGED <<secrets, requests>>
    /\ Drop(patching[p].c.id)

(* -------- imports -------- *)
StartImport(p, import) ==
    /\ NewRequest /\ patching[p] = Idle
    /\ patching' = [patching EXCEPT ![p] = [op |-> "look", left |-> import.entries, import |-> import]]
    /\ UNCHANGED <<collections, secrets>>

\* Each entry is a new collection that replaces the row of its id; an entry with neither name nor
\* id is an error and skipped.
LookUp(p, id) ==
    LET w == patching[p]
        c == Identified(LoadFromJSON(NewCollection, Head(w.left), secrets + 1), id) IN
    /\ w.op = "look" /\ w.left # <<>> /\ Draws
    /\ "id" \in DOMAIN Head(w.left) \/ id \notin DOMAIN collections
    /\ UNCHANGED <<collections, requests>>
    /\ patching' = [patching EXCEPT ![p] =
          IF Given(Head(w.left), "name", EmptyText) = EmptyText /\ Given(Head(w.left), "id", EmptyText) = EmptyText
          THEN [w EXCEPT !.left = Tail(w.left)]
          ELSE [op |-> "import", left |-> Tail(w.left), import |-> w.import, c |-> c,
                exists |-> c.id \in DOMAIN collections]]

\* By then the row may have gone, and an update finds nothing, or come, and an insert fails.
ImportOne(p) ==
    LET w == patching[p] IN
    /\ w.op = "import" /\ UNCHANGED <<secrets, requests>>
    /\ IF w.exists = (w.c.id \in DOMAIN collections) THEN StoreRow(w.c.id, DbExport(w.c)) ELSE UNCHANGED collections
    /\ patching' = [patching EXCEPT ![p] = [op |-> "look", left |-> w.left, import |-> w.import]]

\* What the import does not name is deleted, system collections excepted.
Sweep(p) ==
    LET w == patching[p]
        names == {Given(w.import.entries[i], "name", EmptyText) : i \in DOMAIN w.import.entries} IN
    /\ w.op = "look" /\ w.left = <<>> /\ UNCHANGED <<collections, secrets, requests>>
    /\ patching' = [patching EXCEPT ![p] =
          [op |-> "sweep",
           gone |-> IF w.import.deleteMissing
                    THEN {id \in DOMAIN collections : /\ collections[id].name \notin names \cup {EmptyText}
                                                      /\ ~collections[id].system}
                    ELSE {}]]
SweepOne(p, id) ==
    /\ patching[p].op = "sweep" /\ id \in patching[p].gone
    /\ Drop(id) /\ patching' = [patching EXCEPT ![p].gone = @ \ {id}]
    /\ UNCHANGED <<secrets, requests>>
SweepEnds(p) ==
    /\ patching[p].op = "sweep" /\ patching[p].gone = {} /\ Done(p)
    /\ UNCHANGED <<collections, secrets, requests>>

CollectionNext ==
    \/ \E id \in CollectionIds, body \in Patches : CreateCollection(body, id)
    \/ \E p \in Patchers :
         \/ \E id \in CollectionIds : \/ \E body \in Patches : ReadCollection(p, id, "patch", body)
                                      \/ ReadCollection(p, id, "delete", NoOptions)
                                      \/ LookUp(p, id) \/ SweepOne(p, id)
         \/ \E import \in Imports : StartImport(p, import)
         \/ WriteCollection(p) \/ DeleteCollection(p) \/ ImportOne(p) \/ Sweep(p) \/ SweepEnds(p)

CollectionSpec == CollectionInit /\ [][CollectionNext]_collectionVars

CollectionTypeOK ==
    /\ requests \in 0..MaxSaves /\ DOMAIN collections \subseteq CollectionIds
    /\ \A id \in DOMAIN collections : collections[id].type \in {"base", "auth", "view"}

(* -------- properties -------- *)

\* A PATCH that says nothing of the options of an auth collection writes back the secrets it read,
\* so that the tokens signed with them stay good, and options that were valid stay valid.
OptionsSurvive ==
    \A p \in Patchers :
       LET w == patching[p] IN
       w.op = "patch" /\ "options" \notin DOMAIN w.body /\ w.row.options # NoOptions /\ w.c.type = "auth" =>
          /\ DbExport(w.c).options.authToken = w.row.options.authToken
          /\ OptionErrors(w.row.options) = {} => OptionErrors(DbExport(w.c).options) = {}

\* No provider's secret is ever stored, whichever request wrote the row.
NoClientSecrets ==
    \A id \in DOMAIN collections : collections[id].options # NoOptions =>
       collections[id].options.oauth2.clientSecret = EmptyText

(***************************************************************************)
(* The types of a collection's fields (core/field*.ts): which settings a   *)
(* field may have, the value its column starts with, the schema that       *)
(* describes its values, and what becomes of a value given to it.          *)
(*                                                                         *)
(* A type is an operator of a field's settings and a value given to it.    *)
(* It answers whether the settings are sound, the empty value of the       *)
(* column, the value kept, whether it is valid and whether the schema      *)
(* takes it; only the types in Checked look at their values, the others    *)
(* leave that to the schema.  A text is its length and whether it matches  *)
(* the pattern, an address its domain, a date or a number a number.        *)
(***************************************************************************)

CONSTANTS FieldSettings,  \* settings that a field is given, of all types
          GivenValues,    \* the values given, by type
          BadNames,       \* names that are empty, long, reserved, not of word characters or with "_via_"
          NoneGiven,        \* no value: the empty text, null
          Malformed       \* a text that is not of the form that is asked for

VARIABLES setting,        \* the field
          kept            \* the value of a record's field
fieldVars == <<setting, kept>>

Checked == {"password", "select", "relation", "json", "date", "editor", "email", "url", "geo_point"}

NothingWritten == [length |-> 0, matches |-> FALSE]

Common(f) == f.name \notin BadNames /\ f.help <= 300

\* A value of several, without what is empty or repeated.
NonzeroUniques(list) == FoldLeft(LAMBDA seen, v : IF v = "" \/ v \in ToSet(seen) THEN seen ELSE Append(seen, v), <<>>, list)
\* It may be given as a list, as the text of one, or as one value.
ToUniqueStringSlice(raw) ==
    CASE raw.form = "none" -> <<>>
      [] raw.form \in {"list", "json"} -> NonzeroUniques(raw.of)
      [] raw.form = "text" -> NonzeroUniques(<<raw.text>>)
\* A field of one value keeps the last given.
LastSelected(multiple, list) == IF multiple THEN list ELSE IF list = <<>> THEN "" ELSE Last(list)
Sized(max, default) == IF max > 0 THEN max ELSE default
AtMost(n, m) == IF n < m THEN m ELSE n

(* -------- types of one value -------- *)
TextField(f, raw) ==
    LET least == IF f.min > 0 THEN f.min ELSE IF f.required \/ f.primaryKey THEN 1 ELSE 0
    IN  [sound |-> Common(f) /\ (f.primaryKey => f.name = "id") /\ f.min >= 0 /\ f.max >= f.min /\ f.pattern # Malformed,
         default |-> NothingWritten, kept |-> raw, valid |-> TRUE,
         fits |-> raw.length \in least .. Sized(f.max, 5000) /\ (f.pattern # NoneGiven => raw.matches)]

NumberField(f, raw) ==
    [sound |-> Common(f) /\ (f.min # NoneGiven /\ f.max # NoneGiven => f.max >= f.min),
     default |-> 0, kept |-> raw, valid |-> TRUE,
     fits |-> (f.min # NoneGiven => raw >= f.min) /\ (f.max # NoneGiven => raw <= f.max)]

BoolField(f, raw) == [sound |-> Common(f), default |-> FALSE, kept |-> raw, valid |-> TRUE, fits |-> raw \in BOOLEAN]

AutodateField(f, raw) ==
    [sound |-> f.name \notin BadNames /\ (f.onCreate \/ f.onUpdate), default |-> NoneGiven, kept |-> raw, valid |-> TRUE,
     fits |-> raw # Malformed]

PasswordField(f, raw) ==
    LET lengths == Sized(f.min, 8) .. Sized(f.max, 72)
        right == raw.length \in lengths /\ (f.pattern # NoneGiven => raw.matches)
    IN  [sound |-> /\ Common(f) /\ f.min >= 0 /\ f.max <= 72 /\ (f.max > 0 => f.max >= f.min)
                   /\ f.pattern # Malformed /\ f.algorithm \in {"bcrypt", "argon2"},
         default |-> NothingWritten, kept |-> raw,
         valid |-> IF raw.length = 0 THEN ~f.required ELSE right, fits |-> right]

EditorField(f, raw) ==
    LET size == Sized(f.max, 5242880)
    IN  [sound |-> Common(f) /\ f.max >= 0, default |-> NothingWritten, kept |-> raw,
         valid |-> IF raw.length = 0 THEN ~f.required ELSE raw.length <= size,
         fits |-> raw.length <= size /\ (f.required => raw.length > 0)]

\* Bounds that are no dates are refused with the settings.
DateField(f, raw) ==
    LET after(d) == f.min \in {NoneGiven, Malformed} \/ d >= f.min
        before(d) == f.max \in {NoneGiven, Malformed} \/ d <= f.max
    IN  [sound |-> /\ Common(f) /\ Malformed \notin {f.min, f.max}
                   /\ (NoneGiven \notin {f.min, f.max} => f.min <= f.max),
         default |-> NoneGiven, kept |-> raw,
         valid |-> IF raw = NoneGiven THEN ~f.required ELSE raw # Malformed /\ after(raw) /\ before(raw),
         fits |-> raw = NoneGiven \/ (raw # Malformed /\ after(raw) /\ before(raw))]

Allowed(f, domain) == (f.only # {} => domain \in f.only) /\ domain \notin f.except
\* The schema of an address does not know of domains.
EmailField(f, raw) ==
    [sound |-> Common(f) /\ {} \in {f.only, f.except}, default |-> NoneGiven, kept |-> raw,
     valid |-> IF raw = NoneGiven THEN ~f.required ELSE raw # Malformed /\ Allowed(f, raw),
     fits |-> IF raw = NoneGiven THEN ~f.required ELSE raw # Malformed]
\* Of a URL, the domain is the host with its port.
URLField(f, raw) ==
    [sound |-> Common(f) /\ {} \in {f.only, f.except}, default |-> NoneGiven, kept |-> raw,
     valid |-> IF raw = NoneGiven THEN ~f.required ELSE raw # Malformed /\ Allowed(f, raw),
     fits |-> IF raw = NoneGiven THEN ~f.required ELSE raw # Malformed]

GeoPointField(f, raw) ==
    LET point == "lon" \in DOMAIN raw /\ "lat" \in DOMAIN raw
        right == point /\ raw.lon \in -180 .. 180 /\ raw.lat \in -90 .. 90
    IN  [sound |-> Common(f), default |-> NoneGiven, kept |-> raw,
         valid |-> IF raw = NoneGiven THEN ~f.required ELSE right,
         fits |-> IF raw = NoneGiven THEN TRUE ELSE right /\ DOMAIN raw = {"lon", "lat"}]

(* -------- types of several values -------- *)
\* How many there may be says the schema of a field of several; a single one is any text.
ListField(f, raw, sound, valid, among) ==
    LET list == ToUniqueStringSlice(raw)
        multiple == f.maxSelect > 1
    IN  [sound |-> sound, default |-> IF multiple THEN <<>> ELSE "", kept |-> LastSelected(multiple, list), valid |-> valid,
         fits |-> ToSet(list) \subseteq among /\ (multiple => Len(list) <= f.maxSelect)]

SelectField(f, raw) ==
    LET list == ToUniqueStringSlice(raw) IN
    ListField(f, raw,
              Common(f) /\ f.values # {} /\ f.maxSelect \in 0 .. AtMost(1, Cardinality(f.values)),
              IF list = <<>> THEN ~f.required
              ELSE Len(list) <= AtMost(f.maxSelect, 1) /\ ToSet(list) \subseteq f.values,
              f.values)

RelationField(f, raw) ==
    LET list == ToUniqueStringSlice(raw)
        field == ListField(f, raw,
                           Common(f) /\ f.collectionId # "" /\ f.minSelect >= 0 /\ f.maxSelect >= f.minSelect,
                           IF list = <<>> THEN ~f.required
                           ELSE Len(list) >= f.minSelect /\ Len(list) <= AtMost(f.maxSelect, 1),
                           ToSet(list))
    IN  [field EXCEPT !.fits = @ /\ (f.maxSelect > 1 => Len(list) >= f.minSelect)]

FileField(f, raw) ==
    ListField(f, raw, Common(f) /\ f.maxSize >= 0 /\ f.maxSelect >= 0 /\ f.thumbs \subseteq {"100x0", "0x50f"}, TRUE,
              ToSet(ToUniqueStringSlice(raw)))

(* -------- JSON -------- *)
\* A text that is no JSON is made one; what is no text is kept as it is.
PrepareValue(raw) ==
    CASE raw.form = "text" /\ raw.length = 0 -> [form |-> "json", of |-> "empty", length |-> 2]
      [] raw.form = "text" /\ raw.length > 0 -> [form |-> "json", of |-> "text", length |-> raw.length + 2]
      [] OTHER -> raw
\* An object or a list is validated as what String makes of it, which is no JSON but for a list of
\* one element, and lengths are of characters.
JSONField(f, raw) ==
    LET value == PrepareValue(raw)
        json == value.form \in {"none", "json"} \/ (value.form = "list" /\ value.length = 1)
        empty == value.form = "none" \/ (value.form = "json" /\ value.of \in {"empty", "null"})
    IN  [sound |-> Common(f) /\ f.maxSize >= 0, default |-> [form |-> "none"], kept |-> value,
         valid |-> json /\ (value.form # "none" => value.length <= Sized(f.maxSize, 1048576)) /\ ~(f.required /\ empty),
         fits |-> TRUE]

(* -------- fields -------- *)
CreateField(f, raw) ==
    CASE f.type = "text" -> TextField(f, raw) [] f.type = "number" -> NumberField(f, raw)
      [] f.type = "bool" -> BoolField(f, raw) [] f.type = "autodate" -> AutodateField(f, raw)
      [] f.type = "password" -> PasswordField(f, raw) [] f.type = "editor" -> EditorField(f, raw)
      [] f.type = "date" -> DateField(f, raw) [] f.type = "email" -> EmailField(f, raw)
      [] f.type = "url" -> URLField(f, raw) [] f.type = "geo_point" -> GeoPointField(f, raw)
      [] f.type = "select" -> SelectField(f, raw) [] f.type = "relation" -> RelationField(f, raw)
      [] f.type = "file" -> FileField(f, raw) [] f.type = "json" -> JSONField(f, raw)

FieldInit == setting = NoneGiven /\ kept = NoneGiven
\* A field whose settings are sound starts with the default of its column.
ConfigureField(f) ==
    LET made == CreateField(f, CHOOSE raw \in GivenValues[f.type] : TRUE) IN
    made.sound /\ setting = NoneGiven /\ setting' = f /\ kept' = made.default
\* A value that is valid is kept as the type normalizes it.
GiveValue(raw) ==
    /\ setting # NoneGiven /\ CreateField(setting, raw).valid
    /\ kept' = CreateField(setting, raw).kept /\ UNCHANGED setting
FieldNext ==
    \/ \E f \in FieldSettings : ConfigureField(f)
    \/ setting # NoneGiven /\ \E raw \in GivenValues[setting.type] : GiveValue(raw)
FieldTypeOK == setting \in FieldSettings \cup {NoneGiven}

(* -------- properties -------- *)

\* What a value is kept as: one of several as text, and several as the text of a list.
Stored(f, value) ==
    IF f.type \in {"select", "relation", "file"}
    THEN IF f.maxSelect > 1 THEN [form |-> "json", of |-> value] ELSE [form |-> "text", text |-> value]
    ELSE value
\* A value is kept as itself when it is read and given again.
KeptAsItself ==
    setting # NoneGiven => CreateField(setting, Stored(setting, kept)).kept = kept

\* A value that a field holds and that is not its default is one its schema takes.  (A geo point may
\* have properties that its schema does not know.)
SchemaFits ==
    setting # NoneGiven /\ setting.type \in Checked =>
        LET made == CreateField(setting, Stored(setting, kept))
        IN  kept = made.default \/ made.fits \/ (setting.type = "geo_point" /\ DOMAIN kept # {"lon", "lat"})

\* A field with sound settings takes some value that its schema takes as well, and its default when
\* no value is required.  (A password of more than 72 characters is asked for and refused when only
\* its least length is set.)
FieldCanBeGiven ==
    setting # NoneGiven /\ ~(setting.type = "password" /\ setting.max = 0 /\ setting.min > 72) =>
        /\ \E raw \in GivenValues[setting.type] : LET made == CreateField(setting, raw) IN made.valid /\ made.fits
        /\ ~setting.required /\ kept # NoneGiven => LET made == CreateField(setting, Stored(setting, kept)) IN made.valid
=================================================================================
