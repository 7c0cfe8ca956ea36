-------------------------------- MODULE Storage --------------------------------
(***************************************************************************)
(* Objects of one bucket: the metadata row in storage.objects and the bytes *)
(* in the file store (src/apis/file.ts, src/apis/storage-postgres.ts,       *)
(* src/tools/filesystem/store.ts, src/apis/signed-url.ts).                  *)
(*                                                                          *)
(* A write calls the store inside the transaction that changes the row, so  *)
(* the two part when the transaction does not commit after the store was    *)
(* called, when the handler calls it although its transaction was lost, and *)
(* when the store keeps bytes it should delete.  READ COMMITTED             *)
(* transactions meet at the row and at its unique index entry: the second   *)
(* writer of a name waits for the first.                                    *)
(***************************************************************************)
EXTENDS Integers, FiniteSets, TLC

CONSTANTS
    Requests,    \* slots for concurrent requests
    Names,       \* object names
    Tokens,      \* signed PUT tokens
    MaxContents  \* bound: contents ever uploaded

ASSUME MaxContentsAssumption == MaxContents \in Nat
\* What a request does is a word, or the token it presents.
ASSUME TokensAssumption == Tokens \cap {"none", "upload", "copy", "move", "remove"} = {}

VARIABLES
    bucket,    \* the committed row of storage.buckets is there
    dir,       \* the bucket's directory is there
    row,       \* the content each committed row of storage.objects describes, 0 for no row
    bytes,     \* the content in the store, 0 for no file
    locked,    \* names with a row that an open transaction wrote
    contents,  \* contents uploaded so far
    req,       \* each request: its place, what it does, its names and content, and
               \* whether its transaction was lost
    token,     \* each token's name and age
    consumed,  \* the rows of storage.consumed_upload_tokens
    spent,     \* history: uses each token was spent for
    torn       \* history: names whose row and bytes a failure or a cascade parted, and
               \* no write or removal has brought together since

storageVars == <<bucket, dir, row, bytes, locked, contents, req, token, consumed, spent, torn>>
tokenVars == <<token, consumed, spent>>

NoName == "none"
Idle == [at |-> "idle", does |-> "none", name |-> NoName, from |-> NoName, upsert |-> FALSE,
         content |-> 0, lost |-> FALSE]
Write(does, n, from, upsert, c) ==
    [at |-> "insert", does |-> does, name |-> n, from |-> from, upsert |-> upsert, content |-> c,
     lost |-> FALSE]

StorageInit ==
    /\ bucket = TRUE /\ dir = FALSE
    /\ row = [n \in Names |-> 0] /\ bytes = [n \in Names |-> 0] /\ locked = {} /\ contents = 0
    /\ req = [r \in Requests |-> Idle]
    /\ token = [t \in Tokens |-> [name |-> NoName, age |-> "unminted"]]
    /\ consumed = {} /\ spent = [t \in Tokens |-> 0] /\ torn = {}

At(r, place) == req[r].at = place
Goes(r, place) == req' = [req EXCEPT ![r].at = place]
Ends(r) == req' = [req EXCEPT ![r] = Idle]

(***************************************************************************)
(* Requests that write an object.                                          *)
(***************************************************************************)
\* POST /object/:bucket/*: objectMetadata finds the bucket, and the transaction begins.
Upload(r) ==
    /\ At(r, "idle") /\ bucket /\ contents < MaxContents
    /\ \E n \in Names, upsert \in BOOLEAN :
        req' = [req EXCEPT ![r] = Write("upload", n, NoName, upsert, contents + 1)]
    /\ contents' = contents + 1
    /\ UNCHANGED <<bucket, dir, row, bytes, locked, torn, tokenVars>>

\* POST /object/copy and /object/move: existsOrThrow finds no row at the destination.
CopyBegins(r) ==
    /\ At(r, "idle")
    /\ \E from, to \in Names, does \in {"copy", "move"} :
        /\ from # to /\ row[to] = 0
        /\ req' = [req EXCEPT ![r] = [Write(does, to, from, FALSE, 0) EXCEPT !.at = "download"]]
    /\ UNCHANGED <<bucket, dir, row, bytes, locked, contents, torn, tokenVars>>

\* Mutant: the check before the download is taken for enough.
Copied_Upserts(r) ==
    req' = [req EXCEPT ![r].at = "insert", ![r].content = bytes[req[r].from], ![r].upsert = TRUE]
\* The downloaded buffer is uploaded under the new name, with upsert: false.
Copied(r) == req' = [req EXCEPT ![r].at = "insert", ![r].content = bytes[req[r].from]]

\* Mutant: a row whose bytes are missing is downloaded as an empty object.
Download_Empty(r) ==
    /\ At(r, "download")
    /\ IF row[req[r].from] # 0 THEN Copied(r) ELSE Ends(r)
    /\ UNCHANGED <<bucket, dir, row, bytes, locked, contents, torn, tokenVars>>
\* access.download: one transaction with the row's SELECT and the store's read; then
\* objectMetadata, whose bucket is there as the row is.
Download(r) ==
    /\ At(r, "download")
    /\ IF row[req[r].from] # 0 /\ bytes[req[r].from] # 0 THEN Copied(r) ELSE Ends(r)
    /\ UNCHANGED <<bucket, dir, row, bytes, locked, contents, torn, tokenVars>>

\* INSERT, with ON CONFLICT DO UPDATE when upserting: it waits for an open writer of the
\* name, and ends the request when the bucket is gone (23503) or the name taken (23505).
Insert(r) ==
    /\ At(r, "insert") /\ req[r].name \notin locked
    /\ IF bucket /\ (row[req[r].name] = 0 \/ req[r].upsert)
       THEN Goes(r, "persist") /\ locked' = locked \cup {req[r].name}
       ELSE Ends(r) /\ UNCHANGED locked
    /\ UNCHANGED <<bucket, dir, row, bytes, contents, torn, tokenVars>>

\* persist: ensureBucket and save, also when the transaction was lost meanwhile; only the
\* next statement fails then.
Persist(r) ==
    LET n == req[r].name IN
    /\ At(r, "persist")
    /\ dir' = TRUE
    /\ bytes' = [bytes EXCEPT ![n] = req[r].content]
    /\ IF req[r].lost THEN Ends(r) /\ torn' = torn \cup {n}
       ELSE Goes(r, "commit") /\ torn' = torn \ {n}
    /\ UNCHANGED <<bucket, row, locked, contents, tokenVars>>

\* COMMIT of the row; a move goes on to remove its source.
Commit(r) ==
    LET n == req[r].name IN
    /\ At(r, "commit")
    /\ row' = [row EXCEPT ![n] = req[r].content]
    /\ locked' = locked \ {n}
    /\ req' = [req EXCEPT ![r] =
                 IF req[r].does = "move"
                 THEN [req[r] EXCEPT !.at = "delete", !.name = req[r].from] ELSE Idle]
    /\ UNCHANGED <<bucket, dir, bytes, contents, torn, tokenVars>>

(***************************************************************************)
(* Removing an object.                                                     *)
(***************************************************************************)
\* DELETE /object/:bucket.
Remove(r) ==
    /\ At(r, "idle")
    /\ \E n \in Names : req' = [req EXCEPT ![r] = [Write("remove", n, NoName, FALSE, 0) EXCEPT !.at = "delete"]]
    /\ UNCHANGED <<bucket, dir, row, bytes, locked, contents, torn, tokenVars>>

\* Mutant: the row's deletion commits before the store is called.
DeleteRow_Commits(r) ==
    LET n == req[r].name IN
    /\ At(r, "delete") /\ n \notin locked
    /\ row' = [row EXCEPT ![n] = 0]
    /\ IF row[n] # 0 THEN Goes(r, "unlink") ELSE Ends(r)
    /\ UNCHANGED <<bucket, dir, bytes, locked, contents, torn, tokenVars>>
\* DELETE ... RETURNING: it waits for an open writer of the row, and a name without a
\* row is not passed to the store.
DeleteRow(r) ==
    LET n == req[r].name IN
    /\ At(r, "delete") /\ n \notin locked
    /\ IF row[n] # 0 THEN Goes(r, "unlink") /\ locked' = locked \cup {n} ELSE Ends(r) /\ UNCHANGED locked
    /\ UNCHANGED <<bucket, dir, row, bytes, contents, torn, tokenVars>>

\* store.delete: the bytes go, or the file cannot be unlinked, which nobody is told.
Unlink(r) ==
    LET n == req[r].name IN
    /\ At(r, "unlink")
    /\ \/ /\ bytes' = [bytes EXCEPT ![n] = 0]
          /\ torn' = IF req[r].lost THEN torn \cup {n} ELSE torn \ {n}
       \/ /\ bytes[n] # 0 /\ UNCHANGED bytes
          /\ torn' = IF req[r].lost THEN torn ELSE torn \cup {n}
    /\ IF req[r].lost THEN Ends(r) ELSE Goes(r, "deleted")
    /\ UNCHANGED <<bucket, dir, row, locked, contents, tokenVars>>

\* COMMIT of the deletion.
CommitDelete(r) ==
    LET n == req[r].name IN
    /\ At(r, "deleted")
    /\ row' = [row EXCEPT ![n] = 0]
    /\ locked' = locked \ {n}
    /\ Ends(r)
    /\ UNCHANGED <<bucket, dir, bytes, contents, torn, tokenVars>>

(***************************************************************************)
(* Signed uploads.                                                         *)
(***************************************************************************)
\* signUpload: authorizeSignedUpload inserts the row as a probe and rolls it back.
SignUpload(t) ==
    /\ token[t].age = "unminted" /\ bucket
    /\ \E n \in Names \ locked :
        row[n] = 0 /\ token' = [token EXCEPT ![t] = [name |-> n, age |-> "valid"]]
    /\ UNCHANGED <<bucket, dir, row, bytes, locked, contents, req, consumed, spent, torn>>

\* receiveSignedUpload up to spendSignedUpload: the token verifies.
Receive(r) ==
    /\ At(r, "idle")
    /\ \E t \in Tokens :
        /\ token[t].age = "valid"
        /\ req' = [req EXCEPT ![r] = [Write(t, token[t].name, NoName, FALSE, 0) EXCEPT !.at = "spend"]]
    /\ UNCHANGED <<bucket, dir, row, bytes, locked, contents, torn, tokenVars>>

\* Mutant: a use is forgotten as soon as its token expires.
Forgotten_AtExpiry == {t \in consumed : token[t].age # "valid"}
\* Uses a day past their token's expiry, which the statement deletes.
Forgotten == {t \in consumed : token[t].age = "old"}

\* consumeSignedUpload: one statement, the second use of a token inserts nothing.
Spend(r) ==
    LET t == req[r].does IN
    /\ At(r, "spend")
    /\ IF t \in consumed
       THEN consumed' = (consumed \ Forgotten) \cup {t} /\ Ends(r) /\ UNCHANGED spent
       ELSE /\ consumed' = (consumed \ Forgotten) \cup {t}
            /\ spent' = [spent EXCEPT ![t] = @ + 1]
            /\ Goes(r, "receive")
    /\ UNCHANGED <<bucket, dir, row, bytes, locked, contents, token, torn>>

\* The body arrives within its limits, or not; objectMetadata finds the bucket, or not.
ReadBody(r) ==
    /\ At(r, "receive")
    /\ \/ Ends(r) /\ UNCHANGED contents
       \/ /\ bucket /\ contents < MaxContents
          /\ req' = [req EXCEPT ![r].at = "insert", ![r].content = contents + 1]
          /\ contents' = contents + 1
    /\ UNCHANGED <<bucket, dir, row, bytes, locked, torn, tokenVars>>

\* A token expires, so that its name is of no use, and a day passes.  A statement takes
\* less than a day.
TokenAges(t) ==
    /\ \/ /\ token[t].age = "valid"
          /\ token' = [token EXCEPT ![t] = [name |-> NoName, age |-> "expired"]]
       \/ /\ token[t].age = "expired" /\ \A r \in Requests : ~(At(r, "spend") /\ req[r].does = t)
          /\ token' = [token EXCEPT ![t].age = "old"]
    /\ UNCHANGED <<bucket, dir, row, bytes, locked, contents, req, consumed, spent, torn>>

(***************************************************************************)
(* The bucket.                                                             *)
(***************************************************************************)
\* POST /bucket: the row and the directory, which may be there already.
CreateBucket ==
    /\ ~bucket
    /\ bucket' = TRUE /\ dir' = TRUE
    /\ UNCHANGED <<row, bytes, locked, contents, req, torn, tokenVars>>

\* DELETE /bucket/:name: deleteBucket counts no committed object.
DeleteBucket(r) ==
    /\ At(r, "idle") /\ bucket /\ \A n \in Names : row[n] = 0
    /\ req' = [req EXCEPT ![r] = [Idle EXCEPT !.at = "rmdir"]]
    /\ UNCHANGED <<bucket, dir, row, bytes, locked, contents, torn, tokenVars>>

\* persist: the store lists the bucket and removes its directory, if it is there and empty.
RemoveDirectory(r) ==
    /\ At(r, "rmdir")
    /\ IF dir /\ \A n \in Names : bytes[n] = 0
       THEN dir' = FALSE /\ IF req[r].lost THEN Ends(r) ELSE Goes(r, "drop")
       ELSE Ends(r) /\ UNCHANGED dir
    /\ UNCHANGED <<bucket, row, bytes, locked, contents, torn, tokenVars>>

\* DELETE FROM storage.buckets and COMMIT: it waits for the transactions that hold a key
\* share of the row or wrote an object, and takes every object with it (ON DELETE CASCADE).
DropBucket(r) ==
    /\ At(r, "drop") /\ locked = {}
    /\ bucket' = FALSE
    /\ row' = [n \in Names |-> 0]
    /\ torn' = torn \cup {n \in Names : row[n] # 0}
    /\ Ends(r)
    /\ UNCHANGED <<dir, bytes, locked, contents, tokenVars>>

\* The row and index entry that a request's transaction wrote.
Wrote(r) ==
    IF req[r].at \in {"persist", "commit", "unlink", "deleted"} /\ ~req[r].lost THEN {req[r].name} ELSE {}

\* PostgreSQL or the connection ends a transaction that waits for the store: it rolls
\* back, and the handler calls the store all the same.
LoseTransaction(r) ==
    /\ req[r].at \in {"persist", "unlink", "rmdir"} /\ ~req[r].lost
    /\ req' = [req EXCEPT ![r].lost = TRUE]
    /\ locked' = locked \ Wrote(r)
    /\ UNCHANGED <<bucket, dir, row, bytes, contents, torn, tokenVars>>

\* The store throws, a statement fails, or the process ends: the transaction rolls back, and
\* what the store did stays.  A store call that is cut short parts them like a whole one.
Fail(r) ==
    /\ ~At(r, "idle")
    /\ locked' = locked \ Wrote(r)
    /\ torn' = torn \cup (IF req[r].at \in {"commit", "deleted"} THEN {req[r].name} ELSE {})
    /\ Ends(r)
    /\ UNCHANGED <<bucket, dir, row, bytes, contents, tokenVars>>

StorageNext ==
    \/ \E r \in Requests :
        \/ Upload(r) \/ CopyBegins(r) \/ Download(r) \/ Insert(r) \/ Persist(r) \/ Commit(r)
        \/ Remove(r) \/ DeleteRow(r) \/ Unlink(r) \/ CommitDelete(r)
        \/ Receive(r) \/ Spend(r) \/ ReadBody(r)
        \/ DeleteBucket(r) \/ RemoveDirectory(r) \/ DropBucket(r)
        \/ LoseTransaction(r) \/ Fail(r)
    \/ \E t \in Tokens : SignUpload(t) \/ TokenAges(t)
    \/ CreateBucket

StorageSpec == StorageInit /\ [][StorageNext]_storageVars

(***************************************************************************)
(* Properties.                                                             *)
(***************************************************************************)
\* Every variable has its type; what is written is the content of something.
StorageTypeOK ==
    /\ bucket \in BOOLEAN /\ dir \in BOOLEAN /\ contents \in 0..MaxContents
    /\ row \in [Names -> 0..contents] /\ bytes \in [Names -> 0..contents]
    /\ locked \subseteq Names /\ torn \subseteq Names /\ consumed \subseteq Tokens
    /\ \A r \in Requests :
        /\ req[r].at \in {"idle", "download", "insert", "persist", "commit", "delete", "unlink",
                          "deleted", "spend", "receive", "rmdir", "drop"}
        /\ req[r].does \in {"none", "upload", "copy", "move", "remove"} \cup Tokens
        /\ req[r].name \in Names \cup {NoName} /\ req[r].from \in Names \cup {NoName}
        /\ req[r].upsert \in BOOLEAN /\ req[r].content \in 0..contents
        /\ req[r].lost \in BOOLEAN /\ (req[r].lost => req[r].at \in {"persist", "unlink", "rmdir"})
        /\ req[r].at \in {"insert", "persist", "commit"} => req[r].content # 0
    /\ token \in [Tokens -> [name : Names \cup {NoName}, age : {"unminted", "valid", "expired", "old"}]]
    /\ spent \in [Tokens -> Nat]

\* Between transactions a row describes the bytes that the store holds under its name,
\* and no name has one without the other: uploads, copies, moves, removals and signed
\* uploads of a name exclude each other while they call the store.  Names are exempt, until
\* they are written or removed again, whose transaction failed after the store was called
\* or was lost before it was, whose bytes the store could not remove, or whose row went
\* with its bucket.
RowsMatchBytes == \A n \in Names \ (locked \cup torn) : row[n] = bytes[n]

\* Bytes that a committed row describes are replaced by an upsert only, never by a
\* copy, a move or a signed upload, although these check long before they write, unless
\* their transaction was lost on the way to the store.
OnlyUpsertsOverwrite ==
    [][\A r \in Requests : Persist(r) /\ row[req[r].name] # 0 /\ ~req[r].lost =>
            req[r].does = "upload" /\ req[r].upsert]_storageVars

\* A signed upload token is spent once, however many requests present it at once and
\* whenever the record of its use is purged.
SpentOnce == \A t \in Tokens : spent[t] <= 1

\* "only empty buckets can be removed": false, an upload may commit between the count
\* and the deletion.
BucketGoesEmpty == [][\A r \in Requests : DropBucket(r) => \A n \in Names : row[n] = 0]_storageVars

\* A move removes what it copied: false, an upsert of the source may commit after the
\* download (see the README).
MoveTakesItsCopy ==
    [][\A r \in Requests : Unlink(r) /\ req[r].does = "move" => bytes[req[r].name] = req[r].content]_storageVars

\* For TLC: requests, names and tokens are interchangeable.
StorageSymmetry == Permutations(Requests) \cup Permutations(Names) \cup Permutations(Tokens)
=================================================================================
