----------------------------- MODULE StorageProofs -----------------------------
(***************************************************************************)
(* Theorems about the objects of a bucket, for any requests, names, tokens *)
(* and contents.                                                           *)
(*                                                                         *)
(* Row and bytes agree between transactions because a request that calls   *)
(* the store with its transaction holds the lock of its name, alone        *)
(* (Exclusive), and because of what it may rely on at each place and has   *)
(* done by then (RequestOK).  One that calls it without leaves the name    *)
(* torn, and what the holder of the name relies on is said but for those.  *)
(* That a token is spent once needs its use to be recorded as long as a    *)
(* request may still present it (TokensSpent).                             *)
(***************************************************************************)
EXTENDS Storage, TLAPS

Places == {"idle", "download", "insert", "persist", "commit", "delete", "unlink", "deleted", "spend",
           "receive", "rmdir", "drop"}
Doing == {"none", "upload", "copy", "move", "remove"} \cup Tokens
Ages == {"unminted", "valid", "expired", "old"}

\* Where a request's transaction has written the row of its name, and has it yet.
Holding == {"persist", "commit", "unlink", "deleted"}
Holds(x) == x.at \in Holding /\ ~x.lost
Unnamed == {"idle", "rmdir", "drop"}
Request == [at : Places, does : Doing, name : Names \cup {NoName}, from : Names \cup {NoName},
            upsert : BOOLEAN, content : Nat, lost : BOOLEAN]

RequestOK(x) ==
    /\ x \in Request /\ x.content <= contents
    /\ x.at \in {"insert", "persist", "commit"} => x.content # 0
    /\ x.at \notin Unnamed => x.name \in Names /\ (x.at = "download" \/ x.does = "move" => x.from \in Names)
    /\ x.upsert => x.does = "upload"
    /\ x.at = "spend" => x.does \in Tokens /\ token[x.does].age \in {"valid", "expired"}
    /\ x.lost => x.at \in {"persist", "unlink", "rmdir"}
    /\ Holds(x) =>
        /\ x.name \in locked
        /\ x.at \in {"persist", "unlink"} /\ x.name \notin torn => row[x.name] = bytes[x.name]
        /\ x.at = "persist" /\ row[x.name] # 0 => x.upsert
        /\ x.at = "commit" /\ x.name \notin torn => bytes[x.name] = x.content
        /\ x.at = "deleted" /\ x.name \notin torn => bytes[x.name] = 0

Requesting == req = [r \in Requests |-> req[r]] /\ \A r \in Requests : RequestOK(req[r])

Exclusive == \A r, s \in Requests :
    Holds(req[r]) /\ Holds(req[s]) /\ req[r].name = req[s].name => r = s

TokensSpent == \A t \in Tokens :
    /\ token[t].age = "valid" => token[t].name \in Names
    /\ spent[t] \in 0..1
    /\ spent[t] > 0 => t \in consumed \/ token[t].age = "old"

Contents ==
    /\ bucket \in BOOLEAN /\ dir \in BOOLEAN /\ contents \in 0..MaxContents /\ MaxContents \in Nat
    /\ row \in [Names -> 0..contents] /\ bytes \in [Names -> 0..contents]
    /\ locked \subseteq Names /\ torn \subseteq Names
TokenTypes ==
    /\ consumed \subseteq Tokens
    /\ token \in [Tokens -> [name : Names \cup {NoName}, age : Ages]]
    /\ spent \in [Tokens -> Nat]

StorageInv == Contents /\ TokenTypes /\ Requesting /\ Exclusive /\ RowsMatchBytes /\ TokensSpent

LEMMA InvType == StorageInv => StorageTypeOK
<1> SUFFICES ASSUME StorageInv PROVE StorageTypeOK
  OBVIOUS
<1>1. contents \in Nat
  BY DEF StorageInv, Contents
<1>2. \A r \in Requests :
        /\ req[r].at \in Places /\ req[r].does \in Doing
        /\ req[r].name \in Names \cup {NoName} /\ req[r].from \in Names \cup {NoName}
        /\ req[r].upsert \in BOOLEAN /\ req[r].content \in 0..contents
        /\ req[r].lost \in BOOLEAN /\ (req[r].lost => req[r].at \in {"persist", "unlink", "rmdir"})
        /\ req[r].at \in {"insert", "persist", "commit"} => req[r].content # 0
  BY <1>1 DEF StorageInv, Requesting, RequestOK, Request
<1> QED BY <1>2 DEF StorageInv, Contents, TokenTypes, StorageTypeOK, Places, Doing, Ages

\* What is known of a request at the start of a step.
LEMMA Known ==
  ASSUME StorageInv, NEW r \in Requests
  PROVE  RequestOK(req[r]) /\ req[r] \in Request /\ contents \in Nat /\ MaxContents \in Nat /\ contents <= MaxContents
BY DEF StorageInv, Requesting, RequestOK, Contents

LEMMA IdleOK == ASSUME contents' \in Nat PROVE RequestOK(Idle)' /\ Idle.at = "idle"
BY DEF RequestOK, Idle, Request, Places, Doing, Unnamed, Holds, Holding

(***************************************************************************)
(* Steps of one request, which becomes x.                                  *)
(***************************************************************************)
\* It neither has nor takes a lock, and leaves row and bytes alone.
LEMMA Steps ==
  ASSUME StorageInv, NEW r \in Requests, NEW x, req' = [req EXCEPT ![r] = x], RequestOK(x)',
         ~Holds(x), contents' \in contents..MaxContents, dir' \in BOOLEAN,
         UNCHANGED <<bucket, row, bytes, locked, torn>>, UNCHANGED tokenVars
  PROVE  StorageInv'
<1>1. contents \in Nat /\ contents' \in Nat /\ contents' \in 0..MaxContents /\ 0..contents \subseteq 0..contents'
  BY DEF StorageInv, Contents
<1>2. /\ req' = [s \in Requests |-> req'[s]] /\ req'[r] = x
      /\ \A s \in Requests \ {r} : req'[s] = req[s]
  BY DEF StorageInv, Requesting
<1>3. ASSUME NEW s \in Requests \ {r} PROVE RequestOK(req[s])'
  <2>1. RequestOK(req[s]) /\ req'[s] = req[s]
    BY <1>2 DEF StorageInv, Requesting
  <2> QED BY <1>1, <2>1 DEF RequestOK, Request, tokenVars
<1>4. Requesting'
  <2>1. RequestOK(req[r])'
    BY <1>2 DEF RequestOK, Request
  <2> QED BY <1>2, <1>3, <2>1 DEF Requesting
<1>5. Exclusive'
  BY <1>2 DEF StorageInv, Exclusive
<1>6. Contents'
  BY <1>1 DEF StorageInv, Contents
<1>7. RowsMatchBytes' /\ TokenTypes' /\ TokensSpent'
  BY DEF StorageInv, RowsMatchBytes, TokenTypes, TokensSpent, tokenVars
<1> QED BY <1>4, <1>5, <1>6, <1>7 DEF StorageInv

\* It has or takes the lock of n, or gives it up, or it has none and leaves n torn; only
\* what is under n changes.
LEMMA StepsAt ==
  ASSUME StorageInv, NEW r \in Requests, NEW x, NEW n \in Names, req' = [req EXCEPT ![r] = x], RequestOK(x)',
         Holds(x) => x.name = n,
         \/ \A s \in Requests \ {r} : Holds(req[s]) => req[s].name # n
         \/ ~Holds(x) /\ n \in torn' /\ UNCHANGED <<row, locked>>,
         UNCHANGED <<bucket, contents>>, Contents',
         \A m \in Names \ {n} : /\ row'[m] = row[m] /\ bytes'[m] = bytes[m]
                               /\ (m \in locked' <=> m \in locked) /\ (m \in torn' <=> m \in torn),
         n \notin locked' /\ n \notin torn' => row'[n] = bytes'[n],
         UNCHANGED tokenVars
  PROVE  StorageInv'
<1>1. /\ req' = [s \in Requests |-> req'[s]] /\ req'[r] = x
      /\ \A s \in Requests \ {r} : req'[s] = req[s]
  BY DEF StorageInv, Requesting
<1>2. ASSUME NEW s \in Requests \ {r} PROVE RequestOK(req[s])'
  <2>1. RequestOK(req[s]) /\ req'[s] = req[s] /\ (Holds(req[s]) => req[s].name \in Names)
    BY <1>1 DEF StorageInv, Requesting, RequestOK, Holds, Holding, Unnamed
  <2>2. CASE Holds(req[s]) /\ req[s].name # n
    BY <2>1, <2>2 DEF RequestOK, Request, tokenVars, Holds, Holding
  <2>4. CASE Holds(req[s]) /\ req[s].name = n
    BY <2>1, <2>4 DEF RequestOK, Request, tokenVars, Holds, Holding
  <2>3. CASE ~Holds(req[s])
    BY <2>1, <2>3 DEF RequestOK, Request, tokenVars, Holds, Holding
  <2> QED BY <2>1, <2>2, <2>3, <2>4
<1>3. Requesting'
  <2>1. RequestOK(req[r])'
    BY <1>1 DEF RequestOK, Request
  <2> QED BY <1>1, <1>2, <2>1 DEF Requesting
<1>4. Exclusive'
  BY <1>1 DEF StorageInv, Exclusive
<1>5. RowsMatchBytes' /\ TokenTypes' /\ TokensSpent'
  BY DEF StorageInv, RowsMatchBytes, TokenTypes, TokensSpent, tokenVars
<1> QED BY <1>3, <1>4, <1>5 DEF StorageInv

LEMMA EndsInv ==
  ASSUME StorageInv, NEW r \in Requests, Ends(r), UNCHANGED <<bucket, row, bytes, locked, torn, contents>>,
         dir' \in BOOLEAN, UNCHANGED tokenVars
  PROVE  StorageInv'
<1>1. contents' \in Nat /\ contents' \in contents..MaxContents
  BY Known
<1>2. ~Holds(Idle)
  BY DEF Idle, Holds, Holding
<1> QED BY <1>1, <1>2, IdleOK, Steps DEF Ends

(***************************************************************************)
(* The actions.                                                            *)
(***************************************************************************)
LEMMA UploadInv == ASSUME StorageInv, NEW r \in Requests, Upload(r) PROVE StorageInv'
<1>1. PICK n \in Names, upsert \in BOOLEAN : req' = [req EXCEPT ![r] = Write("upload", n, NoName, upsert, contents + 1)]
  BY DEF Upload
<1>2. PICK x : x = Write("upload", n, NoName, upsert, contents + 1)
  OBVIOUS
<1>3. contents' = contents + 1 /\ contents' \in contents..MaxContents /\ contents \in Nat
  BY Known DEF Upload
<1>4. RequestOK(x)' /\ ~Holds(x)
  BY <1>2, <1>3 DEF RequestOK, Request, Write, Places, Doing, Holds, Holding, Unnamed
<1>5. dir' \in BOOLEAN
  BY DEF Upload, StorageInv, Contents
<1> QED BY <1>1, <1>2, <1>3, <1>4, <1>5, Steps DEF Upload

LEMMA CopyBeginsInv == ASSUME StorageInv, NEW r \in Requests, CopyBegins(r) PROVE StorageInv'
<1>1. PICK from \in Names, to \in Names, does \in {"copy", "move"} :
        req' = [req EXCEPT ![r] = [Write(does, to, from, FALSE, 0) EXCEPT !.at = "download"]]
  BY DEF CopyBegins
<1>2. PICK x : x = [Write(does, to, from, FALSE, 0) EXCEPT !.at = "download"]
  OBVIOUS
<1>3. contents' \in contents..MaxContents /\ contents' \in Nat
  BY Known DEF CopyBegins
<1>4. RequestOK(x)' /\ ~Holds(x)
  <2>1. /\ x \in Request /\ x.at = "download" /\ x.name = to /\ x.from = from /\ ~x.upsert /\ ~x.lost
        /\ x.content = 0
    BY <1>2 DEF Request, Write, Places, Doing
  <2> QED BY <1>3, <2>1 DEF RequestOK, Request, Holds, Holding, Unnamed
<1>5. dir' \in BOOLEAN
  BY DEF CopyBegins, StorageInv, Contents
<1> QED BY <1>1, <1>2, <1>3, <1>4, <1>5, Steps DEF CopyBegins

LEMMA DownloadInv == ASSUME StorageInv, NEW r \in Requests, Download(r) PROVE StorageInv'
<1>1. contents' \in contents..MaxContents /\ contents' = contents /\ contents \in Nat /\ dir' \in BOOLEAN
  BY Known DEF Download, StorageInv, Contents
<1>2. CASE Ends(r)
  BY <1>1, <1>2, EndsInv DEF Download
<1>3. CASE bytes[req[r].from] # 0 /\ Copied(r)
  <2>1. PICK x : x = [req[r] EXCEPT !.at = "insert", !.content = bytes[req[r].from]]
    OBVIOUS
  <2>2. req[r].at = "download" /\ RequestOK(req[r]) /\ req[r] \in Request
    BY Known DEF Download, At
  <2>3. req[r].name \in Names /\ req[r].from \in Names
    BY <2>2 DEF RequestOK, Unnamed
  <2>4. bytes[req[r].from] \in Nat /\ bytes[req[r].from] <= contents
    BY <1>1, <2>3 DEF StorageInv, Contents
  <2>5. /\ x \in Request /\ x.at = "insert" /\ x.name = req[r].name /\ x.from = req[r].from
        /\ x.upsert = req[r].upsert /\ x.lost = req[r].lost /\ x.does = req[r].does /\ x.content = bytes[req[r].from]
    BY <2>1, <2>2, <2>4 DEF Request, Places
  <2>6. RequestOK(x)' /\ ~Holds(x)
    BY <1>1, <1>3, <2>2, <2>3, <2>4, <2>5 DEF RequestOK, Request, Holds, Holding, Unnamed
  <2>7. req' = [req EXCEPT ![r] = x]
    BY <1>3, <2>1 DEF Copied
  <2> QED BY <1>1, <2>6, <2>7, Steps DEF Download
<1> QED BY <1>2, <1>3 DEF Download

LEMMA RemoveInv == ASSUME StorageInv, NEW r \in Requests, Remove(r) PROVE StorageInv'
<1>1. PICK n \in Names : req' = [req EXCEPT ![r] = [Write("remove", n, NoName, FALSE, 0) EXCEPT !.at = "delete"]]
  BY DEF Remove
<1>2. PICK x : x = [Write("remove", n, NoName, FALSE, 0) EXCEPT !.at = "delete"]
  OBVIOUS
<1>3. contents' \in contents..MaxContents /\ contents' \in Nat /\ dir' \in BOOLEAN
  BY Known DEF Remove, StorageInv, Contents
<1>4. x \in Request /\ x.at = "delete" /\ x.does = "remove" /\ x.name = n /\ ~x.upsert /\ ~x.lost /\ x.content = 0
  BY <1>2 DEF Request, Write, Places, Doing
<1>5. RequestOK(x)' /\ ~Holds(x)
  BY <1>3, <1>4 DEF RequestOK, Request, Holds, Holding, Unnamed
<1> QED BY <1>1, <1>2, <1>3, <1>5, Steps DEF Remove

LEMMA ReceiveInv == ASSUME StorageInv, NEW r \in Requests, Receive(r) PROVE StorageInv'
<1>1. PICK t \in Tokens :
        /\ token[t].age = "valid"
        /\ req' = [req EXCEPT ![r] = [Write(t, token[t].name, NoName, FALSE, 0) EXCEPT !.at = "spend"]]
  BY DEF Receive
<1>2. PICK x : x = [Write(t, token[t].name, NoName, FALSE, 0) EXCEPT !.at = "spend"]
  OBVIOUS
<1>3. contents' \in contents..MaxContents /\ contents' \in Nat /\ dir' \in BOOLEAN /\ token' = token
  BY Known DEF Receive, StorageInv, Contents, tokenVars
<1>4. token[t].name \in Names
  BY <1>1 DEF StorageInv, TokensSpent
<1>5. /\ x \in Request /\ x.at = "spend" /\ x.does = t /\ x.name = token[t].name /\ ~x.upsert /\ ~x.lost
      /\ x.content = 0
  BY <1>2, <1>4 DEF Request, Write, Places, Doing
<1>6. t # "move"
  BY TokensAssumption
<1>7. RequestOK(x)' /\ ~Holds(x)
  BY <1>1, <1>3, <1>4, <1>5, <1>6 DEF RequestOK, Request, Holds, Holding, Unnamed
<1> QED BY <1>1, <1>2, <1>3, <1>7, Steps DEF Receive

LEMMA ReadBodyInv == ASSUME StorageInv, NEW r \in Requests, ReadBody(r) PROVE StorageInv'
<1>1. contents \in Nat /\ dir' \in BOOLEAN /\ RequestOK(req[r]) /\ req[r] \in Request /\ req[r].at = "receive"
  BY Known DEF ReadBody, At, StorageInv, Contents
<1>2. CASE Ends(r) /\ UNCHANGED contents
  BY <1>1, <1>2, EndsInv DEF ReadBody
<1>3. CASE /\ contents < MaxContents /\ contents' = contents + 1
           /\ req' = [req EXCEPT ![r].at = "insert", ![r].content = contents + 1]
  <2>1. PICK x : x = [req[r] EXCEPT !.at = "insert", !.content = contents + 1]
    OBVIOUS
  <2>2. req' = [req EXCEPT ![r] = x]
    BY <1>3, <2>1
  <2>3. contents' \in contents..MaxContents /\ contents' \in Nat /\ contents' # 0 /\ contents + 1 \in Nat
    BY <1>1, <1>3, Known
  <2>4. /\ x \in Request /\ x.at = "insert" /\ x.name = req[r].name /\ x.from = req[r].from
        /\ x.upsert = req[r].upsert /\ x.lost = req[r].lost /\ x.does = req[r].does /\ x.content = contents'
    BY <1>1, <1>3, <2>1, <2>3 DEF Request, Places
  <2>5. RequestOK(x)' /\ ~Holds(x)
    BY <1>1, <2>3, <2>4 DEF RequestOK, Request, Holds, Holding, Unnamed
  <2> QED BY <1>1, <2>2, <2>3, <2>5, Steps DEF ReadBody
<1> QED BY <1>2, <1>3 DEF ReadBody

LEMMA DeleteBucketInv == ASSUME StorageInv, NEW r \in Requests, DeleteBucket(r) PROVE StorageInv'
<1>1. PICK x : x = [Idle EXCEPT !.at = "rmdir"]
  OBVIOUS
<1>2. contents' \in contents..MaxContents /\ contents' \in Nat /\ dir' \in BOOLEAN
  BY Known DEF DeleteBucket, StorageInv, Contents
<1>3. x \in Request /\ x.at = "rmdir" /\ ~x.upsert /\ x.content = 0
  BY <1>1 DEF Request, Idle, Places, Doing
<1>4. RequestOK(x)' /\ ~Holds(x)
  BY <1>2, <1>3 DEF RequestOK, Request, Holds, Holding, Unnamed
<1> QED BY <1>1, <1>2, <1>4, Steps DEF DeleteBucket

LEMMA RemoveDirectoryInv == ASSUME StorageInv, NEW r \in Requests, RemoveDirectory(r) PROVE StorageInv'
<1>1. contents' \in contents..MaxContents /\ contents' \in Nat /\ dir' \in BOOLEAN /\ contents' = contents
      /\ RequestOK(req[r]) /\ req[r] \in Request /\ req[r].at = "rmdir"
  <2>1. dir \in BOOLEAN /\ dir' \in {dir, FALSE}
    BY DEF RemoveDirectory, StorageInv, Contents
  <2>2. contents' = contents /\ req[r].at = "rmdir"
    BY DEF RemoveDirectory, At
  <2>3. dir' \in BOOLEAN
    BY <2>1
  <2>4. RequestOK(req[r]) /\ req[r] \in Request /\ contents \in Nat /\ MaxContents \in Nat /\ contents <= MaxContents
    BY Known
  <2> QED BY <2>2, <2>3, <2>4
<1>2. CASE Ends(r)
  BY <1>1, <1>2, EndsInv DEF RemoveDirectory
<1>3. CASE Goes(r, "drop") /\ ~req[r].lost
  <2>1. PICK x : x = [req[r] EXCEPT !.at = "drop"]
    OBVIOUS
  <2>2. /\ x \in Request /\ x.at = "drop" /\ x.upsert = req[r].upsert /\ x.lost = req[r].lost /\ x.does = req[r].does
        /\ x.content = req[r].content
    BY <1>1, <2>1 DEF Request, Places
  <2>3. RequestOK(x)' /\ ~Holds(x)
    BY <1>1, <1>3, <2>2 DEF RequestOK, Request, Holds, Holding, Unnamed
  <2>4. req' = [req EXCEPT ![r] = x]
    BY <1>3, <2>1 DEF Goes
  <2> QED BY <1>1, <2>3, <2>4, Steps DEF RemoveDirectory
<1> QED BY <1>2, <1>3 DEF RemoveDirectory

(***************************************************************************)
(* The actions that take a lock, call the store, or end a transaction.     *)
(***************************************************************************)
\* Nobody else holds a name that is not locked, or that r holds.
LEMMA Alone ==
  ASSUME StorageInv, NEW r \in Requests, NEW n,
         n \notin locked \/ (Holds(req[r]) /\ req[r].name = n)
  PROVE  \A s \in Requests \ {r} : Holds(req[s]) => req[s].name # n
BY DEF StorageInv, Requesting, RequestOK, Exclusive

LEMMA InsertInv == ASSUME StorageInv, NEW r \in Requests, Insert(r) PROVE StorageInv'
<1> DEFINE n == req[r].name
<1>1. /\ req[r].at = "insert" /\ RequestOK(req[r]) /\ req[r] \in Request /\ n \in Names /\ n \notin locked
      /\ contents' = contents /\ contents \in Nat /\ dir' \in BOOLEAN
  BY Known DEF Insert, At, RequestOK, Unnamed, StorageInv, Contents
<1>2. CASE Ends(r) /\ UNCHANGED locked
  BY <1>1, <1>2, EndsInv DEF Insert
<1>3. CASE /\ row[n] = 0 \/ req[r].upsert
           /\ Goes(r, "persist") /\ locked' = locked \cup {n}
  <2>1. PICK x : x = [req[r] EXCEPT !.at = "persist"]
    OBVIOUS
  <2>2. /\ x \in Request /\ x.at = "persist" /\ x.upsert = req[r].upsert /\ x.lost = req[r].lost /\ x.does = req[r].does
        /\ x.content = req[r].content /\ x.name = n /\ x.from = req[r].from
    BY <1>1, <2>1 DEF Request, Places
  <2>3. n \notin torn => row[n] = bytes[n]
    BY <1>1 DEF StorageInv, RowsMatchBytes
  <2>4. UNCHANGED <<bucket, dir, row, bytes, contents, torn>> /\ UNCHANGED tokenVars
    BY DEF Insert
  <2>5. RequestOK(x)'
    BY <1>1, <1>3, <2>2, <2>3, <2>4 DEF RequestOK, Request, Holds, Holding, Unnamed
  <2>6. req' = [req EXCEPT ![r] = x]
    BY <1>3, <2>1 DEF Goes
  <2>7. Contents'
    BY <1>1, <1>3, <2>4 DEF StorageInv, Contents
  <2> HIDE DEF n
  <2>8. \A s \in Requests \ {r} : Holds(req[s]) => req[s].name # n
    BY <1>1, Alone
  <2> QED BY <1>1, <1>3, <2>2, <2>4, <2>5, <2>6, <2>7, <2>8, StepsAt
<1> QED BY <1>2, <1>3 DEF Insert

LEMMA PersistInv == ASSUME StorageInv, NEW r \in Requests, Persist(r) PROVE StorageInv'
<1> DEFINE n == req[r].name
<1>1. /\ req[r].at = "persist" /\ RequestOK(req[r]) /\ req[r] \in Request /\ n \in Names
      /\ contents \in Nat /\ req[r].content \in 0..contents
  BY Known DEF Persist, At, RequestOK, Request, Unnamed
<1>2. PICK x : x = IF req[r].lost THEN Idle ELSE [req[r] EXCEPT !.at = "commit"]
  OBVIOUS
<1>3. /\ UNCHANGED <<bucket, row, contents, locked>> /\ UNCHANGED tokenVars
      /\ bytes' = [bytes EXCEPT ![n] = req[r].content] /\ dir' = TRUE /\ req' = [req EXCEPT ![r] = x]
      /\ torn' = IF req[r].lost THEN torn \cup {n} ELSE torn \ {n}
  BY <1>2 DEF Persist, Goes, Ends
<1>4. /\ bytes' \in [Names -> 0..contents] /\ bytes'[n] = req[r].content
      /\ \A m \in Names \ {n} : bytes'[m] = bytes[m]
  BY <1>1, <1>3 DEF StorageInv, Contents
<1>5. Contents'
  BY <1>1, <1>3, <1>4 DEF StorageInv, Contents
<1>6. CASE req[r].lost
  <2>1. x = Idle /\ RequestOK(x)' /\ ~Holds(x)
    BY <1>1, <1>2, <1>3, <1>6, IdleOK DEF Holds, Holding
  <2> HIDE DEF n
  <2>2. n \in torn' /\ \A m \in Names \ {n} : m \in torn' <=> m \in torn
    BY <1>3, <1>6
  <2> QED BY <1>1, <1>3, <1>4, <1>5, <2>1, <2>2, StepsAt
<1>7. CASE ~req[r].lost
  <2>1. /\ x \in Request /\ x.at = "commit" /\ x.upsert = req[r].upsert /\ x.lost = req[r].lost
        /\ x.does = req[r].does /\ x.content = req[r].content /\ x.name = n /\ x.from = req[r].from
    BY <1>1, <1>2, <1>7 DEF Request, Places
  <2>2. Holds(req[r]) /\ n \in locked
    BY <1>1, <1>7 DEF RequestOK, Holds, Holding
  <2>3. RequestOK(x)'
    BY <1>1, <1>3, <1>4, <2>1, <2>2 DEF RequestOK, Request, Holds, Holding, Unnamed
  <2> HIDE DEF n
  <2>4. \A s \in Requests \ {r} : Holds(req[s]) => req[s].name # n
    BY <2>2, Alone DEF n
  <2>5. n \in locked' /\ \A m \in Names \ {n} : m \in torn' <=> m \in torn
    BY <1>3, <1>7, <2>2
  <2> QED BY <1>1, <1>3, <1>4, <1>5, <2>1, <2>3, <2>4, <2>5, StepsAt
<1> QED BY <1>6, <1>7

LEMMA CommitInv == ASSUME StorageInv, NEW r \in Requests, Commit(r) PROVE StorageInv'
<1> DEFINE n == req[r].name
<1>1. /\ req[r].at = "commit" /\ RequestOK(req[r]) /\ req[r] \in Request /\ n \in Names /\ n \in locked
      /\ contents \in Nat /\ req[r].content \in 0..contents /\ Holds(req[r])
      /\ n \notin torn => bytes[n] = req[r].content
  BY Known DEF Commit, At, RequestOK, Request, Unnamed, Holds, Holding
<1>2. PICK x : x = IF req[r].does = "move" THEN [req[r] EXCEPT !.at = "delete", !.name = req[r].from] ELSE Idle
  OBVIOUS
<1>3. /\ UNCHANGED <<bucket, dir, bytes, contents, torn>> /\ UNCHANGED tokenVars
      /\ row' = [row EXCEPT ![n] = req[r].content] /\ locked' = locked \ {n}
      /\ req' = [req EXCEPT ![r] = x]
  BY <1>2 DEF Commit
<1>4. /\ row' \in [Names -> 0..contents] /\ row'[n] = req[r].content
      /\ \A m \in Names \ {n} : row'[m] = row[m]
  BY <1>1, <1>3 DEF StorageInv, Contents
<1>5. RequestOK(x)' /\ ~Holds(x)
  <2>1. CASE req[r].does = "move"
    <3>1. req[r].from \in Names
      BY <1>1, <2>1 DEF RequestOK, Unnamed
    <3>2. /\ x \in Request /\ x.at = "delete" /\ x.upsert = req[r].upsert /\ x.lost = req[r].lost /\ x.does = req[r].does
          /\ x.content = req[r].content /\ x.name = req[r].from /\ x.from = req[r].from
      BY <1>1, <1>2, <2>1, <3>1 DEF Request, Places
    <3> QED BY <1>1, <1>3, <3>1, <3>2 DEF RequestOK, Request, Holds, Holding, Unnamed
  <2>2. CASE req[r].does # "move"
    <3>1. x = Idle /\ contents' \in Nat
      BY <1>1, <1>2, <1>3, <2>2
    <3> QED BY <3>1, IdleOK DEF Holds, Holding
  <2> QED BY <2>1, <2>2
<1>6. Contents'
  BY <1>3, <1>4 DEF StorageInv, Contents
<1>7. \A s \in Requests \ {r} : Holds(req[s]) => req[s].name # n
  BY <1>1, Alone DEF Holds, Holding
<1> HIDE DEF n
<1> QED BY <1>1, <1>3, <1>4, <1>5, <1>6, <1>7, StepsAt

LEMMA DeleteRowInv == ASSUME StorageInv, NEW r \in Requests, DeleteRow(r) PROVE StorageInv'
<1> DEFINE n == req[r].name
<1>1. /\ req[r].at = "delete" /\ RequestOK(req[r]) /\ req[r] \in Request /\ n \in Names /\ n \notin locked
      /\ contents' = contents /\ contents \in Nat /\ dir' \in BOOLEAN
  BY Known DEF DeleteRow, At, RequestOK, Unnamed, StorageInv, Contents
<1>2. CASE Ends(r) /\ UNCHANGED locked
  BY <1>1, <1>2, EndsInv DEF DeleteRow
<1>3. CASE Goes(r, "unlink") /\ locked' = locked \cup {n}
  <2>1. PICK x : x = [req[r] EXCEPT !.at = "unlink"]
    OBVIOUS
  <2>2. /\ x \in Request /\ x.at = "unlink" /\ x.upsert = req[r].upsert /\ x.lost = req[r].lost /\ x.does = req[r].does
        /\ x.content = req[r].content /\ x.name = n /\ x.from = req[r].from
    BY <1>1, <2>1 DEF Request, Places
  <2>3. n \notin torn => row[n] = bytes[n]
    BY <1>1 DEF StorageInv, RowsMatchBytes
  <2>4. UNCHANGED <<bucket, dir, row, bytes, contents, torn>> /\ UNCHANGED tokenVars
    BY DEF DeleteRow
  <2>5. RequestOK(x)'
    BY <1>1, <1>3, <2>2, <2>3, <2>4 DEF RequestOK, Request, Holds, Holding, Unnamed
  <2>6. req' = [req EXCEPT ![r] = x]
    BY <1>3, <2>1 DEF Goes
  <2>7. Contents'
    BY <1>1, <1>3, <2>4 DEF StorageInv, Contents
  <2> HIDE DEF n
  <2>8. \A s \in Requests \ {r} : Holds(req[s]) => req[s].name # n
    BY <1>1, Alone
  <2> QED BY <1>1, <1>3, <2>2, <2>4, <2>5, <2>6, <2>7, <2>8, StepsAt
<1> QED BY <1>2, <1>3 DEF DeleteRow

LEMMA UnlinkInv == ASSUME StorageInv, NEW r \in Requests, Unlink(r) PROVE StorageInv'
<1> DEFINE n == req[r].name
<1>1. /\ req[r].at = "unlink" /\ RequestOK(req[r]) /\ req[r] \in Request /\ n \in Names
      /\ contents \in Nat
  BY Known DEF Unlink, At, RequestOK, Request, Unnamed
<1>2. PICK x : x = IF req[r].lost THEN Idle ELSE [req[r] EXCEPT !.at = "deleted"]
  OBVIOUS
<1>3. /\ UNCHANGED <<bucket, dir, row, contents, locked>> /\ UNCHANGED tokenVars
      /\ req' = [req EXCEPT ![r] = x]
  BY <1>2 DEF Unlink, Goes, Ends
<1>4. \/ /\ bytes' = [bytes EXCEPT ![n] = 0] /\ torn' = IF req[r].lost THEN torn \cup {n} ELSE torn \ {n}
      \/ /\ bytes' = bytes /\ torn' = IF req[r].lost THEN torn ELSE torn \cup {n}
  BY DEF Unlink
<1>5. /\ bytes' \in [Names -> 0..contents] /\ (bytes' # bytes /\ n \notin torn' => bytes'[n] = 0)
      /\ \A m \in Names \ {n} : bytes'[m] = bytes[m]
  BY <1>1, <1>4 DEF StorageInv, Contents
<1>6. Contents'
  BY <1>1, <1>3, <1>4, <1>5 DEF StorageInv, Contents
<1>7. CASE req[r].lost
  <2>1. x = Idle /\ RequestOK(x)' /\ ~Holds(x)
    BY <1>1, <1>2, <1>3, <1>7, IdleOK DEF Holds, Holding
  <2>2. CASE UNCHANGED <<bytes, torn>>
    BY <1>3, <2>1, <2>2, EndsInv DEF Ends, StorageInv, Contents
  <2>3. CASE torn' = torn \cup {n}
    <3> HIDE DEF n
    <3>1. n \in torn' /\ \A m \in Names \ {n} : m \in torn' <=> m \in torn
      BY <2>3
    <3> QED BY <1>1, <1>3, <1>5, <1>6, <2>1, <3>1, StepsAt
  <2> QED BY <1>4, <1>7, <2>2, <2>3
<1>8. CASE ~req[r].lost
  <2>1. /\ x \in Request /\ x.at = "deleted" /\ x.upsert = req[r].upsert /\ x.lost = req[r].lost
        /\ x.does = req[r].does /\ x.content = req[r].content /\ x.name = n /\ x.from = req[r].from
    BY <1>1, <1>2, <1>8 DEF Request, Places
  <2>2. Holds(req[r]) /\ n \in locked
    BY <1>1, <1>8 DEF RequestOK, Holds, Holding
  <2>3. n \notin torn' => bytes'[n] = 0
    BY <1>1, <1>4, <1>8 DEF StorageInv, Contents
  <2>4. RequestOK(x)'
    BY <1>1, <1>3, <2>1, <2>2, <2>3 DEF RequestOK, Request, Holds, Holding, Unnamed
  <2> HIDE DEF n
  <2>5. \A s \in Requests \ {r} : Holds(req[s]) => req[s].name # n
    BY <2>2, Alone DEF n
  <2>6. n \in locked' /\ \A m \in Names \ {n} : m \in torn' <=> m \in torn
    BY <1>3, <1>4, <1>8, <2>2
  <2> QED BY <1>1, <1>3, <1>5, <1>6, <2>1, <2>4, <2>5, <2>6, StepsAt
<1> QED BY <1>7, <1>8

LEMMA CommitDeleteInv == ASSUME StorageInv, NEW r \in Requests, CommitDelete(r) PROVE StorageInv'
<1> DEFINE n == req[r].name
<1>1. /\ req[r].at = "deleted" /\ RequestOK(req[r]) /\ n \in Names /\ n \in locked
      /\ contents \in Nat /\ Holds(req[r]) /\ (n \notin torn => bytes[n] = 0)
  BY Known DEF CommitDelete, At, RequestOK, Unnamed, Holds, Holding
<1>2. /\ UNCHANGED <<bucket, dir, bytes, contents, torn>> /\ UNCHANGED tokenVars
      /\ row' = [row EXCEPT ![n] = 0] /\ locked' = locked \ {n}
      /\ req' = [req EXCEPT ![r] = Idle]
  BY DEF CommitDelete, Ends
<1>3. /\ row' \in [Names -> 0..contents] /\ row'[n] = 0
      /\ \A m \in Names \ {n} : row'[m] = row[m]
  BY <1>1, <1>2 DEF StorageInv, Contents
<1>4. RequestOK(Idle)' /\ ~Holds(Idle)
  BY <1>1, <1>2, IdleOK DEF Holds, Holding
<1>5. Contents'
  BY <1>2, <1>3 DEF StorageInv, Contents
<1>6. \A s \in Requests \ {r} : Holds(req[s]) => req[s].name # n
  BY <1>1, Alone DEF Holds, Holding
<1> HIDE DEF n
<1> QED BY <1>1, <1>2, <1>3, <1>4, <1>5, <1>6, StepsAt

\* A transaction that is lost before the store is called gives up its lock.
LEMMA LoseTransactionInv == ASSUME StorageInv, NEW r \in Requests, LoseTransaction(r) PROVE StorageInv'
<1> DEFINE n == req[r].name
<1>1. /\ req[r].at \in {"persist", "unlink", "rmdir"} /\ ~req[r].lost
      /\ UNCHANGED <<bucket, dir, row, bytes, contents, torn>> /\ UNCHANGED tokenVars
      /\ locked' = locked \ Wrote(r)
      /\ RequestOK(req[r]) /\ req[r] \in Request /\ contents \in Nat /\ contents' \in contents..MaxContents
  BY Known DEF LoseTransaction
<1>2. PICK x : x = [req[r] EXCEPT !.lost = TRUE]
  OBVIOUS
<1>3. req' = [req EXCEPT ![r] = x]
  BY <1>2 DEF LoseTransaction
<1>4. /\ x \in Request /\ x.at = req[r].at /\ x.upsert = req[r].upsert /\ x.lost /\ x.does = req[r].does
      /\ x.content = req[r].content /\ x.name = n /\ x.from = req[r].from
  BY <1>1, <1>2 DEF Request
<1>5. RequestOK(x)' /\ ~Holds(x)
  BY <1>1, <1>4 DEF RequestOK, Request, Holds, Unnamed
<1>6. dir' \in BOOLEAN
  BY <1>1 DEF StorageInv, Contents
<1>7. CASE req[r].at = "rmdir"
  <2>1. locked' = locked
    BY <1>1, <1>7 DEF Wrote
  <2> QED BY <1>1, <1>3, <1>5, <1>6, <2>1, Steps
<1>8. CASE req[r].at # "rmdir"
  <2>1. Holds(req[r]) /\ n \in Names /\ locked' = locked \ {n} /\ (n \notin torn => row[n] = bytes[n])
    BY <1>1, <1>8 DEF RequestOK, Holds, Holding, Unnamed, Wrote
  <2>2. Contents'
    BY <1>1, <2>1 DEF StorageInv, Contents
  <2> HIDE DEF n
  <2>3. \A s \in Requests \ {r} : Holds(req[s]) => req[s].name # n
    BY <2>1, Alone DEF n
  <2>4. \A m \in Names \ {n} : m \in locked' <=> m \in locked
    BY <2>1
  <2> QED BY <1>1, <1>3, <1>5, <2>1, <2>2, <2>3, <2>4, StepsAt
<1> QED BY <1>7, <1>8

\* A failure parts row and bytes only after the store was called.
LEMMA FailInv == ASSUME StorageInv, NEW r \in Requests, Fail(r) PROVE StorageInv'
<1> DEFINE n == req[r].name
<1>1. /\ UNCHANGED <<bucket, dir, row, bytes, contents>> /\ UNCHANGED tokenVars
      /\ req' = [req EXCEPT ![r] = Idle] /\ RequestOK(req[r]) /\ contents \in Nat /\ dir' \in BOOLEAN
  BY Known DEF Fail, Ends, StorageInv, Contents
<1>2. RequestOK(Idle)' /\ ~Holds(Idle)
  BY <1>1, IdleOK DEF Holds, Holding
<1>3. CASE ~Holds(req[r])
  <2>1. UNCHANGED <<locked, torn>>
    BY <1>1, <1>3 DEF Fail, Wrote, RequestOK, Holds, Holding
  <2> QED BY <1>1, <2>1, EndsInv DEF Ends
<1>4. CASE Holds(req[r])
  <2>1. n \in Names /\ n \in locked
    BY <1>1, <1>4 DEF RequestOK, Holds, Holding, Unnamed
  <2>2. /\ locked' = locked \ {n}
        /\ torn' = torn \cup (IF req[r].at \in {"commit", "deleted"} THEN {n} ELSE {})
    BY <1>4 DEF Fail, Wrote, Holds, Holding
  <2>3. n \notin torn' => row'[n] = bytes'[n]
    BY <1>1, <1>4, <2>2 DEF RequestOK, Holds, Holding
  <2>4. Contents'
    BY <1>1, <2>1, <2>2 DEF StorageInv, Contents
  <2>5. \A s \in Requests \ {r} : Holds(req[s]) => req[s].name # n
    BY <1>4, Alone
  <2> HIDE DEF n
  <2>6. \A m \in Names \ {n} : (m \in locked' <=> m \in locked) /\ (m \in torn' <=> m \in torn)
    BY <2>2
  <2> QED BY <1>1, <1>2, <2>1, <2>3, <2>4, <2>5, <2>6, StepsAt
<1> QED BY <1>3, <1>4

\* With no lock taken nobody is in the store.
LEMMA DropBucketInv == ASSUME StorageInv, NEW r \in Requests, DropBucket(r) PROVE StorageInv'
<1>1. /\ locked = {} /\ bucket' = FALSE /\ row' = [n \in Names |-> 0]
      /\ torn' = torn \cup {n \in Names : row[n] # 0} /\ req' = [req EXCEPT ![r] = Idle]
      /\ UNCHANGED <<dir, bytes, locked, contents>> /\ UNCHANGED tokenVars
  BY DEF DropBucket, Ends
<1>2. contents \in Nat
  BY Known
<1>3. \A s \in Requests : ~Holds(req[s]) /\ RequestOK(req[s])
  BY <1>1 DEF StorageInv, Requesting, RequestOK
<1>4. req' = [s \in Requests |-> req'[s]] /\ \A s \in Requests : req'[s] \in {req[s], Idle}
  BY <1>1 DEF StorageInv, Requesting
<1>5. RequestOK(Idle)' /\ ~Holds(Idle)
  BY <1>1, <1>2, IdleOK DEF Holds, Holding
<1>6. Requesting'
  <2>1. ASSUME NEW s \in Requests PROVE RequestOK(req[s])'
    <3>1. CASE req'[s] = Idle
      BY <1>5, <3>1 DEF RequestOK, Request
    <3>2. CASE req'[s] = req[s]
      BY <1>1, <1>3, <3>2 DEF RequestOK, Request, Holds, Holding, tokenVars
    <3> QED BY <1>4, <3>1, <3>2
  <2> QED BY <1>4, <2>1 DEF Requesting
<1>7. Exclusive'
  BY <1>3, <1>4, <1>5 DEF Exclusive
<1>8. Contents'
  <2>1. row' \in [Names -> 0..contents]
    BY <1>1, <1>2
  <2> QED BY <1>1, <2>1 DEF StorageInv, Contents
<1>9. RowsMatchBytes'
  BY <1>1 DEF StorageInv, RowsMatchBytes
<1>10. TokenTypes' /\ TokensSpent'
  BY <1>1 DEF StorageInv, TokenTypes, TokensSpent, tokenVars
<1> QED BY <1>6, <1>7, <1>8, <1>9, <1>10 DEF StorageInv

(***************************************************************************)
(* The bucket and the tokens.                                              *)
(***************************************************************************)
LEMMA CreateBucketInv == ASSUME StorageInv, CreateBucket PROVE StorageInv'
<1>1. /\ bucket' = TRUE /\ dir' = TRUE /\ UNCHANGED <<row, bytes, locked, contents, req, torn>>
      /\ UNCHANGED tokenVars
  BY DEF CreateBucket
<1>2. Contents' /\ RowsMatchBytes'
  BY <1>1 DEF StorageInv, Contents, RowsMatchBytes
<1>3. TokenTypes' /\ TokensSpent'
  BY <1>1 DEF StorageInv, TokenTypes, TokensSpent, tokenVars
<1>4. Requesting' /\ Exclusive'
  BY <1>1 DEF StorageInv, Requesting, RequestOK, Request, Exclusive, tokenVars
<1> QED BY <1>2, <1>3, <1>4 DEF StorageInv

\* One token becomes y, and the requests that may present it go on.
LEMMA TokenSteps ==
  ASSUME StorageInv, NEW t \in Tokens, NEW y \in [name : Names \cup {NoName}, age : Ages \ {"unminted"}],
         y.age = "valid" => y.name \in Names,
         token' = [token EXCEPT ![t] = y],
         y.age = "old" => \A r \in Requests : ~(req[r].at = "spend" /\ req[r].does = t),
         token[t].age # "old",
         UNCHANGED <<bucket, dir, row, bytes, locked, contents, req, consumed, spent, torn>>
  PROVE  StorageInv'
<1>1. /\ token' \in [Tokens -> [name : Names \cup {NoName}, age : Ages]] /\ token'[t] = y
      /\ \A u \in Tokens \ {t} : token'[u] = token[u]
  BY DEF StorageInv, TokenTypes
<1>2. TokenTypes' /\ TokensSpent'
  BY <1>1 DEF StorageInv, TokenTypes, TokensSpent
<1>3. Requesting'
  <2>1. ASSUME NEW r \in Requests PROVE RequestOK(req[r])'
    <3>1. RequestOK(req[r]) /\ req'[r] = req[r]
      BY DEF StorageInv, Requesting
    <3>2. req[r].at = "spend" => token'[req[r].does].age \in {"valid", "expired"}
      BY <1>1, <3>1 DEF RequestOK, Ages
    <3> QED BY <3>1, <3>2 DEF RequestOK, Request
  <2>2. req' = req /\ req' = [r \in Requests |-> req'[r]]
    BY DEF StorageInv, Requesting
  <2> QED BY <2>1, <2>2 DEF Requesting
<1>4. Contents' /\ Exclusive' /\ RowsMatchBytes'
  BY DEF StorageInv, Contents, Exclusive, RowsMatchBytes
<1> QED BY <1>2, <1>3, <1>4 DEF StorageInv

LEMMA SignUploadInv == ASSUME StorageInv, NEW t \in Tokens, SignUpload(t) PROVE StorageInv'
<1>1. PICK n \in Names \ locked : token' = [token EXCEPT ![t] = [name |-> n, age |-> "valid"]]
  BY DEF SignUpload
<1>2. PICK y : y = [name |-> n, age |-> "valid"]
  OBVIOUS
<1>3. y \in [name : Names \cup {NoName}, age : Ages \ {"unminted"}] /\ y.age = "valid" /\ y.name \in Names
  BY <1>2 DEF Ages
<1> QED BY <1>1, <1>2, <1>3, TokenSteps DEF SignUpload

LEMMA TokenAgesInv == ASSUME StorageInv, NEW t \in Tokens, TokenAges(t) PROVE StorageInv'
<1>1. PICK y : /\ \/ y = [name |-> NoName, age |-> "expired"]
                  \/ y = [token[t] EXCEPT !.age = "old"]
               /\ token[t].age = (IF y.age = "expired" THEN "valid" ELSE "expired")
               /\ y.age = "old" => \A r \in Requests : ~(req[r].at = "spend" /\ req[r].does = t)
               /\ token' = [token EXCEPT ![t] = y]
               /\ UNCHANGED <<bucket, dir, row, bytes, locked, contents, req, consumed, spent, torn>>
  <2>1. CASE token' = [token EXCEPT ![t] = [name |-> NoName, age |-> "expired"]] /\ token[t].age = "valid"
    BY <2>1 DEF TokenAges
  <2>2. CASE /\ token[t].age = "expired" /\ \A r \in Requests : ~(At(r, "spend") /\ req[r].does = t)
             /\ token' = [token EXCEPT ![t].age = "old"]
    <3>1. PICK y : y = [token[t] EXCEPT !.age = "old"]
      OBVIOUS
    <3>2. y.age = "old"
      BY <3>1 DEF StorageInv, TokenTypes
    <3> QED BY <2>2, <3>1, <3>2 DEF TokenAges, At
  <2> QED BY <2>1, <2>2 DEF TokenAges
<1>2. token[t] \in [name : Names \cup {NoName}, age : Ages]
  BY DEF StorageInv, TokenTypes
<1>3. y \in [name : Names \cup {NoName}, age : Ages \ {"unminted"}] /\ y.age \in {"expired", "old"}
  BY <1>1, <1>2 DEF Ages
<1> QED BY <1>1, <1>3, TokenSteps

\* A token that was spent is recorded unless it is old, and none that is old is presented.
LEMMA SpendInv == ASSUME StorageInv, NEW r \in Requests, Spend(r) PROVE StorageInv'
<1> DEFINE t == req[r].does
<1>1. /\ req[r].at = "spend" /\ RequestOK(req[r]) /\ req[r] \in Request
      /\ t \in Tokens /\ token[t].age \in {"valid", "expired"} /\ contents \in Nat
      /\ UNCHANGED <<bucket, dir, row, bytes, locked, contents, token, torn>>
      /\ consumed' = (consumed \ Forgotten) \cup {t}
  BY Known DEF Spend, At, RequestOK
<1>2. PICK x : x \in {[req[r] EXCEPT !.at = "receive"], Idle} /\ req' = [req EXCEPT ![r] = x]
  BY DEF Spend, Goes, Ends
<1>3. RequestOK(x)' /\ ~Holds(x)
  <2>1. CASE x = Idle
    BY <1>1, <2>1, IdleOK DEF Holds, Holding
  <2>2. CASE x = [req[r] EXCEPT !.at = "receive"]
    <3>1. /\ x \in Request /\ x.at = "receive" /\ x.upsert = req[r].upsert /\ x.lost = req[r].lost /\ x.does = req[r].does
          /\ x.content = req[r].content /\ x.name = req[r].name /\ x.from = req[r].from
      BY <1>1, <2>2 DEF Request, Places
    <3> QED BY <1>1, <3>1 DEF RequestOK, Request, Holds, Holding, Unnamed
  <2> QED BY <1>2, <2>1, <2>2
<1>4. /\ req' = [s \in Requests |-> req'[s]] /\ req'[r] = x
      /\ \A s \in Requests \ {r} : req'[s] = req[s]
  BY <1>2 DEF StorageInv, Requesting
<1>5. Requesting'
  <2>1. ASSUME NEW s \in Requests PROVE RequestOK(req[s])'
    <3>1. CASE s = r
      BY <1>3, <1>4, <3>1 DEF RequestOK, Request
    <3>2. CASE s # r
      <4>1. RequestOK(req[s]) /\ req'[s] = req[s]
        BY <1>4, <3>2 DEF StorageInv, Requesting
      <4> QED BY <1>1, <4>1 DEF RequestOK, Request
    <3> QED BY <3>1, <3>2
  <2> QED BY <1>4, <2>1 DEF Requesting
<1>6. Exclusive'
  BY <1>3, <1>4 DEF StorageInv, Exclusive
<1>7. Contents' /\ RowsMatchBytes'
  BY <1>1 DEF StorageInv, Contents, RowsMatchBytes
<1> HIDE DEF t
<1>8. /\ spent' \in [Tokens -> Nat] /\ spent'[t] \in 0..1 /\ \A u \in Tokens \ {t} : spent'[u] = spent[u]
  <2>1. spent \in [Tokens -> Nat] /\ spent[t] \in 0..1 /\ (spent[t] > 0 => t \in consumed)
    BY <1>1 DEF StorageInv, TokenTypes, TokensSpent
  <2>2. CASE t \in consumed /\ spent' = spent
    BY <2>1, <2>2
  <2>3. CASE t \notin consumed /\ spent' = [spent EXCEPT ![t] = @ + 1]
    <3>1. spent[t] = 0
      BY <2>1, <2>3
    <3> QED BY <1>1, <2>1, <2>3, <3>1
  <2> QED BY <2>2, <2>3 DEF Spend, t
<1>9. TokenTypes'
  BY <1>1, <1>8 DEF StorageInv, TokenTypes, Forgotten
<1>10. TokensSpent'
  BY <1>1, <1>8 DEF StorageInv, TokensSpent, Forgotten
<1> QED BY <1>5, <1>6, <1>7, <1>9, <1>10 DEF StorageInv

(***************************************************************************)
(* The theorems.                                                           *)
(***************************************************************************)
LEMMA StorageInitInv == StorageInit => StorageInv
<1> SUFFICES ASSUME StorageInit PROVE StorageInv
  OBVIOUS
<1>1. MaxContents \in Nat /\ contents = 0 /\ 0 \in 0..MaxContents
  BY MaxContentsAssumption DEF StorageInit
<1>2. Contents
  <2>1. row \in [Names -> 0..contents] /\ bytes \in [Names -> 0..contents]
    BY <1>1 DEF StorageInit
  <2> QED BY <1>1, <2>1 DEF StorageInit, Contents
<1>3. TokenTypes /\ TokensSpent
  BY DEF StorageInit, TokenTypes, TokensSpent, Ages
<1>4. Requesting /\ Exclusive
  <2>1. RequestOK(Idle) /\ Idle.at = "idle"
    BY <1>1 DEF RequestOK, Idle, Request, Places, Doing, Unnamed, Holds, Holding
  <2>2. \A r \in Requests : req[r] = Idle
    BY DEF StorageInit
  <2>3. Requesting
    BY <2>1, <2>2 DEF StorageInit, Requesting
  <2> QED BY <2>1, <2>2, <2>3 DEF Exclusive, Holds, Holding
<1>5. RowsMatchBytes
  BY DEF StorageInit, RowsMatchBytes
<1> QED BY <1>2, <1>3, <1>4, <1>5 DEF StorageInv

LEMMA StorageNextInv == ASSUME StorageInv, [StorageNext]_storageVars PROVE StorageInv'
<1>1. CASE UNCHANGED storageVars
  <2>1. UNCHANGED <<bucket, dir, row, bytes, locked, contents, req, token, consumed, spent, torn>>
    BY <1>1 DEF storageVars
  <2>2. Contents' /\ RowsMatchBytes' /\ TokenTypes' /\ TokensSpent'
    BY <2>1 DEF StorageInv, Contents, RowsMatchBytes, TokenTypes, TokensSpent
  <2>3. Requesting' /\ Exclusive'
    BY <2>1 DEF StorageInv, Requesting, RequestOK, Request, Exclusive
  <2> QED BY <2>2, <2>3 DEF StorageInv
<1>2. ASSUME NEW r \in Requests,
             \/ Upload(r) \/ CopyBegins(r) \/ Download(r) \/ Insert(r) \/ Persist(r) \/ Commit(r)
             \/ Remove(r) \/ DeleteRow(r) \/ Unlink(r) \/ CommitDelete(r)
      PROVE  StorageInv'
  BY <1>2, UploadInv, CopyBeginsInv, DownloadInv, InsertInv, PersistInv, CommitInv, RemoveInv, DeleteRowInv,
     UnlinkInv, CommitDeleteInv
<1>3. ASSUME NEW r \in Requests,
             \/ Receive(r) \/ Spend(r) \/ ReadBody(r)
             \/ DeleteBucket(r) \/ RemoveDirectory(r) \/ DropBucket(r)
             \/ LoseTransaction(r) \/ Fail(r)
      PROVE  StorageInv'
  BY <1>3, ReceiveInv, SpendInv, ReadBodyInv, DeleteBucketInv, RemoveDirectoryInv, DropBucketInv,
     LoseTransactionInv, FailInv
<1>4. ASSUME NEW t \in Tokens, SignUpload(t) \/ TokenAges(t) PROVE StorageInv'
  BY <1>4, SignUploadInv, TokenAgesInv
<1> QED BY <1>1, <1>2, <1>3, <1>4, CreateBucketInv DEF StorageNext

\* Every variable keeps its type, and what is written is the content of something.
THEOREM StorageTypes == StorageSpec => []StorageTypeOK
BY InvType, StorageInitInv, StorageNextInv, PTL DEF StorageSpec

\* A row describes the bytes that are stored under its name, for any number of requests
\* that overlap, unless a failure, a lost transaction, a file that could not be removed or
\* a cascade parted them.
THEOREM RowsDescribeBytes == StorageSpec => []RowsMatchBytes
<1>1. StorageInv => RowsMatchBytes
  BY DEF StorageInv
<1> QED BY <1>1, StorageInitInv, StorageNextInv, PTL DEF StorageSpec

\* A signed upload token is spent once, whoever presents it and whenever its use is purged.
THEOREM TokensAreSpentOnce == StorageSpec => []SpentOnce
<1>1. StorageInv => SpentOnce
  BY DEF StorageInv, TokensSpent, SpentOnce
<1> QED BY <1>1, StorageInitInv, StorageNextInv, PTL DEF StorageSpec

\* Committed bytes are replaced by an upsert only, however long before the writer checked,
\* while the writer has its transaction.
THEOREM OnlyUpsertsReplace == StorageSpec => OnlyUpsertsOverwrite
<1> DEFINE Allowed == \A r \in Requests : Persist(r) /\ row[req[r].name] # 0 /\ ~req[r].lost =>
                         req[r].does = "upload" /\ req[r].upsert
<1>1. StorageInv => [Allowed]_storageVars
  BY DEF StorageInv, Requesting, RequestOK, Persist, At, Holds, Holding
<1> HIDE DEF Allowed
<1>2. StorageSpec => [][Allowed]_storageVars
  BY <1>1, StorageInitInv, StorageNextInv, PTL DEF StorageSpec
<1> QED BY <1>2 DEF OnlyUpsertsOverwrite, Allowed
===============================================================================
