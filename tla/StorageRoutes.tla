------------------------------ MODULE StorageRoutes ------------------------------
(***************************************************************************)
(* The routes of storage, a request at a time: who may do what, and how    *)
(* bodies and forms are read.                                              *)
(***************************************************************************)
EXTENDS Integers, Sequences, FiniteSets, SequencesExt

(***************************************************************************)
(* Who may do what with the objects of storage: the routes of apis/file.ts, *)
(* the row policies and transactions of apis/storage-postgres.ts and the    *)
(* links of apis/signed-url.ts.  A request is one step here; the steps of   *)
(* requests that run at once are in module Storage.                         *)
(*                                                                          *)
(* A name is its segments.  A context is a role, a user and whether it is   *)
(* an agent's, bound to a tenant.                                           *)
(***************************************************************************)

CONSTANTS Contexts,      \* [role, user, agent]
          BucketNames,
          ObjectNames,   \* sequences of segments
          Listings,      \* prefixes that are listed
          Sizes, Types,  \* of what is uploaded
          TypeOf,        \* the type that the name of a copy says
          Settings,      \* buckets that are made: [public, limit, types]
          NoLimit, NoUser, NoneThere,
          Links,         \* ids of signed links
          MaxUploadBytes, DefaultSignedBytes

VARIABLES buckets,       \* the row of each bucket
          objects,       \* the owner of each object
          signed,        \* links that were signed and have not expired, by their id
          redeemed,      \* upload links that were used
          latest         \* what the last request read or changed, and for whom
accessVars == <<buckets, objects, signed, redeemed, latest>>

Places == BucketNames \X ObjectNames
There(place) == objects[place] # NoneThere
OpenToAll(b) == buckets[b] # NoneThere /\ buckets[b].public

AccessInit ==
    /\ buckets = [b \in BucketNames |-> NoneThere] /\ objects = [p \in Places |-> NoneThere]
    /\ signed = [l \in Links |-> NoneThere] /\ redeemed = {}
    /\ latest = NoneThere

(* -------- row policies -------- *)
Own(ctx, owner) == ctx.role = "authenticated" /\ ctx.user # NoUser /\ owner = ctx.user
MaySelect(ctx, place) ==
    There(place) /\ (ctx.role = "service_role" \/ OpenToAll(place[1]) \/ Own(ctx, objects[place]))
MayInsert(ctx, b) ==
    \/ ctx.role = "service_role"
    \/ ctx.role = "anon" /\ OpenToAll(b)
    \/ ctx.role = "authenticated" /\ ctx.user # NoUser
MayChange(ctx, place) ==
    \/ ctx.role = "service_role"
    \/ ctx.role = "anon" /\ OpenToAll(place[1])
    \/ Own(ctx, objects[place])
\* Agents' contexts write nothing, whatever their user may.
MayWrite(ctx) == ~ctx.agent

ValidateBucketConstraints(bucket, size, type) ==
    /\ bucket # NoneThere
    /\ bucket.limit # NoLimit => size <= bucket.limit
    /\ bucket.types # {} => type \in bucket.types

Reach(ctx, place, by) ==
    latest' = [does |-> "read", ctx |-> ctx, bucket |-> place[1], before |-> objects[place], public |-> OpenToAll(place[1]), by |-> by]
ChangeOf(ctx, place, by) ==
    latest' = [does |-> "write", ctx |-> ctx, bucket |-> place[1], public |-> OpenToAll(place[1]), by |-> by,
                before |-> IF There(place) THEN objects[place] ELSE NoneThere]

(* -------- buckets -------- *)
\* Any account that is signed in may make one.
CreateBucket(ctx, b) ==
    /\ MayWrite(ctx) /\ ctx.role # "anon" /\ buckets[b] = NoneThere
    /\ \E setting \in Settings : buckets' = [buckets EXCEPT ![b] = setting]
    /\ latest' = NoneThere /\ UNCHANGED <<objects, signed, redeemed>>
DeleteBucket(ctx, b) ==
    /\ MayWrite(ctx) /\ ctx.role = "service_role" /\ buckets[b] # NoneThere
    /\ \A n \in ObjectNames : ~There(<<b, n>>)
    /\ buckets' = [buckets EXCEPT ![b] = NoneThere]
    /\ latest' = NoneThere /\ UNCHANGED <<objects, signed, redeemed>>

(* -------- reading -------- *)
Download(ctx, place) ==
    /\ MaySelect(ctx, place) /\ Reach(ctx, place, "row")
    /\ UNCHANGED <<buckets, objects, signed, redeemed>>
DownloadPublic(ctx, place) ==
    /\ There(place) /\ OpenToAll(place[1]) /\ Reach(ctx, place, "row")
    /\ UNCHANGED <<buckets, objects, signed, redeemed>>
\* Names below a prefix, at a segment's end.
Under(prefix, n) == Len(prefix) < Len(n) /\ SubSeq(n, 1, Len(prefix)) = prefix
ListObjects(ctx, b, prefix) ==
    /\ \E n \in ObjectNames : Under(prefix, n) /\ MaySelect(ctx, <<b, n>>) /\ Reach(ctx, <<b, n>>, "row")
    /\ UNCHANGED <<buckets, objects, signed, redeemed>>

(* -------- writing -------- *)
\* INSERT, and ON CONFLICT DO UPDATE of a row that is selected and changed.
Inserts(ctx, place, upsert) ==
    /\ buckets[place[1]] # NoneThere /\ MayInsert(ctx, place[1])
    /\ There(place) => upsert /\ MaySelect(ctx, place) /\ MayChange(ctx, place)
UploadObject(ctx, place) ==
    /\ MayWrite(ctx) /\ ChangeOf(ctx, place, "row") /\ objects' = [objects EXCEPT ![place] = ctx.user]
    /\ \E upsert \in BOOLEAN : Inserts(ctx, place, upsert)
    /\ \E size \in Sizes, type \in Types :
        size <= MaxUploadBytes /\ ValidateBucketConstraints(buckets[place[1]], size, type)
    /\ UNCHANGED <<buckets, signed, redeemed>>

\* What is read under one name is written under another, by whoever may read it.
Copies(ctx, b, from, to) ==
    /\ MayWrite(ctx) /\ from # to /\ MaySelect(ctx, <<b, from>>)
    /\ \E size \in Sizes : ValidateBucketConstraints(buckets[b], size, TypeOf[to])
    /\ Inserts(ctx, <<b, to>>, FALSE)
CopyObject(ctx, b, from, to) ==
    /\ Copies(ctx, b, from, to) /\ ChangeOf(ctx, <<b, to>>, "row")
    /\ objects' = [objects EXCEPT ![<<b, to>>] = ctx.user]
    /\ UNCHANGED <<buckets, signed, redeemed>>
\* A move removes what it may.
MoveObject(ctx, b, from, to) ==
    /\ Copies(ctx, b, from, to)
    /\ ChangeOf(ctx, IF MayChange(ctx, <<b, from>>) THEN <<b, from>> ELSE <<b, to>>, "row")
    /\ objects' = [objects EXCEPT ![<<b, to>>] = ctx.user,
                                  ![<<b, from>>] = IF MayChange(ctx, <<b, from>>) THEN NoneThere ELSE @]
    /\ UNCHANGED <<buckets, signed, redeemed>>
RemoveObject(ctx, place) ==
    /\ MayWrite(ctx) /\ MaySelect(ctx, place) /\ MayChange(ctx, place) /\ ChangeOf(ctx, place, "row")
    /\ objects' = [objects EXCEPT ![place] = NoneThere]
    /\ UNCHANGED <<buckets, signed, redeemed>>

(* -------- links -------- *)
SignsLink(l, link) ==
    /\ signed[l] = NoneThere /\ l \notin redeemed /\ signed' = [signed EXCEPT ![l] = link]
    /\ latest' = NoneThere /\ UNCHANGED <<buckets, objects, redeemed>>
\* To read, for those who may.
SignUrl(l, ctx, place) == MaySelect(ctx, place) /\ SignsLink(l, [method |-> "GET", place |-> place, ctx |-> ctx])
\* To upload, for those whose insert goes through, which is rolled back.  The most it takes is what was
\* asked, or the bucket's limit.
SignUpload(l, ctx, place) ==
    LET limit == IF buckets[place[1]].limit = NoLimit THEN DefaultSignedBytes ELSE buckets[place[1]].limit IN
    /\ MayWrite(ctx) /\ buckets[place[1]] # NoneThere /\ Inserts(ctx, place, FALSE)
    /\ \E max \in {m \in Sizes : m <= MaxUploadBytes} \cup {IF limit < MaxUploadBytes THEN limit ELSE MaxUploadBytes},
          type \in Types \cup {NoneThere} :
        SignsLink(l, [method |-> "PUT", place |-> place, ctx |-> ctx, max |-> max, type |-> type])
VerifySignedUrl(l, method) == signed[l] # NoneThere /\ signed[l].method = method
\* No row is looked at.
ReadSigned(l) ==
    /\ VerifySignedUrl(l, "GET") /\ There(signed[l].place) /\ Reach(signed[l].ctx, signed[l].place, "link")
    /\ UNCHANGED <<buckets, objects, signed, redeemed>>
\* The link is used up before the row is written, with no owner and over nothing.
SignedUploadFits(link, size, type) == size <= link.max /\ (link.type # NoneThere => type = link.type)
ReceiveSigned(l, size, type) ==
    /\ VerifySignedUrl(l, "PUT") /\ l \notin redeemed /\ SignedUploadFits(signed[l], size, type)
    /\ redeemed' = redeemed \cup {l}
    /\ LET place == signed[l].place IN
       IF ValidateBucketConstraints(buckets[place[1]], size, type) /\ ~There(place)
       THEN objects' = [objects EXCEPT ![place] = NoUser] /\ ChangeOf(signed[l].ctx, place, "link")
       ELSE latest' = NoneThere /\ UNCHANGED objects
    /\ UNCHANGED <<buckets, signed>>
LinkExpires(l) ==
    /\ signed[l] # NoneThere /\ signed' = [signed EXCEPT ![l] = NoneThere]
    /\ latest' = NoneThere /\ UNCHANGED <<buckets, objects, redeemed>>

AccessNext ==
    \/ \E ctx \in Contexts :
         \/ \E b \in BucketNames :
              \/ CreateBucket(ctx, b) \/ DeleteBucket(ctx, b)
              \/ \E prefix \in Listings : ListObjects(ctx, b, prefix)
              \/ \E from, to \in ObjectNames : CopyObject(ctx, b, from, to) \/ MoveObject(ctx, b, from, to)
         \/ \E place \in Places :
              \/ Download(ctx, place) \/ DownloadPublic(ctx, place) \/ RemoveObject(ctx, place) \/ UploadObject(ctx, place)
              \/ \E l \in Links : SignUrl(l, ctx, place) \/ SignUpload(l, ctx, place)
    \/ \E l \in Links : ReadSigned(l) \/ LinkExpires(l) \/ \E size \in Sizes, type \in Types : ReceiveSigned(l, size, type)

AccessSpec == AccessInit /\ [][AccessNext]_accessVars

AccessTypeOK ==
    /\ DOMAIN objects = Places /\ \A p \in Places : There(p) => buckets[p[1]] # NoneThere
    /\ redeemed \subseteq Links

(* -------- properties -------- *)
Read == latest # NoneThere /\ latest.does = "read"
\* Something was written or removed that had an owner, or none, before.
Replaced == latest # NoneThere /\ latest.does = "write" /\ latest.before # NoneThere
Theirs == latest.ctx.role = "service_role" \/ Own(latest.ctx, latest.before)

\* An object of a bucket that is not public reaches its owner, the service or who holds a link only.
PrivateStaysPrivate == Read /\ ~latest.public => Theirs \/ latest.by = "link"
\* An account writes over and removes its own objects only, and in a bucket that is not public nobody
\* else's are, by whichever of upload, copy, move, removal and links.
OthersStay == Replaced => Theirs \/ (latest.ctx.role = "anon" /\ latest.public)
\* An agent changes nothing, by itself or by a link it signed.
AgentsOnlyRead == latest # NoneThere /\ latest.does = "write" => ~latest.ctx.agent
\* An upload by a link writes over nothing.
UploadLinksAdd == Replaced => latest.by # "link"

\* Whoever reads by a link could read the object when it was signed: false, a link is for a name, and
\* another's object may have the name since.
LinksReadWhatWasSigned == Read /\ ~latest.public => Theirs
\* The objects of an account are its own in a public bucket too: false, whoever is not signed in may
\* write over them and remove them there, which other accounts may not.
AccountsObjectsStay == Replaced /\ latest.before # NoUser => Theirs

(***************************************************************************)
(* How the body of an upload is read (apis/file.ts): as a stream that goes *)
(* to a temporary file once it is long, within a limit, and then by the    *)
(* parts of its form; and how a part of an object is answered.             *)
(*                                                                         *)
(* A body is its tokens: "D" the boundary after its two dashes, "N" a line *)
(* break, "E" the two dashes that end it, "file" the headers of a file,    *)
(* its name those of another part ("" for none), anything else its bytes.  *)
(***************************************************************************)

CONSTANTS Readers,      \* uploads that are read at once
          Forms,        \* the forms that clients send, sequences of parts
          Lengths,      \* lengths they may claim
          Threshold,    \* UPLOAD_IN_MEMORY_THRESHOLD, in tokens
          MaxUpload,    \* maxUploadSize, in tokens
          Piece,        \* most tokens of one chunk
          ObjectSizes   \* sizes of objects whose parts are asked for

ASSUME UploadBounds ==
    Threshold \in Nat /\ MaxUpload \in Nat /\ Piece \in Nat /\ Lengths \subseteq Nat /\ ObjectSizes \subseteq Nat

VARIABLES reads,        \* what each has read
          temps         \* temporary files: reader -> content
uploadVars == <<reads, temps>>

UploadInit == reads = [r \in Readers |-> [pc |-> "idle"]] /\ temps = [r \in {} |-> <<>>]

(* -------- forms -------- *)
\* FormData of a client.
Encode(form) ==
    FlattenSeq([i \in DOMAIN form |->
        (IF i = 1 THEN <<"D", "N">> ELSE <<"N", "D", "N">>)
          \o <<form[i].headers, "N", "N">> \o form[i].data])
      \o <<"N", "D", "E", "N">>

ASSUME FormsAreTokens == \A form \in Forms : Encode(form) \in Seq(ToSet(Encode(form)))

\* Where some tokens begin first, at a position or after it: 0 for nowhere.
IndexOf(raw, tokens, from) ==
    LET at == {i \in from..(Len(raw) - Len(tokens) + 1) : SubSeq(raw, i, i + Len(tokens) - 1) = tokens} IN
    IF at = {} THEN 0 ELSE CHOOSE i \in at : \A j \in at : i <= j

NoForm == [data |-> <<>>, fields |-> {}]
\* The last file is the file, and the last of a name is its field.
WithPart(form, headers, data) ==
    IF headers = "file" THEN [form EXCEPT !.data = data]
    ELSE IF headers = "" THEN form
    ELSE [form EXCEPT !.fields = {f \in @ : f.name # headers} \cup {[name |-> headers, value |-> data]}]

\* The two dashes that end a form hide the headers that a part would have.
ParseUploadBody(raw) ==
    LET headersAt(part) == part + 2
        headersEnd(part) == IndexOf(raw, <<"N", "N">>, headersAt(part))
        dataEnd(part) == IndexOf(raw, <<"N", "D">>, headersEnd(part) + 2)
        isPart(part) == part # 0 /\ headersEnd(part) # 0 /\ dataEnd(part) # 0
        from[at \in 0..Len(raw) + 1] ==
            \* <<what is parsed before a position, the part that begins there>>
            IF at = 0 THEN <<NoForm, IndexOf(raw, <<"D">>, 1)>>
            ELSE LET before == from[at - 1]
                     part == before[2] IN
                 IF ~isPart(part) THEN before
                 ELSE <<WithPart(before[1], raw[headersAt(part)], SubSeq(raw, headersEnd(part) + 2, dataEnd(part) - 1)),
                        IndexOf(raw, <<"D">>, dataEnd(part) + 1)>>
    IN  from[Len(raw) + 1][1]

(* -------- the stream -------- *)
Ends(r, pc, data) ==
    /\ reads' = [reads EXCEPT ![r] = [@ EXCEPT !.pc = pc, !.data = data]]
    /\ temps' = [s \in DOMAIN temps \ {r} |-> temps[s]]

BeginRead(r) ==
    /\ reads[r].pc = "idle" /\ UNCHANGED temps
    /\ \E form \in Forms, length \in Lengths :
        reads' = [reads EXCEPT ![r] = [pc |-> IF length > MaxUpload THEN "refused" ELSE "reading", form |-> form,
                                       length |-> length, at |-> 0, kept |-> <<>>, data |-> <<>>]]

\* A chunk: the limit counts what came, whatever the length that was claimed.
ReadPiece(r) ==
    LET raw == Encode(reads[r].form) IN
    /\ reads[r].pc = "reading"
    /\ \E k \in 1..Piece :
        LET total == reads[r].at + k
            value == SubSeq(raw, reads[r].at + 1, total) IN
        /\ total <= Len(raw)
        /\ IF total > MaxUpload THEN Ends(r, "refused", <<>>)
           ELSE IF r \in DOMAIN temps
           THEN temps' = [temps EXCEPT ![r] = @ \o value] /\ reads' = [reads EXCEPT ![r].at = total]
           ELSE IF total > Threshold
           THEN /\ temps' = [s \in DOMAIN temps \cup {r} |-> IF s = r THEN reads[r].kept \o value ELSE temps[s]]
                /\ reads' = [reads EXCEPT ![r].at = total, ![r].kept = <<>>]
           ELSE reads' = [reads EXCEPT ![r].at = total, ![r].kept = @ \o value] /\ UNCHANGED temps

\* The end: what the file has, or what was kept.
EndOfBody(r) ==
    /\ reads[r].pc = "reading" /\ reads[r].at = Len(Encode(reads[r].form))
    /\ Ends(r, "read", IF r \in DOMAIN temps THEN temps[r] ELSE reads[r].kept)
\* The client leaves, or the file cannot be written.
ReadFails(r) == reads[r].pc = "reading" /\ Ends(r, "failed", <<>>)
ReadDone(r) ==
    /\ reads[r].pc \in {"read", "refused", "failed"} /\ UNCHANGED temps
    /\ reads' = [reads EXCEPT ![r] = [pc |-> "idle"]]

UploadNext == \E r \in Readers : BeginRead(r) \/ ReadPiece(r) \/ EndOfBody(r) \/ ReadFails(r) \/ ReadDone(r)

UploadSpec == UploadInit /\ [][UploadNext]_uploadVars

UploadTypeOK ==
    /\ \A r \in Readers : reads[r].pc \in {"idle", "reading", "read", "refused", "failed"}
    /\ DOMAIN temps \subseteq Readers

(* -------- parts of an object -------- *)
\* A header "bytes=first-last", the last maybe not given (-1); none when there is nothing to answer.
ParseByteRange(first, last, size) ==
    LET end == IF last = -1 \/ last > size - 1 THEN size - 1 ELSE last IN
    IF first >= size \/ first > end THEN [whole |-> TRUE] ELSE [whole |-> FALSE, start |-> first, end |-> end]

(* -------- properties -------- *)
MeantForm(form) ==
    LET with(headers) == {i \in DOMAIN form : form[i].headers = headers}
        last(set) == form[CHOOSE i \in set : \A j \in set : j <= i].data
    IN  [data |-> IF with("file") = {} THEN <<>> ELSE last(with("file")),
         fields |-> {[name |-> n, value |-> last(with(n))] : n \in {form[i].headers : i \in DOMAIN form} \ {"", "file"}}]

\* However it is cut into chunks, a body arrives whole.
BodiesArrive == \A r \in Readers : reads[r].pc = "read" => reads[r].data = Encode(reads[r].form)
\* The parts of a body are those that were sent.
FormsAsSent == \A r \in Readers : reads[r].pc = "read" => ParseUploadBody(reads[r].data) = MeantForm(reads[r].form)
\* A body is refused only when it or the length it claims is beyond the limit, and none is taken that is.
RefusedWhenLong ==
    \A r \in Readers :
        /\ reads[r].pc = "refused" => reads[r].length > MaxUpload \/ Len(Encode(reads[r].form)) > MaxUpload
        /\ reads[r].pc = "read" => Len(reads[r].data) <= MaxUpload
\* No temporary file outlives the reading of its body, and none is made for a short one.
TempsGo ==
    \A r \in DOMAIN temps : reads[r].pc = "reading" /\ Len(temps[r]) > Threshold
\* Consecutive parts of an object make up the object.
PartsMakeWhole ==
    \A size \in ObjectSizes : \A first \in 0..size, last \in -1..size :
        LET part == ParseByteRange(first, last, size) IN
        ~part.whole =>
            /\ part.start = first /\ first <= part.end /\ part.end < size
            /\ last # -1 => part.end <= last
            /\ part.end < size - 1 => ParseByteRange(part.end + 1, -1, size) = [whole |-> FALSE, start |-> part.end + 1, end |-> size - 1]
================================================================================
