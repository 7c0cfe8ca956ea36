---------------------------- MODULE ServicesProofs ----------------------------
(***************************************************************************)
(* Theorems about the services around the core, each alone and for any     *)
(* bounds: the batches of log entries, the calls of a drop function,       *)
(* backups, the sockets of the client library, the rate limits, the way of *)
(* a request through the pipeline, to the rows and to the objects, what    *)
(* filters select and what their paths may look at.                        *)
(***************************************************************************)
EXTENDS
    Services, LogBatches, Backups, SdkClient,
    SequenceTheorems, FiniteSetTheorems, WellFoundedInduction, TLAPS

(***************************************************************************)
(* Log batches.                                                            *)
(*                                                                         *)
(* The order of the rows would be lost if a second flush overtook the one  *)
(* in progress.  The invariant says there is one at a time (OneFlush), and *)
(* that what is queued is newer than what is being written, and that newer *)
(* than what is written (InLine).                                          *)
(***************************************************************************)
Ascending(s) == \A i, j \in DOMAIN s : i < j => s[i] < s[j]
Precede(S, T) == \A x \in S, y \in T : x < y

\* What the flush in progress has still to insert.
Batch == IF Len(writing) = 0 THEN <<>> ELSE writing[1]

OneFlush == Len(writing) \in {0, 1} /\ (flushing <=> Len(writing) = 1)
InLine ==
    /\ Ascending(rows) /\ Ascending(Batch) /\ Ascending(logs)
    /\ Precede(EntriesOf(rows), EntriesOf(Batch)) /\ Precede(EntriesOf(rows), EntriesOf(logs))
    /\ Precede(EntriesOf(Batch), EntriesOf(logs))
    /\ 1..count = EntriesOf(rows) \cup purged \cup lost \cup EntriesOf(Batch) \cup EntriesOf(logs)

LogInv == LogTypeOK /\ OneFlush /\ InLine

LEMMA AppendAscending ==
  ASSUME NEW S \in SUBSET Nat, NEW s \in Seq(S), NEW e \in S, Ascending(s), Precede(EntriesOf(s), {e})
  PROVE  Append(s, e) \in Seq(S) /\ Ascending(Append(s, e)) /\ EntriesOf(Append(s, e)) = EntriesOf(s) \cup {e}
<1> DEFINE t == Append(s, e)
<1>1. /\ t \in Seq(S) /\ DOMAIN s = 1..Len(s) /\ DOMAIN t = 1..(Len(s) + 1) /\ Len(s) \in Nat
      /\ t[Len(s) + 1] = e /\ \A i \in 1..Len(s) : t[i] = s[i] /\ s[i] \in Nat
  <2>1. t \in Seq(S) /\ Len(t) = Len(s) + 1 /\ t[Len(s) + 1] = e /\ \A i \in 1..Len(s) : t[i] = s[i]
    BY AppendProperties
  <2>2. DOMAIN s = 1..Len(s) /\ DOMAIN t = 1..Len(t) /\ Len(s) \in Nat
    BY <2>1, LenProperties
  <2>3. \A i \in 1..Len(s) : s[i] \in S
    BY ElementOfSeq
  <2> QED BY <2>1, <2>2, <2>3
<1> HIDE DEF t
<1>2. \A i \in DOMAIN t : i \in DOMAIN s \/ i = Len(s) + 1
  BY <1>1
<1>3. DOMAIN s \subseteq DOMAIN t /\ Len(s) + 1 \in DOMAIN t
  BY <1>1
<1>4. EntriesOf(t) = EntriesOf(s) \cup {e}
  BY <1>1, <1>2, <1>3 DEF EntriesOf
<1>5. Ascending(t)
  <2> SUFFICES ASSUME NEW i \in DOMAIN t, NEW j \in DOMAIN t, i < j PROVE t[i] < t[j]
    BY DEF Ascending
  <2>1. i \in DOMAIN s /\ t[i] = s[i]
    BY <1>1
  <2>2. CASE j \in DOMAIN s
    BY <1>1, <2>1, <2>2 DEF Ascending
  <2>3. CASE j = Len(s) + 1
    BY <1>1, <2>1, <2>3 DEF EntriesOf, Precede
  <2> QED BY <1>2, <2>2, <2>3
<1> QED BY <1>4, <1>5 DEF t

LEMMA TailAscending ==
  ASSUME NEW S \in SUBSET Nat, NEW s \in Seq(S), s # <<>>, Ascending(s)
  PROVE  /\ Tail(s) \in Seq(S) /\ Head(s) \in S /\ Ascending(Tail(s))
         /\ EntriesOf(s) = {Head(s)} \cup EntriesOf(Tail(s))
         /\ Precede({Head(s)}, EntriesOf(Tail(s)))
<1> DEFINE t == Tail(s)
<1>1. /\ t \in Seq(S) /\ DOMAIN s = 1..Len(s) /\ DOMAIN t = 1..(Len(s) - 1) /\ Len(s) \in Nat \ {0}
      /\ \A i \in 1..(Len(s) - 1) : t[i] = s[i + 1]
  BY HeadTailProperties, LenProperties, EmptySeq
<1>2. Head(s) = s[1] /\ s[1] \in S /\ 1 \in DOMAIN s
  BY <1>1, ElementOfSeq, HeadTailProperties
<1> HIDE DEF t
<1>3. \A i \in DOMAIN t : i \in Nat /\ i + 1 \in DOMAIN s /\ 1 < i + 1
  BY <1>1
<1>4. \A i \in DOMAIN s \ {1} : i - 1 \in DOMAIN t /\ t[i - 1] = s[i]
  BY <1>1
<1>5. Ascending(t)
  <2> SUFFICES ASSUME NEW i \in DOMAIN t, NEW j \in DOMAIN t, i < j PROVE t[i] < t[j]
    BY DEF Ascending
  <2>1. i + 1 \in DOMAIN s /\ j + 1 \in DOMAIN s /\ i + 1 < j + 1
    BY <1>3
  <2>2. s[i + 1] < s[j + 1]
    BY <2>1 DEF Ascending
  <2>3. t[i] = s[i + 1] /\ t[j] = s[j + 1]
    BY <1>1
  <2> QED BY <2>2, <2>3
<1>6. EntriesOf(s) = {s[1]} \cup EntriesOf(t)
  <2>1. EntriesOf(s) \subseteq {s[1]} \cup EntriesOf(t)
    BY <1>4 DEF EntriesOf
  <2>2. EntriesOf(t) \subseteq EntriesOf(s)
    BY <1>1, <1>3 DEF EntriesOf
  <2> QED BY <1>2, <2>1, <2>2 DEF EntriesOf
<1>7. Precede({s[1]}, EntriesOf(t))
  BY <1>1, <1>2, <1>3 DEF EntriesOf, Precede, Ascending
<1> QED BY <1>1, <1>2, <1>5, <1>6, <1>7 DEF t

LEMMA EmptyAscending == Ascending(<<>>) /\ EntriesOf(<<>>) = {}
BY EmptySeq DEF Ascending, EntriesOf

\* The one batch there may be.
LEMMA BatchType ==
  ASSUME LogTypeOK, OneFlush
  PROVE  /\ Batch \in Seq(Entries) /\ EntriesOf(Batch) = InBatches
         /\ \A b \in DOMAIN writing : b = 1 /\ Len(writing) = 1 /\ Batch = writing[1]
         /\ Entries \subseteq Nat
<1>1. writing \in Seq(Seq(Entries)) /\ DOMAIN writing = 1..Len(writing)
  BY LenProperties DEF LogTypeOK
<1>2. CASE Len(writing) = 0
  BY <1>1, <1>2, EmptySeq, EmptyAscending DEF Batch, InBatches, Entries
<1>3. CASE Len(writing) = 1
  <2>1. DOMAIN writing = {1} /\ writing[1] \in Seq(Entries)
    BY <1>1, <1>3, ElementOfSeq
  <2> QED BY <1>3, <2>1 DEF Batch, InBatches, Entries
<1> QED BY <1>2, <1>3 DEF OneFlush

\* The entries q, queued after all others, stay queued or become the batch.
LEMMA FlushInv ==
  ASSUME LogInv, NEW q \in Seq(Entries), NEW n \in 0..MaxEntries, Ascending(q),
         Precede(EntriesOf(rows), EntriesOf(q)), Precede(EntriesOf(Batch), EntriesOf(q)),
         1..n = EntriesOf(rows) \cup purged \cup lost \cup EntriesOf(Batch) \cup EntriesOf(q),
         Flush(q) \/ (logs' = q /\ UNCHANGED <<flushing, writing>>),
         count' = n, timer' \in BOOLEAN, UNCHANGED <<rows, lost, purged>>
  PROVE  LogInv'
<1>1. CASE logs' = q /\ UNCHANGED <<flushing, writing>>
  BY <1>1 DEF LogInv, LogTypeOK, OneFlush, InLine, Batch
<1>2. CASE logs' = <<>> /\ flushing' = TRUE /\ writing' = Append(writing, q) /\ ~flushing
  <2>1. Len(writing) = 0 /\ Batch = <<>> /\ writing \in Seq(Seq(Entries))
    BY <1>2 DEF LogInv, OneFlush, Batch, LogTypeOK
  <2>2. writing' \in Seq(Seq(Entries)) /\ Len(writing') = 1 /\ writing'[1] = q
    BY <1>2, <2>1, AppendProperties
  <2>3. Batch' = q
    BY <2>2 DEF Batch
  <2>4. LogTypeOK'
    BY <1>2, <2>2, EmptySeq DEF LogInv, LogTypeOK
  <2>5. OneFlush'
    BY <1>2, <2>2 DEF OneFlush
  <2>6. InLine'
    BY <1>2, <2>1, <2>3, EmptyAscending DEF LogInv, InLine, Precede
  <2> QED BY <2>4, <2>5, <2>6 DEF LogInv
<1> QED BY <1>1, <1>2 DEF Flush

LEMMA HandleInv == ASSUME LogInv, Handle PROVE LogInv'
<1> DEFINE q == Append(logs, count + 1)
<1>1. count \in Nat /\ count + 1 \in Entries /\ count + 1 \in 0..MaxEntries /\ count' = count + 1
  BY LogBounds DEF Handle, LogInv, LogTypeOK, Entries
<1>2. logs \in Seq(Entries) /\ Ascending(logs) /\ Entries \in SUBSET Nat
  BY BatchType DEF LogInv, LogTypeOK, InLine
<1>3. \A x \in EntriesOf(rows) \cup EntriesOf(Batch) \cup EntriesOf(logs) : x \in 1..count
  BY DEF LogInv, InLine
<1>4. q \in Seq(Entries) /\ Ascending(q) /\ EntriesOf(q) = EntriesOf(logs) \cup {count + 1}
  BY <1>1, <1>2, <1>3, AppendAscending DEF Precede
<1>5. Flush(q) \/ (logs' = q /\ UNCHANGED <<flushing, writing>>)
  BY DEF Handle
<1> HIDE DEF q
<1>6. Precede(EntriesOf(rows), EntriesOf(q)) /\ Precede(EntriesOf(Batch), EntriesOf(q))
  BY <1>1, <1>3, <1>4 DEF LogInv, InLine, Precede
<1>7. 1..(count + 1) = EntriesOf(rows) \cup purged \cup lost \cup EntriesOf(Batch) \cup EntriesOf(q)
  <2>1. 1..(count + 1) = 1..count \cup {count + 1}
    BY <1>1
  <2> QED BY <1>4, <2>1 DEF LogInv, InLine
<1>8. timer' \in BOOLEAN /\ UNCHANGED <<rows, lost, purged>>
  BY DEF Handle, LogInv, LogTypeOK
<1> QED BY <1>1, <1>4, <1>5, <1>6, <1>7, <1>8, FlushInv

LEMMA FlushesInv == ASSUME LogInv, FlushInterval \/ WriteAll \/ Dispose PROVE LogInv'
<1>1. Flush(logs) /\ timer' \in BOOLEAN /\ UNCHANGED <<count, rows, lost, purged>>
  BY DEF FlushInterval, WriteAll, Dispose, LogInv, LogTypeOK
<1> QED BY <1>1, FlushInv DEF LogInv, LogTypeOK, InLine

\* The next entry x of the batch leaves it: to the rows, or lost.
LEMMA EntryDone ==
  ASSUME LogInv, NEW b \in DOMAIN writing, writing[b] # <<>>, writing' = [writing EXCEPT ![b] = Tail(@)],
         UNCHANGED <<count, logs, flushing, timer, purged>>
  PROVE  /\ Head(Batch) \in Entries /\ Batch' = Tail(Batch) /\ OneFlush'
         /\ Ascending(Batch') /\ EntriesOf(Batch) = {Head(Batch)} \cup EntriesOf(Batch')
         /\ Precede({Head(Batch)}, EntriesOf(Batch')) /\ writing' \in Seq(Seq(Entries))
<1>1. /\ Batch \in Seq(Entries) /\ Entries \in SUBSET Nat /\ b = 1 /\ Len(writing) = 1
      /\ Batch = writing[1] /\ Ascending(Batch) /\ writing \in Seq(Seq(Entries))
  BY BatchType DEF LogInv, InLine, LogTypeOK
<1>2. /\ Tail(Batch) \in Seq(Entries) /\ Head(Batch) \in Entries /\ Ascending(Tail(Batch))
      /\ EntriesOf(Batch) = {Head(Batch)} \cup EntriesOf(Tail(Batch))
      /\ Precede({Head(Batch)}, EntriesOf(Tail(Batch)))
  BY <1>1, TailAscending
<1> DEFINE t == Tail(Batch)
<1>3. writing' = [writing EXCEPT ![1] = t] /\ t \in Seq(Entries)
  BY <1>1, <1>2
<1> HIDE DEF t
<1>4. 1 \in 1..Len(writing)
  BY <1>1
<1>5. writing' \in Seq(Seq(Entries)) /\ Len(writing') = 1 /\ writing'[1] = t
  <2>1. writing \in Seq(Seq(Entries)) /\ t \in Seq(Entries) /\ 1 \in 1..Len(writing)
    BY <1>1, <1>3, <1>4
  <2>2. /\ [writing EXCEPT ![1] = t] \in Seq(Seq(Entries))
        /\ Len([writing EXCEPT ![1] = t]) = Len(writing)
        /\ [writing EXCEPT ![1] = t][1] = t
    BY ONLY <2>1, ExceptSeq
  <2> QED BY <1>1, <1>3, <2>2
<1>6. Batch' = t
  BY <1>5 DEF Batch
<1>7. OneFlush'
  BY <1>1, <1>5 DEF LogInv, OneFlush
<1> QED BY <1>2, <1>5, <1>6, <1>7 DEF t

LEMMA InsertEntryInv == ASSUME LogInv, NEW b \in DOMAIN writing, InsertEntry(b) PROVE LogInv'
<1> DEFINE x == Head(Batch)
<1>1. /\ x \in Entries /\ OneFlush' /\ Ascending(Batch') /\ EntriesOf(Batch) = {x} \cup EntriesOf(Batch')
      /\ Precede({x}, EntriesOf(Batch')) /\ writing' \in Seq(Seq(Entries))
      /\ rows' = Append(rows, x) /\ UNCHANGED <<count, logs, flushing, timer, lost, purged>>
  BY EntryDone, BatchType DEF InsertEntry, LogInv
<1>2. rows \in Seq(Entries) /\ Entries \in SUBSET Nat /\ Ascending(rows) /\ Precede(EntriesOf(rows), {x})
  BY <1>1, BatchType DEF LogInv, LogTypeOK, InLine, Precede
<1>3. rows' \in Seq(Entries) /\ Ascending(rows') /\ EntriesOf(rows') = EntriesOf(rows) \cup {x}
  BY <1>1, <1>2, AppendAscending
<1> HIDE DEF x
<1>4. LogTypeOK'
  BY <1>1, <1>3 DEF LogInv, LogTypeOK
<1>5. InLine'
  BY <1>1, <1>3 DEF LogInv, InLine, Precede
<1> QED BY <1>1, <1>4, <1>5 DEF LogInv

LEMMA InsertFailsInv == ASSUME LogInv, NEW b \in DOMAIN writing, InsertFails(b) PROVE LogInv'
<1> DEFINE x == Head(Batch)
<1>1. /\ x \in Entries /\ OneFlush' /\ Ascending(Batch') /\ EntriesOf(Batch) = {x} \cup EntriesOf(Batch')
      /\ writing' \in Seq(Seq(Entries))
      /\ lost' = lost \cup {x} /\ UNCHANGED <<count, logs, flushing, timer, rows, purged>>
  BY EntryDone, BatchType DEF InsertFails, LogInv
<1> HIDE DEF x
<1>2. LogTypeOK'
  BY <1>1 DEF LogInv, LogTypeOK
<1>3. InLine'
  BY <1>1 DEF LogInv, InLine, Precede
<1> QED BY <1>1, <1>2, <1>3 DEF LogInv

LEMMA FlushedInv == ASSUME LogInv, NEW b \in DOMAIN writing, Flushed(b) PROVE LogInv'
<1>1. /\ b = 1 /\ Len(writing) = 1 /\ Batch = <<>> /\ flushing' = FALSE
      /\ writing' = SubSeq(writing, 1, 0) \o SubSeq(writing, 2, 1)
      /\ UNCHANGED <<count, logs, rows, timer, lost, purged>>
  <2>1. b = 1 /\ Len(writing) = 1 /\ Batch = writing[1]
    BY BatchType DEF LogInv
  <2> QED BY <2>1 DEF Flushed
<1>2. SubSeq(writing, 1, 0) = <<>> /\ SubSeq(writing, 2, 1) = <<>>
  BY SubSeqEmpty DEF LogInv, LogTypeOK
<1>3. writing' = <<>> /\ Len(writing') = 0 /\ writing' \in Seq(Seq(Entries))
  BY <1>1, <1>2, ConcatEmptySeq, EmptySeq
<1>4. Batch' = <<>>
  BY <1>3 DEF Batch
<1>5. LogTypeOK' /\ OneFlush'
  <2>1. LogTypeOK'
    BY <1>1, <1>3 DEF LogInv, LogTypeOK
  <2> QED BY <1>1, <1>3, <2>1 DEF OneFlush
<1>6. InLine'
  BY <1>1, <1>4 DEF LogInv, InLine
<1> QED BY <1>5, <1>6 DEF LogInv

LEMMA CleanUpInv == ASSUME LogInv, CleanUp PROVE LogInv'
<1> DEFINE x == Head(rows)
<1>1. /\ rows # <<>> /\ purged' = purged \cup {x} /\ rows' = Tail(rows)
      /\ UNCHANGED <<count, logs, flushing, writing, timer, lost>>
  BY DEF CleanUp
<1>2. rows \in Seq(Entries) /\ Entries \in SUBSET Nat /\ Ascending(rows)
  BY BatchType DEF LogInv, LogTypeOK, InLine
<1>3. /\ rows' \in Seq(Entries) /\ x \in Entries /\ Ascending(rows')
      /\ EntriesOf(rows) = {x} \cup EntriesOf(rows')
  BY <1>1, <1>2, TailAscending
<1> HIDE DEF x
<1>4. LogTypeOK' /\ OneFlush' /\ Batch' = Batch
  BY <1>1, <1>3 DEF LogInv, LogTypeOK, OneFlush, Batch
<1>5. InLine'
  BY <1>1, <1>3, <1>4 DEF LogInv, InLine, Precede
<1> QED BY <1>4, <1>5 DEF LogInv

(***************************************************************************)
(* For any batch size and number of entries, rows are inserted in the      *)
(* order of the entries, none twice, and none disappears between the queue *)
(* and the table.                                                          *)
(***************************************************************************)
THEOREM LogRowsInOrder == LogSpec => []RowsInOrder
<1>1. LogInit => LogInv
  <2> SUFFICES ASSUME LogInit PROVE LogInv
    OBVIOUS
  <2>1. Len(writing) = 0 /\ Batch = <<>> /\ logs = <<>> /\ rows = <<>>
    BY EmptySeq DEF LogInit, Batch
  <2>2. LogTypeOK
    <3>1. logs \in Seq(Entries) /\ rows \in Seq(Entries) /\ writing \in Seq(Seq(Entries))
      BY EmptySeq DEF LogInit
    <3>2. count \in 0..MaxEntries /\ lost \subseteq Entries /\ purged \subseteq Entries
      BY LogBounds DEF LogInit
    <3>3. flushing \in BOOLEAN /\ timer \in BOOLEAN
      BY DEF LogInit
    <3> QED BY <3>1, <3>2, <3>3 DEF LogTypeOK
  <2>3. OneFlush
    <3>1. flushing = FALSE
      BY DEF LogInit
    <3> QED BY <2>1, <3>1 DEF OneFlush
  <2>4. InLine
    BY <2>1, EmptyAscending DEF LogInit, InLine, Precede
  <2> QED BY <2>2, <2>3, <2>4 DEF LogInv
<1>2. LogInv /\ [LogNext]_logVars => LogInv'
  <2> SUFFICES ASSUME LogInv, [LogNext]_logVars PROVE LogInv'
    OBVIOUS
  <2>1. CASE Handle
    BY <2>1, HandleInv
  <2>2. CASE FlushInterval \/ WriteAll \/ Dispose
    BY <2>2, FlushesInv
  <2>3. CASE CleanUp
    BY <2>3, CleanUpInv
  <2>4. CASE \E b \in DOMAIN writing : InsertEntry(b) \/ InsertFails(b) \/ Flushed(b)
    BY <2>4, InsertEntryInv, InsertFailsInv, FlushedInv
  <2>5. CASE UNCHANGED logVars
    BY <2>5 DEF logVars, LogInv, LogTypeOK, OneFlush, InLine, Batch
  <2> QED BY <2>1, <2>2, <2>3, <2>4, <2>5 DEF LogNext
<1>3. LogInv => RowsInOrder
  <2> SUFFICES ASSUME LogInv PROVE RowsInOrder
    OBVIOUS
  <2>1. EntriesOf(Batch) = InBatches
    BY BatchType DEF LogInv
  <2>2. \A x \in EntriesOf(rows) : x \in Nat
    <3>1. rows \in Seq(Entries) /\ DOMAIN rows = 1..Len(rows)
      BY LenProperties DEF LogInv, LogTypeOK
    <3>2. \A i \in DOMAIN rows : rows[i] \in Entries
      BY <3>1, ElementOfSeq
    <3> QED BY <3>2 DEF EntriesOf, Entries
  <2>3. EntriesOf(rows) \cap InBatches = {}
    BY <2>1, <2>2 DEF LogInv, InLine, Precede
  <2> QED BY <2>1, <2>3 DEF LogInv, InLine, Ascending, RowsInOrder
<1> QED BY <1>1, <1>2, <1>3, PTL DEF LogSpec

(***************************************************************************)
(* Drop functions.                                                         *)
(*                                                                         *)
(* The worker imports whatever the file is by then.  What the caller was   *)
(* checked against is the version the server imported (CheckedBy), and a   *)
(* version that is there is the last one written.                          *)
(***************************************************************************)
Version == [does : Bodies, auth : BOOLEAN]
CallPcs == {"idle", "import", "stuck", "auth", "run", "running", "posted"}
CallType == [pc : CallPcs, by : Callers, seen : Nat, ran : Nat]

\* What the call x has seen and run of the n versions vs, at each place.
CheckedBy(x, vs, n) ==
    /\ x.seen <= n /\ x.ran <= n
    /\ x.pc \in {"idle", "import", "stuck"} => x.ran = 0 /\ x.seen = 0
    /\ x.pc \in {"auth", "run"} => x.ran = 0
    /\ x.pc \in {"auth", "run", "running", "posted"} => x.seen > 0
    /\ x.pc \in {"run", "running", "posted"} /\ x.by = "nobody" => ~vs[x.seen].auth
    /\ x.pc \in {"running", "posted"} => x.ran = 0 \/ x.ran >= x.seen

FunctionInv ==
    /\ code \in Seq(Version) /\ Len(code) <= MaxVersions
    /\ file \in {0, Len(code)} /\ stopped \in BOOLEAN
    /\ call \in [Calls -> CallType]
    /\ \A c \in Calls : CheckedBy(call[c], code, Len(code))

\* A step of one call, which becomes x.
LEMMA CallStep ==
  ASSUME FunctionInv, NEW c \in Calls, NEW x \in CallType, CheckedBy(x, code, Len(code)),
         call' = [call EXCEPT ![c] = x], stopped' \in BOOLEAN, UNCHANGED <<code, file>>
  PROVE  FunctionInv'
<1>1. call' \in [Calls -> CallType] /\ call'[c] = x /\ \A d \in Calls \ {c} : call'[d] = call[d]
  BY DEF FunctionInv
<1>2. \A d \in Calls : CheckedBy(call'[d], code, Len(code))
  BY <1>1 DEF FunctionInv
<1> QED BY <1>1, <1>2 DEF FunctionInv

LEMMA CallAnswered ==
  ASSUME FunctionInv, NEW c \in Calls, Answer(c), stopped' \in BOOLEAN, UNCHANGED <<code, file>>
  PROVE  FunctionInv'
<1>1. NoCall \in CallType /\ NoCall.pc = "idle" /\ NoCall.seen = 0 /\ NoCall.ran = 0
  BY DEF NoCall, CallType, CallPcs, Callers
<1>2. Len(code) \in Nat
  BY LenProperties DEF FunctionInv
<1>3. CheckedBy(NoCall, code, Len(code))
  BY <1>1, <1>2 DEF CheckedBy
<1> QED BY <1>1, <1>3, CallStep DEF Answer

LEMMA WriteSourceInv ==
  ASSUME FunctionInv, NEW body \in Bodies, NEW auth \in BOOLEAN, WriteSource(body, auth)
  PROVE  FunctionInv'
<1> DEFINE v == [does |-> body, auth |-> auth]
<1>1. v \in Version /\ code \in Seq(Version) /\ Len(code) \in Nat /\ MaxVersions \in Nat
  BY LenProperties, FunctionBounds DEF Version, FunctionInv
<1>2. code' = Append(code, v) /\ file' = Len(code) + 1 /\ Len(code) < MaxVersions /\ UNCHANGED <<call, stopped>>
  BY DEF WriteSource
<1> HIDE DEF v
<1>3. code' \in Seq(Version) /\ Len(code') = Len(code) + 1 /\ \A i \in 1..Len(code) : code'[i] = code[i]
  BY <1>1, <1>2, AppendProperties
<1>4. \A c \in Calls : CheckedBy(call[c], code', Len(code'))
  <2> TAKE c \in Calls
  <2>1. call[c] \in CallType /\ CheckedBy(call[c], code, Len(code))
    BY DEF FunctionInv
  <2>2. call[c].seen \in Nat /\ call[c].ran \in Nat
    BY <2>1 DEF CallType
  <2>3. call[c].seen > 0 /\ call[c].seen <= Len(code) => code'[call[c].seen] = code[call[c].seen]
    BY <1>1, <1>3, <2>2
  <2> QED BY <1>1, <1>3, <2>1, <2>2, <2>3 DEF CheckedBy
<1> QED BY <1>1, <1>2, <1>3, <1>4 DEF FunctionInv

LEMMA ImportInv == ASSUME FunctionInv, NEW c \in Calls, Import(c) PROVE FunctionInv'
<1>1. call[c] \in CallType /\ call[c].pc = "import" /\ CheckedBy(call[c], code, Len(code))
      /\ stopped' \in BOOLEAN /\ UNCHANGED <<code, file>>
  BY DEF Import, CallAt, FunctionInv
<1>2. CASE Answer(c)
  BY <1>1, <1>2, CallAnswered
<1>3. CASE Go(c, "stuck")
  <2> DEFINE x == [call[c] EXCEPT !.pc = "stuck"]
  <2>1. x \in CallType /\ x.pc = "stuck" /\ x.seen = call[c].seen /\ x.ran = call[c].ran
    BY <1>1 DEF CallType, CallPcs
  <2>2. call' = [call EXCEPT ![c] = x]
    BY <1>3 DEF Go
  <2> HIDE DEF x
  <2>3. CheckedBy(x, code, Len(code))
    BY <1>1, <2>1 DEF CheckedBy
  <2> QED BY <1>1, <2>1, <2>2, <2>3, CallStep
<1>4. CASE /\ Does(file) # "broken"
           /\ call' = [call EXCEPT ![c].pc = IF code[file].auth THEN "auth" ELSE "run", ![c].seen = file]
  <2>1. file = Len(code) /\ file # 0 /\ Len(code) \in Nat
    BY <1>4, LenProperties DEF Does, FunctionInv
  <2> DEFINE p == IF code[file].auth THEN "auth" ELSE "run"
             x == [call[c] EXCEPT !.pc = p, !.seen = file]
  <2>2. p \in {"auth", "run"} /\ (p = "run" => ~code[file].auth)
    OBVIOUS
  <2>3. call' = [call EXCEPT ![c] = x]
    BY <1>4
  <2> HIDE DEF p
  <2>4. x \in CallType /\ x.pc = p /\ x.seen = file /\ x.ran = call[c].ran
    BY <1>1, <2>1, <2>2 DEF CallType, CallPcs
  <2> HIDE DEF x
  <2>5. CheckedBy(x, code, Len(code))
    BY <1>1, <2>1, <2>2, <2>4 DEF CheckedBy
  <2> QED BY <1>1, <2>3, <2>4, <2>5, CallStep
<1> QED BY <1>2, <1>3, <1>4 DEF Import

LEMMA AuthenticateInv == ASSUME FunctionInv, NEW c \in Calls, Authenticate(c) PROVE FunctionInv'
<1>1. call[c] \in CallType /\ call[c].pc = "auth" /\ CheckedBy(call[c], code, Len(code))
      /\ stopped' \in BOOLEAN /\ UNCHANGED <<code, file>>
  BY DEF Authenticate, CallAt, FunctionInv
<1>2. CASE Answer(c)
  BY <1>1, <1>2, CallAnswered
<1>3. CASE call[c].by # "nobody" /\ Go(c, "run")
  <2> DEFINE x == [call[c] EXCEPT !.pc = "run"]
  <2>1. x \in CallType /\ x.pc = "run" /\ x.by # "nobody" /\ x.seen = call[c].seen /\ x.ran = call[c].ran
    BY <1>1, <1>3 DEF CallType, CallPcs
  <2>2. call' = [call EXCEPT ![c] = x]
    BY <1>3 DEF Go
  <2> HIDE DEF x
  <2>3. CheckedBy(x, code, Len(code))
    BY <1>1, <2>1 DEF CheckedBy
  <2> QED BY <1>1, <2>1, <2>2, <2>3, CallStep
<1> QED BY <1>2, <1>3 DEF Authenticate

LEMMA LoadInv == ASSUME FunctionInv, NEW c \in Calls, Load(c) PROVE FunctionInv'
<1>1. call[c] \in CallType /\ call[c].pc = "run" /\ CheckedBy(call[c], code, Len(code))
      /\ stopped' \in BOOLEAN /\ UNCHANGED <<code, file>>
  BY DEF Load, FunctionInv
<1>2. CASE Go(c, "posted")
  <2> DEFINE x == [call[c] EXCEPT !.pc = "posted"]
  <2>1. x \in CallType /\ x.pc = "posted" /\ x.by = call[c].by /\ x.seen = call[c].seen /\ x.ran = call[c].ran
    BY <1>1 DEF CallType, CallPcs
  <2>2. call' = [call EXCEPT ![c] = x]
    BY <1>2 DEF Go
  <2> HIDE DEF x
  <2>3. CheckedBy(x, code, Len(code))
    BY <1>1, <2>1 DEF CheckedBy
  <2> QED BY <1>1, <2>1, <2>2, <2>3, CallStep
<1>3. CASE Does(file) # "broken" /\ call' = [call EXCEPT ![c].pc = "running", ![c].ran = file]
  <2>1. file = Len(code) /\ Len(code) \in Nat
    BY <1>3, LenProperties DEF Does, FunctionInv
  <2> DEFINE x == [call[c] EXCEPT !.pc = "running", !.ran = file]
  <2>2. x \in CallType /\ x.pc = "running" /\ x.by = call[c].by /\ x.seen = call[c].seen /\ x.ran = file
    BY <1>1, <2>1 DEF CallType, CallPcs
  <2>3. call' = [call EXCEPT ![c] = x]
    BY <1>3
  <2> HIDE DEF x
  <2>4. call[c].seen \in Nat
    BY <1>1 DEF CallType
  <2>5. CheckedBy(x, code, Len(code))
    BY <1>1, <2>1, <2>2, <2>4 DEF CheckedBy
  <2> QED BY <1>1, <2>2, <2>3, <2>5, CallStep
<1> QED BY <1>2, <1>3 DEF Load

LEMMA ReturnInv == ASSUME FunctionInv, NEW c \in Calls, Return(c) PROVE FunctionInv'
<1>1. call[c] \in CallType /\ call[c].pc = "running" /\ CheckedBy(call[c], code, Len(code))
      /\ stopped' \in BOOLEAN /\ UNCHANGED <<code, file>>
  BY DEF Return, FunctionInv
<1> DEFINE x == [call[c] EXCEPT !.pc = "posted"]
<1>2. x \in CallType /\ x.pc = "posted" /\ x.by = call[c].by /\ x.seen = call[c].seen /\ x.ran = call[c].ran
  BY <1>1 DEF CallType, CallPcs
<1>3. call' = [call EXCEPT ![c] = x]
  BY DEF Return, Go
<1> HIDE DEF x
<1>4. CheckedBy(x, code, Len(code))
  BY <1>1, <1>2 DEF CheckedBy
<1> QED BY <1>1, <1>2, <1>3, <1>4, CallStep

LEMMA InvokeInv == ASSUME FunctionInv, NEW c \in Calls, NEW by \in Callers, Invoke(c, by) PROVE FunctionInv'
<1> DEFINE x == [NoCall EXCEPT !.pc = "import", !.by = by]
<1>1. x \in CallType /\ x.pc = "import" /\ x.seen = 0 /\ x.ran = 0
  BY DEF NoCall, CallType, CallPcs
<1>2. call' = [call EXCEPT ![c] = x] /\ stopped' \in BOOLEAN /\ UNCHANGED <<code, file>>
  BY DEF Invoke, FunctionInv
<1> HIDE DEF x
<1>3. Len(code) \in Nat
  BY LenProperties DEF FunctionInv
<1>4. CheckedBy(x, code, Len(code))
  BY <1>1, <1>3 DEF CheckedBy
<1> QED BY <1>1, <1>2, <1>4, CallStep

(***************************************************************************)
(* For any number of calls and versions: a version that asks for a caller  *)
(* runs without one only if it was written after the server imported one   *)
(* that did not ask.                                                       *)
(***************************************************************************)
THEOREM FunctionsRunAsChecked == FunctionSpec => []RunsAsChecked
<1>1. FunctionInit => FunctionInv
  <2> SUFFICES ASSUME FunctionInit PROVE FunctionInv
    OBVIOUS
  <2>1. code = <<>> /\ Len(code) = 0 /\ code \in Seq(Version)
    BY EmptySeq DEF FunctionInit
  <2>2. NoCall \in CallType /\ NoCall.pc = "idle" /\ NoCall.seen = 0 /\ NoCall.ran = 0
    BY DEF NoCall, CallType, CallPcs, Callers
  <2>3. CheckedBy(NoCall, code, 0)
    BY <2>2 DEF CheckedBy
  <2>4. call = [c \in Calls |-> NoCall] /\ file = 0 /\ stopped = FALSE
    BY DEF FunctionInit
  <2>5. call \in [Calls -> CallType] /\ \A c \in Calls : CheckedBy(call[c], code, Len(code))
    BY <2>1, <2>2, <2>3, <2>4
  <2>6. Len(code) <= MaxVersions /\ file \in {0, Len(code)}
    BY <2>1, <2>4, FunctionBounds
  <2>7. code \in Seq(Version) /\ stopped \in BOOLEAN
    BY <2>1, <2>4
  <2> QED BY <2>5, <2>6, <2>7 DEF FunctionInv
<1>2. FunctionInv /\ [FunctionNext]_functionVars => FunctionInv'
  <2> SUFFICES ASSUME FunctionInv, [FunctionNext]_functionVars PROVE FunctionInv'
    OBVIOUS
  <2>1. ASSUME NEW body \in Bodies, NEW auth \in BOOLEAN, WriteSource(body, auth) PROVE FunctionInv'
    BY <2>1, WriteSourceInv
  <2>2. CASE DeleteFile
    BY <2>2 DEF DeleteFile, FunctionInv
  <2>3. ASSUME NEW c \in Calls, NEW by \in Callers, Invoke(c, by) PROVE FunctionInv'
    BY <2>3, InvokeInv
  <2>4. ASSUME NEW c \in Calls, CallSteps(c) PROVE FunctionInv'
    <3>1. CASE Posted(c) \/ Timeout(c)
      BY <3>1, CallAnswered DEF Posted, Timeout, FunctionInv
    <3>2. CASE Import(c) \/ Authenticate(c) \/ Load(c) \/ Return(c)
      BY <3>2, ImportInv, AuthenticateInv, LoadInv, ReturnInv
    <3> QED BY <2>4, <3>1, <3>2 DEF CallSteps
  <2>5. CASE UNCHANGED functionVars
    BY <2>5 DEF functionVars, FunctionInv
  <2> QED BY <2>1, <2>2, <2>3, <2>4, <2>5 DEF FunctionNext
<1>3. FunctionInv => RunsAsChecked
  <2> SUFFICES ASSUME FunctionInv, NEW c \in Calls, call[c].ran # 0, code[call[c].ran].auth, call[c].by = "nobody"
               PROVE  call[c].ran > call[c].seen /\ ~code[call[c].seen].auth
    BY DEF RunsAsChecked
  <2>1. call[c] \in CallType /\ CheckedBy(call[c], code, Len(code))
    BY DEF FunctionInv
  <2>2. call[c].seen \in Nat /\ call[c].ran \in Nat /\ call[c].pc \in CallPcs
    BY <2>1 DEF CallType
  <2>3. call[c].pc \in {"running", "posted"} /\ call[c].ran >= call[c].seen /\ ~code[call[c].seen].auth
    BY <2>1, <2>2 DEF CheckedBy, CallPcs
  <2>4. call[c].ran # call[c].seen
    BY <2>3
  <2> QED BY <2>2, <2>3, <2>4
<1> QED BY <1>1, <1>2, <1>3, PTL DEF FunctionSpec

(***************************************************************************)
(* Backups.                                                                *)
(*                                                                         *)
(* A backup could be restored incomplete if its manifest said "done" too   *)
(* early, or if it changed after a restore has begun.  The invariant says  *)
(* what a backup holds at each of its steps (Sound) and that a done one    *)
(* stays as it is; the timers are those of the schedule in force.          *)
(***************************************************************************)
BackupRow == [pc : {"dump", "sql", "files", "manifest", "done", "failed"},
              first : Nat, second : Nat, object : Nat, hasPostgres : BOOLEAN, hasFileStore : BOOLEAN]
Sound(x) ==
    /\ x.pc = "dump" => x.first = 0 /\ x.second = 0
    /\ x.pc = "sql" => x.first # 0
    /\ x.pc \in {"files", "manifest", "done"} => (x.first = 0 <=> x.second = 0)

SoundBackups == backups \in Seq(BackupRow) /\ \A b \in DOMAIN backups : Sound(backups[b])
SoundData == written \in Nat \ {0} /\ files \in Nat /\ \E n, m \in Nat \ {0} : data = <<n, m>>
SoundRestores ==
    /\ restore \in [Restorers -> [pc : {"idle", "psql", "save"}, of : Nat]]
    /\ \A r \in Restorers : LET b == restore[r].of IN
         /\ restore[r].pc # "idle" => b \in DOMAIN backups /\ backups[b].pc = "done"
         /\ restore[r].pc = "psql" => backups[b].first # 0
    /\ used \subseteq DOMAIN backups /\ \A b \in used : backups[b].pc = "done"
SoundSchedule == crons \in Nat /\ schedule \in 0..crons /\ OneSchedule

BackupInv == up \in BOOLEAN /\ SoundBackups /\ SoundData /\ SoundRestores /\ SoundSchedule

\* More backups, of which those that were done are as they were.
Further ==
    /\ DOMAIN backups \subseteq DOMAIN backups'
    /\ \A b \in DOMAIN backups : backups[b].pc = "done" => backups'[b] = backups[b]

LEMMA RestoresStay ==
  ASSUME SoundRestores, Further, UNCHANGED <<restore, used>>
  PROVE  SoundRestores'
BY DEF SoundRestores, Further

LEMMA BackupBegins ==
  ASSUME SoundBackups, NewBackup \/ UNCHANGED backups
  PROVE  SoundBackups' /\ Further
<1>1. CASE UNCHANGED backups
  BY <1>1 DEF SoundBackups, Further
<1>2. CASE NewBackup
  <2>1. PICK y, n : n = Len(backups) /\ y = [pc |-> "dump", first |-> 0, second |-> 0, object |-> 0,
                                             hasPostgres |-> FALSE, hasFileStore |-> FALSE]
    OBVIOUS
  <2>2. y \in BackupRow /\ Sound(y) /\ backups' = Append(backups, y)
    BY <1>2, <2>1 DEF BackupRow, Sound, NewBackup
  <2>3. n \in Nat /\ DOMAIN backups = 1..n /\ backups \in Seq(BackupRow)
    BY <2>1, LenProperties DEF SoundBackups
  <2>4. backups' \in Seq(BackupRow) /\ Len(backups') = n + 1 /\ backups'[n + 1] = y /\ \A i \in 1..n : backups'[i] = backups[i]
    BY <2>1, <2>2, <2>3, AppendProperties
  <2>5. DOMAIN backups' = 1..(n + 1)
    BY <2>4, LenProperties
  <2>6. Further
    BY <2>3, <2>4, <2>5 DEF Further
  <2>7. ASSUME NEW i \in DOMAIN backups' PROVE Sound(backups'[i])
    <3>1. CASE i = n + 1
      BY <2>2, <2>4, <3>1
    <3>2. CASE i # n + 1
      <4>1. i \in 1..n
        BY <2>3, <2>5, <3>2
      <4> QED BY <2>3, <2>4, <4>1 DEF SoundBackups
    <3> QED BY <3>1, <3>2
  <2> QED BY <2>4, <2>6, <2>7 DEF SoundBackups
<1> QED BY <1>1, <1>2

\* A step of a backup that is not done.
LEMMA BackupGoesOn ==
  ASSUME BackupInv, NEW b \in DOMAIN backups, backups[b].pc # "done", NEW y \in BackupRow, Sound(y), SetBackup(b, y)
  PROVE  BackupInv'
<1>1. backups' = [backups EXCEPT ![b] = y] /\ UNCHANGED <<up, dataVars, restore, cronVars, used>>
  BY DEF SetBackup
<1>2. backups' \in Seq(BackupRow) /\ DOMAIN backups' = DOMAIN backups /\ backups'[b] = y
      /\ \A i \in DOMAIN backups \ {b} : backups'[i] = backups[i]
  BY <1>1, ExceptSeq, LenProperties DEF BackupInv, SoundBackups
<1>3. SoundBackups'
  BY <1>2 DEF BackupInv, SoundBackups
<1>4. Further
  BY <1>2 DEF Further
<1>5. SoundRestores'
  BY <1>1, <1>4, RestoresStay DEF BackupInv
<1> QED BY <1>1, <1>3, <1>5 DEF BackupInv, SoundData, SoundSchedule, OneSchedule, dataVars, cronVars

LEMMA BackupSteps ==
  ASSUME BackupInv, NEW b \in DOMAIN backups,
         Dump(b) \/ SqlDump(b) \/ SqlDumpNext(b) \/ CopyFiles(b) \/ WriteManifest(b) \/ BackupFails(b)
  PROVE  BackupInv'
<1>1. PICK x, n, m, f : x = backups[b] /\ data = <<n, m>> /\ n \in Nat \ {0} /\ m \in Nat \ {0} /\ f = files /\ f \in Nat
  BY DEF BackupInv, SoundData
<1>2. x \in BackupRow /\ Sound(x) /\ data[1] = n /\ data[2] = m /\ up \in BOOLEAN
  BY <1>1, ElementOfSeq, LenProperties DEF BackupInv, SoundBackups
<1>3. CASE Dump(b)
  <2>1. PICK y, z : y = [x EXCEPT !.pc = "files", !.first = n, !.second = m] /\ z = [x EXCEPT !.pc = "files"]
    OBVIOUS
  <2>2. x.pc = "dump" /\ y \in BackupRow /\ z \in BackupRow /\ y.pc = "files" /\ y.first = n /\ y.second = m
        /\ z.pc = "files" /\ z.first = x.first /\ z.second = x.second
    BY <1>1, <1>2, <1>3, <2>1 DEF Dump, InBackup, BackupRow
  <2>3. Sound(y) /\ Sound(z)
    BY <1>1, <1>2, <2>2 DEF Sound
  <2>4. SetBackup(b, y) \/ SetBackup(b, z)
    BY <1>1, <1>2, <1>3, <2>1 DEF Dump
  <2> QED BY <1>1, <2>2, <2>3, <2>4, BackupGoesOn
<1>4. CASE SqlDump(b)
  <2>1. PICK y : y = [x EXCEPT !.pc = "sql", !.first = n]
    OBVIOUS
  <2>2. x.pc = "dump" /\ y \in BackupRow /\ y.pc = "sql" /\ y.first = n
    BY <1>1, <1>2, <1>4, <2>1 DEF SqlDump, InBackup, BackupRow
  <2>3. Sound(y) /\ SetBackup(b, y)
    BY <1>1, <1>2, <1>4, <2>1, <2>2 DEF Sound, SqlDump
  <2> QED BY <1>1, <2>2, <2>3, BackupGoesOn
<1>5. CASE SqlDumpNext(b)
  <2>1. PICK y : y = [x EXCEPT !.pc = "files", !.second = m]
    OBVIOUS
  <2>2. x.pc = "sql" /\ y \in BackupRow /\ y.pc = "files" /\ y.first = x.first /\ y.second = m
    BY <1>1, <1>2, <1>5, <2>1 DEF SqlDumpNext, InBackup, BackupRow
  <2>3. Sound(y) /\ SetBackup(b, y)
    BY <1>1, <1>2, <1>5, <2>1, <2>2 DEF Sound, SqlDumpNext
  <2> QED BY <1>1, <2>2, <2>3, BackupGoesOn
<1>6. CASE CopyFiles(b)
  <2>1. PICK y : y = [x EXCEPT !.pc = "manifest", !.object = IF up THEN f ELSE 0]
    OBVIOUS
  <2>2. x.pc = "files" /\ y \in BackupRow /\ y.pc = "manifest" /\ y.first = x.first /\ y.second = x.second
    BY <1>1, <1>2, <1>6, <2>1 DEF CopyFiles, InBackup, BackupRow
  <2>3. Sound(y) /\ SetBackup(b, y)
    BY <1>1, <1>2, <1>6, <2>1, <2>2 DEF Sound, CopyFiles
  <2> QED BY <1>1, <2>2, <2>3, BackupGoesOn
<1>7. CASE WriteManifest(b)
  <2>1. PICK y : y = [x EXCEPT !.pc = "done", !.hasPostgres = up, !.hasFileStore = up]
    OBVIOUS
  <2>2. x.pc = "manifest" /\ y \in BackupRow /\ y.pc = "done" /\ y.first = x.first /\ y.second = x.second
    BY <1>1, <1>2, <1>7, <2>1 DEF WriteManifest, InBackup, BackupRow
  <2>3. Sound(y) /\ SetBackup(b, y)
    BY <1>1, <1>2, <1>7, <2>1, <2>2 DEF Sound, WriteManifest
  <2> QED BY <1>1, <2>2, <2>3, BackupGoesOn
<1>8. CASE BackupFails(b)
  <2>1. PICK y : y = [x EXCEPT !.pc = "failed"]
    OBVIOUS
  <2>2. x.pc # "done" /\ y \in BackupRow /\ y.pc = "failed"
    BY <1>1, <1>2, <1>8, <2>1 DEF BackupFails, BackupRow
  <2>3. Sound(y) /\ SetBackup(b, y)
    BY <1>1, <1>8, <2>1, <2>2 DEF Sound, BackupFails
  <2> QED BY <1>1, <2>2, <2>3, BackupGoesOn
<1> QED BY <1>3, <1>4, <1>5, <1>6, <1>7, <1>8

\* Steps of one restore, which is at x afterwards.
LEMMA RestoreGoesOn ==
  ASSUME BackupInv, NEW r \in Restorers, NEW pc, NEW b \in DOMAIN backups, SetRestore(r, pc, b),
         pc \in {"psql", "save"} => backups[b].pc = "done", pc = "psql" => backups[b].first # 0,
         used' \subseteq used \cup {b}, used' # used => backups[b].pc = "done", UNCHANGED backups
  PROVE  SoundRestores'
<1>1. PICK x : x = [pc |-> IF pc \in {"psql", "save"} THEN pc ELSE "idle", of |-> IF pc \in {"psql", "save"} THEN b ELSE 0]
  OBVIOUS
<1>2. b \in Nat
  BY LenProperties DEF BackupInv, SoundBackups
<1>3. x \in [pc : {"idle", "psql", "save"}, of : Nat] /\ (x.pc # "idle" => x.pc = pc /\ x.of = b)
  BY <1>1, <1>2
<1>4. restore' = [restore EXCEPT ![r] = x]
  BY <1>1 DEF SetRestore
<1>5. restore' \in [Restorers -> [pc : {"idle", "psql", "save"}, of : Nat]]
      /\ restore'[r] = x /\ \A q \in Restorers \ {r} : restore'[q] = restore[q]
  BY <1>3, <1>4 DEF BackupInv, SoundRestores
<1>6. ASSUME NEW q \in Restorers
      PROVE  /\ restore'[q].pc # "idle" => restore'[q].of \in DOMAIN backups /\ backups[restore'[q].of].pc = "done"
             /\ restore'[q].pc = "psql" => backups[restore'[q].of].first # 0
  BY <1>3, <1>5 DEF BackupInv, SoundRestores
<1>7. used' \subseteq DOMAIN backups /\ \A c \in used' : backups[c].pc = "done"
  BY DEF BackupInv, SoundRestores
<1> QED BY <1>5, <1>6, <1>7 DEF SoundRestores

LEMMA RestoreSteps ==
  ASSUME BackupInv, NEW r \in Restorers,
         (\E b \in DOMAIN backups : BeginRestore(r, b)) \/ Psql(r) \/ Save(r) \/ RestoreFails(r)
  PROVE  BackupInv'
<1>1. UNCHANGED <<up, written, backups, cronVars>>
  BY DEF BeginRestore, Psql, Save, RestoreFails, dataVars
<1>2. SoundBackups' /\ SoundSchedule' /\ up' \in BOOLEAN
  BY <1>1 DEF BackupInv, SoundBackups, SoundSchedule, OneSchedule, cronVars
<1>3. ASSUME NEW b \in DOMAIN backups, BeginRestore(r, b) PROVE SoundRestores' /\ SoundData'
  <2>1. PICK pc : pc = IF backups[b].hasPostgres /\ backups[b].first # 0 THEN "psql" ELSE AfterPsql(b)
    OBVIOUS
  <2>2. SetRestore(r, pc, b) /\ backups[b].pc = "done" /\ UNCHANGED <<dataVars, used>>
    BY <1>3, <2>1 DEF BeginRestore, Restorable, InBackup
  <2>3. pc = "psql" => backups[b].first # 0
    BY <2>1 DEF AfterPsql
  <2>4. SoundRestores'
    BY <1>1, <2>2, <2>3, RestoreGoesOn
  <2> QED BY <2>2, <2>4 DEF BackupInv, SoundData, dataVars
<1>4. CASE Psql(r)
  <2>1. PICK b : b = restore[r].of
    OBVIOUS
  <2>2. b \in DOMAIN backups /\ backups[b].pc = "done" /\ backups[b].first # 0
    BY <1>4, <2>1 DEF BackupInv, SoundRestores, Psql
  <2>3. PICK pc \in {AfterPsql(b), "failed"} : SetRestore(r, pc, b)
    BY <1>4, <2>1 DEF Psql
  <2>4. pc # "psql" /\ used' = used \cup {b}
    BY <1>4, <2>1, <2>3 DEF AfterPsql, Psql
  <2>5. SoundRestores'
    BY <1>1, <2>2, <2>3, <2>4, RestoreGoesOn
  <2>6. backups[b] \in BackupRow /\ Sound(backups[b])
    BY <2>2, ElementOfSeq, LenProperties DEF BackupInv, SoundBackups
  <2>7. PICK n, m : n = backups[b].first /\ m = backups[b].second
    OBVIOUS
  <2>8. n \in Nat \ {0} /\ m \in Nat \ {0}
    BY <2>2, <2>6, <2>7 DEF BackupRow, Sound
  <2>9. data' = <<n, m>> /\ UNCHANGED <<written, files>>
    BY <1>4, <2>1, <2>7 DEF Psql
  <2>10. SoundData'
    BY <2>8, <2>9 DEF BackupInv, SoundData
  <2> QED BY <1>2, <2>5, <2>10 DEF BackupInv
<1>5. CASE Save(r)
  <2>1. PICK b : b = restore[r].of
    OBVIOUS
  <2>2. b \in DOMAIN backups /\ backups[b].pc = "done"
    BY <1>5, <2>1 DEF BackupInv, SoundRestores, Save
  <2>3. SetRestore(r, "answered", b) /\ used' = used \cup {b} /\ UNCHANGED <<written, data>>
        /\ files' = IF backups[b].object # 0 THEN backups[b].object ELSE files
    BY <1>5, <2>1 DEF Save
  <2>4. SoundRestores'
    BY <1>1, <2>2, <2>3, RestoreGoesOn
  <2>5. backups[b] \in BackupRow
    BY <2>2, ElementOfSeq, LenProperties DEF BackupInv, SoundBackups
  <2>6. files' \in Nat
    BY <2>3, <2>5 DEF BackupInv, SoundData, BackupRow
  <2>7. SoundData'
    BY <2>3, <2>6 DEF BackupInv, SoundData
  <2> QED BY <1>2, <2>4, <2>7 DEF BackupInv
<1>6. CASE RestoreFails(r)
  <2>1. PICK x : x = [pc |-> "idle", of |-> 0]
    OBVIOUS
  <2>2. restore' = [restore EXCEPT ![r] = x] /\ UNCHANGED <<dataVars, used>> /\ x.pc = "idle"
        /\ x \in [pc : {"idle", "psql", "save"}, of : Nat]
    BY <1>6, <2>1 DEF RestoreFails, SetRestore
  <2>3. SoundRestores'
    BY <1>1, <2>2 DEF BackupInv, SoundRestores
  <2>4. SoundData'
    BY <2>2 DEF BackupInv, SoundData, dataVars
  <2> QED BY <1>2, <2>3, <2>4 DEF BackupInv
<1> QED BY <1>2, <1>3, <1>4, <1>5, <1>6 DEF BackupInv

\* Schedules, writes, stops and starts, and requests for a backup.
LEMMA OtherBackupSteps ==
  ASSUME BackupInv,
         \/ ClientWrites \/ ScheduleBackup \/ CancelScheduledBackup \/ StopServer \/ StartServer \/ RequestBackup
         \/ \E k \in 1..crons : Boundary(k) \/ Tick(k)
  PROVE  BackupInv'
<1>1. UNCHANGED <<restore, used>> /\ (NewBackup \/ UNCHANGED backups)
  BY DEF ClientWrites, ScheduleBackup, CancelScheduledBackup, StopServer, StartServer, RequestBackup, Boundary, Tick,
     RunDue, dataVars, cronVars
<1>2. SoundBackups' /\ Further
  BY <1>1, BackupBegins DEF BackupInv
<1>3. SoundRestores'
  BY <1>1, <1>2, RestoresStay DEF BackupInv
<1>4. up' \in BOOLEAN
  BY DEF BackupInv, ClientWrites, ScheduleBackup, CancelScheduledBackup, StopServer, StartServer, RequestBackup, Boundary, Tick
<1>5. SoundData'
  <2>1. CASE ClientWrites
    BY <2>1 DEF BackupInv, SoundData, ClientWrites
  <2>2. CASE UNCHANGED dataVars
    BY <2>2 DEF BackupInv, SoundData, dataVars
  <2> QED BY <2>1, <2>2 DEF ScheduleBackup, CancelScheduledBackup, StopServer, StartServer, RequestBackup, Boundary, Tick
<1>6. SoundSchedule'
  <2>1. crons \in Nat /\ schedule \in 0..crons /\ starting \cup ticking = {schedule} \ {0} /\ starting \cap ticking = {}
    BY DEF BackupInv, SoundSchedule, OneSchedule
  <2>2. CASE ScheduleBackup
    <3>1. PICK n : n = crons + 1
      OBVIOUS
    <3>2. n \in Nat /\ n # 0 /\ crons' = n /\ schedule' = n /\ starting' = {n} /\ ticking' = {} /\ n \in 0..n
      BY <2>1, <2>2, <3>1 DEF ScheduleBackup, Stopped
    <3> QED BY <3>2 DEF SoundSchedule, OneSchedule
  <2>3. CASE CancelScheduledBackup \/ StopServer
    <3>1. schedule' = 0 /\ starting' = {} /\ ticking' = {} /\ crons' = crons /\ 0 \in 0..crons
      BY <2>1, <2>3 DEF CancelScheduledBackup, StopServer, Stopped
    <3> QED BY <2>1, <3>1 DEF SoundSchedule, OneSchedule
  <2>4. CASE \E k \in 1..crons : Boundary(k)
    <3>1. PICK k \in 1..crons : Boundary(k)
      BY <2>4
    <3>2. starting' = starting \ {k} /\ ticking' = ticking \cup {k} /\ k \in starting /\ UNCHANGED <<schedule, crons>>
      BY <3>1 DEF Boundary
    <3> QED BY <2>1, <3>2 DEF SoundSchedule, OneSchedule
  <2>5. CASE UNCHANGED cronVars
    BY <2>1, <2>5 DEF SoundSchedule, OneSchedule, cronVars
  <2> QED BY <2>2, <2>3, <2>4, <2>5 DEF ClientWrites, StartServer, RequestBackup, Tick
<1> QED BY <1>2, <1>3, <1>4, <1>5, <1>6 DEF BackupInv

LEMMA BackupInitKeeps == BackupInit => BackupInv
<1> SUFFICES ASSUME BackupInit PROVE BackupInv
  OBVIOUS
<1>1. backups \in Seq(BackupRow) /\ DOMAIN backups = {}
  BY EmptySeq, LenProperties DEF BackupInit
<1>2. SoundBackups /\ SoundRestores
  BY <1>1 DEF BackupInit, SoundBackups, SoundRestores
<1>3. SoundData /\ SoundSchedule /\ up \in BOOLEAN
  BY DEF BackupInit, SoundData, SoundSchedule, OneSchedule
<1> QED BY <1>2, <1>3 DEF BackupInv

LEMMA BackupNextKeeps == BackupInv /\ [BackupNext]_backupVars => BackupInv'
<1> SUFFICES ASSUME BackupInv, [BackupNext]_backupVars PROVE BackupInv'
  OBVIOUS
<1>1. CASE UNCHANGED backupVars
  BY <1>1 DEF backupVars, dataVars, cronVars, BackupInv, SoundBackups, SoundData, SoundRestores, SoundSchedule, OneSchedule
<1> QED BY <1>1, BackupSteps, RestoreSteps, OtherBackupSteps DEF BackupNext

\* Only a backup that ran to its end is restored, with all tables of its dump or none,
\* whatever backups, writes, stops and restores overlap it; and timers run for the one
\* schedule in force.
THEOREM BackupsAreComplete == BackupSpec => []BackupsHold
<1>1. BackupInv => BackupsHold
  <2> SUFFICES ASSUME BackupInv PROVE BackupsHold
    OBVIOUS
  <2>1. RestoresAreComplete
    BY DEF BackupInv, SoundBackups, SoundRestores, Sound, RestoresAreComplete
  <2>2. OneSchedule
    BY DEF BackupInv, SoundSchedule
  <2> QED BY <2>1, <2>2 DEF BackupsHold
<1> QED BY <1>1, BackupInitKeeps, BackupNextKeeps, PTL DEF BackupSpec

(***************************************************************************)
(* The client library's sockets.                                           *)
(*                                                                         *)
(* A socket joins with the credentials of the moment, so one that outlived *)
(* a change of them would go on under the old ones.  The invariant says of *)
(* every socket that is not closing: only the current one has joined, and  *)
(* its URL and its joins have the token of now; one that still connects    *)
(* has joined nothing, so it may be replaced.                              *)
(***************************************************************************)
SocketRow == [state : {"connecting", "open", "closing", "closed"},
              by : {"connect", "subscribe"}, auth : SessionIds, joined : SUBSET SessionIds]

\* The socket s, when k is the current one, a the token and h says whether the heartbeat runs.
Row(s, x, k, a, h) == x.state \in {"connecting", "open"} =>
    /\ s # k => x.joined = {}
    /\ s = k => x.auth = a /\ x.joined \subseteq {a}
    /\ s = k /\ (x.state = "open" \/ x.by = "connect") => h
    /\ x.state = "connecting" => x.joined = {}
Rows(t, k, a, h) == t \in Seq(SocketRow) /\ k \in 0..Len(t) /\ \A s \in DOMAIN t : Row(s, t[s], k, a, h)

SdkInv ==
    /\ answered \in SessionIds /\ session \in 0..answered /\ authToken \in 0..answered
    /\ asking \in [AuthCalls -> [op : AuthOps \cup {"nothing"}, of : 0..answered]]
    /\ heartbeat \in BOOLEAN
    /\ Rows(sockets, socket, authToken, heartbeat)

\* What may change with the socket s: with the current one all, but no other takes its place.
Admitted(s, k, l, a, b, h, g) == (s = k /\ l \in {0, k}) \/ (l = k /\ b = a /\ (h => g))

\* A change of one socket: of the current one, which may be let go, or of any with the rest as it was.
LEMMA ChangedRow ==
  ASSUME NEW t, NEW k, NEW a, NEW h, Rows(t, k, a, h), NEW s \in DOMAIN t, NEW y \in SocketRow,
         NEW l, NEW b, NEW g, Row(s, y, l, b, g), Admitted(s, k, l, a, b, h, g)
  PROVE  Rows([t EXCEPT ![s] = y], l, b, g)
<1>1. PICK u : u = [t EXCEPT ![s] = y]
  OBVIOUS
<1>2. u \in Seq(SocketRow) /\ Len(u) = Len(t) /\ DOMAIN u = DOMAIN t /\ u[s] = y
      /\ \A i \in DOMAIN t \ {s} : u[i] = t[i]
  BY <1>1, ExceptSeq, LenProperties DEF Rows
<1>3. DOMAIN t = 1..Len(t) /\ Len(t) \in Nat
  BY LenProperties DEF Rows
<1>4. \A i \in DOMAIN u : Row(i, u[i], l, b, g)
  <2> SUFFICES ASSUME NEW i \in DOMAIN t, i # s PROVE Row(i, t[i], l, b, g)
    BY <1>2
  <2>1. Row(i, t[i], k, a, h) /\ i # 0
    BY <1>3 DEF Rows
  <2> QED BY <2>1 DEF Row, Admitted
<1> QED BY <1>1, <1>2, <1>3, <1>4 DEF Rows, Admitted

LEMMA RowsJoined ==
  ASSUME NEW t, NEW h, Rows(t, socket, authToken, h), authToken \in SessionIds
  PROVE  Rows(Join(t), socket, authToken, h)
<1>1. CASE ~(socket # 0 /\ t[socket].state = "open")
  BY <1>1 DEF Join
<1>2. CASE socket # 0 /\ t[socket].state = "open"
  <2>1. socket \in DOMAIN t /\ t[socket] \in SocketRow
    BY <1>2, LenProperties, ElementOfSeq DEF Rows
  <2>2. PICK x, y : x = t[socket] /\ y = [x EXCEPT !.joined = @ \cup {authToken}]
    OBVIOUS
  <2>3. y \in SocketRow /\ y.state = "open" /\ y.auth = x.auth /\ y.by = x.by /\ y.joined = x.joined \cup {authToken}
    BY <1>2, <2>1, <2>2 DEF SocketRow
  <2>4. Row(socket, x, socket, authToken, h)
    BY <2>1, <2>2 DEF Rows
  <2>5. Row(socket, y, socket, authToken, h)
    BY <1>2, <2>2, <2>3, <2>4 DEF Row
  <2>6. Join(t) = [t EXCEPT ![socket] = y]
    BY <1>2, <2>2 DEF Join
  <2>7. Rows([t EXCEPT ![socket] = y], socket, authToken, h)
    <3>1. Admitted(socket, socket, socket, authToken, authToken, h, h)
      BY DEF Admitted
    <3> QED BY <2>1, <2>3, <2>5, <3>1, ChangedRow
  <2> QED BY <2>6, <2>7
<1> QED BY <1>1, <1>2

LEMMA AddedRow ==
  ASSUME SdkInv, NEW maker \in {"connect", "subscribe"}, NewSocket(maker), UNCHANGED authToken,
         StateOf(socket) # "open", maker = "connect" => heartbeat'
  PROVE  Rows(sockets, socket, authToken, heartbeat)'
<1>1. PICK y, n : y = [state |-> "connecting", by |-> maker, auth |-> authToken, joined |-> {}] /\ n = Len(sockets) + 1
  OBVIOUS
<1>2. y \in SocketRow /\ y.state = "connecting" /\ y.by = maker /\ y.auth = authToken /\ y.joined = {}
  BY <1>1, SdkBounds DEF SdkInv, SessionIds, SocketRow
<1>3. sockets \in Seq(SocketRow) /\ Len(sockets) \in Nat /\ DOMAIN sockets = 1..Len(sockets)
  BY LenProperties DEF SdkInv, Rows
<1>4. sockets' = Append(sockets, y) /\ socket' = n
  BY <1>1 DEF NewSocket
<1>5. /\ sockets' \in Seq(SocketRow) /\ Len(sockets') = n /\ sockets'[n] = y
      /\ \A i \in 1..Len(sockets) : sockets'[i] = sockets[i]
  BY <1>1, <1>2, <1>3, <1>4, AppendProperties
<1>6. DOMAIN sockets' = 1..n
  BY <1>5, LenProperties
<1>7. \A i \in DOMAIN sockets' : Row(i, sockets'[i], n, authToken', heartbeat')
  <2> SUFFICES ASSUME NEW i \in DOMAIN sockets' PROVE Row(i, sockets'[i], n, authToken', heartbeat')
    OBVIOUS
  <2>1. CASE i = n
    BY <1>2, <1>5, <2>1 DEF Row
  <2>2. CASE i # n
    <3>1. i \in 1..Len(sockets) /\ sockets'[i] = sockets[i]
      BY <1>1, <1>3, <1>5, <1>6, <2>2
    <3>2. Row(i, sockets[i], socket, authToken, heartbeat)
      BY <1>3, <3>1 DEF SdkInv, Rows
    <3>3. i = socket => sockets[i].state # "open"
      BY <1>3, <3>1 DEF StateOf
    <3> QED BY <2>2, <3>1, <3>2, <3>3 DEF Row
  <2> QED BY <2>1, <2>2
<1>8. n \in 0..n
  BY <1>1, <1>3
<1> QED BY <1>4, <1>5, <1>7, <1>8 DEF Rows

\* What is known of a socket.
LEMMA RowOf ==
  ASSUME SdkInv, NEW s \in 0..Len(sockets), s # 0
  PROVE  /\ s \in DOMAIN sockets /\ sockets[s] \in SocketRow /\ StateOf(s) = sockets[s].state
         /\ Row(s, sockets[s], socket, authToken, heartbeat)
<1>1. sockets \in Seq(SocketRow) /\ Len(sockets) \in Nat /\ DOMAIN sockets = 1..Len(sockets)
  BY LenProperties DEF SdkInv, Rows
<1>2. s \in DOMAIN sockets
  BY <1>1
<1>3. sockets[s] \in SocketRow
  BY <1>1, <1>2, ElementOfSeq
<1> QED BY <1>2, <1>3 DEF SdkInv, Rows, StateOf

\* New credentials: the socket that has the old ones is closed.
LEMMA SetAuthRows ==
  ASSUME SdkInv, NEW t, SetAuth(t)
  PROVE  Rows(sockets, socket, authToken, heartbeat)' /\ heartbeat' \in BOOLEAN
<1>0. UNCHANGED socket /\ authToken' = t /\ heartbeat \in BOOLEAN /\ socket \in 0..Len(sockets)
  BY DEF SetAuth, SdkInv, Rows
<1>1. CASE StateOf(socket) \in {"connecting", "open"}
  <2>1. socket # 0
    BY <1>1 DEF StateOf
  <2>2. socket \in DOMAIN sockets /\ sockets[socket] \in SocketRow
    BY <1>0, <2>1, RowOf
  <2>3. PICK y : y = [sockets[socket] EXCEPT !.state = "closing"]
    OBVIOUS
  <2>4. y \in SocketRow /\ y.state = "closing"
    BY <2>2, <2>3 DEF SocketRow
  <2>5. sockets' = [sockets EXCEPT ![socket] = y] /\ heartbeat' = FALSE
    BY <1>1, <2>3 DEF SetAuth
  <2>0. PICK off : off = FALSE
    OBVIOUS
  <2>6. Row(socket, y, socket, t, off)
    BY <2>4 DEF Row
  <2>7. Rows([sockets EXCEPT ![socket] = y], socket, t, off)
    <3>1. Rows(sockets, socket, authToken, heartbeat)
      BY DEF SdkInv
    <3>2. Admitted(socket, socket, socket, authToken, t, heartbeat, off)
      BY DEF Admitted
    <3> QED BY <2>2, <2>4, <2>6, <3>1, <3>2, ChangedRow
  <2> QED BY <1>0, <2>0, <2>5, <2>7
<1>2. CASE StateOf(socket) \notin {"connecting", "open"}
  <2>1. UNCHANGED <<sockets, heartbeat>>
    BY <1>2 DEF SetAuth
  <2>2. ASSUME NEW s \in DOMAIN sockets PROVE Row(s, sockets[s], socket, t, heartbeat)
    <3>1. s \in 0..Len(sockets) /\ s # 0
      BY LenProperties DEF SdkInv, Rows
    <3>2. Row(s, sockets[s], socket, authToken, heartbeat) /\ StateOf(s) = sockets[s].state
      BY <3>1, RowOf
    <3> QED BY <1>2, <3>2 DEF Row
  <2>3. Rows(sockets, socket, t, heartbeat)
    BY <2>2 DEF SdkInv, Rows
  <2> QED BY <1>0, <2>1, <2>3
<1> QED BY <1>1, <1>2

LEMMA AuthKeeps ==
  ASSUME SdkInv, NEW a \in AuthCalls,
         (\E op \in AuthOps : Ask(a, op)) \/ NewSession(a) \/ Verified(a) \/ CookieSession(a) \/ SignedOut(a) \/ AuthFails(a)
  PROVE  SdkInv'
<1>1. /\ asking \in [AuthCalls -> [op : AuthOps \cup {"nothing"}, of : 0..answered]] /\ answered \in 0..MaxSession
      /\ session \in 0..answered /\ authToken \in 0..answered /\ asking[a].of \in 0..answered
      /\ Rows(sockets, socket, authToken, heartbeat) /\ heartbeat \in BOOLEAN
  BY DEF SdkInv, SessionIds
<1>2. answered' \in {answered, answered + 1} /\ answered' \in 0..MaxSession
  BY <1>1, SdkBounds DEF Ask, NewSession, Verified, CookieSession, SignedOut, AuthFails, AuthOps
<1>3. 0..answered \subseteq 0..answered'
  BY <1>1, <1>2, SdkBounds
<1>4. session' \in 0..answered'
  BY <1>1, <1>2, <1>3, SdkBounds DEF Ask, NewSession, Verified, CookieSession, SignedOut, AuthFails, AuthOps
<1>5. authToken' \in 0..answered'
  BY <1>1, <1>2, <1>3, SdkBounds DEF Ask, NewSession, Verified, CookieSession, SignedOut, AuthFails, SetAuth
<1>6. asking' \in [AuthCalls -> [op : AuthOps \cup {"nothing"}, of : 0..answered']]
  <2>1. PICK q : q \in [op : AuthOps \cup {"nothing"}, of : 0..answered'] /\ asking' = [asking EXCEPT ![a] = q]
    <3>1. Nothing \in [op : AuthOps \cup {"nothing"}, of : 0..answered']
      BY <1>1, <1>3 DEF Nothing
    <3>2. CASE \E op \in AuthOps : Ask(a, op)
      <4>1. PICK op \in AuthOps : Ask(a, op)
        BY <3>2
      <4>2. PICK v : v = IF op \in {"renew", "signOut"} THEN 0 ELSE session'
        OBVIOUS
      <4>3. v \in 0..answered' /\ asking' = [asking EXCEPT ![a] = [op |-> op, of |-> v]]
        BY <1>1, <1>3, <1>4, <4>1, <4>2 DEF Ask
      <4> QED BY <4>3
    <3> QED BY <3>1, <3>2 DEF NewSession, Verified, CookieSession, SignedOut, AuthFails, Answered
  <2>2. [op : AuthOps \cup {"nothing"}, of : 0..answered] \subseteq [op : AuthOps \cup {"nothing"}, of : 0..answered']
    BY <1>3
  <2> HIDE DEF AuthOps
  <2> QED BY <1>1, <2>1, <2>2
<1>7. Rows(sockets, socket, authToken, heartbeat)' /\ heartbeat' \in BOOLEAN
  <2>1. CASE UNCHANGED <<authToken, sockets, socket, heartbeat>>
    BY <1>1, <2>1
  <2>2. CASE \E t : SetAuth(t)
    BY <2>2, SetAuthRows
  <2> QED BY <2>1, <2>2 DEF Ask, NewSession, Verified, CookieSession, SignedOut, AuthFails, socketVars
<1> QED BY <1>2, <1>4, <1>5, <1>6, <1>7 DEF SdkInv, SessionIds

\* A step of the realtime client alone.
LEMMA RealtimeStep ==
  ASSUME SdkInv, UNCHANGED authVars, UNCHANGED authToken, heartbeat' \in BOOLEAN,
         Rows(sockets, socket, authToken, heartbeat)'
  PROVE  SdkInv'
BY DEF SdkInv, authVars

LEMMA ConnectKeeps ==
  ASSUME SdkInv, Connect \/ Disconnect
  PROVE  SdkInv'
<1>1. CASE Connect
  <2>1. NewSocket("connect") /\ heartbeat' = TRUE /\ UNCHANGED <<authVars, authToken>> /\ StateOf(socket) # "open"
    BY <1>1 DEF Connect
  <2>2. Rows(sockets, socket, authToken, heartbeat)'
    BY <2>1, AddedRow
  <2> QED BY <2>1, <2>2, RealtimeStep
<1>2. CASE Disconnect
  <2>1. socket # 0 /\ socket' = 0 /\ heartbeat' = FALSE /\ UNCHANGED <<authVars, authToken>> /\ socket \in 0..Len(sockets)
    BY <1>2 DEF Disconnect, SdkInv, Rows
  <2>2. socket \in DOMAIN sockets /\ sockets[socket] \in SocketRow /\ StateOf(socket) = sockets[socket].state
    BY <2>1, RowOf
  <2>3. PICK y : y = IF StateOf(socket) = "closed" THEN sockets[socket] ELSE [sockets[socket] EXCEPT !.state = "closing"]
    OBVIOUS
  <2>4. y \in SocketRow /\ y.state \in {"closing", "closed"}
    BY <2>2, <2>3 DEF SocketRow
  <2>0. PICK off : off = FALSE
    OBVIOUS
  <2>5. Row(socket, y, 0, authToken, off)
    BY <2>4 DEF Row
  <2>6. Rows([sockets EXCEPT ![socket] = y], 0, authToken, off)
    <3>1. Rows(sockets, socket, authToken, heartbeat)
      BY DEF SdkInv
    <3>2. Admitted(socket, socket, 0, authToken, authToken, heartbeat, off)
      BY DEF Admitted
    <3> QED BY <2>2, <2>4, <2>5, <3>1, <3>2, ChangedRow
  <2>7. sockets' = [sockets EXCEPT ![socket] = y]
    BY <1>2, <2>3, LenProperties DEF Disconnect, SdkInv, Rows
  <2>8. Rows(sockets, socket, authToken, heartbeat)'
    BY <2>0, <2>1, <2>6, <2>7
  <2> QED BY <2>1, <2>8, RealtimeStep
<1> QED BY <1>1, <1>2

\* A socket that opens has its heartbeat, and whoever waited for it joins on the current one.
LEMMA OpensKeeps ==
  ASSUME SdkInv, NEW s \in DOMAIN sockets, Opens(s)
  PROVE  SdkInv'
<1>1. s \in 0..Len(sockets) /\ s # 0
  BY LenProperties DEF SdkInv, Rows
<1>2. PICK x, y, g : x = sockets[s] /\ y = [x EXCEPT !.state = "open"] /\ g = (heartbeat \/ x.by = "subscribe")
  OBVIOUS
<1>3. x \in SocketRow /\ x.state = "connecting" /\ Row(s, x, socket, authToken, heartbeat)
  BY <1>1, <1>2, RowOf DEF Opens
<1>4. y \in SocketRow /\ y.state = "open" /\ y.auth = x.auth /\ y.joined = x.joined
  BY <1>2, <1>3 DEF SocketRow
<1>5. Row(s, y, socket, authToken, g)
  BY <1>2, <1>3, <1>4 DEF Row, SocketRow
<1>6. PICK opened : opened = [sockets EXCEPT ![s] = y]
  OBVIOUS
<1>7. Rows(opened, socket, authToken, g)
  <2>1. Rows(sockets, socket, authToken, heartbeat)
    BY DEF SdkInv
  <2>2. Admitted(s, socket, socket, authToken, authToken, heartbeat, g)
    BY <1>2 DEF Admitted
  <2> QED BY <1>4, <1>5, <1>6, <2>1, <2>2, ChangedRow
<1>8. authToken \in SessionIds
  BY SdkBounds DEF SdkInv, SessionIds
<1>9. Rows(Join(opened), socket, authToken, g)
  BY <1>7, <1>8, RowsJoined
<1>10. sockets' \in {opened, Join(opened)} /\ heartbeat' = g /\ UNCHANGED <<authVars, authToken, socket>> /\ g \in BOOLEAN
  BY <1>2, <1>6 DEF Opens, SdkInv
<1>11. Rows(sockets, socket, authToken, heartbeat)'
  BY <1>7, <1>9, <1>10
<1> QED BY <1>10, <1>11, RealtimeStep

\* A socket is closed, a channel joins or leaves.
LEMMA ChannelsKeep ==
  ASSUME SdkInv, (\E s \in DOMAIN sockets : Closes(s)) \/ (\E c \in Channels : Subscribe(c) \/ Unsubscribe(c) \/ TimesOut(c))
  PROVE  SdkInv'
<1>1. Rows(sockets, socket, authToken, heartbeat) /\ heartbeat \in BOOLEAN /\ authToken \in SessionIds
  BY SdkBounds DEF SdkInv, SessionIds
<1>2. ASSUME NEW s \in DOMAIN sockets, Closes(s) PROVE SdkInv'
  <2>1. PICK y : y = [state |-> "closed", by |-> "connect", auth |-> 0, joined |-> {}]
    OBVIOUS
  <2>2. y \in SocketRow /\ y.state = "closed"
    BY <2>1, SdkBounds DEF SocketRow, SessionIds
  <2>3. Row(s, y, socket, authToken, heartbeat) /\ Admitted(s, socket, socket, authToken, authToken, heartbeat, heartbeat)
    BY <2>2 DEF Row, Admitted
  <2>4. Rows([sockets EXCEPT ![s] = y], socket, authToken, heartbeat)
    BY <1>1, <2>2, <2>3, ChangedRow
  <2>5. sockets' = [sockets EXCEPT ![s] = y] /\ UNCHANGED <<authVars, authToken, socket, heartbeat>>
    BY <1>2, <2>1 DEF Closes
  <2>6. Rows(sockets, socket, authToken, heartbeat)'
    BY <2>4, <2>5
  <2> QED BY <1>1, <2>5, <2>6, RealtimeStep
<1>3. ASSUME NEW c \in Channels, Subscribe(c) PROVE SdkInv'
  <2>1. UNCHANGED <<authVars, authToken, heartbeat>>
    BY <1>3 DEF Subscribe
  <2>2. CASE StateOf(socket) = "open"
    <3>1. sockets' = Join(sockets) /\ UNCHANGED socket
      BY <1>3, <2>2 DEF Subscribe
    <3>2. Rows(Join(sockets), socket, authToken, heartbeat)
      BY <1>1, RowsJoined
    <3>3. Rows(sockets, socket, authToken, heartbeat)'
      BY <2>1, <3>1, <3>2
    <3> QED BY <1>1, <2>1, <3>3, RealtimeStep
  <2>3. CASE StateOf(socket) # "open"
    <3>1. NewSocket("subscribe")
      BY <1>3, <2>3 DEF Subscribe
    <3>2. Rows(sockets, socket, authToken, heartbeat)'
      BY <2>1, <2>3, <3>1, AddedRow
    <3> QED BY <1>1, <2>1, <3>2, RealtimeStep
  <2> QED BY <2>2, <2>3
<1>4. ASSUME NEW c \in Channels, Unsubscribe(c) PROVE SdkInv'
  <2>1. UNCHANGED <<authVars, authToken, socket, heartbeat>>
    BY <1>4 DEF Unsubscribe
  <2>2. CASE c \in subscribed /\ StateOf(socket) = "open"
    <3>1. socket \in 0..Len(sockets) /\ socket # 0
      BY <1>1, <2>2 DEF Rows, StateOf
    <3>2. PICK x, y : x = sockets[socket] /\ y = [x EXCEPT !.joined = {}]
      OBVIOUS
    <3>3. x \in SocketRow /\ Row(socket, x, socket, authToken, heartbeat) /\ socket \in DOMAIN sockets
      BY <3>1, <3>2, RowOf
    <3>4. y \in SocketRow /\ y.state = x.state /\ y.by = x.by /\ y.auth = x.auth /\ y.joined = {}
      BY <3>2, <3>3 DEF SocketRow
    <3>5. Row(socket, y, socket, authToken, heartbeat)
      BY <3>3, <3>4 DEF Row
    <3>6. Admitted(socket, socket, socket, authToken, authToken, heartbeat, heartbeat)
      BY DEF Admitted
    <3>7. Rows([sockets EXCEPT ![socket] = y], socket, authToken, heartbeat)
      BY <1>1, <3>3, <3>4, <3>5, <3>6, ChangedRow
    <3>8. sockets' = [sockets EXCEPT ![socket] = y]
      BY <1>4, <2>2, <3>2 DEF Unsubscribe
    <3>9. Rows(sockets, socket, authToken, heartbeat)'
      BY <2>1, <3>7, <3>8
    <3> QED BY <1>1, <2>1, <3>9, RealtimeStep
  <2>3. CASE ~(c \in subscribed /\ StateOf(socket) = "open")
    <3>1. UNCHANGED sockets
      BY <1>4, <2>3 DEF Unsubscribe
    <3>2. Rows(sockets, socket, authToken, heartbeat)'
      BY <1>1, <2>1, <3>1
    <3> QED BY <1>1, <2>1, <3>2, RealtimeStep
  <2> QED BY <2>2, <2>3
<1>5. ASSUME NEW c \in Channels, TimesOut(c) PROVE SdkInv'
  <2>1. UNCHANGED <<authVars, authToken, sockets, socket, heartbeat>>
    BY <1>5 DEF TimesOut, socketVars
  <2> QED BY <1>1, <2>1, RealtimeStep
<1> QED BY <1>2, <1>3, <1>4, <1>5

LEMMA SdkInitKeeps == SdkInit => SdkInv
<1> SUFFICES ASSUME SdkInit PROVE SdkInv
  OBVIOUS
<1>1. sockets \in Seq(SocketRow) /\ Len(sockets) = 0 /\ DOMAIN sockets = {}
  BY EmptySeq, LenProperties DEF SdkInit
<1>2. Rows(sockets, socket, authToken, heartbeat) /\ heartbeat \in BOOLEAN
  <2>1. socket = 0 /\ 0 \in 0..Len(sockets) /\ heartbeat = FALSE
    BY <1>1 DEF SdkInit
  <2> QED BY <1>1, <2>1 DEF Rows
<1>3. answered \in SessionIds /\ session \in 0..answered /\ authToken \in 0..answered
  BY SdkBounds DEF SdkInit, SessionIds
<1>4. asking \in [AuthCalls -> [op : AuthOps \cup {"nothing"}, of : 0..answered]]
  <2>1. {[op |-> "nothing", of |-> 0], [op |-> "renew", of |-> 0]} \subseteq [op : AuthOps \cup {"nothing"}, of : 0..answered]
    BY DEF SdkInit, AuthOps
  <2> QED BY <2>1 DEF SdkInit
<1> QED BY <1>2, <1>3, <1>4 DEF SdkInv

LEMMA SdkNextKeeps == SdkInv /\ [SdkNext]_sdkVars => SdkInv'
<1> SUFFICES ASSUME SdkInv, [SdkNext]_sdkVars PROVE SdkInv'
  OBVIOUS
<1>1. CASE UNCHANGED sdkVars
  BY <1>1 DEF sdkVars, authVars, socketVars, SdkInv
<1> QED BY <1>1, AuthKeeps, ConnectKeeps, OpensKeeps, ChannelsKeep DEF SdkNext

\* Whatever is joined on an open socket is joined with the credentials of now, in any
\* order of sign-ins, sign-outs, replaced sockets and late answers; and the current one has a heartbeat.
THEOREM OldCredentialsStopAtOnce == SdkSpec => []OldCredentialsStop
<1>1. SdkInv => OldCredentialsStop
  <2> SUFFICES ASSUME SdkInv PROVE OldCredentialsStop
    OBVIOUS
  <2>1. ASSUME NEW s \in DOMAIN sockets, sockets[s].state = "open", sockets[s].joined # {}
        PROVE  sockets[s].auth = authToken /\ sockets[s].joined = {authToken}
    BY <2>1 DEF SdkInv, Rows, Row
  <2>2. StateOf(socket) = "open" => heartbeat
    BY RowOf DEF SdkInv, Rows, Row, StateOf
  <2> QED BY <2>1, <2>2 DEF OldCredentialsStop
<1> QED BY <1>1, SdkInitKeeps, SdkNextKeeps, PTL DEF SdkSpec

(***************************************************************************)
(* Rate limits.                                                            *)
(*                                                                         *)
(* A span as long as a window meets two windows at most, as one begins     *)
(* only when the last is over.  The invariant says so of the window that   *)
(* is open: what it let pass since it began, and what passed in a window's *)
(* length before (Within); of none, what passed in a window's length up to *)
(* now (NoneSince).  Sums over spans are differences of how many passed    *)
(* before each time, about which the lemmas are proved by induction.       *)
(***************************************************************************)

(***************************************************************************)
(* Induction.  What the library says of it takes predicates; this lemma    *)
(* takes a set, by way of the least element that it lacks.                 *)
(***************************************************************************)
Below == {p \in Nat \X Nat : p[1] < p[2]}

LEMMA LeastElement ==
  ASSUME NEW T \in SUBSET Nat, T # {}
  PROVE  \E x \in T : \A y \in T : x <= y
<1>1. IsWellFoundedOn(Below, Nat)
  BY NatLessThanWellFounded DEF OpToRel, Below
<1>2. PICK x \in T : \A y \in T : <<y, x>> \notin Below
  BY <1>1, WFMin
<1>3. ASSUME NEW y \in T PROVE x <= y
  <2>1. x \in Nat /\ y \in Nat
    OBVIOUS
  <2>2. y < x => <<y, x>> \in Below
    BY <2>1 DEF Below
  <2> QED BY <1>2, <2>1, <2>2
<1> QED BY <1>3

LEMMA Induction ==
  ASSUME NEW S, 0 \in S, \A n \in Nat : n \in S => n + 1 \in S
  PROVE  Nat \subseteq S
<1> SUFFICES ASSUME Nat \ S # {} PROVE FALSE
  OBVIOUS
<1>1. PICK x \in Nat \ S : \A y \in Nat \ S : x <= y
  BY LeastElement
<1>2. x # 0 /\ x - 1 \in Nat /\ x - 1 \in S
  BY <1>1
<1> QED BY <1>2

Sums(f, p, n) ==
    /\ f \in [0..n -> Nat] /\ f[0] = 0
    /\ \A t \in 1..n : f[t] = f[t - 1] + p[t - 1]

LEMMA SumsUpTo ==
  ASSUME NEW N \in Nat, NEW p \in [0..N -> Nat]
  PROVE  \E f : Sums(f, p, N + 1)
<1> DEFINE S == {n \in Nat : n <= N + 1 => \E f : Sums(f, p, n)}
<1>1. 0 \in S
  <2>1. Sums([t \in 0..0 |-> 0], p, 0)
    BY DEF Sums
  <2> QED BY <2>1
<1>2. ASSUME NEW n \in S PROVE n + 1 \in S
  <2> SUFFICES ASSUME n + 1 <= N + 1 PROVE \E f : Sums(f, p, n + 1)
    OBVIOUS
  <2>1. PICK f : Sums(f, p, n)
    OBVIOUS
  <2> DEFINE g == [t \in 0..(n + 1) |-> IF t = n + 1 THEN f[n] + p[n] ELSE f[t]]
  <2>2. n \in Nat /\ p[n] \in Nat /\ f[n] \in Nat
    BY <2>1 DEF Sums
  <2>3. g \in [0..(n + 1) -> Nat] /\ g[0] = 0
    BY <2>1, <2>2 DEF Sums
  <2>4. ASSUME NEW t \in 1..(n + 1) PROVE g[t] = g[t - 1] + p[t - 1]
    <3>1. CASE t = n + 1
      <4>1. g[t] = f[n] + p[n] /\ g[n] = f[n] /\ t - 1 = n
        BY <3>1, <2>2
      <4> QED BY <4>1
    <3>2. CASE t \in 1..n
      <4>1. g[t] = f[t] /\ g[t - 1] = f[t - 1]
        BY <3>2, <2>2
      <4> QED BY <4>1, <3>2, <2>1 DEF Sums
    <3> QED BY <3>1, <3>2, <2>2
  <2> HIDE DEF g
  <2>5. Sums(g, p, n + 1)
    BY <2>3, <2>4 DEF Sums
  <2> QED BY <2>5
<1>3. N + 1 \in S
  <2>1. Nat \subseteq S
    <3>1. \A n \in Nat : n \in S => n + 1 \in S
      BY <1>2
    <3> HIDE DEF S
    <3> QED BY <1>1, <3>1, Induction
  <2> QED BY <2>1
<1> QED BY <1>3

LEMMA PassedBeforeSums ==
  ASSUME NEW p \in [Times -> Nat]
  PROVE  Sums(PassedBefore(p), p, MaxTime + 1)
<1> DEFINE F(f) == [t \in 0..MaxTime + 1 |-> IF t = 0 THEN 0 ELSE f[t - 1] + p[t - 1]]
<1>1. PICK f : Sums(f, p, MaxTime + 1)
  BY SumsUpTo, LimitBounds DEF Times
<1>2. f = F(f)
  BY <1>1, LimitBounds DEF Sums
<1>3. PassedBefore(p) = F(PassedBefore(p))
  BY <1>2 DEF PassedBefore
<1> DEFINE g == PassedBefore(p)
<1>4. g = F(g)
  BY <1>3
<1> HIDE DEF g
<1> DEFINE S == {n \in Nat : n <= MaxTime + 1 => g[n] = f[n]}
<1>5. 0 \in S
  BY <1>1, <1>4, LimitBounds DEF Sums
<1>6. ASSUME NEW n \in S PROVE n + 1 \in S
  <2> SUFFICES ASSUME n + 1 <= MaxTime + 1 PROVE g[n + 1] = f[n + 1]
    OBVIOUS
  <2>1. n \in Nat /\ n \in 0..MaxTime + 1 /\ n + 1 \in 1..MaxTime + 1 /\ g[n] = f[n]
    BY LimitBounds
  <2>2. g[n + 1] = g[n] + p[n]
    BY <1>4, <2>1
  <2>3. f[n + 1] = f[n] + p[n]
    BY <1>1, <2>1 DEF Sums
  <2> QED BY <2>1, <2>2, <2>3
<1>7. \A n \in 0..MaxTime + 1 : g[n] = f[n]
  <2>1. Nat \subseteq S
    <3>1. \A n \in Nat : n \in S => n + 1 \in S
      BY <1>6
    <3> HIDE DEF S
    <3> QED BY <1>5, <3>1, Induction
  <2> QED BY <2>1
<1>8. g = f
  BY <1>1, <1>4, <1>7 DEF Sums
<1> QED BY <1>1, <1>8 DEF g

LEMMA SumsGrow ==
  ASSUME NEW n \in Nat, NEW f, NEW p \in [0..n -> Nat], Sums(f, p, n + 1)
  PROVE  \A a, b \in 0..n + 1 : a <= b => f[a] <= f[b]
<1> DEFINE S == {b \in Nat : b <= n + 1 => \A a \in 0..b : f[a] <= f[b]}
<1>1. 0 \in S
  BY DEF Sums
<1>2. ASSUME NEW b \in S PROVE b + 1 \in S
  <2> SUFFICES ASSUME b + 1 <= n + 1, NEW a \in 0..b + 1 PROVE f[a] <= f[b + 1]
    OBVIOUS
  <2>1. b \in Nat /\ b \in 0..n /\ b + 1 \in 1..n + 1 /\ a \in 0..n + 1 /\ (a = b + 1 \/ a \in 0..b)
    OBVIOUS
  <2>2. p[b] \in Nat /\ f[b] \in Nat /\ f[b + 1] = f[b] + p[b] /\ f[a] \in Nat
    BY <2>1 DEF Sums
  <2>3. a \in 0..b => f[a] <= f[b]
    BY <2>1
  <2> QED BY <2>1, <2>2, <2>3
<1>3. Nat \subseteq S
  <2>1. \A b \in Nat : b \in S => b + 1 \in S
    BY <1>2
  <2> HIDE DEF S
  <2> QED BY <1>1, <2>1, Induction
<1> QED BY <1>3

\* q has one more than p at the time n.
OneMoreAt(q, p, n, m) == \A t \in 0..m : q[t] = IF t = n THEN p[t] + 1 ELSE p[t]

LEMMA SumsPass ==
  ASSUME NEW m \in Nat, NEW f, NEW g, NEW p \in [0..m -> Nat], NEW n \in 0..m, Sums(f, p, m + 1),
         NEW q, OneMoreAt(q, p, n, m), Sums(g, q, m + 1)
  PROVE  \A t \in 0..m + 1 : g[t] = IF t > n THEN f[t] + 1 ELSE f[t]
<1> DEFINE Q(t) == g[t] = IF t > n THEN f[t] + 1 ELSE f[t]
           S == {t \in Nat : t <= m + 1 => Q(t)}
<1>1. 0 \in S
  BY DEF Sums
<1>2. ASSUME NEW t \in S PROVE t + 1 \in S
  <2> SUFFICES ASSUME t + 1 <= m + 1 PROVE Q(t + 1)
    OBVIOUS
  <2>1. t \in Nat /\ t \in 0..m /\ t + 1 \in 1..m + 1 /\ Q(t)
    OBVIOUS
  <2>2. f[t + 1] = f[t] + p[t] /\ p[t] \in Nat /\ f[t] \in Nat
    BY <2>1 DEF Sums
  <2>3. (t + 1) - 1 = t /\ g[t + 1] = g[t] + q[t] /\ q[t] = IF t = n THEN p[t] + 1 ELSE p[t]
    BY <2>1 DEF Sums, OneMoreAt
  <2>4. g[t] = IF t > n THEN f[t] + 1 ELSE f[t]
    BY <2>1
  <2>5. n \in Nat /\ (t + 1 > n <=> t > n \/ t = n) /\ ~(t > n /\ t = n)
    BY <2>1
  <2> HIDE DEF S
  <2> QED BY <2>2, <2>3, <2>4, <2>5
<1>3. Nat \subseteq S
  <2>1. \A t \in Nat : t \in S => t + 1 \in S
    BY <1>2
  <2> HIDE DEF S
  <2> QED BY <1>1, <2>1, Induction
<1> QED BY <1>3

(***************************************************************************)
(* The windows of one limiter, F being how many it let pass before each    *)
(* time.                                                                   *)
(***************************************************************************)
Total(F) == F[MaxTime + 1]
Moments == 0..MaxTime + 1
NoneAhead(F) == \A t \in Moments : t > now => F[t] = Total(F)
Spans(F) == \A t \in Times : F[SpanEnd(t)] - F[t] <= 2 * MaxAllowed
\* No window is open, and the last one has let pass what is still within a window's length.
NoneSince(F) == F[now] = Total(F) /\ \A t \in Times : t > now - Interval => Total(F) - F[t] <= MaxAllowed
\* In the window that began at s and lasts up to last, taken were let pass at most.
Within(F, s, taken, last) ==
    /\ s \in 0..now /\ last \in {s + Interval - 1, s + Interval} /\ taken \in 0..MaxAllowed
    /\ Total(F) - F[s] <= taken
    /\ \A t \in Times : t > s - Interval /\ t <= s => F[s] - F[t] <= MaxAllowed
    /\ \A t \in Moments : t > last => F[t] = Total(F)

Rises(F) == F \in [Moments -> Nat] /\ \A a, b \in Moments : a <= b => F[a] <= F[b]

LEMMA PassedRises == ASSUME NEW p \in [Times -> Nat] PROVE Rises(PassedBefore(p))
<1>1. Sums(PassedBefore(p), p, MaxTime + 1) /\ MaxTime \in Nat /\ p \in [0..MaxTime -> Nat]
  BY PassedBeforeSums, LimitBounds DEF Times
<1>2. \A a, b \in 0..MaxTime + 1 : a <= b => PassedBefore(p)[a] <= PassedBefore(p)[b]
  BY <1>1, SumsGrow
<1> QED BY <1>1, <1>2 DEF Rises, Moments, Sums

LEMMA Ended ==
  ASSUME now \in Times, NEW F, Rises(F), NEW s, NEW taken, NEW last, Within(F, s, taken, last), last < now
  PROVE  NoneSince(F)
<1>1. /\ now \in Nat /\ now \in Moments /\ s \in Nat /\ s \in Moments /\ now >= s + Interval /\ MaxTime + 1 \in Moments
      /\ MaxAllowed \in Nat /\ Interval \in Nat
  BY LimitBounds DEF Within, Times, Moments
<1>2. F[now] = Total(F) /\ Total(F) \in Nat /\ F[s] \in Nat
  BY <1>1 DEF Within, Rises, Total
<1>3. ASSUME NEW t \in Times, t > now - Interval PROVE Total(F) - F[t] <= MaxAllowed
  <2>1. t \in Moments /\ t \in Nat /\ t >= s
    BY <1>1, <1>3, LimitBounds DEF Times, Moments
  <2>2. F[s] <= F[t] /\ F[t] \in Nat
    BY <1>1, <2>1 DEF Rises
  <2>3. taken <= MaxAllowed /\ taken \in Nat /\ Total(F) - F[s] <= taken
    BY <1>1 DEF Within
  <2> QED BY <1>1, <1>2, <2>2, <2>3
<1> QED BY <1>2, <1>3 DEF NoneSince

LEMMA Begun ==
  ASSUME now \in Times, NEW F, Rises(F), NoneSince(F), NoneAhead(F),
         NEW last \in {now + Interval - 1, now + Interval}
  PROVE  Within(F, now, 0, last)
<1>1. now \in Nat /\ now \in Moments /\ Interval \in Nat \ {0} /\ MaxAllowed \in Nat /\ MaxTime + 1 \in Moments
  BY LimitBounds DEF Times, Moments
<1>2. Total(F) \in Nat /\ F[now] = Total(F)
  BY <1>1 DEF NoneSince, Rises, Total
<1>3. \A t \in Moments : t > last => F[t] = Total(F)
  <2> SUFFICES ASSUME NEW t \in Moments, t > last PROVE t > now
    BY DEF NoneAhead
  <2> QED BY <1>1, LimitBounds DEF Moments
<1>4. \A t \in Times : t > now - Interval => F[now] - F[t] <= MaxAllowed
  BY <1>2 DEF NoneSince
<1> QED BY <1>1, <1>2, <1>3, <1>4 DEF Within

\* One more passes within the window.
LEMMA PassWithin ==
  ASSUME now \in Times, NEW F, Rises(F), NEW s, NEW taken, NEW last, Within(F, s, taken, last),
         taken < MaxAllowed, now <= last, NoneAhead(F), Spans(F), NEW G, Rises(G),
         \A t \in Moments : G[t] = IF t > now THEN F[t] + 1 ELSE F[t]
  PROVE  Within(G, s, taken + 1, last) /\ NoneAhead(G) /\ Spans(G)
<1>1. /\ now \in Nat /\ now \in Moments /\ s \in Nat /\ s \in Moments /\ s <= now
      /\ last \in Nat /\ last <= s + Interval /\ MaxTime \in Nat /\ now <= MaxTime
      /\ MaxAllowed \in Nat /\ Interval \in Nat \ {0} /\ taken \in Nat /\ MaxTime + 1 \in Moments
  BY LimitBounds DEF Within, Times, Moments
<1>2. Total(G) = Total(F) + 1 /\ Total(F) \in Nat /\ F[s] \in Nat /\ G[s] = F[s]
  BY <1>1 DEF Rises, Total
<1>3. ASSUME NEW t \in Moments PROVE t \in Nat /\ F[t] \in Nat /\ F[t] <= Total(F)
  BY <1>1 DEF Rises, Total, Moments
<1>4. Within(G, s, taken + 1, last)
  <2>1. Total(G) - G[s] <= taken + 1
    BY <1>1, <1>2 DEF Within
  <2>2. ASSUME NEW t \in Times, t > s - Interval, t <= s PROVE G[s] - G[t] <= MaxAllowed
    <3>1. t \in Moments /\ t <= now
      BY <1>1, <2>2 DEF Times, Moments
    <3> QED BY <1>1, <1>2, <1>3, <2>2, <3>1 DEF Within
  <2>3. ASSUME NEW t \in Moments, t > last PROVE G[t] = Total(G)
    <3>1. t > now /\ F[t] = Total(F)
      BY <1>1, <1>3, <2>3 DEF Within
    <3> QED BY <1>2, <3>1
  <2>4. taken + 1 \in 0..MaxAllowed
    BY <1>1
  <2> QED BY <2>1, <2>2, <2>3, <2>4 DEF Within
<1>5. NoneAhead(G)
  BY <1>2, <1>3 DEF NoneAhead
<1>6. ASSUME NEW t \in Times PROVE G[SpanEnd(t)] - G[t] <= 2 * MaxAllowed
  <2> DEFINE e == SpanEnd(t)
  <2>1. /\ t \in Moments /\ t \in Nat /\ e \in Moments /\ e \in Nat /\ e > t /\ e <= t + Interval
    BY <1>1 DEF Times, Moments, SpanEnd
  <2>2. F[e] - F[t] <= 2 * MaxAllowed /\ F[t] \in Nat /\ F[e] \in Nat /\ F[e] <= Total(F)
    BY <1>3, <2>1 DEF Spans
  <2> HIDE DEF e
  <2>3. CASE t > now \/ e <= now
    <3>1. G[e] - G[t] = F[e] - F[t]
      BY <1>1, <2>1, <2>2, <2>3
    <3> QED BY <2>2, <3>1 DEF e
  <2>4. CASE t <= now /\ e > now
    <3>1. G[t] = F[t] /\ G[e] = F[e] + 1
      BY <2>1, <2>4, <1>1
    <3>2. Total(F) - F[s] <= taken
      BY DEF Within
    <3>3. CASE t >= s
      <4>1. F[s] <= F[t]
        BY <1>1, <2>1, <3>3 DEF Rises
      <4>2. G[e] - G[t] <= MaxAllowed
        BY <1>1, <1>2, <2>2, <3>1, <3>2, <4>1
      <4> QED BY <1>1, <2>2, <3>1, <4>2 DEF e
    <3>4. CASE t < s
      <4>1. F[s] - F[t] <= MaxAllowed
        BY <1>1, <2>1, <2>4, <3>4 DEF Within
      <4>2. G[e] - G[t] <= 2 * MaxAllowed
        BY <1>1, <1>2, <2>2, <3>1, <3>2, <4>1
      <4> QED BY <4>2 DEF e
    <3> QED BY <1>1, <2>1, <3>3, <3>4
  <2> QED BY <1>1, <2>1, <2>3, <2>4
<1> QED BY <1>4, <1>5, <1>6 DEF Spans

LetBy(l) == PassedBefore(passed[l])
Client == [available : 0..MaxAllowed, start : Times]
Counter == [count : 1..MaxAllowed + 1, resetAt : Interval..MaxTime + Interval]
Lesser(n) == IF n > MaxAllowed THEN MaxAllowed ELSE n
Served(c, F) == \/ c = None /\ NoneSince(F)
                \/ c \in Client /\ Within(F, c.start, MaxAllowed - c.available, c.start + Interval - 1)
Counted(e, F) == \/ e = None /\ NoneSince(F)
                 \/ e \in Counter /\ Within(F, e.resetAt - Interval, Lesser(e.count), e.resetAt)

LimitInv ==
    /\ now \in Times /\ passed \in [Limiters -> [Times -> Nat]]
    /\ \A l \in Limiters : NoneAhead(LetBy(l)) /\ Spans(LetBy(l))
    /\ Served(rateClient, LetBy("server")) /\ Counted(entry, LetBy("functions"))

LEMMA NoneIsNone == None \notin Client /\ None \notin Counter
<1>1. ASSUME NEW c \in Client, c = None PROVE FALSE
  <2>1. DOMAIN c = {"available", "start"} /\ DOMAIN None = {"none"}
    BY DEF Client, None
  <2> QED BY <1>1, <2>1
<1>2. ASSUME NEW c \in Counter, c = None PROVE FALSE
  <2>1. DOMAIN c = {"count", "resetAt"} /\ DOMAIN None = {"none"}
    BY DEF Counter, None
  <2> QED BY <1>2, <2>1
<1> QED BY <1>1, <1>2

\* What a request of l that passes now does to how many passed before.
LEMMA Passing ==
  ASSUME LimitInv, NEW l \in Limiters, Pass(l), now' = now
  PROVE  /\ passed' \in [Limiters -> [Times -> Nat]]
         /\ \A k \in Limiters \ {l} : LetBy(k)' = LetBy(k)
         /\ \A t \in Moments : LetBy(l)'[t] = IF t > now THEN LetBy(l)[t] + 1 ELSE LetBy(l)[t]
<1>1. now \in Times /\ passed \in [Limiters -> [Times -> Nat]] /\ MaxTime \in Nat /\ Times = 0..MaxTime
  BY LimitBounds DEF LimitInv, Times
<1>2. /\ passed' = [passed EXCEPT ![l] = passed'[l]]
      /\ passed'[l] \in [Times -> Nat]
      /\ \A t \in Times : passed'[l][t] = IF t = now THEN passed[l][t] + 1 ELSE passed[l][t]
  BY <1>1 DEF Pass
<1>3. passed' \in [Limiters -> [Times -> Nat]] /\ \A k \in Limiters \ {l} : passed'[k] = passed[k]
  BY <1>1, <1>2
<1> DEFINE p == passed[l]
           q == passed'[l]
<1>4. Sums(PassedBefore(p), p, MaxTime + 1) /\ Sums(PassedBefore(q), q, MaxTime + 1)
  BY <1>1, <1>2, PassedBeforeSums
<1>5. p \in [0..MaxTime -> Nat] /\ now \in 0..MaxTime /\ \A t \in 0..MaxTime : q[t] = IF t = now THEN p[t] + 1 ELSE p[t]
  BY <1>1, <1>2
<1> HIDE DEF p, q
<1>6. \A t \in 0..MaxTime + 1 : PassedBefore(q)[t] = IF t > now THEN PassedBefore(p)[t] + 1 ELSE PassedBefore(p)[t]
  <2>1. PICK m, n, f, g, a, b : /\ f = PassedBefore(p) /\ g = PassedBefore(q) /\ n = now
                                /\ a = p /\ b = q /\ m = MaxTime
    OBVIOUS
  <2>2. m \in Nat /\ a \in [0..m -> Nat] /\ n \in 0..m /\ Sums(f, a, m + 1) /\ Sums(g, b, m + 1)
    BY <1>1, <1>4, <1>5, <2>1
  <2>3. OneMoreAt(b, a, n, m)
    BY <1>5, <2>1 DEF OneMoreAt
  <2>4. \A t \in 0..m + 1 : g[t] = IF t > n THEN f[t] + 1 ELSE f[t]
    BY <2>2, <2>3, SumsPass
  <2> QED BY <2>1, <2>4
<1> QED BY <1>3, <1>6 DEF LetBy, Moments, p, q

LEMMA RisesBefore ==
  ASSUME LimitInv
  PROVE  \A l \in Limiters : Rises(LetBy(l)) /\ NoneAhead(LetBy(l)) /\ Spans(LetBy(l))
BY PassedRises DEF LimitInv, LetBy

LEMMA PassesWithin ==
  ASSUME LimitInv, NEW l \in Limiters, Pass(l), now' = now,
         NEW s, NEW taken, NEW last, Within(LetBy(l), s, taken, last), taken < MaxAllowed, now <= last
  PROVE  /\ passed' \in [Limiters -> [Times -> Nat]] /\ now' \in Times
         /\ \A k \in Limiters : (NoneAhead(LetBy(k)) /\ Spans(LetBy(k)))'
         /\ \A k \in Limiters \ {l} : LetBy(k)' = LetBy(k)
         /\ Within(LetBy(l)', s, taken + 1, last)
<1> DEFINE F == LetBy(l)
           G == LetBy(l)'
<1>1. /\ passed' \in [Limiters -> [Times -> Nat]]
      /\ \A k \in Limiters \ {l} : LetBy(k)' = LetBy(k)
      /\ \A t \in Moments : G[t] = IF t > now THEN F[t] + 1 ELSE F[t]
  BY Passing
<1>2. Rises(F) /\ NoneAhead(F) /\ Spans(F) /\ now \in Times
  BY RisesBefore DEF LimitInv
<1>3. Rises(G)
  BY <1>1, PassedRises DEF LetBy
<1>4. Within(F, s, taken, last)
  OBVIOUS
<1> HIDE DEF F, G
<1>5. Within(G, s, taken + 1, last) /\ NoneAhead(G) /\ Spans(G)
  BY <1>1, <1>2, <1>3, <1>4, PassWithin
<1>6. ASSUME NEW k \in Limiters PROVE (NoneAhead(LetBy(k)) /\ Spans(LetBy(k)))'
  <2>1. CASE k = l
    BY <2>1, <1>5 DEF NoneAhead, Spans, G, Total, SpanEnd
  <2>2. CASE k # l
    <3>1. LetBy(k)' = LetBy(k)
      BY <1>1, <2>2
    <3> QED BY <3>1, RisesBefore DEF NoneAhead, Spans, Total, SpanEnd
  <2> QED BY <2>1, <2>2
<1> QED BY <1>1, <1>2, <1>5, <1>6 DEF G

\* Steps that let nothing pass leave the counts alone.
LEMMA NonePasses ==
  ASSUME LimitInv, UNCHANGED <<now, passed>>,
         Served(rateClient', LetBy("server")) /\ Counted(entry', LetBy("functions"))
  PROVE  LimitInv'
<1>1. \A l \in Limiters : LetBy(l)' = LetBy(l)
  BY DEF LetBy
<1> QED BY <1>1 DEF LimitInv, NoneAhead, Spans, Total, SpanEnd, Served, Counted, NoneSince, Within, Limiters

\* The window that a request of the server's limiter finds, or opens.
LEMMA ServerWindow ==
  ASSUME LimitInv, NEW b, b = IF rateClient = None \/ Over(rateClient.start)
                             THEN [available |-> MaxAllowed, start |-> now] ELSE rateClient
  PROVE  /\ b \in Client /\ now < b.start + Interval
         /\ Within(LetBy("server"), b.start, MaxAllowed - b.available, b.start + Interval - 1)
<1> DEFINE F == LetBy("server")
<1>1. now \in Times /\ now \in Nat /\ Interval \in Nat \ {0} /\ MaxAllowed \in Nat /\ Rises(F) /\ NoneAhead(F)
  BY RisesBefore, LimitBounds DEF LimitInv, Times, Limiters
<1>2. Served(rateClient, F)
  BY DEF LimitInv
<1> HIDE DEF F
<1>3. CASE rateClient = None \/ Over(rateClient.start)
  <2>1. NoneSince(F)
    <3>1. CASE rateClient = None
      BY <3>1, <1>2, NoneIsNone DEF Served
    <3>2. CASE rateClient # None
      <4>1. rateClient.start + Interval - 1 < now
        <5>1. rateClient.start \in Nat
          BY <3>2, <1>2, LimitBounds DEF Served, Client, Times
        <5> QED BY <5>1, <1>1, <1>3, <3>2 DEF Over
      <4> QED BY <4>1, <3>2, <1>1, <1>2, Ended DEF Served
    <3> QED BY <3>1, <3>2
  <2>2. b \in Client /\ b.start = now /\ b.available = MaxAllowed
    BY <1>1, <1>3 DEF Client
  <2>3. Within(F, now, 0, now + Interval - 1)
    BY <1>1, <2>1, Begun
  <2> QED BY <1>1, <2>2, <2>3 DEF F
<1>4. CASE ~(rateClient = None \/ Over(rateClient.start))
  <2>1. b = rateClient /\ rateClient \in Client
    BY <1>2, <1>4 DEF Served
  <2>2. b.start \in Nat /\ now < b.start + Interval
    BY <1>1, <1>4, <2>1, LimitBounds DEF Over, Client, Times
  <2> QED BY <1>2, <1>4, <2>1, <2>2 DEF Served, F
<1> QED BY <1>3, <1>4

LEMMA ConsumeInv == ASSUME LimitInv, Consume PROVE LimitInv'
<1> DEFINE b == IF rateClient = None \/ Over(rateClient.start)
                THEN [available |-> MaxAllowed, start |-> now] ELSE rateClient
           F == LetBy("server")
<1>1. /\ b \in Client /\ now < b.start + Interval
      /\ Within(F, b.start, MaxAllowed - b.available, b.start + Interval - 1)
  BY ServerWindow
<1>2. /\ IF b.available > 0 THEN rateClient' = [b EXCEPT !.available = @ - 1] /\ Pass("server")
         ELSE rateClient' = b /\ UNCHANGED passed
      /\ UNCHANGED <<now, entry>>
  BY DEF Consume
<1> HIDE DEF b
<1>3. now \in Nat /\ b.start \in Nat /\ Interval \in Nat \ {0} /\ MaxAllowed \in Nat /\ b.available \in 0..MaxAllowed
  BY <1>1, LimitBounds DEF LimitInv, Client, Times
<1>4. CASE b.available > 0
  <2> DEFINE c == [b EXCEPT !.available = @ - 1]
             taken == MaxAllowed - b.available
             last == b.start + Interval - 1
  <2>1. rateClient' = c /\ c \in Client /\ c.start = b.start /\ MaxAllowed - c.available = taken + 1
    BY <1>1, <1>2, <1>3, <1>4 DEF Client
  <2>2. taken < MaxAllowed /\ now <= last /\ Within(F, b.start, taken, last) /\ "server" \in Limiters
        /\ Pass("server") /\ now' = now
    BY <1>1, <1>2, <1>3, <1>4 DEF Limiters
  <2>3. /\ passed' \in [Limiters -> [Times -> Nat]] /\ now' \in Times
        /\ \A k \in Limiters : (NoneAhead(LetBy(k)) /\ Spans(LetBy(k)))'
        /\ LetBy("functions")' = LetBy("functions")
        /\ Within(F', b.start, taken + 1, last)
    <3> HIDE DEF taken, last
    <3> QED BY <2>2, PassesWithin DEF Limiters
  <2>4. Served(rateClient', F')
    BY <2>1, <2>3 DEF Served
  <2>5. Counted(entry, LetBy("functions")')
    BY <2>3 DEF LimitInv
  <2> HIDE DEF c
  <2> QED BY <1>2, <2>3, <2>4, <2>5 DEF LimitInv, Served, Counted, NoneSince, Within, Total
<1>5. CASE ~(b.available > 0)
  <2>1. Served(rateClient', F)
    BY <1>1, <1>2, <1>5 DEF Served
  <2> QED BY <1>2, <1>5, <2>1, NonePasses DEF LimitInv
<1> QED BY <1>4, <1>5

LEMMA CleanInv == ASSUME LimitInv, Clean PROVE LimitInv'
<1> DEFINE F == LetBy("server")
<1>1. Rises(F) /\ now \in Times /\ Served(rateClient, F) /\ rateClient # None
  BY RisesBefore DEF LimitInv, Limiters, Clean
<1> HIDE DEF F
<1>2. rateClient.start + Interval - 1 < now
  <2>1. rateClient.start \in Nat /\ now \in Nat
    BY <1>1, LimitBounds DEF Served, Client, Times
  <2> QED BY <2>1, LimitBounds DEF Clean, HasExpired
<1>3. NoneSince(F)
  BY <1>1, <1>2, Ended DEF Served
<1> QED BY <1>3, NonePasses DEF Clean, Served, F, LimitInv

LEMMA CheckRateLimitInv == ASSUME LimitInv, CheckRateLimit PROVE LimitInv'
<1> DEFINE F == LetBy("functions")
<1>1. Rises(F) /\ NoneAhead(F) /\ now \in Times /\ Counted(entry, F)
  BY RisesBefore DEF LimitInv, Limiters
<1>2. now \in Nat /\ now <= MaxTime /\ MaxTime \in Nat /\ Interval \in Nat \ {0} /\ MaxAllowed \in Nat \ {0} /\ "functions" \in Limiters
  BY <1>1, LimitBounds DEF Times, Limiters
<1>3. \A e \in Counter : e.count \in 1..MaxAllowed + 1 /\ e.resetAt \in Interval..MaxTime + Interval
                        /\ e.count \in Nat /\ e.resetAt \in Nat
  BY <1>2 DEF Counter
\* A request passes in a window, and the entry becomes e.
<1>4. ASSUME NEW e \in Counter, entry' = e, Pass("functions"), UNCHANGED <<now, rateClient>>, NEW n \in Nat, n < MaxAllowed,
             e.count = n + 1, now <= e.resetAt, Within(F, e.resetAt - Interval, n, e.resetAt)
      PROVE  LimitInv'
  <2> DEFINE s == e.resetAt - Interval
             last == e.resetAt
  <2>1. Within(F, s, n, last) /\ now <= last /\ now' = now
    BY <1>4
  <2>2. /\ passed' \in [Limiters -> [Times -> Nat]] /\ now' \in Times
        /\ \A k \in Limiters : (NoneAhead(LetBy(k)) /\ Spans(LetBy(k)))'
        /\ LetBy("server")' = LetBy("server")
        /\ Within(F', s, n + 1, last)
    <3> HIDE DEF s, last
    <3> QED BY <1>2, <1>4, <2>1, PassesWithin DEF Limiters
  <2>3. Lesser(e.count) = n + 1
    BY <1>2, <1>4 DEF Lesser
  <2>4. Counted(entry', F')
    BY <1>4, <2>2, <2>3 DEF Counted
  <2>5. Served(rateClient, LetBy("server")')
    BY <2>2 DEF LimitInv
  <2> HIDE DEF s, last
  <2> QED BY <1>4, <2>2, <2>4, <2>5 DEF LimitInv, Served, Counted, NoneSince, Within, Total
<1>5. CASE entry = None \/ now > entry.resetAt
  <2> DEFINE e == [count |-> 1, resetAt |-> now + Interval]
  <2>1. NoneSince(F)
    <3>1. CASE entry = None
      BY <3>1, <1>1, NoneIsNone DEF Counted
    <3>2. CASE entry # None
      BY <3>2, <1>1, <1>5, Ended DEF Counted
    <3> QED BY <3>1, <3>2
  <2>2. Within(F, now, 0, now + Interval)
    <3> HIDE DEF F
    <3> QED BY <1>1, <2>1, Begun
  <2>3. /\ e \in Counter /\ entry' = e /\ e.count = 1 /\ e.resetAt = now + Interval /\ e.resetAt - Interval = now
        /\ Pass("functions") /\ UNCHANGED <<now, rateClient>>
    BY <1>2, <1>5 DEF CheckRateLimit, Counter
  <2>4. now <= e.resetAt /\ Within(F, e.resetAt - Interval, 0, e.resetAt)
    BY <1>2, <2>2, <2>3
  <2> HIDE DEF e, F
  <2> QED BY <1>2, <1>4, <2>3, <2>4
<1>6. CASE ~(entry = None \/ now > entry.resetAt)
  <2> DEFINE e == [entry EXCEPT !.count = IF @ > MaxAllowed THEN @ ELSE @ + 1]
  <2>1. /\ entry \in Counter /\ Within(F, entry.resetAt - Interval, Lesser(entry.count), entry.resetAt)
        /\ entry' = e /\ UNCHANGED <<now, rateClient>>
        /\ IF e.count > MaxAllowed THEN UNCHANGED passed ELSE Pass("functions")
    BY <1>1, <1>6 DEF CheckRateLimit, Counted
  <2>2. /\ e \in Counter /\ e.resetAt = entry.resetAt
        /\ e.count = IF entry.count > MaxAllowed THEN entry.count ELSE entry.count + 1
    BY <1>2, <1>3, <2>1 DEF Counter
  <2> HIDE DEF e, F
  <2>3. CASE e.count > MaxAllowed
    <3>1. Lesser(e.count) = MaxAllowed /\ Lesser(entry.count) \in Nat /\ Lesser(entry.count) = MaxAllowed
      BY <1>2, <1>3, <2>1, <2>2, <2>3 DEF Lesser
    <3>2. Counted(entry', F)
      BY <2>1, <2>2, <3>1 DEF Counted
    <3> QED BY <2>1, <2>3, <3>2, NonePasses DEF F, LimitInv
  <2>4. CASE ~(e.count > MaxAllowed)
    <3>1. Lesser(entry.count) = entry.count /\ e.count = entry.count + 1 /\ entry.count \in Nat /\ entry.count < MaxAllowed
      BY <1>2, <1>3, <2>1, <2>2, <2>4 DEF Lesser
    <3>2. now <= e.resetAt
      BY <1>2, <1>3, <1>6, <2>1, <2>2
    <3> QED BY <1>4, <2>1, <2>2, <2>4, <3>1, <3>2
  <2> QED BY <2>3, <2>4
<1> QED BY <1>5, <1>6

LEMMA CleanEntriesInv == ASSUME LimitInv, CleanEntries PROVE LimitInv'
<1> DEFINE F == LetBy("functions")
<1>1. Rises(F) /\ now \in Times /\ Counted(entry, F) /\ entry # None /\ entry.resetAt < now
  <2>1. Rises(F) /\ now \in Times /\ Counted(entry, F) /\ entry # None /\ now > entry.resetAt
    BY RisesBefore DEF LimitInv, Limiters, CleanEntries
  <2>2. entry.resetAt \in Nat /\ now \in Nat
    BY <2>1, LimitBounds DEF Counted, Counter, Times
  <2> QED BY <2>1, <2>2
<1> HIDE DEF F
<1>2. NoneSince(F)
  BY <1>1, Ended DEF Counted
<1> QED BY <1>2, NonePasses DEF CleanEntries, Counted, F, LimitInv

LEMMA SecondInv == ASSUME LimitInv, Second PROVE LimitInv'
<1>1. /\ now \in Nat /\ now' = now + 1 /\ now' \in Times /\ Interval \in Nat /\ now' \in Moments
      /\ UNCHANGED <<rateClient, entry, passed>> /\ \A l \in Limiters : LetBy(l)' = LetBy(l)
  BY LimitBounds DEF LimitInv, Second, Times, Moments, LetBy
<1>2. ASSUME NEW l \in Limiters PROVE NoneAhead(LetBy(l))' /\ Spans(LetBy(l))'
  <2>1. NoneAhead(LetBy(l)) /\ Spans(LetBy(l)) /\ LetBy(l)' = LetBy(l)
    BY <1>1 DEF LimitInv
  <2>2. \A t \in Moments : t > now' => t > now
    BY <1>1, LimitBounds DEF Moments
  <2> QED BY <2>1, <2>2 DEF NoneAhead, Spans, Total, SpanEnd
<1>3. ASSUME NEW F, NoneAhead(F), NoneSince(F) PROVE F[now'] = Total(F) /\ \A t \in Times : t > now' - Interval => Total(F) - F[t] <= MaxAllowed
  <2>1. \A t \in Times : t > now' - Interval => t > now - Interval
    BY <1>1, LimitBounds DEF Times
  <2>2. now' > now
    BY <1>1
  <2> QED BY <1>1, <1>3, <2>1, <2>2 DEF NoneAhead, NoneSince
<1>4. \A s : s \in 0..now => s \in 0..now'
  BY <1>1
<1>5. Served(rateClient, LetBy("server"))'
  <2>1. Served(rateClient, LetBy("server")) /\ NoneAhead(LetBy("server")) /\ LetBy("server")' = LetBy("server")
    BY <1>1 DEF LimitInv, Limiters
  <2> QED BY <1>1, <1>3, <1>4, <2>1 DEF Served, NoneSince, Within, Total
<1>6. Counted(entry, LetBy("functions"))'
  <2>1. Counted(entry, LetBy("functions")) /\ NoneAhead(LetBy("functions")) /\ LetBy("functions")' = LetBy("functions")
    BY <1>1 DEF LimitInv, Limiters
  <2> QED BY <1>1, <1>3, <1>4, <2>1 DEF Counted, NoneSince, Within, Total
<1> QED BY <1>1, <1>2, <1>5, <1>6 DEF LimitInv

\* No limiter lets pass more than the requests of two windows in a span as long as one, and its
\* counts keep their types.
THEOREM TwoWindowsAtMost == LimitSpec => []WindowBound /\ []LimitTypeOK
<1>1. LimitInit => LimitInv
  <2> SUFFICES ASSUME LimitInit PROVE LimitInv
    OBVIOUS
  <2> DEFINE p == [t \in Times |-> 0]
             F == PassedBefore(p)
  <2>1. /\ now = 0 /\ now \in Times /\ rateClient = None /\ entry = None /\ p \in [Times -> Nat]
        /\ passed \in [Limiters -> [Times -> Nat]] /\ \A l \in Limiters : passed[l] = p
    BY LimitBounds DEF LimitInit, Times
  <2>2. \A l \in Limiters : LetBy(l) = F
    BY <2>1 DEF LetBy
  <2>3. Sums(F, p, MaxTime + 1)
    BY <2>1, PassedBeforeSums
  <2>4. \A t \in Moments : F[t] = 0
    <3> DEFINE S == {t \in Nat : t <= MaxTime + 1 => F[t] = 0}
    <3>1. 0 \in S
      BY <2>3 DEF Sums
    <3>2. ASSUME NEW t \in S PROVE t + 1 \in S
      <4> SUFFICES ASSUME t + 1 <= MaxTime + 1 PROVE F[t + 1] = 0
        OBVIOUS
      <4>1. t \in Nat /\ t \in Times /\ t + 1 \in 1..MaxTime + 1 /\ F[t] = 0 /\ (t + 1) - 1 = t
        BY LimitBounds DEF Times
      <4>2. F[t + 1] = F[t] + p[t]
        BY <2>3, <4>1 DEF Sums
      <4> QED BY <4>1, <4>2
    <3>3. Nat \subseteq S
      <4>1. \A t \in Nat : t \in S => t + 1 \in S
        BY <3>2
      <4> HIDE DEF S
      <4> QED BY <3>1, <4>1, Induction
    <3> QED BY <3>3, LimitBounds DEF Moments
  <2> HIDE DEF F, p
  <2>5. \A t \in Times : t \in Moments /\ SpanEnd(t) \in Moments
    BY LimitBounds DEF Times, Moments, SpanEnd
  <2>6. MaxTime + 1 \in Moments /\ MaxAllowed \in Nat
    BY LimitBounds DEF Moments
  <2>7. NoneAhead(F) /\ Spans(F) /\ NoneSince(F)
    BY <2>1, <2>4, <2>5, <2>6 DEF NoneAhead, Spans, NoneSince, Total
  <2> QED BY <2>1, <2>2, <2>7 DEF LimitInv, Served, Counted, Limiters
<1>2. LimitInv /\ [LimitNext]_limitVars => LimitInv'
  <2> SUFFICES ASSUME LimitInv, [LimitNext]_limitVars PROVE LimitInv'
    OBVIOUS
  <2>1. CASE UNCHANGED limitVars
    BY <2>1, NonePasses DEF limitVars, LimitInv
  <2> QED BY <2>1, ConsumeInv, CleanInv, CheckRateLimitInv, CleanEntriesInv, SecondInv DEF LimitNext
<1>3. LimitInv => WindowBound
  BY DEF LimitInv, WindowBound, SpanOf, Spans, LetBy
<1>4. LimitInv => LimitTypeOK
  <2> SUFFICES ASSUME LimitInv PROVE LimitTypeOK
    OBVIOUS
  <2>1. ASSUME NEW l \in Limiters, NEW t \in Times PROVE passed[l][t] \in 0..2 * MaxAllowed
    <3> DEFINE F == LetBy(l)
    <3>1. Sums(F, passed[l], MaxTime + 1) /\ passed[l][t] \in Nat
      BY PassedBeforeSums DEF LimitInv, LetBy
    <3>2. Rises(F) /\ F[SpanEnd(t)] - F[t] <= 2 * MaxAllowed
      BY RisesBefore DEF Spans
    <3> HIDE DEF F
    <3>3. /\ t \in Nat /\ t \in Moments /\ t + 1 \in Moments /\ t + 1 \in 1..MaxTime + 1 /\ (t + 1) - 1 = t
          /\ SpanEnd(t) \in Moments /\ t + 1 <= SpanEnd(t) /\ MaxAllowed \in Nat
      BY LimitBounds DEF Times, Moments, SpanEnd
    <3>4. F[t + 1] = F[t] + passed[l][t] /\ F[t] \in Nat /\ F[t + 1] \in Nat /\ F[t + 1] <= F[SpanEnd(t)] /\ F[SpanEnd(t)] \in Nat
      BY <3>1, <3>2, <3>3 DEF Sums, Rises
    <3> QED BY <3>1, <3>2, <3>3, <3>4
  <2>2. passed \in [Limiters -> [Times -> 0..2 * MaxAllowed]]
    BY <2>1 DEF LimitInv
  <2> QED BY <2>2 DEF LimitInv, LimitTypeOK, Served, Counted, Client, Counter
<1> QED BY <1>1, <1>2, <1>3, <1>4, PTL DEF LimitSpec

(***************************************************************************)
(* The way of a request.                                                   *)
(***************************************************************************)
Accounts == DOMAIN Payloads \cup {NoAccount}
Place == {"cors", "load", "verify", "skip", "limit", "limited", "guard", "handle", "done", "answered"}
Way == [pc : Place, number : Nat, visit : Visits, status : Nat, allow : {"none", "refused", "*", "own"},
        seen : Accounts, read : Nat, chunk : Nat]
Entry == [number : Nat, status : Nat, auth : Accounts]

LEMMA SizesAdd ==
  ASSUME NEW body \in Seq(Nat)
  PROVE  /\ SizeOf(body) \in [0..Len(body) -> Nat] /\ SizeOf(body)[0] = 0
         /\ \A i \in 1..Len(body) : SizeOf(body)[i] = SizeOf(body)[i - 1] + body[i]
         /\ \A i, j \in 0..Len(body) : i <= j => SizeOf(body)[i] <= SizeOf(body)[j]
<1> DEFINE n == Len(body)
           p == [t \in 0..n |-> IF t < n THEN body[t + 1] ELSE 0]
           F(f) == [i \in 0..n |-> IF i = 0 THEN 0 ELSE f[i - 1] + body[i]]
<1>1. n \in Nat /\ (\A i \in 1..n : body[i] \in Nat)
  BY LenProperties, ElementOfSeq
<1>2. p \in [0..n -> Nat] /\ \A i \in 1..n : p[i - 1] = body[i]
  <2>1. \A t \in 0..n : t < n => t + 1 \in 1..n
    BY <1>1
  <2> QED BY <1>1, <2>1
<1> HIDE DEF p, n
<1>3. PICK f : Sums(f, p, n + 1)
  BY <1>1, <1>2, SumsUpTo
<1>4. \A a, b \in 0..n + 1 : a <= b => f[a] <= f[b]
  BY <1>1, <1>2, <1>3, SumsGrow
<1> DEFINE g == [i \in 0..n |-> f[i]]
<1>5. g \in [0..n -> Nat] /\ g[0] = 0 /\ \A i \in 1..n : g[i] = g[i - 1] + body[i]
  BY <1>1, <1>2, <1>3 DEF Sums
<1>6. g = F(g)
  <2> DEFINE k == g
  <2>1. k \in [0..n -> Nat] /\ k[0] = 0 /\ \A i \in 1..n : k[i] = k[i - 1] + body[i]
    BY <1>5
  <2> HIDE DEF k
  <2>2. k = F(k)
    BY <1>1, <2>1
  <2> QED BY <2>2 DEF k
<1>7. SizeOf(body) = F(SizeOf(body))
  <2> HIDE DEF g
  <2> QED BY <1>6 DEF SizeOf, n
<1> DEFINE h == SizeOf(body)
<1>8. h = F(h)
  BY <1>7
<1> HIDE DEF h
<1>14. \A j \in 1..n : h[j] = h[j - 1] + body[j]
  BY <1>1, <1>8
<1> DEFINE S == {i \in Nat : i <= n => h[i] = g[i]}
<1>9. 0 \in S
  BY <1>1, <1>5, <1>8
<1>10. ASSUME NEW i \in S PROVE i + 1 \in S
  <2> SUFFICES ASSUME i + 1 <= n PROVE h[i + 1] = g[i + 1]
    OBVIOUS
  <2>1. i \in Nat /\ i + 1 \in 1..n /\ i + 1 \in 0..n /\ (i + 1) - 1 = i /\ h[i] = g[i]
    BY <1>1
  <2>2. h[i + 1] = h[i] + body[i + 1]
    BY <1>14, <2>1
  <2>3. g[i + 1] = g[i] + body[i + 1]
    <3> HIDE DEF g
    <3> QED BY <1>1, <1>5, <2>1
  <2> HIDE DEF g
  <2> QED BY <2>1, <2>2, <2>3
<1>11. \A i \in 0..n : h[i] = g[i]
  <2>1. Nat \subseteq S
    <3>1. \A i \in Nat : i \in S => i + 1 \in S
      BY <1>10
    <3> HIDE DEF S
    <3> QED BY <1>9, <3>1, Induction
  <2> HIDE DEF g
  <2> QED BY <1>1, <2>1
<1>12. h = g
  BY <1>8, <1>11
<1>13. \A i, j \in 0..n : i <= j => g[i] <= g[j]
  BY <1>1, <1>4
<1> HIDE DEF g
<1> QED BY <1>5, <1>12, <1>13 DEF h, n

\* What a request carries at its place.
Whole(w) == SizeOf(w.visit.body)[Len(w.visit.body)]
Carries(w) ==
    /\ w.pc \in {"handle", "done"} \/ (w.pc = "answered" /\ w.status = 200) => GuardAnswer(w.visit) = 200
    /\ w.visit.preflight => w.pc = "cors" \/ (w.pc = "answered" /\ w.status = 204)
    /\ w.chunk \in 0..Len(w.visit.body) /\ w.read = SizeOf(w.visit.body)[w.chunk] /\ w.read <= MaxBody
    /\ w.pc = "done" \/ (w.pc = "answered" /\ w.status = 200) => w.chunk = Len(w.visit.body)
    /\ w.pc = "answered" /\ w.status = 413 => Whole(w) > MaxBody \/ w.visit.length > MaxBody

InJournal(w) == \E i \in DOMAIN journal : journal[i].number = w.number
\* The journal and the requests under way have numbers of their own; what has failed is in it.
Numbered ==
    /\ \A i, j \in DOMAIN journal : journal[i].number = journal[j].number => i = j
    /\ \A i \in DOMAIN journal : journal[i].number <= visits
    /\ \A v \in Visitors : ~Is(v, "idle") =>
          /\ visiting[v].number <= visits
          /\ \A u \in Visitors : ~Is(u, "idle") /\ visiting[u].number = visiting[v].number => u = v
          /\ InJournal(visiting[v]) => Is(v, "answered") /\ visiting[v].status # 204
          /\ Is(v, "answered") /\ visiting[v].status \notin {200, 204} => InJournal(visiting[v])

Typed ==
    /\ stored \in [auth : Accounts, skip : BOOLEAN] /\ visits \in 0..MaxVisits
    /\ visiting \in [Visitors -> {NotYet} \cup Way] /\ journal \in Seq(Entry)

PipelineInv == Typed /\ Numbered /\ \A v \in Visitors : ~Is(v, "idle") => Carries(visiting[v])

LEMMA OnItsWay ==
  ASSUME PipelineInv, NEW v \in Visitors, ~Is(v, "idle")
  PROVE  visiting[v] \in Way /\ Carries(visiting[v])
BY DEF PipelineInv, Typed, Is, NotYet

\* A request goes to w, which is nothing that is logged.
LEMMA WayGoes ==
  ASSUME PipelineInv, NEW v \in Visitors, NEW w \in Way, visiting' = [visiting EXCEPT ![v] = w],
         ~Is(v, "idle"), ~Is(v, "answered"), w.number = visiting[v].number, Carries(w), w.pc = "answered" => w.status = 204,
         UNCHANGED <<journal, visits>>, stored' \in [auth : Accounts, skip : BOOLEAN]
  PROVE  PipelineInv'
<1>1. visiting \in [Visitors -> {NotYet} \cup Way] /\ visiting'[v] = w /\ \A u \in Visitors \ {v} : visiting'[u] = visiting[u]
  BY DEF PipelineInv, Typed
<1>2. Typed'
  BY <1>1 DEF PipelineInv, Typed
<1>3. \A u \in Visitors : Is(u, "idle")' <=> Is(u, "idle")
  BY <1>1 DEF Is, Way, Place
<1>4. \A u \in Visitors : ~Is(u, "idle") => Carries(visiting[u])'
  <2>1. \A u \in Visitors \ {v} : ~Is(u, "idle") => Carries(visiting[u])'
    BY <1>1 DEF PipelineInv, Carries, Whole
  <2>2. Carries(visiting[v])'
    BY <1>1 DEF Carries, Whole
  <2> QED BY <2>1, <2>2
<1>5. \A u \in Visitors : visiting'[u].number = visiting[u].number
  BY <1>1
<1>6. \A u \in Visitors : InJournal(visiting[u])' <=> InJournal(visiting[u])
  BY <1>5 DEF InJournal
<1>7. ~InJournal(visiting[v])
  BY DEF PipelineInv, Numbered
<1>8. Numbered'
  BY <1>1, <1>3, <1>5, <1>6, <1>7 DEF PipelineInv, Numbered, Is
<1> QED BY <1>2, <1>3, <1>4, <1>8 DEF PipelineInv

\* What Reply does, to the request and to the journal.
Answers(v, status) == visiting' = [visiting EXCEPT ![v].pc = "answered", ![v].status = status]
Entered(v) == \E e \in Entry : e.number = visiting[v].number /\ journal' = Append(journal, e)

\* Setting two fields of a request.
AnsweredBy(v, a, w) ==
    /\ visiting' = [visiting EXCEPT ![v] = w] /\ w.pc = "answered" /\ w.status = a
    /\ w.number = visiting[v].number /\ w.visit = visiting[v].visit /\ w.read = visiting[v].read /\ w.chunk = visiting[v].chunk

LEMMA AnswerSets ==
  ASSUME visiting \in [Visitors -> {NotYet} \cup Way], NEW v \in Visitors, visiting[v] \in Way, NEW a \in Nat, Answers(v, a)
  PROVE  \E w \in Way : AnsweredBy(v, a, w)
<1> DEFINE T == {NotYet} \cup Way
           w == [visiting[v] EXCEPT !.pc = "answered", !.status = a]
<1>1. visiting \in [Visitors -> T]
  OBVIOUS
<1> HIDE DEF T
<1>2. visiting' = [visiting EXCEPT ![v] = w]
  BY <1>1 DEF Answers
<1>3. w \in Way
  BY DEF Way, Place
<1>4. /\ w.pc = "answered" /\ w.status = a
      /\ w.number = visiting[v].number /\ w.visit = visiting[v].visit /\ w.read = visiting[v].read /\ w.chunk = visiting[v].chunk
  BY DEF Way
<1> HIDE DEF w
<1> QED BY <1>2, <1>3, <1>4 DEF AnsweredBy

LEMMA ReadingSets ==
  ASSUME visiting \in [Visitors -> {NotYet} \cup Way], NEW v \in Visitors, NEW a, NEW b
  PROVE  [visiting EXCEPT ![v].read = a, ![v].chunk = b] = [visiting EXCEPT ![v] = [visiting[v] EXCEPT !.read = a, !.chunk = b]]
<1> DEFINE T == {NotYet} \cup Way
<1>1. visiting \in [Visitors -> T]
  OBVIOUS
<1> HIDE DEF T
<1> QED BY <1>1

LEMMA ReplyEnters ==
  ASSUME PipelineInv, NEW v \in Visitors, ~Is(v, "idle"), NEW status \in Nat
  PROVE  /\ Reply(v, status, TRUE) => Entered(v)
         /\ Reply(v, 200, FALSE) => Entered(v) \/ UNCHANGED journal
<1>1. visiting[v] \in Way /\ stored.auth \in Accounts
  BY OnItsWay DEF PipelineInv, Typed
<1> DEFINE failure == [number |-> visiting[v].number, status |-> 500, auth |-> stored.auth]
           success == [number |-> visiting[v].number, status |-> 200, auth |-> stored.auth]
<1>2. failure \in Entry /\ success \in Entry /\ failure.number = visiting[v].number /\ success.number = visiting[v].number
  BY <1>1 DEF Entry, Way
<1>3. /\ Reply(v, status, TRUE) => journal' = Append(journal, failure)
      /\ Reply(v, 200, FALSE) => journal' = Append(journal, success) \/ UNCHANGED journal
  BY DEF Reply, Logged
<1> HIDE DEF failure, success
<1> QED BY <1>2, <1>3 DEF Entered

\* A request is answered, in the journal or not.
LEMMA ReplyGoes ==
  ASSUME PipelineInv, NEW v \in Visitors, ~Is(v, "idle"), ~Is(v, "answered"), NEW status \in Nat, status # 204,
         Answers(v, status), UNCHANGED <<stored, visits>>, Entered(v) \/ (status = 200 /\ UNCHANGED journal), ~visiting[v].visit.preflight,
         status = 200 => GuardAnswer(visiting[v].visit) = 200 /\ visiting[v].chunk = Len(visiting[v].visit.body),
         status = 413 => Whole(visiting[v]) > MaxBody \/ visiting[v].visit.length > MaxBody
  PROVE  PipelineInv'
<1>1. visiting[v] \in Way /\ Carries(visiting[v]) /\ visiting \in [Visitors -> {NotYet} \cup Way]
  BY OnItsWay DEF PipelineInv, Typed
<1>11. PICK w \in Way : AnsweredBy(v, status, w)
  BY <1>1, AnswerSets
<1>2. /\ w \in Way /\ visiting' = [visiting EXCEPT ![v] = w] /\ w.pc = "answered" /\ w.status = status
      /\ w.number = visiting[v].number /\ w.visit = visiting[v].visit /\ w.read = visiting[v].read /\ w.chunk = visiting[v].chunk
  BY <1>11 DEF AnsweredBy
<1>3. visiting'[v] = w /\ \A u \in Visitors \ {v} : visiting'[u] = visiting[u]
  BY <1>1, <1>2
<1>4. Carries(w)
  BY <1>1, <1>2 DEF Carries, Whole
<1>5. \A u \in Visitors : Is(u, "idle")' <=> Is(u, "idle")
  BY <1>2, <1>3 DEF Is
<1>6. \A u \in Visitors : ~Is(u, "idle") => Carries(visiting[u])'
  <2>1. \A u \in Visitors \ {v} : ~Is(u, "idle") => Carries(visiting[u])'
    BY <1>3 DEF PipelineInv, Carries, Whole
  <2>2. Carries(visiting[v])'
    BY <1>3, <1>4 DEF Carries, Whole
  <2> QED BY <2>1, <2>2
<1>7. \A u \in Visitors : visiting'[u].number = visiting[u].number
  BY <1>2, <1>3
<1>8. ~InJournal(visiting[v]) /\ visiting[v].number <= visits /\ visits \in Nat /\ UNCHANGED <<stored, visits>>
  BY VisitBounds DEF PipelineInv, Numbered, Typed
<1>9. CASE UNCHANGED journal /\ status = 200
  <2>1. Typed'
    BY <1>1, <1>2, <1>8, <1>9 DEF PipelineInv, Typed
  <2>2. \A u \in Visitors : InJournal(visiting[u])' <=> InJournal(visiting[u])
    BY <1>7, <1>9 DEF InJournal
  <2>3. Numbered'
    BY <1>2, <1>3, <1>5, <1>7, <1>8, <1>9, <2>2 DEF PipelineInv, Numbered, Is
  <2> QED BY <1>5, <1>6, <2>1, <2>3 DEF PipelineInv
<1>10. ASSUME NEW e \in Entry, e.number = visiting[v].number, journal' = Append(journal, e) PROVE PipelineInv'
  <2>1. journal \in Seq(Entry)
    BY DEF PipelineInv, Typed
  <2>2. /\ journal' \in Seq(Entry) /\ DOMAIN journal = 1..Len(journal) /\ Len(journal) \in Nat
        /\ DOMAIN journal' = 1..(Len(journal) + 1) /\ journal'[Len(journal) + 1] = e
        /\ \A i \in DOMAIN journal : journal'[i] = journal[i]
    BY <1>10, <2>1, AppendProperties, LenProperties
  <2>3. Typed'
    BY <1>1, <1>2, <1>8, <2>2 DEF PipelineInv, Typed
  <2>4. \A i \in DOMAIN journal' : i \in DOMAIN journal \/ i = Len(journal) + 1
    BY <2>2
  <2>5. DOMAIN journal \subseteq DOMAIN journal' /\ Len(journal) + 1 \in DOMAIN journal'
    BY <2>2
  <2>6. \A i \in DOMAIN journal : journal[i].number # e.number
    BY <1>8, <1>10 DEF InJournal
  <2>11. journal'[Len(journal) + 1].number = e.number /\ \A i \in DOMAIN journal : journal'[i].number = journal[i].number
    BY <2>2
  <2>7. InJournal(visiting[v])'
    <3>1. journal'[Len(journal) + 1].number = visiting'[v].number
      <4>1. visiting'[v].number = visiting[v].number
        BY <1>7
      <4> QED BY <1>10, <2>11, <4>1
    <3> QED BY <2>5, <3>1 DEF InJournal
  <2>8. \A u \in Visitors \ {v} : ~Is(u, "idle") => (InJournal(visiting[u])' <=> InJournal(visiting[u]))
    <3>1. \A u \in Visitors \ {v} : ~Is(u, "idle") => visiting[u].number # e.number
      BY <1>10 DEF PipelineInv, Numbered
    <3>2. \A u \in Visitors : InJournal(visiting[u])' <=> \E i \in DOMAIN journal' : journal'[i].number = visiting[u].number
      BY <1>7 DEF InJournal
    <3> QED BY <2>4, <2>5, <2>11, <3>1, <3>2 DEF InJournal
  <2>9. /\ \A i, j \in DOMAIN journal' : journal'[i].number = journal'[j].number => i = j
        /\ \A i \in DOMAIN journal' : journal'[i].number <= visits'
    <3>1. /\ \A i, j \in DOMAIN journal : journal[i].number = journal[j].number => i = j
          /\ \A i \in DOMAIN journal : journal[i].number <= visits
      BY DEF PipelineInv, Numbered
    <3> QED BY <1>8, <1>10, <2>4, <2>6, <2>11, <3>1
  <2>10. Numbered'
    BY <1>2, <1>3, <1>5, <1>7, <1>8, <2>7, <2>8, <2>9 DEF PipelineInv, Numbered, Is
  <2> QED BY <1>5, <1>6, <2>3, <2>10 DEF PipelineInv
<1> QED BY <1>9, <1>10 DEF Entered

LEMMA ArriveKeeps ==
  ASSUME PipelineInv, NEW v \in Visitors, NEW visit \in Visits, ArriveVisit(v, visit)
  PROVE  PipelineInv'
<1> DEFINE w == [pc |-> "cors", number |-> visits + 1, visit |-> visit, status |-> 0, allow |-> "none",
                 seen |-> NoAccount, read |-> 0, chunk |-> 0]
<1>1. visits \in Nat /\ visits' = visits + 1 /\ visits' \in 0..MaxVisits /\ visits < visits' /\ UNCHANGED <<stored, journal>>
  BY VisitBounds DEF PipelineInv, Typed, ArriveVisit
<1>2. w \in Way /\ w.pc = "cors" /\ w.number = visits' /\ w.visit = visit /\ w.read = 0 /\ w.chunk = 0
  BY <1>1 DEF Way, Place, Accounts
<1>3. visiting' = [visiting EXCEPT ![v] = w]
  BY DEF ArriveVisit
<1> HIDE DEF w
<1>4. /\ visiting \in [Visitors -> {NotYet} \cup Way] /\ visiting' \in [Visitors -> {NotYet} \cup Way]
      /\ visiting'[v] = w /\ \A u \in Visitors \ {v} : visiting'[u] = visiting[u]
  BY <1>2, <1>3 DEF PipelineInv, Typed
<1>5. Typed'
  BY <1>1, <1>4 DEF PipelineInv, Typed
<1>6. Carries(w)
  <2>1. visit.body \in Seq(Nat)
    BY VisitBounds
  <2>2. SizeOf(visit.body)[0] = 0 /\ Len(visit.body) \in Nat
    BY <2>1, SizesAdd, LenProperties
  <2>3. w.chunk \in 0..Len(w.visit.body) /\ w.read = SizeOf(w.visit.body)[w.chunk] /\ w.read <= MaxBody
    BY <1>2, <2>2, VisitBounds
  <2> QED BY <1>2, <2>3 DEF Carries, Whole
<1>7. \A u \in Visitors : ~Is(u, "idle")' => Carries(visiting[u])'
  <2>1. \A u \in Visitors \ {v} : ~Is(u, "idle")' => Carries(visiting[u])'
    BY <1>4 DEF PipelineInv, Carries, Whole, Is
  <2>2. Carries(visiting[v])'
    BY <1>4, <1>6 DEF Carries, Whole
  <2> QED BY <2>1, <2>2
<1>8. Numbered'
  <2>1. /\ \A i, j \in DOMAIN journal' : journal'[i].number = journal'[j].number => i = j
        /\ \A i \in DOMAIN journal : journal[i].number \in Nat /\ journal[i].number <= visits
        /\ \A i \in DOMAIN journal' : journal'[i].number <= visits'
    <3>1. journal \in Seq(Entry)
      BY DEF PipelineInv, Typed
    <3>2. \A i \in DOMAIN journal : journal[i] \in Entry
      BY <3>1, ElementOfSeq, LenProperties
    <3>3. \A i \in DOMAIN journal : journal[i].number \in Nat
      BY <3>2 DEF Entry
    <3> QED BY <1>1, <3>3 DEF PipelineInv, Numbered
  <2>2. ~InJournal(visiting[v])'
    BY <1>1, <1>2, <1>4, <2>1 DEF InJournal
  <2>3. \A u \in Visitors \ {v} : InJournal(visiting[u])' <=> InJournal(visiting[u])
    BY <1>1, <1>4 DEF InJournal
  <2>4. \A u \in Visitors \ {v} : ~Is(u, "idle") => visiting[u].number \in Nat /\ visiting[u].number <= visits
    BY <1>4 DEF PipelineInv, Numbered, Is, Way, NotYet
  <2>5. ASSUME NEW u \in Visitors, ~Is(u, "idle")', NEW x \in Visitors, ~Is(x, "idle")',
               visiting'[u].number = visiting'[x].number
        PROVE  x = u
    <3>1. CASE u # v /\ x # v
      BY <1>4, <2>5, <3>1 DEF PipelineInv, Numbered, Is
    <3>2. CASE u = v /\ x # v
      BY <1>1, <1>2, <1>4, <2>4, <2>5, <3>2 DEF Is
    <3>3. CASE u # v /\ x = v
      BY <1>1, <1>2, <1>4, <2>4, <2>5, <3>3 DEF Is
    <3> QED BY <3>1, <3>2, <3>3
  <2>6. ASSUME NEW u \in Visitors, ~Is(u, "idle")'
        PROVE  /\ visiting'[u].number <= visits'
               /\ InJournal(visiting[u])' => Is(u, "answered")' /\ visiting'[u].status # 204
               /\ Is(u, "answered")' /\ visiting'[u].status \notin {200, 204} => InJournal(visiting[u])'
    <3>1. CASE u = v
      BY <1>1, <1>2, <1>4, <2>2, <3>1 DEF Is
    <3>2. CASE u # v
      BY <1>1, <1>4, <2>3, <2>4, <2>6, <3>2 DEF Is, PipelineInv, Numbered
    <3> QED BY <3>1, <3>2
  <2> QED BY <2>1, <2>5, <2>6 DEF Numbered
<1> QED BY <1>5, <1>7, <1>8 DEF PipelineInv

\* The request goes on to another place, as it is.
LEMMA MoveKeeps ==
  ASSUME PipelineInv, NEW v \in Visitors, ~Is(v, "idle"), ~Is(v, "answered"), ~Is(v, "cors"), ~Is(v, "done"),
         NEW pc \in Place \ {"answered", "done", "cors"}, Move(v, pc), pc = "handle" => GuardAnswer(visiting[v].visit) = 200,
         UNCHANGED <<journal, visits>>, stored' \in [auth : Accounts, skip : BOOLEAN]
  PROVE  PipelineInv'
<1> DEFINE w == [visiting[v] EXCEPT !.pc = pc]
<1>1. visiting[v] \in Way /\ Carries(visiting[v]) /\ visiting \in [Visitors -> {NotYet} \cup Way]
  BY OnItsWay DEF PipelineInv, Typed
<1>2. w \in Way /\ w.pc = pc /\ w.number = visiting[v].number /\ w.visit = visiting[v].visit /\ w.read = visiting[v].read /\ w.chunk = visiting[v].chunk
  BY <1>1 DEF Way, Place
<1>3. visiting' = [visiting EXCEPT ![v] = w]
  BY <1>1 DEF Move
<1> HIDE DEF w
<1>4. Carries(w)
  BY <1>1, <1>2 DEF Carries, Whole, Is, Place
<1> QED BY <1>2, <1>3, <1>4, WayGoes

LEMMA CorsKeeps == ASSUME PipelineInv, NEW v \in Visitors, Cors(v) PROVE PipelineInv'
<1> DEFINE visit == visiting[v].visit
           allow == IF visit.origin = NoAccount THEN "none" ELSE AllowOrigin(visit.origin)
           w == [visiting[v] EXCEPT !.allow = allow, !.pc = IF visit.preflight THEN "answered" ELSE "load",
                                    !.status = IF visit.preflight THEN 204 ELSE 0]
<1>1. /\ visiting[v] \in Way /\ Carries(visiting[v]) /\ visiting \in [Visitors -> {NotYet} \cup Way]
      /\ visiting[v].pc = "cors" /\ ~Is(v, "idle") /\ ~Is(v, "answered")
      /\ UNCHANGED <<journal, visits>> /\ stored' \in [auth : Accounts, skip : BOOLEAN]
  BY OnItsWay DEF PipelineInv, Typed, Cors, Is
<1>2. allow \in {"none", "refused", "*", "own"}
  BY DEF AllowOrigin
<1>3. visiting' = [visiting EXCEPT ![v].allow = allow, ![v].pc = IF visit.preflight THEN "answered" ELSE "load",
                                    ![v].status = IF visit.preflight THEN 204 ELSE 0]
  BY DEF Cors
<1> HIDE DEF allow
<1>4. visiting' = [visiting EXCEPT ![v] = w]
  BY <1>1, <1>3
<1>5. w \in Way
  BY <1>1, <1>2 DEF Way, Place
<1>6. /\ w.number = visiting[v].number /\ w.visit = visiting[v].visit /\ w.read = visiting[v].read /\ w.chunk = visiting[v].chunk
      /\ IF visit.preflight THEN w.pc = "answered" /\ w.status = 204 ELSE w.pc = "load"
  BY <1>1 DEF Way
<1> HIDE DEF w
<1>7. Carries(w)
  BY <1>1, <1>6 DEF Carries, Whole
<1> QED BY <1>1, <1>4, <1>5, <1>6, <1>7, WayGoes

LEMMA ReadChunkKeeps == ASSUME PipelineInv, NEW v \in Visitors, ReadChunk(v) PROVE PipelineInv'
<1> DEFINE body == visiting[v].visit.body
           next == visiting[v].chunk + 1
<1>1. /\ visiting[v] \in Way /\ Carries(visiting[v]) /\ visiting \in [Visitors -> {NotYet} \cup Way]
      /\ visiting[v].pc = "handle" /\ ~Is(v, "idle") /\ ~Is(v, "answered") /\ ~visiting[v].visit.preflight
      /\ stored \in [auth : Accounts, skip : BOOLEAN] /\ next \in DOMAIN body
  BY OnItsWay DEF PipelineInv, Typed, ReadChunk, Is, Carries
<1>2. /\ body \in Seq(Nat) /\ Len(body) \in Nat /\ DOMAIN body = 1..Len(body) /\ visiting[v].chunk \in Nat /\ next \in 1..Len(body)
      /\ body[next] \in Nat /\ next - 1 = visiting[v].chunk
  <2>1. body \in Seq(Nat) /\ visiting[v].chunk \in Nat
    BY <1>1, VisitBounds DEF Way
  <2> QED BY <1>1, <2>1, LenProperties, ElementOfSeq
<1>3. /\ visiting[v].read + body[next] = SizeOf(body)[next] /\ SizeOf(body)[next] \in Nat /\ SizeOf(body)[Len(body)] \in Nat
      /\ SizeOf(body)[next] <= SizeOf(body)[Len(body)]
  <2>1. visiting[v].read = SizeOf(body)[next - 1]
    BY <1>1, <1>2 DEF Carries
  <2>2. next \in 0..Len(body) /\ Len(body) \in 0..Len(body) /\ next <= Len(body)
    BY <1>2
  <2> HIDE DEF body, next
  <2> QED BY <1>2, <2>1, <2>2, SizesAdd
<1>4. CASE visiting[v].read + body[next] > MaxBody /\ Reply(v, 413, TRUE)
  <2>1. Whole(visiting[v]) > MaxBody
    BY <1>3, <1>4, VisitBounds DEF Whole
  <2>2. UNCHANGED <<stored, visits>> /\ Answers(v, 413)
    BY <1>4 DEF Reply, Answers
  <2>3. Entered(v)
    <3> DEFINE status == 413
    <3>1. status \in Nat
      OBVIOUS
    <3>2. Reply(v, status, TRUE)
      BY <1>4, Zenon
    <3> HIDE DEF status
    <3> QED BY <1>1, <3>1, <3>2, ReplyEnters
  <2> QED BY <1>1, <2>1, <2>2, <2>3, ReplyGoes
<1>5. CASE /\ ~(visiting[v].read + body[next] > MaxBody)
           /\ visiting' = [visiting EXCEPT ![v].read = @ + body[next], ![v].chunk = next]
           /\ UNCHANGED <<stored, journal, visits>>
  <2> DEFINE w == [visiting[v] EXCEPT !.read = visiting[v].read + body[next], !.chunk = next]
  <2>1. visiting' = [visiting EXCEPT ![v] = w]
    <3>1. visiting' = [visiting EXCEPT ![v].read = visiting[v].read + body[next], ![v].chunk = next]
      BY <1>1, <1>5
    <3> DEFINE read == visiting[v].read + body[next]
    <3>2. visiting' = [visiting EXCEPT ![v].read = read, ![v].chunk = next]
      BY <3>1
    <3> HIDE DEF read, next
    <3>3. [visiting EXCEPT ![v].read = read, ![v].chunk = next] = [visiting EXCEPT ![v] = [visiting[v] EXCEPT !.read = read, !.chunk = next]]
      BY <1>1, ReadingSets
    <3> QED BY <3>2, <3>3 DEF read, next
  <2>2. w \in Way
    <3>1. visiting[v].read + body[next] \in Nat /\ next \in Nat
      BY <1>2, <1>3
    <3> HIDE DEF body, next
    <3> QED BY <1>1, <3>1 DEF Way
  <2>3. /\ w.number = visiting[v].number /\ w.visit = visiting[v].visit /\ w.read = SizeOf(body)[next] /\ w.chunk = next
        /\ w.pc = "handle" /\ w.status = visiting[v].status
    BY <1>1, <1>3 DEF Way
  <2> HIDE DEF w
  <2>4. w.read <= MaxBody
    BY <1>3, <1>5, <2>3, VisitBounds
  <2>5. w.chunk \in 0..Len(w.visit.body)
    BY <1>2, <2>3
  <2>6. Carries(w)
    BY <1>1, <2>3, <2>4, <2>5 DEF Carries
  <2> QED BY <1>1, <1>5, <2>1, <2>2, <2>3, <2>6, WayGoes
<1> QED BY <1>4, <1>5 DEF ReadChunk

LEMMA HandleKeeps == ASSUME PipelineInv, NEW v \in Visitors, HandleVisit(v) PROVE PipelineInv'
<1> DEFINE w == [visiting[v] EXCEPT !.pc = "done", !.seen = stored.auth]
<1>1. /\ visiting[v] \in Way /\ Carries(visiting[v]) /\ visiting \in [Visitors -> {NotYet} \cup Way]
      /\ visiting[v].pc = "handle" /\ ~Is(v, "idle") /\ ~Is(v, "answered") /\ UNCHANGED <<stored, journal, visits>>
      /\ stored \in [auth : Accounts, skip : BOOLEAN] /\ visiting[v].chunk = Len(visiting[v].visit.body)
  BY OnItsWay DEF PipelineInv, Typed, HandleVisit, Is
<1>2. visiting' = [visiting EXCEPT ![v] = w]
  <2>1. visiting' = [visiting EXCEPT ![v].pc = "done", ![v].seen = stored.auth]
    BY DEF HandleVisit
  <2> QED BY <1>1, <2>1
<1>3. w \in Way
  BY <1>1 DEF Way, Place
<1>4. /\ w.number = visiting[v].number /\ w.visit = visiting[v].visit /\ w.read = visiting[v].read /\ w.chunk = visiting[v].chunk
      /\ w.pc = "done"
  BY <1>1 DEF Way
<1> HIDE DEF w
<1>5. Carries(w)
  BY <1>1, <1>4 DEF Carries, Whole
<1> QED BY <1>1, <1>2, <1>3, <1>4, <1>5, WayGoes

LEMMA OtherVisitKeeps ==
  ASSUME PipelineInv, NEW v \in Visitors,
         \/ LoadAuthToken(v) \/ AuthLoaded(v) \/ SkipSuccessActivityLog(v) \/ BodyLimit(v) \/ LoadGuarded(v)
         \/ Guarded(v) \/ ActivityLogger(v)
  PROVE  PipelineInv'
<1> USE DEF Is, Place
<1>1. stored \in [auth : Accounts, skip : BOOLEAN] /\ Onward(v) \in {"skip", "limit"}
  BY DEF PipelineInv, Typed, Onward
<1>2. CASE LoadAuthToken(v)
  <2>1. PICK pc \in {"skip", "limit", "verify"} : Move(v, pc)
    BY <1>1, <1>2 DEF LoadAuthToken
  <2> QED BY <1>1, <1>2, <2>1, MoveKeeps DEF LoadAuthToken
<1>3. CASE AuthLoaded(v)
  <2>1. stored' \in [auth : Accounts, skip : BOOLEAN]
    BY <1>1, <1>3 DEF AuthLoaded, Valid, Accounts
  <2> QED BY <1>1, <1>3, <2>1, MoveKeeps DEF AuthLoaded
<1>4. CASE SkipSuccessActivityLog(v)
  <2>1. stored' \in [auth : Accounts, skip : BOOLEAN]
    BY <1>1, <1>4 DEF SkipSuccessActivityLog
  <2> QED BY <1>4, <2>1, MoveKeeps DEF SkipSuccessActivityLog
<1>5. CASE LoadGuarded(v)
  <2>1. stored' \in [auth : Accounts, skip : BOOLEAN]
    BY <1>1, <1>5 DEF LoadGuarded, Valid, Accounts
  <2> QED BY <1>5, <2>1, MoveKeeps DEF LoadGuarded
<1>6. CASE BodyLimit(v)
  <2>1. ~visiting[v].visit.preflight
    BY <1>6, OnItsWay DEF BodyLimit, Carries
  <2>2. CASE visiting[v].visit.length > MaxBody
    <3>1. UNCHANGED <<stored, visits>> /\ Answers(v, 413)
      BY <1>6, <2>2 DEF BodyLimit, Reply, Answers
    <3>2. Entered(v)
      <4> DEFINE status == 413
      <4>1. status \in Nat /\ ~Is(v, "idle")
        BY <1>6 DEF BodyLimit
      <4>2. Reply(v, status, TRUE)
        BY <1>6, <2>2, Zenon DEF BodyLimit
      <4> HIDE DEF status
      <4> QED BY <4>1, <4>2, ReplyEnters
    <3> QED BY <1>6, <2>1, <2>2, <3>1, <3>2, ReplyGoes DEF BodyLimit
  <2> QED BY <1>1, <1>6, <2>2, MoveKeeps DEF BodyLimit
<1>7. CASE Guarded(v)
  <2>1. ~visiting[v].visit.preflight /\ visiting[v].visit \in Visits
    BY <1>7, OnItsWay DEF Guarded, Carries, Way
  <2>2. GuardAnswer(visiting[v].visit) \in {200, 400, 401, 403}
    BY <2>1, VisitBounds DEF GuardAnswer
  <2>3. CASE GuardAnswer(visiting[v].visit) = 200
    BY <1>1, <1>7, <2>3, MoveKeeps DEF Guarded
  <2>4. CASE GuardAnswer(visiting[v].visit) # 200
    <3> DEFINE answer == GuardAnswer(visiting[v].visit)
    <3>1. answer \in Nat /\ answer # 200 /\ answer # 204 /\ answer # 413
      BY <2>2, <2>4
    <3>2. Reply(v, answer, TRUE) /\ ~Is(v, "idle") /\ ~Is(v, "answered")
      BY <1>7, <2>4 DEF Guarded
    <3> HIDE DEF answer
    <3>3. Entered(v) /\ UNCHANGED <<stored, visits>>
          /\ Answers(v, answer)
      BY <3>1, <3>2, ReplyEnters DEF Reply, Answers
    <3> QED BY <2>1, <3>1, <3>2, <3>3, ReplyGoes
  <2> QED BY <2>3, <2>4
<1>8. CASE ActivityLogger(v)
  <2>1. ~visiting[v].visit.preflight /\ GuardAnswer(visiting[v].visit) = 200 /\ visiting[v].chunk = Len(visiting[v].visit.body)
    BY <1>8, OnItsWay DEF ActivityLogger, Carries, Whole
  <2>2. (Entered(v) \/ UNCHANGED journal) /\ UNCHANGED <<stored, visits>>
        /\ Answers(v, 200)
    BY <1>8, ReplyEnters DEF ActivityLogger, Reply, Answers
  <2> QED BY <1>8, <2>1, <2>2, ReplyGoes DEF ActivityLogger
<1> QED BY <1>2, <1>3, <1>4, <1>5, <1>6, <1>7, <1>8

LEMMA PipelineNextKeeps == PipelineInv /\ [PipelineNext]_pipelineVars => PipelineInv'
<1> SUFFICES ASSUME PipelineInv, [PipelineNext]_pipelineVars PROVE PipelineInv'
  OBVIOUS
<1>1. CASE UNCHANGED pipelineVars
  BY <1>1 DEF pipelineVars, PipelineInv, Typed, Numbered, InJournal, Carries, Whole, Is
<1>2. CASE PipelineNext
  BY <1>2, ArriveKeeps, CorsKeeps, ReadChunkKeeps, HandleKeeps, OtherVisitKeeps DEF PipelineNext
<1> QED BY <1>1, <1>2

LEMMA PipelineInitKeeps == PipelineInit => PipelineInv
<1> SUFFICES ASSUME PipelineInit PROVE PipelineInv
  OBVIOUS
<1>1. /\ stored \in [auth : Accounts, skip : BOOLEAN] /\ visits \in 0..MaxVisits /\ journal = <<>> /\ DOMAIN journal = {}
      /\ journal \in Seq(Entry) /\ visiting \in [Visitors -> {NotYet} \cup Way]
  BY VisitBounds DEF PipelineInit, Accounts
<1>2. \A v \in Visitors : Is(v, "idle")
  BY DEF PipelineInit, Is, NotYet
<1> QED BY <1>1, <1>2 DEF PipelineInv, Typed, Numbered

\* apis/serve.ts: the redirects lead to hosts that are served, and none of these leads away.
LEMMA Redirects == RedirectsSettle
<1> DEFINE Labels == STRING \cup {"www"}
<1>1. ASSUME NEW host \in RedirectHosts PROVE WwwRedirect(host) \in Certificates
  <2>1. PICK h \in Certificates : host = Append(h, "www")
    BY DEF RedirectHosts
  <2>2. h \in Seq(STRING) /\ Len(h) \in Nat
    BY VisitBounds, LenProperties
  <2>3. h \in Seq(Labels) /\ "www" \in Labels
    BY <2>2
  <2> HIDE DEF Labels
  <2>4. Len(host) = Len(h) + 1 /\ host = h \o <<"www">>
    BY <2>1, <2>3, AppendProperties, AppendIsConcat
  <2>5. SubSeq(host, 1, Len(h)) = h
    <3>1. CASE Len(h) = 0
      BY <2>2, <3>1, EmptySeq, SubSeqEmpty
    <3>2. CASE Len(h) # 0
      <4>1. 1 \in 1..Len(h) /\ Len(h) \in 1..Len(h)
        BY <2>2, <3>2
      <4>2. <<"www">> \in Seq(Labels)
        BY <2>3
      <4> QED BY <2>3, <2>4, <4>1, <4>2, SubSeqOfConcat1, SubSeqFull
    <3> QED BY <3>1, <3>2
  <2>6. Len(host) - 1 = Len(h)
    BY <2>2, <2>4
  <2>7. WwwRedirect(host) = h
    BY <2>5, <2>6 DEF WwwRedirect
  <2> QED BY <2>7
<1>2. ASSUME NEW host \in Certificates PROVE host \notin RedirectHosts
  BY DEF RedirectHosts
<1> QED BY <1>1, <1>2 DEF RedirectsSettle, WwwRedirect

\* apis/base.ts: whoever else is in the router's store, a guard lets through what the request's own
\* token allows; no handler gets more of a body than the limit, and every body within it gets through
\* whole; a request that fails is logged once, another at most once, a preflight never; and a host that
\* is led elsewhere is led to one that is served.
THEOREM RequestsGoTheirWay ==
  PipelineSpec => []GuardsDecideAlone /\ []BodiesWithinLimit /\ []LoggedOnce /\ []RedirectsSettle
<1>1. PipelineInv => GuardsDecideAlone
  <2> SUFFICES ASSUME PipelineInv, NEW v \in Visitors, visiting[v].pc \in {"handle", "done"} \/ Replied(v, 200)
               PROVE  /\ visiting[v].visit.guard \in {"auth", "superuser", "owner", "collection"} => Valid(visiting[v].visit.token)
                      /\ visiting[v].visit.guard = "superuser" => Payloads[visiting[v].visit.token].collection = Superusers
                      /\ visiting[v].visit.guard = "guest" => ~Valid(visiting[v].visit.token)
    BY DEF GuardsDecideAlone
  <2>1. GuardAnswer(visiting[v].visit) = 200
    BY OnItsWay DEF Carries, Replied, Is, Whole
  <2> QED BY <2>1 DEF GuardAnswer
<1>2. PipelineInv => BodiesWithinLimit
  <2> SUFFICES ASSUME PipelineInv, NEW v \in Visitors, ~Is(v, "idle")
               PROVE  /\ visiting[v].read <= MaxBody
                      /\ Replied(v, 413) => Whole(visiting[v]) > MaxBody \/ visiting[v].visit.length > MaxBody
                      /\ Replied(v, 200) => visiting[v].read = Whole(visiting[v])
    BY DEF BodiesWithinLimit, Whole
  <2> QED BY OnItsWay DEF Carries, Replied, Is, Whole
<1>3. PipelineInv => LoggedOnce
  <2> SUFFICES ASSUME PipelineInv, NEW v \in Visitors, ~Is(v, "idle")
               PROVE  LET mine == {i \in DOMAIN journal : journal[i].number = visiting[v].number} IN
                      /\ Cardinality(mine) <= 1
                      /\ Is(v, "answered") /\ visiting[v].status >= 400 => mine # {}
                      /\ visiting[v].visit.preflight => mine = {}
    BY DEF LoggedOnce
  <2> DEFINE mine == {i \in DOMAIN journal : journal[i].number = visiting[v].number}
  <2>1. InJournal(visiting[v]) <=> mine # {}
    BY DEF InJournal
  <2>2. Cardinality(mine) <= 1
    <3>0. \A i, j \in DOMAIN journal : journal[i].number = journal[j].number => i = j
      BY DEF PipelineInv, Numbered
    <3>1. ASSUME NEW i \in mine, NEW j \in mine PROVE i = j
      BY <3>0
    <3>2. CASE mine = {}
      <4>1. Cardinality({}) = 0
        BY FS_EmptySet
      <4> HIDE DEF mine
      <4>2. Cardinality(mine) = 0
        BY <3>2, <4>1, Zenon
      <4> QED BY <4>2
    <3>3. ASSUME NEW i \in mine PROVE Cardinality(mine) <= 1
      <4>1. mine = {i}
        BY <3>1
      <4>2. Cardinality({i}) = 1
        BY FS_Singleton
      <4> HIDE DEF mine
      <4>3. Cardinality(mine) = 1
        BY <4>1, <4>2, Zenon
      <4> QED BY <4>3
    <3> QED BY <3>2, <3>3
  <2> HIDE DEF mine
  <2>3. Is(v, "answered") /\ visiting[v].status >= 400 => mine # {}
    BY <2>1 DEF PipelineInv, Numbered
  <2>4. visiting[v].visit.preflight => mine = {}
    BY <2>1, OnItsWay DEF PipelineInv, Numbered, Carries, Is
  <2> QED BY <2>2, <2>3, <2>4 DEF mine
<1> QED BY <1>1, <1>2, <1>3, Redirects, PipelineInitKeeps, PipelineNextKeeps, PTL DEF PipelineSpec

(***************************************************************************)
(* The requests of /rest/v1.                                               *)
(*                                                                         *)
(* What a request answers is gathered row by row as it writes, and writes  *)
(* are its own until it commits.  The invariant keeps the two together:    *)
(* the rows gathered are the rows its transaction has written, or in       *)
(* memory and past the commit those it has changed (Gathered, TookEffect), *)
(* and what is read only writes nothing at any point (Harmless).           *)
(***************************************************************************)
Writing == {"idle", "insert", "previous", "ids", "match", "write", "result"}
Reading == {"select", "count", "singular"}
OwnOf(c) == {i \in Ids : c.own[i] # Unwritten}

RequestOK(c) ==
    /\ DOMAIN c = DOMAIN NoRequest /\ DOMAIN c.shape = DOMAIN NoShape
    /\ c.pc \in Writing \cup Reading \cup {"publish", "answered"} /\ c.status \in Nat
    /\ c.own \in [Ids -> {Absent, Old, New, Unwritten}] /\ c.targets \subseteq Ids
    /\ c.pc \in Writing => c.body \in Seq(Ids)
    /\ c.pc = "insert" => c.shape.rows \in Seq(Ids) \ {<<>>}
    /\ c.shape.op = "post" => /\ c.pc \in {"insert", "result", "publish", "answered"}
                              /\ c.pc \in {"result", "publish"} => c.shape.rows = <<>>
TookEffect(c, e) == c.status = 500 /\ e = Range(c.body) /\ (c.shape.op = "post" => c.shape.rows = <<>>)
Gathered(c, e) ==
    /\ c.pc \in Writing => Range(c.body) = IF backend = "postgres" THEN OwnOf(c) ELSE e
    /\ c.pc \in Reading => ~Mutates(c.shape) /\ OwnOf(c) = {}
    /\ c.pc = "publish" => OwnOf(c) = {} /\ Mutates(c.shape) /\ Range(c.body) = e
    /\ c.pc = "answered" => OwnOf(c) = {} /\ (c.status < 300 /\ Mutates(c.shape) => Range(c.body) = e)
    /\ backend = "postgres" /\ c.pc \notin {"answered", "publish"} => e = {}
    /\ backend = "postgres" /\ c.pc = "answered" /\ c.status >= 300 => e = {} \/ TookEffect(c, e)
    /\ backend = "memory" => OwnOf(c) = {}
Harmless(c, e) == backend = "postgres" /\ ReadOnly(c.shape) => c.pc # "write" /\ OwnOf(c) = {} /\ e = {}
RequestInv(c, e) == RequestOK(c) /\ Gathered(c, e) /\ Harmless(c, e)
RestInv ==
    /\ backend \in {"postgres", "memory"} /\ DOMAIN rq = Requests /\ effects \in [Requests -> SUBSET Ids]
    /\ \A r \in Requests : rq[r].pc = "idle" => rq[r] = NoRequest
    /\ \A r \in Requests : RequestInv(rq[r], effects[r])

\* A step of one request.
LEMMA RequestStep ==
  ASSUME RestInv, NEW r \in Requests, NEW c, NEW e \in SUBSET Ids, rq' = [rq EXCEPT ![r] = c],
         effects' = [effects EXCEPT ![r] = e], UNCHANGED backend, c.pc # "idle", RequestInv(c, e)
  PROVE  RestInv'
<1>1. DOMAIN rq' = Requests /\ rq'[r] = c /\ \A q \in Requests \ {r} : rq'[q] = rq[q]
  BY DEF RestInv
<1>2. effects' \in [Requests -> SUBSET Ids] /\ effects'[r] = e /\ \A q \in Requests \ {r} : effects'[q] = effects[q]
  BY DEF RestInv
<1>3. \A d, f : RequestInv(d, f)' <=> RequestInv(d, f)
  BY DEF RequestInv, RequestOK, Gathered, Harmless
<1>4. \A q \in Requests : RequestInv(rq'[q], effects'[q])
  BY <1>1, <1>2 DEF RestInv
<1>5. \A q \in Requests : RequestInv(rq[q], effects[q])'
  BY <1>3, <1>4
<1> QED BY <1>1, <1>2, <1>5 DEF RestInv

\* What is at hand when one is asked for.
LEMMA RequestFacts ==
  ASSUME RestInv, NEW r \in Requests
  PROVE  /\ RequestInv(rq[r], effects[r]) /\ effects[r] \in SUBSET Ids /\ effects = [effects EXCEPT ![r] = effects[r]]
         /\ DOMAIN rq[r] = {"pc", "shape", "own", "targets", "body", "total", "at", "status"}
         /\ DOMAIN rq[r].shape = DOMAIN NoShape
BY DEF RestInv, RequestInv, RequestOK, NoRequest

LEMMA AppendRange ==
  ASSUME NEW S, NEW s \in Seq(S), NEW x \in S
  PROVE  Append(s, x) \in Seq(S) /\ Range(Append(s, x)) = Range(s) \cup {x}
<1> DEFINE t == Append(s, x)
<1>1. /\ t \in Seq(S) /\ DOMAIN s = 1..Len(s) /\ DOMAIN t = 1..(Len(s) + 1) /\ Len(s) \in Nat
      /\ t[Len(s) + 1] = x /\ \A i \in 1..Len(s) : t[i] = s[i]
  BY AppendProperties, LenProperties
<1> HIDE DEF t
<1>2. \A i \in DOMAIN t : i \in DOMAIN s \/ i = Len(s) + 1
  BY <1>1
<1>3. DOMAIN s \subseteq DOMAIN t /\ Len(s) + 1 \in DOMAIN t
  BY <1>1
<1>4. Range(t) = Range(s) \cup {x}
  BY <1>1, <1>2, <1>3 DEF Range
<1> QED BY <1>1, <1>4 DEF t

LEMMA Responding ==
  ASSUME RestInv, NEW r \in Requests, NEW status \in Nat, Respond(r, status)
  PROVE  \E c : /\ rq' = [rq EXCEPT ![r] = c] /\ c.shape = rq[r].shape /\ c.pc = "answered"
                /\ c.status = status /\ c.body = rq[r].body /\ OwnOf(c) = {} /\ RequestOK(c)
<1> DEFINE c == [rq[r] EXCEPT !.pc = "answered", !.status = status, !.own = NoRequest.own, !.targets = {}]
<1>1. rq' = [rq EXCEPT ![r] = c]
  BY DEF Respond, Continue
<1>2. /\ DOMAIN c = DOMAIN NoRequest /\ c.shape = rq[r].shape /\ c.pc = "answered" /\ c.status = status
      /\ c.own = NoRequest.own /\ c.targets = {} /\ c.body = rq[r].body
  BY RequestFacts DEF NoRequest
<1> HIDE DEF c
<1>3. OwnOf(c) = {} /\ c.own \in [Ids -> {Absent, Old, New, Unwritten}]
  BY <1>2 DEF OwnOf, NoRequest
<1>4. RequestOK(c)
  BY <1>2, <1>3, RequestFacts DEF RequestInv, RequestOK, Writing
<1> QED BY <1>1, <1>2, <1>3, <1>4

\* Refused or failed: nothing of it is left on PostgreSQL.
LEMMA FailingKeeps ==
  ASSUME RestInv, NEW r \in Requests, NEW status \in Nat, status >= 300, Respond(r, status),
         rq[r].pc \notin {"answered", "publish"}, UNCHANGED <<backend, effects>>
  PROVE  RestInv'
<1>1. PICK c : /\ rq' = [rq EXCEPT ![r] = c] /\ c.shape = rq[r].shape /\ c.pc = "answered"
               /\ c.status = status /\ OwnOf(c) = {} /\ RequestOK(c)
  BY Responding
<1>2. RequestInv(c, effects[r])
  BY <1>1, RequestFacts DEF RequestInv, RequestOK, Gathered, Harmless, Writing, Reading
<1> QED BY <1>1, <1>2, RequestFacts, RequestStep

LEMMA FailsKeeps ==
  ASSUME RestInv, NEW r \in Requests, NEW failure, Fails(r, failure), rq[r].pc \notin {"answered", "publish"},
         UNCHANGED backend
  PROVE  RestInv'
<1>1. SqlStateStatus(failure, rq[r].shape.role) \in Nat /\ SqlStateStatus(failure, rq[r].shape.role) >= 300
  BY DEF SqlStateStatus
<1> QED BY <1>1, FailingKeeps DEF Fails

LEMMA BeginKeeps ==
  ASSUME RestInv, NEW r \in Requests, NEW shape \in Shapes, Begin(r, shape), UNCHANGED backend
  PROVE  RestInv'
<1> DEFINE refused == CASE shape.op = "rpc" -> Refusal(shape)
                        [] shape.op = "post" /\ shape.resolution = "malformed" -> 400
                        [] OTHER -> 0
           pc == IF refused = 0 THEN FirstStatement(shape) ELSE "answered"
           c == [rq[r] EXCEPT !.shape = shape, !.status = refused, !.pc = pc]
<1>1. rq' = [rq EXCEPT ![r] = c] /\ UNCHANGED effects /\ rq[r].pc = "idle"
  BY DEF Begin, Continue, At
<1>2. refused \in Nat /\ (refused # 0 => refused >= 300)
  BY DEF Refusal
<1>3. /\ pc \in {"insert", "previous", "ids", "match", "result"} \cup Reading \cup {"answered"}
      /\ pc \in Reading => ~Mutates(shape)
      /\ pc = "insert" => shape.rows # <<>>
      /\ shape.op = "post" => pc \in {"insert", "result", "answered"} /\ (pc = "result" => shape.rows = <<>>)
      /\ pc = "answered" => refused >= 300
  BY <1>2 DEF FirstStatement, ChangeStatement, Reading, Mutates
<1> HIDE DEF refused, pc
<1>5. rq[r] = NoRequest
  BY <1>1 DEF RestInv
<1>6. /\ DOMAIN c = DOMAIN NoRequest /\ c.shape = shape /\ c.pc = pc /\ c.status = refused
      /\ c.own = NoRequest.own /\ c.targets = {} /\ c.body = <<>>
  BY <1>5 DEF NoRequest
<1> HIDE DEF c
<1>7. OwnOf(c) = {} /\ c.own \in [Ids -> {Absent, Old, New, Unwritten}]
  BY <1>6 DEF OwnOf, NoRequest
<1>8. Range(c.body) = {} /\ c.body \in Seq(Ids)
  BY <1>6 DEF Range
<1>9. effects[r] = {}
  <2>1. OwnOf(rq[r]) = {} /\ Range(rq[r].body) = {}
    BY <1>5 DEF OwnOf, NoRequest, Range
  <2> QED BY <1>1, <2>1, RequestFacts DEF RequestInv, Gathered, Writing, RestInv
<1>10. RequestInv(c, effects[r])
  BY <1>2, <1>3, <1>6, <1>7, <1>8, <1>9, ShapesAssumption DEF RequestInv, RequestOK, Gathered, Harmless, Writing, Reading
<1>11. c.pc # "idle"
  BY <1>3, <1>6 DEF Reading
<1> QED BY <1>1, <1>10, <1>11, RequestFacts, RequestStep

LEMMA ReadingStep ==
  ASSUME RestInv, NEW r \in Requests, NEW c, rq' = [rq EXCEPT ![r] = c], UNCHANGED <<backend, effects>>,
         DOMAIN c = DOMAIN NoRequest, c.pc \in Reading, rq[r].pc \in Reading, c.shape = rq[r].shape,
         c.status = rq[r].status, c.own = rq[r].own, c.targets = rq[r].targets
  PROVE  RestInv'
<1>1. OwnOf(c) = OwnOf(rq[r])
  BY DEF OwnOf
<1>2. RequestInv(c, effects[r])
  BY <1>1, RequestFacts DEF RequestInv, RequestOK, Gathered, Harmless, Writing, Reading
<1>3. c.pc # "idle"
  BY DEF Reading
<1> QED BY <1>2, <1>3, RequestFacts, RequestStep

LEMMA SelectPageKeeps ==
  ASSUME RestInv, NEW r \in Requests, SelectPage(r), UNCHANGED backend
  PROVE  RestInv'
<1>1. PICK hits \in Ordered(Matching(r)) :
          rq' = [rq EXCEPT ![r] = [rq[r] EXCEPT !.body = Page(hits, rq[r].shape), !.at = writes,
                                                !.pc = IF rq[r].shape.count THEN "count" ELSE "singular"]]
  BY DEF SelectPage, Continue
<1> DEFINE body == Page(hits, rq[r].shape)
           pc == IF rq[r].shape.count THEN "count" ELSE "singular"
           c == [rq[r] EXCEPT !.body = body, !.at = writes, !.pc = pc]
<1>2. rq' = [rq EXCEPT ![r] = c] /\ UNCHANGED effects /\ rq[r].pc = "select"
  BY <1>1 DEF SelectPage, At
<1> HIDE DEF body
<1>3. pc \in {"count", "singular"}
  OBVIOUS
<1> HIDE DEF pc
<1>4. /\ DOMAIN c = DOMAIN NoRequest /\ c.shape = rq[r].shape /\ c.status = rq[r].status /\ c.pc = pc
      /\ c.own = rq[r].own /\ c.targets = rq[r].targets
  BY RequestFacts DEF NoRequest
<1> QED BY <1>2, <1>3, <1>4, ReadingStep DEF Reading

LEMMA CountRowsKeeps ==
  ASSUME RestInv, NEW r \in Requests, CountRows(r), UNCHANGED backend
  PROVE  RestInv'
<1> DEFINE total == Cardinality(Matching(r))
           c == [rq[r] EXCEPT !.total = total, !.pc = "singular"]
<1>1. rq' = [rq EXCEPT ![r] = c] /\ UNCHANGED effects /\ rq[r].pc = "count"
  BY DEF CountRows, Continue, At
<1> HIDE DEF total
<1>2. /\ DOMAIN c = DOMAIN NoRequest /\ c.shape = rq[r].shape /\ c.status = rq[r].status /\ c.pc = "singular"
      /\ c.own = rq[r].own /\ c.targets = rq[r].targets
  BY RequestFacts DEF NoRequest
<1> QED BY <1>1, <1>2, ReadingStep DEF Reading

LEMMA PageResponseKeeps ==
  ASSUME RestInv, NEW r \in Requests, PageResponse(r), UNCHANGED backend
  PROVE  RestInv'
<1> DEFINE status == IF rq[r].shape.op = "get" /\ rq[r].shape.singular /\ Len(rq[r].body) # 1 THEN 406 ELSE 200
<1>1. Respond(r, status) /\ rq[r].pc = "singular" /\ UNCHANGED effects /\ status \in Nat
  BY DEF PageResponse, At
<1> HIDE DEF status
<1>2. PICK c : /\ rq' = [rq EXCEPT ![r] = c] /\ c.shape = rq[r].shape /\ c.pc = "answered"
               /\ OwnOf(c) = {} /\ RequestOK(c)
  BY <1>1, Responding
<1>3. RequestInv(c, effects[r])
  BY <1>1, <1>2, RequestFacts DEF RequestInv, RequestOK, Gathered, Harmless, Writing, Reading
<1> QED BY <1>1, <1>2, <1>3, RequestFacts, RequestStep


\* A statement writes a row, which is gathered with those written before.
LEMMA WriteRowKeeps ==
  ASSUME RestInv, NEW r \in Requests, NEW i \in Ids, NEW value \in {Absent, Old, New}, NEW next, UNCHANGED backend,
         WriteRow(r, i, value, next), RequestOK(next), next.own = rq[r].own, Range(next.body) = Range(rq[r].body) \cup {i},
         rq[r].pc \in Writing, next.pc \in Writing \ {"idle"}, backend = "postgres" => ~ReadOnly(next.shape)
  PROVE  RestInv'
<1>1. CASE backend = "postgres"
  <2> DEFINE c == [next EXCEPT !.own[i] = value]
  <2>1. rq' = [rq EXCEPT ![r] = c] /\ UNCHANGED effects
    BY <1>1 DEF WriteRow, Continue
  <2>2. next.own \in [Ids -> {Absent, Old, New, Unwritten}] /\ DOMAIN next = DOMAIN NoRequest
    BY DEF RequestOK
  <2>3. /\ DOMAIN c = DOMAIN NoRequest /\ c.shape = next.shape /\ c.pc = next.pc /\ c.status = next.status
        /\ c.own = [next.own EXCEPT ![i] = value] /\ c.targets = next.targets /\ c.body = next.body
    BY <2>2 DEF NoRequest
  <2> HIDE DEF c
  <2>4. c.own \in [Ids -> {Absent, Old, New, Unwritten}] /\ OwnOf(c) = OwnOf(rq[r]) \cup {i}
    BY <2>2, <2>3 DEF OwnOf, Absent, Old, New, Unwritten
  <2>5. Range(rq[r].body) = OwnOf(rq[r]) /\ effects[r] = {}
    BY <1>1, RequestFacts DEF RequestInv, Gathered, Writing
  <2>6. RequestOK(c)
    BY <2>3, <2>4 DEF RequestOK
  <2>7. RequestInv(c, effects[r])
    BY <1>1, <2>3, <2>4, <2>5, <2>6 DEF RequestInv, Gathered, Harmless, Writing, Reading
  <2>8. c.pc # "idle"
    BY <2>3
  <2> QED BY <2>1, <2>7, <2>8, RequestFacts, RequestStep
<1>2. CASE backend # "postgres"
  <2> DEFINE e == effects[r] \cup {i}
  <2>1. rq' = [rq EXCEPT ![r] = next] /\ effects' = [effects EXCEPT ![r] = e] /\ backend = "memory"
    BY <1>2 DEF WriteRow, Continue, RestInv
  <2>2. OwnOf(next) = {} /\ Range(rq[r].body) = effects[r]
    BY <2>1, RequestFacts DEF RequestInv, Gathered, OwnOf
  <2>3. RequestInv(next, e)
    BY <2>1, <2>2 DEF RequestInv, Gathered, Harmless, Writing, Reading
  <2>4. e \in SUBSET Ids
    BY RequestFacts
  <2> QED BY <2>1, <2>3, <2>4, RequestStep
<1> QED BY <1>1, <1>2

\* A step of a request that writes, past which it has written what it had.
LEMMA WritingStep ==
  ASSUME RestInv, NEW r \in Requests, NEW c, rq' = [rq EXCEPT ![r] = c], UNCHANGED <<backend, effects>>, RequestOK(c),
         c.own = rq[r].own, c.body = rq[r].body, rq[r].pc \in Writing, c.pc \in Writing \ {"idle"},
         backend = "postgres" /\ ReadOnly(c.shape) => ReadOnly(rq[r].shape) /\ c.pc # "write"
  PROVE  RestInv'
<1>1. OwnOf(c) = OwnOf(rq[r])
  BY DEF OwnOf
<1>2. RequestInv(c, effects[r])
  BY <1>1, RequestFacts DEF RequestInv, Gathered, Harmless, Writing, Reading
<1> QED BY <1>2, RequestFacts, RequestStep

LEMMA InsertRowKeeps ==
  ASSUME RestInv, NEW r \in Requests, InsertRow(r), UNCHANGED backend
  PROVE  RestInv'
<1> DEFINE shape == rq[r].shape
           i == Head(shape.rows)
           pc == IF Len(shape.rows) = 1 THEN "result" ELSE "insert"
           rest == [rq[r] EXCEPT !.shape.rows = Tail(@), !.pc = pc]
           outcome == InsertOutcome(r, i)
           more == [rest EXCEPT !.body = Append(@, i)]
<1>1. rq[r].pc = "insert" /\ RequestOK(rq[r])
  BY RequestFacts DEF InsertRow, At, RequestInv
<1>2. shape.rows \in Seq(Ids) \ {<<>>} /\ rq[r].body \in Seq(Ids)
  BY <1>1 DEF RequestOK, Writing
<1>3. i \in Ids /\ Tail(shape.rows) \in Seq(Ids) /\ (pc = "insert" <=> Tail(shape.rows) # <<>>)
  <2>1. i \in Ids /\ Tail(shape.rows) \in Seq(Ids) /\ Len(Tail(shape.rows)) = Len(shape.rows) - 1 /\ Len(shape.rows) \in Nat
    BY <1>2, HeadTailProperties, LenProperties
  <2>2. Len(shape.rows) # 1 <=> Len(Tail(shape.rows)) # 0
    BY <2>1
  <2>3. Tail(shape.rows) = <<>> <=> Len(Tail(shape.rows)) = 0
    BY <2>1, EmptySeq
  <2> QED BY <2>1, <2>2, <2>3
<1>4. pc \in {"result", "insert"}
  OBVIOUS
<1> HIDE DEF i, pc
<1>5. /\ DOMAIN rest = DOMAIN NoRequest /\ DOMAIN rest.shape = DOMAIN NoShape /\ rest.pc = pc /\ rest.status = rq[r].status
      /\ rest.shape.rows = Tail(shape.rows) /\ rest.shape.role = shape.role /\ rest.shape.supply = shape.supply
      /\ rest.shape.op = shape.op
      /\ rest.own = rq[r].own /\ rest.targets = rq[r].targets /\ rest.body = rq[r].body
  BY RequestFacts DEF NoRequest, NoShape
<1> HIDE DEF rest
<1>6. RequestOK(rest) /\ (ReadOnly(rest.shape) <=> ReadOnly(shape))
  BY <1>1, <1>2, <1>3, <1>4, <1>5 DEF RequestOK, Writing, ReadOnly
<1>7. \/ outcome = "25006" /\ Fails(r, "25006")
      \/ outcome = "skips" /\ rq' = [rq EXCEPT ![r] = rest] /\ UNCHANGED effects
      \/ outcome = "23505" /\ Fails(r, "23505")
      \/ outcome = "writes" /\ WriteRow(r, i, Old, more)
  BY DEF InsertRow, Continue, i, rest, pc
<1>8. CASE Fails(r, "25006") \/ Fails(r, "23505")
  BY <1>1, <1>8, FailsKeeps
<1>9. CASE rq' = [rq EXCEPT ![r] = rest] /\ UNCHANGED effects
  BY <1>1, <1>4, <1>5, <1>6, <1>9, WritingStep DEF Writing
<1>10. CASE outcome = "writes" /\ WriteRow(r, i, Old, more)
  <2>1. /\ DOMAIN more = DOMAIN NoRequest /\ more.shape = rest.shape /\ more.pc = rest.pc /\ more.status = rest.status
        /\ more.own = rest.own /\ more.targets = rest.targets /\ more.body = Append(rq[r].body, i)
    BY <1>5 DEF NoRequest
  <2> HIDE DEF more
  <2>2. more.body \in Seq(Ids) /\ Range(more.body) = Range(rq[r].body) \cup {i}
    BY <1>2, <1>3, <2>1, AppendRange
  <2>3. RequestOK(more)
    BY <1>6, <2>1, <2>2 DEF RequestOK
  <2>4. backend = "postgres" => ~ReadOnly(more.shape)
    BY <1>6, <1>10, <2>1 DEF InsertOutcome
  <2> QED BY <1>1, <1>3, <1>4, <1>5, <1>10, <2>1, <2>2, <2>3, <2>4, WriteRowKeeps DEF Writing
<1> QED BY <1>7, <1>8, <1>9, <1>10

LEMMA SelectPreviousKeeps ==
  ASSUME RestInv, NEW r \in Requests, SelectPrevious(r), UNCHANGED backend
  PROVE  RestInv'
<1> DEFINE pc == ChangeStatement(rq[r].shape)
           c == [rq[r] EXCEPT !.pc = pc]
<1>1. rq' = [rq EXCEPT ![r] = c] /\ UNCHANGED effects /\ rq[r].pc = "previous"
  BY DEF SelectPrevious, Continue, At
<1>2. pc \in {"ids", "match"}
  BY DEF ChangeStatement
<1> HIDE DEF pc
<1>3. /\ DOMAIN c = DOMAIN NoRequest /\ c.shape = rq[r].shape /\ c.status = rq[r].status /\ c.pc = pc
      /\ c.own = rq[r].own /\ c.targets = rq[r].targets /\ c.body = rq[r].body
  BY RequestFacts DEF NoRequest
<1> HIDE DEF c
<1>4. RequestOK(c)
  BY <1>1, <1>2, <1>3, RequestFacts DEF RequestInv, RequestOK, Writing
<1> QED BY <1>1, <1>2, <1>3, <1>4, WritingStep DEF Writing

LEMMA SelectIdsKeeps ==
  ASSUME RestInv, NEW r \in Requests, SelectIds(r), UNCHANGED backend
  PROVE  RestInv'
<1> DEFINE ids == Matching(r)
           pc == IF ids = {} THEN "result" ELSE "match"
           c == [rq[r] EXCEPT !.targets = ids, !.pc = pc]
<1>1. rq' = [rq EXCEPT ![r] = c] /\ UNCHANGED effects /\ rq[r].pc = "ids" /\ ids \subseteq Ids
  BY DEF SelectIds, Continue, At, Matching
<1> HIDE DEF ids
<1>2. pc \in {"result", "match"}
  OBVIOUS
<1> HIDE DEF pc
<1>3. /\ DOMAIN c = DOMAIN NoRequest /\ c.shape = rq[r].shape /\ c.status = rq[r].status /\ c.pc = pc
      /\ c.own = rq[r].own /\ c.targets = ids /\ c.body = rq[r].body
  BY RequestFacts DEF NoRequest
<1> HIDE DEF c
<1>4. RequestOK(c)
  BY <1>1, <1>2, <1>3, RequestFacts DEF RequestInv, RequestOK, Writing
<1> QED BY <1>1, <1>2, <1>3, <1>4, WritingStep DEF Writing

LEMMA MatchRowsKeeps ==
  ASSUME RestInv, NEW r \in Requests, MatchRows(r), UNCHANGED backend
  PROVE  RestInv'
<1> DEFINE targets == IF rq[r].shape.or THEN {i \in rq[r].targets : View(r)[i] # Absent} ELSE Matching(r)
           c == [rq[r] EXCEPT !.pc = "write", !.targets = targets]
<1>1. rq[r].pc = "match" /\ RequestOK(rq[r])
  BY RequestFacts DEF MatchRows, At, RequestInv
<1>2. CASE ReadOnly(rq[r].shape) /\ backend = "postgres"
  BY <1>1, <1>2, FailsKeeps DEF MatchRows
<1>3. CASE ~(ReadOnly(rq[r].shape) /\ backend = "postgres")
  <2>1. rq' = [rq EXCEPT ![r] = c] /\ UNCHANGED effects
    BY <1>3 DEF MatchRows, Continue
  <2>2. targets \subseteq Ids
    BY <1>1 DEF RequestOK, Matching
  <2> HIDE DEF targets
  <2>3. /\ DOMAIN c = DOMAIN NoRequest /\ c.shape = rq[r].shape /\ c.status = rq[r].status /\ c.pc = "write"
        /\ c.own = rq[r].own /\ c.targets = targets /\ c.body = rq[r].body
    BY RequestFacts DEF NoRequest
  <2> HIDE DEF c
  <2>4. RequestOK(c)
    BY <1>1, <2>2, <2>3 DEF RequestOK, Writing
  <2> QED BY <1>1, <1>3, <2>1, <2>3, <2>4, WritingStep DEF Writing
<1> QED BY <1>2, <1>3

LEMMA VisitRowKeeps ==
  ASSUME RestInv, NEW r \in Requests, VisitRow(r), UNCHANGED backend
  PROVE  RestInv'
<1>1. rq[r].pc = "write" /\ RequestOK(rq[r]) /\ (backend = "postgres" => ~ReadOnly(rq[r].shape))
  BY RequestFacts DEF VisitRow, At, RequestInv, Harmless
<1>2. CASE rq[r].targets = {} /\ Continue(r, [rq[r] EXCEPT !.pc = "result"]) /\ UNCHANGED effects
  <2> DEFINE c == [rq[r] EXCEPT !.pc = "result"]
  <2>1. rq' = [rq EXCEPT ![r] = c]
    BY <1>2 DEF Continue
  <2>2. /\ DOMAIN c = DOMAIN NoRequest /\ c.shape = rq[r].shape /\ c.status = rq[r].status /\ c.pc = "result"
        /\ c.own = rq[r].own /\ c.targets = rq[r].targets /\ c.body = rq[r].body
    BY RequestFacts DEF NoRequest
  <2> HIDE DEF c
  <2>3. RequestOK(c)
    BY <1>1, <2>2 DEF RequestOK, Writing
  <2> QED BY <1>1, <1>2, <2>1, <2>2, <2>3, WritingStep DEF Writing
<1>3. ASSUME NEW i \in rq[r].targets,
             \/ WriteRow(r, i, IF rq[r].shape.op = "delete" THEN Absent ELSE New,
                         [[rq[r] EXCEPT !.targets = @ \ {i}] EXCEPT !.body = Append(@, i)])
             \/ Continue(r, [rq[r] EXCEPT !.targets = @ \ {i}]) /\ UNCHANGED effects
      PROVE  RestInv'
  <2> DEFINE left == [rq[r] EXCEPT !.targets = @ \ {i}]
             more == [left EXCEPT !.body = Append(@, i)]
             value == IF rq[r].shape.op = "delete" THEN Absent ELSE New
  <2>1. i \in Ids /\ rq[r].body \in Seq(Ids) /\ value \in {Absent, Old, New}
    BY <1>1 DEF RequestOK, Writing
  <2>2. WriteRow(r, i, value, more) \/ (rq' = [rq EXCEPT ![r] = left] /\ UNCHANGED effects)
    BY <1>3 DEF Continue
  <2> HIDE DEF value
  <2>3. /\ DOMAIN left = DOMAIN NoRequest /\ left.shape = rq[r].shape /\ left.status = rq[r].status /\ left.pc = "write"
        /\ left.own = rq[r].own /\ left.targets \subseteq Ids /\ left.body = rq[r].body
    BY <1>1, RequestFacts DEF NoRequest, RequestOK
  <2> HIDE DEF left
  <2>4. RequestOK(left)
    BY <1>1, <2>3 DEF RequestOK, Writing
  <2>5. /\ DOMAIN more = DOMAIN NoRequest /\ more.shape = left.shape /\ more.status = left.status /\ more.pc = "write"
        /\ more.own = left.own /\ more.targets = left.targets /\ more.body = Append(rq[r].body, i)
    BY <2>3 DEF NoRequest
  <2> HIDE DEF more
  <2>6. more.body \in Seq(Ids) /\ Range(more.body) = Range(rq[r].body) \cup {i}
    BY <2>1, <2>5, AppendRange
  <2>7. RequestOK(more)
    BY <2>3, <2>4, <2>5, <2>6 DEF RequestOK, Writing
  <2>8. CASE WriteRow(r, i, value, more)
    BY <1>1, <2>1, <2>3, <2>5, <2>6, <2>7, <2>8, WriteRowKeeps DEF Writing
  <2>9. CASE rq' = [rq EXCEPT ![r] = left] /\ UNCHANGED effects
    BY <1>1, <2>3, <2>4, <2>9, WritingStep DEF Writing
  <2> QED BY <2>2, <2>8, <2>9
<1> QED BY <1>2, <1>3 DEF VisitRow

\* At its commit a request's own rows become rows of the table, and what it has changed is what
\* it has gathered.
LEMMA Committing ==
  ASSUME RestInv, NEW r \in Requests, CommitOwn(r), rq[r].pc = "result"
  PROVE  \E e \in SUBSET Ids :
            /\ effects' = [effects EXCEPT ![r] = e] /\ Range(rq[r].body) = e
            /\ backend = "postgres" /\ ReadOnly(rq[r].shape) => e = {}
<1> DEFINE e == effects[r] \cup OwnOf(rq[r])
<1>1. effects' = [effects EXCEPT ![r] = e]
  BY DEF CommitOwn, Committed, OwnOf, RestInv
<1>2. Range(rq[r].body) = e /\ e \in SUBSET Ids /\ (backend = "postgres" /\ ReadOnly(rq[r].shape) => e = {})
  BY RequestFacts DEF RequestInv, Gathered, Harmless, Writing, OwnOf, RestInv
<1> QED BY <1>1, <1>2

LEMMA MutationResultKeeps ==
  ASSUME RestInv, NEW r \in Requests, MutationResult(r), UNCHANGED backend
  PROVE  RestInv'
<1>1. rq[r].pc = "result"
  BY DEF MutationResult, At
<1>2. CASE Respond(r, 406) /\ UNCHANGED effects
  BY <1>1, <1>2, FailingKeeps
<1>3. CASE CommitOwn(r) /\ Respond(r, Success(rq[r].shape))
  <2>1. PICK status : status \in {200, 201} /\ Respond(r, status)
    BY <1>3 DEF Success
  <2>2. PICK c : /\ rq' = [rq EXCEPT ![r] = c] /\ c.shape = rq[r].shape /\ c.pc = "answered"
                 /\ c.status = status /\ c.body = rq[r].body /\ OwnOf(c) = {} /\ RequestOK(c)
    BY <2>1, Responding
  <2>3. PICK e \in SUBSET Ids : /\ effects' = [effects EXCEPT ![r] = e] /\ Range(rq[r].body) = e
                                /\ backend = "postgres" /\ ReadOnly(rq[r].shape) => e = {}
    BY <1>1, <1>3, Committing
  <2>4. RequestInv(c, e)
    BY <2>1, <2>2, <2>3 DEF RequestInv, Gathered, Harmless, Writing, Reading
  <2> QED BY <2>2, <2>3, <2>4, RequestStep
<1>4. CASE /\ CommitOwn(r) /\ Announced(rq[r].shape)
           /\ Continue(r, [rq[r] EXCEPT !.pc = "publish", !.own = NoRequest.own])
  <2> DEFINE c == [rq[r] EXCEPT !.pc = "publish", !.own = NoRequest.own]
  <2>1. rq' = [rq EXCEPT ![r] = c]
    BY <1>4 DEF Continue
  <2>2. /\ DOMAIN c = DOMAIN NoRequest /\ c.shape = rq[r].shape /\ c.pc = "publish" /\ c.status = rq[r].status
        /\ c.own = NoRequest.own /\ c.targets = rq[r].targets /\ c.body = rq[r].body
    BY RequestFacts DEF NoRequest
  <2> HIDE DEF c
  <2>3. OwnOf(c) = {} /\ c.own \in [Ids -> {Absent, Old, New, Unwritten}]
    BY <2>2 DEF OwnOf, NoRequest
  <2>4. RequestOK(c) /\ Mutates(c.shape)
    BY <1>1, <1>4, <2>2, <2>3, RequestFacts DEF RequestInv, RequestOK, Writing, Announced, Mutates
  <2>5. PICK e \in SUBSET Ids : /\ effects' = [effects EXCEPT ![r] = e] /\ Range(rq[r].body) = e
                                /\ backend = "postgres" /\ ReadOnly(rq[r].shape) => e = {}
    BY <1>1, <1>4, Committing
  <2>6. RequestInv(c, e)
    BY <2>2, <2>3, <2>4, <2>5 DEF RequestInv, Gathered, Harmless, Writing, Reading
  <2> QED BY <2>1, <2>2, <2>5, <2>6, RequestStep
<1> QED BY <1>2, <1>3, <1>4 DEF MutationResult

\* Whether or not it could be announced, the change is there as a whole.
LEMMA PublishKeeps ==
  ASSUME RestInv, NEW r \in Requests, Publish(r), UNCHANGED backend
  PROVE  RestInv'
<1>1. rq[r].pc = "publish" /\ UNCHANGED effects
  BY DEF Publish, At
<1>2. PICK status : status \in {200, 201, 500} /\ Respond(r, status)
  BY DEF Publish, Success
<1>3. PICK c : /\ rq' = [rq EXCEPT ![r] = c] /\ c.shape = rq[r].shape /\ c.pc = "answered"
               /\ c.status = status /\ c.body = rq[r].body /\ OwnOf(c) = {} /\ RequestOK(c)
  BY <1>2, Responding
<1>4. RequestInv(c, effects[r])
  BY <1>1, <1>2, <1>3, RequestFacts
     DEF RequestInv, RequestOK, Gathered, TookEffect, Harmless, Writing, Reading
<1> QED BY <1>1, <1>3, <1>4, RequestFacts, RequestStep

LEMMA ConnectionLostKeeps ==
  ASSUME RestInv, NEW r \in Requests, ConnectionLost(r), UNCHANGED backend
  PROVE  RestInv'
<1>1. rq[r].pc \notin {"idle", "answered", "publish"} /\ Respond(r, 500)
  BY DEF ConnectionLost, InStatement
<1>2. CASE UNCHANGED effects
  BY <1>1, <1>2, FailingKeeps
<1>3. CASE At(r, "result") /\ CommitOwn(r)
  <2>1. PICK c : /\ rq' = [rq EXCEPT ![r] = c] /\ c.shape = rq[r].shape /\ c.pc = "answered"
                 /\ c.status = 500 /\ c.body = rq[r].body /\ OwnOf(c) = {} /\ RequestOK(c)
    BY <1>1, Responding
  <2>2. PICK e \in SUBSET Ids : /\ effects' = [effects EXCEPT ![r] = e] /\ Range(rq[r].body) = e
                                /\ backend = "postgres" /\ ReadOnly(rq[r].shape) => e = {}
    BY <1>3, Committing DEF At
  <2>3. c.shape.op = "post" => c.shape.rows = <<>>
    BY <1>3, <2>1, RequestFacts DEF RequestInv, RequestOK, At
  <2>4. RequestInv(c, e)
    BY <2>1, <2>2, <2>3 DEF RequestInv, Gathered, TookEffect, Harmless, Writing, Reading
  <2> QED BY <2>1, <2>2, <2>4, RequestStep
<1> QED BY <1>2, <1>3 DEF ConnectionLost

LEMMA RestKeeps ==
  RestInv /\ [RestNext]_restVars => RestInv'
<1> SUFFICES ASSUME RestInv, [RestNext]_restVars PROVE RestInv'
  OBVIOUS
<1>1. ASSUME NEW r \in Requests, DatabaseFails(r) \/ DeadlockFound(r), UNCHANGED backend PROVE RestInv'
  <2>1. CASE DatabaseFails(r)
    BY <1>1, <2>1, FailsKeeps DEF DatabaseFails, InStatement
  <2>2. CASE DeadlockFound(r)
    BY <1>1, <2>2, FailsKeeps DEF DeadlockFound, Waits, Wanted, At
  <2> QED BY <1>1, <2>1, <2>2
<1>2. CASE UNCHANGED restVars
  <2>1. UNCHANGED <<backend, rq, effects>>
    BY <1>2 DEF restVars
  <2> QED BY <2>1 DEF RestInv, RequestInv, RequestOK, Gathered, Harmless
<1> QED BY <1>1, <1>2, BeginKeeps, SelectPageKeeps, CountRowsKeeps, PageResponseKeeps, InsertRowKeeps,
           SelectPreviousKeeps, SelectIdsKeeps, MatchRowsKeeps, VisitRowKeeps, MutationResultKeeps, PublishKeeps,
           ConnectionLostKeeps DEF RestNext

LEMMA RestBegins ==
  RestInit => RestInv
<1> SUFFICES ASSUME RestInit PROVE RestInv
  OBVIOUS
<1>1. \A r \in Requests : rq[r] = NoRequest /\ effects[r] = {}
  BY DEF RestInit
<1>2. OwnOf(NoRequest) = {} /\ NoRequest.own \in [Ids -> {Absent, Old, New, Unwritten}] /\ Range(NoRequest.body) = {}
  BY DEF OwnOf, NoRequest, Range
<1>3. /\ NoRequest.pc = "idle" /\ NoRequest.status = 0 /\ NoRequest.targets = {} /\ NoRequest.body = <<>>
      /\ NoRequest.shape = NoShape /\ NoShape.role = "user" /\ NoShape.op = "get"
  BY DEF NoRequest, NoShape
<1>4. RequestInv(NoRequest, {})
  BY <1>2, <1>3 DEF RequestInv, RequestOK, Gathered, Harmless, Writing, Reading, ReadOnly
<1> QED BY <1>1, <1>4 DEF RestInit, RestInv

\* Pages and totals.  A page lies within the rows that match as long as nothing was written since it
\* was read, and within its total once that is counted.
Standing == {i \in Ids : table[i] = Old}
InTotal(c, total) == c.body # <<>> => c.shape.from + Len(c.body) <= total
PageOK(c, done, standing) ==
    /\ c.at \in Nat /\ c.at <= done
    /\ c.pc # "idle" => c.shape.from \in Nat /\ c.shape.limit \in Nat
    /\ c.pc \in (Writing \ {"idle"}) \cup {"publish"} => c.shape.op # "get"
    /\ c.pc = "count" => (c.at = done => InTotal(c, Cardinality(standing)))
    /\ c.pc = "singular" => (c.shape.op = "get" /\ c.shape.count /\ c.at = done => InTotal(c, c.total))
    /\ c.pc = "answered" =>
         (c.shape.op = "get" /\ c.shape.count /\ c.status = 200 /\ c.at = done => InTotal(c, c.total))
PageInv ==
    /\ table \in [Ids -> {Absent, Old, New}] /\ writes \in Nat
    /\ \A r \in Requests : PageOK(rq[r], writes, Standing)

LEMMA StandingMatch ==
  ASSUME RestInv, NEW r \in Requests, rq[r].pc \in Reading
  PROVE  Matching(r) = Standing
<1>1. \A i \in Ids : rq[r].own[i] = Unwritten
  BY RequestFacts DEF RequestInv, Gathered, OwnOf
<1> QED BY <1>1 DEF Matching, View, Standing

LEMMA PageFits ==
  ASSUME NEW ids \in SUBSET Ids, NEW hits \in Ordered(ids), NEW shape, shape.from \in Nat, shape.limit \in Nat,
         Page(hits, shape) # <<>>
  PROVE  shape.from + Len(Page(hits, shape)) <= Cardinality(ids)
<1>1. Cardinality(ids) \in Nat
  BY IdsFinite, FS_Subset, FS_CardinalityType
<1>2. hits \in [1..Cardinality(ids) -> ids]
  BY DEF Ordered
<1>3. hits \in Seq(ids) /\ Len(hits) = Cardinality(ids)
  BY <1>1, <1>2, SeqDef, LenProperties
<1> DEFINE page == SubSeq(hits, shape.from + 1, Len(hits))
           n == IF Len(page) < shape.limit THEN Len(page) ELSE shape.limit
<1>4. page \in Seq(ids) /\ Len(page) = IF shape.from + 1 <= Len(hits) THEN Len(hits) - shape.from ELSE 0
  BY <1>1, <1>3, SubSeqProperties
<1> HIDE DEF page
<1>5. n \in 0..Len(page) /\ Len(page) \in Nat
  BY <1>1, <1>3, <1>4
<1> HIDE DEF n
<1>6. SubSeq(page, 1, n) \in Seq(ids) /\ Len(SubSeq(page, 1, n)) = n
  BY <1>4, <1>5, SubSeqProperties
<1>7. Page(hits, shape) = SubSeq(page, 1, n)
  BY DEF Page, page, n
<1>8. n # 0
  BY <1>6, <1>7, EmptySeq
<1> QED BY <1>1, <1>3, <1>4, <1>5, <1>6, <1>7, <1>8

\* A step of one request: others' pages are as they were, or of before the last write.
LEMMA PageStep ==
  ASSUME RestInv, PageInv, NEW r \in Requests, NEW c, rq' = [rq EXCEPT ![r] = c],
         UNCHANGED <<table, writes>> \/ (table' \in [Ids -> {Absent, Old, New}] /\ writes' = writes + 1),
         PageOK(c, writes', Standing')
  PROVE  PageInv'
<1>1. rq'[r] = c /\ \A q \in Requests \ {r} : rq'[q] = rq[q]
  BY DEF RestInv
<1>2. table' \in [Ids -> {Absent, Old, New}] /\ writes' \in Nat
  BY DEF PageInv
<1>3. ASSUME NEW q \in Requests PROVE PageOK(rq'[q], writes', Standing')
  <2>1. CASE q = r
    BY <1>1, <2>1 DEF PageOK, InTotal, Standing
  <2>2. CASE q # r
    <3>1. rq'[q] = rq[q] /\ PageOK(rq[q], writes, Standing) /\ writes \in Nat
      BY <1>1, <2>2 DEF PageInv
    <3>2. CASE UNCHANGED <<table, writes>>
      BY <3>1, <3>2 DEF PageOK, InTotal, Standing
    <3>3. CASE writes' = writes + 1
      <4>1. rq[q].at \in Nat /\ rq[q].at <= writes' /\ rq[q].at # writes'
        BY <3>1, <3>3 DEF PageOK
      <4> QED BY <3>1, <4>1 DEF PageOK
    <3> QED BY <3>2, <3>3
  <2> QED BY <2>1, <2>2
<1> QED BY <1>2, <1>3 DEF PageInv

\* A request that writes, or that has failed, has no page to keep.
LEMMA Unpaged ==
  ASSUME RestInv, PageInv, NEW r \in Requests, NEW c, rq' = [rq EXCEPT ![r] = c],
         UNCHANGED <<table, writes>> \/ (table' \in [Ids -> {Absent, Old, New}] /\ writes' = writes + 1),
         c.at = rq[r].at, c.shape.op = rq[r].shape.op, c.shape.from = rq[r].shape.from, c.shape.limit = rq[r].shape.limit,
         rq[r].pc # "idle",
         \/ rq[r].pc \in Writing \cup {"publish"} /\ c.pc \in Writing \cup {"publish", "answered"}
         \/ c.pc = "answered" /\ c.status # 200
  PROVE  PageInv'
<1>1. PageOK(rq[r], writes, Standing) /\ writes \in Nat /\ writes' \in Nat /\ writes <= writes'
  BY DEF PageInv
<1>2. PageOK(c, writes', Standing')
  BY <1>1 DEF PageOK, Writing, Reading
<1> QED BY <1>2, PageStep

LEMMA FailsKeepsPages ==
  ASSUME RestInv, PageInv, NEW r \in Requests, NEW status, status # 200, Respond(r, status), rq[r].pc # "idle",
         UNCHANGED <<table, writes>>
  PROVE  PageInv'
<1> DEFINE c == [rq[r] EXCEPT !.pc = "answered", !.status = status, !.own = NoRequest.own, !.targets = {}]
<1>1. rq' = [rq EXCEPT ![r] = c]
  BY DEF Respond, Continue
<1>2. c.shape = rq[r].shape /\ c.pc = "answered" /\ c.status = status /\ c.at = rq[r].at
  BY RequestFacts
<1> HIDE DEF c
<1> QED BY <1>1, <1>2, Unpaged

LEMMA FailureIsNone ==
  ASSUME NEW r, NEW failure, Fails(r, failure)
  PROVE  UNCHANGED <<table, writes>> /\ \E status : status # 200 /\ Respond(r, status)
<1>1. SqlStateStatus(failure, rq[r].shape.role) # 200
  BY DEF SqlStateStatus
<1> QED BY <1>1 DEF Fails

LEMMA BeginKeepsPages ==
  ASSUME RestInv, PageInv, NEW r \in Requests, NEW shape \in Shapes, Begin(r, shape), UNCHANGED backend
  PROVE  PageInv'
<1> DEFINE refused == CASE shape.op = "rpc" -> Refusal(shape)
                        [] shape.op = "post" /\ shape.resolution = "malformed" -> 400
                        [] OTHER -> 0
           pc == IF refused = 0 THEN FirstStatement(shape) ELSE "answered"
           c == [rq[r] EXCEPT !.shape = shape, !.status = refused, !.pc = pc]
<1>1. rq' = [rq EXCEPT ![r] = c] /\ UNCHANGED <<table, writes>> /\ rq[r].pc = "idle"
  BY DEF Begin, Continue, At
<1>2. refused # 200
  BY DEF Refusal
<1>3. /\ pc \notin {"idle", "singular", "publish"}
      /\ pc \in Writing => shape.op # "get"
      /\ pc = "count" => shape.op = "head"
  BY DEF FirstStatement, ChangeStatement, Writing
<1> HIDE DEF refused, pc
<1>4. rq[r] = NoRequest
  BY <1>1 DEF RestInv
<1>5. c.shape = shape /\ c.pc = pc /\ c.status = refused /\ c.at = 0 /\ c.body = <<>>
  BY <1>4 DEF NoRequest
<1> HIDE DEF c
<1>6. shape.from \in Nat /\ shape.limit \in Nat /\ writes \in Nat
  BY ShapesAssumption DEF PageInv
<1>7. PageOK(c, writes', Standing')
  BY <1>1, <1>2, <1>3, <1>5, <1>6 DEF PageOK, InTotal
<1> QED BY <1>1, <1>7, PageStep

LEMMA SelectPageKeepsPages ==
  ASSUME RestInv, PageInv, NEW r \in Requests, SelectPage(r), UNCHANGED backend
  PROVE  PageInv'
<1>1. PICK hits \in Ordered(Matching(r)) :
          rq' = [rq EXCEPT ![r] = [rq[r] EXCEPT !.body = Page(hits, rq[r].shape), !.at = writes,
                                                !.pc = IF rq[r].shape.count THEN "count" ELSE "singular"]]
  BY DEF SelectPage, Continue
<1> DEFINE body == Page(hits, rq[r].shape)
           pc == IF rq[r].shape.count THEN "count" ELSE "singular"
           c == [rq[r] EXCEPT !.body = body, !.at = writes, !.pc = pc]
<1>2. rq' = [rq EXCEPT ![r] = c] /\ UNCHANGED <<table, writes>> /\ rq[r].pc = "select"
  BY <1>1 DEF SelectPage, At
<1>3. /\ rq[r].shape.from \in Nat /\ rq[r].shape.limit \in Nat /\ writes \in Nat
      /\ hits \in Ordered(Standing) /\ Standing \in SUBSET Ids
  BY <1>2, StandingMatch DEF PageInv, PageOK, Reading, Standing
<1>4. body # <<>> => rq[r].shape.from + Len(body) <= Cardinality(Standing)
  BY <1>3, PageFits
<1> HIDE DEF body
<1>5. pc \in {"count", "singular"} /\ (pc = "singular" => ~rq[r].shape.count)
  OBVIOUS
<1> HIDE DEF pc
<1>6. c.shape = rq[r].shape /\ c.pc = pc /\ c.at = writes /\ c.body = body
  BY RequestFacts
<1> HIDE DEF c
<1>7. PageOK(c, writes, Standing)
  BY <1>3, <1>4, <1>5, <1>6 DEF PageOK, InTotal, Writing
<1>8. PageOK(c, writes', Standing')
  BY <1>2, <1>7 DEF PageOK, InTotal, Standing
<1> QED BY <1>2, <1>8, PageStep

LEMMA CountRowsKeepsPages ==
  ASSUME RestInv, PageInv, NEW r \in Requests, CountRows(r), UNCHANGED backend
  PROVE  PageInv'
<1> DEFINE total == Cardinality(Matching(r))
           c == [rq[r] EXCEPT !.total = total, !.pc = "singular"]
<1>1. rq' = [rq EXCEPT ![r] = c] /\ UNCHANGED <<table, writes>> /\ rq[r].pc = "count"
  BY DEF CountRows, Continue, At
<1>2. total = Cardinality(Standing) /\ PageOK(rq[r], writes, Standing)
  BY <1>1, StandingMatch DEF Reading, PageInv
<1> HIDE DEF total
<1>3. c.shape = rq[r].shape /\ c.pc = "singular" /\ c.at = rq[r].at /\ c.body = rq[r].body /\ c.total = total
  BY RequestFacts
<1> HIDE DEF c
<1>4. PageOK(c, writes, Standing)
  BY <1>1, <1>2, <1>3 DEF PageOK, InTotal, Writing
<1>5. PageOK(c, writes', Standing')
  BY <1>1, <1>4 DEF PageOK, InTotal, Standing
<1> QED BY <1>1, <1>5, PageStep

LEMMA PageResponseKeepsPages ==
  ASSUME RestInv, PageInv, NEW r \in Requests, PageResponse(r), UNCHANGED backend
  PROVE  PageInv'
<1> DEFINE status == IF rq[r].shape.op = "get" /\ rq[r].shape.singular /\ Len(rq[r].body) # 1 THEN 406 ELSE 200
           c == [rq[r] EXCEPT !.pc = "answered", !.status = status, !.own = NoRequest.own, !.targets = {}]
<1>1. rq' = [rq EXCEPT ![r] = c] /\ UNCHANGED <<table, writes>> /\ rq[r].pc = "singular"
  BY DEF PageResponse, Respond, Continue, At
<1> HIDE DEF status
<1>2. c.shape = rq[r].shape /\ c.pc = "answered" /\ c.at = rq[r].at /\ c.body = rq[r].body /\ c.total = rq[r].total
  BY RequestFacts
<1> HIDE DEF c
<1>3. PageOK(rq[r], writes, Standing)
  BY DEF PageInv
<1>4. PageOK(c, writes, Standing)
  BY <1>1, <1>2, <1>3 DEF PageOK, InTotal, Writing
<1>5. PageOK(c, writes', Standing')
  BY <1>1, <1>4 DEF PageOK, InTotal, Standing
<1> QED BY <1>1, <1>5, PageStep

\* A statement's row is the transaction's own, or in memory the table's.
LEMMA WriteRowKeepsPages ==
  ASSUME RestInv, PageInv, NEW r \in Requests, NEW i \in Ids, NEW value \in {Absent, Old, New}, NEW next,
         WriteRow(r, i, value, next), next.at = rq[r].at, next.shape.op = rq[r].shape.op,
         next.shape.from = rq[r].shape.from, next.shape.limit = rq[r].shape.limit,
         rq[r].pc \in Writing \ {"idle"}, next.pc \in Writing, DOMAIN next = DOMAIN NoRequest
  PROVE  PageInv'
<1>1. CASE backend = "postgres"
  <2> DEFINE c == [next EXCEPT !.own[i] = value]
  <2>1. rq' = [rq EXCEPT ![r] = c] /\ UNCHANGED <<table, writes>>
    BY <1>1 DEF WriteRow, Continue
  <2>2. c.shape = next.shape /\ c.pc = next.pc /\ c.at = next.at
    BY DEF NoRequest
  <2> HIDE DEF c
  <2> QED BY <2>1, <2>2, Unpaged
<1>2. CASE backend # "postgres"
  <2>1. rq' = [rq EXCEPT ![r] = next] /\ writes' = writes + 1 /\ table' = [table EXCEPT ![i] = value]
    BY <1>2 DEF WriteRow, Continue
  <2>2. table' \in [Ids -> {Absent, Old, New}]
    BY <2>1 DEF PageInv
  <2> QED BY <2>1, <2>2, Unpaged
<1> QED BY <1>1, <1>2

LEMMA InsertRowKeepsPages ==
  ASSUME RestInv, PageInv, NEW r \in Requests, InsertRow(r), UNCHANGED backend
  PROVE  PageInv'
<1> DEFINE shape == rq[r].shape
           i == Head(shape.rows)
           pc == IF Len(shape.rows) = 1 THEN "result" ELSE "insert"
           rest == [rq[r] EXCEPT !.shape.rows = Tail(@), !.pc = pc]
           more == [rest EXCEPT !.body = Append(@, i)]
<1>1. rq[r].pc = "insert" /\ shape.rows \in Seq(Ids) \ {<<>>}
  BY RequestFacts DEF InsertRow, At, RequestInv, RequestOK
<1>2. i \in Ids
  BY <1>1, HeadTailProperties
<1>3. pc \in Writing \ {"idle"}
  BY DEF Writing
<1> HIDE DEF i, pc
<1>4. /\ DOMAIN rest = DOMAIN NoRequest /\ rest.pc = pc /\ rest.at = rq[r].at
      /\ rest.shape.op = shape.op /\ rest.shape.from = shape.from /\ rest.shape.limit = shape.limit
  BY RequestFacts DEF NoRequest, NoShape
<1> HIDE DEF rest
<1>5. /\ DOMAIN more = DOMAIN NoRequest /\ more.pc = rest.pc /\ more.at = rest.at /\ more.shape = rest.shape
  BY <1>4 DEF NoRequest
<1> HIDE DEF more
<1>6. \/ Fails(r, "25006") \/ Fails(r, "23505")
      \/ rq' = [rq EXCEPT ![r] = rest] /\ UNCHANGED <<table, writes>>
      \/ WriteRow(r, i, Old, more)
  BY DEF InsertRow, Continue, i, rest, pc, more
<1>7. CASE Fails(r, "25006") \/ Fails(r, "23505")
  BY <1>1, <1>7, FailureIsNone, FailsKeepsPages
<1>8. CASE rq' = [rq EXCEPT ![r] = rest] /\ UNCHANGED <<table, writes>>
  BY <1>1, <1>3, <1>4, <1>8, Unpaged DEF Writing
<1>9. CASE WriteRow(r, i, Old, more)
  BY <1>1, <1>2, <1>3, <1>4, <1>5, <1>9, WriteRowKeepsPages DEF Writing
<1> QED BY <1>6, <1>7, <1>8, <1>9

LEMMA SelectPreviousKeepsPages ==
  ASSUME RestInv, PageInv, NEW r \in Requests, SelectPrevious(r)
  PROVE  PageInv'
<1> DEFINE pc == ChangeStatement(rq[r].shape)
           c == [rq[r] EXCEPT !.pc = pc]
<1>1. rq' = [rq EXCEPT ![r] = c] /\ UNCHANGED <<table, writes>> /\ rq[r].pc = "previous"
  BY DEF SelectPrevious, Continue, At
<1>2. pc \in Writing
  BY DEF ChangeStatement, Writing
<1> HIDE DEF pc
<1>3. c.shape = rq[r].shape /\ c.pc = pc /\ c.at = rq[r].at
  BY RequestFacts
<1> HIDE DEF c
<1> QED BY <1>1, <1>2, <1>3, Unpaged DEF Writing

LEMMA SelectIdsKeepsPages ==
  ASSUME RestInv, PageInv, NEW r \in Requests, SelectIds(r)
  PROVE  PageInv'
<1> DEFINE ids == Matching(r)
           pc == IF ids = {} THEN "result" ELSE "match"
           c == [rq[r] EXCEPT !.targets = ids, !.pc = pc]
<1>1. rq' = [rq EXCEPT ![r] = c] /\ UNCHANGED <<table, writes>> /\ rq[r].pc = "ids"
  BY DEF SelectIds, Continue, At
<1> HIDE DEF ids
<1>2. pc \in Writing
  BY DEF Writing
<1> HIDE DEF pc
<1>3. c.shape = rq[r].shape /\ c.pc = pc /\ c.at = rq[r].at
  BY RequestFacts
<1> HIDE DEF c
<1> QED BY <1>1, <1>2, <1>3, Unpaged DEF Writing

LEMMA MatchRowsKeepsPages ==
  ASSUME RestInv, PageInv, NEW r \in Requests, MatchRows(r)
  PROVE  PageInv'
<1> DEFINE targets == IF rq[r].shape.or THEN {i \in rq[r].targets : View(r)[i] # Absent} ELSE Matching(r)
           c == [rq[r] EXCEPT !.pc = "write", !.targets = targets]
<1>1. rq[r].pc = "match"
  BY DEF MatchRows, At
<1>2. CASE Fails(r, "25006")
  BY <1>1, <1>2, FailureIsNone, FailsKeepsPages
<1>3. CASE rq' = [rq EXCEPT ![r] = c] /\ UNCHANGED <<table, writes>>
  <2> HIDE DEF targets
  <2>1. c.shape = rq[r].shape /\ c.pc = "write" /\ c.at = rq[r].at
    BY RequestFacts
  <2> HIDE DEF c
  <2> QED BY <1>1, <1>3, <2>1, Unpaged DEF Writing
<1> QED BY <1>2, <1>3 DEF MatchRows, Continue

LEMMA VisitRowKeepsPages ==
  ASSUME RestInv, PageInv, NEW r \in Requests, VisitRow(r)
  PROVE  PageInv'
<1>1. rq[r].pc = "write" /\ rq[r].targets \subseteq Ids
  BY RequestFacts DEF VisitRow, At, RequestInv, RequestOK
<1>2. CASE Continue(r, [rq[r] EXCEPT !.pc = "result"]) /\ UNCHANGED <<table, writes>>
  <2> DEFINE c == [rq[r] EXCEPT !.pc = "result"]
  <2>1. rq' = [rq EXCEPT ![r] = c]
    BY <1>2 DEF Continue
  <2>2. c.shape = rq[r].shape /\ c.pc = "result" /\ c.at = rq[r].at
    BY RequestFacts
  <2> HIDE DEF c
  <2> QED BY <1>1, <1>2, <2>1, <2>2, Unpaged DEF Writing
<1>3. ASSUME NEW i \in rq[r].targets,
             \/ WriteRow(r, i, IF rq[r].shape.op = "delete" THEN Absent ELSE New,
                         [[rq[r] EXCEPT !.targets = @ \ {i}] EXCEPT !.body = Append(@, i)])
             \/ Continue(r, [rq[r] EXCEPT !.targets = @ \ {i}]) /\ UNCHANGED <<table, writes>>
      PROVE  PageInv'
  <2> DEFINE left == [rq[r] EXCEPT !.targets = @ \ {i}]
             more == [left EXCEPT !.body = Append(@, i)]
             value == IF rq[r].shape.op = "delete" THEN Absent ELSE New
  <2>1. i \in Ids /\ value \in {Absent, Old, New}
    BY <1>1
  <2>2. WriteRow(r, i, value, more) \/ (rq' = [rq EXCEPT ![r] = left] /\ UNCHANGED <<table, writes>>)
    BY <1>3 DEF Continue
  <2> HIDE DEF value
  <2>3. DOMAIN left = DOMAIN NoRequest /\ left.shape = rq[r].shape /\ left.pc = "write" /\ left.at = rq[r].at
    BY <1>1, RequestFacts DEF NoRequest
  <2> HIDE DEF left
  <2>4. DOMAIN more = DOMAIN NoRequest /\ more.shape = left.shape /\ more.pc = "write" /\ more.at = left.at
    BY <2>3 DEF NoRequest
  <2> HIDE DEF more
  <2>5. CASE WriteRow(r, i, value, more)
    BY <1>1, <2>1, <2>3, <2>4, <2>5, WriteRowKeepsPages DEF Writing
  <2>6. CASE rq' = [rq EXCEPT ![r] = left] /\ UNCHANGED <<table, writes>>
    BY <1>1, <2>3, <2>6, Unpaged DEF Writing
  <2> QED BY <2>2, <2>5, <2>6
<1> QED BY <1>2, <1>3 DEF VisitRow

LEMMA CommitTable ==
  ASSUME RestInv, PageInv, NEW r \in Requests, CommitOwn(r)
  PROVE  UNCHANGED <<table, writes>> \/ (table' \in [Ids -> {Absent, Old, New}] /\ writes' = writes + 1)
<1>1. table' = [i \in Ids |-> IF rq[r].own[i] = Unwritten THEN table[i] ELSE rq[r].own[i]]
  BY DEF CommitOwn, View
<1>2. rq[r].own \in [Ids -> {Absent, Old, New, Unwritten}] /\ table \in [Ids -> {Absent, Old, New}]
  BY RequestFacts DEF RequestInv, RequestOK, PageInv
<1>3. table' \in [Ids -> {Absent, Old, New}]
  BY <1>1, <1>2
<1>4. CASE Committed(r) = {}
  <2>1. \A i \in Ids : table'[i] = table[i]
    BY <1>1, <1>4 DEF Committed
  <2>2. table' = table
    BY <1>2, <1>3, <2>1
  <2> QED BY <1>4, <2>2 DEF CommitOwn
<1>5. CASE Committed(r) # {}
  BY <1>3, <1>5 DEF CommitOwn
<1> QED BY <1>4, <1>5

\* A request that writes commits, is announced or is answered.
LEMMA CommitKeepsPages ==
  ASSUME RestInv, PageInv, NEW r \in Requests, rq[r].pc \in {"result", "publish"},
         CommitOwn(r) \/ UNCHANGED <<table, writes>>,
         \/ \E status : Respond(r, status)
         \/ Continue(r, [rq[r] EXCEPT !.pc = "publish", !.own = NoRequest.own])
  PROVE  PageInv'
<1>1. PICK c : /\ rq' = [rq EXCEPT ![r] = c] /\ c.shape = rq[r].shape /\ c.at = rq[r].at
               /\ c.pc \in {"publish", "answered"}
  <2>1. ASSUME NEW status, Respond(r, status)
        PROVE  \E c : /\ rq' = [rq EXCEPT ![r] = c] /\ c.shape = rq[r].shape /\ c.at = rq[r].at /\ c.pc = "answered"
    <3> DEFINE c == [rq[r] EXCEPT !.pc = "answered", !.status = status, !.own = NoRequest.own, !.targets = {}]
    <3>1. rq' = [rq EXCEPT ![r] = c]
      BY <2>1 DEF Respond, Continue
    <3>2. c.shape = rq[r].shape /\ c.pc = "answered" /\ c.at = rq[r].at
      BY RequestFacts
    <3> HIDE DEF c
    <3> QED BY <3>1, <3>2
  <2>2. CASE Continue(r, [rq[r] EXCEPT !.pc = "publish", !.own = NoRequest.own])
    <3> DEFINE c == [rq[r] EXCEPT !.pc = "publish", !.own = NoRequest.own]
    <3>1. rq' = [rq EXCEPT ![r] = c]
      BY <2>2 DEF Continue
    <3>2. c.shape = rq[r].shape /\ c.pc = "publish" /\ c.at = rq[r].at
      BY RequestFacts
    <3> HIDE DEF c
    <3> QED BY <3>1, <3>2
  <2> QED BY <2>1, <2>2
<1> QED BY <1>1, CommitTable, Unpaged DEF Writing

LEMMA MutationResultKeepsPages ==
  ASSUME RestInv, PageInv, NEW r \in Requests, MutationResult(r) \/ Publish(r)
  PROVE  PageInv'
<1>1. rq[r].pc \in {"result", "publish"}
  BY DEF MutationResult, Publish, At
<1>2. CommitOwn(r) \/ UNCHANGED <<table, writes>>
  BY DEF MutationResult, Publish
<1>3. \/ \E status : Respond(r, status)
      \/ Continue(r, [rq[r] EXCEPT !.pc = "publish", !.own = NoRequest.own])
  BY DEF MutationResult, Publish
<1> QED BY <1>1, <1>2, <1>3, CommitKeepsPages

LEMMA ConnectionLostKeepsPages ==
  ASSUME RestInv, PageInv, NEW r \in Requests, ConnectionLost(r)
  PROVE  PageInv'
<1>1. rq[r].pc # "idle" /\ Respond(r, 500)
  BY DEF ConnectionLost, InStatement
<1>2. CASE UNCHANGED <<table, writes>>
  BY <1>1, <1>2, FailsKeepsPages
<1>3. CASE rq[r].pc = "result" /\ CommitOwn(r)
  BY <1>1, <1>3, CommitKeepsPages
<1> QED BY <1>2, <1>3 DEF ConnectionLost, At

LEMMA PagesKeep ==
  RestInv /\ PageInv /\ [RestNext]_restVars => PageInv'
<1> SUFFICES ASSUME RestInv, PageInv, [RestNext]_restVars PROVE PageInv'
  OBVIOUS
<1>1. ASSUME NEW r \in Requests, DatabaseFails(r) \/ DeadlockFound(r) PROVE PageInv'
  <2>1. rq[r].pc # "idle" /\ \E failure : Fails(r, failure)
    BY <1>1 DEF DatabaseFails, InStatement, DeadlockFound, Waits, Wanted, At
  <2> QED BY <2>1, FailureIsNone, FailsKeepsPages
<1>2. CASE UNCHANGED restVars
  <2>1. UNCHANGED <<rq, table, writes>>
    BY <1>2 DEF restVars
  <2> QED BY <2>1 DEF PageInv, PageOK, InTotal, Standing
<1> QED BY <1>1, <1>2, BeginKeepsPages, SelectPageKeepsPages, CountRowsKeepsPages, PageResponseKeepsPages,
           InsertRowKeepsPages, SelectPreviousKeepsPages, SelectIdsKeepsPages, MatchRowsKeepsPages,
           VisitRowKeepsPages, MutationResultKeepsPages, ConnectionLostKeepsPages DEF RestNext

LEMMA PagesBegin ==
  RestInit => PageInv
<1> SUFFICES ASSUME RestInit PROVE PageInv
  OBVIOUS
<1>1. table \in [Ids -> {Absent, Old, New}] /\ writes = 0
  BY DEF RestInit
<1>2. NoRequest.pc = "idle" /\ NoRequest.at = 0
  BY DEF NoRequest
<1> QED BY <1>1, <1>2 DEF RestInit, PageInv, PageOK

\* On PostgreSQL a request that is refused has changed nothing, one that is answered 500 nothing or
\* all that it would have answered, and an agent's changes nothing but by a supply function; on
\* either database a mutation that succeeds answers exactly the rows it has changed; a page lies
\* within the total it is answered with unless something was written in between: for any rows,
\* requests and faults, however they overlap (postgrest.ts).
THEOREM RequestsAllOrNothing ==
  RestSpec => []AllOrNothing /\ []AnswerIsEffect /\ []PageWithinTotal /\ []AgentsOnlySupply
<1>1. RestInv => AllOrNothing
  BY DEF RestInv, RequestInv, Gathered, TookEffect, AllOrNothing
<1>2. RestInv => AnswerIsEffect
  BY DEF RestInv, RequestInv, Gathered, AnswerIsEffect
<1>3. RestInv => AgentsOnlySupply
  BY DEF RestInv, RequestInv, Harmless, AgentsOnlySupply
<1>4. PageInv => PageWithinTotal
  BY DEF PageInv, PageOK, InTotal, PageWithinTotal
<1> QED BY <1>1, <1>2, <1>3, <1>4, RestBegins, RestKeeps, PagesBegin, PagesKeep, PTL DEF RestSpec

(***************************************************************************)
(* The roles of requests.                                                  *)
(*                                                                         *)
(* What a transaction saw stays as it saw it, what it made nobody else     *)
(* has, and past its CREATEs it has seen or made every role (Known).  A    *)
(* role that it did not see and that is there by now is another's, which   *)
(* serves (Met).                                                           *)
(***************************************************************************)
Starter == [pc : {"new", "create", "grant", "verify", "commit", "serving", "failed", "lost"},
            saw : SUBSET AllRoles, made : SUBSET AllRoles, gave : SUBSET AllRoles]
InTransaction(x) == x.pc \in {"create", "grant", "verify", "commit"}
SomebodyServes == \E s \in Starters : starter[s].pc = "serving"
CanSetAll(gave) == power = "superuser" \/ AllRoles \subseteq settable \cup gave

\* What a transaction relies on.
Known(x) ==
    /\ InTransaction(x) =>
          /\ \A r \in AllRoles : cluster[r] # "unsafe" /\ (r \in x.saw => cluster[r] = "safe")
          /\ \A r \in x.made : cluster[r] = "missing"
    /\ ~InTransaction(x) => x.made = {}
    /\ x.pc \in {"grant", "verify", "commit"} => AllRoles \subseteq x.saw \cup x.made
    /\ x.pc = "commit" => CanSetAll(x.gave)
    /\ x.pc = "serving" => CanSetAll({}) /\ \A r \in AllRoles : cluster[r] = "safe"
Met(x) ==
    /\ InTransaction(x) => \A r \in AllRoles : cluster[r] # "missing" => r \in x.saw \/ SomebodyServes
    /\ x.pc = "failed" /\ power = "superuser" /\ (\A r \in AllRoles : cluster[r] # "unsafe") => SomebodyServes
RoleInv ==
    /\ cluster \in [AllRoles -> {"missing", "safe", "unsafe"}] /\ power \in {"none", "createrole", "superuser"}
    /\ settable \cup owned \subseteq AllRoles /\ starter \in [Starters -> Starter]
    /\ \A s \in Starters : Known(starter[s]) /\ Met(starter[s])
    /\ \A s, t \in Starters : starter[s].made \cap starter[t].made # {} => s = t
    /\ AllRolesOrNone

\* A step of one transaction that leaves the cluster alone.
LEMMA StarterStep ==
  ASSUME RoleInv, NEW s \in Starters, NEW x \in Starter, starter' = [starter EXCEPT ![s] = x],
         UNCHANGED <<cluster, settable, owned, power>>, starter[s].pc # "serving", x.pc # "serving", Known(x), Met(x),
         \A t \in Starters \ {s} : x.made \cap starter[t].made = {}
  PROVE  RoleInv'
<1>1. starter' \in [Starters -> Starter] /\ starter'[s] = x /\ \A t \in Starters \ {s} : starter'[t] = starter[t]
  BY DEF RoleInv
<1>2. SomebodyServes' <=> SomebodyServes
  BY <1>1 DEF SomebodyServes
<1>3. \A y : (Known(y)' <=> Known(y)) /\ (Met(y)' <=> Met(y))
  BY <1>2 DEF Known, Met, CanSetAll
<1>4. \A t \in Starters : Known(starter'[t]) /\ Met(starter'[t])
  BY <1>1 DEF RoleInv
<1>5. \A t \in Starters : Known(starter[t])' /\ Met(starter[t])'
  BY <1>3, <1>4
<1>6. \A t, u \in Starters : starter'[t].made \cap starter'[u].made # {} => t = u
  BY <1>1 DEF RoleInv
<1>7. AllRolesOrNone'
  BY DEF RoleInv, AllRolesOrNone
<1> QED BY <1>1, <1>5, <1>6, <1>7 DEF RoleInv

LEMMA NewStarter ==
  ASSUME RoleInv, NEW s \in Starters, NEW pc \in {"new", "lost", "failed"}, starter[s].pc # "serving",
         UNCHANGED <<cluster, settable, owned, power>>, starter' = [starter EXCEPT ![s] = [NotStarted EXCEPT !.pc = pc]],
         pc = "failed" /\ power = "superuser" /\ (\A r \in AllRoles : cluster[r] # "unsafe") => SomebodyServes
  PROVE  RoleInv'
<1> DEFINE x == [NotStarted EXCEPT !.pc = pc]
<1>1. x \in Starter /\ x.pc = pc /\ x.made = {}
  BY DEF NotStarted, Starter
<1>2. starter' = [starter EXCEPT ![s] = x]
  OBVIOUS
<1> HIDE DEF x
<1>3. Known(x) /\ Met(x)
  BY <1>1 DEF Known, Met, InTransaction
<1> QED BY <1>1, <1>2, <1>3, StarterStep

LEMMA LoadRolesKeeps ==
  ASSUME RoleInv, NEW s \in Starters, LoadRoles(s)
  PROVE  RoleInv'
<1> DEFINE existing == {r \in AllRoles : cluster[r] # "missing"}
<1>1. starter[s].pc = "new" /\ UNCHANGED <<cluster, settable, owned, power>> /\ starter[s] \in Starter
  BY DEF LoadRoles, RoleInv
<1>2. CASE \E r \in existing : cluster[r] = "unsafe"
  <2>1. starter' = [starter EXCEPT ![s] = [NotStarted EXCEPT !.pc = "failed"]]
    BY <1>2 DEF LoadRoles, RoleFails
  <2> QED BY <1>1, <1>2, <2>1, NewStarter
<1>3. CASE ~\E r \in existing : cluster[r] = "unsafe"
  <2> DEFINE x == [starter[s] EXCEPT !.pc = "create", !.saw = existing]
  <2>1. starter' = [starter EXCEPT ![s] = x]
    BY <1>3 DEF LoadRoles
  <2>2. existing \subseteq AllRoles
    OBVIOUS
  <2>3. starter[s].made = {}
    BY <1>1 DEF RoleInv, Known, InTransaction
  <2> HIDE DEF existing
  <2>4. x \in Starter /\ x.pc = "create" /\ x.saw = existing /\ x.made = {}
    BY <1>1, <2>2, <2>3 DEF Starter
  <2> HIDE DEF x
  <2>5. Known(x) /\ Met(x)
    BY <1>3, <2>4 DEF existing, Known, Met, InTransaction, RoleInv
  <2> QED BY <1>1, <2>1, <2>4, <2>5, StarterStep
<1> QED BY <1>2, <1>3

LEMMA CreateRoleKeeps ==
  ASSUME RoleInv, NEW s \in Starters, CreateRole(s)
  PROVE  RoleInv'
<1> DEFINE left == {i \in DOMAIN RoleOrder : RoleOrder[i] \notin starter[s].saw \cup starter[s].made}
           role == RoleOrder[CHOOSE i \in left : \A j \in left : i <= j]
<1>1. starter[s].pc = "create" /\ UNCHANGED <<cluster, settable, owned, power>> /\ starter[s] \in Starter
  BY DEF CreateRole, RoleInv
<1>2. Known(starter[s]) /\ Met(starter[s])
  BY DEF RoleInv
<1>3. DOMAIN RoleOrder \subseteq Nat
  BY RoleOrderIsList, LenProperties
<1>4. CASE left = {}
  <2> DEFINE x == [starter[s] EXCEPT !.pc = "grant"]
  <2>1. starter' = [starter EXCEPT ![s] = x]
    BY <1>4 DEF CreateRole, RoleGoes
  <2>2. x \in Starter /\ x.pc = "grant" /\ x.saw = starter[s].saw /\ x.made = starter[s].made
    BY <1>1 DEF Starter
  <2>3. AllRoles \subseteq x.saw \cup x.made
    BY <1>4, <2>2 DEF AllRoles, ToSet
  <2> HIDE DEF x
  <2>4. Known(x) /\ Met(x)
    BY <1>1, <1>2, <2>2, <2>3 DEF Known, Met, InTransaction
  <2>5. \A t \in Starters \ {s} : x.made \cap starter[t].made = {}
    BY <2>2 DEF RoleInv
  <2> QED BY <1>1, <2>1, <2>2, <2>4, <2>5, StarterStep
<1>5. CASE left # {}
  <2>1. \E i \in left : \A j \in left : i <= j
    BY <1>3, <1>5, LeastElement
  <2>2. role \in AllRoles /\ role \notin starter[s].saw \cup starter[s].made
    <3>1. PICK i \in left : role = RoleOrder[i]
      BY <2>1
    <3> QED BY <3>1 DEF AllRoles, ToSet
  <2> HIDE DEF role
  <2>3. CASE power = "none"
    <3>1. starter' = [starter EXCEPT ![s] = [NotStarted EXCEPT !.pc = "failed"]]
      BY <1>5, <2>3 DEF CreateRole, RoleFails
    <3> QED BY <1>1, <2>3, <3>1, NewStarter
  <2>4. CASE power # "none" /\ cluster[role] # "missing"
    <3>1. starter' = [starter EXCEPT ![s] = [NotStarted EXCEPT !.pc = "failed"]]
      BY <1>5, <2>4 DEF CreateRole, RoleFails, role
    <3>2. SomebodyServes
      BY <1>1, <1>2, <2>2, <2>4 DEF Met, InTransaction
    <3> QED BY <1>1, <3>1, <3>2, NewStarter
  <2>5. CASE power # "none" /\ cluster[role] = "missing"
    <3> DEFINE x == [starter[s] EXCEPT !.made = @ \cup {role}]
    <3>1. starter' = [starter EXCEPT ![s] = x] /\ \A t \in Starters \ {s} : role \notin starter[t].made
      BY <1>5, <2>5 DEF CreateRole, role
    <3>2. x \in Starter /\ x.pc = "create" /\ x.saw = starter[s].saw /\ x.made = starter[s].made \cup {role}
      BY <1>1, <2>2 DEF Starter
    <3> HIDE DEF x
    <3>3. Known(x) /\ Met(x)
      BY <1>1, <1>2, <2>5, <3>2 DEF Known, Met, InTransaction
    <3>4. \A t \in Starters \ {s} : x.made \cap starter[t].made = {}
      BY <3>1, <3>2 DEF RoleInv
    <3> QED BY <1>1, <3>1, <3>2, <3>3, <3>4, StarterStep
  <2> QED BY <2>3, <2>4, <2>5
<1> QED BY <1>4, <1>5

LEMMA GrantRolesKeeps ==
  ASSUME RoleInv, NEW s \in Starters, GrantRoles(s)
  PROVE  RoleInv'
<1> DEFINE lacking == IF power = "superuser" THEN {} ELSE AllRoles \ settable
           x == [starter[s] EXCEPT !.pc = "verify", !.gave = lacking]
<1>1. starter[s].pc = "grant" /\ UNCHANGED <<cluster, settable, owned, power>> /\ starter[s] \in Starter
  BY DEF GrantRoles, RoleInv
<1>2. CASE lacking \subseteq owned \cup starter[s].made
  <2>1. starter' = [starter EXCEPT ![s] = x]
    BY <1>2 DEF GrantRoles
  <2>2. x \in Starter /\ x.pc = "verify" /\ x.saw = starter[s].saw /\ x.made = starter[s].made
    BY <1>1 DEF Starter
  <2> HIDE DEF x
  <2>3. Known(x) /\ Met(x)
    BY <1>1, <2>2 DEF Known, Met, InTransaction, RoleInv
  <2>4. \A t \in Starters \ {s} : x.made \cap starter[t].made = {}
    BY <2>2 DEF RoleInv
  <2> QED BY <1>1, <2>1, <2>2, <2>3, <2>4, StarterStep
<1>3. CASE ~(lacking \subseteq owned \cup starter[s].made)
  <2>1. starter' = [starter EXCEPT ![s] = [NotStarted EXCEPT !.pc = "failed"]]
    BY <1>3 DEF GrantRoles, RoleFails
  <2>2. power # "superuser"
    BY <1>3
  <2> QED BY <1>1, <2>1, <2>2, NewStarter
<1> QED BY <1>2, <1>3

LEMMA AssertCanSetRoleKeeps ==
  ASSUME RoleInv, NEW s \in Starters, AssertCanSetRole(s)
  PROVE  RoleInv'
<1> DEFINE x == [starter[s] EXCEPT !.pc = "commit"]
<1>1. starter[s].pc = "verify" /\ UNCHANGED <<cluster, settable, owned, power>> /\ starter[s] \in Starter
  BY DEF AssertCanSetRole, RoleInv
<1>2. CASE CanSetAll(starter[s].gave)
  <2>1. starter' = [starter EXCEPT ![s] = x]
    BY <1>2 DEF AssertCanSetRole, RoleGoes, CanSetAll
  <2>2. x \in Starter /\ x.pc = "commit" /\ x.saw = starter[s].saw /\ x.made = starter[s].made /\ x.gave = starter[s].gave
    BY <1>1 DEF Starter
  <2> HIDE DEF x
  <2>3. Known(x) /\ Met(x)
    BY <1>1, <1>2, <2>2 DEF Known, Met, InTransaction, RoleInv
  <2>4. \A t \in Starters \ {s} : x.made \cap starter[t].made = {}
    BY <2>2 DEF RoleInv
  <2> QED BY <1>1, <2>1, <2>2, <2>3, <2>4, StarterStep
<1>3. CASE ~CanSetAll(starter[s].gave)
  <2>1. starter' = [starter EXCEPT ![s] = [NotStarted EXCEPT !.pc = "failed"]] /\ power # "superuser"
    BY <1>3 DEF AssertCanSetRole, RoleFails, CanSetAll
  <2> QED BY <1>1, <2>1, NewStarter
<1> QED BY <1>2, <1>3

LEMMA CommitRolesKeeps ==
  ASSUME RoleInv, NEW s \in Starters, CommitRoles(s)
  PROVE  RoleInv'
<1> DEFINE x == [NotStarted EXCEPT !.pc = "serving"]
<1>1. /\ starter[s].pc = "commit" /\ UNCHANGED power /\ starter[s] \in Starter
      /\ cluster' = [r \in AllRoles |-> IF r \in starter[s].made THEN "safe" ELSE cluster[r]]
      /\ settable' = settable \cup starter[s].gave /\ owned' = owned \cup starter[s].made
      /\ starter' = [starter EXCEPT ![s] = x]
  BY DEF CommitRoles, RoleInv
<1>2. x \in Starter /\ x.pc = "serving" /\ x.made = {}
  BY DEF NotStarted, Starter
<1> HIDE DEF x
<1>3. Known(starter[s])
  BY DEF RoleInv
<1>4. \A r \in AllRoles : cluster'[r] = "safe"
  BY <1>1, <1>3 DEF Known, InTransaction
<1>5. starter' \in [Starters -> Starter] /\ starter'[s] = x /\ \A t \in Starters \ {s} : starter'[t] = starter[t]
  BY <1>1, <1>2 DEF RoleInv
<1>6. SomebodyServes'
  BY <1>2, <1>5 DEF SomebodyServes
<1>7. CanSetAll({})'
  BY <1>1, <1>3 DEF Known, CanSetAll
<1>8. Known(x)' /\ Met(x)'
  BY <1>2, <1>4, <1>6, <1>7 DEF Known, Met, InTransaction
<1>9. ASSUME NEW t \in Starters \ {s}, NEW y, y = starter[t] PROVE Known(y)' /\ Met(y)'
  <2>1. Known(y) /\ y \in Starter /\ y.made \cap starter[s].made = {}
    BY <1>9 DEF RoleInv
  <2>2. Met(y)'
    BY <1>6 DEF Met
  <2>3. y.pc = "commit" => CanSetAll(y.gave)'
    BY <1>1, <2>1 DEF Known, CanSetAll
  <2>4. InTransaction(y) => \A r \in y.made : cluster'[r] = "missing"
    BY <1>1, <2>1 DEF Known, Starter
  <2> QED BY <1>4, <1>7, <2>1, <2>2, <2>3, <2>4 DEF Known
<1>10. \A t \in Starters : Known(starter[t])' /\ Met(starter[t])'
  BY <1>5, <1>8, <1>9
<1>11. \A t, u \in Starters : starter'[t].made \cap starter'[u].made # {} => t = u
  BY <1>2, <1>5 DEF RoleInv
<1>12. AllRolesOrNone'
  BY <1>4 DEF AllRolesOrNone
<1>13. cluster' \in [AllRoles -> {"missing", "safe", "unsafe"}] /\ settable' \cup owned' \subseteq AllRoles
  BY <1>1 DEF RoleInv, Starter
<1> QED BY <1>1, <1>5, <1>10, <1>11, <1>12, <1>13 DEF RoleInv

LEMMA RoleBegins ==
  RoleInit => RoleInv
<1> SUFFICES ASSUME RoleInit PROVE RoleInv
  OBVIOUS
<1>1. NotStarted \in Starter /\ NotStarted.pc = "new" /\ NotStarted.made = {}
  BY DEF NotStarted, Starter
<1>2. \A s \in Starters : starter[s] = NotStarted
  BY DEF RoleInit
<1>3. Known(NotStarted) /\ Met(NotStarted)
  BY <1>1 DEF Known, Met, InTransaction
<1>4. settable \cup owned \subseteq AllRoles /\ AllRolesOrNone
  BY DEF RoleInit, AllRolesOrNone
<1> QED BY <1>1, <1>2, <1>3, <1>4 DEF RoleInit, RoleInv

LEMMA RoleKeeps ==
  RoleInv /\ [RoleNext]_roleVars => RoleInv'
<1> SUFFICES ASSUME RoleInv, [RoleNext]_roleVars PROVE RoleInv'
  OBVIOUS
<1>1. ASSUME NEW s \in Starters, LoseConnection(s) \/ StartAgain(s) PROVE RoleInv'
  <2>1. CASE LoseConnection(s)
    BY <2>1, NewStarter DEF LoseConnection
  <2>2. CASE StartAgain(s)
    <3>1. NotStarted = [NotStarted EXCEPT !.pc = "new"]
      BY DEF NotStarted
    <3> QED BY <2>2, <3>1, NewStarter DEF StartAgain
  <2> QED BY <1>1, <2>1, <2>2
<1>2. CASE UNCHANGED roleVars
  <2>1. UNCHANGED <<cluster, settable, owned, power, starter>>
    BY <1>2 DEF roleVars
  <2> QED BY <2>1 DEF RoleInv, Known, Met, CanSetAll, SomebodyServes, AllRolesOrNone
<1> QED BY <1>1, <1>2, LoadRolesKeeps, CreateRoleKeeps, GrantRolesKeeps, AssertCanSetRoleKeeps, CommitRolesKeeps DEF RoleNext

\* A replica that serves may set each role, and none has more rights than it should; a start that
\* failed leaves no role of its own; and of replicas that start together on a cluster that can have the
\* roles one gets through, for any roles and however many replicas (postgres-role-bootstrap.ts).
THEOREM RolesAreAllOrNone == RoleSpec => []ServesIsolated /\ []AllRolesOrNone /\ []OneGetsThrough
<1>1. RoleInv => ServesIsolated
  BY DEF RoleInv, Known, CanSetAll, ServesIsolated
<1>2. RoleInv => OneGetsThrough
  BY StartersAssumption DEF RoleInv, Met, SomebodyServes, OneGetsThrough
<1>3. RoleInv => AllRolesOrNone
  BY DEF RoleInv
<1> QED BY <1>1, <1>2, <1>3, RoleBegins, RoleKeeps, PTL DEF RoleSpec

(***************************************************************************)
(* Who reaches the objects of storage.                                     *)
(*                                                                         *)
(* What a request does is decided by the policies of its own step; only a  *)
(* link carries what was decided before.  A link to upload was signed by   *)
(* one who may write (LinksOfWriters), and it never writes over an object. *)
(***************************************************************************)
LinksOfWriters ==
    /\ DOMAIN signed = Links
    /\ \A l \in Links : signed[l] # NoneThere /\ signed[l].method = "PUT" => ~signed[l].ctx.agent
OfTheLatest == PrivateStaysPrivate /\ OthersStay /\ AgentsOnlyRead /\ UploadLinksAdd
AccessInv == LinksOfWriters /\ OfTheLatest

LEMMA ReachKeeps ==
  ASSUME NEW ctx, NEW place, NEW by, Reach(ctx, place, by), by = "link" \/ MaySelect(ctx, place) \/ OpenToAll(place[1])
  PROVE  OfTheLatest'
BY DEF Reach, MaySelect, OfTheLatest, PrivateStaysPrivate, OthersStay, AgentsOnlyRead, UploadLinksAdd, Read, Replaced,
       Theirs, Own

LEMMA ChangeKeeps ==
  ASSUME NEW ctx, NEW place, NEW by, ChangeOf(ctx, place, by), MayWrite(ctx),
         There(place) => MayChange(ctx, place) /\ by # "link"
  PROVE  OfTheLatest'
BY DEF ChangeOf, MayWrite, MayChange, OfTheLatest, PrivateStaysPrivate, OthersStay, AgentsOnlyRead, UploadLinksAdd, Read,
       Replaced, Theirs, Own

LEMMA NothingKeeps ==
  latest' = NoneThere => OfTheLatest'
BY DEF OfTheLatest, PrivateStaysPrivate, OthersStay, AgentsOnlyRead, UploadLinksAdd, Read, Replaced

LEMMA AccessKeeps ==
  AccessInv /\ [AccessNext]_accessVars => AccessInv'
<1> SUFFICES ASSUME AccessInv, [AccessNext]_accessVars PROVE AccessInv'
  OBVIOUS
<1>1. ASSUME UNCHANGED signed, OfTheLatest' PROVE AccessInv'
  BY <1>1 DEF AccessInv, LinksOfWriters
<1>2. ASSUME NEW ctx \in Contexts, NEW b \in BucketNames, CreateBucket(ctx, b) \/ DeleteBucket(ctx, b) PROVE AccessInv'
  BY <1>1, <1>2, NothingKeeps DEF CreateBucket, DeleteBucket
<1>3. ASSUME NEW ctx \in Contexts, NEW b \in BucketNames, NEW prefix \in Listings, ListObjects(ctx, b, prefix) PROVE AccessInv'
  BY <1>1, <1>3, ReachKeeps DEF ListObjects
<1>4. ASSUME NEW ctx \in Contexts, NEW b \in BucketNames, NEW from \in ObjectNames, NEW to \in ObjectNames,
             CopyObject(ctx, b, from, to)
      PROVE  AccessInv'
  BY <1>1, <1>4, ChangeKeeps DEF CopyObject, Copies, Inserts
<1>5. ASSUME NEW ctx \in Contexts, NEW b \in BucketNames, NEW from \in ObjectNames, NEW to \in ObjectNames,
             MoveObject(ctx, b, from, to)
      PROVE  AccessInv'
  <2>1. MayWrite(ctx) /\ ~There(<<b, to>>) /\ UNCHANGED signed
    BY <1>5 DEF MoveObject, Copies, Inserts
  <2>2. CASE MayChange(ctx, <<b, from>>)
    <3>1. ChangeOf(ctx, <<b, from>>, "row")
      BY <1>5, <2>2 DEF MoveObject
    <3> QED BY <1>1, <2>1, <2>2, <3>1, ChangeKeeps
  <2>3. CASE ~MayChange(ctx, <<b, from>>)
    <3>1. ChangeOf(ctx, <<b, to>>, "row")
      BY <1>5, <2>3 DEF MoveObject
    <3> QED BY <1>1, <2>1, <3>1, ChangeKeeps
  <2> QED BY <2>2, <2>3
<1>6. ASSUME NEW ctx \in Contexts, NEW place \in Places, Download(ctx, place) \/ DownloadPublic(ctx, place) PROVE AccessInv'
  BY <1>1, <1>6, ReachKeeps DEF Download, DownloadPublic
<1>7. ASSUME NEW ctx \in Contexts, NEW place \in Places, RemoveObject(ctx, place) \/ UploadObject(ctx, place) PROVE AccessInv'
  BY <1>1, <1>7, ChangeKeeps DEF RemoveObject, UploadObject, Inserts
<1>8. ASSUME NEW l \in Links, NEW link, SignsLink(l, link), link.method = "PUT" => ~link.ctx.agent PROVE AccessInv'
  BY <1>8, NothingKeeps DEF SignsLink, AccessInv, LinksOfWriters
<1>9. ASSUME NEW ctx \in Contexts, NEW place \in Places, NEW l \in Links, SignUrl(l, ctx, place) \/ SignUpload(l, ctx, place)
      PROVE  AccessInv'
  <2>1. CASE SignUrl(l, ctx, place)
    BY <1>8, <2>1 DEF SignUrl
  <2>2. CASE SignUpload(l, ctx, place)
    BY <1>8, <2>2 DEF SignUpload, MayWrite
  <2> QED BY <1>9, <2>1, <2>2
<1>10. ASSUME NEW l \in Links, ReadSigned(l) PROVE AccessInv'
  BY <1>1, <1>10, ReachKeeps DEF ReadSigned
<1>11. ASSUME NEW l \in Links, LinkExpires(l) PROVE AccessInv'
  BY <1>11, NothingKeeps DEF LinkExpires, AccessInv, LinksOfWriters
<1>12. ASSUME NEW l \in Links, NEW size \in Sizes, NEW type \in Types, ReceiveSigned(l, size, type) PROVE AccessInv'
  <2>1. UNCHANGED signed /\ MayWrite(signed[l].ctx)
    BY <1>12 DEF ReceiveSigned, VerifySignedUrl, AccessInv, LinksOfWriters, MayWrite
  <2>2. latest' = NoneThere \/ (~There(signed[l].place) /\ ChangeOf(signed[l].ctx, signed[l].place, "link"))
    BY <1>12 DEF ReceiveSigned
  <2> QED BY <1>1, <2>1, <2>2, NothingKeeps, ChangeKeeps
<1>13. CASE UNCHANGED accessVars
  <2>1. UNCHANGED <<signed, latest>>
    BY <1>13 DEF accessVars
  <2>2. OfTheLatest'
    BY <2>1 DEF AccessInv, OfTheLatest, PrivateStaysPrivate, OthersStay, AgentsOnlyRead, UploadLinksAdd, Read, Replaced,
                Theirs, Own
  <2> QED BY <1>1, <2>1, <2>2
<1>14. CASE AccessNext
  BY <1>2, <1>3, <1>4, <1>5, <1>6, <1>7, <1>9, <1>10, <1>11, <1>12, <1>14 DEF AccessNext
<1> QED BY <1>13, <1>14

\* An object of a bucket that is not public reaches its owner, the service or a link's holder only; an account
\* writes over and removes its own only; an agent changes nothing, by a link neither; and an upload by
\* a link writes over nothing: for any buckets, contexts, links and order of requests (apis/file.ts).
THEOREM ObjectsStayTheirs ==
  AccessSpec => []PrivateStaysPrivate /\ []OthersStay /\ []AgentsOnlyRead /\ []UploadLinksAdd
<1>1. AccessInit => AccessInv
  BY NothingKeeps DEF AccessInit, AccessInv, LinksOfWriters, OfTheLatest, PrivateStaysPrivate, OthersStay, AgentsOnlyRead,
                      UploadLinksAdd, Read, Replaced
<1>2. AccessInv => PrivateStaysPrivate /\ OthersStay /\ AgentsOnlyRead /\ UploadLinksAdd
  BY DEF AccessInv, OfTheLatest
<1> QED BY <1>1, <1>2, AccessKeeps, PTL DEF AccessSpec

(***************************************************************************)
(* Uploads.                                                                *)
(*                                                                         *)
(* What has been kept, in memory or in the file, is the beginning of the   *)
(* body as far as it was read (Kept); the limit is looked at before a      *)
(* chunk is kept, and a file is there while its body is read only.         *)
(***************************************************************************)
Raw(c) == Encode(c.form)
Kept(c, filed, temp) == IF filed THEN temp ELSE c.kept
ReadOK(c, filed, temp) ==
    /\ c.pc \in {"idle", "reading", "read", "refused", "failed"}
    /\ c.pc # "idle" => c.form \in Forms
    /\ c.pc = "reading" =>
         /\ DOMAIN c = {"pc", "form", "length", "at", "kept", "data"}
         /\ c.at \in 0..Len(Raw(c)) /\ c.at <= MaxUpload /\ Kept(c, filed, temp) = SubSeq(Raw(c), 1, c.at)
         /\ filed => c.at > Threshold
    /\ c.pc # "reading" => ~filed
    /\ c.pc = "refused" => c.length > MaxUpload \/ Len(Raw(c)) > MaxUpload
    /\ c.pc = "read" => c.data = Raw(c) /\ Len(Raw(c)) <= MaxUpload
UploadInv ==
    /\ DOMAIN reads = Readers /\ DOMAIN temps \subseteq Readers
    /\ \A r \in Readers : ReadOK(reads[r], r \in DOMAIN temps, temps[r])

\* A step of one reader.
LEMMA ReadStep ==
  ASSUME UploadInv, NEW r \in Readers, NEW c, reads' = [reads EXCEPT ![r] = c], DOMAIN temps' \subseteq Readers,
         \A s \in Readers \ {r} : (s \in DOMAIN temps' <=> s \in DOMAIN temps) /\ (s \in DOMAIN temps => temps'[s] = temps[s]),
         ReadOK(c, r \in DOMAIN temps', temps'[r])
  PROVE  UploadInv'
<1>1. DOMAIN reads' = Readers /\ reads'[r] = c /\ \A s \in Readers \ {r} : reads'[s] = reads[s]
  BY DEF UploadInv
<1>2. ASSUME NEW s \in Readers \ {r} PROVE ReadOK(reads'[s], s \in DOMAIN temps', temps'[s])
  BY <1>1 DEF UploadInv, ReadOK, Kept, Raw
<1>3. ASSUME NEW s \in Readers PROVE ReadOK(reads'[s], s \in DOMAIN temps', temps'[s])
  BY <1>1, <1>2
<1> QED BY <1>1, <1>3 DEF UploadInv

\* The reading ends, and with it the file.
LEMMA EndKeeps ==
  ASSUME UploadInv, NEW r \in Readers, NEW pc \in {"read", "refused", "failed"}, NEW bytes, Ends(r, pc, bytes),
         reads[r].pc = "reading",
         pc = "refused" => Len(Raw(reads[r])) > MaxUpload,
         pc = "read" => bytes = Raw(reads[r]) /\ Len(Raw(reads[r])) <= MaxUpload
  PROVE  UploadInv'
<1> DEFINE c == [reads[r] EXCEPT !.pc = pc, !.data = bytes]
<1>1. reads' = [reads EXCEPT ![r] = c] /\ temps' = [s \in DOMAIN temps \ {r} |-> temps[s]]
  BY DEF Ends
<1>2. DOMAIN reads[r] = {"pc", "form", "length", "at", "kept", "data"} /\ reads[r].form \in Forms
  BY DEF UploadInv, ReadOK
<1>3. c.pc = pc /\ c.data = bytes /\ c.form = reads[r].form
  BY <1>2
<1> HIDE DEF c
<1>4. /\ DOMAIN temps' = DOMAIN temps \ {r} /\ DOMAIN temps \subseteq Readers
      /\ \A s \in Readers \ {r} : (s \in DOMAIN temps' <=> s \in DOMAIN temps) /\ (s \in DOMAIN temps => temps'[s] = temps[s])
  BY <1>1 DEF UploadInv
<1>5. ReadOK(c, r \in DOMAIN temps', temps'[r])
  BY <1>2, <1>3, <1>4 DEF ReadOK, Raw
<1> QED BY <1>1, <1>4, <1>5, ReadStep

LEMMA BeginReadKeeps ==
  ASSUME UploadInv, NEW r \in Readers, BeginRead(r)
  PROVE  UploadInv'
<1>1. PICK f \in Forms, length \in Lengths :
        reads' = [reads EXCEPT ![r] = [pc |-> IF length > MaxUpload THEN "refused" ELSE "reading", form |-> f,
                                       length |-> length, at |-> 0, kept |-> <<>>, data |-> <<>>]]
  BY DEF BeginRead
<1> DEFINE c == [pc |-> IF length > MaxUpload THEN "refused" ELSE "reading", form |-> f,
                 length |-> length, at |-> 0, kept |-> <<>>, data |-> <<>>]
<1>2. temps' = temps /\ r \notin DOMAIN temps /\ DOMAIN temps \subseteq Readers
  BY DEF BeginRead, UploadInv, ReadOK
<1>3. Len(Raw(c)) \in Nat /\ SubSeq(Raw(c), 1, 0) = <<>>
  BY FormsAreTokens, LenProperties, SubSeqEmpty DEF Raw
<1>4. ReadOK(c, r \in DOMAIN temps', temps'[r])
  BY <1>2, <1>3, UploadBounds DEF ReadOK, Kept
<1> HIDE DEF c
<1>5. reads' = [reads EXCEPT ![r] = c]
  BY <1>1 DEF c
<1> QED BY <1>2, <1>4, <1>5, ReadStep

LEMMA ReadPieceKeeps ==
  ASSUME UploadInv, NEW r \in Readers, ReadPiece(r)
  PROVE  UploadInv'
<1> DEFINE raw == Raw(reads[r])
<1>1. reads[r].pc = "reading" /\ ReadOK(reads[r], r \in DOMAIN temps, temps[r]) /\ DOMAIN temps \subseteq Readers
  BY DEF ReadPiece, UploadInv
<1>2. /\ DOMAIN reads[r] = {"pc", "form", "length", "at", "kept", "data"} /\ reads[r].form \in Forms
      /\ reads[r].at \in Nat /\ Kept(reads[r], r \in DOMAIN temps, temps[r]) = SubSeq(raw, 1, reads[r].at)
  BY <1>1 DEF ReadOK
<1>3. raw \in Seq(ToSet(raw)) /\ Len(raw) \in Nat
  BY <1>1, <1>2, FormsAreTokens, LenProperties DEF Raw
<1>4. PICK k \in 1..Piece :
        LET total == reads[r].at + k
            value == SubSeq(raw, reads[r].at + 1, total) IN
        /\ total <= Len(raw)
        /\ IF total > MaxUpload THEN Ends(r, "refused", <<>>)
           ELSE IF r \in DOMAIN temps
           THEN temps' = [temps EXCEPT ![r] = @ \o value] /\ reads' = [reads EXCEPT ![r].at = total]
           ELSE IF total > Threshold
           THEN /\ temps' = [s \in DOMAIN temps \cup {r} |-> IF s = r THEN reads[r].kept \o value ELSE temps[s]]
                /\ reads' = [reads EXCEPT ![r].at = total, ![r].kept = <<>>]
           ELSE reads' = [reads EXCEPT ![r].at = total, ![r].kept = @ \o value] /\ UNCHANGED temps
  BY DEF ReadPiece, Raw
<1> DEFINE total == reads[r].at + k
           value == SubSeq(raw, reads[r].at + 1, total)
           before == Kept(reads[r], r \in DOMAIN temps, temps[r])
<1>5. total \in 0..Len(raw) /\ total >= reads[r].at
  BY <1>1, <1>2, <1>3, <1>4, UploadBounds
<1>6. before \o value = SubSeq(raw, 1, total)
  <2>1. /\ 1 \in 1..Len(raw) + 1 /\ reads[r].at \in 1 - 1..Len(raw) /\ total \in reads[r].at..Len(raw)
    BY <1>1, <1>2, <1>3, <1>5
  <2> QED BY <1>1, <1>2, <1>3, <2>1, ConcatAdjacentSubSeq
<1>7. CASE total > MaxUpload
  <2>1. Len(Raw(reads[r])) > MaxUpload
    BY <1>3, <1>5, <1>7, UploadBounds
  <2> QED BY <1>1, <1>2, <1>4, <1>7, <2>1, EndKeeps
<1>8. CASE ~(total > MaxUpload) /\ r \in DOMAIN temps
  <2> DEFINE c == [reads[r] EXCEPT !.at = total]
  <2>1. reads' = [reads EXCEPT ![r] = c] /\ temps' = [temps EXCEPT ![r] = temps[r] \o value]
    BY <1>4, <1>8
  <2>2. before = temps[r]
    BY <1>8 DEF Kept
  <2>3. /\ DOMAIN temps' = DOMAIN temps /\ temps'[r] = SubSeq(raw, 1, total)
        /\ \A s \in Readers \ {r} : s \in DOMAIN temps => temps'[s] = temps[s]
    BY <1>6, <1>8, <2>1, <2>2
  <2> HIDE DEF total, value, before
  <2>4. DOMAIN c = DOMAIN reads[r] /\ c.pc = "reading" /\ c.form = reads[r].form /\ c.at = total
    BY <1>1, <1>2
  <2> HIDE DEF c
  <2>5. reads[r].at > Threshold
    BY <1>1, <1>2, <1>8 DEF ReadOK
  <2>6. total \in Nat /\ total <= MaxUpload /\ total > Threshold
    BY <1>1, <1>2, <1>3, <1>5, <1>8, <2>5, UploadBounds
  <2>7. ReadOK(c, r \in DOMAIN temps', temps'[r])
    BY <1>1, <1>2, <1>5, <1>8, <2>3, <2>4, <2>6 DEF ReadOK, Kept, Raw
  <2> QED BY <1>1, <1>2, <2>1, <2>3, <2>7, ReadStep
<1>9. CASE ~(total > MaxUpload) /\ r \notin DOMAIN temps /\ total > Threshold
  <2> DEFINE c == [reads[r] EXCEPT !.at = total, !.kept = <<>>]
  <2>1. /\ reads' = [reads EXCEPT ![r] = c]
        /\ temps' = [s \in DOMAIN temps \cup {r} |-> IF s = r THEN reads[r].kept \o value ELSE temps[s]]
    BY <1>4, <1>9
  <2>2. before = reads[r].kept
    BY <1>9 DEF Kept
  <2>3. /\ DOMAIN temps' = DOMAIN temps \cup {r} /\ temps'[r] = SubSeq(raw, 1, total)
        /\ \A s \in Readers \ {r} : s \in DOMAIN temps => temps'[s] = temps[s]
    BY <1>6, <2>1, <2>2
  <2>4. total \in Nat /\ total <= MaxUpload /\ total > Threshold
    BY <1>1, <1>2, <1>3, <1>5, <1>9, UploadBounds
  <2> HIDE DEF total, value, before
  <2>5. DOMAIN c = DOMAIN reads[r] /\ c.pc = "reading" /\ c.form = reads[r].form /\ c.at = total
    BY <1>1, <1>2
  <2> HIDE DEF c
  <2>6. ReadOK(c, r \in DOMAIN temps', temps'[r])
    BY <1>1, <1>2, <1>5, <2>3, <2>4, <2>5 DEF ReadOK, Kept, Raw
  <2>7. DOMAIN temps' \subseteq Readers
    BY <1>1, <1>2, <2>3
  <2> QED BY <2>1, <2>3, <2>6, <2>7, ReadStep
<1>10. CASE ~(total > MaxUpload) /\ r \notin DOMAIN temps /\ ~(total > Threshold)
  <2> DEFINE c == [reads[r] EXCEPT !.at = total, !.kept = reads[r].kept \o value]
  <2>1. reads' = [reads EXCEPT ![r] = c] /\ temps' = temps
    BY <1>4, <1>10
  <2>2. before = reads[r].kept
    BY <1>10 DEF Kept
  <2>3. total \in Nat /\ total <= MaxUpload
    BY <1>1, <1>2, <1>3, <1>5, <1>10, UploadBounds
  <2>4. reads[r].kept \o value = SubSeq(raw, 1, total)
    BY <1>6, <2>2
  <2> HIDE DEF total, value, before
  <2>5. /\ DOMAIN c = DOMAIN reads[r] /\ c.pc = "reading" /\ c.form = reads[r].form /\ c.at = total
        /\ c.kept = reads[r].kept \o value
    BY <1>1, <1>2
  <2> HIDE DEF c
  <2>6. ReadOK(c, r \in DOMAIN temps', temps'[r])
    BY <1>1, <1>2, <1>5, <1>10, <2>1, <2>3, <2>4, <2>5 DEF ReadOK, Kept, Raw
  <2> QED BY <1>1, <1>2, <2>1, <2>6, ReadStep
<1> QED BY <1>7, <1>8, <1>9, <1>10

LEMMA EndOfBodyKeeps ==
  ASSUME UploadInv, NEW r \in Readers, EndOfBody(r)
  PROVE  UploadInv'
<1> DEFINE raw == Raw(reads[r])
<1>1. /\ reads[r].pc = "reading" /\ reads[r].form \in Forms /\ reads[r].at = Len(raw) /\ reads[r].at <= MaxUpload
      /\ Kept(reads[r], r \in DOMAIN temps, temps[r]) = SubSeq(raw, 1, reads[r].at)
  BY DEF EndOfBody, UploadInv, ReadOK, Raw
<1>2. SubSeq(raw, 1, Len(raw)) = raw
  BY <1>1, FormsAreTokens, SubSeqFull DEF Raw
<1>3. Ends(r, "read", raw)
  BY <1>1, <1>2 DEF EndOfBody, Kept
<1> QED BY <1>1, <1>3, EndKeeps

LEMMA ReadDoneKeeps ==
  ASSUME UploadInv, NEW r \in Readers, ReadDone(r)
  PROVE  UploadInv'
<1>1. /\ reads' = [reads EXCEPT ![r] = [pc |-> "idle"]] /\ temps' = temps
      /\ r \notin DOMAIN temps /\ DOMAIN temps \subseteq Readers
  BY DEF ReadDone, UploadInv, ReadOK
<1>2. ReadOK([pc |-> "idle"], r \in DOMAIN temps', temps'[r])
  BY <1>1 DEF ReadOK
<1> QED BY <1>1, <1>2, ReadStep

LEMMA UploadKeeps ==
  UploadInv /\ [UploadNext]_uploadVars => UploadInv'
<1> SUFFICES ASSUME UploadInv, [UploadNext]_uploadVars PROVE UploadInv'
  OBVIOUS
<1>1. ASSUME NEW r \in Readers, ReadFails(r) PROVE UploadInv'
  BY <1>1, EndKeeps DEF ReadFails
<1>2. CASE UNCHANGED uploadVars
  BY <1>2 DEF uploadVars, UploadInv, ReadOK, Kept, Raw
<1> QED BY <1>1, <1>2, BeginReadKeeps, ReadPieceKeeps, EndOfBodyKeeps, ReadDoneKeeps DEF UploadNext

\* apis/file.ts: where a part begins and ends.
LEMMA Parts == PartsMakeWhole
<1> SUFFICES ASSUME NEW size \in ObjectSizes, NEW first \in 0..size, NEW last \in -1..size,
                    ~ParseByteRange(first, last, size).whole
             PROVE  LET part == ParseByteRange(first, last, size) IN
                    /\ part.start = first /\ first <= part.end /\ part.end < size
                    /\ last # -1 => part.end <= last
                    /\ part.end < size - 1 =>
                         ParseByteRange(part.end + 1, -1, size) = [whole |-> FALSE, start |-> part.end + 1, end |-> size - 1]
  BY DEF PartsMakeWhole
<1> DEFINE end == IF last = -1 \/ last > size - 1 THEN size - 1 ELSE last
<1>1. size \in Nat /\ first \in Nat /\ last \in Int
  BY UploadBounds
<1>2. ~(first >= size \/ first > end) /\ ParseByteRange(first, last, size) = [whole |-> FALSE, start |-> first, end |-> end]
  BY DEF ParseByteRange
<1>3. end \in Nat /\ end < size /\ first <= end /\ (last # -1 => end <= last)
  BY <1>1, <1>2
<1> HIDE DEF end
<1>4. end < size - 1 => ParseByteRange(end + 1, -1, size) = [whole |-> FALSE, start |-> end + 1, end |-> size - 1]
  BY <1>1, <1>3 DEF ParseByteRange
<1> QED BY <1>2, <1>3, <1>4

\* apis/file.ts: however a body is cut into chunks, it arrives whole; it is refused only when it or the
\* length it claims is beyond the limit, and none is taken that is; no temporary file outlives the
\* reading of its body or is made for a short one; consecutive parts of an object make up the object.
THEOREM UploadsArriveWhole ==
  UploadSpec => []BodiesArrive /\ []RefusedWhenLong /\ []TempsGo /\ []PartsMakeWhole
<1>1. UploadInit => UploadInv
  BY DEF UploadInit, UploadInv, ReadOK
<1>2. UploadInv => BodiesArrive /\ RefusedWhenLong
  BY DEF UploadInv, ReadOK, Raw, BodiesArrive, RefusedWhenLong
<1>3. UploadInv => TempsGo
  <2> SUFFICES ASSUME UploadInv, NEW r \in DOMAIN temps
               PROVE  reads[r].pc = "reading" /\ Len(temps[r]) > Threshold
    BY DEF TempsGo
  <2>1. /\ reads[r].pc = "reading" /\ reads[r].form \in Forms /\ reads[r].at \in 0..Len(Raw(reads[r]))
        /\ reads[r].at > Threshold /\ temps[r] = SubSeq(Raw(reads[r]), 1, reads[r].at)
    BY DEF UploadInv, ReadOK, Kept
  <2>2. Raw(reads[r]) \in Seq(ToSet(Raw(reads[r]))) /\ Len(Raw(reads[r])) \in Nat
    BY <2>1, FormsAreTokens, LenProperties DEF Raw
  <2>3. \A i \in 1..reads[r].at : Raw(reads[r])[i] \in ToSet(Raw(reads[r]))
    BY <2>1, <2>2, ElementOfSeq
  <2>4. Len(temps[r]) = reads[r].at
    BY <2>1, <2>2, <2>3, SubSeqProperties, UploadBounds
  <2> QED BY <2>1, <2>4
<1> QED BY <1>1, <1>2, <1>3, Parts, UploadKeeps, PTL DEF UploadSpec

(***************************************************************************)
(* Filters: what the memory database selects, and what a path may look at. *)
(***************************************************************************)
\* Where the two orders do not part, what PostgreSQL finds true the memory database does; and of what
\* is not null either, both find the same.
LEMMA FiltersAgree ==
  ASSUME NEW row, NEW f, Understood(f),
         ~(f.op = "lt" /\ row[f.column] # Null /\ SqlLess(row[f.column], f.value) # JsLess(row[f.column], f.value))
  PROVE  /\ Sql(row, f) = "true" => Js(row, f)
         /\ Js(row, f) /\ Sql(row, f) # "true" => row[f.column] = Null
<1> DEFINE v == row[f.column]
           sql(base) == IF ~f.negate \/ base = "unknown" THEN base ELSE Truth(base = "false")
           js(base) == IF f.negate THEN ~base ELSE base
<1>1. \A p \in BOOLEAN : /\ sql(Truth(p)) = "true" <=> js(p)
                         /\ sql("unknown") # "true"
  BY DEF Truth
<1> HIDE DEF v
<1>2. CASE f.op = "is"
  <2>1. Sql(row, f) = sql(Truth(v = Null)) /\ (Js(row, f) <=> js(v = Null))
    BY <1>2 DEF Sql, Js, v
  <2> QED BY <1>1, <2>1
<1>3. CASE f.op = "neq" /\ f.value = <<"null">>
  <2>1. Sql(row, f) = sql(Truth(v # Null)) /\ (Js(row, f) <=> js(v # Null))
    BY <1>3 DEF Sql, Js, v
  <2> QED BY <1>1, <2>1
<1>4. CASE f.op = "in" /\ ParseInValue(f.value) = {}
  <2>1. Sql(row, f) = sql("false") /\ (Js(row, f) <=> js(FALSE)) /\ Truth(FALSE) = "false"
    BY <1>4 DEF Sql, Js, v, Truth
  <2> QED BY <1>1, <2>1
<1>5. CASE v = Null /\ f.op # "is" /\ ~(f.op = "neq" /\ f.value = <<"null">>) /\ ~(f.op = "in" /\ ParseInValue(f.value) = {})
  <2>1. Sql(row, f) = sql("unknown")
    BY <1>5 DEF Sql, v
  <2> QED BY <1>1, <1>5, <2>1 DEF v
<1>6. CASE v # Null /\ f.op = "eq"
  <2>1. Sql(row, f) = sql(Truth(v = f.value)) /\ (Js(row, f) <=> js(v = f.value))
    BY <1>6 DEF Sql, Js, v
  <2> QED BY <1>1, <2>1
<1>7. CASE v # Null /\ f.op = "neq" /\ f.value # <<"null">>
  <2>1. Sql(row, f) = sql(Truth(v # f.value)) /\ (Js(row, f) <=> js(v # f.value))
    BY <1>7 DEF Sql, Js, v
  <2> QED BY <1>1, <2>1
<1>8. CASE v # Null /\ f.op = "lt"
  <2>1. Sql(row, f) = sql(Truth(SqlLess(v, f.value))) /\ (Js(row, f) <=> js(JsLess(v, f.value)))
    BY <1>8 DEF Sql, Js, v
  <2>2. SqlLess(v, f.value) = JsLess(v, f.value)
    BY <1>8 DEF v
  <2>3. SqlLess(v, f.value) \in BOOLEAN
    BY DEF SqlLess, TextBefore
  <2> QED BY <1>1, <2>1, <2>2, <2>3
<1>9. CASE v # Null /\ f.op = "in" /\ ParseInValue(f.value) # {}
  <2>1. Sql(row, f) = sql(Truth(v \in ParseInValue(f.value))) /\ (Js(row, f) <=> js(v \in ParseInValue(f.value)))
    BY <1>9 DEF Sql, Js, v
  <2> QED BY <2>1 DEF Truth
<1> QED BY <1>2, <1>3, <1>4, <1>5, <1>6, <1>7, <1>8, <1>9 DEF Understood, v

LEMMA SelectedFollows ==
  ASSUME SelectRows
  PROVE  MemoryFollows'
<1> DEFINE sql == [row \in QueryRows |-> {f \in AllFilters : Sql(row, f) = "true"}]
           js == [row \in QueryRows |-> {f \in AllFilters : Js(row, f)}]
<1>1. found'.postgres = Selected(sql) /\ found'.memory = Selected(js)
  BY DEF SelectRows
\* Where the orders do not part, both databases agree on a column that is not null; on one that is,
\* PostgreSQL is the stricter.
<1>2. ASSUME NEW row \in QueryRows, NEW f \in AllFilters
      PROVE  /\ Sql(row, f) = "true" /\ ~Js(row, f) => ComparedApart(row)
             /\ Js(row, f) /\ Sql(row, f) # "true" => ComparedApart(row) \/ MeetsNull(row)
  <2>1. Understood(f)
    BY <1>2 DEF SelectRows
  <2>2. CASE ComparedApart(row)
    BY <2>2
  <2>3. CASE ~ComparedApart(row)
    <3>1. ~(f.op = "lt" /\ row[f.column] # Null /\ SqlLess(row[f.column], f.value) # JsLess(row[f.column], f.value))
      BY <2>3 DEF ComparedApart
    <3>2. row[f.column] = Null => MeetsNull(row)
      BY DEF MeetsNull
    <3> QED BY <2>1, <3>1, <3>2, FiltersAgree
  <2> QED BY <2>2, <2>3
<1>3. \A row \in QueryRows, f \in AllFilters : f \in sql[row] \ js[row] => ComparedApart(row)
  BY <1>2
<1>4. \A row \in QueryRows, f \in AllFilters : f \in js[row] \ sql[row] => ComparedApart(row) \/ MeetsNull(row)
  BY <1>2
<1> HIDE DEF sql, js
<1>5. filters.conj \subseteq AllFilters /\ \A g \in filters.disj : g \subseteq AllFilters
  BY DEF AllFilters
<1>6. ASSUME NEW row \in Selected(sql) \ Selected(js) PROVE ComparedApart(row)
  <2>1. row \in QueryRows /\ \E f \in AllFilters : f \in sql[row] \ js[row]
    BY <1>5, <1>6 DEF Selected
  <2> QED BY <1>3, <2>1
<1>7. ASSUME NEW row \in Selected(js) \ Selected(sql) PROVE ComparedApart(row) \/ MeetsNull(row)
  <2>1. row \in QueryRows /\ \E f \in AllFilters : f \in js[row] \ sql[row]
    BY <1>5, <1>7 DEF Selected
  <2> QED BY <1>4, <2>1
<1>8. \A row : (ComparedApart(row))' = ComparedApart(row) /\ (MeetsNull(row))' = MeetsNull(row)
  BY DEF SelectRows, ComparedApart, MeetsNull, AllFilters
<1> QED BY <1>1, <1>6, <1>7, <1>8 DEF MemoryFollows

\* The two databases part only at a null in a column of a filter and at a value that a filter's two
\* orders put on different sides, and PostgreSQL selects more only at the latter: whatever is called,
\* printed and parsed, in any orders (select of both databases).
THEOREM MemoryFollowsPostgres == QuerySpec => []MemoryFollows
<1> DEFINE Inv == MemoryFollows /\ (got \in {"building", "sent", "parsed"} => found = NoRows)
<1>1. QueryInit => Inv
  BY DEF QueryInit, NoRows, MemoryFollows
<1>2. Inv /\ [QueryNext]_queryVars => Inv'
  <2> SUFFICES ASSUME Inv, [QueryNext]_queryVars PROVE Inv'
    OBVIOUS
  <2>1. CASE SelectRows
    <3>1. MemoryFollows'
      BY <2>1, SelectedFollows
    <3> QED BY <2>1, <3>1 DEF SelectRows
  <2>2. CASE UNCHANGED found /\ found = NoRows
    BY <2>2 DEF MemoryFollows, NoRows
  <2>3. CASE UNCHANGED <<found, filters>> /\ (got' = got \/ got' \notin {"building", "sent", "parsed"})
    BY <2>3 DEF MemoryFollows, ComparedApart, MeetsNull, AllFilters
  <2>4. ASSUME NEW chained \in FilterCalls, Call(chained) PROVE Inv'
    BY <2>2, <2>4 DEF Call
  <2>5. ASSUME NEW expected \in Windows, Execute(expected) PROVE Inv'
    BY <2>2, <2>5 DEF Execute
  <2>6. CASE Parse
    BY <2>2, <2>6 DEF Parse
  <2>7. CASE RefuseFilter
    BY <2>3, <2>7 DEF RefuseFilter
  <2>8. ASSUME NEW how \in {"rows", "single", "maybeSingle"}, Resolve(how) PROVE Inv'
    <3>1. got' \in {"rows", "row", "nothing", "PGRST116"} /\ UNCHANGED <<found, filters>>
      BY <2>8 DEF Resolve
    <3> QED BY <2>3, <3>1
  <2>9. CASE UNCHANGED queryVars
    BY <2>3, <2>9 DEF queryVars
  <2> QED BY <2>1, <2>4, <2>5, <2>6, <2>7, <2>8, <2>9 DEF QueryNext
<1> QED BY <1>1, <1>2, PTL DEF QuerySpec

(* A path keeps what it has gone through, so that it is enough to look at each step. *)
PathProps == [name : DOMAIN PathFields \cup {"base"}, via : DOMAIN PathFields \cup {Plain}, modifier : PathModifiers]
SeenThrough(path) ==
    /\ path \in Seq(PathProps)
    /\ ~AllowHidden => \A k \in DOMAIN path : ~PathFields[FieldOf(path[k])].hidden
WalkedOK(w) ==
    /\ SeenThrough(w.path) /\ w.path # <<>>
    /\ ~AllowHidden /\ OfAccounts /\ w.path[Len(w.path)].name = "email" => w.guard = w.identifier.alias
\* What stands for a value of the request.
StandsFor(w) ==
    LET value == ExtractNestedVal(RequestData, w.path) IN
    IF w.modifier = "isset" THEN (IF value = NotThere THEN "FALSE" ELSE "TRUE")
    ELSE IF DOMAIN value \cap {"missing", "null"} # {} THEN "NULL" ELSE "param"
WalkOK(w) == {"at", "start", "path"} \subseteq DOMAIN w /\ w.start # <<"request">> /\ SeenThrough(w.path)
PathInv ==
    /\ Walking => WalkOK(walk)
    /\ walked \in Seq({walked[i] : i \in DOMAIN walked})
    /\ \A i \in DOMAIN walked :
         IF walked[i].start = <<"request">>
         THEN walked[i].path \in RequestKeys /\ walked[i].stands = StandsFor(walked[i])
         ELSE WalkedOK(walked[i])

LEMMA Followed1 ==
  ASSUME NEW path, SeenThrough(path), NEW prop \in PathProps, ~AllowHidden => ~PathFields[FieldOf(prop)].hidden
  PROVE  SeenThrough(Append(path, prop)) /\ Append(path, prop) # <<>>
         /\ Append(path, prop)[Len(Append(path, prop))] = prop
<1>1. /\ Append(path, prop) \in Seq(PathProps) /\ Len(path) \in Nat /\ Len(Append(path, prop)) = Len(path) + 1
      /\ \A k \in 1..Len(path) : Append(path, prop)[k] = path[k]
      /\ Append(path, prop)[Len(path) + 1] = prop /\ DOMAIN path = 1..Len(path)
      /\ DOMAIN Append(path, prop) = 1..(Len(path) + 1)
  BY AppendProperties DEF SeenThrough
<1> HIDE DEF PathProps
<1> QED BY <1>1 DEF SeenThrough

LEMMA WalkedGrows ==
  ASSUME PathInv, NEW w, walked' = Append(walked, w),
         IF w.start = <<"request">> THEN w.path \in RequestKeys /\ w.stands = StandsFor(w) ELSE WalkedOK(w),
         Walking' => WalkOK(walk')
  PROVE  PathInv'
<1> DEFINE S == {walked[i] : i \in DOMAIN walked} \cup {w}
<1>1. walked \in Seq(S) /\ w \in S
  BY DEF PathInv
<1> HIDE DEF S
<1>2. /\ walked' \in Seq(S) /\ Len(walked) \in Nat /\ Len(walked') = Len(walked) + 1
      /\ DOMAIN walked = 1..Len(walked) /\ DOMAIN walked' = 1..(Len(walked) + 1)
      /\ \A i \in 1..Len(walked) : walked'[i] = walked[i]
      /\ walked'[Len(walked) + 1] = w
  BY <1>1, AppendProperties
<1>3. walked' \in Seq({walked'[i] : i \in DOMAIN walked'})
  BY <1>2, SeqDef
<1>4. \A i \in DOMAIN walked' : walked'[i] = w \/ (i \in DOMAIN walked /\ walked'[i] = walked[i])
  BY <1>2
<1>5. \A i \in DOMAIN walked' :
         IF walked'[i].start = <<"request">>
         THEN walked'[i].path \in RequestKeys /\ walked'[i].stands = StandsFor(walked'[i])
         ELSE WalkedOK(walked'[i])
  BY <1>4 DEF PathInv
<1> QED BY <1>3, <1>5 DEF PathInv

LEMMA PathTokens ==
  /\ Plain \in PathModifiers /\ "each" \in PathModifiers
  /\ \A field \in DOMAIN PathFields :
       /\ \A modifier \in PathModifiers : Prop(field, Plain, modifier) \in PathProps
                                          /\ FieldOf(Prop(field, Plain, modifier)) = field
                                          /\ Prop(field, Plain, modifier).name = field
       /\ Prop("base", field, Plain) \in PathProps /\ FieldOf(Prop("base", field, Plain)) = field
  BY PathFieldsAssumption DEF PathModifiers, Prop, PathProps, FieldOf

\* A path begins with nothing behind it.
LEMMA PathBegins ==
  ASSUME PathInv, NEW first, first # <<"request">>, NEW alias, NEW multi, NEW mm, NEW mmJoins,
         BeginPath(first, alias, multi, mm, mmJoins)
  PROVE  PathInv'
<1>1. walk'.at = "walking" /\ walk'.start = first /\ walk'.path = <<>> /\ walked' = walked
      /\ {"at", "start", "path"} \subseteq DOMAIN walk'
  BY DEF BeginPath
<1>2. SeenThrough(<<>>)
  BY DEF SeenThrough
<1>3. WalkOK(walk')
  BY <1>1, <1>2 DEF WalkOK
<1> QED BY <1>1, <1>3 DEF PathInv

Walked(x, a, m, u, p, j) == [x EXCEPT !.alias = a, !.mm = m, !.multi = u, !.path = p, !.mmJoins = j]
LEMMA WalkedFields ==
  ASSUME NEW x, NEW a, NEW m, NEW u, NEW p, NEW j, {"at", "start", "path"} \subseteq DOMAIN x
  PROVE  LET y == Walked(x, a, m, u, p, j) IN
         y.at = x.at /\ y.start = x.start /\ y.path = p /\ {"at", "start", "path"} \subseteq DOMAIN y
  BY DEF Walked

LEMMA GoesOn ==
  ASSUME PathInv, Walking, walked' = walked, NEW prop \in PathProps, ~AllowHidden => ~PathFields[FieldOf(prop)].hidden,
         NEW a, NEW m, NEW u, NEW j, walk' = Walked(walk, a, m, u, Followed(prop), j)
  PROVE  PathInv'
<1>1. WalkOK(walk)
  BY DEF PathInv
<1>2. walk'.start = walk.start /\ walk'.path = Append(walk.path, prop) /\ {"at", "start", "path"} \subseteq DOMAIN walk'
  <2> DEFINE x == walk  p == Followed(prop)
  <2>1. {"at", "start", "path"} \subseteq DOMAIN x /\ walk' = Walked(x, a, m, u, p, j)
    BY <1>1 DEF WalkOK
  <2>2. p = Append(walk.path, prop)
    BY DEF Followed
  <2> HIDE DEF x, p
  <2>3. walk'.start = x.start /\ walk'.path = p /\ {"at", "start", "path"} \subseteq DOMAIN walk'
    BY <2>1 DEF Walked
  <2> QED BY <2>2, <2>3 DEF x
<1>3. SeenThrough(walk'.path)
  BY <1>1, <1>2, Followed1 DEF WalkOK
<1>4. WalkOK(walk')
  BY <1>1, <1>2, <1>3 DEF WalkOK
<1> QED BY <1>4 DEF PathInv

LEMMA ResolveKeeps ==
  ASSUME PathInv, Walking, NEW name, Knows(name), ~NonFilterable(name), NEW modifier \in PathModifiers,
         NEW identifier, identifier.alias = walk.alias \/ PathFields[name].multiple,
         NEW mm, NEW multi, NEW list, NEW mmList,
         ResolvePath(name, modifier, identifier, mm, multi, list, mmList)
  PROVE  PathInv'
<1> DEFINE prop == Prop(name, Plain, modifier)
           guard == IF name = "email" /\ ~PathFields[name].multiple /\ ~AllowHidden /\ OfAccounts THEN walk.alias ELSE <<>>
           w == [start |-> walk.start, path |-> Followed(prop), identifier |-> identifier, multi |-> multi, mm |-> mm,
                 mmJoins |-> mmList, guard |-> guard]
<1>1. walk' = NoWalk /\ walked' = Append(walked, w)
  BY DEF ResolvePath
<1>2. WalkOK(walk) /\ name \in DOMAIN PathFields /\ (~AllowHidden => ~PathFields[name].hidden)
  BY DEF PathInv, Knows, NonFilterable
<1>3. prop \in PathProps /\ FieldOf(prop) = name /\ prop.name = name
  BY <1>2, PathTokens
<1>4. w.start = walk.start /\ w.path = Append(walk.path, prop) /\ w.guard = guard /\ w.identifier = identifier
  BY DEF Followed
<1> HIDE DEF prop, w
<1>5. SeenThrough(w.path) /\ w.path # <<>> /\ w.path[Len(w.path)] = prop
  BY <1>2, <1>3, <1>4, Followed1 DEF WalkOK
<1>6. WalkedOK(w)
  BY <1>2, <1>3, <1>4, <1>5, PathFieldsAssumption DEF WalkedOK
<1>7. ~Walking' /\ w.start # <<"request">>
  BY <1>1, <1>2, <1>4 DEF Walking, NoWalk, WalkOK
<1> QED BY <1>1, <1>6, <1>7, WalkedGrows

LEMMA StartsKeep ==
  ASSUME PathInv, \/ AtBase \/ ProcessCollectionField \/ ProcessRequestAuthField
                  \/ \E field \in DOMAIN PathFields : ProcessRequestBodyRelationField(field)
  PROVE  PathInv'
<1>1. <<"base">> # <<"request">> /\ <<"collection">> # <<"request">> /\ <<"auth">> # <<"request">>
  OBVIOUS
<1>2. \A field \in DOMAIN PathFields : <<"body", field>> # <<"request">>
  OBVIOUS
<1>3. CASE AtBase
  BY <1>1, <1>3, PathBegins DEF AtBase
<1>4. CASE ProcessCollectionField
  BY <1>1, <1>4, PathBegins DEF ProcessCollectionField, StartAt
<1>5. CASE ProcessRequestAuthField
  BY <1>1, <1>5, PathBegins DEF ProcessRequestAuthField, StartAt
<1>6. ASSUME NEW field \in DOMAIN PathFields, ProcessRequestBodyRelationField(field) PROVE PathInv'
  BY <1>2, <1>6, PathBegins DEF ProcessRequestBodyRelationField, StartAt
<1> QED BY <1>3, <1>4, <1>5, <1>6

LEMMA StepsKeep ==
  ASSUME PathInv, NEW field \in DOMAIN PathFields, FollowRelation(field) \/ FollowBackRelation(field)
  PROVE  PathInv'
<1>1. Walking /\ walked' = walked /\ (~AllowHidden => ~PathFields[field].hidden)
  BY DEF FollowRelation, FollowBackRelation, Knows, NonFilterable
<1>2. CASE FollowRelation(field)
  <2>1. Prop(field, Plain, Plain) \in PathProps /\ FieldOf(Prop(field, Plain, Plain)) = field
    BY PathTokens
  <2>2. \E a, m, u, j : walk' = Walked(walk, a, m, u, Followed(Prop(field, Plain, Plain)), j)
    BY <1>2 DEF FollowRelation, Walked
  <2> QED BY <1>1, <2>1, <2>2, GoesOn
<1>3. CASE FollowBackRelation(field)
  <2>1. Prop("base", field, Plain) \in PathProps /\ FieldOf(Prop("base", field, Plain)) = field
    BY PathTokens
  <2>2. \E a, m, u, j : walk' = Walked(walk, a, m, u, Followed(Prop("base", field, Plain)), j)
    BY <1>3 DEF FollowBackRelation, Walked
  <2> QED BY <1>1, <2>1, <2>2, GoesOn
<1> QED BY <1>2, <1>3

LEMMA EndsKeep ==
  ASSUME PathInv, NEW name \in DOMAIN PathFields,
         RelatedId(name) \/ JsonPath(name) \/ \E modifier \in PathModifiers : FinalizePath(name, modifier)
  PROVE  PathInv'
<1>1. Plain \in PathModifiers /\ "each" \in PathModifiers /\ \A alias, field : Identifier(alias, field).alias = alias
  BY PathTokens DEF Identifier
<1>2. CASE RelatedId(name)
  BY <1>1, <1>2, ResolveKeeps DEF RelatedId
<1>3. CASE JsonPath(name)
  BY <1>1, <1>3, ResolveKeeps DEF JsonPath
<1>4. ASSUME NEW modifier \in PathModifiers, FinalizePath(name, modifier) PROVE PathInv'
  <2>1. Walking /\ Knows(name) /\ ~NonFilterable(name)
    BY <1>4 DEF FinalizePath
  <2>2. \E step \in PathModifiers : \E identifier, mm, multi, list, mmList :
          /\ ResolvePath(name, step, identifier, mm, multi, list, mmList)
          /\ identifier.alias = walk.alias \/ PathFields[name].multiple
    <3>1. CASE modifier = "each" /\ PathFields[name].multiple
      BY <1>4, <3>1 DEF FinalizePath
    <3>2. CASE ~(modifier = "each" /\ PathFields[name].multiple)
      BY <1>1, <1>4, <3>2 DEF FinalizePath
    <3> QED BY <3>1, <3>2
  <2> QED BY <2>1, <2>2, ResolveKeeps
<1> QED BY <1>2, <1>3, <1>4

LEMMA StaticKeeps ==
  ASSUME PathInv, NEW keys \in RequestKeys, NEW modifier, ResolveStaticRequestField(keys, modifier)
  PROVE  PathInv'
<1> DEFINE value == ExtractNestedVal(RequestData, keys)
           w == [start |-> <<"request">>, path |-> keys, modifier |-> modifier,
                 stands |-> IF modifier = "isset" THEN (IF value = NotThere THEN "FALSE" ELSE "TRUE")
                            ELSE IF DOMAIN value \cap {"missing", "null"} # {} THEN "NULL" ELSE "param"]
<1>1. walked' = Append(walked, w) /\ walk' = walk /\ ~Walking
  BY DEF ResolveStaticRequestField, Walking, NoWalk
<1>2. w.start = <<"request">> /\ w.path = keys /\ w.modifier = modifier /\ w.stands = StandsFor(w)
  BY DEF StandsFor
<1> HIDE DEF w
<1>3. ~Walking'
  BY <1>1 DEF Walking
<1> QED BY <1>1, <1>2, <1>3, WalkedGrows

\* Where a path is followed key by key: its values are those of the definition.
LEMMA AlongKeys ==
  ASSUME NEW value, NEW keys, Len(keys) \in Nat
  PROVE  /\ ValuesAlong(value, keys)[0] = value
         /\ \A i \in 1..Len(keys) : ValuesAlong(value, keys)[i] = ValueIn(ValuesAlong(value, keys)[i - 1], keys[i])
<1> DEFINE n == Len(keys)
           Along(f, k) == f[0] = value /\ \A i \in 1..k : f[i] = ValueIn(f[i - 1], keys[i])
           S == {k \in Nat : k <= n => \E f : Along(f, k)}
           F(f) == [i \in 0..n |-> IF i = 0 THEN value ELSE ValueIn(f[i - 1], keys[i])]
<1>1. n \in Nat
  OBVIOUS
<1> HIDE DEF n
<1>2. 0 \in S
  <2>1. Along([i \in {0} |-> value], 0)
    OBVIOUS
  <2> QED BY <2>1
<1>3. ASSUME NEW k \in Nat, k \in S PROVE k + 1 \in S
  <2> SUFFICES ASSUME k + 1 <= n PROVE \E f : Along(f, k + 1)
    OBVIOUS
  <2>1. PICK f : Along(f, k)
    BY <1>1, <1>3
  <2> DEFINE g == [i \in 0..(k + 1) |-> IF i = k + 1 THEN ValueIn(f[k], keys[k + 1]) ELSE f[i]]
  <2>2. g[0] = value /\ g[k + 1] = ValueIn(f[k], keys[k + 1]) /\ \A i \in 0..k : g[i] = f[i]
    BY <2>1
  <2> HIDE DEF g
  <2>3. ASSUME NEW i \in 1..(k + 1) PROVE g[i] = ValueIn(g[i - 1], keys[i])
    BY <2>1, <2>2
  <2> QED BY <2>2, <2>3
<1> HIDE DEF S
<1>4. n \in S
  BY <1>1, <1>2, <1>3, Induction
<1>5. PICK f : Along(f, n)
  BY <1>1, <1>4 DEF S
<1> DEFINE g == [i \in 0..n |-> f[i]]
<1>6. g[0] = value /\ \A i \in 1..n : g[i] = ValueIn(g[i - 1], keys[i])
  BY <1>1, <1>5
<1>7. g = F(g)
  <2> DEFINE h == g
  <2>1. h = [i \in 0..n |-> h[i]] /\ h[0] = value /\ \A i \in 1..n : h[i] = ValueIn(h[i - 1], keys[i])
    BY <1>6
  <2> HIDE DEF h
  <2>2. \A i \in 0..n : h[i] = IF i = 0 THEN value ELSE ValueIn(h[i - 1], keys[i])
    BY <1>1, <2>1
  <2>3. h = F(h)
    BY <2>1, <2>2
  <2> QED BY <2>3 DEF h
<1> HIDE DEF g
<1> DEFINE r == CHOOSE at : at = F(at)
<1>8. r = F(r)
  BY <1>7
<1> HIDE DEF r
<1>9. r[0] = value /\ \A i \in 1..n : r[i] = ValueIn(r[i - 1], keys[i])
  BY <1>1, <1>8
<1>10. ValuesAlong(value, keys) = r
  BY DEF ValuesAlong, r, n
<1> QED BY <1>9, <1>10 DEF n

\* What is missing has nothing in it, and a path that goes on from it finds nothing.
LEMMA NothingWithin ==
  ASSUME NEW value, NEW keys, Len(keys) \in Nat, NEW m \in 0..Len(keys), ValuesAlong(value, keys)[m] = NotThere
  PROVE  ExtractNestedVal(value, keys) = NotThere
<1> DEFINE at == ValuesAlong(value, keys)
           S == {d \in Nat : m + d <= Len(keys) => at[m + d] = NotThere}
<1>1. \A key : ValueIn(NotThere, key) = NotThere
  BY DEF ValueIn, NotThere
<1>2. \A i \in 1..Len(keys) : at[i] = ValueIn(at[i - 1], keys[i])
  BY AlongKeys
<1>3. 0 \in S
  OBVIOUS
<1> HIDE DEF at
<1>4. ASSUME NEW d \in Nat, d \in S, m + d + 1 <= Len(keys) PROVE at[m + d + 1] = NotThere
  <2>1. at[m + d + 1] = ValueIn(at[m + d], keys[m + d + 1]) /\ at[m + d] = NotThere
    BY <1>2, <1>4
  <2> QED BY <1>1, <2>1
<1>5. \A d \in Nat : d \in S => d + 1 \in S
  BY <1>4
<1>6. Len(keys) - m \in S /\ Len(keys) - m \in Nat
  <2>1. Nat \subseteq S
    BY <1>3, <1>5, Induction
  <2> QED BY <2>1
<1> QED BY <1>6 DEF at, ExtractNestedVal

\* Two paths that begin alike find the same on the way.
LEMMA SameWay ==
  ASSUME NEW value, NEW long, NEW short, Len(long) \in Nat, Len(short) \in Nat, Len(short) <= Len(long),
         \A i \in 1..Len(short) : long[i] = short[i]
  PROVE  ValuesAlong(value, long)[Len(short)] = ExtractNestedVal(value, short)
<1> DEFINE l == ValuesAlong(value, long)
           s == ValuesAlong(value, short)
           S == {d \in Nat : d <= Len(short) => l[d] = s[d]}
<1>1. /\ l[0] = value /\ \A i \in 1..Len(long) : l[i] = ValueIn(l[i - 1], long[i])
      /\ s[0] = value /\ \A i \in 1..Len(short) : s[i] = ValueIn(s[i - 1], short[i])
  BY AlongKeys
<1> HIDE DEF l, s
<1>2. 0 \in S
  BY <1>1
<1>3. ASSUME NEW d \in Nat, d \in S, d + 1 <= Len(short) PROVE l[d + 1] = s[d + 1]
  <2>1. d + 1 \in 1..Len(short) /\ d + 1 \in 1..Len(long) /\ l[d] = s[d]
    BY <1>3
  <2>2. l[d + 1] = ValueIn(l[d], long[d + 1]) /\ s[d + 1] = ValueIn(s[d], short[d + 1])
    BY <1>1, <2>1
  <2> QED BY <2>1, <2>2
<1>4. \A d \in Nat : d \in S => d + 1 \in S
  BY <1>3
<1>5. Len(short) \in S
  <2>1. Nat \subseteq S
    BY <1>2, <1>4, Induction
  <2> QED BY <2>1
<1> QED BY <1>5 DEF l, s, ExtractNestedVal

LEMMA KeysHangTogether ==
  ASSUME PathInv
  PROVE  RequestHangsTogether
<1> SUFFICES ASSUME NEW i \in DOMAIN walked, NEW j \in DOMAIN walked,
                    walked[i].start = <<"request">>, walked[j].start = <<"request">>,
                    Len(walked[i].path) <= Len(walked[j].path),
                    SubSeq(walked[j].path, 1, Len(walked[i].path)) = walked[i].path,
                    walked[i].modifier = "isset", walked[j].stands \in {"param", "TRUE"}
             PROVE  walked[i].stands = "TRUE"
  BY DEF RequestHangsTogether
<1> DEFINE short == walked[i].path
           long == walked[j].path
<1>1. short \in RequestKeys /\ long \in RequestKeys /\ walked[i].stands = StandsFor(walked[i]) /\ walked[j].stands = StandsFor(walked[j])
  BY DEF PathInv
<1>2. Len(long) \in Nat /\ Len(short) \in Nat /\ \A k \in 1..Len(short) : long[k] = short[k]
  <2> DEFINE sub == SubSeq(long, 1, Len(short))
             A == {long[k] : k \in DOMAIN long}
  <2>1. long \in Seq(A) /\ short \in Seq({short[k] : k \in DOMAIN short})
    BY <1>1, RequestKeysAssumption
  <2>2. Len(long) \in Nat /\ Len(short) \in Nat
    BY <2>1
  <2>3. \A k \in 1..Len(short) : sub[k] = long[k]
    BY <2>1, <2>2
  <2> QED BY <2>2, <2>3
<1>3. ExtractNestedVal(RequestData, long) # NotThere
  <2>1. DOMAIN NotThere = {"missing"}
    BY DEF NotThere
  <2> QED BY <1>1, <2>1 DEF StandsFor
<1> HIDE DEF short, long
<1>4. ExtractNestedVal(RequestData, short) # NotThere
  <2>1. Len(short) \in 0..Len(long)
    BY <1>2 DEF short, long
  <2> QED BY <1>2, <1>3, <2>1, SameWay, NothingWithin
<1> QED BY <1>1, <1>4 DEF StandsFor, short

\* Each path kept what it went through, so that none goes through a hidden field.
LEMMA SeenIsClear ==
  ASSUME PathInv
  PROVE  HiddenStayHidden
<1> SUFFICES ASSUME NEW i \in DOMAIN walked, walked[i].start # <<"request">>, ~AllowHidden
             PROVE  /\ \A k \in DOMAIN walked[i].path : ~PathFields[FieldOf(walked[i].path[k])].hidden
                    /\ OfAccounts /\ walked[i].path[Len(walked[i].path)].name = "email"
                         => walked[i].guard = walked[i].identifier.alias
  BY DEF HiddenStayHidden
<1>1. WalkedOK(walked[i])
  BY DEF PathInv
<1> QED BY <1>1 DEF WalkedOK, SeenThrough

\* No filter sees what is hidden, and what it reads of the request hangs together, whatever paths it
\* has and whatever the request gives (record_field_resolver.ts, record_field_resolver_runner.ts).
THEOREM PathsStayClear == PathSpec => []HiddenStayHidden /\ []RequestHangsTogether
<1>1. PathInit => PathInv
  BY DEF PathInit, PathInv, Walking, NoWalk
<1>2. PathInv /\ [PathNext]_pathVars => PathInv'
  <2> SUFFICES ASSUME PathInv, [PathNext]_pathVars PROVE PathInv'
    OBVIOUS
  <2>1. CASE UNCHANGED pathVars
    BY <2>1 DEF pathVars, PathInv, Walking
  <2>2. CASE \/ AtBase \/ ProcessCollectionField \/ ProcessRequestAuthField
             \/ \E field \in DOMAIN PathFields : ProcessRequestBodyRelationField(field)
    BY <2>2, StartsKeep
  <2>3. ASSUME NEW name \in DOMAIN PathFields, FollowRelation(name) \/ FollowBackRelation(name)
        PROVE  PathInv'
    BY <2>3, StepsKeep
  <2>4. ASSUME NEW name \in DOMAIN PathFields,
               RelatedId(name) \/ JsonPath(name) \/ \E modifier \in PathModifiers : FinalizePath(name, modifier)
        PROVE  PathInv'
    BY <2>4, EndsKeep
  <2>5. ASSUME NEW name \in DOMAIN PathFields, Refuse(Prop(name, Plain, Plain)) PROVE PathInv'
    <3>1. walked' = walked /\ walk' = [at |-> "refused"]
      BY <2>5 DEF Refuse
    <3>2. ~Walking'
      BY <3>1 DEF Walking
    <3> QED BY <3>1, <3>2 DEF PathInv
  <2>6. ASSUME NEW keys \in RequestKeys, NEW modifier, ResolveStaticRequestField(keys, modifier) PROVE PathInv'
    BY <2>6, StaticKeeps
  <2> QED BY <2>1, <2>2, <2>3, <2>4, <2>5, <2>6 DEF PathNext
<1>3. PathInv => HiddenStayHidden /\ RequestHangsTogether
  BY SeenIsClear, KeysHangTogether
<1> QED BY <1>1, <1>2, <1>3, PTL DEF PathSpec

(***************************************************************************)
(* All of a request's way together, as the runs check it.                  *)
(***************************************************************************)
\* Limits, guards, requests, objects, uploads, functions, roles, queries and paths keep their promises
\* (RequestsHold).
THEOREM RequestsAreServed ==
  LimitSpec /\ PipelineSpec /\ RestSpec /\ AccessSpec /\ UploadSpec /\ FunctionSpec /\ RoleSpec /\ QuerySpec /\ PathSpec
    => []RequestsHold
<1>1. ASSUME WindowBound, GuardsDecideAlone, BodiesWithinLimit, LoggedOnce, RedirectsSettle,
             AllOrNothing, AnswerIsEffect, PageWithinTotal, AgentsOnlySupply,
             PrivateStaysPrivate, OthersStay, AgentsOnlyRead, UploadLinksAdd,
             BodiesArrive, RefusedWhenLong, TempsGo, PartsMakeWhole, RunsAsChecked,
             ServesIsolated, AllRolesOrNone, OneGetsThrough, MemoryFollows, HiddenStayHidden, RequestHangsTogether
      PROVE  RequestsHold
  BY <1>1 DEF RequestsHold
<1> QED BY <1>1, TwoWindowsAtMost, RequestsGoTheirWay, RequestsAllOrNothing, ObjectsStayTheirs,
           UploadsArriveWhole, FunctionsRunAsChecked, RolesAreAllOrNone, MemoryFollowsPostgres, PathsStayClear, PTL
================================================================================
