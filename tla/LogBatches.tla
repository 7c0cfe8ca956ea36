------------------------------- MODULE LogBatches -------------------------------
(***************************************************************************)
(* The batches of log entries (src/tools/logger/batch_handler.ts) that the *)
(* log retention plugin writes to the table _logs                          *)
(* (src/plugins/log-retention/plugin.ts).                                  *)
(*                                                                         *)
(* Entries are numbered in the order they are logged.  A flush hands its   *)
(* batch to writeFunc at once; writeFunc then awaits an INSERT per entry.  *)
(***************************************************************************)
EXTENDS Integers, Sequences

CONSTANTS
    BatchSize,   \* options.batchSize
    MaxEntries   \* bound: entries ever logged

ASSUME LogBounds == BatchSize \in Nat \ {0} /\ MaxEntries \in Nat

VARIABLES
    count,     \* entries logged so far
    logs,      \* the queue of the handler
    flushing,  \* the flag of the handler
    writing,   \* batches in progress: what each has still to insert
    rows,      \* rows inserted into _logs
    timer,     \* the flush interval is running
    lost,      \* entries whose INSERT failed
    purged     \* entries the retention has deleted

logVars == <<count, logs, flushing, writing, rows, timer, lost, purged>>

LogInit ==
    /\ count = 0 /\ logs = <<>> /\ flushing = FALSE /\ writing = <<>> /\ rows = <<>>
    /\ timer = TRUE /\ lost = {} /\ purged = {}

\* Mutant: a flush does not wait for the one before it.
Flush_Reentrant(queue) ==
    IF queue = <<>> THEN logs' = queue /\ UNCHANGED <<flushing, writing>>
    ELSE logs' = <<>> /\ flushing' = TRUE /\ writing' = Append(writing, queue)
\* flush, up to the first await: nothing while another flush is in progress.
Flush(queue) ==
    IF flushing \/ queue = <<>> THEN logs' = queue /\ UNCHANGED <<flushing, writing>>
    ELSE logs' = <<>> /\ flushing' = TRUE /\ writing' = Append(writing, queue)

\* An entry that is below the level, or refused by beforeAddFunc, changes nothing.
Handle ==
    /\ count < MaxEntries
    /\ count' = count + 1
    /\ LET queue == Append(logs, count + 1) IN
       IF Len(queue) >= BatchSize THEN Flush(queue) ELSE logs' = queue /\ UNCHANGED <<flushing, writing>>
    /\ UNCHANGED <<rows, timer, lost, purged>>

FlushInterval == timer /\ logs # <<>> /\ Flush(logs) /\ UNCHANGED <<count, rows, timer, lost, purged>>
WriteAll == Flush(logs) /\ UNCHANGED <<count, rows, timer, lost, purged>>
\* The plugin disposes of its handler: the interval ends, and what is left is flushed.
Dispose == timer /\ timer' = FALSE /\ Flush(logs) /\ UNCHANGED <<count, rows, lost, purged>>

\* The next INSERT of a batch; one that fails is skipped.
InsertEntry(b) ==
    /\ writing[b] # <<>>
    /\ rows' = Append(rows, Head(writing[b]))
    /\ writing' = [writing EXCEPT ![b] = Tail(@)]
    /\ UNCHANGED <<count, logs, flushing, timer, lost, purged>>
InsertFails(b) ==
    /\ writing[b] # <<>>
    /\ lost' = lost \cup {Head(writing[b])}
    /\ writing' = [writing EXCEPT ![b] = Tail(@)]
    /\ UNCHANGED <<count, logs, flushing, rows, timer, purged>>

\* writeFunc is done.
Flushed(b) ==
    /\ writing[b] = <<>>
    /\ flushing' = FALSE
    /\ writing' = SubSeq(writing, 1, b - 1) \o SubSeq(writing, b + 1, Len(writing))
    /\ UNCHANGED <<count, logs, rows, timer, lost, purged>>

\* The retention: the oldest rows go, whatever is being inserted.
CleanUp ==
    /\ rows # <<>> /\ purged' = purged \cup {Head(rows)} /\ rows' = Tail(rows)
    /\ UNCHANGED <<count, logs, flushing, writing, timer, lost>>

LogNext ==
    \/ Handle \/ FlushInterval \/ WriteAll \/ Dispose \/ CleanUp
    \/ \E b \in DOMAIN writing : InsertEntry(b) \/ InsertFails(b) \/ Flushed(b)

LogSpec == LogInit /\ [][LogNext]_logVars

(***************************************************************************)
(* Properties.                                                             *)
(***************************************************************************)
Entries == 1..MaxEntries
EntriesOf(s) == {s[i] : i \in DOMAIN s}
InBatches == UNION {EntriesOf(writing[b]) : b \in DOMAIN writing}

\* Every variable has its type.
LogTypeOK ==
    /\ count \in 0..MaxEntries /\ flushing \in BOOLEAN /\ timer \in BOOLEAN
    /\ logs \in Seq(Entries) /\ rows \in Seq(Entries) /\ writing \in Seq(Seq(Entries))
    /\ lost \subseteq Entries /\ purged \subseteq Entries

\* Rows are inserted in the order of the entries, each entry at most once, although
\* the size, the interval and WriteAll start flushes while INSERTs are awaited; and
\* an entry that is neither inserted nor failed is still in a batch or the queue.
RowsInOrder ==
    /\ \A i, j \in DOMAIN rows : i < j => rows[i] < rows[j]
    /\ EntriesOf(rows) \cap InBatches = {}
    /\ 1..count = EntriesOf(rows) \cup purged \cup lost \cup InBatches \cup EntriesOf(logs)

\* "the internal queue is emptied and all entries are passed to the writeFunc
\* callback", and so by the "final flush": false when a flush is in progress.
DisposeFlushes == [][Dispose \/ WriteAll => logs' = <<>>]_logVars
=================================================================================
