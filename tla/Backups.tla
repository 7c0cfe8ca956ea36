--------------------------------- MODULE Backups ---------------------------------
(***************************************************************************)
(* Backups of one server (createBackup, restoreBackup, scheduleBackup of   *)
(* src/core/app.ts with src/core/backup.ts and backup-files.ts) and the    *)
(* cron ticker that schedules them (src/tools/cron/cron.ts).               *)
(*                                                                         *)
(* The database is two tables and the store one object, each known by the  *)
(* write that left it there: every write changes all three.  A backup is   *)
(* known by the number of its directory, and 0 stands for "not there".     *)
(***************************************************************************)
EXTENDS Integers, Sequences

CONSTANTS
    Restorers,   \* slots for concurrent restores
    MaxBackups,  \* bound: backups ever begun
    MaxCrons,    \* bound: schedules ever made
    MaxWrites    \* bound: writes of clients

ASSUME BackupBounds == MaxBackups \in Nat /\ MaxCrons \in Nat /\ MaxWrites \in Nat

VARIABLES
    up,        \* this.database and this.fileStore are set
    written,   \* writes so far
    data,      \* the two tables
    files,     \* the object
    backups,   \* every directory begun: where its backup is, what it holds, its manifest
    restore,   \* what each restore is doing, and from which directory
    schedule,  \* backupCron, 0 for none
    crons,     \* Cron objects made
    starting,  \* those whose start timer is pending
    ticking,   \* those whose interval is running
    used       \* history: directories something was restored from

dataVars == <<written, data, files>>
cronVars == <<schedule, crons, starting, ticking>>
backupVars == <<up, dataVars, backups, restore, cronVars, used>>

BackupInit ==
    /\ up = TRUE /\ written = 1 /\ data = <<1, 1>> /\ files = 1
    /\ backups = <<>> /\ restore = [r \in Restorers |-> [pc |-> "idle", of |-> 0]]
    /\ schedule = 0 /\ crons = 0 /\ starting = {} /\ ticking = {} /\ used = {}

ClientWrites ==
    /\ up /\ written <= MaxWrites
    /\ written' = written + 1 /\ data' = <<written + 1, written + 1>> /\ files' = written + 1
    /\ UNCHANGED <<up, backups, restore, cronVars, used>>

(***************************************************************************)
(* The schedule.                                                           *)
(***************************************************************************)
\* Cron.stop, of the cron in schedule if there is one.
Stopped(timers) == timers \ {schedule}

\* Mutant: the schedule there was is forgotten, and not cancelled.
ScheduleBackup_Again ==
    /\ up /\ crons < MaxCrons
    /\ crons' = crons + 1 /\ schedule' = crons + 1
    /\ starting' = starting \cup {crons + 1} /\ UNCHANGED ticking
    /\ UNCHANGED <<up, dataVars, backups, restore, used>>
ScheduleBackup ==
    /\ up /\ crons < MaxCrons
    /\ crons' = crons + 1 /\ schedule' = crons + 1
    /\ starting' = Stopped(starting) \cup {crons + 1} /\ ticking' = Stopped(ticking)
    /\ UNCHANGED <<up, dataVars, backups, restore, used>>

CancelScheduledBackup ==
    /\ schedule # 0
    /\ schedule' = 0 /\ starting' = Stopped(starting) /\ ticking' = Stopped(ticking)
    /\ UNCHANGED <<up, dataVars, backups, restore, crons, used>>

\* A directory is made.
NewBackup ==
    /\ Len(backups) < MaxBackups
    /\ backups' = Append(backups, [pc |-> "dump", first |-> 0, second |-> 0, object |-> 0,
                                   hasPostgres |-> FALSE, hasFileStore |-> FALSE])

\* runDue: the job is due or not.
RunDue == NewBackup \/ UNCHANGED backups

\* The start timer fires at the boundary: the jobs, then the interval.
Boundary(k) ==
    /\ k \in starting
    /\ starting' = starting \ {k} /\ ticking' = ticking \cup {k}
    /\ RunDue
    /\ UNCHANGED <<up, dataVars, restore, schedule, crons, used>>
Tick(k) == k \in ticking /\ NewBackup /\ UNCHANGED <<up, dataVars, restore, cronVars, used>>

StopServer ==
    /\ up /\ up' = FALSE
    /\ schedule' = 0 /\ starting' = Stopped(starting) /\ ticking' = Stopped(ticking)
    /\ UNCHANGED <<dataVars, backups, restore, crons, used>>
StartServer == ~up /\ up' = TRUE /\ UNCHANGED <<dataVars, backups, restore, cronVars, used>>

(***************************************************************************)
(* A backup.  pg_dump and the store are read as they are by then, also by  *)
(* a backup of a server that has stopped since.                            *)
(***************************************************************************)
RequestBackup == up /\ NewBackup /\ UNCHANGED <<up, dataVars, restore, cronVars, used>>

InBackup(b, pc) == b \in DOMAIN backups /\ backups[b].pc = pc
SetBackup(b, backup) ==
    /\ backups' = [backups EXCEPT ![b] = backup]
    /\ UNCHANGED <<up, dataVars, restore, cronVars, used>>

\* pg_dump: one snapshot.  Without a database there is nothing to dump.
Dump(b) ==
    /\ InBackup(b, "dump")
    /\ \/ up /\ SetBackup(b, [backups[b] EXCEPT !.pc = "files", !.first = data[1], !.second = data[2]])
       \/ ~up /\ SetBackup(b, [backups[b] EXCEPT !.pc = "files"])
\* sqlDump, without pg_dump or when its exit code is not (yet) 0: a query per table.
SqlDump(b) ==
    /\ up /\ InBackup(b, "dump")
    /\ SetBackup(b, [backups[b] EXCEPT !.pc = "sql", !.first = data[1]])
SqlDumpNext(b) ==
    /\ InBackup(b, "sql")
    /\ SetBackup(b, [backups[b] EXCEPT !.pc = "files", !.second = data[2]])

\* backupFileStore, if there still is a store.
CopyFiles(b) ==
    /\ InBackup(b, "files")
    /\ SetBackup(b, [backups[b] EXCEPT !.pc = "manifest", !.object = IF up THEN files ELSE 0])
\* backup.json, written last, says what the server has by then.
WriteManifest(b) ==
    /\ InBackup(b, "manifest")
    /\ SetBackup(b, [backups[b] EXCEPT !.pc = "done", !.hasPostgres = up, !.hasFileStore = up])
BackupFails(b) ==
    /\ b \in DOMAIN backups /\ backups[b].pc \in {"dump", "sql", "files", "manifest"}
    /\ SetBackup(b, [backups[b] EXCEPT !.pc = "failed"])

(***************************************************************************)
(* A restore.                                                              *)
(***************************************************************************)
SetRestore(r, pc, b) ==
    restore' = [restore EXCEPT ![r] = [pc |-> IF pc \in {"psql", "save"} THEN pc ELSE "idle",
                                       of |-> IF pc \in {"psql", "save"} THEN b ELSE 0]]

\* Mutant: the directory is enough.
Restorable_Directory(b) == b \in DOMAIN backups
\* The directory has its backup.json.
Restorable(b) == InBackup(b, "done")

\* What follows the database.
AfterPsql(b) == IF backups[b].hasFileStore /\ up THEN "save" ELSE "answered"

BeginRestore(r, b) ==
    /\ up /\ restore[r].pc = "idle" /\ Restorable(b)
    /\ SetRestore(r, IF backups[b].hasPostgres /\ backups[b].first # 0 THEN "psql" ELSE AfterPsql(b), b)
    /\ UNCHANGED <<up, dataVars, backups, cronVars, used>>

\* psql has run.  Its exit code, which may not be there yet, decides what is answered.
Psql(r) ==
    LET b == restore[r].of IN
    /\ restore[r].pc = "psql"
    /\ data' = <<backups[b].first, backups[b].second>>
    /\ used' = used \cup {b}
    /\ \E pc \in {AfterPsql(b), "failed"} : SetRestore(r, pc, b)
    /\ UNCHANGED <<up, written, files, backups, cronVars>>

\* restoreFileStore: objects of the backup are saved, one that cannot be is skipped.
Save(r) ==
    LET b == restore[r].of IN
    /\ restore[r].pc = "save"
    /\ files' = IF backups[b].object # 0 THEN backups[b].object ELSE files
    /\ used' = used \cup {b}
    /\ SetRestore(r, "answered", b)
    /\ UNCHANGED <<up, written, data, backups, cronVars>>

RestoreFails(r) ==
    /\ restore[r].pc # "idle" /\ SetRestore(r, "failed", 0)
    /\ UNCHANGED <<up, dataVars, backups, cronVars, used>>

BackupNext ==
    \/ ClientWrites \/ ScheduleBackup \/ CancelScheduledBackup
    \/ StopServer \/ StartServer \/ RequestBackup
    \/ \E k \in 1..crons : Boundary(k) \/ Tick(k)
    \/ \E b \in DOMAIN backups :
         \/ Dump(b) \/ SqlDump(b) \/ SqlDumpNext(b) \/ CopyFiles(b) \/ WriteManifest(b) \/ BackupFails(b)
         \/ \E r \in Restorers : BeginRestore(r, b)
    \/ \E r \in Restorers : Psql(r) \/ Save(r) \/ RestoreFails(r)

BackupSpec == BackupInit /\ [][BackupNext]_backupVars

(***************************************************************************)
(* Properties.                                                             *)
(***************************************************************************)
Versions == 0..MaxWrites + 1

\* Every variable has its type.
BackupTypeOK ==
    /\ up \in BOOLEAN /\ written \in 1..MaxWrites + 1
    /\ data \in Versions \X Versions /\ files \in Versions
    /\ backups \in Seq([pc : {"dump", "sql", "files", "manifest", "done", "failed"},
                        first : Versions, second : Versions, object : Versions,
                        hasPostgres : BOOLEAN, hasFileStore : BOOLEAN])
    /\ Len(backups) <= MaxBackups
    /\ restore \in [Restorers -> [pc : {"idle", "psql", "save"}, of : 0..MaxBackups]]
    /\ crons \in 0..MaxCrons /\ schedule \in 0..crons
    /\ starting \subseteq 1..crons /\ ticking \subseteq 1..crons
    /\ used \subseteq DOMAIN backups

\* Only a backup that ran to its end is restored, whatever backups are being made,
\* fail or are cut short meanwhile: all tables of a dump or none, and the object.
RestoresAreComplete == \A b \in used :
    backups[b].pc = "done" /\ (backups[b].first = 0 <=> backups[b].second = 0)

\* However schedules are made, replaced, cancelled and stopped, timers run for the
\* one in force only, and for that one timer.
OneSchedule ==
    /\ starting \cup ticking = {schedule} \ {0}
    /\ starting \cap ticking = {}

\* Both: what is restored is complete, and one schedule makes backups.
BackupsHold == RestoresAreComplete /\ OneSchedule

\* "Create a backup of PostgreSQL and the file store": false when the server stops
\* or starts meanwhile, as the manifest says what the server has at its end.
ManifestTellsTruth == \A b \in DOMAIN backups : backups[b].pc = "done" =>
    /\ backups[b].hasPostgres <=> backups[b].first # 0
    /\ backups[b].hasFileStore <=> backups[b].object # 0
==================================================================================
