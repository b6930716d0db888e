---------------------------- MODULE DatabaseFile ----------------------------
(***************************************************************************)
(* One workspace's database file and what becomes of it: the processes     *)
(* that open and migrate it (packages/core/src/db/connection.ts and        *)
(* migrations.ts), and the commands `backup` and `restore` of              *)
(* packages/server/src/cli.ts.  Any process may die between two steps.     *)
(*                                                                         *)
(* The operator follows docs/runbook.md: a backup is taken at any time, a  *)
(* restore while nothing else runs, from a backup that was completed.      *)
(* SQLite's part (recovery, the write-ahead log, one writer) is external.  *)
(***************************************************************************)
EXTENDS Naturals, FiniteSets, FiniteSetsExt

CONSTANTS
  Servers,
  Cli,          \* the process of a command
  Migrations,   \* the number of them
  Writes,       \* what clients commit, each once
  CrashBound,   \* bounds the model: processes killed
  CommandBound, \* bounds the model: commands run
  Absent,
  Partial       \* a file that was not written to its end

ASSUME ProcessAssumption == Cli \notin Servers /\ Absent \notin Servers \cup {Cli}

\* Tables and schema_migrations, and the clients' data.
Contents == [tables : SUBSET (1..Migrations), applied : SUBSET (1..Migrations), data : SUBSET Writes]

ASSUME FileAssumption ==
  /\ Migrations \in Nat \ {0}
  /\ {Absent, Partial} \cap Contents = {} /\ Absent # Partial

VARIABLES
  file,     \* the database without its write-ahead log
  wal,      \* what the log makes of it, if there is one
  lock,     \* the process that has begun to write
  backup,   \* the file of --out and --in
  pc,       \* what each process is about to do
  next,     \* the migration that each process is at
  job,      \* the command that Cli runs
  snapshot, \* what VACUUM INTO copies
  remove,   \* the files that restore has yet to unlink
  written,  \* writes so far
  crashes,
  commands,
  \* History:
  acked,       \* committed writes that should be there
  interrupted, \* the last restore has begun to unlink and has not ended
  overwritten  \* a backup has been replaced after such a restore

disk == <<file, wal, backup>>
processes == <<pc, next, lock>>
command == <<job, snapshot, remove>>
history == <<acked, interrupted, overwritten>>
vars == <<disk, processes, command, written, crashes, commands, history>>

Processes == Servers \cup {Cli}

----------------------------------------------------------------------------
(* The file.                                                               *)

Empty == [tables |-> {}, applied |-> {}, data |-> {}]

IsDatabase(f) == f \notin {Absent, Partial}

\* What a connection reads.
Current == IF wal # Absent THEN wal ELSE file

Commit(contents) ==
  /\ wal' = contents
  /\ UNCHANGED <<file, backup>>

\* When the last connection goes, or now and then, the log goes into the file.
CheckpointOr(nothing) ==
  \/ wal # Absent /\ file' = wal /\ wal' = Absent
  \/ nothing /\ UNCHANGED <<file, wal>>

----------------------------------------------------------------------------
(* Opening.                                                                *)

Goes(p, to) == pc' = [pc EXCEPT ![p] = to]

\* The start fails and the process ends, or tries again when it needs the
\* database: both are a new start.
Fails(p) ==
  /\ Goes(p, "down")
  /\ UNCHANGED <<disk, next, lock, command, written, crashes, commands, history>>

Restoring == pc[Cli] # "down" /\ job = "restore"

StartServer(p) ==
  /\ pc[p] = "down"
  /\ ~Restoring
  /\ Goes(p, "open")
  /\ UNCHANGED <<disk, next, lock, command, written, crashes, commands, history>>

FirstMigration(contents) == 1

\* What runMigrations begins with: the version it reads, outside the
\* transactions that follow.
FirstPending(contents) == 1 + Max(contents.applied \cup {0})

\* A database that is not there is created; a log that was left without one
\* is deleted by SQLite.
Open(p) ==
  /\ pc[p] = "open"
  /\ \/ IsDatabase(file) /\ UNCHANGED disk
     \/ file = Absent /\ file' = Empty /\ wal' = Absent /\ UNCHANGED backup
  /\ next' = [next EXCEPT ![p] = FirstPending(IF file = Absent THEN Empty ELSE Current)]
  /\ Goes(p, "migrate")
  /\ UNCHANGED <<lock, command, written, crashes, commands, history>>

\* The file is no database, or another process is writing: there is no
\* busy handler.
OpenFails(p) ==
  /\ pc[p] = "open"
  /\ file = Partial \/ lock # Absent
  /\ Fails(p)

\* Its first write begins a migration's transaction.
BeginMigration(p) ==
  /\ pc[p] = "migrate"
  /\ next[p] <= Migrations /\ next[p] \notin Current.applied
  /\ lock = Absent
  /\ lock' = p
  /\ Goes(p, "commit")
  /\ UNCHANGED <<disk, next, command, written, crashes, commands, history>>

\* Somebody else is migrating, or was quicker: schema_migrations has the
\* version already.
MigrationFails(p) ==
  /\ pc[p] = "migrate"
  /\ next[p] <= Migrations
  /\ lock # Absent \/ next[p] \in Current.applied
  /\ Fails(p)

MigratedTablesFirst(i) ==
  IF i \in Current.tables
  THEN [Current EXCEPT !.applied = @ \cup {i}]
  ELSE [Current EXCEPT !.tables = @ \cup {i}]

Migrated(i) == [Current EXCEPT !.tables = @ \cup {i}, !.applied = @ \cup {i}]

CommitMigration(p) ==
  /\ pc[p] = "commit"
  /\ Commit(Migrated(next[p]))
  /\ lock' = Absent
  /\ next' = [next EXCEPT ![p] = @ + 1]
  /\ Goes(p, "migrate")
  /\ UNCHANGED <<command, written, crashes, commands, history>>

Opened(p) ==
  /\ pc[p] = "migrate"
  /\ next[p] > Migrations
  /\ Goes(p, IF p \in Servers THEN "up" ELSE IF job = "backup" THEN "unlink" ELSE "close")
  /\ UNCHANGED <<disk, next, lock, command, written, crashes, commands, history>>

Opening(p) ==
  Open(p) \/ OpenFails(p) \/ BeginMigration(p) \/ MigrationFails(p) \/ CommitMigration(p) \/ Opened(p)

----------------------------------------------------------------------------
(* Serving.                                                                *)

\* A client's call commits.
Write(p, w) ==
  /\ pc[p] = "up"
  /\ lock = Absent
  /\ w \notin written
  /\ Commit([Current EXCEPT !.data = @ \cup {w}])
  /\ written' = written \cup {w}
  /\ acked' = acked \cup {w}
  /\ UNCHANGED <<processes, command, crashes, commands, interrupted, overwritten>>

Checkpoint(p) ==
  /\ pc[p] = "up"
  /\ CheckpointOr(FALSE)
  /\ UNCHANGED <<backup, processes, command, written, crashes, commands, history>>

Stop(p) ==
  /\ pc[p] = "up"
  /\ CheckpointOr(TRUE)
  /\ Goes(p, "down")
  /\ UNCHANGED <<backup, next, lock, command, written, crashes, commands, history>>

\* A process is killed: SQLite rolls back what it had begun.
Crash(p) ==
  /\ pc[p] # "down"
  /\ crashes < CrashBound
  /\ crashes' = crashes + 1
  /\ Goes(p, "down")
  /\ lock' = IF lock = p THEN Absent ELSE lock
  /\ UNCHANGED <<disk, next, command, written, commands, history>>

----------------------------------------------------------------------------
(* gadget-mcp backup.                                                      *)

RunCommand(name) ==
  /\ pc[Cli] = "down"
  /\ commands < CommandBound
  /\ commands' = commands + 1
  /\ job' = name
  /\ Goes(Cli, "open")
  /\ UNCHANGED <<disk, next, lock, snapshot, remove, written, crashes, history>>

BackupCommand == RunCommand("backup")

\* The older backup goes first.
UnlinkBackup ==
  /\ pc[Cli] = "unlink"
  /\ backup' = Absent
  /\ overwritten' = (overwritten \/ interrupted)
  /\ Goes(Cli, "vacuum")
  /\ UNCHANGED <<file, wal, next, lock, command, written, crashes, commands, acked, interrupted>>

\* VACUUM INTO copies what its transaction sees, while servers go on.
BeginVacuum ==
  /\ pc[Cli] = "vacuum"
  /\ snapshot' = Current
  /\ backup' = Partial
  /\ Goes(Cli, "copy")
  /\ UNCHANGED <<file, wal, next, lock, job, remove, written, crashes, commands, history>>

EndVacuum ==
  /\ pc[Cli] = "copy"
  /\ backup' = snapshot
  /\ snapshot' = Empty
  /\ Goes(Cli, "down")
  /\ UNCHANGED <<file, wal, next, lock, job, remove, written, crashes, commands, history>>

----------------------------------------------------------------------------
(* gadget-mcp restore.                                                     *)

RestoreCommand ==
  /\ IsDatabase(backup)
  /\ \A p \in Servers : pc[p] = "down"
  /\ RunCommand("restore")

UnlinkedFileOnly == {"file"}

Unlinked == {"file", "wal"}

\* The connection that was opened to learn the file's path is closed.  Its
\* close leaves the log where it is as long as statements are alive.
CloseForRestore ==
  /\ pc[Cli] = "close"
  /\ CheckpointOr(TRUE)
  /\ remove' = Unlinked
  /\ acked' = backup.data
  /\ interrupted' = TRUE
  /\ Goes(Cli, "remove")
  /\ UNCHANGED <<backup, next, lock, job, snapshot, written, crashes, commands, overwritten>>

\* The files are unlinked in whatever order the system gets to them.
Unlink(f) ==
  /\ pc[Cli] = "remove"
  /\ f \in remove
  /\ remove' = remove \ {f}
  /\ file' = IF f = "file" THEN Absent ELSE file
  /\ wal' = IF f = "wal" THEN Absent ELSE wal
  /\ UNCHANGED <<backup, processes, job, snapshot, written, crashes, commands, history>>

BeginWrite ==
  /\ pc[Cli] = "remove"
  /\ remove = {}
  /\ file' = Partial
  /\ Goes(Cli, "write")
  /\ UNCHANGED <<wal, backup, next, lock, command, written, crashes, commands, history>>

EndWrite ==
  /\ pc[Cli] = "write"
  /\ file' = backup
  /\ interrupted' = FALSE
  /\ Goes(Cli, "down")
  /\ UNCHANGED <<wal, backup, next, lock, command, written, crashes, commands, acked, overwritten>>

----------------------------------------------------------------------------
(* The specification.                                                      *)

Init ==
  /\ file = Absent /\ wal = Absent /\ backup = Absent
  /\ lock = Absent
  /\ pc = [p \in Processes |-> "down"] /\ next = [p \in Processes |-> 1]
  /\ job = "backup" /\ snapshot = Empty /\ remove = {}
  /\ written = {} /\ crashes = 0 /\ commands = 0
  /\ acked = {} /\ interrupted = FALSE /\ overwritten = FALSE

Serving(p) ==
  \/ \E w \in Writes : Write(p, w)
  \/ Checkpoint(p)
  \/ Stop(p)

Command ==
  \/ UnlinkBackup \/ BeginVacuum \/ EndVacuum
  \/ CloseForRestore \/ (\E f \in Unlinked : Unlink(f)) \/ BeginWrite \/ EndWrite

Next ==
  \/ \E p \in Servers : StartServer(p) \/ Serving(p)
  \/ \E p \in Processes : Opening(p) \/ Crash(p)
  \/ BackupCommand \/ RestoreCommand \/ Command

\* Processes go on with what they have begun, and a server that failed to
\* start is started again when its client wants it.
Fairness ==
  /\ \A p \in Processes : WF_vars(Opening(p))
  /\ \A p \in Servers : WF_vars(StartServer(p))
  /\ WF_vars(Command)

Spec == Init /\ [][Next]_vars /\ Fairness

----------------------------------------------------------------------------
(* Properties.                                                             *)

Migratory(contents) ==
  \E k \in 0..Migrations : contents.applied = 1..k /\ contents.tables = 1..k

\* Wherever a process is killed and however many migrate at once, a database
\* has the tables of its first k migrations and says so, a process that uses
\* it has them all, and so has every backup.
SchemaIsComplete ==
  /\ \A f \in {file, wal} : IsDatabase(f) => Migratory(f)
  /\ IsDatabase(backup) => backup.applied = 1..Migrations
  /\ \A p \in Processes :
       pc[p] \in {"up", "unlink", "vacuum", "copy", "close"} => Current.applied = 1..Migrations

DataOf(f) == IF IsDatabase(f) THEN f.data ELSE {}

\* What was committed, or was in the backup that was restored over it, is
\* what the database holds: nothing of an older log comes back.  While a
\* restore is under way, or after one that was killed, it is in the database
\* or in the backup still, until somebody backs up what such a restore left.
CopySurvives ==
  /\ ~interrupted => DataOf(Current) = acked
  /\ ~overwritten => acked \subseteq DataOf(Current) \cup DataOf(backup)

\* Sooner or later a server is up, however many start on one new file at a
\* time and fail over each other; only a restore that was killed while it
\* wrote the file keeps them all from it.
SomeServerComesUp == <>(\E p \in Servers : pc[p] = "up") \/ <>[](file = Partial)

=============================================================================
