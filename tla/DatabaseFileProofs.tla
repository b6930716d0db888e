------------------------- MODULE DatabaseFileProofs -------------------------
(***************************************************************************)
(* Theorems about DatabaseFile, for any number of servers, migrations,     *)
(* writes and kills: schemas are complete, and what was committed survives *)
(* backups and restores.                                                   *)
(*                                                                         *)
(* What has to be added is what a process at each step knows of the file   *)
(* (InUse), that a restore has the file to itself (RestoreAlone), and      *)
(* where the data is while a restore is under way (Copies).                *)
(***************************************************************************)
EXTENDS DatabaseFile, TLAPS

\* The databases that migrations can leave behind, and those that have all.
Databases == {c \in Contents : Migratory(c)}

Full == {c \in Contents : c.applied = 1..Migrations /\ c.tables = 1..Migrations}

Migrating == {"migrate", "commit"}

Using == {"up", "unlink", "vacuum", "copy", "close"}

Types ==
  /\ file \in Databases \cup {Absent, Partial}
  /\ wal \in Databases \cup {Absent}
  /\ backup \in Full \cup {Absent, Partial}
  /\ pc \in [Processes -> {"down", "open", "remove", "write"} \cup Migrating \cup Using]
  /\ \A p \in Servers : pc[p] \in {"down", "open", "up"} \cup Migrating
  /\ next \in [Processes -> Nat \ {0}]
  /\ job \in {"backup", "restore"}
  /\ {interrupted, overwritten} \subseteq BOOLEAN

\* Before its migrations a process has read a version that is still right or
\* too low, and whoever has begun one has the lock and finds it missing.
InUse ==
  \A p \in Processes :
    /\ pc[p] \in Migrating \cup Using => IsDatabase(file)
    /\ pc[p] \in Migrating => 1..(next[p] - 1) \subseteq Current.applied
    /\ pc[p] = "commit" =>
         lock = p /\ next[p] <= Migrations /\ next[p] \notin Current.applied
    /\ pc[p] \in Using => Current.applied = 1..Migrations

RestoreAlone ==
  /\ Restoring => IsDatabase(backup) /\ \A p \in Servers : pc[p] = "down"
  /\ pc[Cli] \in {"close", "remove", "write"} => job = "restore"
  /\ pc[Cli] \in {"unlink", "vacuum", "copy"} => job = "backup"
  /\ pc[Cli] \in {"remove", "write"} => interrupted /\ acked = backup.data
  /\ pc[Cli] = "remove" /\ "wal" \notin remove => wal = Absent
  /\ pc[Cli] = "write" => wal = Absent
  /\ pc[Cli] = "copy" => snapshot \in Full
  /\ file = Partial => wal = Absent

\* A database that is gone, or was being written, held nothing that the
\* backup does not; a backup is only being replaced while the database is
\* whole, unless somebody overwrites what a killed restore left.
Copies ==
  /\ ~interrupted => file # Partial /\ (file = Absent => wal = Absent)
  /\ ~overwritten /\ ~IsDatabase(file) => acked \subseteq DataOf(backup)
  /\ pc[Cli] \in {"vacuum", "copy"} /\ ~overwritten => ~interrupted

IInv == Types /\ InUse /\ RestoreAlone /\ Copies /\ CopySurvives

----------------------------------------------------------------------------
(* Databases.                                                              *)

\* Absent and Partial are no databases, and contents are.
LEMMA Kinds ==
  /\ \A c \in Contents : IsDatabase(c) /\ c # Absent /\ DataOf(c) = c.data
  /\ ~IsDatabase(Absent) /\ ~IsDatabase(Partial) /\ Absent # Partial
  /\ DataOf(Absent) = {} /\ DataOf(Partial) = {}
  /\ Full \subseteq Databases /\ Databases \subseteq Contents
  BY FileAssumption DEF IsDatabase, DataOf, Full, Databases, Migratory

\* A new database has no migration.
LEMMA EmptyIsDatabase == Empty \in Databases /\ Empty.data = {} /\ Empty.applied = {}
<1>1. Empty \in Contents /\ Empty.data = {} /\ Empty.applied = {} /\ Empty.tables = {}
  BY DEF Empty, Contents
<1>2. 0 \in 0..Migrations /\ 1..0 = {}
  BY FileAssumption
<1>3. Migratory(Empty)
  BY <1>1, <1>2 DEF Migratory
<1> QED
  BY <1>1, <1>3 DEF Databases

\* The version that runMigrations reads is the last one applied.
LEMMA FirstPendingIsNext ==
  ASSUME NEW c \in Databases
  PROVE  /\ FirstPending(c) \in Nat \ {0}
         /\ 1..(FirstPending(c) - 1) \subseteq c.applied
<1>1. PICK k \in 0..Migrations : c.applied = 1..k
  BY DEF Databases, Migratory
<1>2. k \in Nat /\ k \in 1..k \cup {0} /\ \A y \in 1..k \cup {0} : k >= y
  BY <1>1, FileAssumption
<1>3. \A x \in 1..k \cup {0} : (\A y \in 1..k \cup {0} : x >= y) => x = k
  BY <1>2
<1>4. Max(c.applied \cup {0}) = k
  <2>1. Max(1..k \cup {0}) = CHOOSE x \in 1..k \cup {0} : \A y \in 1..k \cup {0} : x >= y
    BY DEF Max
  <2> QED
    BY <1>1, <1>2, <1>3, <2>1
<1>5. FirstPending(c) = 1 + k
  BY <1>4 DEF FirstPending
<1>6. (1 + k) - 1 = k /\ 1 + k \in Nat \ {0}
  BY <1>2
<1> QED
  BY <1>1, <1>5, <1>6

Plus(c, i) == [c EXCEPT !.tables = @ \cup {i}, !.applied = @ \cup {i}]

\* One migration more, field by field.
LEMMA OneMore ==
  ASSUME NEW c \in Contents, NEW i \in 1..Migrations
  PROVE  /\ Plus(c, i) \in Contents
         /\ Plus(c, i).tables = c.tables \cup {i}
         /\ Plus(c, i).applied = c.applied \cup {i}
         /\ Plus(c, i).data = c.data
  BY DEF Contents, Plus

\* The next migration makes a database of a database.
LEMMA MigratedIsDatabase ==
  ASSUME Current \in Databases, NEW i \in Nat \ {0}, i <= Migrations,
         i \notin Current.applied, 1..(i - 1) \subseteq Current.applied
  PROVE  /\ Migrated(i) \in Databases
         /\ Migrated(i).applied = Current.applied \cup {i}
         /\ Migrated(i).data = Current.data
<1>1. PICK k \in 0..Migrations : Current.applied = 1..k /\ Current.tables = 1..k
  BY DEF Databases, Migratory
<1>2. i = k + 1 /\ 1..k \cup {i} = 1..i /\ i \in 0..Migrations
  <2>1. k \in Nat /\ ~(i <= k)
    BY <1>1, FileAssumption
  <2>2. ~(k + 1 <= i - 1)
    BY <1>1, <2>1
  <2> QED
    BY <2>1, <2>2, FileAssumption
<1>3. Current \in Contents
  BY DEF Databases
<1>4. /\ Migrated(i) \in Contents
      /\ Migrated(i).tables = Current.tables \cup {i}
      /\ Migrated(i).applied = Current.applied \cup {i}
      /\ Migrated(i).data = Current.data
  <2>1. i \in 1..Migrations
    BY FileAssumption
  <2>2. Migrated(i) = Plus(Current, i)
    BY DEF Migrated, Plus
  <2> QED
    BY <1>3, <2>1, <2>2, OneMore
<1>5. Migrated(i).applied = 1..i /\ Migrated(i).tables = 1..i
  BY <1>1, <1>2, <1>4
<1> QED
  BY <1>2, <1>4, <1>5 DEF Databases, Migratory

\* What every process reads is a database, if there is one.
LEMMA CurrentIsDatabase ==
  ASSUME Types
  PROVE  /\ IsDatabase(file) => Current \in Databases
         /\ wal # Absent => Current = wal /\ wal \in Databases
         /\ wal = Absent => Current = file
<1>1. CASE wal = Absent
  BY <1>1 DEF Types, Current, IsDatabase
<1>2. CASE wal # Absent
  BY <1>2 DEF Types, Current, IsDatabase
<1> QED
  BY <1>1, <1>2

----------------------------------------------------------------------------
(* Steps that leave the files alone.                                       *)

\* The first state.
LEMMA InitIInv == Init => IInv
<1> SUFFICES ASSUME Init
             PROVE  IInv
  OBVIOUS
<1>1. Current = Absent /\ DataOf(Current) = {} /\ ~IsDatabase(file)
  BY Kinds DEF Init, Current
<1>2. Types
  <2>1. pc = [p \in Processes |-> "down"] /\ next = [p \in Processes |-> 1]
    BY DEF Init
  <2>2. pc \in [Processes -> {"down"}] /\ next \in [Processes -> Nat \ {0}]
    BY <2>1
  <2>3. \A p \in Servers : pc[p] = "down"
    BY <2>1 DEF Processes
  <2> QED
    BY <2>2, <2>3 DEF Init, Types
<1>3. InUse
  BY DEF Init, InUse, Migrating, Using
<1>4. RestoreAlone
  BY Kinds DEF Init, RestoreAlone, Restoring, Processes
<1>5. Copies /\ CopySurvives
  BY <1>1, Kinds DEF Init, Copies, CopySurvives, Processes
<1> QED
  BY <1>2, <1>3, <1>4, <1>5 DEF IInv

\* A server starts, or a process fails or is killed.
LEMMA StartsAndFailuresIInv ==
  ASSUME IInv, NEW p \in Processes,
         \/ p \in Servers /\ StartServer(p)
         \/ OpenFails(p) \/ MigrationFails(p) \/ Crash(p)
  PROVE  IInv'
<1> USE DEF IInv
<1>1. /\ UNCHANGED <<file, wal, backup, next, job, snapshot, remove, acked, interrupted, overwritten>>
      /\ lock' = lock \/ (lock = p /\ pc' = [pc EXCEPT ![p] = "down"])
      /\ \E to \in {"down", "open"} :
           pc' = [pc EXCEPT ![p] = to] /\ (to = "open" => p \in Servers /\ ~Restoring)
  BY DEF StartServer, OpenFails, MigrationFails, Crash, Fails, Goes, disk, command, history
<1>2. Current' = Current
  BY <1>1 DEF Current
<1>3. Types'
  BY <1>1 DEF Types
<1>4. InUse'
  BY <1>1, <1>2 DEF InUse, Types, Migrating, Using, IsDatabase
<1>5. RestoreAlone'
  BY <1>1, ProcessAssumption DEF RestoreAlone, Types, Restoring, IsDatabase, Processes
<1>6. Copies' /\ CopySurvives'
  BY <1>1, <1>2, ProcessAssumption DEF Copies, CopySurvives, Types, IsDatabase, DataOf, Processes
<1> QED
  BY <1>3, <1>4, <1>5, <1>6

\* A migration begins: the database does not have it.
LEMMA BeginMigrationIInv ==
  ASSUME IInv, NEW p \in Processes, BeginMigration(p)
  PROVE  IInv'
<1> USE DEF IInv
<1>1. /\ UNCHANGED <<file, wal, backup, next, job, snapshot, remove, acked, interrupted, overwritten>>
      /\ pc[p] = "migrate" /\ next[p] <= Migrations /\ next[p] \notin Current.applied
      /\ lock = Absent /\ lock' = p /\ pc' = [pc EXCEPT ![p] = "commit"]
  BY DEF BeginMigration, Goes, disk, command, history
<1>2. Current' = Current
  BY <1>1 DEF Current
<1>3. Types'
  BY <1>1 DEF Types, Migrating
<1>4. InUse'
  <2>1. \A q \in Processes : pc[q] # "commit"
    BY <1>1, ProcessAssumption DEF InUse, Processes
  <2> QED
    BY <1>1, <1>2, <2>1 DEF InUse, Types, Migrating, Using, IsDatabase
<1>5. RestoreAlone'
  BY <1>1, ProcessAssumption DEF RestoreAlone, Types, Restoring, IsDatabase, Processes
<1>6. Copies' /\ CopySurvives'
  BY <1>1, <1>2, ProcessAssumption DEF Copies, CopySurvives, Types, IsDatabase, DataOf, Processes
<1> QED
  BY <1>3, <1>4, <1>5, <1>6

\* The last migration is there.
LEMMA OpenedIInv ==
  ASSUME IInv, NEW p \in Processes, Opened(p)
  PROVE  IInv'
<1> USE DEF IInv
<1> DEFINE to == IF p \in Servers THEN "up" ELSE IF job = "backup" THEN "unlink" ELSE "close"
<1>1. /\ UNCHANGED <<file, wal, backup, next, lock, job, snapshot, remove, acked, interrupted, overwritten>>
      /\ pc[p] = "migrate" /\ next[p] > Migrations /\ pc' = [pc EXCEPT ![p] = to]
  BY DEF Opened, Goes, disk, command, history
<1>2. Current' = Current /\ to \in Using /\ to \notin Migrating
  BY <1>1 DEF Current, Using, Migrating
<1>3. Current.applied = 1..Migrations
  <2>1. IsDatabase(file) /\ 1..(next[p] - 1) \subseteq Current.applied
    BY <1>1 DEF InUse, Migrating
  <2>2. Current.applied \subseteq 1..Migrations
    BY <2>1, CurrentIsDatabase DEF Databases, Contents
  <2>3. 1..Migrations \subseteq 1..(next[p] - 1)
    BY <1>1, FileAssumption DEF Types
  <2> QED
    BY <2>1, <2>2, <2>3
<1>4. Types'
  BY <1>1 DEF Types, Migrating, Using, Processes
<1>5. InUse'
  BY <1>1, <1>2, <1>3 DEF InUse, Types, Migrating, Using, IsDatabase
<1>6. RestoreAlone'
  BY <1>1, ProcessAssumption DEF RestoreAlone, Types, Restoring, IsDatabase, Processes
<1>7. Copies' /\ CopySurvives'
  BY <1>1, <1>2, ProcessAssumption DEF Copies, CopySurvives, Types, IsDatabase, DataOf, Processes
<1> QED
  BY <1>4, <1>5, <1>6, <1>7

\* An operator runs a command.
LEMMA CommandBeginsIInv ==
  ASSUME IInv, BackupCommand \/ RestoreCommand
  PROVE  IInv'
<1> USE DEF IInv
<1>1. /\ UNCHANGED <<file, wal, backup, next, lock, snapshot, remove, acked, interrupted, overwritten>>
      /\ pc[Cli] = "down" /\ pc' = [pc EXCEPT ![Cli] = "open"]
      /\ job' \in {"backup", "restore"}
      /\ job' = "restore" => IsDatabase(backup) /\ \A p \in Servers : pc[p] = "down"
  BY DEF BackupCommand, RestoreCommand, RunCommand, Goes, disk, history
<1>2. Current' = Current
  BY <1>1 DEF Current
<1>3. Types'
  BY <1>1, ProcessAssumption DEF Types, Processes
<1>4. InUse'
  BY <1>1, <1>2 DEF InUse, Types, Migrating, Using, IsDatabase, Processes
<1>5. RestoreAlone'
  BY <1>1, ProcessAssumption DEF RestoreAlone, Types, Restoring, IsDatabase, Processes
<1>6. Copies' /\ CopySurvives'
  BY <1>1, <1>2 DEF Copies, CopySurvives, Types, IsDatabase, DataOf, Processes
<1> QED
  BY <1>3, <1>4, <1>5, <1>6

----------------------------------------------------------------------------
(* Steps on the database.                                                  *)

\* While a server is up or coming up, no restore is under way.
LEMMA NoRestoreBeside ==
  ASSUME IInv, NEW p \in Processes, pc[p] \notin {"down", "remove", "write"}
  PROVE  pc[Cli] \notin {"remove", "write"}
  BY DEF IInv, RestoreAlone, Restoring, Processes

\* A migration is committed.
LEMMA CommitMigrationIInv ==
  ASSUME IInv, NEW p \in Processes, CommitMigration(p)
  PROVE  IInv'
<1> USE DEF IInv
<1> DEFINE i == next[p]
<1>1. /\ UNCHANGED <<file, backup, job, snapshot, remove, acked, interrupted, overwritten>>
      /\ pc[p] = "commit" /\ pc' = [pc EXCEPT ![p] = "migrate"]
      /\ wal' = Migrated(i) /\ next' = [next EXCEPT ![p] = i + 1]
  BY DEF CommitMigration, Commit, Goes, command, history
<1>2. /\ IsDatabase(file) /\ Current \in Databases
      /\ i \in Nat \ {0} /\ i <= Migrations /\ i \notin Current.applied
      /\ 1..(i - 1) \subseteq Current.applied /\ lock = p
  BY <1>1, CurrentIsDatabase DEF InUse, Migrating, Types
<1>3. /\ wal' \in Databases
      /\ wal'.applied = Current.applied \cup {i} /\ wal'.data = Current.data
  BY <1>1, <1>2, MigratedIsDatabase
<1>4. Current' = wal'
  BY <1>3, Kinds DEF Current
<1>5. Types'
  BY <1>1, <1>2, <1>3 DEF Types, Migrating
<1>6. InUse'
  <2> SUFFICES ASSUME NEW q \in Processes
               PROVE  /\ pc'[q] \in Migrating \cup Using => IsDatabase(file')
                      /\ pc'[q] \in Migrating => 1..(next'[q] - 1) \subseteq Current'.applied
                      /\ pc'[q] = "commit" =>
                           lock' = q /\ next'[q] <= Migrations /\ next'[q] \notin Current'.applied
                      /\ pc'[q] \in Using => Current'.applied = 1..Migrations
    BY DEF InUse
  <2>1. CASE q = p
    <3>1. pc'[q] = "migrate" /\ next'[q] = i + 1
      BY <1>1, <2>1 DEF Types
    <3>2. 1..((i + 1) - 1) \subseteq Current.applied \cup {i}
      BY <1>2
    <3> QED
      BY <1>1, <1>2, <1>3, <1>4, <3>1, <3>2 DEF Using, IsDatabase
  <2>2. CASE q # p
    <3>1. pc'[q] = pc[q] /\ next'[q] = next[q]
      BY <1>1, <2>2 DEF Types
    <3>2. pc[q] # "commit"
      BY <1>2, <2>2 DEF InUse
    <3>3. pc[q] \notin Using
      <4>1. i \in 1..Migrations
        BY <1>2, FileAssumption
      <4> QED
        BY <1>2, <4>1 DEF InUse
    <3>4. pc[q] \in Migrating => 1..(next[q] - 1) \subseteq Current.applied
      BY DEF InUse
    <3>5. Current.applied \subseteq Current'.applied
      BY <1>3, <1>4
    <3>6. IsDatabase(file')
      BY <1>1, <1>2 DEF IsDatabase
    <3> QED
      BY <3>1, <3>2, <3>3, <3>4, <3>5, <3>6
  <2> QED
    BY <2>1, <2>2
<1>7. RestoreAlone'
  <2>1. pc[Cli] \notin {"remove", "write"}
    BY <1>1, NoRestoreBeside
  <2>2. file # Partial
    BY <1>2, Kinds
  <2> QED
    BY <1>1, <2>1, <2>2, ProcessAssumption DEF RestoreAlone, Types, Restoring, IsDatabase, Processes
<1>8. Copies' /\ CopySurvives'
  <2>1. DataOf(Current') = DataOf(Current) /\ DataOf(backup') = DataOf(backup)
    BY <1>1, <1>2, <1>3, <1>4, Kinds
  <2>2. IsDatabase(file') /\ file' # Partial /\ file' # Absent
    BY <1>1, <1>2 DEF IsDatabase
  <2>3. pc'[Cli] \in {"vacuum", "copy"} => pc[Cli] \in {"vacuum", "copy"}
    BY <1>1 DEF Types, Processes
  <2> QED
    BY <1>1, <2>1, <2>2, <2>3 DEF Copies, CopySurvives
<1> QED
  BY <1>5, <1>6, <1>7, <1>8

\* A process opens the database, and creates it where there is none.
LEMMA OpenIInv ==
  ASSUME IInv, NEW p \in Processes, Open(p)
  PROVE  IInv'
<1> USE DEF IInv
<1> DEFINE found == IF file = Absent THEN Empty ELSE Current
<1>1. /\ UNCHANGED <<backup, lock, job, snapshot, remove, acked, interrupted, overwritten>>
      /\ pc[p] = "open" /\ pc' = [pc EXCEPT ![p] = "migrate"]
      /\ next' = [next EXCEPT ![p] = FirstPending(found)]
      /\ \/ IsDatabase(file) /\ file' = file /\ wal' = wal
         \/ file = Absent /\ file' = Empty /\ wal' = Absent
  BY DEF Open, Goes, disk, command, history
<1>2. found \in Databases /\ Current' = found
  <2>1. CASE IsDatabase(file)
    BY <1>1, <2>1, CurrentIsDatabase, Kinds DEF Current, IsDatabase
  <2>2. CASE file = Absent
    BY <1>1, <2>2, EmptyIsDatabase, Kinds DEF Current
  <2> QED
    BY <1>1, <2>1, <2>2
<1>3. FirstPending(found) \in Nat \ {0} /\ 1..(FirstPending(found) - 1) \subseteq found.applied
  BY <1>2, FirstPendingIsNext
<1>4. IsDatabase(file')
  BY <1>1, EmptyIsDatabase, Kinds
<1> HIDE DEF found
<1>5. Types'
  BY <1>1, <1>3, EmptyIsDatabase DEF Types, Migrating
<1>6. InUse'
  <2> SUFFICES ASSUME NEW q \in Processes
               PROVE  /\ pc'[q] \in Migrating => 1..(next'[q] - 1) \subseteq Current'.applied
                      /\ pc'[q] = "commit" =>
                           lock' = q /\ next'[q] <= Migrations /\ next'[q] \notin Current'.applied
                      /\ pc'[q] \in Using => Current'.applied = 1..Migrations
    BY <1>4 DEF InUse
  <2>1. CASE q = p
    BY <1>1, <1>2, <1>3, <2>1 DEF Types, Using
  <2>2. CASE q # p
    <3>1. pc'[q] = pc[q] /\ next'[q] = next[q]
      BY <1>1, <2>2 DEF Types
    <3>2. pc[q] \in Migrating \cup Using => IsDatabase(file) /\ Current' = Current
      BY <1>1, <1>2, Kinds DEF InUse, found
    <3> QED
      BY <1>1, <3>1, <3>2 DEF InUse, Migrating
  <2> QED
    BY <2>1, <2>2
<1>7. RestoreAlone'
  <2>1. pc[Cli] \notin {"remove", "write"}
    BY <1>1, NoRestoreBeside
  <2>2. file' # Partial
    BY <1>4, Kinds
  <2> QED
    BY <1>1, <2>1, <2>2, ProcessAssumption DEF RestoreAlone, Types, Restoring, IsDatabase, Processes
<1>8. Copies' /\ CopySurvives'
  <2>1. IsDatabase(file') /\ file' # Partial /\ file' # Absent
    BY <1>4 DEF IsDatabase
  <2>2. pc'[Cli] \in {"vacuum", "copy"} => pc[Cli] \in {"vacuum", "copy"}
    BY <1>1 DEF Types, Processes
  <2>3. CASE IsDatabase(file)
    BY <1>1, <1>2, <2>1, <2>2, <2>3, Kinds DEF Copies, CopySurvives, found
  <2>4. CASE file = Absent
    <3>1. DataOf(Current') = {} /\ DataOf(backup') = DataOf(backup)
      BY <1>1, <1>2, <2>4, EmptyIsDatabase, Kinds DEF found
    <3>2. ~interrupted => acked = {}
      BY <2>4, Kinds DEF Copies, CopySurvives, Current
    <3>3. ~overwritten => acked \subseteq DataOf(backup)
      BY <2>4, Kinds DEF Copies
    <3> QED
      BY <1>1, <2>1, <2>2, <3>1, <3>2, <3>3 DEF Copies, CopySurvives
  <2> QED
    BY <1>1, <2>3, <2>4
<1> QED
  BY <1>5, <1>6, <1>7, <1>8

\* A client's write: one more in the database, and one more to be there.
LEMMA WriteIInv ==
  ASSUME IInv, NEW p \in Servers, NEW w \in Writes, Write(p, w)
  PROVE  IInv'
<1> USE DEF IInv
<1>1. /\ UNCHANGED <<file, backup, pc, next, lock, job, snapshot, remove, interrupted, overwritten>>
      /\ pc[p] = "up" /\ acked' = acked \cup {w} /\ p \in Processes
      /\ wal' = [Current EXCEPT !.data = @ \cup {w}]
  BY DEF Write, Commit, processes, command, Processes
<1>2. IsDatabase(file) /\ Current \in Databases
  BY <1>1, CurrentIsDatabase DEF InUse, Using
<1>3. /\ wal' \in Databases
      /\ wal'.applied = Current.applied /\ wal'.data = Current.data \cup {w}
  <2>1. ASSUME NEW c \in Databases
        PROVE  LET d == [c EXCEPT !.data = @ \cup {w}]
               IN  d \in Databases /\ d.applied = c.applied /\ d.data = c.data \cup {w}
    BY DEF Databases, Contents, Migratory
  <2> QED
    BY <1>1, <1>2, <2>1
<1>4. Current' = wal'
  BY <1>3, Kinds DEF Current
<1>5. Types'
  BY <1>1, <1>3 DEF Types
<1>6. InUse'
  BY <1>1, <1>3, <1>4 DEF InUse, IsDatabase
<1>7. RestoreAlone'
  <2>1. pc[Cli] \notin {"remove", "write"}
    BY <1>1, NoRestoreBeside
  <2>2. file # Partial
    BY <1>2, Kinds
  <2> QED
    BY <1>1, <2>1, <2>2 DEF RestoreAlone, Restoring, IsDatabase
<1>8. Copies' /\ CopySurvives'
  <2>1. DataOf(Current') = DataOf(Current) \cup {w} /\ DataOf(backup') = DataOf(backup)
    BY <1>1, <1>2, <1>3, <1>4, Kinds
  <2>2. IsDatabase(file') /\ file' # Partial /\ file' # Absent
    BY <1>1, <1>2 DEF IsDatabase
  <2> QED
    BY <1>1, <2>1, <2>2 DEF Copies, CopySurvives
<1> QED
  BY <1>5, <1>6, <1>7, <1>8

\* The log goes into the database, which then reads the same.
LEMMA CheckpointKeeps ==
  ASSUME Types, IsDatabase(file), NEW nothing, CheckpointOr(nothing)
  PROVE  /\ file' \in Databases /\ wal' \in {wal, Absent}
         /\ Current' = Current
<1>1. CASE wal # Absent /\ file' = wal /\ wal' = Absent
  BY <1>1 DEF Types, Current
<1>2. CASE UNCHANGED <<file, wal>>
  BY <1>2 DEF Types, Current, IsDatabase
<1> QED
  BY <1>1, <1>2 DEF CheckpointOr

\* A server checkpoints or stops.
LEMMA CheckpointIInv ==
  ASSUME IInv, NEW p \in Servers, Checkpoint(p) \/ Stop(p)
  PROVE  IInv'
<1> USE DEF IInv
<1>1. /\ UNCHANGED <<backup, next, lock, job, snapshot, remove, acked, interrupted, overwritten>>
      /\ pc[p] = "up" /\ p \in Processes
      /\ pc' \in {pc, [pc EXCEPT ![p] = "down"]}
      /\ CheckpointOr(FALSE) \/ CheckpointOr(TRUE)
  BY DEF Checkpoint, Stop, Goes, processes, command, history, Processes
<1>2. IsDatabase(file)
  BY <1>1 DEF InUse, Using
<1>3. file' \in Databases /\ wal' \in {wal, Absent} /\ Current' = Current
  BY <1>1, <1>2, CheckpointKeeps
<1>4. IsDatabase(file') /\ file' # Partial /\ file' # Absent
  BY <1>3, Kinds
<1>5. Types'
  <2>1. CASE pc' = pc
    BY <1>1, <1>3, <2>1 DEF Types
  <2>2. CASE pc' = [pc EXCEPT ![p] = "down"]
    BY <1>1, <1>3, <2>2 DEF Types
  <2> QED
    BY <1>1, <2>1, <2>2
<1>6. InUse'
  BY <1>1, <1>3, <1>4 DEF InUse, Types, Migrating, Using
<1>7. RestoreAlone'
  <2>1. pc[Cli] \notin {"remove", "write"}
    BY <1>1, NoRestoreBeside
  <2> QED
    BY <1>1, <1>4, <2>1, ProcessAssumption DEF RestoreAlone, Types, Restoring, IsDatabase, Processes
<1>8. Copies' /\ CopySurvives'
  BY <1>1, <1>3, <1>4, ProcessAssumption DEF Copies, CopySurvives, Types, DataOf, IsDatabase, Processes
<1> QED
  BY <1>5, <1>6, <1>7, <1>8

----------------------------------------------------------------------------
(* The commands.                                                           *)

\* A step of a backup: the older one goes, a new one is written.
LEMMA BackupIInv ==
  ASSUME IInv, UnlinkBackup \/ BeginVacuum \/ EndVacuum
  PROVE  IInv'
<1> USE DEF IInv
<1> DEFINE at == pc[Cli]
<1>1. /\ UNCHANGED <<file, wal, next, lock, job, remove, acked, interrupted>>
      /\ \/ /\ at = "unlink" /\ pc' = [pc EXCEPT ![Cli] = "vacuum"]
            /\ backup' = Absent /\ overwritten' = (overwritten \/ interrupted)
         \/ /\ at = "vacuum" /\ pc' = [pc EXCEPT ![Cli] = "copy"]
            /\ backup' = Partial /\ snapshot' = Current /\ UNCHANGED overwritten
         \/ /\ at = "copy" /\ pc' = [pc EXCEPT ![Cli] = "down"]
            /\ backup' = snapshot /\ UNCHANGED overwritten
  BY DEF UnlinkBackup, BeginVacuum, EndVacuum, Goes, command, history
<1>2. Cli \in Processes /\ Current' = Current /\ at \in Using /\ job = "backup"
  BY <1>1 DEF Processes, Current, Using, RestoreAlone
<1>3. /\ IsDatabase(file) /\ Current \in Full /\ (at = "copy" => snapshot \in Full)
      /\ file # Absent /\ file # Partial
  <2>1. IsDatabase(file) /\ Current.applied = 1..Migrations
    BY <1>2 DEF InUse
  <2>2. Current \in Databases
    BY <2>1, CurrentIsDatabase
  <2>3. Current.tables = Current.applied
    BY <2>2 DEF Databases, Migratory
  <2>4. Current \in Full
    BY <2>1, <2>2, <2>3 DEF Full, Databases
  <2>5. at = "copy" => snapshot \in Full
    BY DEF RestoreAlone
  <2> QED
    BY <2>1, <2>4, <2>5 DEF IsDatabase
<1>4. Types'
  <2>1. backup' \in Full \cup {Absent, Partial}
    BY <1>1, <1>3
  <2>2. PICK to \in {"down", "vacuum", "copy"} : pc' = [pc EXCEPT ![Cli] = to]
    BY <1>1
  <2>3. pc' \in [Processes -> {"down", "open", "remove", "write"} \cup Migrating \cup Using]
    BY <2>2 DEF Types, Using
  <2>4. \A p \in Servers : pc'[p] = pc[p]
    BY <2>2, ProcessAssumption DEF Types
  <2>5. overwritten' \in BOOLEAN
    BY <1>1 DEF Types
  <2> QED
    BY <1>1, <2>1, <2>3, <2>4, <2>5 DEF Types
<1>5. InUse'
  BY <1>1, <1>2, <1>3, Kinds DEF InUse, Types, Migrating, Using, IsDatabase, Full
<1>6. RestoreAlone'
  BY <1>1, <1>2, <1>3 DEF RestoreAlone, Types, Restoring
<1>7. Copies'
  BY <1>1, <1>2, <1>3 DEF Copies, Types, IsDatabase
<1>8. CopySurvives'
  <2>1. DataOf(Current') = DataOf(Current)
    BY <1>2
  <2>2. ~overwritten' => ~interrupted
    BY <1>1, <1>2 DEF Copies, Types
  <2> QED
    BY <1>1, <2>1, <2>2 DEF CopySurvives
<1> QED
  BY <1>4, <1>5, <1>6, <1>7, <1>8

\* A step of a restore, which has the files to itself.
LEMMA RestoreIInv ==
  ASSUME IInv,
         CloseForRestore \/ (\E f \in Unlinked : Unlink(f)) \/ BeginWrite \/ EndWrite
  PROVE  IInv'
<1> USE DEF IInv
<1> DEFINE at == pc[Cli]
<1>1. /\ at \in {"close", "remove", "write"} /\ job = "restore" /\ Restoring
      /\ Cli \in Processes
      /\ UNCHANGED <<backup, next, lock, job, snapshot, overwritten>>
  BY DEF CloseForRestore, Unlink, BeginWrite, EndWrite, Goes, RestoreAlone, Restoring,
         processes, command, history, Processes
<1>2. /\ \A p \in Servers : pc[p] = "down"
      /\ IsDatabase(backup) /\ backup \in Full /\ DataOf(backup) = backup.data
  <2>1. IsDatabase(backup) /\ \A p \in Servers : pc[p] = "down"
    BY <1>1 DEF RestoreAlone
  <2>2. backup \in Full
    BY <2>1 DEF Types, IsDatabase
  <2> QED
    BY <2>1, <2>2, Kinds
<1>3. CASE CloseForRestore
  <2>1. /\ at = "close" /\ CheckpointOr(TRUE) /\ remove' = Unlinked
        /\ acked' = backup.data /\ interrupted' = TRUE /\ pc' = [pc EXCEPT ![Cli] = "remove"]
    BY <1>3 DEF CloseForRestore, Goes
  <2>2. IsDatabase(file)
    BY <1>1, <2>1 DEF InUse, Using
  <2>3. file' \in Databases /\ wal' \in {wal, Absent} /\ Current' = Current
    BY <2>1, <2>2, CheckpointKeeps
  <2>4. Types'
    BY <1>1, <2>1, <2>3, ProcessAssumption DEF Types
  <2>5. InUse'
    BY <1>1, <1>2, <2>1 DEF InUse, Types, Migrating, Using, Processes
  <2>6. RestoreAlone'
    BY <1>1, <1>2, <2>1, <2>3, Kinds, ProcessAssumption
      DEF RestoreAlone, Types, Restoring, Unlinked, IsDatabase
  <2>7. Copies' /\ CopySurvives'
    BY <1>1, <1>2, <2>1 DEF Copies, CopySurvives, Types, DataOf, IsDatabase
  <2> QED
    BY <2>4, <2>5, <2>6, <2>7
<1>4. ASSUME NEW f \in Unlinked, Unlink(f)
      PROVE  IInv'
  <2>1. /\ at = "remove" /\ remove' = remove \ {f}
        /\ file' = (IF f = "file" THEN Absent ELSE file) /\ wal' = (IF f = "wal" THEN Absent ELSE wal)
        /\ UNCHANGED <<pc, acked, interrupted>>
    BY <1>4 DEF Unlink, processes, history
  <2>2. interrupted /\ acked = DataOf(backup)
    BY <1>2, <2>1 DEF RestoreAlone
  <2>3. Types'
    BY <1>1, <2>1 DEF Types
  <2>4. InUse'
    BY <1>1, <1>2, <2>1 DEF InUse, Migrating, Using, Processes
  <2>5. RestoreAlone'
    BY <1>1, <1>2, <2>1, Kinds DEF RestoreAlone, Restoring, Unlinked, IsDatabase
  <2>6. Copies' /\ CopySurvives'
    BY <1>1, <2>1, <2>2 DEF Copies, CopySurvives, DataOf, IsDatabase
  <2> QED
    BY <2>3, <2>4, <2>5, <2>6
<1>5. CASE BeginWrite
  <2>1. /\ at = "remove" /\ remove = {} /\ file' = Partial /\ pc' = [pc EXCEPT ![Cli] = "write"]
        /\ UNCHANGED <<wal, acked, interrupted>>
    BY <1>5 DEF BeginWrite, Goes, history
  <2>2. interrupted /\ acked = DataOf(backup) /\ wal = Absent
    BY <1>2, <2>1 DEF RestoreAlone
  <2>3. Types'
    BY <1>1, <2>1, ProcessAssumption DEF Types
  <2>4. InUse'
    BY <1>1, <1>2, <2>1 DEF InUse, Types, Migrating, Using, Processes
  <2>5. RestoreAlone'
    BY <1>1, <1>2, <2>1, <2>2, ProcessAssumption DEF RestoreAlone, Types, Restoring, IsDatabase
  <2>6. Copies' /\ CopySurvives'
    BY <1>1, <2>1, <2>2 DEF Copies, CopySurvives, Types, DataOf, IsDatabase
  <2> QED
    BY <2>3, <2>4, <2>5, <2>6
<1>6. CASE EndWrite
  <2>1. /\ at = "write" /\ file' = backup /\ pc' = [pc EXCEPT ![Cli] = "down"]
        /\ interrupted' = FALSE /\ UNCHANGED <<wal, acked>>
    BY <1>6 DEF EndWrite, Goes
  <2>2. acked = DataOf(backup) /\ wal = Absent
    BY <1>2, <2>1 DEF RestoreAlone
  <2>3. /\ Current' = backup /\ file' \in Databases
        /\ IsDatabase(file') /\ file' # Partial /\ file' # Absent
    BY <1>2, <2>1, <2>2, Kinds DEF Current, IsDatabase
  <2>4. Types'
    <3>1. pc' \in [Processes -> {"down", "open", "remove", "write"} \cup Migrating \cup Using]
      BY <2>1 DEF Types
    <3>2. \A p \in Servers : pc'[p] = pc[p]
      BY <2>1, ProcessAssumption DEF Types
    <3> QED
      BY <1>1, <2>1, <2>3, <3>1, <3>2 DEF Types
  <2>5. InUse'
    BY <1>1, <1>2, <2>1 DEF InUse, Types, Migrating, Using, Processes
  <2>6. RestoreAlone'
    BY <1>1, <1>2, <2>1, <2>2, <2>3 DEF RestoreAlone, Types, Restoring
  <2>7. Copies' /\ CopySurvives'
    BY <1>1, <2>1, <2>2, <2>3 DEF Copies, CopySurvives, Types
  <2> QED
    BY <2>4, <2>5, <2>6, <2>7
<1> QED
  BY <1>3, <1>4, <1>5, <1>6

----------------------------------------------------------------------------
(* The theorems.                                                           *)

\* Every step keeps the invariant.
LEMMA StepIInv == IInv /\ [Next]_vars => IInv'
<1> SUFFICES ASSUME IInv, [Next]_vars
             PROVE  IInv'
  OBVIOUS
<1>1. ASSUME NEW p \in Servers, StartServer(p) \/ Serving(p)
      PROVE  IInv'
  <2>1. p \in Processes
    BY DEF Processes
  <2> QED
    BY <1>1, <2>1, StartsAndFailuresIInv, WriteIInv, CheckpointIInv DEF Serving
<1>2. ASSUME NEW p \in Processes, Opening(p) \/ Crash(p)
      PROVE  IInv'
  BY <1>2, StartsAndFailuresIInv, OpenIInv, BeginMigrationIInv, CommitMigrationIInv, OpenedIInv
    DEF Opening
<1>3. CASE BackupCommand \/ RestoreCommand
  BY <1>3, CommandBeginsIInv
<1>4. CASE Command
  BY <1>4, BackupIInv, RestoreIInv DEF Command
<1>5. CASE UNCHANGED vars
  BY <1>5 DEF vars, disk, processes, command, history, IInv, Types, InUse, RestoreAlone, Copies,
              CopySurvives, Restoring, IsDatabase, DataOf, Current
<1> QED
  BY <1>1, <1>2, <1>3, <1>4, <1>5 DEF Next

\* The inductive invariant holds in every state.
THEOREM FileInvariant == Spec => []IInv
  BY InitIInv, StepIInv, PTL DEF Spec

\* Wherever processes are killed and however many migrate at once, databases
\* and backups have the tables that they say they have, and a process that
\* uses one finds all of them.
THEOREM SchemaStaysComplete == Spec => []SchemaIsComplete
<1>1. ASSUME IInv
      PROVE  SchemaIsComplete
  <2>1. \A f \in {file, wal} : IsDatabase(f) => Migratory(f)
    BY <1>1 DEF IInv, Types, IsDatabase, Databases
  <2>2. IsDatabase(backup) => backup.applied = 1..Migrations
    BY <1>1 DEF IInv, Types, IsDatabase, Full
  <2>3. \A p \in Processes :
          pc[p] \in {"up", "unlink", "vacuum", "copy", "close"} => Current.applied = 1..Migrations
    BY <1>1 DEF IInv, InUse, Using
  <2> QED
    BY <2>1, <2>2, <2>3 DEF SchemaIsComplete
<1> QED
  BY <1>1, FileInvariant, PTL

\* What was committed, or was in the backup that was restored over it, is
\* what the database holds, and while a restore is under way or was killed it
\* is in the database or in the backup.
THEOREM CopyAlwaysSurvives == Spec => []CopySurvives
<1>1. IInv => CopySurvives
  BY DEF IInv
<1> QED
  BY <1>1, FileInvariant, PTL

=============================================================================
