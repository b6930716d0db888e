---------------------------- MODULE SharedStore ----------------------------
(***************************************************************************)
(* Several server processes on one database file: stdio sessions that      *)
(* share a volume, or the CLI beside a server.  GadgetStore takes a call   *)
(* as one step; here it is what its transaction consists of.               *)
(*                                                                         *)
(* bun:sqlite's transaction() opens a deferred transaction: its first read *)
(* takes a snapshot of the committed tables, its first write asks for the  *)
(* file's one write lock, and SQLite refuses that with SQLITE_BUSY while   *)
(* another process holds the lock or once the snapshot is stale.  openDb   *)
(* sets no busy handler that would retry.  SQLite itself is not under src/ *)
(* and is modelled by these rules.                                         *)
(*                                                                         *)
(* add and delete read outside the transaction that writes; AtomicCalls    *)
(* says what that costs.  The variables of GadgetStore are the committed   *)
(* tables.                                                                 *)
(*                                                                         *)
(* As in GadgetStore, no action uses the variants with a slip in them that *)
(* stand before the definition they are named for.                         *)
(***************************************************************************)
EXTENDS GadgetStore

CONSTANTS
  Processes,
  NoProcess

ASSUME ProcessesAssumption == NoProcess \notin Processes

VARIABLES
  process,  \* what each process is doing
  stale,    \* processes whose snapshot is older than the committed tables
  writer,   \* the process that holds the write lock, or NoProcess
  overtaken \* history: processes between whose last check outside a
            \* transaction and what they did next another one committed

allVars ==
  <<gadgets, aliases, revisions, fts, outcome, process, stale, writer, overtaken>>

Calls ==
  [op : {"put", "add"}, id : Names, body : Bodies]
    \cup [op : {"delete"}, id : Names]
    \cup [op : {"rename"}, id : Names, newId : Names]
    \cup [op : {"rollback"}, id : Names, version : 1..VersionBound]

Idle == [pc |-> "idle"]

\* A call that has done its reads outside a transaction.
Checked(c) == [pc |-> "checked", call |-> c]

\* A call inside its transaction, with what it read there: whether the gadget
\* exists, and the body its revision will hold.
InTransaction(pc, c, existing, body) ==
  [pc |-> pc, call |-> c, existing |-> existing, body |-> body]

Set(p, state) == process' = [process EXCEPT ![p] = state]

----------------------------------------------------------------------------
(* Reads.                                                                  *)

\* What the checks of a transaction say of the tables it sees.
Verdict(c) ==
  CASE c.op \in {"put", "add"} -> PutVerdict(c.id)
    [] c.op = "rename"         -> RenameVerdict(c.id, c.newId)
    [] c.op = "rollback"       -> RollbackVerdict(c.id, c.version)

BodyRead(c) ==
  CASE c.op \in {"put", "add"} -> c.body
    [] c.op = "rename"         -> gadgets[c.id].body
    [] c.op = "rollback"       ->
         (CHOOSE r \in RevisionsIn(revisions, c.id) : r.version = c.version).body

\* The checks of add and delete, before any transaction.
CheckVerdict(c) ==
  IF c.op = "add" /\ c.id \notin ValidNames THEN "invalidId"
  ELSE IF c.op = "add" /\ Live(c.id) THEN "alreadyExists"
  ELSE IF c.op = "delete" /\ ~Live(c.id) THEN "notFound"
  ELSE "ok"

Check(p, c) ==
  /\ process[p] = Idle
  /\ c.op \in {"add", "delete"}
  /\ \/ CheckVerdict(c) = "ok" /\ Set(p, Checked(c)) /\ UNCHANGED <<store, outcome>>
     \/ CheckVerdict(c) # "ok" /\ Answer(CheckVerdict(c)) /\ UNCHANGED process
  /\ overtaken' = overtaken \ {p}
  /\ UNCHANGED <<stale, writer>>

\* BEGIN and the reads of a transaction, on a fresh snapshot.
Begin(p, c) ==
  /\ NextVersion(revisions, c.id) <= VersionBound
  /\ \/ process[p] = Idle /\ c.op \notin {"add", "delete"}
     \/ process[p] = Checked(c) /\ c.op = "add"
  /\ \/ /\ Verdict(c) = "ok"
        /\ Set(p, InTransaction("read", c, Live(c.id), BodyRead(c)))
        /\ UNCHANGED <<store, outcome>>
     \/ Verdict(c) # "ok" /\ Answer(Verdict(c)) /\ Set(p, Idle)
  /\ stale' = stale \ {p}
  /\ UNCHANGED <<writer, overtaken>>

----------------------------------------------------------------------------
(* Writes.                                                                 *)

UpgradeOutsideTransaction(p) ==
  /\ process[p].pc = "read"
  /\ writer = NoProcess
  /\ writer' = p
  /\ Set(p, [process[p] EXCEPT !.pc = "writing"])
  /\ UNCHANGED <<store, outcome, stale, overtaken>>

\* The first INSERT, UPDATE or DELETE of the transaction.
Upgrade(p) ==
  /\ process[p].pc = "read"
  /\ p \notin stale
  /\ writer = NoProcess
  /\ writer' = p
  /\ Set(p, [process[p] EXCEPT !.pc = "writing"])
  /\ UNCHANGED <<store, outcome, stale, overtaken>>

\* What Upgrade let through is written to the tables that were read, so the
\* row RenameGadget snapshots is the one the call has read.
WriteTables(c, existing, body) ==
  CASE c.op = "rename"                   -> RenameGadget(c.id, c.newId)
    [] c.op # "rename" /\ existing       -> UpdateGadget(c.id, body)
    [] c.op # "rename" /\ ~existing      -> InsertGadget(c.id, body)

\* The snapshots that other processes read from are now stale.
Outdated(p) == stale \cup {q \in Processes \ {p} : process[q].pc = "read"}

\* The processes that have checked, but hold no snapshot yet.
Unprotected(p) == {q \in Processes \ {p} : process[q].pc = "checked"}

Commit(p) ==
  /\ process[p].pc = "writing"
  /\ WriteTables(process[p].call, process[p].existing, process[p].body)
  /\ writer' = NoProcess
  /\ stale' = Outdated(p)
  /\ overtaken' = overtaken \cup Unprotected(p)
  /\ Set(p, Idle)

\* delete's statement is a transaction of its own.  It finds the row or not,
\* and the call does not look which.
DeleteRow(p) ==
  /\ process[p].pc = "checked"
  /\ writer = NoProcess
  /\ LET id == process[p].call.id
     IN  /\ process[p].call.op = "delete"
         /\ \/ /\ Live(id) /\ DeleteGadget(id)
               /\ stale' = Outdated(p)
               /\ overtaken' = overtaken \cup Unprotected(p)
            \/ ~Live(id) /\ Answer("ok") /\ UNCHANGED <<stale, overtaken>>
  /\ Set(p, Idle)
  /\ UNCHANGED writer

WantsToWrite(p) ==
  process[p].pc = "read" \/ (process[p].pc = "checked" /\ process[p].call.op = "delete")

BusyWhileLocked(p) ==
  /\ WantsToWrite(p)
  /\ writer # NoProcess
  /\ Answer("storageError")
  /\ Set(p, Idle)
  /\ stale' = stale \ {p}
  /\ UNCHANGED <<writer, overtaken>>

\* SQLITE_BUSY: the write is refused, the call throws and its transaction
\* rolls back.
Busy(p) ==
  /\ WantsToWrite(p)
  /\ writer # NoProcess \/ p \in stale
  /\ Answer("storageError")
  /\ Set(p, Idle)
  /\ stale' = stale \ {p}
  /\ UNCHANGED <<writer, overtaken>>

AbortKeepingLock(p) ==
  /\ process[p] # Idle
  /\ Answer("storageError")
  /\ Set(p, Idle)
  /\ stale' = stale \ {p}
  /\ UNCHANGED <<writer, overtaken>>

\* The process dies, or a write fails below the checks: nothing of the
\* transaction stays, and the lock is free.
Abort(p) ==
  /\ process[p] # Idle
  /\ Answer("storageError")
  /\ Set(p, Idle)
  /\ stale' = stale \ {p}
  /\ writer' = IF writer = p THEN NoProcess ELSE writer
  /\ UNCHANGED overtaken

----------------------------------------------------------------------------
(* The specification.                                                      *)

SharedInit ==
  /\ Init
  /\ process = [p \in Processes |-> Idle]
  /\ stale = {}
  /\ writer = NoProcess
  /\ overtaken = {}

Proceed(p) == Upgrade(p) \/ Commit(p) \/ DeleteRow(p) \/ Busy(p)

SharedNext ==
  \E p \in Processes :
    \/ \E c \in Calls : Check(p, c) \/ Begin(p, c)
    \/ Proceed(p)
    \/ Abort(p)

\* A transaction runs on: it is synchronous code.
SharedSpec ==
  SharedInit /\ [][SharedNext]_allVars /\ \A p \in Processes : WF_allVars(Proceed(p))

----------------------------------------------------------------------------
(* Properties.                                                             *)

ProcessState ==
  {Idle} \cup [pc : {"checked"}, call : Calls]
    \cup [pc : {"read", "writing"}, call : Calls, existing : BOOLEAN, body : Bodies]

\* At most one process writes, from a snapshot that is the committed state,
\* and only readers have stale snapshots.
SharedTypeOK ==
  /\ TypeOK
  /\ process \in [Processes -> ProcessState]
  /\ writer \in Processes \cup {NoProcess}
  /\ \A p \in Processes : process[p].pc = "writing" <=> writer = p
  /\ stale \subseteq {p \in Processes : process[p].pc = "read"}
  /\ overtaken \subseteq Processes

\* The call as the one step it is in GadgetStore.
AsIfAlone(c) ==
  CASE c.op = "put"      -> Put(c.id, c.body)
    [] c.op = "add"      -> Add(c.id, c.body)
    [] c.op = "rename"   -> Rename(c.id, c.newId)
    [] c.op = "rollback" -> Rollback(c.id, c.version)
    [] c.op = "delete"   -> Delete(c.id)

\* What a check that is no longer true leads to: an add updates the gadget that
\* another process has created since, a delete answers ok and deletes nothing.
AsIfUnchecked(c) ==
  \/ c.op = "add" /\ Live(c.id) /\ Put(c.id, c.body)
  \/ c.op = "delete" /\ ~Live(c.id) /\ Answer("ok")

\* The process's call ends in this step, and not by a storage error or a kill.
Completes(p) ==
  process[p] # Idle /\ process'[p] = Idle /\ outcome' # "storageError"

\* However the transactions of several processes overlap, fail and die, only a
\* call that completes changes the committed tables, and it changes them and
\* answers as if it had run alone in that one step: no update is lost, no
\* verdict is out of date when the write lands.  The exceptions are add and
\* delete, whose checks are outside the transaction (GadgetRepo), and only when
\* another process has committed after the check: then an add may overwrite,
\* although it "Fails if id already exists", and a delete may do nothing.
AtomicCalls ==
  /\ Init
  /\ [][/\ UNCHANGED store \/ \E p \in Processes : Completes(p)
        /\ \A p \in Processes : Completes(p) =>
             \/ AsIfAlone(process[p].call)
             \/ p \in overtaken /\ AsIfUnchecked(process[p].call)]_allVars

\* No transaction waits for ever: two of them that both want to go from
\* reading to writing do not block each other, one of them fails.
TransactionsEnd ==
  \A p \in Processes : process[p].pc \in {"read", "writing"} ~> process[p] = Idle

=============================================================================
