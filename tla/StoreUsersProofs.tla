-------------------------- MODULE StoreUsersProofs --------------------------
(***************************************************************************)
(* Theorems about the three users of GadgetStore, for every value of their *)
(* constants: several processes on one database (SharedStore), an import   *)
(* (Import), and the tool calls of a process (ToolCalls).  Each of them    *)
(* rests on the invariant that GadgetStoreProofs proves of the tables.     *)
(*                                                                         *)
(* SharedStore.  A transaction reads, and writes later on the strength of  *)
(* what it read.  The invariant says that what it read is still true as    *)
(* long as its snapshot is not stale: a commit makes every other reader    *)
(* stale, and while a transaction writes no other can commit.  So each     *)
(* commit is a step of GadgetStore.                                        *)
(*                                                                         *)
(* Import.  The counts are what the tables gained since the import began,  *)
(* line by line; as long as no line was counted as an error, each line     *)
(* looked at has its gadget, and the body that the policy gives it.        *)
(*                                                                         *)
(* ToolCalls.  A handler's change is owed to the log from its commit on,   *)
(* and the finally block of the same call pays for it; a call may change   *)
(* only what its tool may, and such a tool is registered only for the      *)
(* roles that allow it.                                                    *)
(***************************************************************************)
EXTENDS SharedStore, Import, ToolCalls, GadgetStoreProofs, WellFoundedInduction

----------------------------------------------------------------------------
(* All users: what a call of the store leaves to those who know its names. *)

\* The actions of NamesKeepTheirGadget and of HistoryGrows.
NamesKept ==
  \A n \in Names :
    Resolve(n) # NoRow /\ Resolve(n).rowid \in LiveRowIds'
      => Resolve(n)' # NoRow /\ Resolve(n)'.rowid = Resolve(n).rowid

HistoriesKept ==
  \A m, n \in Names :
    Live(m) /\ Live(n)' /\ gadgets[m].rowid = gadgets'[n].rowid
      => Snapshots(m) \subseteq Snapshots(n)'

\* A step that changes the tables by a call, if at all, does as calls do.
LEMMA CallsKeepGadgets ==
  ASSUME IInv, UNCHANGED store \/ Next
  PROVE  NamesKept /\ HistoriesKept
<1>1. NamesKept
  BY StepKeepsName DEF NamesKept
<1>2. HistoriesKept
  BY StepKeepsHistory DEF HistoriesKept
<1> QED
  BY <1>1, <1>2

----------------------------------------------------------------------------
(* Shared store: the invariant.                                            *)

InTransactionNow(p) == process[p].pc \in {"read", "writing"}

\* What a transaction's reads told it.
ReadsHold(c, existing, body) ==
  /\ c.op # "delete"
  /\ Verdict(c) = "ok"
  /\ existing = Live(c.id)
  /\ body = BodyRead(c)

\* ... is true of the committed tables until its snapshot is stale.
SnapshotsHold ==
  \A p \in Processes : InTransactionNow(p) /\ p \notin stale =>
    ReadsHold(process[p].call, process[p].existing, process[p].body)

OneWriter ==
  /\ process \in [Processes -> ProcessState]
  /\ writer \in Processes \cup {NoProcess}
  /\ \A p \in Processes : process[p].pc = "writing" <=> writer = p
  /\ stale \subseteq {p \in Processes : process[p].pc = "read"}

SInv == IInv /\ OneWriter /\ SnapshotsHold

----------------------------------------------------------------------------
(* Shared store: calls and what they read.                                 *)

\* The columns of each kind of call.
LEMMA CallFields ==
  ASSUME NEW c \in Calls
  PROVE  /\ c.op \in {"put", "add", "delete", "rename", "rollback"}
         /\ c.id \in Names
         /\ c.op \in {"put", "add"} => c.body \in Bodies
         /\ c.op = "rename" => c.newId \in Names
         /\ c.op = "rollback" => c.version \in 1..VersionBound
  BY DEF Calls

\* The checks of a transaction, by the kind of its call.
LEMMA VerdictIs ==
  ASSUME NEW c
  PROVE  /\ c.op \in {"put", "add"} => Verdict(c) = PutVerdict(c.id) /\ BodyRead(c) = c.body
         /\ c.op = "rename" => /\ Verdict(c) = RenameVerdict(c.id, c.newId)
                               /\ BodyRead(c) = gadgets[c.id].body
         /\ c.op = "rollback" =>
              /\ Verdict(c) = RollbackVerdict(c.id, c.version)
              /\ BodyRead(c) = (CHOOSE r \in RevisionsIn(revisions, c.id) :
                                  r.version = c.version).body
  BY DEF Verdict, BodyRead

\* The body a transaction read is one, if its checks let it through.
LEMMA BodyIsRead ==
  ASSUME TypeOK, NEW c \in Calls, c.op # "delete", Verdict(c) = "ok"
  PROVE  BodyRead(c) \in Bodies
<1>1. CASE c.op \in {"put", "add"}
  BY <1>1, CallFields, VerdictIs
<1>2. CASE c.op = "rename"
  <2>1. Live(c.id) /\ c.id \in Names
    BY <1>2, CallFields, VerdictIs DEF RenameVerdict
  <2> QED
    BY <1>2, <2>1, VerdictIs DEF TypeOK, Live, Row
<1>3. CASE c.op = "rollback"
  <2>1. c.version \in VersionsIn(revisions, c.id)
    BY <1>3, VerdictIs DEF RollbackVerdict
  <2>2. \E r \in RevisionsIn(revisions, c.id) : r.version = c.version
    BY <2>1 DEF VersionsIn
  <2>3. (CHOOSE r \in RevisionsIn(revisions, c.id) : r.version = c.version) \in revisions
    BY <2>2 DEF RevisionsIn
  <2> QED
    BY <1>3, <2>3, VerdictIs DEF TypeOK, RevisionRow
<1> QED
  BY <1>1, <1>2, <1>3, CallFields

\* The answers of the checks are outcomes.
LEMMA SharedVerdicts ==
  ASSUME NEW c \in Calls
  PROVE  /\ c.op # "delete" => Verdict(c) \in Outcomes
         /\ CheckVerdict(c) \in Outcomes
<1>1. CheckVerdict(c) \in Outcomes
  BY DEF CheckVerdict, Outcomes
<1>2. ASSUME c.op # "delete" PROVE Verdict(c) \in Outcomes
  BY <1>2, CallFields, VerdictIs, VerdictsAreOutcomes
<1> QED
  BY <1>1, <1>2

\* A write on reads that still hold is the call in one step, but for an add
\* that finds its gadget there.
LEMMA WriteIsAlone ==
  ASSUME IInv, NEW c \in Calls, NEW existing, NEW body,
         ReadsHold(c, existing, body), WriteTables(c, existing, body)
  PROVE  AsIfAlone(c) \/ (c.op = "add" /\ existing /\ AsIfUnchecked(c))
<1>1. CASE c.op = "rename"
  <2>1. RenameGadget(c.id, c.newId) /\ RenameVerdict(c.id, c.newId) = "ok"
    BY <1>1, VerdictIs DEF WriteTables, ReadsHold
  <2> QED
    BY <1>1, <2>1 DEF Rename, AsIfAlone
<1>2. CASE c.op \in {"put", "add"}
  <2>1. /\ existing => UpdateGadget(c.id, body)
        /\ ~existing => InsertGadget(c.id, body)
    BY <1>2 DEF WriteTables
  <2>2. PutVerdict(c.id) = "ok" /\ (existing <=> Live(c.id)) /\ body = c.body
    BY <1>2, VerdictIs DEF ReadsHold
  <2>3. Put(c.id, c.body)
    BY <2>1, <2>2 DEF Put
  <2>4. CASE c.op = "put"
    BY <2>3, <2>4 DEF AsIfAlone
  <2>5. CASE c.op = "add" /\ existing
    BY <2>2, <2>3, <2>5 DEF AsIfUnchecked
  <2>6. CASE c.op = "add" /\ ~existing
    <3>1. AddVerdict(c.id) = "ok"
      BY <2>2, <2>6 DEF AddVerdict
    <3>2. Add(c.id, c.body)
      BY <2>1, <2>2, <2>6, <3>1 DEF Add
    <3> QED
      BY <2>6, <3>2 DEF AsIfAlone
  <2> QED
    BY <1>2, <2>4, <2>5, <2>6
<1>3. CASE c.op = "rollback"
  <2>1. RollbackVerdict(c.id, c.version) = "ok" /\ existing = Live(c.id)
    BY <1>3, VerdictIs DEF ReadsHold
  <2>2. Live(c.id) /\ c.version \in VersionsIn(revisions, c.id)
    BY <2>1 DEF RollbackVerdict
  <2>3. UpdateGadget(c.id, body)
    BY <1>3, <2>1, <2>2 DEF WriteTables
  <2>4. PICK r \in RevisionsIn(revisions, c.id) : r.version = c.version /\ r.body = body
    <3>1. \E r \in RevisionsIn(revisions, c.id) : r.version = c.version
      BY <2>2 DEF VersionsIn
    <3> QED
      BY <1>3, <3>1, VerdictIs DEF ReadsHold
  <2>5. Rollback(c.id, c.version)
    BY <2>1, <2>3, <2>4 DEF Rollback
  <2> QED
    BY <1>3, <2>5 DEF AsIfAlone
<1> QED
  BY <1>1, <1>2, <1>3, CallFields DEF ReadsHold

\* Either way it is a call of GadgetStore.
LEMMA WriteIsCall ==
  ASSUME NEW c \in Calls, AsIfAlone(c) \/ (c.op = "add" /\ AsIfUnchecked(c))
  PROVE  Next
<1>1. CASE c.op = "put" \/ (c.op = "add" /\ AsIfUnchecked(c))
  <2>1. Put(c.id, c.body) /\ c.id \in Names /\ c.body \in Bodies
    BY <1>1, CallFields DEF AsIfAlone, AsIfUnchecked
  <2> QED
    BY <2>1 DEF Next
<1>2. CASE c.op = "add" /\ AsIfAlone(c)
  <2>1. Add(c.id, c.body) /\ c.id \in Names /\ c.body \in Bodies
    BY <1>2, CallFields DEF AsIfAlone
  <2> QED
    BY <2>1 DEF Next
<1>3. CASE c.op = "rename"
  <2>1. Rename(c.id, c.newId) /\ c.id \in Names /\ c.newId \in Names
    BY <1>3, CallFields DEF AsIfAlone
  <2> QED
    BY <2>1 DEF Next
<1>4. CASE c.op = "rollback"
  <2>1. Rollback(c.id, c.version) /\ c.id \in Names /\ c.version \in 1..VersionBound
    BY <1>4, CallFields DEF AsIfAlone
  <2> QED
    BY <2>1 DEF Next
<1>5. CASE c.op = "delete"
  <2>1. Delete(c.id) /\ c.id \in Names
    BY <1>5, CallFields DEF AsIfAlone
  <2> QED
    BY <2>1 DEF Next
<1> QED
  BY <1>1, <1>2, <1>3, <1>4, <1>5, CallFields

----------------------------------------------------------------------------
(* Shared store: the steps.  Each keeps the invariant and is a call or     *)
(* leaves the tables alone.                                                *)

\* What a process may be doing, read off.
LEMMA StateFields ==
  ASSUME OneWriter, NEW p \in Processes
  PROVE  /\ process[p].pc \in {"idle", "checked", "read", "writing"}
         /\ process[p].pc # "idle" => process[p].call \in Calls
         /\ InTransactionNow(p) => process[p].existing \in BOOLEAN /\ process[p].body \in Bodies
         /\ process[p].pc # "idle" <=> process[p] # Idle
<1>1. process[p] \in ProcessState
  BY DEF OneWriter
<1>2. CASE process[p] = Idle
  BY <1>2 DEF Idle, InTransactionNow
<1>3. CASE process[p] \in [pc : {"checked"}, call : Calls]
  BY <1>3 DEF Idle, InTransactionNow
<1>4. CASE process[p] \in [pc : {"read", "writing"}, call : Calls, existing : BOOLEAN, body : Bodies]
  BY <1>4 DEF Idle, InTransactionNow
<1> QED
  BY <1>1, <1>2, <1>3, <1>4 DEF ProcessState

\* The kind of step that does no more than answer, or take notes.
LEMMA QuietStep ==
  ASSUME SInv, UNCHANGED store, outcome' \in Outcomes, OneWriter',
         \A p \in Processes : InTransactionNow(p)' /\ p \notin stale' =>
           \/ /\ InTransactionNow(p) /\ p \notin stale
              /\ process'[p].call = process[p].call
              /\ process'[p].existing = process[p].existing
              /\ process'[p].body = process[p].body
           \/ ReadsHold(process'[p].call, process'[p].existing, process'[p].body)
  PROVE  SInv'
<1>1. IInv'
  BY UnwrittenIInv DEF SInv
<1>2. SnapshotsHold'
  <2> SUFFICES ASSUME NEW p \in Processes, InTransactionNow(p)', p \notin stale'
               PROVE  ReadsHold(process[p].call, process[p].existing, process[p].body)'
    BY DEF SnapshotsHold
  <2> DEFINE c == process'[p].call
             existing == process'[p].existing
             body == process'[p].body
  <2>1. ReadsHold(c, existing, body)
    BY DEF SInv, SnapshotsHold
  <2>2. gadgets' = gadgets /\ aliases' = aliases /\ revisions' = revisions
    BY DEF store
  <2> QED
    BY <2>1, <2>2 DEF ReadsHold, Verdict, BodyRead, PutVerdict, RenameVerdict, RollbackVerdict, Live,
                      AliasesOf, VersionsIn, RevisionsIn
<1> QED
  BY <1>1, <1>2 DEF SInv

\* A process that moves leaves the states of the others alone.
LEMMA Moved ==
  ASSUME OneWriter, NEW p \in Processes, NEW state \in ProcessState, Set(p, state)
  PROVE  /\ process' \in [Processes -> ProcessState]
         /\ process'[p] = state
         /\ \A q \in Processes : q # p => process'[q] = process[q]
  BY DEF OneWriter, Set

\* The states a process moves to.
LEMMA States ==
  /\ Idle \in ProcessState /\ Idle.pc = "idle"
  /\ \A c \in Calls : Checked(c) \in ProcessState /\ Checked(c).pc = "checked"
  /\ \A at \in {"read", "writing"}, c \in Calls, existing \in BOOLEAN, body \in Bodies :
       LET state == InTransaction(at, c, existing, body)
       IN  /\ state \in ProcessState
           /\ state.pc = at /\ state.call = c /\ state.existing = existing /\ state.body = body
  BY DEF ProcessState, Idle, Checked, InTransaction

\* The checks before a transaction.
LEMMA CheckStep ==
  ASSUME SInv, NEW p \in Processes, NEW c \in Calls, Check(p, c)
  PROVE  SInv' /\ UNCHANGED store
<1>1. /\ OneWriter /\ UNCHANGED store /\ outcome' \in Outcomes
      /\ stale' = stale /\ writer' = writer /\ process[p] = Idle
  BY SharedVerdicts DEF Check, Answer, SInv, IInv, TypeOK
<1>2. process' = process \/ Set(p, Checked(c))
  BY DEF Check
<1>3. process' \in [Processes -> ProcessState] /\ process'[p].pc \in {"idle", "checked"}
  BY <1>1, <1>2, Moved, States DEF OneWriter
<1>4. \A q \in Processes : q # p => process'[q] = process[q]
  BY <1>1, <1>2, Moved, States
<1>5. process[p].pc = "idle"
  BY <1>1, States
<1>6. OneWriter'
  BY <1>1, <1>3, <1>4, <1>5 DEF OneWriter
<1> QED
  BY <1>1, <1>3, <1>4, <1>6, QuietStep DEF InTransactionNow

\* The start of a transaction: what it reads is true.
LEMMA BeginStep ==
  ASSUME SInv, NEW p \in Processes, NEW c \in Calls, Begin(p, c)
  PROVE  SInv' /\ UNCHANGED store
<1>1. /\ OneWriter /\ TypeOK /\ c.op # "delete"
      /\ stale' = stale \ {p} /\ writer' = writer
      /\ process[p] = Idle \/ process[p] = Checked(c)
  BY CallFields DEF Begin, SInv, IInv
<1>2. process[p].pc \in {"idle", "checked"}
  BY <1>1, States
<1>3. CASE Verdict(c) # "ok" /\ Answer(Verdict(c)) /\ Set(p, Idle)
  <2>1. UNCHANGED store /\ outcome' \in Outcomes
    BY <1>1, <1>3, SharedVerdicts DEF Answer
  <2>2. /\ process' \in [Processes -> ProcessState] /\ process'[p].pc = "idle"
        /\ \A q \in Processes : q # p => process'[q] = process[q]
    BY <1>1, <1>3, Moved, States
  <2>3. OneWriter'
    BY <1>1, <1>2, <2>2 DEF OneWriter
  <2> QED
    BY <1>1, <2>1, <2>2, <2>3, QuietStep DEF InTransactionNow
<1>4. CASE /\ Verdict(c) = "ok"
           /\ Set(p, InTransaction("read", c, Live(c.id), BodyRead(c)))
           /\ UNCHANGED <<store, outcome>>
  <2>1. UNCHANGED store /\ outcome' \in Outcomes
    BY <1>1, <1>4 DEF TypeOK
  <2> DEFINE state == InTransaction("read", c, Live(c.id), BodyRead(c))
  <2>2. Live(c.id) \in BOOLEAN /\ BodyRead(c) \in Bodies
    BY <1>1, <1>4, BodyIsRead DEF Live
  <2>3. /\ state \in ProcessState /\ state.pc = "read" /\ state.call = c
        /\ state.existing = Live(c.id) /\ state.body = BodyRead(c)
    BY <2>2, States
  <2> HIDE DEF state
  <2>4. /\ process' \in [Processes -> ProcessState] /\ process'[p] = state
        /\ \A q \in Processes : q # p => process'[q] = process[q]
    BY <1>1, <1>4, <2>3, Moved DEF state
  <2>5. OneWriter'
    BY <1>1, <1>2, <2>3, <2>4 DEF OneWriter
  <2>6. ReadsHold(process'[p].call, process'[p].existing, process'[p].body)
    BY <1>1, <1>4, <2>3, <2>4 DEF ReadsHold
  <2> QED
    BY <1>1, <2>1, <2>4, <2>5, <2>6, QuietStep DEF InTransactionNow
<1> QED
  BY <1>3, <1>4 DEF Begin

\* Taking the write lock.
LEMMA UpgradeStep ==
  ASSUME SInv, NEW p \in Processes, Upgrade(p)
  PROVE  SInv' /\ UNCHANGED store
<1>1. /\ OneWriter /\ UNCHANGED store /\ outcome' \in Outcomes
      /\ process[p].pc = "read" /\ p \notin stale /\ writer = NoProcess
      /\ writer' = p /\ stale' = stale
      /\ Set(p, [process[p] EXCEPT !.pc = "writing"])
  BY DEF Upgrade, SInv, IInv, TypeOK
<1> DEFINE state == [process[p] EXCEPT !.pc = "writing"]
<1>2. process[p] \in [pc : {"read", "writing"}, call : Calls, existing : BOOLEAN, body : Bodies]
  BY <1>1 DEF OneWriter, ProcessState, Idle
<1>3. /\ state \in ProcessState /\ state.pc = "writing" /\ state.call = process[p].call
      /\ state.existing = process[p].existing /\ state.body = process[p].body
  BY <1>2 DEF ProcessState
<1> HIDE DEF state
<1>4. /\ process' \in [Processes -> ProcessState] /\ process'[p] = state
      /\ \A q \in Processes : q # p => process'[q] = process[q]
  BY <1>1, <1>3, Moved DEF state
<1>5. OneWriter'
  BY <1>1, <1>3, <1>4, ProcessesAssumption DEF OneWriter
<1> QED
  BY <1>1, <1>3, <1>4, <1>5, QuietStep DEF InTransactionNow

\* A call that ends without having written: refused, failed or killed.
LEMMA QuitStep ==
  ASSUME SInv, NEW p \in Processes, Set(p, Idle), UNCHANGED store, outcome' \in Outcomes,
         stale' = stale \ {p} \/ (p \notin stale /\ stale' = stale),
         writer' = IF writer = p THEN NoProcess ELSE writer
  PROVE  SInv'
<1>1. OneWriter
  BY DEF SInv
<1>2. /\ process' \in [Processes -> ProcessState] /\ process'[p].pc = "idle"
      /\ \A q \in Processes : q # p => process'[q] = process[q]
  BY <1>1, Moved, States
<1>3. OneWriter'
  BY <1>1, <1>2, ProcessesAssumption DEF OneWriter
<1> QED
  BY <1>1, <1>2, <1>3, QuietStep DEF InTransactionNow

\* A write makes the snapshots of all that still read stale, and no one else
\* is writing.
LEMMA WriteStep ==
  ASSUME SInv, IInv', NEW p \in Processes, Set(p, Idle), writer \in {p, NoProcess},
         writer' = NoProcess, stale' = Outdated(p), p \notin stale
  PROVE  SInv'
<1>1. OneWriter
  BY DEF SInv
<1>2. /\ process' \in [Processes -> ProcessState] /\ process'[p].pc = "idle"
      /\ \A q \in Processes : q # p => process'[q] = process[q]
  BY <1>1, Moved, States
<1>3. \A q \in Processes : process'[q].pc # "writing"
  BY <1>1, <1>2, ProcessesAssumption DEF OneWriter
<1>4. OneWriter'
  BY <1>1, <1>2, <1>3, ProcessesAssumption DEF OneWriter, Outdated
<1>5. ASSUME NEW q \in Processes, process'[q].pc \in {"read", "writing"}
      PROVE  q \in stale'
  BY <1>2, <1>3, <1>5 DEF Outdated
<1>6. SnapshotsHold'
  BY <1>5 DEF SnapshotsHold, InTransactionNow
<1> QED
  BY <1>4, <1>6 DEF SInv

\* A commit is a call of GadgetStore on the committed tables.
LEMMA CommitStep ==
  ASSUME SInv, NEW p \in Processes, Commit(p)
  PROVE  SInv' /\ Next
<1>1. /\ OneWriter /\ IInv /\ process[p].pc = "writing" /\ Set(p, Idle)
      /\ writer' = NoProcess /\ stale' = Outdated(p)
      /\ WriteTables(process[p].call, process[p].existing, process[p].body)
  BY DEF Commit, SInv
<1>2. writer = p /\ p \notin stale /\ process[p].call \in Calls
  BY <1>1, StateFields DEF OneWriter
<1>3. ReadsHold(process[p].call, process[p].existing, process[p].body)
  BY <1>1, <1>2 DEF SInv, SnapshotsHold, InTransactionNow
<1>4. Next
  BY <1>1, <1>2, <1>3, WriteIsAlone, WriteIsCall
<1>5. IInv'
  BY <1>1, <1>4, NextIInv
<1> QED
  BY <1>1, <1>2, <1>4, <1>5, WriteStep

\* delete's statement deletes, or finds nothing to delete.
LEMMA DeleteRowStep ==
  ASSUME SInv, NEW p \in Processes, DeleteRow(p)
  PROVE  SInv' /\ (UNCHANGED store \/ Next)
<1> DEFINE id == process[p].call.id
<1>1. /\ OneWriter /\ IInv /\ process[p].pc = "checked" /\ Set(p, Idle)
      /\ writer = NoProcess /\ writer' = writer
      /\ \/ Live(id) /\ DeleteGadget(id) /\ stale' = Outdated(p)
         \/ ~Live(id) /\ Answer("ok") /\ stale' = stale
  BY DEF DeleteRow, SInv
<1>2. p \notin stale /\ id \in Names
  BY <1>1, StateFields, CallFields DEF OneWriter
<1> HIDE DEF id
<1>3. CASE Live(id) /\ DeleteGadget(id) /\ stale' = Outdated(p)
  <2>1. Next
    BY <1>2, <1>3 DEF Next, Delete
  <2>2. IInv'
    BY <1>1, <2>1, NextIInv
  <2> QED
    BY <1>1, <1>2, <1>3, <2>1, <2>2, WriteStep
<1>4. CASE ~Live(id) /\ Answer("ok") /\ stale' = stale
  <2>1. UNCHANGED store /\ outcome' \in Outcomes
    BY <1>4 DEF Answer, Outcomes
  <2>2. writer' = IF writer = p THEN NoProcess ELSE writer
    BY <1>1
  <2> QED
    BY <1>1, <1>2, <1>4, <2>1, <2>2, QuitStep
<1> QED
  BY <1>1, <1>3, <1>4

\* A refused write ends the call; a call that is not writing holds no lock.
LEMMA BusyStep ==
  ASSUME SInv, NEW p \in Processes, Busy(p)
  PROVE  SInv' /\ UNCHANGED store
<1>1. /\ OneWriter /\ process[p].pc \in {"read", "checked"} /\ Set(p, Idle)
      /\ UNCHANGED store /\ outcome' \in Outcomes
      /\ stale' = stale \ {p} /\ writer' = writer
  BY DEF Busy, WantsToWrite, Answer, Outcomes, SInv
<1>2. writer # p
  BY <1>1 DEF OneWriter
<1> QED
  BY <1>1, <1>2, QuitStep

\* A process that dies, or whose write fails, leaves the tables alone.
LEMMA AbortStep ==
  ASSUME SInv, NEW p \in Processes, Abort(p)
  PROVE  SInv' /\ UNCHANGED store
<1>1. /\ Set(p, Idle) /\ UNCHANGED store /\ outcome' \in Outcomes
      /\ stale' = stale \ {p} /\ writer' = IF writer = p THEN NoProcess ELSE writer
  BY DEF Abort, Answer, Outcomes
<1> QED
  BY <1>1, QuitStep

----------------------------------------------------------------------------
(* Shared store: what add and delete check outside their transaction, and  *)
(* what it is worth once another process has committed.                    *)

ChecksHold ==
  /\ overtaken \subseteq Processes
  /\ \A p \in Processes \ overtaken :
       /\ process[p].pc = "checked" => CheckVerdict(process[p].call) = "ok"
       /\ InTransactionNow(p) /\ process[p].call.op = "add" => ~process[p].existing

\* What AtomicCalls says of a step.
Atomic ==
  /\ UNCHANGED store \/ \E p \in Processes : Completes(p)
  /\ \A p \in Processes : Completes(p) =>
       \/ AsIfAlone(process[p].call)
       \/ p \in overtaken /\ AsIfUnchecked(process[p].call)

\* The checks of the processes that do not move: a commit overtakes them.
LEMMA OthersChecks ==
  ASSUME OneWriter, ChecksHold, NEW p \in Processes, NEW state \in ProcessState, Set(p, state),
         \/ gadgets' = gadgets /\ overtaken' \in {overtaken, overtaken \ {p}}
         \/ overtaken' = overtaken \cup Unprotected(p),
         p \notin overtaken' =>
           /\ state.pc = "checked" => CheckVerdict(state.call) = "ok" /\ gadgets' = gadgets
           /\ state.pc \in {"read", "writing"} /\ state.call.op = "add" => ~state.existing
  PROVE  ChecksHold'
<1>1. /\ process' \in [Processes -> ProcessState] /\ process'[p] = state
      /\ \A q \in Processes : q # p => process'[q] = process[q]
  BY Moved
<1>2. overtaken' \subseteq Processes
  BY DEF ChecksHold, Unprotected
<1>3. ASSUME gadgets' = gadgets, NEW c PROVE CheckVerdict(c)' = CheckVerdict(c)
  BY <1>3 DEF CheckVerdict, Live
<1>4. ASSUME NEW q \in Processes, q \notin overtaken'
      PROVE  /\ process'[q].pc = "checked" => CheckVerdict(process[q].call)' = "ok"
             /\ process'[q].pc \in {"read", "writing"} /\ process'[q].call.op = "add"
                  => ~process'[q].existing
  <2>1. CASE q = p
    <3>1. CheckVerdict(process[q].call)' = CheckVerdict(state.call)'
      BY <1>1, <2>1
    <3> QED
      BY <1>1, <1>4, <2>1, <3>1 DEF CheckVerdict, Live
  <2>2. CASE q # p
    <3>1. q \notin overtaken /\ process'[q] = process[q]
      BY <1>1, <1>4, <2>2
    <3>2. process[q].pc = "checked" => gadgets' = gadgets
      BY <1>4, <2>2 DEF Unprotected
    <3> QED
      BY <3>1, <3>2 DEF ChecksHold, InTransactionNow, CheckVerdict, Live
  <2> QED
    BY <2>1, <2>2
<1> QED
  BY <1>2, <1>4 DEF ChecksHold, InTransactionNow

\* A process that moves is the only one whose call can end.
LEMMA OnlyMoverCompletes ==
  ASSUME OneWriter, NEW p \in Processes, NEW state \in ProcessState, Set(p, state)
  PROVE  \A q \in Processes : Completes(q) => q = p /\ state = Idle
  BY Moved DEF Completes

\* A process that checks.
LEMMA CheckAtomic ==
  ASSUME SInv, ChecksHold, NEW p \in Processes, NEW c \in Calls, Check(p, c)
  PROVE  ChecksHold' /\ Atomic
<1>1. /\ OneWriter /\ UNCHANGED store /\ process[p] = Idle /\ overtaken' = overtaken \ {p}
  BY DEF Check, Answer, SInv
<1>2. gadgets' = gadgets
  BY <1>1 DEF store
<1>3. CASE CheckVerdict(c) = "ok" /\ Set(p, Checked(c))
  <2>1. Checked(c) \in ProcessState /\ Checked(c).pc = "checked" /\ Checked(c).call = c
    BY States DEF Checked
  <2>2. Checked(c) # Idle
    BY <2>1, States
  <2>3. ChecksHold'
    BY <1>1, <1>2, <1>3, <2>1, OthersChecks
  <2> QED
    BY <1>1, <1>3, <2>1, <2>2, <2>3, OnlyMoverCompletes DEF Atomic
<1>4. CASE process' = process
  <2>1. Set(p, Idle)
    BY <1>1, <1>4 DEF Set, OneWriter
  <2>2. ChecksHold'
    BY <1>1, <1>2, <2>1, States, OthersChecks
  <2>3. \A q \in Processes : ~Completes(q)
    BY <1>4 DEF Completes
  <2> QED
    BY <1>1, <2>2, <2>3 DEF Atomic
<1> QED
  BY <1>3, <1>4 DEF Check

\* A transaction that begins, or whose checks refuse the call.
LEMMA BeginAtomic ==
  ASSUME SInv, ChecksHold, NEW p \in Processes, NEW c \in Calls, Begin(p, c)
  PROVE  ChecksHold' /\ Atomic
<1>1. /\ OneWriter /\ TypeOK /\ overtaken' = overtaken
      /\ \/ process[p] = Idle /\ c.op \notin {"add", "delete"}
         \/ process[p] = Checked(c) /\ c.op = "add"
  BY DEF Begin, SInv, IInv
<1>2. Checked(c).pc = "checked" /\ Checked(c).call = c
  BY DEF Checked
<1>3. CASE Verdict(c) # "ok" /\ Answer(Verdict(c)) /\ Set(p, Idle)
  <2>1. UNCHANGED store /\ gadgets' = gadgets
    BY <1>3 DEF Answer, store
  <2>2. ChecksHold'
    BY <1>1, <1>3, <2>1, States, OthersChecks
  <2>3. ASSUME NEW q \in Processes, Completes(q) PROVE AsIfAlone(process[q].call)
    <3>1. q = p /\ process[p] # Idle
      BY <1>1, <1>3, <2>3, States, OnlyMoverCompletes DEF Completes
    <3>2. process[p].call = c /\ c.op = "add"
      BY <1>1, <1>2, <3>1
    <3>3. PutVerdict(c.id) # "ok" /\ Answer(PutVerdict(c.id))
      BY <1>3, <3>2, VerdictIs
    <3>4. AddVerdict(c.id) = PutVerdict(c.id)
      BY <3>3 DEF AddVerdict, PutVerdict
    <3>5. Add(c.id, c.body)
      BY <3>3, <3>4 DEF Add
    <3> QED
      BY <3>1, <3>2, <3>5 DEF AsIfAlone
  <2> QED
    BY <2>1, <2>2, <2>3 DEF Atomic
<1>4. CASE /\ Verdict(c) = "ok"
           /\ Set(p, InTransaction("read", c, Live(c.id), BodyRead(c)))
           /\ UNCHANGED <<store, outcome>>
  <2> DEFINE state == InTransaction("read", c, Live(c.id), BodyRead(c))
  <2>1. Live(c.id) \in BOOLEAN /\ BodyRead(c) \in Bodies
    BY <1>1, <1>4, BodyIsRead DEF Live
  <2>2. /\ state \in ProcessState /\ state.pc = "read" /\ state.call = c
        /\ state.existing = Live(c.id)
    BY <2>1, States
  <2>3. Set(p, state) /\ UNCHANGED store /\ gadgets' = gadgets
    BY <1>4 DEF store
  <2> HIDE DEF state
  <2>4. state # Idle
    BY <2>2, States
  <2>5. p \notin overtaken' /\ c.op = "add" => ~Live(c.id)
    BY <1>1, <1>2 DEF ChecksHold, CheckVerdict
  <2>6. ChecksHold'
    BY <1>1, <2>2, <2>3, <2>5, OthersChecks
  <2> QED
    BY <1>1, <2>2, <2>3, <2>4, <2>6, OnlyMoverCompletes DEF Atomic
<1> QED
  BY <1>3, <1>4 DEF Begin

\* Taking the write lock.
LEMMA UpgradeAtomic ==
  ASSUME SInv, ChecksHold, NEW p \in Processes, Upgrade(p)
  PROVE  ChecksHold' /\ Atomic
<1>1. /\ OneWriter /\ process[p].pc = "read" /\ overtaken' = overtaken
      /\ UNCHANGED store /\ gadgets' = gadgets
      /\ Set(p, [process[p] EXCEPT !.pc = "writing"])
  BY DEF Upgrade, SInv, store
<1> DEFINE state == [process[p] EXCEPT !.pc = "writing"]
<1>2. process[p] \in [pc : {"read", "writing"}, call : Calls, existing : BOOLEAN, body : Bodies]
  BY <1>1 DEF OneWriter, ProcessState, Idle
<1>3. /\ state \in ProcessState /\ state.pc = "writing" /\ state.call = process[p].call
      /\ state.existing = process[p].existing
  BY <1>2 DEF ProcessState
<1> HIDE DEF state
<1>4. Set(p, state) /\ state # Idle
  BY <1>1, <1>3, States DEF state
<1>5. p \notin overtaken' /\ state.call.op = "add" => ~state.existing
  BY <1>1, <1>3 DEF ChecksHold, InTransactionNow
<1>6. ChecksHold'
  BY <1>1, <1>3, <1>4, <1>5, OthersChecks
<1> QED
  BY <1>1, <1>3, <1>4, <1>6, OnlyMoverCompletes DEF Atomic

\* Writing the tables answers ok.
LEMMA WritesAnswerOK ==
  ASSUME NEW c, NEW existing \in BOOLEAN, NEW body, WriteTables(c, existing, body)
  PROVE  outcome' = "ok"
  BY DEF WriteTables, RenameGadget, UpdateGadget, InsertGadget

\* A commit: an add that updates was overtaken.
LEMMA CommitAtomic ==
  ASSUME SInv, ChecksHold, NEW p \in Processes, Commit(p)
  PROVE  ChecksHold' /\ Atomic
<1> DEFINE c == process[p].call
           existing == process[p].existing
           body == process[p].body
<1>1. /\ OneWriter /\ IInv /\ process[p].pc = "writing" /\ Set(p, Idle)
      /\ overtaken' = overtaken \cup Unprotected(p)
      /\ WriteTables(c, existing, body)
  BY DEF Commit, SInv
<1>2. p \notin stale /\ c \in Calls /\ existing \in BOOLEAN
  BY <1>1, StateFields DEF OneWriter, InTransactionNow
<1>3. ReadsHold(c, existing, body)
  BY <1>1, <1>2 DEF SInv, SnapshotsHold, InTransactionNow
<1>4. c.op = "add" /\ existing => p \in overtaken
  BY <1>1 DEF ChecksHold, InTransactionNow
<1> HIDE DEF c, existing, body
<1>5. AsIfAlone(c) \/ (p \in overtaken /\ AsIfUnchecked(c))
  BY <1>1, <1>2, <1>3, <1>4, WriteIsAlone
<1>6. Completes(p)
  <2>1. process[p] # Idle /\ process'[p] = Idle
    BY <1>1, States, Moved
  <2> QED
    BY <1>1, <1>2, <2>1, WritesAnswerOK DEF Completes
<1>7. ChecksHold'
  BY <1>1, States, OthersChecks
<1>8. \A q \in Processes : Completes(q) => q = p
  BY <1>1, States, OnlyMoverCompletes
<1> QED
  BY <1>5, <1>6, <1>7, <1>8 DEF Atomic, c

\* delete's statement: it finds nothing only if it was overtaken.
LEMMA DeleteRowAtomic ==
  ASSUME SInv, ChecksHold, NEW p \in Processes, DeleteRow(p)
  PROVE  ChecksHold' /\ Atomic
<1> DEFINE c == process[p].call
<1>1. /\ OneWriter /\ process[p].pc = "checked" /\ c.op = "delete" /\ Set(p, Idle)
      /\ \/ Live(c.id) /\ DeleteGadget(c.id) /\ overtaken' = overtaken \cup Unprotected(p)
         \/ ~Live(c.id) /\ Answer("ok") /\ overtaken' = overtaken
  BY DEF DeleteRow, SInv
<1>2. p \notin overtaken => CheckVerdict(c) = "ok"
  BY <1>1 DEF ChecksHold
<1>3. process[p] # Idle /\ process'[p] = Idle
  BY <1>1, States, Moved
<1> HIDE DEF c
<1>4. AsIfAlone(c) \/ (p \in overtaken /\ AsIfUnchecked(c))
  <2>1. CASE Live(c.id) /\ DeleteGadget(c.id)
    BY <1>1, <2>1 DEF AsIfAlone, Delete
  <2>2. CASE ~Live(c.id) /\ Answer("ok")
    BY <1>1, <1>2, <2>2 DEF AsIfUnchecked, CheckVerdict
  <2> QED
    BY <1>1, <2>1, <2>2
<1>5. Completes(p)
  BY <1>1, <1>3 DEF Completes, DeleteGadget, Answer
<1>6. \/ gadgets' = gadgets /\ overtaken' \in {overtaken, overtaken \ {p}}
      \/ overtaken' = overtaken \cup Unprotected(p)
  BY <1>1 DEF Answer, store
<1>7. ChecksHold'
  BY <1>1, <1>6, States, OthersChecks
<1>8. \A q \in Processes : Completes(q) => q = p
  BY <1>1, States, OnlyMoverCompletes
<1> QED
  BY <1>4, <1>5, <1>7, <1>8 DEF Atomic, c

\* Refused, failed or killed.
LEMMA QuitAtomic ==
  ASSUME SInv, ChecksHold, NEW p \in Processes, Set(p, Idle), Answer("storageError"),
         overtaken' = overtaken
  PROVE  ChecksHold' /\ Atomic
<1>1. OneWriter /\ UNCHANGED store /\ gadgets' = gadgets
  BY DEF SInv, Answer, store
<1>2. \A q \in Processes : ~Completes(q)
  BY DEF Completes, Answer
<1>3. ChecksHold'
  BY <1>1, States, OthersChecks
<1> QED
  BY <1>1, <1>2, <1>3 DEF Atomic

\* Every step keeps the checks of those that no commit has overtaken, and
\* completes calls as if they had run alone.
LEMMA AtomicStep == SInv /\ ChecksHold /\ [SharedNext]_allVars => ChecksHold' /\ [Atomic]_allVars
<1> SUFFICES ASSUME SInv, ChecksHold, [SharedNext]_allVars
             PROVE  ChecksHold' /\ [Atomic]_allVars
  OBVIOUS
<1>1. ASSUME NEW p \in Processes, Busy(p) \/ Abort(p) PROVE ChecksHold' /\ Atomic
  BY <1>1, QuitAtomic DEF Busy, Abort
<1>2. CASE SharedNext
  <2>1. PICK p \in Processes :
          \/ \E c \in Calls : Check(p, c) \/ Begin(p, c)
          \/ Proceed(p)
          \/ Abort(p)
    BY <1>2 DEF SharedNext
  <2> QED
    BY <1>1, <2>1, CheckAtomic, BeginAtomic, UpgradeAtomic, CommitAtomic, DeleteRowAtomic
       DEF Proceed
<1>3. CASE UNCHANGED allVars
  BY <1>3 DEF allVars, ChecksHold, InTransactionNow, CheckVerdict, Live
<1> QED
  BY <1>2, <1>3

----------------------------------------------------------------------------
(* Shared store: the theorems.                                             *)

\* No process is doing anything at first.
LEMMA SharedInitSInv == SharedInit => SInv
<1> SUFFICES ASSUME SharedInit PROVE SInv
  OBVIOUS
<1>1. IInv
  BY InitIInv DEF SharedInit
<1>2. \A p \in Processes : process[p] = Idle
  BY DEF SharedInit
<1>3. OneWriter
  BY <1>2, States, ProcessesAssumption DEF SharedInit, OneWriter
<1>4. SnapshotsHold
  BY <1>2, States DEF SnapshotsHold, InTransactionNow
<1> QED
  BY <1>1, <1>3, <1>4 DEF SInv

\* Every step keeps the invariant, and changes the tables by a call if at all.
LEMMA SharedStep ==
  SInv /\ [SharedNext]_allVars => SInv' /\ (UNCHANGED store \/ Next)
<1> SUFFICES ASSUME SInv, [SharedNext]_allVars
             PROVE  SInv' /\ (UNCHANGED store \/ Next)
  OBVIOUS
<1>1. CASE SharedNext
  <2>1. PICK p \in Processes :
          \/ \E c \in Calls : Check(p, c) \/ Begin(p, c)
          \/ Proceed(p)
          \/ Abort(p)
    BY <1>1 DEF SharedNext
  <2> QED
    BY <2>1, CheckStep, BeginStep, UpgradeStep, CommitStep, DeleteRowStep, BusyStep, AbortStep
       DEF Proceed
<1>2. CASE UNCHANGED allVars
  <2>1. UNCHANGED store /\ outcome' \in Outcomes /\ OneWriter'
    BY <1>2 DEF allVars, store, SInv, IInv, TypeOK, OneWriter
  <2>2. process' = process /\ stale' = stale
    BY <1>2 DEF allVars
  <2> QED
    BY <2>1, <2>2, QuietStep DEF InTransactionNow
<1> QED
  BY <1>1, <1>2

\* The invariant holds in every reachable state, however many processes
\* share the file: with it, everything IInv says of single calls.
THEOREM SharedInvariant == SharedSpec => []SInv
  BY SharedInitSInv, SharedStep, PTL DEF SharedSpec

\* A check outside a transaction holds until another process commits.
THEOREM ChecksHoldUntilOvertaken == SharedSpec => []ChecksHold
<1>1. SharedInit => ChecksHold
  BY States DEF SharedInit, ChecksHold, InTransactionNow
<1> QED
  BY <1>1, AtomicStep, SharedInvariant, PTL DEF SharedSpec

\* One process writes at most, on a snapshot that is the committed state.
THEOREM SharedTypes == SharedSpec => []SharedTypeOK
<1>1. SInv /\ ChecksHold => SharedTypeOK
  BY DEF SInv, IInv, OneWriter, ChecksHold, SharedTypeOK
<1> QED
  BY <1>1, SharedInvariant, ChecksHoldUntilOvertaken, PTL

\* Overlapping transactions change the tables and answer as the calls would if
\* they ran alone, but for an add or a delete that another process's commit has
\* overtaken after its check (GadgetRepo.add, GadgetRepo.delete).
THEOREM CallsAreAtomic == SharedSpec => AtomicCalls
<1>1. SharedInit => Init
  BY DEF SharedInit
<1>2. SInv /\ ChecksHold /\ [SharedNext]_allVars => [Atomic]_allVars
  BY AtomicStep
<1> QED
  BY <1>1, <1>2, SharedInvariant, ChecksHoldUntilOvertaken, PTL
  DEF SharedSpec, AtomicCalls, Atomic

\* Whatever processes do at once, revisions stay numbered without a gap.
THEOREM SharedVersionsContiguous == SharedSpec => []VersionsContiguous
<1>1. SInv => VersionsContiguous
  BY DEF SInv, IInv
<1> QED
  BY <1>1, SharedInvariant, PTL

\* Whatever processes do at once, a name has one meaning.
THEOREM SharedNamesUnambiguous == SharedSpec => []NamesUnambiguous
<1>1. SInv => NamesUnambiguous
  BY DEF SInv, IInv
<1> QED
  BY <1>1, SharedInvariant, PTL

\* Two processes that rename one gadget at once do not exceed the cap: the
\* count that a rename checks is that of the state it commits to.
THEOREM SharedAliasesWithinCap == SharedSpec => []AliasesWithinCap
<1>1. SharedInit => AliasesWithinCap
  BY InitAliasesWithinCap DEF SharedInit
<1>2. SInv /\ AliasesWithinCap /\ [SharedNext]_allVars => AliasesWithinCap'
  <2>1. UNCHANGED store /\ AliasesWithinCap => AliasesWithinCap'
    BY DEF store, AliasesWithinCap, AliasesOf
  <2> QED
    BY <2>1, SharedStep, NextAliasesWithinCap DEF SInv
<1> QED
  BY <1>1, <1>2, SharedInvariant, PTL DEF SharedSpec

\* Whatever other processes commit in between, a name that a client knows
\* keeps its gadget, and no process overwrites another's snapshot.
THEOREM SharedNamesKeepTheirGadget == SharedSpec => NamesKeepTheirGadget /\ HistoryGrows
<1>1. SInv /\ [SharedNext]_allVars => [NamesKept]_vars /\ [HistoriesKept]_vars
  BY SharedStep, CallsKeepGadgets DEF SInv
<1> QED
  BY <1>1, SharedInvariant, PTL
  DEF SharedSpec, NamesKeepTheirGadget, HistoryGrows, NamesKept, HistoriesKept

\* Seen from the outside, several processes on one file are one library, of
\* which each committed transaction is one step.
THEOREM SharedStoreImplementsLibrary == SharedSpec => ImplementsLibrary
<1>1. SharedInit => Library!Init
  BY InitRefines DEF SharedInit
<1>2. SInv /\ SInv' /\ [SharedNext]_allVars => [Library!Next]_(Library!vars)
  BY SharedStep, StepRefines DEF SInv
<1> QED
  BY <1>1, <1>2, SharedInvariant, PTL DEF SharedSpec, ImplementsLibrary, Library!Spec

----------------------------------------------------------------------------
(* Import: the invariant.                                                  *)

\* What the import remembers is typed.
ProgressOK ==
  /\ pc \in {"idle", "importing", "answered"}
  /\ lines \in Seq(Line)
  /\ policy \in Policies
  /\ position \in 1..Len(lines) + 1
  /\ pc = "answered" => position = Len(lines) + 1
  /\ counts \in [Kinds -> Nat]
  /\ Running => IsFiniteSet(Written)

\* Nothing that was there when the import began is gone.
NothingLost ==
  /\ before.revisions \subseteq revisions
  /\ \A n \in Names : before.gadgets[n] # NoRow => Live(n)

\* The line is one of n's that were looked at.
LookedAt(i, n) == i \in 1..position - 1 /\ lines[i] # Invalid /\ lines[i].id = n

\* Of the lines looked at, the last and the first for their gadget.
LastSoFar(i) == \A j \in 1..position - 1 : LookedAt(j, lines[i].id) => j <= i

FirstSoFar(i) == \A j \in 1..position - 1 : LookedAt(j, lines[i].id) => i <= j

\* As long as nothing went wrong: the gadget of every line that was looked at
\* is there, with the body of the last of its lines, if lines overwrite, or of
\* the first if the import created it.
CleanLine(i) ==
  /\ lines[i] # Invalid /\ Live(lines[i].id)
  /\ policy = "overwrite" /\ LastSoFar(i) => gadgets[lines[i].id].body = lines[i].body
  /\ policy # "overwrite" /\ lines[i].id \in NewSince /\ FirstSoFar(i)
       => gadgets[lines[i].id].body = lines[i].body

CleanSoFar ==
  /\ \A n \in NewSince : \E i \in 1..position - 1 : LookedAt(i, n)
  /\ counts["errors"] = 0 => \A i \in 1..position - 1 : CleanLine(i)

ImportInv ==
  /\ IInv
  /\ ProgressOK
  /\ Running => NothingLost /\ CleanSoFar
  /\ CountsAreTrue
  /\ ExistingKept

----------------------------------------------------------------------------
(* Import: what the counts count.                                          *)

\* What a put that goes through adds to the revisions.
LEMMA RevisionAdded ==
  ASSUME IInv, NEW id \in Names, NEW b \in Bodies, Insertion(id, b) \/ Updating(id, b)
  PROVE  \E r : /\ revisions' = revisions \cup {r} /\ r \notin revisions
                /\ r.gadget = id
                /\ Insertion(id, b) => r.version = 1
<1>1. revisions' = WithRevision(revisions, id, b)
  BY DEF Insertion, InsertGadget, Updating, UpdateGadget
<1>2. \E k \in Nat : History(revisions, id, k) /\ (Insertion(id, b) => k = 0)
  <2>1. CASE Insertion(id, b)
    <3>1. VersionsIn(revisions, id) = {}
      BY <2>1 DEF Insertion, IInv, VersionsContiguous, VersionsIn
    <3>2. History(revisions, id, 0)
      BY <3>1 DEF History, IInv, TypeOK, SnapshotsUnique, Unique
    <3> QED
      BY <3>2
  <2>2. CASE Updating(id, b)
    BY <2>2, LiveHistory DEF Updating, Insertion
  <2> QED
    BY <2>1, <2>2
<1>3. PICK k \in Nat : History(revisions, id, k) /\ (Insertion(id, b) => k = 0)
  BY <1>2
<1>4. revisions' = revisions \cup {NewRow(id, k, b)}
  <2>1. History(revisions, id, k)
    BY <1>3
  <2>2. WithRevision(revisions, id, b) = revisions \cup {NewRow(id, k, b)}
    BY <2>1, WithRevisionAdds
  <2> QED
    BY <1>1, <2>2
<1>5. NewRow(id, k, b).gadget = id /\ NewRow(id, k, b).version = k + 1
  BY DEF NewRow
<1>6. NewRow(id, k, b) \notin revisions
  <2>1. k + 1 \notin VersionsIn(revisions, id)
    BY <1>3 DEF History
  <2> QED
    BY <1>5, <2>1 DEF VersionsIn, RevisionsIn
<1> QED
  BY <1>3, <1>4, <1>5, <1>6

\* A put inserts, updates, or throws and leaves the tables alone.
LEMMA PutIs ==
  ASSUME TypeOK, NEW id \in Names, NEW b \in Bodies, Put(id, b)
  PROVE  \/ (Insertion(id, b) \/ Updating(id, b)) /\ outcome' = "ok"
         \/ UNCHANGED store /\ outcome' \in Outcomes \ {"ok"}
<1>1. CASE PutVerdict(id) = "ok" /\ ~Live(id) /\ InsertGadget(id, b)
  BY <1>1 DEF PutVerdict, Insertion, InsertGadget
<1>2. CASE PutVerdict(id) = "ok" /\ Live(id) /\ UpdateGadget(id, b)
  BY <1>2 DEF Updating, UpdateGadget
<1>3. CASE PutVerdict(id) # "ok" /\ Answer(PutVerdict(id))
  BY <1>3, VerdictsAreOutcomes DEF Answer
<1> QED
  BY <1>1, <1>2, <1>3 DEF Put

\* The sum of the counts, and what counting one line does to the progress.
Total(c) == c["imported"] + c["overwritten"] + c["skipped"] + c["errors"]

LEMMA Counted ==
  ASSUME ProgressOK, AtLine, NEW kind \in Kinds, Count(kind)
  PROVE  /\ position \in 1..Len(lines) /\ lines[position] \in Line
         /\ position' = position + 1
         /\ UNCHANGED <<pc, lines, policy, before>>
         /\ pc = "importing" /\ position' \in 1..Len(lines) + 1
         /\ counts \in [Kinds -> Nat] /\ counts' \in [Kinds -> Nat]
         /\ \A k \in Kinds : counts'[k] = IF k = kind THEN counts[k] + 1 ELSE counts[k]
         /\ Total(counts') = Total(counts) + 1
<1>1. /\ lines \in Seq(Line) /\ counts \in [Kinds -> Nat]
      /\ position \in 1..Len(lines) + 1 /\ position <= Len(lines) /\ pc = "importing"
  BY DEF ProgressOK, AtLine
<1>2. /\ counts' = [counts EXCEPT ![kind] = @ + 1]
      /\ position' = position + 1
      /\ UNCHANGED <<pc, lines, policy, before>>
  BY DEF Count
<1>3. Len(lines) \in Nat
  BY <1>1
<1>4. position \in 1..Len(lines) /\ position' \in 1..Len(lines) + 1
  BY <1>1, <1>2, <1>3
<1>5. counts' \in [Kinds -> Nat]
  BY <1>1, <1>2
<1>6. \A k \in Kinds : counts'[k] = IF k = kind THEN counts[k] + 1 ELSE counts[k]
  BY <1>1, <1>2
<1>7. Total(counts') = Total(counts) + 1
  <2>1. /\ counts["imported"] \in Nat /\ counts["overwritten"] \in Nat
        /\ counts["skipped"] \in Nat /\ counts["errors"] \in Nat
    BY <1>1 DEF Kinds
  <2>2. CASE kind = "imported"
    BY <1>6, <2>1, <2>2 DEF Total, Kinds
  <2>3. CASE kind = "overwritten"
    BY <1>6, <2>1, <2>3 DEF Total, Kinds
  <2>4. CASE kind = "skipped"
    BY <1>6, <2>1, <2>4 DEF Total, Kinds
  <2>5. CASE kind = "errors"
    BY <1>6, <2>1, <2>5 DEF Total, Kinds
  <2> QED
    BY <2>2, <2>3, <2>4, <2>5 DEF Kinds
<1> QED
  BY <1>1, <1>2, <1>4, <1>5, <1>6, <1>7

\* New gadgets and new revisions can be counted, and stay what they are while
\* the tables do.
LEMMA NewSinceIs ==
  ASSUME TypeOK
  PROVE  /\ IsFiniteSet(NewSince) /\ Cardinality(NewSince) \in Nat
         /\ NewSince \subseteq Names
         /\ UNCHANGED store /\ UNCHANGED before
              => NewSince' = NewSince /\ Written' = Written
<1>1. NewSince \subseteq Names
  BY DEF NewSince, LiveIds
<1> QED
  BY <1>1, NamesAssumption, FS_Subset, FS_CardinalityType
  DEF NewSince, Written, LiveIds, Live, store

\* A line whose put is not made, or goes wrong, keeps the invariant.
LEMMA LineWithoutWrite ==
  ASSUME ImportInv, AtLine, NEW kind \in {"skipped", "errors"}, Count(kind),
         UNCHANGED store, outcome' \in Outcomes,
         kind = "skipped" => /\ lines[position] # Invalid
                             /\ Live(lines[position].id) /\ policy # "overwrite"
  PROVE  ImportInv'
<1> USE DEF ImportInv
<1>1. /\ position \in 1..Len(lines) /\ position' = position + 1
      /\ UNCHANGED <<pc, lines, policy, before>>
      /\ pc = "importing" /\ position' \in 1..Len(lines) + 1
      /\ counts \in [Kinds -> Nat] /\ counts' \in [Kinds -> Nat]
      /\ \A k \in Kinds : counts'[k] = IF k = kind THEN counts[k] + 1 ELSE counts[k]
      /\ Total(counts') = Total(counts) + 1
  BY Counted DEF Kinds
<1>2. NewSince' = NewSince /\ Written' = Written
  BY <1>1, NewSinceIs DEF IInv
<1>3. IInv'
  BY UnwrittenIInv
<1>4. ProgressOK'
  BY <1>1, <1>2 DEF ProgressOK, Running
<1>5. NothingLost'
  BY <1>1 DEF NothingLost, Running, store, Live
<1>6. CountsAreTrue'
  <2>1. counts'["imported"] = counts["imported"] /\ counts'["overwritten"] = counts["overwritten"]
    BY <1>1 DEF Kinds
  <2>2. Total(counts) = position - 1
    BY <1>1 DEF CountsAreTrue, Running, Total
  <2>3. Total(counts') = position' - 1
    BY <1>1, <2>2
  <2> QED
    BY <1>1, <1>2, <2>1, <2>3 DEF CountsAreTrue, Running, Total
<1>7. ExistingKept'
  BY <1>1, <1>2 DEF ExistingKept, Running, store
<1>8. \A i : /\ i \in 1..position' - 1 <=> i \in 1..position - 1 \/ i = position
             /\ i \in 1..position - 1 => ~(position <= i)
  BY <1>1
<1>9. \A n : \A i \in 1..position - 1 : LookedAt(i, n) => LookedAt(i, n)'
  BY <1>1, <1>8 DEF LookedAt
<1>10. CleanSoFar'
  <2>1. \A n \in NewSince : \E i \in 1..position - 1 : LookedAt(i, n)
    BY <1>1 DEF Running, CleanSoFar
  <2>2. \A n \in NewSince' : \E i \in 1..position' - 1 : LookedAt(i, n)'
    <3> SUFFICES ASSUME NEW n \in NewSince PROVE \E i \in 1..position' - 1 : LookedAt(i, n)'
      BY <1>2
    <3>1. PICK i \in 1..position - 1 : LookedAt(i, n)
      BY <2>1
    <3>2. i \in 1..position' - 1 /\ LookedAt(i, n)'
      BY <3>1, <1>8, <1>9
    <3> QED
      BY <3>2
  <2>3. ASSUME counts'["errors"] = 0, NEW i \in 1..position' - 1
        PROVE  CleanLine(i)'
    <3>1. kind = "skipped" /\ counts["errors"] = 0
      BY <1>1, <2>3 DEF Kinds
    <3>2. CASE i \in 1..position - 1
      <4>1. CleanLine(i)
        BY <3>1, <3>2, <1>1 DEF Running, CleanSoFar
      <4>2. (LastSoFar(i)' => LastSoFar(i)) /\ (FirstSoFar(i)' => FirstSoFar(i))
        BY <1>1, <1>8, <1>9 DEF LastSoFar, FirstSoFar
      <4> QED
        BY <4>1, <4>2, <1>1, <1>2 DEF CleanLine, store, Live
    <3>3. CASE i = position
      <4>1. ASSUME lines[i].id \in NewSince PROVE ~FirstSoFar(i)'
        <5>1. PICK j \in 1..position - 1 : LookedAt(j, lines[i].id)
          BY <2>1, <4>1
        <5>2. j \in 1..position' - 1 /\ ~(i <= j)
          BY <5>1, <3>3, <1>8
        <5>3. LookedAt(j, lines[i].id)'
          BY <5>1, <1>1, <1>9
        <5> QED
          BY <5>2, <5>3 DEF FirstSoFar
      <4> QED
        BY <4>1, <3>1, <3>3, <1>1, <1>2 DEF CleanLine, store, Live
    <3> QED
      BY <3>2, <3>3, <1>8
  <2> QED
    BY <2>2, <2>3 DEF CleanSoFar
<1> QED
  BY <1>3, <1>4, <1>5, <1>6, <1>7, <1>10

\* What a line that is put adds to what the import has written.
LEMMA WrittenGrows ==
  ASSUME NothingLost, IsFiniteSet(Written), UNCHANGED before,
         NEW r, revisions' = revisions \cup {r}, r \notin revisions
  PROVE  /\ Written' = Written \cup {r}
         /\ IsFiniteSet(Written') /\ Cardinality(Written') = Cardinality(Written) + 1
         /\ before'.revisions \subseteq revisions'
<1>1. Written' = Written \cup {r} /\ r \notin Written
  BY DEF Written, NothingLost
<1> QED
  BY <1>1, FS_AddElement DEF NothingLost

\* A line that creates a gadget keeps the invariant.
LEMMA LineInserts ==
  ASSUME ImportInv, AtLine, Count("imported"), outcome' = "ok",
         NEW id \in Names, NEW b \in Bodies, Insertion(id, b),
         lines[position] # Invalid, lines[position].id = id, lines[position].body = b
  PROVE  ImportInv'
<1> USE DEF ImportInv
<1>1. /\ position \in 1..Len(lines) /\ position' = position + 1
      /\ UNCHANGED <<pc, lines, policy, before>>
      /\ pc = "importing" /\ position' \in 1..Len(lines) + 1
      /\ counts \in [Kinds -> Nat] /\ counts' \in [Kinds -> Nat]
      /\ \A k \in Kinds : counts'[k] = IF k = "imported" THEN counts[k] + 1 ELSE counts[k]
      /\ Total(counts') = Total(counts) + 1
  BY Counted DEF Kinds
<1>2. Running /\ NothingLost /\ CleanSoFar
  BY <1>1 DEF Running
<1>3. /\ gadgets'[id].body = b
      /\ \A n \in Names : n # id => gadgets'[n] = gadgets[n]
      /\ Live(id)' /\ \A n \in Names : n # id => (Live(n)' <=> Live(n))
      /\ LiveIds' = LiveIds \cup {id} /\ id \notin LiveIds /\ ~Live(id)
  BY InsertionEffect DEF Insertion
<1>4. PICK r : /\ revisions' = revisions \cup {r} /\ r \notin revisions
               /\ r.gadget = id /\ r.version = 1
  BY RevisionAdded
<1>5. /\ Written' = Written \cup {r}
      /\ IsFiniteSet(Written') /\ Cardinality(Written') = Cardinality(Written) + 1
      /\ before'.revisions \subseteq revisions'
  BY <1>1, <1>2, <1>4, WrittenGrows DEF ProgressOK
<1>6. before.gadgets[id] = NoRow
  BY <1>2, <1>3 DEF NothingLost
<1>7. NewSince' = NewSince \cup {id} /\ id \notin NewSince
  BY <1>1, <1>3, <1>6 DEF NewSince
<1>8. IsFiniteSet(NewSince) /\ Cardinality(NewSince) \in Nat
  BY NewSinceIs DEF IInv
<1>9. Cardinality(NewSince') = Cardinality(NewSince) + 1
  BY <1>7, <1>8, FS_AddElement
<1>10. IInv'
  BY InsertionIInv
<1>11. ProgressOK'
  BY <1>1, <1>5 DEF ProgressOK
<1>12. NothingLost'
  BY <1>1, <1>2, <1>3, <1>5 DEF NothingLost
<1>13. CountsAreTrue'
  <2>1. /\ counts'["imported"] = counts["imported"] + 1
        /\ counts'["overwritten"] = counts["overwritten"]
        /\ counts["imported"] \in Nat /\ counts["overwritten"] \in Nat
    BY <1>1 DEF Kinds
  <2>2. /\ Total(counts) = position - 1
        /\ counts["imported"] = Cardinality(NewSince)
        /\ counts["imported"] + counts["overwritten"] = Cardinality(Written)
    BY <1>2 DEF CountsAreTrue, Total
  <2>3. Total(counts') = position' - 1
    BY <1>1, <2>2
  <2>4. counts'["imported"] = Cardinality(NewSince')
    BY <1>9, <2>1, <2>2
  <2>5. counts'["imported"] + counts'["overwritten"] = Cardinality(Written')
    BY <1>5, <2>1, <2>2
  <2> QED
    BY <2>3, <2>4, <2>5 DEF CountsAreTrue, Total
<1>14. ExistingKept'
  BY <1>1, <1>2, <1>3, <1>4, <1>5, <1>6, <1>7 DEF ExistingKept
<1>15. \A i : /\ i \in 1..position' - 1 <=> i \in 1..position - 1 \/ i = position
              /\ i \in 1..position - 1 => ~(position <= i)
  BY <1>1
<1>16. \A n : \A i \in 1..position - 1 : LookedAt(i, n) => LookedAt(i, n)'
  BY <1>1, <1>15 DEF LookedAt
<1>17. CleanSoFar'
  <2>1. ASSUME NEW n \in NewSince' PROVE \E i \in 1..position' - 1 : LookedAt(i, n)'
    <3>1. CASE n = id
      <4>1. position \in 1..position' - 1
        BY <1>15
      <4>2. PICK i \in 1..position' - 1 : i = position
        BY <4>1
      <4>3. LookedAt(i, n)'
        BY <4>2, <3>1, <1>1 DEF LookedAt
      <4> QED
        BY <4>3
    <3>2. CASE n \in NewSince
      <4>1. PICK i \in 1..position - 1 : LookedAt(i, n)
        BY <1>2, <3>2 DEF CleanSoFar
      <4>2. i \in 1..position' - 1 /\ LookedAt(i, n)'
        BY <4>1, <1>15, <1>16
      <4> QED
        BY <4>2
    <3> QED
      BY <3>1, <3>2, <1>7
  <2>2. ASSUME counts'["errors"] = 0, NEW i \in 1..position' - 1
        PROVE  CleanLine(i)'
    <3>1. counts["errors"] = 0
      BY <1>1, <2>2 DEF Kinds
    <3>2. CASE i \in 1..position - 1
      <4>1. CleanLine(i)
        BY <3>1, <3>2, <1>2 DEF CleanSoFar
      <4>2. lines[i].id \in Names /\ lines[i].id # id
        <5>1. i \in 1..Len(lines) /\ lines \in Seq(Line)
          BY <3>2, <1>1 DEF ProgressOK
        <5>2. lines[i] \in Line /\ lines[i] # Invalid
          BY <4>1, <5>1 DEF CleanLine
        <5> QED
          BY <5>2, <4>1, <1>3, NamesAssumption DEF CleanLine, Line
      <4>3. (LastSoFar(i)' => LastSoFar(i)) /\ (FirstSoFar(i)' => FirstSoFar(i))
        BY <1>1, <1>15, <1>16 DEF LastSoFar, FirstSoFar
      <4> QED
        BY <4>1, <4>2, <4>3, <1>1, <1>3, <1>7 DEF CleanLine
    <3>3. CASE i = position
      BY <3>3, <1>1, <1>3 DEF CleanLine
    <3> QED
      BY <3>2, <3>3, <1>15
  <2> QED
    BY <2>1, <2>2 DEF CleanSoFar
<1> QED
  BY <1>10, <1>11, <1>12, <1>13, <1>14, <1>17

\* A line that overwrites a gadget keeps the invariant.
LEMMA LineUpdates ==
  ASSUME ImportInv, AtLine, Count("overwritten"), outcome' = "ok", policy = "overwrite",
         NEW id \in Names, NEW b \in Bodies, Updating(id, b),
         lines[position] # Invalid, lines[position].id = id, lines[position].body = b
  PROVE  ImportInv'
<1> USE DEF ImportInv
<1>1. /\ position \in 1..Len(lines) /\ position' = position + 1
      /\ UNCHANGED <<pc, lines, policy, before>>
      /\ pc = "importing" /\ position' \in 1..Len(lines) + 1
      /\ counts \in [Kinds -> Nat] /\ counts' \in [Kinds -> Nat]
      /\ \A k \in Kinds : counts'[k] = IF k = "overwritten" THEN counts[k] + 1 ELSE counts[k]
      /\ Total(counts') = Total(counts) + 1
  BY Counted DEF Kinds
<1>2. Running /\ NothingLost /\ CleanSoFar
  BY <1>1 DEF Running
<1>3. /\ gadgets'[id].body = b
      /\ \A n \in Names : n # id => gadgets'[n] = gadgets[n]
      /\ \A n \in Names : Live(n)' <=> Live(n)
      /\ LiveIds' = LiveIds /\ Live(id)
  BY UpdatingEffect
<1>4. PICK r : revisions' = revisions \cup {r} /\ r \notin revisions
  BY RevisionAdded
<1>5. /\ IsFiniteSet(Written') /\ Cardinality(Written') = Cardinality(Written) + 1
      /\ before'.revisions \subseteq revisions'
  BY <1>1, <1>2, <1>4, WrittenGrows DEF ProgressOK
<1>6. NewSince' = NewSince
  BY <1>1, <1>3 DEF NewSince
<1>7. IInv'
  BY UpdatingIInv
<1>8. ProgressOK'
  BY <1>1, <1>5 DEF ProgressOK
<1>9. NothingLost'
  BY <1>1, <1>2, <1>3, <1>5 DEF NothingLost
<1>10. CountsAreTrue'
  <2>1. /\ counts'["imported"] = counts["imported"]
        /\ counts'["overwritten"] = counts["overwritten"] + 1
        /\ counts["imported"] \in Nat /\ counts["overwritten"] \in Nat
    BY <1>1 DEF Kinds
  <2>2. /\ Total(counts) = position - 1
        /\ counts["imported"] = Cardinality(NewSince)
        /\ counts["imported"] + counts["overwritten"] = Cardinality(Written)
    BY <1>2 DEF CountsAreTrue, Total
  <2>3. Total(counts') = position' - 1
    BY <1>1, <2>2
  <2>4. counts'["imported"] + counts'["overwritten"] = Cardinality(Written')
    BY <1>5, <2>1, <2>2
  <2> QED
    BY <1>6, <2>1, <2>2, <2>3, <2>4 DEF CountsAreTrue, Total
<1>11. ExistingKept'
  BY <1>1 DEF ExistingKept
<1>12. \A i : /\ i \in 1..position' - 1 <=> i \in 1..position - 1 \/ i = position
              /\ i \in 1..position - 1 => ~(position <= i)
  BY <1>1
<1>13. \A n : \A i \in 1..position - 1 : LookedAt(i, n) => LookedAt(i, n)'
  BY <1>1, <1>12 DEF LookedAt
<1>14. CleanSoFar'
  <2>1. ASSUME NEW n \in NewSince' PROVE \E i \in 1..position' - 1 : LookedAt(i, n)'
    <3>1. PICK i \in 1..position - 1 : LookedAt(i, n)
      BY <1>2, <1>6 DEF CleanSoFar
    <3>2. i \in 1..position' - 1 /\ LookedAt(i, n)'
      BY <3>1, <1>12, <1>13
    <3> QED
      BY <3>2
  <2>2. ASSUME counts'["errors"] = 0, NEW i \in 1..position' - 1
        PROVE  CleanLine(i)'
    <3>1. counts["errors"] = 0
      BY <1>1, <2>2 DEF Kinds
    <3>2. CASE i \in 1..position - 1
      <4>1. CleanLine(i)
        BY <3>1, <3>2, <1>2 DEF CleanSoFar
      <4>2. lines[i].id \in Names
        <5>1. i \in 1..Len(lines) /\ lines \in Seq(Line)
          BY <3>2, <1>1 DEF ProgressOK
        <5>2. lines[i] \in Line /\ lines[i] # Invalid
          BY <4>1, <5>1 DEF CleanLine
        <5> QED
          BY <5>2, NamesAssumption DEF Line
      <4>3. LastSoFar(i)' => LastSoFar(i)
        BY <1>1, <1>12, <1>13 DEF LastSoFar
      <4>4. LastSoFar(i)' => lines[i].id # id
        <5> SUFFICES ASSUME lines[i].id = id PROVE ~LastSoFar(i)'
          OBVIOUS
        <5>1. PICK j \in 1..position' - 1 : j = position
          BY <1>12
        <5>2. LookedAt(j, lines[i].id)'
          BY <5>1, <1>1 DEF LookedAt
        <5>3. ~(j <= i)
          BY <5>1, <3>2, <1>12
        <5> QED
          BY <5>2, <5>3 DEF LastSoFar
      <4> QED
        BY <4>1, <4>2, <4>3, <4>4, <1>1, <1>3 DEF CleanLine
    <3>3. CASE i = position
      BY <3>3, <1>1, <1>3 DEF CleanLine
    <3> QED
      BY <3>2, <3>3, <1>12
  <2> QED
    BY <2>1, <2>2 DEF CleanSoFar
<1> QED
  BY <1>7, <1>8, <1>9, <1>10, <1>11, <1>14

----------------------------------------------------------------------------
(* Import: the answer.                                                     *)

\* Numbers out of 1..k have a least and a greatest among them.
LEMMA LeastAndGreatest ==
  ASSUME NEW k \in Nat, NEW T, T \subseteq 1..k, T # {}
  PROVE  /\ \E i \in T : \A j \in T : i <= j
         /\ \E i \in T : \A j \in T : j <= i
<1>1. \A U : U \subseteq Nat /\ U # {} => \E i \in U : \A j \in U : i <= j
  <2> SUFFICES ASSUME NEW U, U \subseteq Nat, U # {}
               PROVE  \E i \in U : \A j \in U : i <= j
    OBVIOUS
  <2>1. PICK i \in U : \A j \in U : <<j, i>> \notin OpToRel(<, Nat)
    BY NatLessThanWellFounded, WFMin
  <2>2. \A j \in U : ~(j < i)
    BY <2>1 DEF OpToRel
  <2> QED
    BY <2>2
<1>2. \E i \in T : \A j \in T : i <= j
  <2>1. T \subseteq Nat
    OBVIOUS
  <2> QED
    BY <1>1, <2>1
<1>3. \E i \in T : \A j \in T : j <= i
  <2> DEFINE U == {k - i : i \in T}
  <2>1. U \subseteq Nat /\ U # {}
    <3>1. PICK i \in T : TRUE
      OBVIOUS
    <3>2. k - i \in U
      OBVIOUS
    <3>3. \A j \in T : k - j \in Nat
      OBVIOUS
    <3> QED
      BY <3>2, <3>3
  <2>2. PICK u \in U : \A v \in U : u <= v
    <3> HIDE DEF U
    <3> QED
      BY <1>1, <2>1
  <2>3. PICK i \in T : u = k - i
    OBVIOUS
  <2>4. ASSUME NEW j \in T PROVE j <= i
    <3>1. k - i <= k - j
      BY <2>2, <2>3
    <3> QED
      BY <3>1
  <2> QED
    BY <2>4
<1> QED
  BY <1>2, <1>3

\* The invariant says all that is claimed of an answer.
LEMMA AnswerIsComplete == ImportInv => CleanImportIsComplete
<1> SUFFICES ASSUME ImportInv, pc = "answered", counts["errors"] = 0, NEW i \in DOMAIN lines
             PROVE  /\ Live(lines[i].id)
                    /\ policy = "overwrite" \/ lines[i].id \in NewSince =>
                         gadgets[lines[i].id].body = lines[DecidingLine(lines[i].id)].body
  BY DEF CleanImportIsComplete
<1> DEFINE n == lines[i].id
           d == DecidingLine(n)
<1>1. lines \in Seq(Line) /\ position = Len(lines) + 1 /\ policy \in Policies
  BY DEF ImportInv, ProgressOK
<1>2. Len(lines) \in Nat /\ DOMAIN lines = 1..Len(lines) /\ position - 1 = Len(lines)
  BY <1>1
<1>3. \A j \in 1..Len(lines) : CleanLine(j)
  BY <1>2 DEF ImportInv, Running, CleanSoFar
<1>4. \A j : j \in LinesOf(n) <=> LookedAt(j, n)
  BY <1>2 DEF LinesOf, LookedAt
<1>5. i \in LinesOf(n) /\ LinesOf(n) \subseteq 1..Len(lines)
  BY <1>2, <1>3 DEF LinesOf, CleanLine
<1>6. /\ \E j \in LinesOf(n) : \A m \in LinesOf(n) : j <= m
      /\ \E j \in LinesOf(n) : \A m \in LinesOf(n) : m <= j
  BY <1>2, <1>5, LeastAndGreatest
<1>7. /\ d \in LinesOf(n)
      /\ \A j \in LinesOf(n) : IF policy = "overwrite" THEN j <= d ELSE d <= j
  BY <1>6 DEF DecidingLine
<1>8. d \in 1..Len(lines) /\ lines[d].id = n /\ CleanLine(d)
  BY <1>3, <1>5, <1>7 DEF LinesOf
<1> HIDE DEF d
<1>9. CASE policy = "overwrite"
  <2>1. LastSoFar(d)
    BY <1>4, <1>7, <1>8, <1>9 DEF LastSoFar
  <2> QED
    BY <2>1, <1>2, <1>3, <1>8, <1>9 DEF CleanLine, d
<1>10. CASE policy # "overwrite"
  <2>1. FirstSoFar(d)
    BY <1>4, <1>7, <1>8, <1>10 DEF FirstSoFar
  <2> QED
    BY <2>1, <1>2, <1>3, <1>8, <1>10 DEF CleanLine, d
<1> QED
  BY <1>9, <1>10

----------------------------------------------------------------------------
(* Import: every step keeps the invariant.                                 *)

\* Every step keeps the invariant.
LEMMA ImportStep ==
  ASSUME ImportInv, [ImportNext]_importVars
  PROVE  ImportInv'
<1> USE DEF ImportInv
<1>1. ASSUME NEW payload \in BoundedSeq(Line, MaxLines), NEW p \in Policies,
             BeginImport(payload, p)
      PROVE  ImportInv'
  <2>1. /\ pc' = "importing" /\ lines' = payload /\ policy' = p /\ position' = 1
        /\ counts' = [k \in Kinds |-> 0] /\ before' = Tables
        /\ outcome' = "ok" /\ UNCHANGED store
    BY <1>1 DEF BeginImport
  <2>2. payload \in Seq(Line)
    BY LinesAssumption DEF BoundedSeq, SeqOf
  <2>3. Len(payload) \in Nat /\ 1 \in 1..Len(payload) + 1 /\ 1..(1 - 1) = {}
    BY <2>2
  <2>4. IInv'
    BY <2>1, UnwrittenIInv DEF Outcomes
  <2>5. /\ before'.gadgets = gadgets /\ before'.revisions = revisions
        /\ gadgets' = gadgets /\ revisions' = revisions
    BY <2>1 DEF Tables, store
  <2>6. NewSince' = {} /\ Written' = {}
    BY <2>5 DEF NewSince, Written, LiveIds, Live
  <2>7. IsFiniteSet({}) /\ Cardinality({}) = 0
    BY FS_EmptySet
  <2>8. ProgressOK'
    BY <2>1, <2>2, <2>3, <2>6, <2>7 DEF ProgressOK
  <2>9. NothingLost'
    BY <2>5 DEF NothingLost, Live
  <2>10. CleanSoFar'
    BY <2>1, <2>3, <2>6 DEF CleanSoFar
  <2>11. CountsAreTrue' /\ ExistingKept'
    BY <2>1, <2>5, <2>6, <2>7 DEF CountsAreTrue, ExistingKept, Kinds
  <2> QED
    BY <2>4, <2>8, <2>9, <2>10, <2>11
<1>2. CASE RejectLine
  BY <1>2, LineWithoutWrite DEF RejectLine, vars, store, IInv, TypeOK
<1>3. CASE KeepLine
  BY <1>3, LineWithoutWrite DEF KeepLine, Existing, vars, store, IInv, TypeOK
<1>4. CASE PutLine
  <2> DEFINE line == lines[position]
  <2>1. line \in Line /\ line # Invalid
    BY <1>4, LinesAssumption DEF PutLine, ToBePut, AtLine, ProgressOK
  <2>2. line.id \in Names /\ line.body \in Bodies
    BY <2>1, NamesAssumption DEF Line
  <2>3. Existing(line) => policy = "overwrite"
    BY <1>4, <2>1 DEF PutLine, ToBePut
  <2>4. Put(line.id, line.body) /\ AtLine
    BY <1>4 DEF PutLine
  <2>5. CASE UNCHANGED store /\ outcome' \in Outcomes \ {"ok"}
    <3>1. Count("errors")
      BY <1>4, <2>5 DEF PutLine
    <3> QED
      BY <3>1, <2>4, <2>5, LineWithoutWrite
  <2>6. CASE Insertion(line.id, line.body) /\ outcome' = "ok"
    <3>1. Count("imported")
      BY <1>4, <2>6 DEF PutLine, Existing, Insertion
    <3> QED
      BY <3>1, <2>1, <2>2, <2>4, <2>6, LineInserts
  <2>7. CASE Updating(line.id, line.body) /\ outcome' = "ok"
    <3>1. Existing(line)
      BY <2>7 DEF Updating, Existing
    <3>2. Count("overwritten") /\ policy = "overwrite"
      BY <1>4, <2>3, <2>7, <3>1 DEF PutLine
    <3> QED
      BY <3>2, <2>1, <2>2, <2>4, <2>7, LineUpdates
  <2> QED
    BY <2>2, <2>4, <2>5, <2>6, <2>7, PutIs DEF IInv
<1>5. CASE PutFails
  BY <1>5, LineWithoutWrite DEF PutFails, StorageError, Answer, Outcomes
<1>6. CASE Answered
  <2>1. UNCHANGED <<vars, lines, policy, position, counts, before>> /\ pc' = "answered"
    BY <1>6 DEF Answered
  <2>2. pc = "importing" /\ position = Len(lines) + 1
    <3>1. lines \in Seq(Line) /\ position \in 1..Len(lines) + 1 /\ position > Len(lines)
      BY <1>6 DEF Answered, ProgressOK
    <3>2. Len(lines) \in Nat
      BY <3>1
    <3> QED
      BY <1>6, <3>1, <3>2 DEF Answered
  <2>3. NewSince' = NewSince /\ Written' = Written /\ IInv'
    BY <2>1, NewSinceIs, UnwrittenIInv DEF vars, store, IInv, TypeOK
  <2>4. ProgressOK' /\ NothingLost'
    BY <2>1, <2>2, <2>3 DEF ProgressOK, NothingLost, Running, vars, Live
  <2>5. CleanSoFar'
    BY <2>1, <2>2, <2>3 DEF CleanSoFar, Running, vars, LookedAt, CleanLine, LastSoFar,
                            FirstSoFar, Live
  <2>6. CountsAreTrue' /\ ExistingKept'
    BY <2>1, <2>2, <2>3 DEF CountsAreTrue, ExistingKept, Running, vars
  <2> QED
    BY <2>3, <2>4, <2>5, <2>6
<1>7. CASE Over
  <2>1. /\ pc' = "idle" /\ lines' = <<>> /\ policy' = "skip" /\ position' = 1
        /\ counts' = [k \in Kinds |-> 0] /\ before' = NoTables /\ UNCHANGED vars
    BY <1>7 DEF Over
  <2>2. IInv'
    BY <2>1, UnwrittenIInv DEF vars, store, IInv, TypeOK
  <2>3. Len(<<>>) = 0 /\ <<>> \in Seq(Line)
    OBVIOUS
  <2>4. ProgressOK'
    BY <2>1, <2>3 DEF ProgressOK, Policies, Running
  <2> QED
    BY <2>1, <2>2, <2>4 DEF CountsAreTrue, ExistingKept, Running
<1>8. CASE Client
  <2>1. pc = "idle" /\ Next /\ UNCHANGED progress
    BY <1>8 DEF Client
  <2>2. IInv'
    BY <2>1, NextIInv
  <2>3. ProgressOK'
    BY <2>1 DEF ProgressOK, progress, Running
  <2> QED
    BY <2>1, <2>2, <2>3 DEF progress, CountsAreTrue, ExistingKept, Running
<1>9. CASE UNCHANGED importVars
  <2>1. UNCHANGED <<vars, progress>>
    BY <1>9 DEF importVars, vars, progress
  <2>2. NewSince' = NewSince /\ Written' = Written /\ IInv'
    BY <2>1, NewSinceIs, UnwrittenIInv DEF vars, store, progress, IInv, TypeOK
  <2>3. ProgressOK' /\ NothingLost' = NothingLost
    BY <2>1, <2>2 DEF ProgressOK, NothingLost, Running, vars, progress, Live
  <2>4. CleanSoFar' = CleanSoFar
    BY <2>1, <2>2 DEF CleanSoFar, vars, progress, LookedAt, CleanLine, LastSoFar,
                      FirstSoFar, Live
  <2>5. CountsAreTrue' /\ ExistingKept'
    BY <2>1, <2>2 DEF CountsAreTrue, ExistingKept, Running, vars, progress
  <2> QED
    BY <2>1, <2>2, <2>3, <2>4, <2>5 DEF Running, progress
<1> QED
  BY <1>1, <1>2, <1>3, <1>4, <1>5, <1>6, <1>7, <1>8, <1>9
  DEF ImportNext, ImportLine, Kill, Forget

----------------------------------------------------------------------------
(* Import: the theorems.                                                   *)

\* The invariant behind the theorems about imports.
THEOREM ImportInvariant == ImportSpec => []ImportInv
<1>1. ImportInit => ImportInv
  <2> SUFFICES ASSUME ImportInit PROVE ImportInv
    OBVIOUS
  <2>1. IInv
    BY InitIInv DEF ImportInit
  <2>2. Len(<<>>) = 0 /\ <<>> \in Seq(Line)
    OBVIOUS
  <2>3. ProgressOK
    BY <2>2 DEF ImportInit, ProgressOK, Policies, Running
  <2> QED
    BY <2>1, <2>3 DEF ImportInit, ImportInv, CountsAreTrue, ExistingKept, Running
<1> QED
  BY <1>1, ImportStep, PTL DEF ImportSpec

\* Between any two lines of an import, whatever goes wrong with them, the
\* tables are what the store promises: each gadget served is its newest
\* revision, and search finds exactly what is there.
THEOREM StoreStaysSoundDuringImport ==
  ImportSpec => [](TypeOK /\ HeadIsNewestRevision /\ SearchIsExact)
<1>1. ImportInv => TypeOK /\ HeadIsNewestRevision /\ SearchIsExact
  BY MirrorIsExact DEF ImportInv, IInv
<1> QED
  BY <1>1, ImportInvariant, PTL

\* A step of an import that changes the tables is a call of the store.
LEMMA ImportStepIsCall ==
  ASSUME ImportInv, [ImportNext]_importVars
  PROVE  UNCHANGED store \/ Next
<1>1. CASE PutLine
  <2> DEFINE line == lines[position]
  <2>1. line \in Line /\ line # Invalid
    BY <1>1, LinesAssumption DEF PutLine, ToBePut, AtLine, ImportInv, ProgressOK
  <2>2. line.id \in Names /\ line.body \in Bodies
    BY <2>1, NamesAssumption DEF Line
  <2>3. Put(line.id, line.body)
    BY <1>1 DEF PutLine
  <2> HIDE DEF line
  <2> QED
    BY <2>2, <2>3 DEF Next
<1>2. CASE RejectLine \/ KeepLine \/ Answered \/ Over
  BY <1>2 DEF RejectLine, KeepLine, Answered, Over, vars, store
<1>3. CASE PutFails
  BY <1>3 DEF PutFails, Next
<1>4. CASE Client
  BY <1>4 DEF Client
<1>5. ASSUME NEW payload, NEW p, BeginImport(payload, p) PROVE UNCHANGED store
  BY <1>5 DEF BeginImport
<1>6. CASE UNCHANGED importVars
  BY <1>6 DEF importVars, store
<1> QED
  BY <1>1, <1>2, <1>3, <1>4, <1>5, <1>6 DEF ImportNext, ImportLine, Kill, Forget

\* Overwriting, too, leaves every name with its gadget and every snapshot
\* where it was.
THEOREM ImportsKeepNamesAndHistories == ImportSpec => NamesKeepTheirGadget /\ HistoryGrows
<1>1. ImportInv /\ [ImportNext]_importVars => [NamesKept]_vars /\ [HistoriesKept]_vars
  BY ImportStepIsCall, CallsKeepGadgets DEF ImportInv
<1> QED
  BY <1>1, ImportInvariant, PTL
  DEF ImportSpec, NamesKeepTheirGadget, HistoryGrows, NamesKept, HistoriesKept

\* An import, killed or not, is a sequence of steps of the library.
THEOREM ImportImplementsLibrary == ImportSpec => ImplementsLibrary
<1>1. ImportInit => Library!Init
  BY InitRefines DEF ImportInit
<1>2. ImportInv /\ ImportInv' /\ [ImportNext]_importVars => [Library!Next]_(Library!vars)
  BY ImportStepIsCall, StepRefines DEF ImportInv
<1> QED
  BY <1>1, <1>2, ImportInvariant, PTL DEF ImportSpec, ImplementsLibrary, Library!Spec

\* What an import counts is what it did to the tables.
THEOREM CountsStayTrue == ImportSpec => []CountsAreTrue
<1>1. ImportInv => CountsAreTrue
  BY DEF ImportInv
<1> QED
  BY <1>1, ImportInvariant, PTL

\* Unless lines overwrite, an import keeps what it finds.
THEOREM ExistingStayKept == ImportSpec => []ExistingKept
<1>1. ImportInv => ExistingKept
  BY DEF ImportInv
<1> QED
  BY <1>1, ImportInvariant, PTL

\* After an import without errors every gadget of the payload is there, with
\* the body that the policy gives it.
THEOREM CleanImportsAreComplete == ImportSpec => []CleanImportIsComplete
  BY AnswerIsComplete, ImportInvariant, PTL

----------------------------------------------------------------------------
(* Tool calls: bags of rows.                                               *)

\* A bag counts its elements.
IsMultiset(B) == B \in [DOMAIN B -> Nat \ {0}]

\* What adding one copy does to a bag.
LEMMA OneMoreIs ==
  ASSUME NEW bag, IsMultiset(bag), NEW x
  PROVE  /\ IsMultiset(OneMore(bag, x))
         /\ DOMAIN OneMore(bag, x) = DOMAIN bag \cup {x}
         /\ \A e : Copies(e, OneMore(bag, x)) =
                     IF e = x THEN Copies(e, bag) + 1 ELSE Copies(e, bag)
<1>1. DOMAIN OneMore(bag, x) = DOMAIN bag \cup {x}
  BY DEF OneMore
<1>2. \A e \in DOMAIN bag \cup {x} :
        OneMore(bag, x)[e] = IF e = x THEN Copies(e, bag) + 1 ELSE bag[e]
  BY DEF OneMore
<1>3. OneMore(bag, x) \in [DOMAIN bag \cup {x} -> Nat \ {0}]
  BY DEF IsMultiset, OneMore, Copies
<1> QED
  BY <1>1, <1>2, <1>3 DEF IsMultiset, Copies

\* A count of copies is a number, and zero for what is not there.
LEMMA CopiesAre ==
  ASSUME NEW B, IsMultiset(B), NEW e
  PROVE  Copies(e, B) \in Nat /\ (e \notin DOMAIN B => Copies(e, B) = 0)
  BY DEF IsMultiset, Copies

LEMMA NothingInIt ==
  IsMultiset(NoRows) /\ DOMAIN NoRows = {} /\ \A e : Copies(e, NoRows) = 0
  BY DEF IsMultiset, Copies, NoRows

----------------------------------------------------------------------------
(* Tool calls: what a handler does.                                        *)

\* The tables are sound afterwards, they were changed only by a call of the
\* store that went through, and no gadget is gone.
Sound ==
  /\ IInv' /\ outcome' \in Outcomes
  /\ store' # store => outcome' = "ok" /\ Next

SoundAndKeeping == Sound /\ LiveRowIds \subseteq LiveRowIds'

\* A call that leaves the tables alone.
LEMMA AnswerIsSound ==
  ASSUME IInv, NEW code \in Outcomes, Answer(code)
  PROVE  SoundAndKeeping
<1>1. UNCHANGED store /\ outcome' = code
  BY DEF Answer
<1>2. IInv'
  BY <1>1, UnwrittenIInv
<1> QED
  BY <1>1, <1>2 DEF SoundAndKeeping, Sound, LiveRowIds, LiveIds, Live, store

\* A write of the tables, by its kind.
LEMMA WriteIsSound ==
  ASSUME IInv, Next, outcome' = "ok"
  PROVE  /\ \A id \in Names, b \in Bodies :
              Insertion(id, b) \/ Updating(id, b) => SoundAndKeeping
         /\ \A id \in Names : Deletion(id) => Sound
         /\ \A id, newId \in Names : Renaming(id, newId) => SoundAndKeeping
<1>1. ASSUME NEW id \in Names, NEW b \in Bodies, Insertion(id, b)
      PROVE  SoundAndKeeping
  <2>1. /\ LiveIds' = LiveIds \cup {id} /\ id \notin LiveIds
        /\ \A n \in Names : n # id => gadgets'[n] = gadgets[n]
    BY <1>1, InsertionEffect
  <2>2. \A n \in LiveIds : n \in LiveIds' /\ gadgets'[n] = gadgets[n]
    BY <2>1 DEF LiveIds
  <2> QED
    BY <1>1, <2>2, InsertionIInv DEF SoundAndKeeping, Sound, LiveRowIds, Outcomes
<1>2. ASSUME NEW id \in Names, NEW b \in Bodies, Updating(id, b)
      PROVE  SoundAndKeeping
  <2>1. LiveIds' = LiveIds /\ \A n \in LiveIds : gadgets'[n].rowid = gadgets[n].rowid
    BY <1>2, UpdatingEffect
  <2> QED
    BY <1>2, <2>1, UpdatingIInv DEF SoundAndKeeping, Sound, LiveRowIds, Outcomes
<1>3. ASSUME NEW id \in Names, Deletion(id) PROVE Sound
  BY <1>3, DeletionIInv DEF Sound, Outcomes
<1>4. ASSUME NEW id \in Names, NEW newId \in Names, Renaming(id, newId)
      PROVE  SoundAndKeeping
  <2>1. /\ LiveIds' = (LiveIds \ {id}) \cup {newId}
        /\ gadgets'[newId] = gadgets[id]
        /\ \A n \in LiveIds \ {id} : gadgets'[n] = gadgets[n]
    BY <1>4, RenamingEffect
  <2>2. \A n \in LiveIds : \E m \in LiveIds' : gadgets'[m].rowid = gadgets[n].rowid
    BY <2>1
  <2> QED
    BY <1>4, <2>2, RenamingIInv DEF SoundAndKeeping, Sound, LiveRowIds, Outcomes
<1> QED
  BY <1>1, <1>2, <1>3, <1>4

\* The methods that the tools call.
LEMMA MethodsAreSound ==
  ASSUME IInv
  PROVE  /\ \A id \in Names, b \in Bodies : Put(id, b) \/ Add(id, b) => SoundAndKeeping
         /\ \A id \in Names : Delete(id) => Sound
         /\ \A id, newId \in Names : Rename(id, newId) => SoundAndKeeping
         /\ \A id \in Names, v \in 1..VersionBound : Rollback(id, v) => SoundAndKeeping
         /\ StorageError => SoundAndKeeping
<1>1. ASSUME NEW id \in Names, NEW b \in Bodies, Put(id, b) PROVE SoundAndKeeping
  <2>0. Next
    BY <1>1 DEF Next
  <2>1. CASE PutVerdict(id) = "ok" /\ ~Live(id) /\ InsertGadget(id, b)
    <3>1. Insertion(id, b) /\ outcome' = "ok"
      BY <2>1 DEF PutVerdict, Insertion, InsertGadget
    <3> QED
      BY <2>0, <3>1, WriteIsSound
  <2>2. CASE PutVerdict(id) = "ok" /\ Live(id) /\ UpdateGadget(id, b)
    <3>1. Updating(id, b) /\ outcome' = "ok"
      BY <2>2 DEF Updating, UpdateGadget
    <3> QED
      BY <2>0, <3>1, WriteIsSound
  <2>3. CASE PutVerdict(id) # "ok" /\ Answer(PutVerdict(id))
    BY <2>3, VerdictsAreOutcomes, AnswerIsSound
  <2> QED
    BY <1>1, <2>1, <2>2, <2>3 DEF Put
<1>2. ASSUME NEW id \in Names, NEW b \in Bodies, Add(id, b) PROVE SoundAndKeeping
  <2>0. Next
    BY <1>2 DEF Next
  <2>1. CASE AddVerdict(id) = "ok" /\ InsertGadget(id, b)
    <3>1. Insertion(id, b) /\ outcome' = "ok"
      BY <2>1 DEF AddVerdict, PutVerdict, Insertion, InsertGadget
    <3> QED
      BY <2>0, <3>1, WriteIsSound
  <2>2. CASE AddVerdict(id) # "ok" /\ Answer(AddVerdict(id))
    BY <2>2, VerdictsAreOutcomes, AnswerIsSound
  <2> QED
    BY <1>2, <2>1, <2>2 DEF Add
<1>3. ASSUME NEW id \in Names, Delete(id) PROVE Sound
  <2>0. Next
    BY <1>3 DEF Next
  <2>1. CASE Live(id) /\ DeleteGadget(id)
    BY <2>0, <2>1, WriteIsSound DEF Deletion, DeleteGadget
  <2>2. CASE ~Live(id) /\ Answer("notFound")
    BY <2>2, AnswerIsSound DEF Outcomes, SoundAndKeeping
  <2> QED
    BY <1>3, <2>1, <2>2 DEF Delete
<1>4. ASSUME NEW id \in Names, NEW newId \in Names, Rename(id, newId) PROVE SoundAndKeeping
  <2>0. Next
    BY <1>4 DEF Next
  <2>1. CASE RenameVerdict(id, newId) = "ok" /\ RenameGadget(id, newId)
    <3>1. Renaming(id, newId) /\ outcome' = "ok"
      <4>1. Cardinality(AliasesOf(id)) \in Nat
        BY AliasCountIsNat
      <4> QED
        BY <2>1, <4>1, BoundsAssumption DEF RenameVerdict, Renaming, RenameGadget
    <3> QED
      BY <2>0, <3>1, WriteIsSound
  <2>2. CASE RenameVerdict(id, newId) # "ok" /\ Answer(RenameVerdict(id, newId))
    BY <2>2, VerdictsAreOutcomes, AnswerIsSound
  <2> QED
    BY <1>4, <2>1, <2>2 DEF Rename
<1>5. ASSUME NEW id \in Names, NEW v \in 1..VersionBound, Rollback(id, v)
      PROVE  SoundAndKeeping
  <2>0. Next
    BY <1>5 DEF Next
  <2>1. ASSUME NEW r \in RevisionsIn(revisions, id), RollbackVerdict(id, v) = "ok",
               UpdateGadget(id, r.body)
        PROVE  SoundAndKeeping
    <3>1. r.body \in Bodies
      BY DEF RevisionsIn, IInv, TypeOK, RevisionRow
    <3>2. Updating(id, r.body) /\ outcome' = "ok"
      BY <2>1 DEF RollbackVerdict, Updating, UpdateGadget
    <3> QED
      BY <2>0, <3>1, <3>2, WriteIsSound
  <2>2. CASE RollbackVerdict(id, v) # "ok" /\ Answer(RollbackVerdict(id, v))
    BY <2>2, VerdictsAreOutcomes, AnswerIsSound
  <2> QED
    BY <1>5, <2>1, <2>2 DEF Rollback
<1>6. StorageError => SoundAndKeeping
  BY AnswerIsSound DEF StorageError, Outcomes
<1> QED
  BY <1>1, <1>2, <1>3, <1>4, <1>5, <1>6

----------------------------------------------------------------------------
(* Tool calls: the kinds of steps.                                         *)

WaitingTools == {"import-gadgets", "run-reviewer", "list-client-roots", "project-kickoff"}

CallStates ==
  {NoCall} \cup {Waiting(tool) : tool \in WaitingTools}
    \cup [pc : {"handled"}, tool : Tools, code : Codes, changed : BOOLEAN]

RunnerStates == [RunnerIds -> {"absent", "enabled", "disabled"}]

CallsOK ==
  /\ calls \in [Sessions -> CallStates]
  /\ \A s \in Sessions : calls[s].pc = "waiting" => IsToolAllowed(s, calls[s].tool)
  /\ runners \in RunnerStates

\* What a change has to do with the tool that made it and with its answer.
Warranted(tool, code) ==
  /\ tool \in MutationTools
  /\ \/ code = "ok"
     \/ code = "internalError" /\ tool \in {"rename-gadget", "import-gadgets"}

\* The handler of a tool ends, having changed something or not.
Handler(s, tool, code, changed) ==
  /\ calls[s] \in {NoCall, Waiting(tool)}
  /\ IsToolAllowed(s, tool)
  /\ HandledWith(s, tool, code, changed)
  /\ IInv' /\ runners' \in RunnerStates
  /\ UNCHANGED store \/ Next
  /\ store' # store \/ runners' # runners => changed
  /\ changed => Warranted(tool, code)
  /\ ~(LiveRowIds \subseteq LiveRowIds') => tool = "delete-gadget"
  /\ runners' # runners => tool \in {"upsert-runner", "delete-runner"}

HandlerStep(s) ==
  \E tool \in Tools, code \in Codes, changed \in BOOLEAN : Handler(s, tool, code, changed)

\* A call begins and waits.
Begins(s) ==
  /\ calls[s] = NoCall
  /\ \E tool \in WaitingTools :
       IsToolAllowed(s, tool) /\ calls' = [calls EXCEPT ![s] = Waiting(tool)]
  /\ UNCHANGED <<vars, runners, log>>

\* Errors have codes.
LEMMA CodesOfResults ==
  ASSUME NEW result \in Outcomes \cup Codes \cup {"zodError"}
  PROVE  /\ CodeOf(result) \in Codes
         /\ result = "ok" => CodeOf(result) = "ok"
  BY DEF CodeOf, Outcomes, Codes

\* Handlers that write nothing.
LEMMA ReadsIsHandler ==
  ASSUME IInv, CallsOK, NEW s \in Sessions, NEW tool \in Tools,
         NEW result \in Outcomes \cup Codes \cup {"zodError"}, Reads(s, tool, result)
  PROVE  HandlerStep(s)
<1>1. SoundAndKeeping /\ UNCHANGED store
  BY AnswerIsSound DEF Reads, Answer, Outcomes
<1>2. CodeOf(result) \in Codes
  BY CodesOfResults
<1>3. Handler(s, tool, CodeOf(result), FALSE)
  BY <1>1 DEF Handler, Reads, Called, CallsOK, SoundAndKeeping, Sound
<1> QED
  BY <1>2, <1>3 DEF HandlerStep

\* Handlers that call a method of the repository.
LEMMA EndsIsHandler ==
  ASSUME IInv, CallsOK, NEW s \in Sessions, NEW tool \in MutationTools,
         Called(s, tool), Sound, tool # "delete-gadget" => SoundAndKeeping,
         Ends(s, tool)
  PROVE  HandlerStep(s)
<1>1. CodeOf(outcome') \in Codes /\ (outcome' = "ok" => CodeOf(outcome') = "ok")
  BY CodesOfResults DEF Sound
<1>2. tool \in Tools
  BY DEF MutationTools, Tools, WriterTools, AdminTools
<1>3. Handler(s, tool, CodeOf(outcome'), store' # store)
  BY <1>1 DEF Handler, Ends, Called, CallsOK, SoundAndKeeping, Sound, Warranted
<1> QED
  BY <1>1, <1>2, <1>3 DEF HandlerStep

\* The tools that only read.
LEMMA ReadToolIsHandler ==
  ASSUME IInv, CallsOK, NEW s \in Sessions, ReadTool(s) \/ HandlerFails(s)
  PROVE  HandlerStep(s)
<1>1. {"ok", "malformedCursor", "searchCursorQueryMismatch", "storageError", "notFound",
       "composeMissingIds"} \subseteq Outcomes \cup Codes \cup {"zodError"}
  BY DEF Outcomes, Codes
<1>2. {"list-gadgets", "search-gadgets", "list-revisions", "list-runners", "export-gadgets",
       "get-gadget", "compose-prompt"} \subseteq Tools
  BY DEF Tools, ReaderTools
<1>3. \E tool \in Tools, result \in Outcomes \cup Codes \cup {"zodError"} : Reads(s, tool, result)
  <2>1. CASE HandlerFails(s)
    BY <2>1, <1>1 DEF HandlerFails
  <2>2. CASE ListGadgets(s)
    BY <2>2, <1>1, <1>2 DEF ListGadgets
  <2>3. CASE SearchGadgets(s)
    BY <2>3, <1>1, <1>2 DEF SearchGadgets
  <2>4. CASE ListRevisions(s)
    BY <2>4, <1>1, <1>2 DEF ListRevisions
  <2>5. CASE ListRunners(s)
    BY <2>5, <1>1, <1>2 DEF ListRunners
  <2>6. CASE ExportGadgets(s)
    BY <2>6, <1>1, <1>2 DEF ExportGadgets
  <2>7. CASE \E id \in Names : GetGadget(s, id)
    BY <2>7, <1>1, <1>2 DEF GetGadget
  <2>8. CASE \E ids \in SUBSET Names \ {{}}, canonical \in BOOLEAN :
               ComposePrompt(s, ids, canonical)
    BY <2>8, <1>1, <1>2 DEF ComposePrompt
  <2> QED
    BY <2>1, <2>2, <2>3, <2>4, <2>5, <2>6, <2>7, <2>8 DEF ReadTool
<1> QED
  BY <1>3, ReadsIsHandler

\* The tools that write the library.
LEMMA WriteToolKinds ==
  ASSUME IInv, CallsOK, NEW s \in Sessions, WriteTool(s)
  PROVE  HandlerStep(s) \/ Begins(s)
<1>1. {"add-gadget", "put-gadget", "rename-gadget", "rollback-gadget", "delete-gadget",
       "import-gadgets"} \subseteq MutationTools \cap Tools
  BY DEF MutationTools, Tools, WriterTools, AdminTools
<1>2. \A id \in Names, b \in Bodies :
        InputVerdict(id, b) \in Outcomes \cup Codes \cup {"zodError"}
  BY DEF InputVerdict, Codes
<1>3. ASSUME NEW id \in Names, NEW b \in Bodies, AddGadget(s, id, b) PROVE HandlerStep(s)
  <2>1. CASE InputVerdict(id, b) # "ok"
    BY <1>1, <1>2, <1>3, <2>1, ReadsIsHandler DEF AddGadget
  <2>2. CASE InputVerdict(id, b) = "ok"
    <3>1. Called(s, "add-gadget") /\ Ends(s, "add-gadget") /\ SoundAndKeeping
      BY <1>3, <2>2, MethodsAreSound DEF AddGadget
    <3> QED
      BY <3>1, <1>1, EndsIsHandler DEF SoundAndKeeping
  <2> QED
    BY <2>1, <2>2
<1>4. ASSUME NEW id \in Names, NEW b \in Bodies, PutGadget(s, id, b) PROVE HandlerStep(s)
  <2>1. CASE InputVerdict(id, b) # "ok"
    BY <1>1, <1>2, <1>4, <2>1, ReadsIsHandler DEF PutGadget
  <2>2. CASE InputVerdict(id, b) = "ok"
    <3>1. Called(s, "put-gadget") /\ Ends(s, "put-gadget") /\ SoundAndKeeping
      BY <1>4, <2>2, MethodsAreSound DEF PutGadget
    <3> QED
      BY <3>1, <1>1, EndsIsHandler DEF SoundAndKeeping
  <2> QED
    BY <2>1, <2>2
<1>5. ASSUME NEW id \in Names, NEW newId \in Names, RenameTool(s, id, newId)
      PROVE  HandlerStep(s)
  <2>1. SoundAndKeeping /\ Called(s, "rename-gadget")
    BY <1>5, MethodsAreSound DEF RenameTool
  <2>2. CASE Ends(s, "rename-gadget")
    BY <2>1, <2>2, <1>1, EndsIsHandler DEF SoundAndKeeping
  <2>3. CASE ~Ends(s, "rename-gadget")
    <3>1. HandledWith(s, "rename-gadget", "internalError", store' # store) /\ UNCHANGED runners
      BY <1>5, <2>3 DEF RenameTool
    <3>2. Handler(s, "rename-gadget", "internalError", store' # store)
      BY <2>1, <3>1, <1>1 DEF Handler, Called, CallsOK, SoundAndKeeping, Sound, Warranted
    <3> QED
      BY <3>2, <1>1 DEF HandlerStep, Codes
  <2> QED
    BY <2>2, <2>3
<1>6. ASSUME NEW id \in Names, NEW v \in 1..VersionBound, RollbackGadget(s, id, v)
      PROVE  HandlerStep(s)
  <2>1. /\ Called(s, "rollback-gadget") /\ Ends(s, "rollback-gadget") /\ SoundAndKeeping
    BY <1>6, MethodsAreSound DEF RollbackGadget
  <2> QED
    BY <2>1, <1>1, EndsIsHandler DEF SoundAndKeeping
<1>7. ASSUME NEW id \in Names, DeleteTool(s, id) PROVE HandlerStep(s)
  <2>1. Called(s, "delete-gadget") /\ Ends(s, "delete-gadget") /\ Sound
    BY <1>7, MethodsAreSound DEF DeleteTool
  <2> QED
    BY <2>1, <1>1, EndsIsHandler
<1>8. CASE ImportGadgets(s)
  BY <1>8 DEF ImportGadgets, Called, Begins, WaitingTools
<1>9. CASE ImportWrites(s)
  <2>1. SoundAndKeeping
    <3>1. PICK id \in ValidNames, b \in Bodies, p \in {"skip", "overwrite", "error"} :
            ImportOne(id, b, p)
      BY <1>9 DEF ImportWrites
    <3>2. id \in Names
      BY NamesAssumption
    <3> QED
      BY <3>1, <3>2, MethodsAreSound, AnswerIsSound DEF ImportOne, Outcomes
  <2>2. PICK code \in {"ok", "internalError"} :
          HandledWith(s, "import-gadgets", code, store' # store)
    BY <1>9 DEF ImportWrites
  <2>3. calls[s] = Waiting("import-gadgets") /\ IsToolAllowed(s, "import-gadgets")
    BY <1>9 DEF ImportWrites, CallsOK, Waiting
  <2>4. Handler(s, "import-gadgets", code, store' # store)
    BY <1>1, <1>9, <2>1, <2>2, <2>3
    DEF Handler, ImportWrites, CallsOK, SoundAndKeeping, Sound, Warranted
  <2> QED
    BY <1>1, <2>4 DEF HandlerStep, Codes
<1> QED
  BY <1>3, <1>4, <1>5, <1>6, <1>7, <1>8, <1>9 DEF WriteTool

\* The tools that write runners or wait for somebody.
LEMMA RunnerToolKinds ==
  ASSUME IInv, CallsOK, NEW s \in Sessions, RunnerTool(s) \/ AskClient(s) \/ WaitEnds(s)
  PROVE  HandlerStep(s) \/ Begins(s)
<1>1. {"upsert-runner", "delete-runner"} \subseteq MutationTools \cap Tools
  BY DEF MutationTools, Tools, AdminTools
<1>2. UNCHANGED vars => IInv' /\ LiveRowIds' = LiveRowIds /\ UNCHANGED store
  BY UnwrittenIInv DEF vars, store, IInv, TypeOK, LiveRowIds, LiveIds, Live
<1>3. ASSUME NEW r \in RunnerIds, NEW enabled \in BOOLEAN, UpsertRunner(s, r, enabled)
      PROVE  HandlerStep(s)
  <2>1. runners' \in RunnerStates
    BY <1>3 DEF UpsertRunner, CallsOK, RunnerStates
  <2>2. Handler(s, "upsert-runner", "ok", TRUE)
    BY <1>1, <1>2, <1>3, <2>1 DEF Handler, UpsertRunner, Called, Warranted
  <2> QED
    BY <1>1, <2>2 DEF HandlerStep, Codes
<1>4. ASSUME NEW r \in RunnerIds, DeleteRunner(s, r) PROVE HandlerStep(s)
  <2>1. runners' \in RunnerStates /\ (runners[r] = "absent" => runners' = runners)
    BY <1>4 DEF DeleteRunner, CallsOK, RunnerStates
  <2>2. Handler(s, "delete-runner", "ok", runners[r] # "absent")
    BY <1>1, <1>2, <1>4, <2>1 DEF Handler, DeleteRunner, Called, Warranted
  <2> QED
    BY <1>1, <2>2 DEF HandlerStep, Codes
<1>5. ASSUME NEW r \in RunnerIds, RunReviewer(s, r) PROVE HandlerStep(s) \/ Begins(s)
  <2>1. CASE Reads(s, "run-reviewer", "runnerMissing")
    BY <2>1, ReadsIsHandler DEF Tools, WriterTools, Codes
  <2>2. CASE ~Reads(s, "run-reviewer", "runnerMissing")
    BY <1>5, <2>2 DEF RunReviewer, Called, Begins, WaitingTools
  <2> QED
    BY <2>1, <2>2
<1>6. CASE AskClient(s)
  BY <1>6 DEF AskClient, Called, Begins, WaitingTools
<1>7. CASE WaitEnds(s)
  <2>1. PICK tool \in WaitingTools : calls[s] = Waiting(tool)
    BY <1>7 DEF WaitEnds, CallsOK, CallStates, NoCall
  <2>2. calls[s].tool = tool /\ IsToolAllowed(s, tool) /\ tool \in Tools
    BY <1>7, <2>1 DEF WaitEnds, CallsOK, Waiting, WaitingTools, Tools, ReaderTools, WriterTools
  <2>3. EndingsOf(tool) \subseteq Codes
    BY <2>1 DEF EndingsOf, WaitingTools, Codes
  <2>4. PICK code \in Codes : HandledWith(s, tool, code, FALSE)
    BY <1>7, <2>2, <2>3 DEF WaitEnds
  <2>5. Handler(s, tool, code, FALSE)
    BY <1>2, <1>7, <2>1, <2>2, <2>4 DEF Handler, WaitEnds, CallsOK
  <2> QED
    BY <2>2, <2>5 DEF HandlerStep
<1> QED
  BY <1>3, <1>4, <1>5, <1>6, <1>7 DEF RunnerTool

----------------------------------------------------------------------------
(* Tool calls: the invariant.                                              *)

BagsOK ==
  /\ IsMultiset(audit) /\ IsMultiset(found) /\ IsMultiset(lost) /\ IsMultiset(changes) /\ IsMultiset(counter)
  /\ DOMAIN audit \cup DOMAIN found \cup DOMAIN lost \cup DOMAIN changes \subseteq LogRows
  /\ DOMAIN counter \subseteq Tools \X Codes

\* A call that owes the log a row for a change had a right to make it.
OwingIsWarranted ==
  \A s \in Sessions :
    calls[s].pc = "handled" /\ calls[s].changed => Warranted(calls[s].tool, calls[s].code)

\* Row by row, the changes are accounted for.
Accounted(row) ==
  Copies(row, changes) <=
    Copies(row, audit) - Copies(row, found) + Copies(row, lost) + Cardinality(InFlight(row))

\* Label by label, the counter agrees with the log.
Agrees(label) ==
  Copies(label, counter) = CopiesOf(audit, label) - CopiesOf(found, label) + CopiesOf(lost, label)

ToolsInv ==
  /\ IInv
  /\ CallsOK
  /\ BagsOK
  /\ OwingIsWarranted
  /\ \A row \in LogRows : Accounted(row)
  /\ untold \subseteq {"rename-gadget", "import-gadgets"}
  /\ \A label \in Tools \X Codes : Agrees(label)

\* What a call is doing, field by field.
LEMMA CallFacts ==
  ASSUME CallsOK, NEW s \in Sessions
  PROVE  /\ calls[s] = NoCall => calls[s].pc = "idle"
         /\ \A tool : calls[s] = Waiting(tool) => calls[s].pc = "waiting"
         /\ calls[s].pc = "handled" =>
              /\ calls[s].tool \in Tools /\ calls[s].code \in Codes
              /\ calls[s].changed \in BOOLEAN
              /\ LogRow(s) \in LogRows
<1>1. calls[s].pc = "handled" =>
        calls[s].tool \in Tools /\ calls[s].code \in Codes /\ calls[s].changed \in BOOLEAN
  BY DEF CallsOK, CallStates, NoCall, Waiting
<1>2. RoleOf[s] \in Roles
  BY SessionsAssumption
<1> QED
  BY <1>1, <1>2 DEF NoCall, Waiting, LogRow, RowFor, Actor, LogRows

LEMMA InFlightIsFinite ==
  \A row : IsFiniteSet(InFlight(row)) /\ Cardinality(InFlight(row)) \in Nat
<1> TAKE row
<1>1. InFlight(row) \subseteq Sessions
  BY DEF InFlight
<1> QED
  BY <1>1, SessionsAssumption, FS_Subset, FS_CardinalityType

\* The handler's change is owed to the log from its commit on.
LEMMA HandlerKeepsToolsInv ==
  ASSUME ToolsInv, NEW s \in Sessions, HandlerStep(s)
  PROVE  ToolsInv'
<1>1. PICK tool \in Tools, code \in Codes, changed \in BOOLEAN :
        Handler(s, tool, code, changed)
  BY DEF HandlerStep
<1> DEFINE mine == RowFor(s, tool, code)
<1>2. mine \in LogRows
  BY SessionsAssumption DEF RowFor, Actor, LogRows
<1>3. /\ calls' = [calls EXCEPT ![s] = Handled(tool, code, changed)]
      /\ changes' = IF changed THEN OneMore(changes, mine) ELSE changes
      /\ UNCHANGED <<audit, counter, found, lost, untold>>
  BY <1>1 DEF Handler, HandledWith, Note
<1>4. calls[s].pc # "handled" /\ calls \in [Sessions -> CallStates]
  BY <1>1, CallFacts DEF Handler, ToolsInv, CallsOK
<1>5. /\ calls'[s] = Handled(tool, code, changed)
      /\ \A t \in Sessions \ {s} : calls'[t] = calls[t]
  BY <1>3, <1>4
<1>6. /\ calls'[s].pc = "handled" /\ calls'[s].tool = tool
      /\ calls'[s].code = code /\ calls'[s].changed = changed
  BY <1>5 DEF Handled
<1>7. CallsOK'
  <2>1. Handled(tool, code, changed) \in CallStates
    BY DEF Handled, CallStates
  <2>2. calls' \in [Sessions -> CallStates]
    BY <1>3, <1>4, <2>1
  <2>3. runners' \in RunnerStates
    BY <1>1 DEF Handler
  <2> QED
    BY <1>5, <1>6, <2>2, <2>3 DEF ToolsInv, CallsOK, IsToolAllowed
<1>8. /\ IsMultiset(changes') /\ DOMAIN changes' \subseteq LogRows
      /\ \A row : Copies(row, changes') =
                    IF changed /\ row = mine THEN Copies(row, changes) + 1
                    ELSE Copies(row, changes)
  <2>1. IsMultiset(changes) /\ DOMAIN changes \subseteq LogRows
    BY DEF ToolsInv, BagsOK
  <2>2. CASE changed
    <3>1. /\ IsMultiset(OneMore(changes, mine))
          /\ DOMAIN OneMore(changes, mine) = DOMAIN changes \cup {mine}
          /\ \A e : Copies(e, OneMore(changes, mine)) =
                      IF e = mine THEN Copies(e, changes) + 1 ELSE Copies(e, changes)
      BY <2>1, OneMoreIs
    <3> HIDE DEF mine
    <3> QED
      BY <1>2, <1>3, <2>1, <2>2, <3>1
  <2>3. CASE ~changed
    BY <1>3, <2>1, <2>3
  <2> QED
    BY <2>2, <2>3
<1>9. BagsOK'
  BY <1>3, <1>8 DEF ToolsInv, BagsOK
<1>10. OwingIsWarranted'
  BY <1>1, <1>5, <1>6 DEF ToolsInv, OwingIsWarranted, Handler
<1>11. ASSUME NEW row \in LogRows PROVE Accounted(row)'
  <2>1. InFlight(row)' = IF changed /\ row = mine THEN InFlight(row) \cup {s} ELSE InFlight(row)
    <3>1. \A t \in Sessions \ {s} : t \in InFlight(row)' <=> t \in InFlight(row)
      BY <1>5 DEF InFlight, LogRow, RowFor, Actor
    <3>2. s \notin InFlight(row)
      BY <1>4 DEF InFlight
    <3>3. s \in InFlight(row)' <=> changed /\ row = mine
      BY <1>6 DEF InFlight, LogRow, RowFor, Actor
    <3>4. InFlight(row)' \subseteq Sessions /\ InFlight(row) \subseteq Sessions
      BY DEF InFlight
    <3> QED
      BY <3>1, <3>2, <3>3, <3>4
  <2>2. s \notin InFlight(row)
    BY <1>4 DEF InFlight
  <2>3. Cardinality(InFlight(row)') =
          IF changed /\ row = mine THEN Cardinality(InFlight(row)) + 1
          ELSE Cardinality(InFlight(row))
    BY <2>1, <2>2, InFlightIsFinite, FS_AddElement
  <2>4. /\ Copies(row, changes) \in Nat /\ Copies(row, audit) \in Nat
        /\ Copies(row, found) \in Nat /\ Copies(row, lost) \in Nat
    BY CopiesAre DEF ToolsInv, BagsOK
  <2>5. Accounted(row)
    BY DEF ToolsInv
  <2> QED
    BY <1>3, <1>8, <2>3, <2>4, <2>5, InFlightIsFinite DEF Accounted
<1>12. ASSUME NEW label \in Tools \X Codes PROVE Agrees(label)'
  BY <1>3 DEF ToolsInv, Agrees, CopiesOf
<1> QED
  BY <1>1, <1>3, <1>7, <1>9, <1>10, <1>11, <1>12 DEF ToolsInv, Handler

\* A call that begins to wait owes nothing yet.
LEMMA BeginsKeepsToolsInv ==
  ASSUME ToolsInv, NEW s \in Sessions, Begins(s)
  PROVE  ToolsInv'
<1>1. PICK tool \in WaitingTools :
        IsToolAllowed(s, tool) /\ calls' = [calls EXCEPT ![s] = Waiting(tool)]
  BY DEF Begins
<1>2. calls[s].pc # "handled" /\ calls \in [Sessions -> CallStates]
  BY CallFacts DEF ToolsInv, CallsOK, Begins
<1>3. /\ calls'[s].pc = "waiting" /\ calls'[s].tool = tool
      /\ \A t \in Sessions \ {s} : calls'[t] = calls[t]
  BY <1>1, <1>2 DEF Waiting
<1>4. CallsOK'
  <2>1. calls' \in [Sessions -> CallStates]
    BY <1>1, <1>2 DEF CallStates
  <2> QED
    BY <1>1, <1>3, <2>1 DEF ToolsInv, CallsOK, Begins, IsToolAllowed
<1>5. UNCHANGED <<audit, counter, found, lost, changes, untold>> /\ UNCHANGED vars
  BY DEF Begins, log
<1>6. IInv'
  BY <1>5, UnwrittenIInv DEF ToolsInv, vars, store, IInv, TypeOK
<1>7. OwingIsWarranted'
  BY <1>3 DEF ToolsInv, OwingIsWarranted
<1>8. \A row : InFlight(row)' = InFlight(row)
  <2> TAKE row
  <2>1. \A t \in Sessions : t \in InFlight(row)' <=> t \in InFlight(row)
    BY <1>2, <1>3 DEF InFlight, LogRow, RowFor, Actor
  <2> QED
    BY <2>1 DEF InFlight
<1>9. \A row \in LogRows : Accounted(row)'
  BY <1>5, <1>8 DEF ToolsInv, Accounted
<1>10. \A label \in Tools \X Codes : Agrees(label)'
  BY <1>5 DEF ToolsInv, Agrees, CopiesOf
<1> QED
  BY <1>4, <1>5, <1>6, <1>7, <1>9, <1>10 DEF ToolsInv, BagsOK

\* A row more in a bag counts for one label: the actor's role is one of three.
LEMMA OneMoreOfLabel ==
  ASSUME NEW bag, IsMultiset(bag), NEW r \in LogRows, NEW label
  PROVE  /\ CopiesOf(bag, label) \in Nat
         /\ CopiesOf(OneMore(bag, r), label) =
              IF label[1] = r.tool /\ label[2] = r.code
              THEN CopiesOf(bag, label) + 1 ELSE CopiesOf(bag, label)
<1> DEFINE By(role) == [actor |-> role, tool |-> label[1], code |-> label[2]]
<1>1. /\ Copies(By("reader"), bag) \in Nat /\ Copies(By("writer"), bag) \in Nat
      /\ Copies(By("admin"), bag) \in Nat
  BY CopiesAre
<1>2. \A e : Copies(e, OneMore(bag, r)) =
               IF e = r THEN Copies(e, bag) + 1 ELSE Copies(e, bag)
  BY OneMoreIs
<1>3. \A role : By(role) = r <=>
                  role = r.actor /\ label[1] = r.tool /\ label[2] = r.code
  BY DEF LogRows
<1>4. r.actor \in {"reader", "writer", "admin"}
  BY DEF LogRows, Roles
<1>5. \A role : Copies(By(role), OneMore(bag, r)) =
                  IF role = r.actor /\ label[1] = r.tool /\ label[2] = r.code
                  THEN Copies(By(role), bag) + 1 ELSE Copies(By(role), bag)
  BY <1>2, <1>3
<1>6. \A b : CopiesOf(b, label) =
               Copies(By("reader"), b) + Copies(By("writer"), b) + Copies(By("admin"), b)
  BY DEF CopiesOf
<1> HIDE DEF By
<1> QED
  BY <1>1, <1>4, <1>5, <1>6

\* The finally block pays: one row in the log or among the lost ones, and one
\* on the counter.
LEMMA FinishKeepsToolsInv ==
  ASSUME ToolsInv, NEW s \in Sessions, Finish(s)
  PROVE  ToolsInv'
<1> DEFINE mine == LogRow(s)
           tag  == <<calls[s].tool, calls[s].code>>
<1>1. /\ calls[s].pc = "handled" /\ calls[s].tool \in Tools /\ calls[s].code \in Codes
      /\ calls[s].changed \in BOOLEAN /\ mine \in LogRows
      /\ calls \in [Sessions -> CallStates]
  BY CallFacts DEF ToolsInv, CallsOK, Finish
<1>2. /\ mine.tool = calls[s].tool /\ mine.code = calls[s].code
      /\ tag \in Tools \X Codes
  BY <1>1 DEF LogRow, RowFor
<1>3. /\ calls' = [calls EXCEPT ![s] = NoCall]
      /\ counter' = OneMore(counter, tag)
      /\ \/ audit' = OneMore(audit, mine) /\ lost' = lost
         \/ lost' = OneMore(lost, mine) /\ audit' = audit
      /\ found' = found /\ changes' = changes /\ runners' = runners
      /\ UNCHANGED store /\ outcome' = "ok"
  BY DEF Finish, RecordToolCall, RecordAudit, Answer
<1>4. calls'[s].pc = "idle" /\ \A t \in Sessions \ {s} : calls'[t] = calls[t]
  BY <1>1, <1>3 DEF NoCall
<1>5. /\ IsMultiset(audit) /\ IsMultiset(found) /\ IsMultiset(lost) /\ IsMultiset(changes) /\ IsMultiset(counter)
      /\ DOMAIN audit \cup DOMAIN found \cup DOMAIN lost \cup DOMAIN changes \subseteq LogRows
      /\ DOMAIN counter \subseteq Tools \X Codes
  BY DEF ToolsInv, BagsOK
<1>6. /\ IsMultiset(counter') /\ DOMAIN counter' = DOMAIN counter \cup {tag}
      /\ \A e : Copies(e, counter') =
                  IF e = tag THEN Copies(e, counter) + 1 ELSE Copies(e, counter)
  BY <1>3, <1>5, OneMoreIs
<1>7. \A bag \in {audit, lost} :
        /\ IsMultiset(OneMore(bag, mine)) /\ DOMAIN OneMore(bag, mine) = DOMAIN bag \cup {mine}
        /\ \A e : Copies(e, OneMore(bag, mine)) =
                    IF e = mine THEN Copies(e, bag) + 1 ELSE Copies(e, bag)
  BY <1>5, OneMoreIs
<1>8. IInv' /\ CallsOK'
  <2>1. IInv'
    BY <1>3, UnwrittenIInv DEF ToolsInv, Outcomes
  <2>2. calls' \in [Sessions -> CallStates]
    BY <1>1, <1>3 DEF CallStates
  <2> QED
    BY <1>3, <1>4, <2>1, <2>2 DEF ToolsInv, CallsOK, IsToolAllowed
<1>9. BagsOK'
  <2>1. /\ IsMultiset(audit') /\ IsMultiset(lost')
        /\ DOMAIN audit' \subseteq LogRows /\ DOMAIN lost' \subseteq LogRows
    <3>1. CASE audit' = OneMore(audit, mine) /\ lost' = lost
      BY <3>1, <1>1, <1>5, <1>7
    <3>2. CASE lost' = OneMore(lost, mine) /\ audit' = audit
      BY <3>2, <1>1, <1>5, <1>7
    <3> QED
      BY <1>3, <3>1, <3>2
  <2>2. DOMAIN counter' \subseteq Tools \X Codes
    BY <1>2, <1>5, <1>6
  <2> QED
    BY <1>3, <1>5, <1>6, <2>1, <2>2 DEF BagsOK
<1>10. OwingIsWarranted'
  BY <1>4 DEF ToolsInv, OwingIsWarranted
<1>11. ASSUME NEW row \in LogRows PROVE Accounted(row)'
  <2>1. /\ InFlight(row)' = InFlight(row) \ {s}
        /\ s \in InFlight(row) => row = mine
    <3>1. \A t \in Sessions \ {s} : t \in InFlight(row)' <=> t \in InFlight(row)
      BY <1>4 DEF InFlight, LogRow, RowFor, Actor
    <3>2. s \notin InFlight(row)'
      BY <1>4 DEF InFlight
    <3>3. InFlight(row)' \subseteq Sessions /\ InFlight(row) \subseteq Sessions
      BY DEF InFlight
    <3>4. s \in InFlight(row) => row = mine
      BY DEF InFlight
    <3> QED
      BY <3>1, <3>2, <3>3, <3>4
  <2>2. Cardinality(InFlight(row)') =
          IF s \in InFlight(row) THEN Cardinality(InFlight(row)) - 1
          ELSE Cardinality(InFlight(row))
    BY <2>1, InFlightIsFinite, FS_RemoveElement
  <2>3. /\ Copies(row, changes) \in Nat /\ Copies(row, audit) \in Nat
        /\ Copies(row, found) \in Nat /\ Copies(row, lost) \in Nat
        /\ Cardinality(InFlight(row)) \in Nat
    BY <1>5, CopiesAre, InFlightIsFinite
  <2>4. Copies(row, audit') + Copies(row, lost') =
          IF row = mine THEN Copies(row, audit) + Copies(row, lost) + 1
          ELSE Copies(row, audit) + Copies(row, lost)
    <3> HIDE DEF mine
    <3>1. CASE audit' = OneMore(audit, mine) /\ lost' = lost
      BY <3>1, <1>7, <2>3
    <3>2. CASE lost' = OneMore(lost, mine) /\ audit' = audit
      BY <3>2, <1>7, <2>3
    <3> QED
      BY <1>3, <3>1, <3>2
  <2>5. Copies(row, audit') \in Nat /\ Copies(row, lost') \in Nat
    BY <1>9, CopiesAre DEF BagsOK
  <2>6. Accounted(row)
    BY DEF ToolsInv
  <2> QED
    BY <1>3, <2>1, <2>2, <2>3, <2>4, <2>5, <2>6 DEF Accounted
<1>12. ASSUME NEW label \in Tools \X Codes PROVE Agrees(label)'
  <2>1. \A bag \in {audit, lost} :
          /\ CopiesOf(bag, label) \in Nat
          /\ CopiesOf(OneMore(bag, mine), label) =
               IF label = tag THEN CopiesOf(bag, label) + 1 ELSE CopiesOf(bag, label)
    <3>1. label = tag <=> label[1] = mine.tool /\ label[2] = mine.code
      BY <1>2
    <3> HIDE DEF mine, tag
    <3>2. mine \in LogRows
      BY <1>1
    <3> QED
      BY <1>5, <3>1, <3>2, OneMoreOfLabel
  <2>2. Copies(label, counter) \in Nat /\ CopiesOf(found, label) \in Nat
    BY <1>1, <1>5, CopiesAre, OneMoreOfLabel
  <2>3. CopiesOf(audit', label) + CopiesOf(lost', label) =
          IF label = tag THEN CopiesOf(audit, label) + CopiesOf(lost, label) + 1
          ELSE CopiesOf(audit, label) + CopiesOf(lost, label)
    <3> HIDE DEF mine, tag
    <3>1. CASE audit' = OneMore(audit, mine) /\ lost' = lost
      BY <3>1, <2>1
    <3>2. CASE lost' = OneMore(lost, mine) /\ audit' = audit
      BY <3>2, <2>1
    <3> QED
      BY <1>3, <3>1, <3>2
  <2>4. CopiesOf(audit', label) \in Nat /\ CopiesOf(lost', label) \in Nat
    BY <1>1, <1>9, OneMoreOfLabel DEF BagsOK
  <2>5. Agrees(label)
    BY DEF ToolsInv
  <2>6. CopiesOf(audit, label) \in Nat /\ CopiesOf(lost, label) \in Nat
    BY <2>1
  <2>7. found' = found
    BY <1>3
  <2>8. Copies(label, counter') =
          IF label = tag THEN Copies(label, counter) + 1 ELSE Copies(label, counter)
    BY <1>6
  <2>9. CopiesOf(found', label) = CopiesOf(found, label)
    BY <2>7
  <2>10. Copies(label, counter') =
           CopiesOf(audit', label) - CopiesOf(found', label) + CopiesOf(lost', label)
    <3> HIDE DEF tag
    <3> QED
      BY <2>2, <2>3, <2>4, <2>5, <2>6, <2>8, <2>9 DEF Agrees
  <2> QED
    BY <2>10 DEF Agrees, CopiesOf
<1>13. untold' \subseteq {"rename-gadget", "import-gadgets"}
  <2>1. calls[s].changed => Warranted(calls[s].tool, calls[s].code)
    BY <1>1 DEF ToolsInv, OwingIsWarranted
  <2> QED
    BY <2>1 DEF ToolsInv, Finish, SendResourceListChanged, Warranted
<1> QED
  BY <1>8, <1>9, <1>10, <1>11, <1>12, <1>13 DEF ToolsInv

\* A new process owes nothing and has counted nothing; it finds what pruning
\* left of the log.
LEMMA RestartKeepsToolsInv ==
  ASSUME ToolsInv, Restart
  PROVE  ToolsInv'
<1>1. PICK kept \in Prunable : audit' = kept /\ found' = kept
  BY DEF Restart
<1>2. IsMultiset(kept) /\ DOMAIN kept \subseteq LogRows
  <2>1. PICK rows \in SUBSET DOMAIN audit : kept \in [rows -> 1..CallBound]
    BY DEF Prunable
  <2>2. DOMAIN audit \subseteq LogRows
    BY DEF ToolsInv, BagsOK
  <2>3. DOMAIN kept = rows /\ kept \in [rows -> Nat \ {0}]
    BY <2>1, SessionsAssumption
  <2> QED
    BY <2>2, <2>3 DEF IsMultiset
<1>3. /\ counter' = NoRows /\ lost' = NoRows /\ changes' = NoRows /\ untold' = {}
      /\ calls' = [s \in Sessions |-> NoCall] /\ runners' = runners
      /\ UNCHANGED store /\ outcome' = "ok"
  BY DEF Restart, Answer
<1>4. \A s \in Sessions : calls'[s] = NoCall /\ calls'[s].pc = "idle"
  BY <1>3 DEF NoCall
<1>5. IInv'
  BY <1>3, UnwrittenIInv DEF ToolsInv, Outcomes
<1>6. CallsOK'
  BY <1>3, <1>4 DEF ToolsInv, CallsOK, CallStates
<1>7. BagsOK'
  <2>1. IsMultiset(audit') /\ IsMultiset(found') /\ DOMAIN audit' \cup DOMAIN found' \subseteq LogRows
    BY <1>1, <1>2
  <2> QED
    BY <1>3, <2>1, NothingInIt DEF BagsOK
<1>8. OwingIsWarranted'
  BY <1>4 DEF OwingIsWarranted
<1>9. ASSUME NEW row \in LogRows PROVE Accounted(row)'
  <2>1. InFlight(row)' = {}
    BY <1>4 DEF InFlight
  <2>2. Cardinality(InFlight(row)') = 0
    BY <2>1, FS_EmptySet
  <2>3. Copies(row, changes') = 0 /\ Copies(row, lost') = 0
    BY <1>3, NothingInIt
  <2>4. Copies(row, audit') = Copies(row, found') /\ Copies(row, found') \in Nat
    BY <1>1, <1>2, CopiesAre
  <2> QED
    BY <2>2, <2>3, <2>4 DEF Accounted
<1>10. ASSUME NEW label \in Tools \X Codes PROVE Agrees(label)'
  <2>1. Copies(label, counter') = 0 /\ CopiesOf(lost', label) = 0
    BY <1>3, NothingInIt DEF CopiesOf
  <2>2. CopiesOf(audit', label) = CopiesOf(found', label) /\ CopiesOf(found', label) \in Nat
    BY <1>1, <1>2, CopiesAre DEF CopiesOf
  <2> QED
    BY <2>1, <2>2 DEF Agrees, CopiesOf
<1> QED
  BY <1>3, <1>5, <1>6, <1>7, <1>8, <1>9, <1>10 DEF ToolsInv

\* Nothing is owed when a process starts on a database.
LEMMA InitToolsInv == ToolsInit => ToolsInv
<1> SUFFICES ASSUME ToolsInit PROVE ToolsInv
  OBVIOUS
<1>1. /\ audit = NoRows /\ counter = NoRows /\ found = NoRows /\ lost = NoRows
      /\ changes = NoRows /\ untold = {} /\ calls = [s \in Sessions |-> NoCall]
      /\ runners = [r \in RunnerIds |-> "enabled"] /\ IInv
  BY DEF ToolsInit
<1>2. \A s \in Sessions : calls[s] = NoCall /\ calls[s].pc = "idle"
  BY <1>1 DEF NoCall
<1>3. CallsOK
  BY <1>1, <1>2 DEF CallsOK, CallStates, RunnerStates
<1>4. BagsOK
  BY <1>1, NothingInIt DEF BagsOK
<1>5. ASSUME NEW row \in LogRows PROVE Accounted(row)
  <2>1. InFlight(row) = {}
    BY <1>2 DEF InFlight
  <2>2. Cardinality(InFlight(row)) = 0
    BY <2>1, FS_EmptySet
  <2> QED
    BY <1>1, <2>2, NothingInIt DEF Accounted
<1>6. ASSUME NEW label \in Tools \X Codes PROVE Agrees(label)
  BY <1>1, NothingInIt DEF Agrees, CopiesOf
<1> QED
  BY <1>1, <1>2, <1>3, <1>4, <1>5, <1>6 DEF ToolsInv, OwingIsWarranted

LEMMA UnchangedToolsInv ==
  ASSUME ToolsInv, UNCHANGED toolVars
  PROVE  ToolsInv'
<1>1. UNCHANGED <<gadgets, aliases, revisions, fts, outcome, runners, calls, audit, counter,
                  found, lost, changes, untold>>
  BY DEF toolVars, vars, log
<1>2. IInv'
  BY <1>1, UnwrittenIInv DEF ToolsInv, store, IInv, TypeOK
<1>3. CallsOK' /\ BagsOK' /\ OwingIsWarranted'
  BY <1>1 DEF ToolsInv, CallsOK, BagsOK, OwingIsWarranted, IsToolAllowed
<1>4. \A row \in LogRows : Accounted(row)'
  BY <1>1 DEF ToolsInv, Accounted, InFlight, LogRow, RowFor, Actor
<1>5. \A label \in Tools \X Codes : Agrees(label)'
  BY <1>1 DEF ToolsInv, Agrees, CopiesOf
<1> QED
  BY <1>1, <1>2, <1>3, <1>4, <1>5 DEF ToolsInv

\* The kinds of steps there are.
LEMMA ToolsStepKinds ==
  ASSUME ToolsInv, [ToolsNext]_toolVars
  PROVE  \/ \E s \in Sessions : HandlerStep(s) \/ Begins(s) \/ Finish(s)
         \/ Restart
         \/ UNCHANGED toolVars
<1>1. IInv /\ CallsOK
  BY DEF ToolsInv
<1>2. ASSUME NEW s \in Sessions,
             \/ ReadTool(s) \/ WriteTool(s) \/ RunnerTool(s) \/ AskClient(s)
             \/ WaitEnds(s) \/ HandlerFails(s)
      PROVE  HandlerStep(s) \/ Begins(s)
  BY <1>1, <1>2, ReadToolIsHandler, WriteToolKinds, RunnerToolKinds
<1> QED
  BY <1>2 DEF ToolsNext

LEMMA NextToolsInv == ToolsInv /\ [ToolsNext]_toolVars => ToolsInv'
BY ToolsStepKinds, HandlerKeepsToolsInv, BeginsKeepsToolsInv, FinishKeepsToolsInv,
   RestartKeepsToolsInv, UnchangedToolsInv

----------------------------------------------------------------------------
(* Tool calls: the theorems.                                               *)

\* The invariant behind the others: the tables stay sound under whatever the
\* tools do, and every change is warranted and accounted for.
THEOREM ToolsInvariant == ToolsSpec => []ToolsInv
<1> QED
  BY InitToolsInv, NextToolsInv, PTL DEF ToolsSpec

\* Tables, counters and calls keep their types, whatever the tools do.
THEOREM ToolsTypesHold == ToolsSpec => []ToolsTypeOK
<1>1. ToolsInv => ToolsTypeOK
  <2> SUFFICES ASSUME ToolsInv PROVE ToolsTypeOK
    OBVIOUS
  <2>1. ASSUME NEW s \in Sessions
        PROVE  \/ calls[s] = NoCall
               \/ calls[s].pc = "waiting" /\ IsToolAllowed(s, calls[s].tool)
               \/ calls[s] \in [pc : {"handled"}, tool : Tools, code : Codes, changed : BOOLEAN]
    BY DEF ToolsInv, CallsOK, CallStates, Waiting
  <2> QED
    BY <2>1 DEF ToolsTypeOK, ToolsInv, CallsOK, RunnerStates, BagsOK
<1> QED
  BY <1>1, ToolsInvariant, PTL

\* Every change that tools made of library or runners can be told from the
\* log, but for failed inserts and calls on their way (wrapHandler's finally).
THEOREM ChangesAlwaysLeaveTraces == ToolsSpec => []ChangesLeaveTraces
<1>1. ToolsInv => ChangesLeaveTraces
  BY DEF ToolsInv, BagsOK, Accounted, ChangesLeaveTraces
<1> QED
  BY <1>1, ToolsInvariant, PTL

\* What gadget_tool_calls_total counts is what the log gained or lost.
THEOREM CountersAlwaysMatchLog == ToolsSpec => []CountersMatchLog
<1>1. ToolsInv => CountersMatchLog
  <2> SUFFICES ASSUME ToolsInv PROVE CountersMatchLog
    OBVIOUS
  <2>1. /\ DOMAIN counter \subseteq Tools \X Codes
        /\ DOMAIN audit \cup DOMAIN found \cup DOMAIN lost \subseteq LogRows
    BY DEF ToolsInv, BagsOK
  <2>2. \A r \in LogRows : <<r.tool, r.code>> \in Tools \X Codes
    BY DEF LogRows
  <2>3. Labels \subseteq Tools \X Codes
    BY <2>1, <2>2 DEF Labels
  <2> QED
    BY <2>3 DEF ToolsInv, Agrees, CountersMatchLog
<1> QED
  BY <1>1, ToolsInvariant, PTL

\* A tool that changes something is no reader's, and those that make gadgets
\* or runners disappear are an admin's.
LEMMA RolesOfTools ==
  ASSUME NEW s \in Sessions, NEW tool, IsToolAllowed(s, tool)
  PROVE  /\ tool \in MutationTools => RoleOf[s] # "reader"
         /\ tool \in AdminTools => RoleOf[s] = "admin"
<1>1. RoleOf[s] \in {"reader", "writer", "admin"}
  BY SessionsAssumption DEF Roles
<1>2. tool \in AdminTools => RoleLevel[RoleOf[s]] >= 2
  BY DEF IsToolAllowed, RoleAllows, RequiredRole, RoleLevel
<1>3. tool \in MutationTools => RoleLevel[RoleOf[s]] >= 1
  <2>1. tool \in MutationTools => tool \notin ReaderTools
    BY DEF MutationTools, ReaderTools
  <2>2. tool \in MutationTools => RequiredRole(tool) \in {"admin", "writer"}
    BY <2>1 DEF RequiredRole
  <2> QED
    BY <1>1, <2>2 DEF IsToolAllowed, RoleAllows, RoleLevel
<1> QED
  BY <1>1, <1>2, <1>3 DEF RoleLevel

\* What a call does to library and runners is bounded by its session's role
\* (RequiredRole) and by what it answers.
THEOREM EffectsAreAlwaysWarranted == ToolsSpec => EffectsAreWarranted
<1> DEFINE Bounded ==
      /\ store' # store \/ runners' # runners =>
           \E s \in Sessions :
             HandlerOf(s) /\ RoleOf[s] # "reader" /\ calls'[s].code \in {"ok", "internalError"}
      /\ ~(LiveRowIds \subseteq LiveRowIds') =>
           \E s \in Sessions : HandlerOf(s) /\ RoleOf[s] = "admin"
      /\ runners' # runners => \E s \in Sessions : HandlerOf(s) /\ RoleOf[s] = "admin"
<1>1. ASSUME ToolsInv, NEW s \in Sessions, HandlerStep(s) PROVE Bounded
  <2>1. PICK tool \in Tools, code \in Codes, changed \in BOOLEAN :
          Handler(s, tool, code, changed)
    BY <1>1 DEF HandlerStep
  <2>2. calls'[s] = Handled(tool, code, changed) /\ calls[s].pc # "handled"
    BY <1>1, <2>1, CallFacts DEF Handler, HandledWith, ToolsInv, CallsOK
  <2>3. HandlerOf(s) /\ calls'[s].code = code
    BY <2>2 DEF HandlerOf, Handled
  <2>4. /\ tool \in MutationTools => RoleOf[s] # "reader"
        /\ tool \in AdminTools => RoleOf[s] = "admin"
    BY <2>1, RolesOfTools DEF Handler
  <2> QED
    BY <2>1, <2>3, <2>4 DEF Handler, Warranted, AdminTools
<1>2. ASSUME UNCHANGED <<store, runners>> PROVE Bounded
  BY <1>2 DEF store, LiveRowIds, LiveIds, Live
<1>3. ASSUME ToolsInv, [ToolsNext]_toolVars PROVE Bounded
  <2>1. CASE \E s \in Sessions : Begins(s)
    BY <2>1, <1>2 DEF Begins, vars, store
  <2>2. CASE \E s \in Sessions : Finish(s)
    BY <2>2, <1>2 DEF Finish, Answer
  <2>3. CASE Restart
    BY <2>3, <1>2 DEF Restart, Answer
  <2>4. CASE UNCHANGED toolVars
    BY <2>4, <1>2 DEF toolVars, vars, store
  <2> QED
    BY <1>1, <1>3, <2>1, <2>2, <2>3, <2>4, ToolsStepKinds
<1>4. ToolsInv /\ [ToolsNext]_toolVars => [Bounded]_toolVars
  BY <1>3
<1> QED
  BY <1>4, ToolsInvariant, PTL DEF ToolsSpec, EffectsAreWarranted

\* Between them the tools do to the library what calls of the store do.
LEMMA ToolsStepIsCall ==
  ASSUME ToolsInv, [ToolsNext]_toolVars
  PROVE  UNCHANGED store \/ Next
<1>1. CASE \E s \in Sessions : HandlerStep(s)
  BY <1>1 DEF HandlerStep, Handler
<1>2. CASE \E s \in Sessions : Begins(s)
  BY <1>2 DEF Begins, vars, store
<1>3. CASE (\E s \in Sessions : Finish(s)) \/ Restart
  BY <1>3 DEF Finish, Restart, Answer
<1>4. CASE UNCHANGED toolVars
  BY <1>4 DEF toolVars, vars, store
<1> QED
  BY <1>1, <1>2, <1>3, <1>4, ToolsStepKinds

\* Whatever sessions and reviewers do at once, a name keeps its gadget until
\* that is deleted, and no snapshot is lost.
THEOREM ToolsKeepNamesAndHistories == ToolsSpec => NamesKeepTheirGadget /\ HistoryGrows
<1>1. ToolsInv /\ [ToolsNext]_toolVars => [NamesKept]_vars /\ [HistoriesKept]_vars
  BY ToolsStepIsCall, CallsKeepGadgets DEF ToolsInv
<1> QED
  BY <1>1, ToolsInvariant, PTL
  DEF ToolsSpec, NamesKeepTheirGadget, HistoryGrows, NamesKept, HistoriesKept

\* Every step of the tools, of several sessions at once and over restarts, is
\* a step of the library or leaves it as it was; the tables that they start
\* from need not be empty ones, which is why this is not Library!Spec.
THEOREM ToolsStepLikeLibrary == ToolsSpec => [][Library!Next]_(Library!vars)
<1>1. ToolsInv /\ ToolsInv' /\ [ToolsNext]_toolVars => [Library!Next]_(Library!vars)
  BY ToolsStepIsCall, StepRefines DEF ToolsInv
<1> QED
  BY <1>1, ToolsInvariant, PTL DEF ToolsSpec

=============================================================================
