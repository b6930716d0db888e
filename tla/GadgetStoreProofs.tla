------------------------- MODULE GadgetStoreProofs -------------------------
(***************************************************************************)
(* Theorems about GadgetStore, for every value of its constants: the       *)
(* invariants of the tables, what a call may not do to a name or to a      *)
(* history, and that the tables implement GadgetLibrary.                   *)
(*                                                                         *)
(* Four writes change the tables: insert, update, delete and rename.  Each *)
(* has a lemma that says it preserves the inductive invariant IInv, and    *)
(* StepKinds says that a step is one of them, under the checks its method  *)
(* made, or leaves the tables alone.                                       *)
(***************************************************************************)
EXTENDS GadgetStore, TLAPS, FiniteSetTheorems, SequenceTheorems

----------------------------------------------------------------------------
(* The steps.                                                              *)

\* What a step that writes found true of the tables before it wrote.
Insertion(id, b) ==
  id \in ValidNames /\ ~Live(id) /\ aliases[id] = NoName /\ InsertGadget(id, b)

Updating(id, b) == Live(id) /\ UpdateGadget(id, b)

Deletion(id) == Live(id) /\ DeleteGadget(id)

Renaming(id, newId) ==
  /\ newId \in ValidNames /\ newId # id
  /\ Live(id) /\ ~Live(newId)
  /\ aliases[newId] \in {NoName, id}
  /\ Cardinality(AliasesOf(id)) < MaxAliases
  /\ RenameGadget(id, newId)

Unwritten == UNCHANGED store /\ outcome' \in Outcomes

\* A verdict names an error, or lets the write go ahead.
LEMMA VerdictsAreOutcomes ==
  ASSUME NEW id, NEW newId, NEW v
  PROVE  /\ PutVerdict(id) \in Outcomes /\ AddVerdict(id) \in Outcomes
         /\ RenameVerdict(id, newId) \in Outcomes
         /\ RollbackVerdict(id, v) \in Outcomes
  BY DEF PutVerdict, AddVerdict, RenameVerdict, RollbackVerdict, Outcomes

\* The aliases of a gadget are finitely many, so counting them is sound.
LEMMA AliasCountIsNat ==
  ASSUME NEW n
  PROVE  IsFiniteSet(AliasesOf(n)) /\ Cardinality(AliasesOf(n)) \in Nat
<1>1. AliasesOf(n) \subseteq Names
  BY DEF AliasesOf
<1> QED
  BY <1>1, NamesAssumption, FS_Subset, FS_CardinalityType

\* Every step of the specification is one of the four writes, under the
\* checks of the method that makes it, or leaves the tables unchanged.
LEMMA StepKinds ==
  ASSUME TypeOK, Next
  PROVE  \/ Unwritten
         \/ \E id \in Names, b \in Bodies : Insertion(id, b) \/ Updating(id, b)
         \/ \E id \in Names : Deletion(id)
         \/ \E id, newId \in Names : Renaming(id, newId)
<1>1. ASSUME NEW id \in Names, NEW b \in Bodies, Put(id, b)
      PROVE  Insertion(id, b) \/ Updating(id, b) \/ Unwritten
  <2>1. CASE PutVerdict(id) = "ok" /\ ~Live(id) /\ InsertGadget(id, b)
    BY <2>1 DEF PutVerdict, Insertion
  <2>2. CASE PutVerdict(id) = "ok" /\ Live(id) /\ UpdateGadget(id, b)
    BY <2>2 DEF Updating
  <2>3. CASE PutVerdict(id) # "ok" /\ Answer(PutVerdict(id))
    BY <2>3, VerdictsAreOutcomes DEF Answer, Unwritten
  <2> QED
    BY <1>1, <2>1, <2>2, <2>3 DEF Put
<1>2. ASSUME NEW id \in Names, NEW b \in Bodies, Add(id, b)
      PROVE  Insertion(id, b) \/ Unwritten
  <2>1. CASE AddVerdict(id) = "ok" /\ InsertGadget(id, b)
    BY <2>1 DEF AddVerdict, PutVerdict, Insertion
  <2>2. CASE AddVerdict(id) # "ok" /\ Answer(AddVerdict(id))
    BY <2>2, VerdictsAreOutcomes DEF Answer, Unwritten
  <2> QED
    BY <1>2, <2>1, <2>2 DEF Add
<1>3. ASSUME NEW id \in Names, Delete(id)
      PROVE  Deletion(id) \/ Unwritten
  BY <1>3 DEF Delete, Deletion, Answer, Unwritten, Outcomes
<1>4. ASSUME NEW id \in Names, NEW newId \in Names, Rename(id, newId)
      PROVE  Renaming(id, newId) \/ Unwritten
  <2>1. CASE RenameVerdict(id, newId) = "ok" /\ RenameGadget(id, newId)
    <3>1. Cardinality(AliasesOf(id)) < MaxAliases
      <4>1. ~(Cardinality(AliasesOf(id)) >= MaxAliases)
        BY <2>1 DEF RenameVerdict
      <4> QED
        BY <4>1, AliasCountIsNat, BoundsAssumption
    <3> QED
      BY <2>1, <3>1 DEF RenameVerdict, Renaming
  <2>2. CASE RenameVerdict(id, newId) # "ok" /\ Answer(RenameVerdict(id, newId))
    BY <2>2, VerdictsAreOutcomes DEF Answer, Unwritten
  <2> QED
    BY <1>4, <2>1, <2>2 DEF Rename
<1>5. ASSUME NEW id \in Names, NEW v \in 1..VersionBound, Rollback(id, v)
      PROVE  \/ \E b \in Bodies : Updating(id, b)
             \/ Unwritten
  <2>1. CASE /\ RollbackVerdict(id, v) = "ok"
             /\ \E r \in RevisionsIn(revisions, id) :
                  r.version = v /\ UpdateGadget(id, r.body)
    <3>1. PICK r \in RevisionsIn(revisions, id) : UpdateGadget(id, r.body)
      BY <2>1
    <3>2. r.body \in Bodies
      BY DEF RevisionsIn, TypeOK, RevisionRow
    <3>3. Live(id)
      BY <2>1 DEF RollbackVerdict
    <3> QED
      BY <3>1, <3>2, <3>3 DEF Updating
  <2>2. CASE RollbackVerdict(id, v) # "ok" /\ Answer(RollbackVerdict(id, v))
    BY <2>2, VerdictsAreOutcomes DEF Answer, Unwritten
  <2> QED
    BY <1>5, <2>1, <2>2 DEF Rollback
<1>6. CASE StorageError
  BY <1>6 DEF StorageError, Answer, Unwritten, Outcomes
<1> QED
  BY <1>1, <1>2, <1>3, <1>4, <1>5, <1>6 DEF Next

----------------------------------------------------------------------------
(* The revisions table.                                                    *)

Unique(table) ==
  \A r, s \in table : r.gadget = s.gadget /\ r.version = s.version => r = s

\* The newest revision of n has body b.
Newest(table, n, b) ==
  \E r \in RevisionsIn(table, n) :
    (\A s \in RevisionsIn(table, n) : s.version <= r.version) /\ r.body = b

\* The row a history 1..k is continued with.
NewRow(n, k, b) == [gadget |-> n, version |-> k + 1, body |-> b]

\* A history numbered 1..k is continued with k + 1.
LEMMA NextVersionContinues ==
  ASSUME NEW table, NEW n, NEW k \in Nat, VersionsIn(table, n) = 1..k
  PROVE  NextVersion(table, n) = k + 1
<1> DEFINE Highest(m) == m \in (1..k) \cup {0} /\ \A v \in 1..k : v <= m
<1>1. Highest(k)
  OBVIOUS
<1>2. \A m : Highest(m) => m = k
  OBVIOUS
<1>3. (CHOOSE m : Highest(m)) = k
  BY <1>1, <1>2
<1>4. (CHOOSE m \in (1..k) \cup {0} : \A v \in 1..k : v <= m) = k
  BY <1>3
<1> QED
  BY <1>4 DEF NextVersion

\* n's revisions in the table are one snapshot for each of 1..k.
History(table, n, k) ==
  table \subseteq RevisionRow /\ Unique(table) /\ VersionsIn(table, n) = 1..k

\* #writeRevision adds the one row numbered k + 1.
LEMMA WithRevisionAdds ==
  ASSUME NEW table, NEW n, NEW b, NEW k \in Nat, History(table, n, k)
  PROVE  WithRevision(table, n, b) = table \cup {NewRow(n, k, b)}
  BY NextVersionContinues DEF WithRevision, NewRow, History

\* ... so the history is one longer, no other gadget's changes, and the new
\* snapshot is the newest.
LEMMA SnapshotTaken ==
  ASSUME NEW table, NEW n \in Names, NEW b \in Bodies, NEW k \in Nat,
         History(table, n, k), NextVersion(table, n) <= VersionBound
  PROVE  LET after == WithRevision(table, n, b)
         IN  /\ after \subseteq RevisionRow
             /\ Unique(after)
             /\ Newest(after, n, b)
             /\ \E j \in 1..VersionBound : VersionsIn(after, n) = 1..j
             /\ \A m : m # n => /\ RevisionsIn(after, m) = RevisionsIn(table, m)
                                /\ VersionsIn(after, m) = VersionsIn(table, m)
<1> DEFINE after == WithRevision(table, n, b)
           row == NewRow(n, k, b)
<1>1. after = table \cup {row}
  BY WithRevisionAdds
<1>2. row \in RevisionRow /\ row.gadget = n /\ row.version = k + 1 /\ row.body = b
  BY DEF NewRow, RevisionRow
<1> HIDE DEF after, row
<1>3. RevisionsIn(after, n) = RevisionsIn(table, n) \cup {row}
  BY <1>1, <1>2 DEF RevisionsIn
<1>4. VersionsIn(after, n) = 1..(k + 1)
  <2>1. VersionsIn(after, n) = VersionsIn(table, n) \cup {k + 1}
    BY <1>2, <1>3 DEF VersionsIn
  <2>2. (1..k) \cup {k + 1} = 1..(k + 1)
    OBVIOUS
  <2> QED
    BY <2>1, <2>2 DEF History
<1>5. k + 1 \in 1..VersionBound
  BY NextVersionContinues, BoundsAssumption DEF History
<1>6. \A m : m # n => /\ RevisionsIn(after, m) = RevisionsIn(table, m)
                      /\ VersionsIn(after, m) = VersionsIn(table, m)
  BY <1>1, <1>2 DEF RevisionsIn, VersionsIn
<1>7. \A r \in RevisionsIn(table, n) : r.version \in 1..k
  BY DEF History, VersionsIn
<1>8. Unique(after)
  <2>1. \A r \in table : r.gadget = n => r.version \in 1..k
    BY <1>7 DEF RevisionsIn
  <2>2. \A r \in table : r.gadget = n => r.version # k + 1
    BY <2>1
  <2> QED
    BY <1>1, <1>2, <2>2 DEF Unique, History
<1>9. Newest(after, n, b)
  <2>1. \A s \in RevisionsIn(after, n) : s.version <= row.version
    BY <1>2, <1>3, <1>7
  <2> QED
    BY <1>2, <1>3, <2>1 DEF Newest
<1>10. after \subseteq RevisionRow
  BY <1>1, <1>2 DEF History
<1> QED
  BY <1>4, <1>5, <1>6, <1>8, <1>9, <1>10 DEF after

\* The cascade of a rename hands the whole history over to the new id.
LEMMA MovedRevisionsFollow ==
  ASSUME TypeOK, SnapshotsUnique, NEW id \in Names, NEW newId \in Names, newId # id,
         RevisionsIn(revisions, newId) = {}
  PROVE  LET moved == MovedRevisions(id, newId)
         IN  /\ moved \subseteq RevisionRow
             /\ RevisionsIn(moved, id) = {}
             /\ VersionsIn(moved, newId) = VersionsIn(revisions, id)
             /\ \A m : m # id /\ m # newId =>
                  RevisionsIn(moved, m) = RevisionsIn(revisions, m)
             /\ Unique(moved)
<1> DEFINE moved == MovedRevisions(id, newId)
           Move(r) == [r EXCEPT !.gadget = IF @ = id THEN newId ELSE @]
<1>1. \A r \in revisions :
        /\ Move(r) \in RevisionRow
        /\ Move(r).gadget = IF r.gadget = id THEN newId ELSE r.gadget
        /\ Move(r).version = r.version
        /\ Move(r).body = r.body
        /\ r.gadget # id => Move(r) = r
        /\ r.gadget # newId
  BY DEF TypeOK, RevisionRow, RevisionsIn
<1>2. moved = {Move(r) : r \in revisions}
  BY DEF MovedRevisions
<1> HIDE DEF Move, moved
<1>3. moved \subseteq RevisionRow
  BY <1>1, <1>2
<1>4. RevisionsIn(moved, id) = {}
  BY <1>1, <1>2 DEF RevisionsIn
<1>5. RevisionsIn(moved, newId) = {Move(r) : r \in RevisionsIn(revisions, id)}
  BY <1>1, <1>2 DEF RevisionsIn
<1>6. VersionsIn(moved, newId) = VersionsIn(revisions, id)
  BY <1>1, <1>5 DEF VersionsIn, RevisionsIn
<1>7. \A m : m # id /\ m # newId => RevisionsIn(moved, m) = RevisionsIn(revisions, m)
  BY <1>1, <1>2 DEF RevisionsIn
<1>8. ASSUME NEW r \in moved, NEW s \in moved, r.gadget = s.gadget, r.version = s.version
      PROVE  r = s
  <2>1. PICK p \in revisions : r = Move(p)
    BY <1>2
  <2>2. PICK q \in revisions : s = Move(q)
    BY <1>2
  <2>3. p.gadget = q.gadget /\ p.version = q.version
    BY <1>1, <1>8, <2>1, <2>2
  <2> QED
    BY <2>1, <2>2, <2>3 DEF SnapshotsUnique
<1> QED
  BY <1>3, <1>4, <1>6, <1>7, <1>8 DEF moved, Unique

----------------------------------------------------------------------------
(* What the four writes do to gadgets and aliases, row by row.             *)

\* put or add of a new id gives it a row and a rowid of its own, and leaves
\* every other gadget and all aliases alone.
LEMMA InsertionEffect ==
  ASSUME IInv, NEW id \in Names, NEW b \in Bodies, Insertion(id, b)
  PROVE  /\ id \in ValidNames /\ aliases[id] = NoName
         /\ gadgets' \in [Names -> Row \cup {NoRow}]
         /\ gadgets'[id] \in Row
         /\ gadgets'[id].rowid \notin LiveRowIds
         /\ gadgets'[id].body = b
         /\ fts' = fts \cup {IndexRow(gadgets'[id].rowid, id, b)}
         /\ \A n \in Names : n # id => gadgets'[n] = gadgets[n]
         /\ Live(id)' /\ \A n \in Names : n # id => (Live(n)' <=> Live(n))
         /\ LiveIds' = LiveIds \cup {id} /\ id \notin LiveIds
         /\ aliases' = aliases
<1>1. PICK rid \in RowIds \ {gadgets[n].rowid : n \in LiveIds} :
        /\ gadgets' = [gadgets EXCEPT ![id] = [rowid |-> rid, body |-> b]]
        /\ fts' = fts \cup {IndexRow(rid, id, b)}
  BY DEF Insertion, InsertGadget, IndexInsert
<1>2. id \in ValidNames /\ ~Live(id) /\ aliases[id] = NoName /\ aliases' = aliases
  BY DEF Insertion, InsertGadget
<1>3. gadgets \in [Names -> Row \cup {NoRow}]
  BY DEF IInv, TypeOK
<1>4. /\ gadgets'[id] \in Row
      /\ gadgets'[id].rowid = rid
      /\ gadgets'[id].body = b
  BY <1>1, <1>3 DEF Row
<1>5. gadgets' \in [Names -> Row \cup {NoRow}]
  BY <1>1, <1>3 DEF Row
<1>6. \A n \in Names : n # id => gadgets'[n] = gadgets[n]
  BY <1>1, <1>3
<1>7. Live(id)' /\ \A n \in Names : n # id => (Live(n)' <=> Live(n))
  BY <1>4, <1>6, RowsAssumption DEF Live
<1>8. LiveIds' = LiveIds \cup {id} /\ id \notin LiveIds
  BY <1>2, <1>7 DEF LiveIds
<1> QED
  BY <1>1, <1>2, <1>4, <1>5, <1>6, <1>7, <1>8 DEF LiveRowIds

\* put of a live id, or a rollback, changes that gadget's body and no rowid.
LEMMA UpdatingEffect ==
  ASSUME IInv, NEW id \in Names, NEW b \in Bodies, Updating(id, b)
  PROVE  /\ Live(id) /\ gadgets[id] \in Row
         /\ gadgets' \in [Names -> Row \cup {NoRow}]
         /\ gadgets'[id].rowid = gadgets[id].rowid
         /\ gadgets'[id].body = b
         /\ \A n \in Names : n # id => gadgets'[n] = gadgets[n]
         /\ \A n \in Names : Live(n)' <=> Live(n)
         /\ LiveIds' = LiveIds /\ id \in LiveIds
         /\ \A n \in LiveIds : n \in Names /\ gadgets'[n].rowid = gadgets[n].rowid
         /\ aliases' = aliases
<1>1. /\ Live(id)
      /\ gadgets' = [gadgets EXCEPT ![id].body = b]
      /\ aliases' = aliases
  BY DEF Updating, UpdateGadget
<1>2. gadgets \in [Names -> Row \cup {NoRow}] /\ gadgets[id] \in Row
  BY <1>1 DEF IInv, TypeOK, Live
<1>3. /\ gadgets'[id] \in Row
      /\ gadgets'[id].rowid = gadgets[id].rowid
      /\ gadgets'[id].body = b
  BY <1>1, <1>2 DEF Row
<1>4. gadgets' \in [Names -> Row \cup {NoRow}]
  BY <1>1, <1>2, <1>3
<1>5. \A n \in Names : n # id => gadgets'[n] = gadgets[n]
  BY <1>1, <1>2
<1>6. \A n \in Names : Live(n)' <=> Live(n)
  BY <1>1, <1>3, <1>5, RowsAssumption DEF Live
<1>7. LiveIds' = LiveIds /\ id \in LiveIds
  BY <1>1, <1>6 DEF LiveIds
<1>8. \A n \in LiveIds : n \in Names /\ gadgets'[n].rowid = gadgets[n].rowid
  BY <1>3, <1>5 DEF LiveIds
<1> QED
  BY <1>1, <1>2, <1>3, <1>4, <1>5, <1>6, <1>7, <1>8

\* delete removes one gadget and the aliases that lead to it.
LEMMA DeletionEffect ==
  ASSUME IInv, NEW id \in Names, Deletion(id)
  PROVE  /\ gadgets' \in [Names -> Row \cup {NoRow}]
         /\ gadgets'[id] = NoRow
         /\ \A n \in Names : n # id => gadgets'[n] = gadgets[n]
         /\ ~Live(id)' /\ \A n \in Names : n # id => (Live(n)' <=> Live(n))
         /\ LiveIds' = LiveIds \ {id} /\ id \in LiveIds
         /\ \A n \in LiveIds' : n \in LiveIds /\ n # id /\ gadgets'[n] = gadgets[n]
         /\ aliases' \in [Names -> Names \cup {NoName}]
         /\ \A a \in Names :
              aliases'[a] = IF aliases[a] = id THEN NoName ELSE aliases[a]
<1>1. /\ Live(id)
      /\ gadgets' = [gadgets EXCEPT ![id] = NoRow]
      /\ aliases' = [a \in Names |-> IF aliases[a] = id THEN NoName ELSE aliases[a]]
  BY DEF Deletion, DeleteGadget
<1>2. /\ gadgets \in [Names -> Row \cup {NoRow}]
      /\ aliases \in [Names -> Names \cup {NoName}]
  BY DEF IInv, TypeOK
<1>3. gadgets'[id] = NoRow /\ \A n \in Names : n # id => gadgets'[n] = gadgets[n]
  BY <1>1, <1>2
<1>4. ~Live(id)' /\ \A n \in Names : n # id => (Live(n)' <=> Live(n))
  BY <1>3 DEF Live
<1>5. LiveIds' = LiveIds \ {id} /\ id \in LiveIds
  BY <1>1, <1>4 DEF LiveIds
<1>6. \A n \in LiveIds' : n \in LiveIds /\ n # id /\ gadgets'[n] = gadgets[n]
  BY <1>3, <1>5 DEF LiveIds
<1>7. gadgets' \in [Names -> Row \cup {NoRow}]
  BY <1>1, <1>2
<1> QED
  BY <1>1, <1>2, <1>3, <1>4, <1>5, <1>6, <1>7

\* The alias rows after a rename, row by row.
LEMMA RenamedAliasesAre ==
  ASSUME IInv, NEW id \in Names, NEW newId \in Names, newId # id, Live(id)
  PROVE  /\ RenamedAliases(id, newId) \in [Names -> Names \cup {NoName}]
         /\ RenamedAliases(id, newId)[id] = newId
         /\ RenamedAliases(id, newId)[newId] = NoName
         /\ \A a \in Names : a # id /\ a # newId =>
              RenamedAliases(id, newId)[a] = IF aliases[a] = id THEN newId ELSE aliases[a]
<1> DEFINE kept == [aliases EXCEPT ![newId] = NoName]
           moved == [a \in Names |-> IF kept[a] = id THEN newId ELSE kept[a]]
<1>1. aliases \in [Names -> Names \cup {NoName}] /\ aliases[id] = NoName
  BY DEF IInv, TypeOK, NamesUnambiguous
<1>2. /\ kept \in [Names -> Names \cup {NoName}]
      /\ kept[newId] = NoName
      /\ \A a \in Names : a # newId => kept[a] = aliases[a]
  BY <1>1
<1> HIDE DEF kept
<1>3. /\ moved \in [Names -> Names \cup {NoName}]
      /\ moved[id] = NoName
      /\ moved[newId] = NoName
      /\ \A a \in Names : a # newId => moved[a] = IF aliases[a] = id THEN newId ELSE aliases[a]
  BY <1>1, <1>2, NamesAssumption
<1>4. RenamedAliases(id, newId) = [moved EXCEPT ![id] = IF @ = NoName THEN newId ELSE @]
  BY DEF RenamedAliases, kept
<1> HIDE DEF moved
<1> QED
  BY <1>3, <1>4

\* rename moves one row to the new id, which was free, with its rowid, and
\* makes the old id an alias of it.
LEMMA RenamingEffect ==
  ASSUME IInv, NEW id \in Names, NEW newId \in Names, Renaming(id, newId)
  PROVE  /\ newId \in ValidNames /\ newId # id /\ Live(id) /\ ~Live(newId)
         /\ aliases[newId] \in {NoName, id}
         /\ gadgets' \in [Names -> Row \cup {NoRow}] /\ gadgets[id] \in Row
         /\ gadgets'[id] = NoRow
         /\ gadgets'[newId] = gadgets[id]
         /\ \A n \in Names : n # id /\ n # newId => gadgets'[n] = gadgets[n]
         /\ ~Live(id)' /\ Live(newId)'
         /\ \A n \in Names : n # id /\ n # newId => (Live(n)' <=> Live(n))
         /\ LiveIds' = (LiveIds \ {id}) \cup {newId} /\ id \in LiveIds /\ newId \notin LiveIds
         /\ \A n \in LiveIds \ {id} : n \in Names /\ n # newId /\ gadgets'[n] = gadgets[n]
         /\ aliases' \in [Names -> Names \cup {NoName}]
         /\ aliases'[id] = newId
         /\ aliases'[newId] = NoName
         /\ \A a \in Names : a # id /\ a # newId =>
              aliases'[a] = IF aliases[a] = id THEN newId ELSE aliases[a]
<1>1. /\ newId \in ValidNames /\ newId # id /\ Live(id) /\ ~Live(newId)
      /\ aliases[newId] \in {NoName, id}
      /\ gadgets' = [gadgets EXCEPT ![id] = NoRow, ![newId] = gadgets[id]]
      /\ aliases' = RenamedAliases(id, newId)
  BY DEF Renaming, RenameGadget
<1>2. gadgets \in [Names -> Row \cup {NoRow}] /\ gadgets[id] \in Row
  BY <1>1 DEF IInv, TypeOK, Live
<1>3. /\ gadgets'[id] = NoRow
      /\ gadgets'[newId] = gadgets[id]
      /\ \A n \in Names : n # id /\ n # newId => gadgets'[n] = gadgets[n]
  BY <1>1, <1>2
<1>4. /\ ~Live(id)' /\ Live(newId)'
      /\ \A n \in Names : n # id /\ n # newId => (Live(n)' <=> Live(n))
  BY <1>1, <1>3 DEF Live
<1>5. LiveIds' = (LiveIds \ {id}) \cup {newId} /\ id \in LiveIds /\ newId \notin LiveIds
  BY <1>1, <1>4 DEF LiveIds
<1>6. \A n \in LiveIds \ {id} : n \in Names /\ n # newId /\ gadgets'[n] = gadgets[n]
  BY <1>3, <1>5 DEF LiveIds
<1>7. gadgets' \in [Names -> Row \cup {NoRow}]
  BY <1>1, <1>2
<1> QED
  BY <1>1, <1>2, <1>3, <1>4, <1>5, <1>6, <1>7, RenamedAliasesAre

----------------------------------------------------------------------------
(* The four writes preserve the inductive invariant.                       *)

\* The empty tables satisfy the inductive invariant.
LEMMA InitIInv == Init => IInv
<1> SUFFICES ASSUME Init PROVE IInv
  OBVIOUS
<1>1. \A n \in Names : ~Live(n) /\ aliases[n] = NoName /\ RevisionsIn(revisions, n) = {}
  BY DEF Init, Live, RevisionsIn
<1>2. LiveIds = {}
  BY <1>1 DEF LiveIds
<1>3. TypeOK
  BY <1>1, NamesAssumption DEF Init, TypeOK, Outcomes
<1>4. NamesUnambiguous /\ RowidsDistinct
  BY <1>1, <1>2 DEF NamesUnambiguous, RowidsDistinct
<1>5. VersionsContiguous /\ SnapshotsUnique /\ HeadIsNewestRevision
  BY <1>1, <1>2 DEF Init, VersionsContiguous, SnapshotsUnique, HeadIsNewestRevision
<1>6. IndexMirrorsGadgets
  BY <1>2 DEF Init, IndexMirrorsGadgets
<1> QED
  BY <1>3, <1>4, <1>5, <1>6 DEF IInv

\* A call that writes nothing.
LEMMA UnwrittenIInv ==
  ASSUME IInv, UNCHANGED store, outcome' \in Outcomes
  PROVE  IInv'
<1>1. TypeOK'
  BY DEF IInv, TypeOK, store, Live
<1>2. NamesUnambiguous' /\ RowidsDistinct'
  BY DEF IInv, NamesUnambiguous, RowidsDistinct, store, Live, LiveIds
<1>3. VersionsContiguous'
  BY DEF IInv, VersionsContiguous, store, Live, VersionsIn, RevisionsIn
<1>4. SnapshotsUnique' /\ HeadIsNewestRevision'
  BY DEF IInv, SnapshotsUnique, HeadIsNewestRevision, store, Live, LiveIds, RevisionsIn
<1>5. IndexMirrorsGadgets'
  BY DEF IInv, IndexMirrorsGadgets, store, Live, LiveIds, IndexRow
<1> QED
  BY <1>1, <1>2, <1>3, <1>4, <1>5 DEF IInv

\* put and add of a new id.
LEMMA InsertionIInv ==
  ASSUME IInv, NEW id \in Names, NEW b \in Bodies, Insertion(id, b)
  PROVE  IInv'
<1>1. /\ NextVersion(revisions, id) <= VersionBound
      /\ revisions' = WithRevision(revisions, id, b)
      /\ outcome' = "ok"
  BY DEF Insertion, InsertGadget
<1>2. TypeOK /\ RevisionsIn(revisions, id) = {} /\ revisions \subseteq RevisionRow
  BY DEF Insertion, IInv, VersionsContiguous, TypeOK
<1>3. PICK k \in Nat : History(revisions, id, k)
  <2>1. VersionsIn(revisions, id) = 1..0
    BY <1>2 DEF VersionsIn
  <2> QED
    BY <1>2, <2>1 DEF History, IInv, SnapshotsUnique, Unique
<1>4. /\ revisions' \subseteq RevisionRow
      /\ Unique(revisions')
      /\ Newest(revisions', id, b)
      /\ \E j \in 1..VersionBound : VersionsIn(revisions', id) = 1..j
      /\ \A n : n # id => /\ RevisionsIn(revisions', n) = RevisionsIn(revisions, n)
                         /\ VersionsIn(revisions', n) = VersionsIn(revisions, n)
  BY <1>1, <1>3, SnapshotTaken
<1> DEFINE rid == gadgets'[id].rowid
<1>5. /\ id \in ValidNames /\ aliases[id] = NoName
      /\ gadgets' \in [Names -> Row \cup {NoRow}]
      /\ gadgets'[id] \in Row
      /\ rid \notin LiveRowIds
      /\ gadgets'[id].body = b
      /\ fts' = fts \cup {IndexRow(rid, id, b)}
      /\ \A n \in Names : n # id => gadgets'[n] = gadgets[n]
      /\ Live(id)' /\ \A n \in Names : n # id => (Live(n)' <=> Live(n))
      /\ LiveIds' = LiveIds \cup {id} /\ id \notin LiveIds
      /\ aliases' = aliases
  BY InsertionEffect
<1>6. rid \in RowIds
  BY <1>5 DEF Row
<1>7. \A n \in LiveIds : n # id /\ gadgets'[n] = gadgets[n]
  BY <1>5 DEF LiveIds
<1> HIDE DEF rid
<1>10. TypeOK'
  <2>1. fts' \subseteq [rowid : RowIds, id : Names, body : Bodies]
    BY <1>2, <1>5, <1>6 DEF TypeOK, IndexRow
  <2>2. \A n \in Names \ ValidNames : ~Live(n)' /\ aliases'[n] = NoName
    BY <1>2, <1>5 DEF TypeOK
  <2> QED
    BY <1>1, <1>2, <1>4, <1>5, <2>1, <2>2 DEF TypeOK, Outcomes
<1>11. NamesUnambiguous'
  BY <1>2, <1>5, NamesAssumption DEF IInv, NamesUnambiguous, TypeOK
<1>12. RowidsDistinct'
  <2>1. \A m, n \in LiveIds : gadgets'[m].rowid = gadgets'[n].rowid => m = n
    BY <1>7 DEF IInv, RowidsDistinct
  <2>2. \A n \in LiveIds : gadgets'[n].rowid # gadgets'[id].rowid
    BY <1>5, <1>7 DEF LiveRowIds, rid
  <2> QED
    BY <1>5, <2>1, <2>2 DEF RowidsDistinct
<1>13. VersionsContiguous'
  BY <1>4, <1>5 DEF IInv, VersionsContiguous
<1>14. SnapshotsUnique'
  BY <1>4 DEF SnapshotsUnique, Unique
<1>15. HeadIsNewestRevision'
  BY <1>4, <1>5, <1>7 DEF IInv, HeadIsNewestRevision, Newest
<1>16. IndexMirrorsGadgets'
  BY <1>5, <1>7 DEF IInv, IndexMirrorsGadgets, rid
<1> QED
  BY <1>10, <1>11, <1>12, <1>13, <1>14, <1>15, <1>16 DEF IInv

\* Every live gadget's revisions are a history.
LEMMA LiveHistory ==
  ASSUME IInv, NEW id \in Names, Live(id)
  PROVE  \E k \in Nat : History(revisions, id, k)
<1>1. PICK k \in 1..VersionBound : VersionsIn(revisions, id) = 1..k
  BY DEF IInv, VersionsContiguous
<1>2. k \in Nat
  BY BoundsAssumption
<1> QED
  BY <1>1, <1>2 DEF History, IInv, TypeOK, SnapshotsUnique, Unique

\* put of a live id, and rollback.
LEMMA UpdatingIInv ==
  ASSUME IInv, NEW id \in Names, NEW b \in Bodies, Updating(id, b)
  PROVE  IInv'
<1> DEFINE rid == gadgets[id].rowid
<1>1. /\ NextVersion(revisions, id) <= VersionBound
      /\ fts' = {e \in fts : e.rowid # rid} \cup {IndexRow(rid, id, b)}
      /\ revisions' = WithRevision(revisions, id, b)
      /\ outcome' = "ok"
  BY DEF Updating, UpdateGadget, IndexUpdate, IndexInsert, IndexDelete
<1>2. TypeOK /\ Live(id)
  BY DEF Updating, IInv
<1>3. PICK k \in Nat : History(revisions, id, k)
  BY <1>2, LiveHistory
<1>4. /\ revisions' \subseteq RevisionRow
      /\ Unique(revisions')
      /\ Newest(revisions', id, b)
      /\ \E j \in 1..VersionBound : VersionsIn(revisions', id) = 1..j
      /\ \A n : n # id => /\ RevisionsIn(revisions', n) = RevisionsIn(revisions, n)
                         /\ VersionsIn(revisions', n) = VersionsIn(revisions, n)
  BY <1>1, <1>3, SnapshotTaken
<1>5. /\ gadgets[id] \in Row
      /\ gadgets' \in [Names -> Row \cup {NoRow}]
      /\ gadgets'[id].rowid = rid
      /\ gadgets'[id].body = b
      /\ \A n \in Names : n # id => gadgets'[n] = gadgets[n]
      /\ \A n \in Names : Live(n)' <=> Live(n)
      /\ LiveIds' = LiveIds /\ id \in LiveIds
      /\ \A n \in LiveIds : n \in Names /\ gadgets'[n].rowid = gadgets[n].rowid
      /\ aliases' = aliases
  BY UpdatingEffect
<1>10. TypeOK'
  <2>1. fts' \subseteq [rowid : RowIds, id : Names, body : Bodies]
    BY <1>1, <1>2, <1>5 DEF TypeOK, IndexRow, Row
  <2>2. \A n \in Names \ ValidNames : ~Live(n)' /\ aliases'[n] = NoName
    BY <1>2, <1>5 DEF TypeOK
  <2> QED
    BY <1>1, <1>2, <1>4, <1>5, <2>1, <2>2 DEF TypeOK, Outcomes
<1>11. NamesUnambiguous'
  BY <1>2, <1>5, NamesAssumption DEF IInv, NamesUnambiguous, TypeOK
<1>12. RowidsDistinct'
  <2>1. \A m, n \in LiveIds : gadgets[m].rowid = gadgets[n].rowid => m = n
    BY DEF IInv, RowidsDistinct
  <2>2. \A m, n \in LiveIds : gadgets'[m].rowid = gadgets'[n].rowid => m = n
    BY <1>5, <2>1
  <2> QED
    BY <1>5, <2>2 DEF RowidsDistinct
<1>13. VersionsContiguous'
  BY <1>2, <1>4, <1>5 DEF IInv, VersionsContiguous
<1>14. SnapshotsUnique'
  BY <1>4 DEF SnapshotsUnique, Unique
<1>15. HeadIsNewestRevision'
  <2>1. \A n \in LiveIds : n # id =>
          /\ RevisionsIn(revisions', n) = RevisionsIn(revisions, n)
          /\ gadgets'[n] = gadgets[n]
    BY <1>4, <1>5
  <2>2. \A n \in LiveIds : Newest(revisions', n, gadgets'[n].body)
    BY <1>4, <1>5, <2>1 DEF IInv, HeadIsNewestRevision, Newest
  <2> QED
    BY <1>5, <2>2 DEF HeadIsNewestRevision, Newest
<1>16. IndexMirrorsGadgets'
  <2> DEFINE row(n) == IndexRow(gadgets[n].rowid, n, gadgets[n].body)
             rowp(n) == IndexRow(gadgets'[n].rowid, n, gadgets'[n].body)
  <2>1. fts = {row(n) : n \in LiveIds}
    BY DEF IInv, IndexMirrorsGadgets
  <2>2. \A n \in LiveIds : n # id => rowp(n) = row(n) /\ row(n).rowid # rid
    BY <1>5 DEF IInv, RowidsDistinct, IndexRow
  <2>3. row(id).rowid = rid /\ rowp(id) = IndexRow(rid, id, b)
    BY <1>5 DEF IndexRow
  <2>4. fts' = {rowp(n) : n \in LiveIds}
    BY <1>1, <1>5, <2>1, <2>2, <2>3
  <2> QED
    BY <1>5, <2>4 DEF IndexMirrorsGadgets
<1> QED
  BY <1>10, <1>11, <1>12, <1>13, <1>14, <1>15, <1>16 DEF IInv

\* delete.
LEMMA DeletionIInv ==
  ASSUME IInv, NEW id \in Names, Deletion(id)
  PROVE  IInv'
<1> DEFINE rid == gadgets[id].rowid
<1>1. /\ revisions' = revisions \ RevisionsIn(revisions, id)
      /\ fts' = {e \in fts : e.rowid # rid}
      /\ outcome' = "ok"
  BY DEF Deletion, DeleteGadget, IndexDelete
<1>2. TypeOK
  BY DEF IInv
<1>3. /\ gadgets' \in [Names -> Row \cup {NoRow}]
      /\ gadgets'[id] = NoRow
      /\ \A n \in Names : n # id => gadgets'[n] = gadgets[n]
      /\ ~Live(id)' /\ \A n \in Names : n # id => (Live(n)' <=> Live(n))
      /\ LiveIds' = LiveIds \ {id} /\ id \in LiveIds
      /\ \A n \in LiveIds' : n \in LiveIds /\ n # id /\ gadgets'[n] = gadgets[n]
      /\ aliases' \in [Names -> Names \cup {NoName}]
      /\ \A a \in Names :
           aliases'[a] = IF aliases[a] = id THEN NoName ELSE aliases[a]
  BY DeletionEffect
<1>7. /\ RevisionsIn(revisions', id) = {}
      /\ \A n : n # id => /\ RevisionsIn(revisions', n) = RevisionsIn(revisions, n)
                          /\ VersionsIn(revisions', n) = VersionsIn(revisions, n)
  BY <1>1 DEF RevisionsIn, VersionsIn
<1>8. TypeOK'
  <2>1. \A n \in Names \ ValidNames : ~Live(n)' /\ aliases'[n] = NoName
    BY <1>2, <1>3 DEF TypeOK
  <2> QED
    BY <1>1, <1>2, <1>3, <2>1 DEF TypeOK, Outcomes
<1>9. NamesUnambiguous'
  <2> SUFFICES ASSUME NEW n \in Names, aliases'[n] # NoName
               PROVE  gadgets'[n] = NoRow /\ gadgets'[aliases'[n]] # NoRow
    BY DEF NamesUnambiguous, Live
  <2>1. aliases'[n] = IF aliases[n] = id THEN NoName ELSE aliases[n]
    BY <1>3
  <2>2. aliases'[n] = aliases[n] /\ aliases[n] # id /\ aliases[n] # NoName
    BY <2>1
  <2>3. aliases[n] \in Names
    BY <1>2, <2>2 DEF TypeOK
  <2>4. ~Live(n) /\ Live(aliases[n])
    BY <2>2 DEF IInv, NamesUnambiguous
  <2>5. n # id /\ gadgets'[aliases[n]] = gadgets[aliases[n]]
    BY <1>3, <2>2, <2>3, <2>4 DEF LiveIds
  <2> QED
    BY <1>3, <2>2, <2>4, <2>5 DEF Live
<1>10. RowidsDistinct'
  BY <1>3 DEF IInv, RowidsDistinct
<1>11. VersionsContiguous'
  BY <1>3, <1>7 DEF IInv, VersionsContiguous
<1>12. SnapshotsUnique'
  BY <1>1 DEF IInv, SnapshotsUnique
<1>13. HeadIsNewestRevision'
  BY <1>3, <1>7 DEF IInv, HeadIsNewestRevision
<1>14. IndexMirrorsGadgets'
  <2> DEFINE row(n) == IndexRow(gadgets[n].rowid, n, gadgets[n].body)
             rowp(n) == IndexRow(gadgets'[n].rowid, n, gadgets'[n].body)
  <2>1. fts = {row(n) : n \in LiveIds}
    BY DEF IInv, IndexMirrorsGadgets
  <2>2. \A n \in LiveIds' : rowp(n) = row(n) /\ row(n).rowid # rid
    BY <1>3 DEF IInv, RowidsDistinct, IndexRow
  <2>3. row(id).rowid = rid
    BY DEF IndexRow
  <2>4. fts' = {rowp(n) : n \in LiveIds'}
    BY <1>1, <1>3, <2>1, <2>2, <2>3
  <2> QED
    BY <2>4 DEF IndexMirrorsGadgets
<1> QED
  BY <1>8, <1>9, <1>10, <1>11, <1>12, <1>13, <1>14 DEF IInv

\* rename.
LEMMA RenamingIInv ==
  ASSUME IInv, NEW id \in Names, NEW newId \in Names, Renaming(id, newId)
  PROVE  IInv'
<1> DEFINE row == gadgets[id]
           rid == gadgets[id].rowid
           moved == MovedRevisions(id, newId)
<1>1. /\ NextVersion(revisions, id) <= VersionBound
      /\ revisions' = WithRevision(moved, newId, row.body)
      /\ fts' = {e \in fts : e.rowid # rid} \cup {IndexRow(rid, newId, row.body)}
      /\ outcome' = "ok"
  BY DEF Renaming, RenameGadget, IndexUpdate, IndexInsert, IndexDelete
<1>2. /\ newId \in ValidNames /\ newId # id /\ Live(id) /\ ~Live(newId)
      /\ aliases[newId] \in {NoName, id}
      /\ gadgets' \in [Names -> Row \cup {NoRow}]
  BY RenamingEffect
<1>3. TypeOK /\ row \in Row /\ rid \in RowIds /\ row.body \in Bodies
  BY RenamingEffect DEF IInv, Row
<1>4. /\ gadgets'[id] = NoRow
      /\ gadgets'[newId] = row
      /\ \A n \in Names : n # id /\ n # newId => gadgets'[n] = gadgets[n]
      /\ ~Live(id)' /\ Live(newId)'
      /\ \A n \in Names : n # id /\ n # newId => (Live(n)' <=> Live(n))
  BY RenamingEffect
<1>5. /\ LiveIds' = (LiveIds \ {id}) \cup {newId} /\ id \in LiveIds /\ newId \notin LiveIds
      /\ \A n \in LiveIds \ {id} : n \in Names /\ n # newId /\ gadgets'[n] = gadgets[n]
  BY RenamingEffect
<1>6. /\ aliases' \in [Names -> Names \cup {NoName}]
      /\ aliases'[id] = newId
      /\ aliases'[newId] = NoName
      /\ \A a \in Names : a # id /\ a # newId =>
           aliases'[a] = IF aliases[a] = id THEN newId ELSE aliases[a]
  BY RenamingEffect
<1>8. PICK k \in Nat : History(revisions, id, k)
  BY <1>2, LiveHistory
<1>9. /\ moved \subseteq RevisionRow
      /\ RevisionsIn(moved, id) = {}
      /\ VersionsIn(moved, newId) = VersionsIn(revisions, id)
      /\ \A m : m # id /\ m # newId => RevisionsIn(moved, m) = RevisionsIn(revisions, m)
      /\ Unique(moved)
  <2>1. RevisionsIn(revisions, newId) = {}
    BY <1>2 DEF IInv, VersionsContiguous
  <2> QED
    BY <1>2, <2>1, MovedRevisionsFollow DEF IInv
<1> HIDE DEF moved
<1>10. History(moved, newId, k) /\ NextVersion(moved, newId) <= VersionBound
  <2>1. History(moved, newId, k)
    BY <1>8, <1>9 DEF History
  <2>2. NextVersion(moved, newId) = k + 1
    BY <2>1, NextVersionContinues DEF History
  <2>3. NextVersion(revisions, id) = k + 1
    BY <1>8, NextVersionContinues DEF History
  <2> QED
    BY <1>1, <2>1, <2>2, <2>3
<1>11. /\ revisions' \subseteq RevisionRow
       /\ Unique(revisions')
       /\ Newest(revisions', newId, row.body)
       /\ \E j \in 1..VersionBound : VersionsIn(revisions', newId) = 1..j
       /\ \A n : n # newId => RevisionsIn(revisions', n) = RevisionsIn(moved, n)
  BY <1>1, <1>2, <1>3, <1>10, SnapshotTaken
<1>12. /\ RevisionsIn(revisions', id) = {}
       /\ \A n : n # id /\ n # newId =>
            /\ RevisionsIn(revisions', n) = RevisionsIn(revisions, n)
            /\ VersionsIn(revisions', n) = VersionsIn(revisions, n)
  BY <1>2, <1>9, <1>11 DEF VersionsIn
<1>13. TypeOK'
  <2>1. fts' \subseteq [rowid : RowIds, id : Names, body : Bodies]
    BY <1>1, <1>2, <1>3 DEF TypeOK, IndexRow
  <2>2. id \in ValidNames
    BY <1>2, <1>3 DEF TypeOK
  <2>3. \A n \in Names \ ValidNames : ~Live(n)' /\ aliases'[n] = NoName
    BY <1>2, <1>3, <1>4, <1>6, <2>2, NamesAssumption DEF TypeOK
  <2> QED
    BY <1>1, <1>2, <1>3, <1>6, <1>11, <2>1, <2>3 DEF TypeOK, Outcomes
<1>14. NamesUnambiguous'
  <2> SUFFICES ASSUME NEW n \in Names, aliases'[n] # NoName
               PROVE  gadgets'[n] = NoRow /\ gadgets'[aliases'[n]] # NoRow
    BY DEF NamesUnambiguous, Live
  <2>1. CASE n = id
    BY <1>2, <1>4, <1>6, <2>1 DEF Live
  <2>2. CASE n # id /\ aliases[n] = id
    BY <1>2, <1>4, <1>6, <2>2, NamesAssumption DEF IInv, NamesUnambiguous, Live
  <2>3. CASE n # id /\ aliases[n] # id
    <3>1. n # newId /\ aliases'[n] = aliases[n]
      BY <1>6, <2>3
    <3>2. ~Live(n) /\ Live(aliases[n]) /\ aliases[n] \in Names
      BY <1>3, <3>1 DEF IInv, NamesUnambiguous, TypeOK
    <3>3. aliases[n] # newId
      BY <1>2, <3>2
    <3> QED
      BY <1>4, <2>3, <3>1, <3>2, <3>3 DEF Live
  <2> QED
    BY <2>1, <2>2, <2>3
<1>15. RowidsDistinct'
  <2>1. \A m, n \in LiveIds : gadgets[m].rowid = gadgets[n].rowid => m = n
    BY DEF IInv, RowidsDistinct
  <2>2. \A n \in LiveIds \ {id} : gadgets'[n].rowid # gadgets'[newId].rowid
    BY <1>4, <1>5, <2>1
  <2>3. \A m, n \in LiveIds \ {id} : gadgets'[m].rowid = gadgets'[n].rowid => m = n
    BY <1>5, <2>1
  <2>4. \A m, n \in (LiveIds \ {id}) \cup {newId} :
          gadgets'[m].rowid = gadgets'[n].rowid => m = n
    BY <2>2, <2>3
  <2> QED
    BY <1>5, <2>4 DEF RowidsDistinct
<1>16. VersionsContiguous'
  BY <1>2, <1>4, <1>11, <1>12 DEF IInv, VersionsContiguous
<1>17. SnapshotsUnique'
  BY <1>11 DEF SnapshotsUnique, Unique
<1>18. HeadIsNewestRevision'
  <2>1. \A n \in LiveIds \ {id} :
          /\ RevisionsIn(revisions', n) = RevisionsIn(revisions, n)
          /\ gadgets'[n] = gadgets[n]
    BY <1>5, <1>12
  <2>2. \A n \in LiveIds \ {id} : Newest(revisions', n, gadgets'[n].body)
    BY <2>1 DEF IInv, HeadIsNewestRevision, Newest
  <2>3. Newest(revisions', newId, gadgets'[newId].body)
    BY <1>4, <1>11
  <2> QED
    BY <1>5, <2>2, <2>3 DEF HeadIsNewestRevision, Newest
<1>19. IndexMirrorsGadgets'
  <2> DEFINE entry(n) == IndexRow(gadgets[n].rowid, n, gadgets[n].body)
             entryp(n) == IndexRow(gadgets'[n].rowid, n, gadgets'[n].body)
  <2>1. fts = {entry(n) : n \in LiveIds}
    BY DEF IInv, IndexMirrorsGadgets
  <2>2. \A n \in LiveIds \ {id} : entryp(n) = entry(n) /\ entry(n).rowid # rid
    BY <1>5 DEF IInv, RowidsDistinct, IndexRow
  <2>3. entry(id).rowid = rid /\ entryp(newId) = IndexRow(rid, newId, row.body)
    BY <1>4 DEF IndexRow
  <2>4. fts' = {entryp(n) : n \in (LiveIds \ {id}) \cup {newId}}
    BY <1>1, <1>5, <2>1, <2>2, <2>3
  <2> QED
    BY <1>5, <2>4 DEF IndexMirrorsGadgets
<1> QED
  BY <1>13, <1>14, <1>15, <1>16, <1>17, <1>18, <1>19 DEF IInv

----------------------------------------------------------------------------
(* The theorems.                                                           *)

\* Every call of GadgetRepo preserves the inductive invariant.
LEMMA NextIInv == IInv /\ [Next]_vars => IInv'
<1>1. ASSUME IInv, Next PROVE IInv'
  <2>1. \/ Unwritten
        \/ \E id \in Names, b \in Bodies : Insertion(id, b) \/ Updating(id, b)
        \/ \E id \in Names : Deletion(id)
        \/ \E id, newId \in Names : Renaming(id, newId)
    BY <1>1, StepKinds DEF IInv
  <2> QED
    BY <1>1, <2>1, UnwrittenIInv, InsertionIInv, UpdatingIInv, DeletionIInv, RenamingIInv
       DEF Unwritten
<1>2. ASSUME IInv, UNCHANGED vars PROVE IInv'
  <2>1. UNCHANGED store /\ outcome' \in Outcomes
    BY <1>2 DEF vars, store, IInv, TypeOK
  <2> QED
    BY <1>2, <2>1, UnwrittenIInv
<1> QED
  BY <1>1, <1>2

\* The inductive invariant holds in every reachable state.
THEOREM StoreInvariant == Spec => []IInv
  BY InitIInv, NextIInv, PTL DEF Spec

\* The tables are well typed, and only validated ids get into them.
THEOREM TypeCorrect == Spec => []TypeOK
<1>1. IInv => TypeOK
  BY DEF IInv
<1> QED
  BY <1>1, StoreInvariant, PTL

\* No chain of puts, renames and deletes makes a name ambiguous or leaves an
\* alias of nothing.
THEOREM NamesStayUnambiguous == Spec => []NamesUnambiguous
<1>1. IInv => NamesUnambiguous
  BY DEF IInv
<1> QED
  BY <1>1, StoreInvariant, PTL

\* Revision numbers never have a gap, whatever was renamed or deleted.
THEOREM VersionsStayContiguous == Spec => []VersionsContiguous
<1>1. IInv => VersionsContiguous
  BY DEF IInv
<1> QED
  BY <1>1, StoreInvariant, PTL

\* The newest snapshot is always the gadget that is served.
THEOREM HeadStaysNewestRevision == Spec => []HeadIsNewestRevision
<1>1. IInv => HeadIsNewestRevision
  BY DEF IInv
<1> QED
  BY <1>1, StoreInvariant, PTL

\* An index that mirrors the gadgets finds what it should.
LEMMA MirrorIsExact == IInv => SearchIsExact
<1> SUFFICES ASSUME IInv, NEW b \in Bodies, NEW n \in LiveIds
             PROVE  (\E e \in fts : e.rowid = gadgets[n].rowid /\ e.body = b)
                      <=> gadgets[n].body = b
  BY DEF SearchIsExact, Search
<1> DEFINE entry(m) == IndexRow(gadgets[m].rowid, m, gadgets[m].body)
<1>1. fts = {entry(m) : m \in LiveIds}
  BY DEF IInv, IndexMirrorsGadgets
<1>2. \A m \in LiveIds : /\ entry(m).rowid = gadgets[m].rowid
                         /\ entry(m).body = gadgets[m].body
  BY DEF IndexRow
<1>3. \A m \in LiveIds : gadgets[m].rowid = gadgets[n].rowid => m = n
  BY DEF IInv, RowidsDistinct
<1> QED
  BY <1>1, <1>2, <1>3

\* Search returns exactly the live gadgets that match.
THEOREM SearchStaysExact == Spec => []SearchIsExact
  BY MirrorIsExact, StoreInvariant, PTL

----------------------------------------------------------------------------
(* The alias cap.                                                          *)

\* Every call keeps the number of aliases of each gadget within the cap: only
\* a rename adds one, and it has checked the count before.
LEMMA NextAliasesWithinCap ==
  IInv /\ AliasesWithinCap /\ [Next]_vars => AliasesWithinCap'
<1> SUFFICES ASSUME IInv, AliasesWithinCap, [Next]_vars, NEW n \in Names
             PROVE  Cardinality(AliasesOf(n)') <= MaxAliases
  BY DEF AliasesWithinCap
<1> DEFINE before == AliasesOf(n)
<1>1. IsFiniteSet(before) /\ Cardinality(before) \in Nat /\ Cardinality(before) <= MaxAliases
  BY AliasCountIsNat DEF AliasesWithinCap
<1>2. ASSUME AliasesOf(n)' \subseteq before
      PROVE  Cardinality(AliasesOf(n)') <= MaxAliases
  <2>1. Cardinality(AliasesOf(n)') <= Cardinality(before) /\ Cardinality(AliasesOf(n)') \in Nat
    BY <1>1, <1>2, FS_Subset, FS_CardinalityType
  <2> QED
    BY <1>1, <2>1, BoundsAssumption
<1>3. CASE UNCHANGED aliases
  BY <1>2, <1>3 DEF AliasesOf
<1>4. ASSUME NEW id \in Names, Deletion(id)
      PROVE  AliasesOf(n)' \subseteq before
  BY <1>4, DeletionEffect, NamesAssumption DEF AliasesOf
<1>5. ASSUME NEW id \in Names, NEW newId \in Names, Renaming(id, newId), n # newId
      PROVE  AliasesOf(n)' \subseteq before
  <2> SUFFICES ASSUME NEW a \in Names, aliases'[a] = n
               PROVE  aliases[a] = n
    BY DEF AliasesOf
  <2> QED
    BY <1>5, RenamingEffect, NamesAssumption
<1>6. ASSUME NEW id \in Names, NEW newId \in Names, Renaming(id, newId), n = newId
      PROVE  Cardinality(AliasesOf(n)') <= MaxAliases
  <2>1. AliasesOf(n)' \subseteq AliasesOf(id) \cup {id}
    <3> SUFFICES ASSUME NEW a \in Names, aliases'[a] = newId, a # id
                 PROVE  aliases[a] = id
      BY <1>6 DEF AliasesOf
    <3>1. a # newId
      BY <1>6, RenamingEffect, NamesAssumption
    <3>2. aliases'[a] = IF aliases[a] = id THEN newId ELSE aliases[a]
      BY <1>6, <3>1, RenamingEffect
    <3>3. aliases[a] # newId
      BY <1>6, RenamingEffect, NamesAssumption DEF IInv, NamesUnambiguous
    <3> QED
      BY <3>2, <3>3
  <2>2. IsFiniteSet(AliasesOf(id)) /\ Cardinality(AliasesOf(id)) \in Nat
    BY AliasCountIsNat
  <2>3. Cardinality(AliasesOf(id)) < MaxAliases
    BY <1>6 DEF Renaming
  <2>4. /\ IsFiniteSet(AliasesOf(id) \cup {id})
        /\ \/ Cardinality(AliasesOf(id) \cup {id}) = Cardinality(AliasesOf(id))
           \/ Cardinality(AliasesOf(id) \cup {id}) = Cardinality(AliasesOf(id)) + 1
    BY <2>2, FS_AddElement
  <2>5. /\ Cardinality(AliasesOf(n)') <= Cardinality(AliasesOf(id) \cup {id})
        /\ Cardinality(AliasesOf(n)') \in Nat
    BY <2>1, <2>4, FS_Subset, FS_CardinalityType
  <2> QED
    BY <2>2, <2>3, <2>4, <2>5, BoundsAssumption
<1>7. CASE Next
  <2>1. \/ Unwritten
        \/ \E id \in Names, b \in Bodies : Insertion(id, b) \/ Updating(id, b)
        \/ \E id \in Names : Deletion(id)
        \/ \E id, newId \in Names : Renaming(id, newId)
    BY <1>7, StepKinds DEF IInv
  <2>2. ASSUME \/ Unwritten
               \/ \E id \in Names, b \in Bodies : Insertion(id, b) \/ Updating(id, b)
        PROVE  UNCHANGED aliases
    BY <2>2 DEF Unwritten, store, Insertion, InsertGadget, Updating, UpdateGadget
  <2> QED
    BY <1>2, <1>3, <1>4, <1>5, <1>6, <2>1, <2>2
<1> QED
  BY <1>3, <1>7 DEF vars

LEMMA InitAliasesWithinCap == Init => AliasesWithinCap
<1> SUFFICES ASSUME Init, NEW n \in Names
             PROVE  Cardinality(AliasesOf(n)) <= MaxAliases
  BY DEF AliasesWithinCap
<1>1. AliasesOf(n) = {}
  BY NamesAssumption DEF Init, AliasesOf
<1> QED
  BY <1>1, FS_EmptySet, BoundsAssumption

\* No gadget ever has more aliases than MAX_ALIASES_PER_GADGET.
THEOREM AliasesStayWithinCap == Spec => []AliasesWithinCap
  BY InitAliasesWithinCap, StoreInvariant, NextAliasesWithinCap, PTL DEF Spec

----------------------------------------------------------------------------
(* Names and histories over a step.                                        *)

\* A name that resolves is the id or an alias of a live gadget.
LEMMA ResolvedIsLive ==
  ASSUME IInv, NEW n \in Names, Resolve(n) # NoRow
  PROVE  \E m \in LiveIds :
           /\ Resolve(n) = gadgets[m]
           /\ \/ m = n
              \/ ~Live(n) /\ aliases[n] # NoName /\ m = aliases[n]
<1>1. CASE Live(n)
  BY <1>1 DEF Resolve, LiveIds
<1>2. CASE ~Live(n)
  <2>1. aliases[n] # NoName /\ Resolve(n) = gadgets[aliases[n]]
    BY <1>2 DEF Resolve
  <2>2. aliases[n] \in Names /\ Live(aliases[n])
    BY <2>1 DEF IInv, NamesUnambiguous, TypeOK
  <2> QED
    BY <1>2, <2>1, <2>2 DEF LiveIds
<1> QED
  BY <1>1, <1>2

\* One call leaves every name with the gadget it resolves to, if that gadget
\* is still there.
LEMMA StepKeepsName ==
  ASSUME IInv, UNCHANGED store \/ Next, NEW n \in Names,
         Resolve(n) # NoRow, Resolve(n).rowid \in LiveRowIds'
  PROVE  Resolve(n)' # NoRow /\ Resolve(n)'.rowid = Resolve(n).rowid
<1> DEFINE Kept == Resolve(n)' # NoRow /\ Resolve(n)'.rowid = Resolve(n).rowid
<1>1. PICK m \in LiveIds :
        /\ Resolve(n) = gadgets[m]
        /\ \/ m = n
           \/ ~Live(n) /\ aliases[n] # NoName /\ m = aliases[n]
  BY ResolvedIsLive
<1>2. m \in Names /\ Live(m)
  BY DEF LiveIds
<1>3. CASE UNCHANGED store
  BY <1>3 DEF store, Resolve, Live
<1>4. ASSUME NEW id \in Names, NEW b \in Bodies, Insertion(id, b)
      PROVE  Kept
  <2>1. m # id /\ gadgets'[m] = gadgets[m] /\ gadgets'[m] # NoRow
    BY <1>2, <1>4, InsertionEffect DEF Live
  <2>2. CASE m = n
    BY <1>1, <2>1, <2>2 DEF Resolve, Live
  <2>3. CASE ~Live(n) /\ aliases[n] # NoName /\ m = aliases[n]
    <3>1. n # id /\ gadgets'[n] = NoRow /\ aliases'[n] = m
      BY <1>4, <2>3, InsertionEffect DEF Live
    <3> QED
      BY <1>1, <2>1, <2>3, <3>1 DEF Resolve, Live
  <2> QED
    BY <1>1, <2>2, <2>3
<1>5. ASSUME NEW id \in Names, NEW b \in Bodies, Updating(id, b)
      PROVE  Kept
  <2>1. gadgets'[m].rowid = gadgets[m].rowid /\ gadgets'[m] # NoRow
    BY <1>2, <1>5, UpdatingEffect DEF Live
  <2>2. CASE m = n
    BY <1>1, <2>1, <2>2 DEF Resolve, Live
  <2>3. CASE ~Live(n) /\ aliases[n] # NoName /\ m = aliases[n]
    <3>1. gadgets'[n] = NoRow /\ aliases'[n] = m
      BY <1>5, <2>3, UpdatingEffect DEF Live
    <3> QED
      BY <1>1, <2>1, <2>3, <3>1 DEF Resolve, Live
  <2> QED
    BY <1>1, <2>2, <2>3
<1>6. ASSUME NEW id \in Names, Deletion(id)
      PROVE  Kept
  <2>1. m # id
    <3>1. PICK l \in LiveIds' : gadgets'[l].rowid = gadgets[m].rowid
      BY <1>1 DEF LiveRowIds
    <3>2. l \in LiveIds /\ l # id /\ gadgets'[l] = gadgets[l]
      BY <1>6, DeletionEffect
    <3> QED
      BY <3>1, <3>2 DEF IInv, RowidsDistinct
  <2>2. gadgets'[m] = gadgets[m] /\ gadgets'[m] # NoRow
    BY <1>2, <1>6, <2>1, DeletionEffect DEF Live
  <2>3. CASE m = n
    BY <1>1, <2>2, <2>3 DEF Resolve, Live
  <2>4. CASE ~Live(n) /\ aliases[n] # NoName /\ m = aliases[n]
    <3>1. gadgets'[n] = NoRow /\ aliases'[n] = m
      BY <1>6, <2>1, <2>4, DeletionEffect DEF Live
    <3> QED
      BY <1>1, <2>2, <2>4, <3>1 DEF Resolve, Live
  <2> QED
    BY <1>1, <2>3, <2>4
<1>7. ASSUME NEW id \in Names, NEW newId \in Names, Renaming(id, newId)
      PROVE  Kept
  <2> DEFINE m2 == IF m = id THEN newId ELSE m
  <2>1. gadgets'[m2] = gadgets[m] /\ gadgets'[m2] # NoRow
    BY <1>2, <1>7, RenamingEffect DEF Live
  <2>2. \/ m2 = n
        \/ gadgets'[n] = NoRow /\ aliases'[n] = m2 /\ m2 # NoName
    <3>1. CASE m = n
      BY <1>2, <1>7, <3>1, RenamingEffect, NamesAssumption
    <3>2. CASE ~Live(n) /\ aliases[n] # NoName /\ m = aliases[n]
      <4>1. n # id
        BY <1>7, <3>2, RenamingEffect
      <4>2. CASE n = newId
        <5>1. m = id
          BY <1>7, <3>2, <4>2, RenamingEffect
        <5> QED
          BY <4>2, <5>1
      <4>3. CASE n # newId
        <5>1. gadgets'[n] = NoRow /\ aliases'[n] = IF aliases[n] = id THEN newId ELSE aliases[n]
          BY <1>7, <3>2, <4>1, <4>3, RenamingEffect DEF Live
        <5> QED
          BY <1>2, <3>2, <5>1, NamesAssumption
      <4> QED
        BY <4>2, <4>3
    <3> QED
      BY <1>1, <3>1, <3>2
  <2> HIDE DEF m2
  <2>3. Resolve(n)' = gadgets'[m2]
    BY <2>1, <2>2 DEF Resolve, Live
  <2> QED
    BY <1>1, <2>1, <2>3
<1>8. CASE Next
  BY <1>3, <1>4, <1>5, <1>6, <1>7, <1>8, StepKinds DEF IInv, Unwritten
<1> QED
  BY <1>3, <1>8

\* A name keeps its gadget until that gadget is deleted.
THEOREM NamesAlwaysKeepTheirGadget == Spec => NamesKeepTheirGadget
<1> DEFINE Keeps == \A n \in Names :
                      Resolve(n) # NoRow /\ Resolve(n).rowid \in LiveRowIds'
                        => Resolve(n)' # NoRow /\ Resolve(n)'.rowid = Resolve(n).rowid
<1>1. IInv /\ [Next]_vars => [Keeps]_vars
  BY StepKeepsName DEF vars, store
<1> QED
  BY <1>1, StoreInvariant, PTL DEF Spec, NamesKeepTheirGadget

\* Taking a snapshot forgets none.
LEMMA WithRevisionKeeps ==
  ASSUME NEW table, NEW n, NEW b
  PROVE  table \subseteq WithRevision(table, n, b)
  BY DEF WithRevision

\* One call leaves the history of a gadget that lives through it at least as
\* long as it was, under the name that the gadget has afterwards.
LEMMA StepKeepsHistory ==
  ASSUME IInv, UNCHANGED store \/ Next, NEW m \in Names, NEW n \in Names,
         Live(m), Live(n)', gadgets[m].rowid = gadgets'[n].rowid
  PROVE  Snapshots(m) \subseteq Snapshots(n)'
<1> DEFINE Grown == Snapshots(m) \subseteq Snapshots(n)'
<1>1. m \in LiveIds
  BY DEF LiveIds
<1>2. ASSUME n \in LiveIds, gadgets[n].rowid = gadgets'[n].rowid
      PROVE  m = n
  BY <1>1, <1>2 DEF IInv, RowidsDistinct
<1>3. ASSUME m = n, RevisionsIn(revisions, n) \subseteq revisions'
      PROVE  Grown
  BY <1>3 DEF Snapshots, RevisionsIn
<1>4. CASE UNCHANGED store
  <2>1. n \in LiveIds /\ gadgets[n].rowid = gadgets'[n].rowid /\ revisions' = revisions
    BY <1>4 DEF store, LiveIds, Live
  <2> QED
    BY <1>2, <1>3, <2>1 DEF RevisionsIn
<1>5. ASSUME NEW id \in Names, NEW b \in Bodies, Insertion(id, b)
      PROVE  Grown
  <2>1. n # id
    BY <1>1, <1>5, InsertionEffect DEF LiveRowIds
  <2>2. n \in LiveIds /\ gadgets'[n] = gadgets[n]
    BY <1>5, <2>1, InsertionEffect DEF LiveIds
  <2>3. revisions \subseteq revisions'
    BY <1>5, WithRevisionKeeps DEF Insertion, InsertGadget
  <2> QED
    BY <1>2, <1>3, <2>2, <2>3 DEF RevisionsIn
<1>6. ASSUME NEW id \in Names, NEW b \in Bodies, Updating(id, b)
      PROVE  Grown
  <2>1. n \in LiveIds
    BY <1>6, UpdatingEffect DEF LiveIds
  <2>2. gadgets[n].rowid = gadgets'[n].rowid
    BY <1>6, <2>1, UpdatingEffect
  <2>3. revisions \subseteq revisions'
    BY <1>6, WithRevisionKeeps DEF Updating, UpdateGadget
  <2> QED
    BY <1>2, <1>3, <2>1, <2>2, <2>3 DEF RevisionsIn
<1>7. ASSUME NEW id \in Names, Deletion(id)
      PROVE  Grown
  <2>1. n # id /\ n \in LiveIds /\ gadgets'[n] = gadgets[n]
    BY <1>7, DeletionEffect DEF LiveIds
  <2>2. revisions' = revisions \ RevisionsIn(revisions, id)
    BY <1>7 DEF Deletion, DeleteGadget
  <2> QED
    BY <1>2, <1>3, <2>1, <2>2 DEF RevisionsIn
<1>8. ASSUME NEW id \in Names, NEW newId \in Names, Renaming(id, newId)
      PROVE  Grown
  <2> DEFINE Move(r) == [r EXCEPT !.gadget = IF @ = id THEN newId ELSE @]
  <2>1. \A r \in revisions : Move(r) \in revisions'
    BY <1>8, WithRevisionKeeps DEF Renaming, RenameGadget, MovedRevisions
  <2>2. \A r \in revisions :
          /\ Move(r).gadget = IF r.gadget = id THEN newId ELSE r.gadget
          /\ Move(r).version = r.version
          /\ Move(r).body = r.body
    BY DEF IInv, TypeOK, RevisionRow
  <2> HIDE DEF Move
  <2>3. \/ n = newId /\ m = id
        \/ m = n /\ n # id
    <3>1. CASE n = newId
      <4>1. gadgets[m].rowid = gadgets[id].rowid /\ id \in LiveIds
        BY <1>8, <3>1, RenamingEffect
      <4> QED
        BY <1>1, <3>1, <4>1 DEF IInv, RowidsDistinct
    <3>2. CASE n # newId
      <4>1. n # id /\ n \in LiveIds /\ gadgets'[n] = gadgets[n]
        BY <1>8, <3>2, RenamingEffect DEF LiveIds
      <4> QED
        BY <1>2, <4>1
    <3> QED
      BY <3>1, <3>2
  <2>4. \A r \in RevisionsIn(revisions, m) :
          Move(r) \in RevisionsIn(revisions', n) /\ Move(r).version = r.version
            /\ Move(r).body = r.body
    BY <2>1, <2>2, <2>3 DEF RevisionsIn
  <2>5. Snapshots(n)' = {<<r.version, r.body>> : r \in RevisionsIn(revisions', n)}
    BY DEF Snapshots, RevisionsIn
  <2> SUFFICES ASSUME NEW r \in RevisionsIn(revisions, m)
               PROVE  <<r.version, r.body>> \in Snapshots(n)'
    BY DEF Snapshots
  <2> QED
    BY <2>4, <2>5
<1>9. CASE Next
  BY <1>4, <1>5, <1>6, <1>7, <1>8, <1>9, StepKinds DEF IInv, Unwritten
<1> QED
  BY <1>4, <1>9

\* No call rewrites or drops a snapshot, and a rename takes all of them along.
THEOREM HistoriesGrow == Spec => HistoryGrows
<1> DEFINE Grows == \A m, n \in Names :
                      Live(m) /\ Live(n)' /\ gadgets[m].rowid = gadgets'[n].rowid
                        => Snapshots(m) \subseteq Snapshots(n)'
<1>1. IInv /\ [Next]_vars => [Grows]_vars
  BY StepKeepsHistory DEF vars, store
<1> QED
  BY <1>1, StoreInvariant, PTL DEF Spec, HistoryGrows

----------------------------------------------------------------------------
(***************************************************************************)
(* GadgetStore implements GadgetLibrary.                                   *)
(*                                                                         *)
(* The empty tables are the empty library, and each of the four writes is  *)
(* one action of the library: an insertion creates an entity, an update    *)
(* saves, a deletion drops and a renaming renames one.  For each the three *)
(* variables of the library are compared name by name and rowid by rowid.  *)
(***************************************************************************)

(* Reading a library off some tables, before or after a step.              *)

LiveIn(g) == {n \in Names : g[n] # NoRow}

IdIn(g, rid) ==
  IF \E n \in LiveIn(g) : g[n].rowid = rid
  THEN CHOOSE n \in LiveIn(g) : g[n].rowid = rid
  ELSE NoName

DistinctIn(g) == \A m, n \in LiveIn(g) : g[m].rowid = g[n].rowid => m = n

HistoryIn(table, n) ==
  [v \in 1..(NextVersion(table, n) - 1) |->
     (CHOOSE r \in table : r.gadget = n /\ r.version = v).body]

EntityIn(g, a, n) ==
  LET row == IF g[n] # NoRow THEN g[n]
             ELSE IF a[n] # NoName THEN g[a[n]]
             ELSE NoRow
  IN  IF row = NoRow THEN NoRow ELSE row.rowid

EntitiesIn(g, a) == [n \in Names |-> EntityIn(g, a, n)]

IdsIn(g) == [rid \in RowIds |-> IdIn(g, rid)]

HistoriesIn(g, table) ==
  [rid \in RowIds |-> IF IdIn(g, rid) = NoName THEN <<>> ELSE HistoryIn(table, IdIn(g, rid))]

\* A row's id is the one name that has it.
LEMMA IdIs ==
  ASSUME NEW g, DistinctIn(g), NEW rid
  PROVE  /\ \A n \in LiveIn(g) : g[n].rowid = rid => IdIn(g, rid) = n
         /\ (\A n \in LiveIn(g) : g[n].rowid # rid) => IdIn(g, rid) = NoName
  BY DEF IdIn, DistinctIn

\* A history numbered 1..k is read off as the sequence of its bodies.
LEMMA HistoryIs ==
  ASSUME NEW table, NEW n, NEW k \in Nat, History(table, n, k)
  PROVE  /\ HistoryIn(table, n) \in Seq(Bodies)
         /\ Len(HistoryIn(table, n)) = k
         /\ \A r \in RevisionsIn(table, n) : HistoryIn(table, n)[r.version] = r.body
<1> DEFINE chosen(v) == CHOOSE r \in table : r.gadget = n /\ r.version = v
<1>1. NextVersion(table, n) - 1 = k
  BY NextVersionContinues DEF History
<1>2. HistoryIn(table, n) = [v \in 1..k |-> chosen(v).body]
  BY <1>1 DEF HistoryIn
<1>3. ASSUME NEW v \in 1..k
      PROVE  chosen(v) \in table /\ chosen(v).gadget = n /\ chosen(v).version = v
  <2>1. \E r \in table : r.gadget = n /\ r.version = v
    BY DEF History, VersionsIn, RevisionsIn
  <2> QED
    BY <2>1
<1>4. \A v \in 1..k : chosen(v).body \in Bodies
  BY <1>3 DEF History, RevisionRow
<1>5. ASSUME NEW r \in RevisionsIn(table, n)
      PROVE  r.version \in 1..k /\ chosen(r.version) = r
  <2>1. r \in table /\ r.gadget = n /\ r.version \in 1..k
    BY DEF RevisionsIn, History, VersionsIn
  <2> QED
    BY <2>1, <1>3 DEF History, Unique
<1> HIDE DEF chosen
<1> QED
  BY <1>2, <1>4, <1>5

\* Every snapshot of the one history is in the other.
Covers(table, n, after, m) ==
  \A r \in RevisionsIn(table, n) :
    \E s \in RevisionsIn(after, m) : s.version = r.version /\ s.body = r.body

\* Two histories of one length with the same snapshots read the same.
LEMMA SameHistory ==
  ASSUME NEW table, NEW n, NEW after, NEW m, NEW k \in Nat,
         History(table, n, k), History(after, m, k), Covers(table, n, after, m)
  PROVE  HistoryIn(after, m) = HistoryIn(table, n)
<1> DEFINE old == HistoryIn(table, n)
           new == HistoryIn(after, m)
<1>1. /\ old \in Seq(Bodies) /\ Len(old) = k
      /\ \A r \in RevisionsIn(table, n) : old[r.version] = r.body
  BY HistoryIs
<1>2. /\ new \in Seq(Bodies) /\ Len(new) = k
      /\ \A s \in RevisionsIn(after, m) : new[s.version] = s.body
  BY HistoryIs
<1>3. \A v \in 1..k : \E r \in RevisionsIn(table, n) : r.version = v
  BY DEF History, VersionsIn
<1> HIDE DEF old, new
<1>4. \A v \in 1..k : new[v] = old[v]
  BY <1>1, <1>2, <1>3 DEF Covers
<1>5. new = old
  BY <1>1, <1>2, <1>4, SeqEqual
<1> QED
  BY <1>5 DEF old, new

\* One snapshot more reads as one body appended.
LEMMA LongerHistory ==
  ASSUME NEW table, NEW n, NEW after, NEW m, NEW k \in Nat, NEW b \in Bodies,
         History(table, n, k), History(after, m, k + 1), Covers(table, n, after, m),
         \E s \in RevisionsIn(after, m) : s.version = k + 1 /\ s.body = b
  PROVE  HistoryIn(after, m) = Append(HistoryIn(table, n), b)
<1> DEFINE old == HistoryIn(table, n)
           new == HistoryIn(after, m)
           longer == Append(old, b)
<1>1. /\ old \in Seq(Bodies) /\ Len(old) = k
      /\ \A r \in RevisionsIn(table, n) : old[r.version] = r.body
  BY HistoryIs
<1>2. k + 1 \in Nat
  OBVIOUS
<1>3. /\ new \in Seq(Bodies) /\ Len(new) = k + 1
      /\ \A s \in RevisionsIn(after, m) : new[s.version] = s.body
  BY <1>2, HistoryIs
<1>4. \A v \in 1..k : \E r \in RevisionsIn(table, n) : r.version = v
  BY DEF History, VersionsIn
<1> HIDE DEF old, new
<1>5. \A v \in 1..k : new[v] = old[v]
  BY <1>1, <1>3, <1>4 DEF Covers
<1>6. new[k + 1] = b
  BY <1>3
<1>7. /\ longer \in Seq(Bodies) /\ Len(longer) = k + 1 /\ longer[k + 1] = b
      /\ \A v \in 1..k : longer[v] = old[v]
  BY <1>1
<1> HIDE DEF longer
<1>8. \A v \in 1..(k + 1) : new[v] = longer[v]
  BY <1>5, <1>6, <1>7
<1>9. new = longer
  BY <1>3, <1>7, <1>8, SeqEqual
<1> QED
  BY <1>9 DEF old, new, longer

\* #writeRevision makes a history one longer and keeps what it had.
LEMMA GrownHistory ==
  ASSUME NEW table, NEW n \in Names, NEW b \in Bodies, NEW k \in Nat, History(table, n, k)
  PROVE  LET after == WithRevision(table, n, b)
         IN  /\ History(after, n, k + 1)
             /\ RevisionsIn(table, n) \subseteq RevisionsIn(after, n)
             /\ \E s \in RevisionsIn(after, n) : s.version = k + 1 /\ s.body = b
<1> DEFINE after == WithRevision(table, n, b)
           row == NewRow(n, k, b)
<1>1. after = table \cup {row}
  BY WithRevisionAdds
<1>2. row \in RevisionRow /\ row.gadget = n /\ row.version = k + 1 /\ row.body = b
  BY DEF NewRow, RevisionRow
<1> HIDE DEF after, row
<1>3. RevisionsIn(after, n) = RevisionsIn(table, n) \cup {row}
  BY <1>1, <1>2 DEF RevisionsIn
<1>4. VersionsIn(after, n) = 1..(k + 1)
  <2>1. VersionsIn(after, n) = VersionsIn(table, n) \cup {k + 1}
    BY <1>2, <1>3 DEF VersionsIn
  <2>2. (1..k) \cup {k + 1} = 1..(k + 1)
    OBVIOUS
  <2> QED
    BY <2>1, <2>2 DEF History
<1>5. Unique(after)
  <2>1. \A r \in table : r.gadget = n => r.version \in 1..k
    BY DEF History, VersionsIn, RevisionsIn
  <2>2. \A r \in table : r.gadget = n => r.version # k + 1
    BY <2>1
  <2> QED
    BY <1>1, <1>2, <2>2 DEF Unique, History
<1>6. after \subseteq RevisionRow
  BY <1>1, <1>2 DEF History
<1> QED
  BY <1>2, <1>3, <1>4, <1>5, <1>6 DEF History, after

\* ... and reads as its body appended.
LEMMA GrownReads ==
  ASSUME NEW table, NEW n \in Names, NEW b \in Bodies, NEW k \in Nat, History(table, n, k)
  PROVE  HistoryIn(WithRevision(table, n, b), n) = Append(HistoryIn(table, n), b)
<1> DEFINE after == WithRevision(table, n, b)
<1>1. /\ History(after, n, k + 1)
      /\ RevisionsIn(table, n) \subseteq RevisionsIn(after, n)
      /\ \E s \in RevisionsIn(after, n) : s.version = k + 1 /\ s.body = b
  BY GrownHistory
<1> HIDE DEF after
<1>2. Covers(table, n, after, n)
  BY <1>1 DEF Covers
<1>3. HistoryIn(after, n) = Append(HistoryIn(table, n), b)
  BY <1>1, <1>2, LongerHistory
<1> QED
  BY <1>3 DEF after

----------------------------------------------------------------------------
(* The library that the tables stand for, at one rowid.                    *)

\* The id and the history at a rowid are those of the row that has it.
LEMMA AtRow ==
  ASSUME NEW g, NEW table, NEW rid \in RowIds, DistinctIn(g)
  PROVE  /\ \A n \in LiveIn(g) : g[n].rowid = rid =>
               IdsIn(g)[rid] = n /\ HistoriesIn(g, table)[rid] = HistoryIn(table, n)
         /\ (\A n \in LiveIn(g) : g[n].rowid # rid) =>
               IdsIn(g)[rid] = NoName /\ HistoriesIn(g, table)[rid] = <<>>
<1>1. \A n \in LiveIn(g) : n # NoName
  BY NamesAssumption DEF LiveIn
<1> QED
  BY <1>1, IdIs DEF IdsIn, HistoriesIn

\* Where one row has a rowid before and after a step, under one id and with
\* histories that read the same, the library keeps id and history.
LEMMA RowKept ==
  ASSUME NEW g, NEW table, NEW h, NEW after, NEW rid \in RowIds,
         DistinctIn(g), DistinctIn(h),
         \A n \in LiveIn(g) : g[n].rowid = rid => n \in LiveIn(h) /\ h[n].rowid = rid,
         \A n \in LiveIn(h) : h[n].rowid = rid => n \in LiveIn(g) /\ g[n].rowid = rid,
         \A n \in LiveIn(g) : g[n].rowid = rid => HistoryIn(after, n) = HistoryIn(table, n)
  PROVE  IdsIn(h)[rid] = IdsIn(g)[rid] /\ HistoriesIn(h, after)[rid] = HistoriesIn(g, table)[rid]
<1>1. CASE \E n \in LiveIn(g) : g[n].rowid = rid
  <2>1. PICK n \in LiveIn(g) : g[n].rowid = rid
    BY <1>1
  <2>2. IdsIn(g)[rid] = n /\ HistoriesIn(g, table)[rid] = HistoryIn(table, n)
    BY <2>1, AtRow
  <2>3. IdsIn(h)[rid] = n /\ HistoriesIn(h, after)[rid] = HistoryIn(after, n)
    BY <2>1, AtRow
  <2> QED
    BY <2>1, <2>2, <2>3
<1>2. CASE \A n \in LiveIn(g) : g[n].rowid # rid
  BY <1>2, AtRow
<1> QED
  BY <1>1, <1>2

\* The invariant, read of the tables before and after a step.
LEMMA Readable ==
  ASSUME IInv, IInv'
  PROVE  /\ LiveIn(gadgets) = LiveIds /\ LiveIn(gadgets') = LiveIds'
         /\ DistinctIn(gadgets) /\ DistinctIn(gadgets')
         /\ \A n \in LiveIds : n \in Names /\ gadgets[n] \in Row /\ gadgets[n].rowid \in RowIds
         /\ revisions' \subseteq RevisionRow /\ Unique(revisions')
<1>1. LiveIn(gadgets) = LiveIds /\ LiveIn(gadgets') = LiveIds'
  BY DEF LiveIn, LiveIds, Live
<1>2. DistinctIn(gadgets) /\ DistinctIn(gadgets')
  BY <1>1 DEF DistinctIn, IInv, RowidsDistinct
<1>3. \A n \in LiveIds : n \in Names /\ gadgets[n] \in Row /\ gadgets[n].rowid \in RowIds
  BY DEF IInv, TypeOK, LiveIds, Live, Row
<1>4. revisions' \subseteq RevisionRow /\ Unique(revisions')
  BY DEF IInv, TypeOK, SnapshotsUnique, Unique
<1> QED
  BY <1>1, <1>2, <1>3, <1>4

\* A gadget none of whose snapshots a step touches keeps its history.
LEMMA UntouchedHistory ==
  ASSUME IInv, IInv', NEW n \in LiveIds, RevisionsIn(revisions', n) = RevisionsIn(revisions, n)
  PROVE  HistoryIn(revisions', n) = HistoryIn(revisions, n)
<1>1. n \in Names /\ Live(n)
  BY DEF LiveIds
<1>2. PICK k \in Nat : History(revisions, n, k)
  BY <1>1, LiveHistory
<1>3. History(revisions', n, k)
  BY <1>2, Readable DEF History, VersionsIn
<1>4. Covers(revisions, n, revisions', n)
  BY DEF Covers
<1> QED
  BY <1>2, <1>3, <1>4, SameHistory

----------------------------------------------------------------------------
(* The library's variables, as GadgetStore substitutes them.               *)

Entities == [n \in Names |-> IF Resolve(n) = NoRow THEN NoRow ELSE Resolve(n).rowid]

Ids == [rid \in RowIds |-> IdOfRow(rid)]

Histories ==
  [rid \in RowIds |-> IF IdOfRow(rid) = NoName THEN <<>> ELSE HistoryOf(IdOfRow(rid))]

\* They are what is read off the tables, before and after a step.
LEMMA ReadingIs ==
  /\ Entities = EntitiesIn(gadgets, aliases) /\ Entities' = EntitiesIn(gadgets', aliases')
  /\ Ids = IdsIn(gadgets) /\ Ids' = IdsIn(gadgets')
  /\ Histories = HistoriesIn(gadgets, revisions)
  /\ Histories' = HistoriesIn(gadgets', revisions')
<1>1. Entities = EntitiesIn(gadgets, aliases) /\ Entities' = EntitiesIn(gadgets', aliases')
  BY DEF Entities, EntitiesIn, EntityIn, Resolve, Live
<1>2. \A rid : IdOfRow(rid) = IdIn(gadgets, rid)
  BY DEF IdOfRow, IdIn, LiveIds, Live, LiveIn
<1>3. \A rid : IdOfRow(rid)' = IdIn(gadgets', rid)
  BY DEF IdOfRow, IdIn, LiveIds, Live, LiveIn
<1>4. Ids = IdsIn(gadgets) /\ Ids' = IdsIn(gadgets')
  BY <1>2, <1>3 DEF Ids, IdsIn
<1>5. Histories = HistoriesIn(gadgets, revisions)
  <2>1. \A n : HistoryOf(n) = HistoryIn(revisions, n)
    BY DEF HistoryOf, HistoryIn, BodyAt
  <2> QED
    BY <1>2, <2>1 DEF Histories, HistoriesIn
<1>6. Histories' = HistoriesIn(gadgets', revisions')
  <2>1. Histories' = [rid \in RowIds |->
                        IF IdOfRow(rid)' = NoName THEN <<>> ELSE HistoryOf(IdOfRow(rid))']
    BY DEF Histories
  <2>2. \A rid : HistoryOf(IdOfRow(rid))' = HistoryIn(revisions', IdIn(gadgets', rid))
    BY DEF HistoryOf, HistoryIn, BodyAt, IdOfRow, IdIn, LiveIds, Live, LiveIn
  <2> QED
    BY <1>3, <2>1, <2>2 DEF HistoriesIn
<1> QED
  BY <1>1, <1>4, <1>5, <1>6

\* The library's actions, over these names for its variables.
LEMMA LibraryActions ==
  /\ \A e, n, b : Library!Create(e, n, b) <=>
       /\ Ids[e] = NoName /\ Entities[n] = NoRow
       /\ Entities' = [Entities EXCEPT ![n] = e]
       /\ Ids' = [Ids EXCEPT ![e] = n]
       /\ Histories' = [Histories EXCEPT ![e] = <<b>>]
  /\ \A e, b : Library!Save(e, b) <=>
       /\ Ids[e] # NoName
       /\ Histories' = [Histories EXCEPT ![e] = Append(@, b)]
       /\ Entities' = Entities /\ Ids' = Ids
  /\ \A e : Library!Drop(e) <=>
       /\ Ids[e] # NoName
       /\ Entities' = [n \in Names |-> IF Entities[n] = e THEN NoRow ELSE Entities[n]]
       /\ Ids' = [Ids EXCEPT ![e] = NoName]
       /\ Histories' = [Histories EXCEPT ![e] = <<>>]
  /\ \A e, n : Library!Rename(e, n) <=>
       /\ Ids[e] # NoName /\ n # Ids[e] /\ Entities[n] \in {NoRow, e}
       /\ Cardinality({m \in Names : Entities[m] = e} \cup {n}) <= MaxAliases + 1
       /\ Entities' = [Entities EXCEPT ![n] = e]
       /\ Ids' = [Ids EXCEPT ![e] = n]
       /\ Histories' = [Histories EXCEPT ![e] = Append(@, @[Len(@)])]
<1>1. \A e, n, b : Library!Create(e, n, b) <=>
        /\ Ids[e] = NoName /\ Entities[n] = NoRow
        /\ Entities' = [Entities EXCEPT ![n] = e]
        /\ Ids' = [Ids EXCEPT ![e] = n]
        /\ Histories' = [Histories EXCEPT ![e] = <<b>>]
  BY DEF Library!Create, Library!InUse, Entities, Ids, Histories
<1>2. \A e, b : Library!Save(e, b) <=>
        /\ Ids[e] # NoName
        /\ Histories' = [Histories EXCEPT ![e] = Append(@, b)]
        /\ Entities' = Entities /\ Ids' = Ids
  BY DEF Library!Save, Library!InUse, Entities, Ids, Histories
<1>3. \A e : Library!Drop(e) <=>
        /\ Ids[e] # NoName
        /\ Entities' = [n \in Names |-> IF Entities[n] = e THEN NoRow ELSE Entities[n]]
        /\ Ids' = [Ids EXCEPT ![e] = NoName]
        /\ Histories' = [Histories EXCEPT ![e] = <<>>]
  BY DEF Library!Drop, Library!InUse, Entities, Ids, Histories
<1>4. \A e, n : Library!Rename(e, n) <=>
        /\ Ids[e] # NoName /\ n # Ids[e] /\ Entities[n] \in {NoRow, e}
        /\ Cardinality({m \in Names : Entities[m] = e} \cup {n}) <= MaxAliases + 1
        /\ Entities' = [Entities EXCEPT ![n] = e]
        /\ Ids' = [Ids EXCEPT ![e] = n]
        /\ Histories' = [Histories EXCEPT ![e] = Append(@, @[Len(@)])]
  <2>1. \A e : Library!NamesOf(e) = {m \in Names : Entities[m] = e}
    BY DEF Library!NamesOf, Entities
  <2>2. \A e : Library!InUse(e) <=> Ids[e] # NoName
    BY DEF Library!InUse, Ids
  <2> SUFFICES ASSUME NEW e, NEW n
               PROVE  Library!Rename(e, n) <=>
                        /\ Library!InUse(e) /\ n # Ids[e] /\ Entities[n] \in {NoRow, e}
                        /\ Cardinality(Library!NamesOf(e) \cup {n}) <= MaxAliases + 1
                        /\ Entities' = [Entities EXCEPT ![n] = e]
                        /\ Ids' = [Ids EXCEPT ![e] = n]
                        /\ Histories' = [Histories EXCEPT ![e] = Append(@, @[Len(@)])]
    BY <2>1, <2>2
  <2>3. Library!Cardinality(Library!NamesOf(e) \cup {n}) = Cardinality(Library!NamesOf(e) \cup {n})
    BY DEF Library!Cardinality, Cardinality, Library!IsFiniteSet, IsFiniteSet
  <2> QED
    BY <2>3 DEF Library!Rename, Entities, Ids, Histories
<1> QED
  BY <1>1, <1>2, <1>3, <1>4

----------------------------------------------------------------------------
(* Each write is one action of the library.                                *)

\* put or add of a new id creates an entity.
LEMMA InsertionCreates ==
  ASSUME IInv, IInv', NEW id \in Names, NEW b \in Bodies, Insertion(id, b)
  PROVE  Library!Create(gadgets'[id].rowid, id, b)
<1> DEFINE e == gadgets'[id].rowid
<1>1. /\ aliases[id] = NoName /\ ~Live(id) /\ aliases' = aliases
      /\ e \in RowIds /\ e \notin LiveRowIds
      /\ gadgets'[id] # NoRow
      /\ \A n \in Names : n # id => gadgets'[n] = gadgets[n]
      /\ LiveIds' = LiveIds \cup {id} /\ id \notin LiveIds
  BY InsertionEffect, RowsAssumption DEF Row, LiveIds
<1>2. \A n \in LiveIds : gadgets[n].rowid # e /\ n \in Names /\ n # id
  BY <1>1 DEF LiveRowIds, LiveIds
<1>3. revisions' = WithRevision(revisions, id, b)
  BY DEF Insertion, InsertGadget
<1>4. History(revisions, id, 0)
  <2>1. RevisionsIn(revisions, id) = {}
    BY <1>1 DEF IInv, VersionsContiguous
  <2>2. VersionsIn(revisions, id) = 1..0
    BY <2>1 DEF VersionsIn
  <2> QED
    BY <2>2 DEF History, IInv, TypeOK, SnapshotsUnique, Unique
<1>5. HistoryIn(revisions', id) = <<b>>
  <2>1. HistoryIn(revisions', id) = Append(HistoryIn(revisions, id), b)
    BY <1>3, <1>4, GrownReads
  <2>2. HistoryIn(revisions, id) \in Seq(Bodies) /\ Len(HistoryIn(revisions, id)) = 0
    BY <1>4, HistoryIs
  <2>3. HistoryIn(revisions, id) = <<>>
    BY <2>2
  <2> QED
    BY <2>1, <2>3
<1>6. \A n \in LiveIds : RevisionsIn(revisions', n) = RevisionsIn(revisions, n)
  BY <1>2, <1>3, <1>4, WithRevisionAdds DEF RevisionsIn, NewRow
<1> DEFINE Ent == EntitiesIn(gadgets, aliases)
           EntP == EntitiesIn(gadgets', aliases')
           Id == IdsIn(gadgets)
           IdP == IdsIn(gadgets')
           Hist == HistoriesIn(gadgets, revisions)
           HistP == HistoriesIn(gadgets', revisions')
<1>7. EntityIn(gadgets, aliases, id) = NoRow /\ EntityIn(gadgets', aliases', id) = e
  BY <1>1 DEF EntityIn, Live
<1>8. \A n \in Names : n # id =>
        EntityIn(gadgets', aliases', n) = EntityIn(gadgets, aliases, n)
  <2> SUFFICES ASSUME NEW n \in Names, n # id
               PROVE  EntityIn(gadgets', aliases', n) = EntityIn(gadgets, aliases, n)
    OBVIOUS
  <2>1. gadgets'[n] = gadgets[n] /\ aliases'[n] = aliases[n]
    BY <1>1
  <2>2. CASE gadgets[n] = NoRow /\ aliases[n] # NoName
    <3>1. aliases[n] \in LiveIds
      BY <2>2 DEF IInv, NamesUnambiguous, TypeOK, LiveIds
    <3>2. gadgets'[aliases[n]] = gadgets[aliases[n]]
      BY <1>1, <1>2, <3>1
    <3> QED
      BY <2>1, <2>2, <3>2 DEF EntityIn
  <2>3. CASE gadgets[n] # NoRow \/ aliases[n] = NoName
    BY <2>1, <2>3 DEF EntityIn
  <2> QED
    BY <2>2, <2>3
<1>9. Ent[id] = NoRow /\ EntP = [Ent EXCEPT ![id] = e]
  BY <1>7, <1>8 DEF EntitiesIn
<1>10. Id[e] = NoName /\ Hist[e] = <<>>
  BY <1>1, <1>2, AtRow, Readable
<1>11. IdP[e] = id /\ HistP[e] = <<b>>
  BY <1>1, <1>5, AtRow, Readable
<1>12. \A rid \in RowIds : rid # e => IdP[rid] = Id[rid] /\ HistP[rid] = Hist[rid]
  <2> SUFFICES ASSUME NEW rid \in RowIds, rid # e
               PROVE  IdP[rid] = Id[rid] /\ HistP[rid] = Hist[rid]
    OBVIOUS
  <2>1. \A n \in LiveIn(gadgets) : gadgets[n].rowid = rid =>
          n \in LiveIn(gadgets') /\ gadgets'[n].rowid = rid
    BY <1>1, <1>2, Readable
  <2>2. \A n \in LiveIn(gadgets') : gadgets'[n].rowid = rid =>
          n \in LiveIn(gadgets) /\ gadgets[n].rowid = rid
    BY <1>1, <1>2, Readable
  <2>3. \A n \in LiveIn(gadgets) : HistoryIn(revisions', n) = HistoryIn(revisions, n)
    BY <1>6, UntouchedHistory, Readable
  <2> QED
    BY <2>1, <2>2, <2>3, RowKept, Readable
<1>13. IdP = [Id EXCEPT ![e] = id] /\ HistP = [Hist EXCEPT ![e] = <<b>>]
  BY <1>11, <1>12 DEF IdsIn, HistoriesIn
<1> HIDE DEF e
<1>14. /\ Ids[e] = NoName /\ Entities[id] = NoRow
       /\ Entities' = [Entities EXCEPT ![id] = e]
       /\ Ids' = [Ids EXCEPT ![e] = id]
       /\ Histories' = [Histories EXCEPT ![e] = <<b>>]
  BY <1>9, <1>10, <1>13, ReadingIs
<1>15. Library!Create(e, id, b)
  BY <1>14, LibraryActions
<1> QED
  BY <1>15 DEF e

\* put of a live id, and a rollback, save.
LEMMA UpdatingSaves ==
  ASSUME IInv, IInv', NEW id \in Names, NEW b \in Bodies, Updating(id, b)
  PROVE  Library!Save(gadgets[id].rowid, b)
<1> DEFINE e == gadgets[id].rowid
           Ent == EntitiesIn(gadgets, aliases)
           EntP == EntitiesIn(gadgets', aliases')
           Id == IdsIn(gadgets)
           IdP == IdsIn(gadgets')
           Hist == HistoriesIn(gadgets, revisions)
           HistP == HistoriesIn(gadgets', revisions')
<1>0. /\ LiveIn(gadgets) = LiveIds /\ LiveIn(gadgets') = LiveIds'
      /\ DistinctIn(gadgets) /\ DistinctIn(gadgets')
  BY Readable
<1>1. /\ Live(id) /\ aliases' = aliases
      /\ e \in RowIds
      /\ \A n \in Names : gadgets'[n] # NoRow <=> gadgets[n] # NoRow
      /\ LiveIds' = LiveIds /\ id \in LiveIds
      /\ \A n \in LiveIds : n \in Names /\ gadgets'[n].rowid = gadgets[n].rowid
  BY UpdatingEffect DEF Row, Live
<1>2. \A n \in LiveIds : gadgets[n].rowid = e => n = id
  BY <1>1 DEF IInv, RowidsDistinct
<1>3. revisions' = WithRevision(revisions, id, b)
  BY DEF Updating, UpdateGadget
<1>4. PICK k \in Nat : History(revisions, id, k)
  BY <1>1, LiveHistory
<1>5. HistoryIn(revisions', id) = Append(HistoryIn(revisions, id), b)
  BY <1>3, <1>4, GrownReads
<1>6. \A n \in LiveIds : n # id => RevisionsIn(revisions', n) = RevisionsIn(revisions, n)
  BY <1>3, <1>4, WithRevisionAdds DEF RevisionsIn, NewRow
<1>7. \A n \in Names : EntityIn(gadgets', aliases', n) = EntityIn(gadgets, aliases, n)
  <2> SUFFICES ASSUME NEW n \in Names
               PROVE  EntityIn(gadgets', aliases', n) = EntityIn(gadgets, aliases, n)
    OBVIOUS
  <2>1. CASE gadgets[n] # NoRow
    BY <1>1, <2>1 DEF EntityIn, LiveIds, Live
  <2>2. CASE gadgets[n] = NoRow /\ aliases[n] # NoName
    <3>1. aliases[n] \in LiveIds /\ gadgets[aliases[n]] # NoRow
      BY <2>2 DEF IInv, NamesUnambiguous, TypeOK, LiveIds, Live
    <3> QED
      BY <1>1, <2>2, <3>1 DEF EntityIn
  <2>3. CASE gadgets[n] = NoRow /\ aliases[n] = NoName
    BY <1>1, <2>3 DEF EntityIn
  <2> QED
    BY <2>1, <2>2, <2>3
<1>8. EntP = Ent
  BY <1>7 DEF EntitiesIn
<1>9. /\ Id[e] = id /\ Hist[e] = HistoryIn(revisions, id)
      /\ IdP[e] = id /\ HistP[e] = HistoryIn(revisions', id)
  <2>1. Id[e] = id /\ Hist[e] = HistoryIn(revisions, id)
    BY <1>0, <1>1, AtRow
  <2>2. id \in LiveIn(gadgets') /\ gadgets'[id].rowid = e
    BY <1>0, <1>1
  <2>3. IdP[e] = id /\ HistP[e] = HistoryIn(revisions', id)
    BY <1>0, <1>1, <2>2, AtRow
  <2> QED
    BY <2>1, <2>3
<1>10. \A rid \in RowIds : rid # e => IdP[rid] = Id[rid] /\ HistP[rid] = Hist[rid]
  <2> SUFFICES ASSUME NEW rid \in RowIds, rid # e
               PROVE  IdP[rid] = Id[rid] /\ HistP[rid] = Hist[rid]
    OBVIOUS
  <2>1. \A n \in LiveIds : gadgets[n].rowid = rid =>
          HistoryIn(revisions', n) = HistoryIn(revisions, n)
    BY <1>6, UntouchedHistory
  <2> QED
    BY <1>0, <1>1, <2>1, RowKept
<1>11. IdP = Id /\ HistP = [Hist EXCEPT ![e] = Append(@, b)]
  BY <1>5, <1>9, <1>10 DEF IdsIn, HistoriesIn
<1> HIDE DEF e
<1>12. Ids[e] # NoName
  BY <1>9, ReadingIs, NamesAssumption
<1>13. /\ Histories' = [Histories EXCEPT ![e] = Append(@, b)]
       /\ Entities' = Entities /\ Ids' = Ids
  BY <1>8, <1>11, ReadingIs
<1>14. Library!Save(e, b)
  BY <1>12, <1>13, LibraryActions
<1> QED
  BY <1>14 DEF e

\* delete drops an entity, with all of its names.
LEMMA DeletionDrops ==
  ASSUME IInv, IInv', NEW id \in Names, Deletion(id)
  PROVE  Library!Drop(gadgets[id].rowid)
<1> DEFINE e == gadgets[id].rowid
           Ent == EntitiesIn(gadgets, aliases)
           EntP == EntitiesIn(gadgets', aliases')
           Id == IdsIn(gadgets)
           IdP == IdsIn(gadgets')
           Hist == HistoriesIn(gadgets, revisions)
           HistP == HistoriesIn(gadgets', revisions')
<1>0. /\ LiveIn(gadgets) = LiveIds /\ LiveIn(gadgets') = LiveIds'
      /\ DistinctIn(gadgets) /\ DistinctIn(gadgets')
  BY Readable
<1>1. /\ gadgets'[id] = NoRow /\ gadgets[id] # NoRow
      /\ \A n \in Names : n # id => gadgets'[n] = gadgets[n]
      /\ LiveIds' = LiveIds \ {id} /\ id \in LiveIds
      /\ \A a \in Names : aliases'[a] = IF aliases[a] = id THEN NoName ELSE aliases[a]
  BY DeletionEffect DEF Deletion, Live
<1>2. /\ \A n \in LiveIds : n \in Names /\ (gadgets[n].rowid = e => n = id)
      /\ \A n \in LiveIds : gadgets[n] # NoRow /\ gadgets[n].rowid \in RowIds
  BY <1>1, Readable, RowsAssumption DEF IInv, RowidsDistinct
<1>3. revisions' = revisions \ RevisionsIn(revisions, id)
  BY DEF Deletion, DeleteGadget
<1>4. \A n \in LiveIds' : RevisionsIn(revisions', n) = RevisionsIn(revisions, n)
  BY <1>1, <1>3 DEF RevisionsIn
<1>5. \A n \in Names : EntityIn(gadgets', aliases', n) =
        IF EntityIn(gadgets, aliases, n) = e THEN NoRow ELSE EntityIn(gadgets, aliases, n)
  <2> SUFFICES ASSUME NEW n \in Names
               PROVE  EntityIn(gadgets', aliases', n) =
                        IF EntityIn(gadgets, aliases, n) = e THEN NoRow
                        ELSE EntityIn(gadgets, aliases, n)
    OBVIOUS
  <2>1. CASE n = id
    <3>1. aliases[id] = NoName
      BY <1>1 DEF IInv, NamesUnambiguous, Live
    <3>2. EntityIn(gadgets, aliases, id) = e
      BY <1>1 DEF EntityIn
    <3>3. aliases'[id] = NoName
      BY <1>1, <3>1
    <3> QED
      BY <1>1, <2>1, <3>2, <3>3 DEF EntityIn
  <2>2. CASE n # id /\ gadgets[n] # NoRow
    <3>1. n \in LiveIds
      BY <2>2 DEF LiveIds, Live
    <3> QED
      BY <1>1, <1>2, <2>2, <3>1 DEF EntityIn
  <2>3. CASE n # id /\ gadgets[n] = NoRow /\ aliases[n] # NoName
    <3>1. aliases[n] \in LiveIds
      BY <2>3 DEF IInv, NamesUnambiguous, TypeOK, LiveIds, Live
    <3>2. EntityIn(gadgets, aliases, n) = gadgets[aliases[n]].rowid
      BY <1>2, <2>3, <3>1 DEF EntityIn
    <3>3. CASE aliases[n] = id
      BY <1>1, <2>3, <3>2, <3>3 DEF EntityIn
    <3>4. CASE aliases[n] # id
      BY <1>1, <1>2, <2>3, <3>1, <3>2, <3>4 DEF EntityIn
    <3> QED
      BY <3>3, <3>4
  <2>4. CASE n # id /\ gadgets[n] = NoRow /\ aliases[n] = NoName
    BY <1>1, <2>4 DEF EntityIn
  <2> QED
    BY <2>1, <2>2, <2>3, <2>4
<1>6. EntP = [n \in Names |-> IF Ent[n] = e THEN NoRow ELSE Ent[n]]
  BY <1>5 DEF EntitiesIn
<1>7. Id[e] = id /\ Hist[e] = HistoryIn(revisions, id) /\ e \in RowIds
  BY <1>0, <1>1, <1>2, AtRow
<1>8. IdP[e] = NoName /\ HistP[e] = <<>>
  <2>1. \A n \in LiveIn(gadgets') : gadgets'[n].rowid # e
    BY <1>0, <1>1, <1>2
  <2> QED
    BY <1>0, <1>7, <2>1, AtRow
<1>9. \A rid \in RowIds : rid # e => IdP[rid] = Id[rid] /\ HistP[rid] = Hist[rid]
  <2> SUFFICES ASSUME NEW rid \in RowIds, rid # e
               PROVE  IdP[rid] = Id[rid] /\ HistP[rid] = Hist[rid]
    OBVIOUS
  <2>1. \A n \in LiveIn(gadgets) : gadgets[n].rowid = rid =>
          n \in LiveIn(gadgets') /\ gadgets'[n].rowid = rid
    BY <1>0, <1>1, <1>2
  <2>2. \A n \in LiveIn(gadgets') : gadgets'[n].rowid = rid =>
          n \in LiveIn(gadgets) /\ gadgets[n].rowid = rid
    BY <1>0, <1>1, <1>2
  <2>3. \A n \in LiveIn(gadgets) : gadgets[n].rowid = rid =>
          HistoryIn(revisions', n) = HistoryIn(revisions, n)
    BY <1>0, <1>1, <1>4, UntouchedHistory
  <2> QED
    BY <1>0, <2>1, <2>2, <2>3, RowKept
<1>10. IdP = [Id EXCEPT ![e] = NoName] /\ HistP = [Hist EXCEPT ![e] = <<>>]
  BY <1>8, <1>9 DEF IdsIn, HistoriesIn
<1> HIDE DEF e
<1>11. Ids[e] # NoName
  BY <1>7, ReadingIs, NamesAssumption
<1>12. /\ Entities' = [n \in Names |-> IF Entities[n] = e THEN NoRow ELSE Entities[n]]
       /\ Ids' = [Ids EXCEPT ![e] = NoName]
       /\ Histories' = [Histories EXCEPT ![e] = <<>>]
  BY <1>6, <1>10, ReadingIs
<1>13. Library!Drop(e)
  BY <1>11, <1>12, LibraryActions
<1> QED
  BY <1>13 DEF e

\* A rename reads the history over to the new id and appends the body that
\* the gadget has, which is the last one of the history.
LEMMA RenamedHistory ==
  ASSUME IInv, NEW id \in Names, NEW newId \in Names, Renaming(id, newId)
  PROVE  LET old == HistoryIn(revisions, id)
         IN  /\ HistoryIn(revisions', newId) = Append(old, old[Len(old)])
             /\ \A n : n # id /\ n # newId =>
                  RevisionsIn(revisions', n) = RevisionsIn(revisions, n)
<1> DEFINE moved == MovedRevisions(id, newId)
           old == HistoryIn(revisions, id)
           body == gadgets[id].body
<1>1. newId # id /\ Live(id) /\ ~Live(newId) /\ id \in LiveIds /\ body \in Bodies
  BY RenamingEffect DEF Row
<1>2. revisions' = WithRevision(moved, newId, body)
  BY DEF Renaming, RenameGadget
<1>3. PICK k \in 1..VersionBound : VersionsIn(revisions, id) = 1..k
  BY <1>1 DEF IInv, VersionsContiguous
<1>4. k \in Nat /\ k >= 1 /\ History(revisions, id, k)
  BY <1>3, BoundsAssumption DEF History, IInv, TypeOK, SnapshotsUnique, Unique
<1>5. RevisionsIn(revisions, newId) = {}
  BY <1>1 DEF IInv, VersionsContiguous
<1>6. /\ moved \subseteq RevisionRow
      /\ VersionsIn(moved, newId) = VersionsIn(revisions, id)
      /\ \A m : m # id /\ m # newId => RevisionsIn(moved, m) = RevisionsIn(revisions, m)
      /\ Unique(moved)
  BY <1>1, <1>5, MovedRevisionsFollow DEF IInv
<1>7. Covers(revisions, id, moved, newId)
  <2> SUFFICES ASSUME NEW r \in RevisionsIn(revisions, id)
               PROVE  \E s \in RevisionsIn(moved, newId) :
                        s.version = r.version /\ s.body = r.body
    BY DEF Covers
  <2> DEFINE s == [r EXCEPT !.gadget = IF @ = id THEN newId ELSE @]
  <2>1. r \in revisions /\ r.gadget = id /\ r \in RevisionRow
    BY DEF RevisionsIn, IInv, TypeOK
  <2>2. s \in moved
    BY <2>1 DEF MovedRevisions
  <2>3. s.gadget = newId /\ s.version = r.version /\ s.body = r.body
    BY <2>1 DEF RevisionRow
  <2> HIDE DEF s, moved
  <2> QED
    BY <2>2, <2>3 DEF RevisionsIn
<1> HIDE DEF moved, body
<1>8. History(moved, newId, k)
  BY <1>4, <1>6 DEF History
<1>9. HistoryIn(moved, newId) = old
  BY <1>4, <1>7, <1>8, SameHistory
<1>10. HistoryIn(revisions', newId) = Append(HistoryIn(moved, newId), body)
  BY <1>1, <1>2, <1>4, <1>8, GrownReads
<1>11. old[Len(old)] = body
  <2>1. Len(old) = k /\ \A r \in RevisionsIn(revisions, id) : old[r.version] = r.body
    BY <1>4, HistoryIs
  <2>2. PICK r \in RevisionsIn(revisions, id) :
          (\A s \in RevisionsIn(revisions, id) : s.version <= r.version) /\ r.body = body
    BY <1>1 DEF IInv, HeadIsNewestRevision, body
  <2>3. r.version \in 1..k /\ k \in VersionsIn(revisions, id)
    BY <1>3, <1>4 DEF VersionsIn
  <2>4. k <= r.version
    BY <2>2, <2>3 DEF VersionsIn
  <2>5. r.version = k
    BY <1>4, <2>3, <2>4
  <2> HIDE DEF old
  <2> QED
    BY <2>1, <2>2, <2>5
<1>12. \A n : n # id /\ n # newId => RevisionsIn(revisions', n) = RevisionsIn(revisions, n)
  BY <1>2, <1>4, <1>6, <1>8, WithRevisionAdds DEF RevisionsIn, NewRow
<1> QED
  BY <1>9, <1>10, <1>11, <1>12

\* The names of an entity are its id and the aliases of it.
LEMMA NamesCounted ==
  ASSUME IInv, NEW id \in LiveIds, NEW newId \in Names,
         Cardinality(AliasesOf(id)) < MaxAliases
  PROVE  Cardinality({m \in Names : EntityIn(gadgets, aliases, m) = gadgets[id].rowid}
                       \cup {newId}) <= MaxAliases + 1
<1> DEFINE names == {m \in Names : EntityIn(gadgets, aliases, m) = gadgets[id].rowid}
           known == AliasesOf(id)
<1>1. names \subseteq known \cup {id}
  <2> SUFFICES ASSUME NEW m \in Names, EntityIn(gadgets, aliases, m) = gadgets[id].rowid,
                      m # id
               PROVE  aliases[m] = id
    BY DEF AliasesOf
  <2>1. gadgets[id].rowid \in RowIds
    BY DEF IInv, TypeOK, LiveIds, Live, Row
  <2>2. CASE gadgets[m] # NoRow
    <3>1. m \in LiveIds /\ gadgets[m].rowid = gadgets[id].rowid
      BY <2>2 DEF EntityIn, LiveIds, Live
    <3> QED
      BY <3>1 DEF IInv, RowidsDistinct
  <2>3. CASE gadgets[m] = NoRow /\ aliases[m] # NoName
    <3>1. aliases[m] \in LiveIds /\ gadgets[aliases[m]] # NoRow
      BY <2>3 DEF IInv, NamesUnambiguous, TypeOK, LiveIds, Live
    <3>2. gadgets[aliases[m]].rowid = gadgets[id].rowid
      BY <2>3, <3>1 DEF EntityIn
    <3> QED
      BY <3>1, <3>2 DEF IInv, RowidsDistinct
  <2>4. CASE gadgets[m] = NoRow /\ aliases[m] = NoName
    BY <2>1, <2>4, RowsAssumption DEF EntityIn
  <2> QED
    BY <2>2, <2>3, <2>4
<1>2. IsFiniteSet(known) /\ Cardinality(known) \in Nat
  BY AliasCountIsNat
<1> HIDE DEF known, names
<1>3. /\ IsFiniteSet(known \cup {id})
      /\ Cardinality(known \cup {id}) \in Nat
      /\ Cardinality(known \cup {id}) <= Cardinality(known) + 1
  <2>1. /\ IsFiniteSet(known \cup {id})
        /\ \/ Cardinality(known \cup {id}) = Cardinality(known)
           \/ Cardinality(known \cup {id}) = Cardinality(known) + 1
    BY <1>2, FS_AddElement
  <2> QED
    BY <1>2, <2>1
<1>4. /\ IsFiniteSet(names) /\ Cardinality(names) \in Nat
      /\ Cardinality(names) <= Cardinality(known) + 1
  BY <1>1, <1>2, <1>3, FS_Subset, FS_CardinalityType
<1>5. /\ Cardinality(names \cup {newId}) \in Nat
      /\ Cardinality(names \cup {newId}) <= Cardinality(known) + 2
  <2>1. \/ Cardinality(names \cup {newId}) = Cardinality(names)
        \/ Cardinality(names \cup {newId}) = Cardinality(names) + 1
    BY <1>4, FS_AddElement
  <2> QED
    BY <1>2, <1>4, <2>1
<1>6. Cardinality(names \cup {newId}) <= MaxAliases + 1
  BY <1>2, <1>5, BoundsAssumption DEF known
<1> QED
  BY <1>6 DEF names

\* rename renames an entity: the name was free or an alias of the same one.
LEMMA RenamingRenames ==
  ASSUME IInv, IInv', NEW id \in Names, NEW newId \in Names, Renaming(id, newId)
  PROVE  Library!Rename(gadgets[id].rowid, newId)
<1> DEFINE e == gadgets[id].rowid
           Ent == EntitiesIn(gadgets, aliases)
           EntP == EntitiesIn(gadgets', aliases')
           Id == IdsIn(gadgets)
           IdP == IdsIn(gadgets')
           Hist == HistoriesIn(gadgets, revisions)
           HistP == HistoriesIn(gadgets', revisions')
           old == HistoryIn(revisions, id)
<1>0. /\ LiveIn(gadgets) = LiveIds /\ LiveIn(gadgets') = LiveIds'
      /\ DistinctIn(gadgets) /\ DistinctIn(gadgets')
  BY Readable
<1>1. /\ newId # id /\ gadgets[id] # NoRow /\ gadgets[newId] = NoRow
      /\ aliases[newId] \in {NoName, id}
      /\ gadgets'[id] = NoRow /\ gadgets'[newId] = gadgets[id]
      /\ \A n \in Names : n # id /\ n # newId => gadgets'[n] = gadgets[n]
      /\ LiveIds' = (LiveIds \ {id}) \cup {newId} /\ id \in LiveIds /\ newId \notin LiveIds
  BY RenamingEffect DEF Live
<1>2. /\ aliases'[id] = newId /\ aliases'[newId] = NoName
      /\ \A a \in Names : a # id /\ a # newId =>
           aliases'[a] = IF aliases[a] = id THEN newId ELSE aliases[a]
  BY RenamingEffect
<1>3. /\ \A n \in LiveIds : n \in Names /\ (gadgets[n].rowid = e => n = id)
      /\ \A n \in LiveIds : gadgets[n] # NoRow /\ gadgets[n].rowid \in RowIds
  BY <1>1, Readable, RowsAssumption DEF IInv, RowidsDistinct
<1>4. e \in RowIds /\ e # NoRow
  BY <1>1, <1>3, RowsAssumption
<1>5. aliases[id] = NoName
  BY <1>1 DEF IInv, NamesUnambiguous, Live
<1>6. EntityIn(gadgets, aliases, newId) \in {NoRow, e} /\ EntityIn(gadgets', aliases', newId) = e
  BY <1>1 DEF EntityIn
<1>7. \A n \in Names : n # newId =>
        EntityIn(gadgets', aliases', n) = EntityIn(gadgets, aliases, n)
  <2> SUFFICES ASSUME NEW n \in Names, n # newId
               PROVE  EntityIn(gadgets', aliases', n) = EntityIn(gadgets, aliases, n)
    OBVIOUS
  <2>1. CASE n = id
    <3>1. EntityIn(gadgets, aliases, id) = e
      BY <1>1 DEF EntityIn
    <3>2. newId # NoName
      BY NamesAssumption
    <3>3. EntityIn(gadgets', aliases', id) = e
      BY <1>1, <1>2, <3>2 DEF EntityIn
    <3> QED
      BY <2>1, <3>1, <3>3
  <2>2. CASE n # id /\ gadgets[n] # NoRow
    BY <1>1, <2>2 DEF EntityIn
  <2>3. CASE n # id /\ gadgets[n] = NoRow /\ aliases[n] = NoName
    <3>1. gadgets'[n] = NoRow /\ aliases'[n] = NoName
      BY <1>1, <1>2, <2>3, NamesAssumption
    <3> QED
      BY <2>3, <3>1 DEF EntityIn
  <2>4. CASE n # id /\ gadgets[n] = NoRow /\ aliases[n] = id
    <3>1. gadgets'[n] = NoRow /\ aliases'[n] = newId /\ newId # NoName /\ id # NoName
      BY <1>1, <1>2, <2>4, NamesAssumption
    <3> QED
      BY <1>1, <2>4, <3>1 DEF EntityIn
  <2>5. CASE n # id /\ gadgets[n] = NoRow /\ aliases[n] \notin {NoName, id}
    <3>1. gadgets'[n] = NoRow /\ aliases'[n] = aliases[n]
      BY <1>1, <1>2, <2>5
    <3>2. aliases[n] \in LiveIds
      BY <2>5 DEF IInv, NamesUnambiguous, TypeOK, LiveIds
    <3>3. gadgets'[aliases[n]] = gadgets[aliases[n]]
      BY <1>1, <1>3, <2>5, <3>2
    <3> QED
      BY <2>5, <3>1, <3>3 DEF EntityIn
  <2> QED
    BY <2>1, <2>2, <2>3, <2>4, <2>5
<1>8. Ent[newId] \in {NoRow, e} /\ EntP = [Ent EXCEPT ![newId] = e]
  BY <1>6, <1>7 DEF EntitiesIn
<1>9. Cardinality({m \in Names : Ent[m] = e} \cup {newId}) <= MaxAliases + 1
  <2>1. Cardinality(AliasesOf(id)) < MaxAliases
    BY DEF Renaming
  <2>2. {m \in Names : Ent[m] = e} = {m \in Names : EntityIn(gadgets, aliases, m) = e}
    BY DEF EntitiesIn
  <2> QED
    BY <1>1, <2>1, <2>2, NamesCounted
<1>10. /\ HistoryIn(revisions', newId) = Append(old, old[Len(old)])
       /\ \A n : n # id /\ n # newId => RevisionsIn(revisions', n) = RevisionsIn(revisions, n)
  BY RenamedHistory
<1>11. Id[e] = id /\ Hist[e] = old
  BY <1>0, <1>1, <1>4, AtRow
<1>12. IdP[e] = newId /\ HistP[e] = HistoryIn(revisions', newId)
  <2>1. newId \in LiveIn(gadgets') /\ gadgets'[newId].rowid = e
    BY <1>0, <1>1
  <2> HIDE DEF e
  <2> QED
    BY <1>0, <1>4, <2>1, AtRow
<1>13. \A rid \in RowIds : rid # e => IdP[rid] = Id[rid] /\ HistP[rid] = Hist[rid]
  <2> SUFFICES ASSUME NEW rid \in RowIds, rid # e
               PROVE  IdP[rid] = Id[rid] /\ HistP[rid] = Hist[rid]
    OBVIOUS
  <2>1. \A n \in LiveIn(gadgets) : gadgets[n].rowid = rid =>
          n \in LiveIn(gadgets') /\ gadgets'[n].rowid = rid
    BY <1>0, <1>1, <1>3
  <2>2. \A n \in LiveIn(gadgets') : gadgets'[n].rowid = rid =>
          n \in LiveIn(gadgets) /\ gadgets[n].rowid = rid
    BY <1>0, <1>1, <1>3
  <2>3. \A n \in LiveIn(gadgets) : gadgets[n].rowid = rid =>
          HistoryIn(revisions', n) = HistoryIn(revisions, n)
    BY <1>0, <1>1, <1>10, UntouchedHistory
  <2> HIDE DEF e
  <2> QED
    BY <1>0, <2>1, <2>2, <2>3, RowKept
<1>14. IdP = [Id EXCEPT ![e] = newId] /\ HistP = [Hist EXCEPT ![e] = Append(@, @[Len(@)])]
  BY <1>10, <1>11, <1>12, <1>13 DEF IdsIn, HistoriesIn
<1> HIDE DEF e
<1>15. Ids[e] # NoName /\ newId # Ids[e] /\ Entities[newId] \in {NoRow, e}
  BY <1>1, <1>8, <1>11, ReadingIs, NamesAssumption
<1>16. Cardinality({m \in Names : Entities[m] = e} \cup {newId}) <= MaxAliases + 1
  BY <1>9, ReadingIs
<1>17. /\ Entities' = [Entities EXCEPT ![newId] = e]
       /\ Ids' = [Ids EXCEPT ![e] = newId]
       /\ Histories' = [Histories EXCEPT ![e] = Append(@, @[Len(@)])]
  BY <1>8, <1>14, ReadingIs
<1>18. Library!Rename(e, newId)
  BY <1>15, <1>16, <1>17, LibraryActions
<1> QED
  BY <1>18 DEF e

----------------------------------------------------------------------------
(* The refinement.                                                         *)

\* The empty tables are the empty library.
LEMMA InitRefines == Init => Library!Init
<1> SUFFICES ASSUME Init PROVE Library!Init
  OBVIOUS
<1>1. \A n \in Names : Resolve(n) = NoRow
  BY NamesAssumption DEF Init, Resolve, Live
<1>2. \A rid : IdOfRow(rid) = NoName
  BY DEF Init, IdOfRow, LiveIds, Live
<1> QED
  BY <1>1, <1>2 DEF Library!Init

\* A step that leaves the tables alone leaves the library alone.
LEMMA UnwrittenStutters ==
  ASSUME UNCHANGED store
  PROVE  UNCHANGED Library!vars
<1>1. gadgets' = gadgets /\ aliases' = aliases /\ revisions' = revisions
  BY DEF store
<1>2. Entities' = Entities /\ Ids' = Ids /\ Histories' = Histories
  BY <1>1, ReadingIs
<1> QED
  BY <1>2 DEF Library!vars, Entities, Ids, Histories

\* A call on the tables is a step of the library or a stutter.
LEMMA StepRefines ==
  ASSUME IInv, IInv', UNCHANGED store \/ Next
  PROVE  [Library!Next]_(Library!vars)
<1>1. ASSUME NEW id \in Names, NEW b \in Bodies, Insertion(id, b)
      PROVE  Library!Next
  <2>1. gadgets'[id].rowid \in RowIds
    BY <1>1, InsertionEffect DEF Row
  <2> QED
    BY <1>1, <2>1, InsertionCreates DEF Library!Next
<1>2. ASSUME NEW id \in Names, NEW b \in Bodies, Updating(id, b)
      PROVE  Library!Next
  <2>1. gadgets[id].rowid \in RowIds
    BY <1>2, UpdatingEffect DEF Row
  <2> QED
    BY <1>2, <2>1, UpdatingSaves DEF Library!Next
<1>3. ASSUME NEW id \in Names, Deletion(id)
      PROVE  Library!Next
  <2>1. gadgets[id].rowid \in RowIds
    BY <1>3, DeletionEffect, Readable
  <2> QED
    BY <1>3, <2>1, DeletionDrops DEF Library!Next
<1>4. ASSUME NEW id \in Names, NEW newId \in Names, Renaming(id, newId)
      PROVE  Library!Next
  <2>1. gadgets[id].rowid \in RowIds
    BY <1>4, RenamingEffect DEF Row
  <2> QED
    BY <1>4, <2>1, RenamingRenames DEF Library!Next
<1>5. CASE Next
  <2>1. \/ Unwritten
        \/ \E id \in Names, b \in Bodies : Insertion(id, b) \/ Updating(id, b)
        \/ \E id \in Names : Deletion(id)
        \/ \E id, newId \in Names : Renaming(id, newId)
    BY <1>5, StepKinds DEF IInv
  <2>2. CASE Unwritten
    BY <2>2, UnwrittenStutters DEF Unwritten
  <2> QED
    BY <1>1, <1>2, <1>3, <1>4, <2>1, <2>2
<1>6. CASE UNCHANGED store
  BY <1>6, UnwrittenStutters
<1> QED
  BY <1>5, <1>6

\* GadgetRepo over its tables, foreign keys and triggers implements the
\* library: every call is one action of it, or leaves it as it was.
THEOREM StoreImplementsLibrary == Spec => ImplementsLibrary
<1>1. Init => Library!Init
  BY InitRefines
<1>2. IInv /\ IInv' /\ [Next]_vars => [Library!Next]_(Library!vars)
  BY StepRefines DEF vars, store
<1> QED
  BY <1>1, <1>2, StoreInvariant, PTL DEF Spec, ImplementsLibrary, Library!Spec

=============================================================================
