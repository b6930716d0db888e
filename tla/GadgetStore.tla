---------------------------- MODULE GadgetStore ----------------------------
(***************************************************************************)
(* GadgetRepo (packages/core/src/repo/gadget-repo.ts) over the tables,     *)
(* foreign keys and triggers of packages/core/src/db/migrations.ts.        *)
(*                                                                         *)
(* The four tables are the four store variables; a method of GadgetRepo is *)
(* one action, because each runs inside one SQLite transaction of a        *)
(* connection that nothing interleaves with (SharedStore looks at two      *)
(* processes).  A body stands for the columns a revision snapshots: title, *)
(* description, content and tags_json.  Category, source and timestamps    *)
(* tell none of the properties here apart; ListPaging has the timestamps.  *)
(*                                                                         *)
(* A definition whose name extends that of its successor (PutVerdict...    *)
(* before PutVerdict) is a variant with a plausible slip in it, on which   *)
(* the properties are tried: none of the actions uses it.                  *)
(***************************************************************************)
EXTENDS Naturals, FiniteSets, Sequences

CONSTANTS
  Names,        \* strings a caller may pass as an id
  ValidNames,   \* those GADGET_ID_PATTERN accepts
  RowIds,       \* SQLite's implicit rowids of table gadgets
  Bodies,
  MaxAliases,   \* MAX_ALIASES_PER_GADGET
  VersionBound, \* bounds the model: no gadget gets more revisions than this
  NoRow,        \* getById's null
  NoName        \* an alias row that does not exist

Row == [rowid : RowIds, body : Bodies]

ASSUME NamesAssumption ==
  /\ IsFiniteSet(Names)
  /\ ValidNames \subseteq Names
  /\ NoName \notin Names

ASSUME RowsAssumption == NoRow \notin Row /\ NoRow \notin RowIds

ASSUME BoundsAssumption == MaxAliases \in Nat /\ VersionBound \in Nat

VARIABLES
  gadgets,    \* table gadgets: id -> row, NoRow where there is none
  aliases,    \* table aliases: alias -> gadget_id, NoName where there is none
  revisions,  \* table gadget_revisions: a set of rows
  fts,        \* table gadgets_fts: a set of rows the triggers maintain
  outcome     \* how the last call ended: "ok" or the error it threw

store == <<gadgets, aliases, revisions, fts>>
vars == <<gadgets, aliases, revisions, fts, outcome>>

----------------------------------------------------------------------------
(* Reading the tables.                                                     *)

Live(n) == gadgets[n] # NoRow

LiveIds == {n \in Names : Live(n)}

\* resolve: a live id first, then one hop through the alias table.
Resolve(n) ==
  IF Live(n) THEN gadgets[n]
  ELSE IF aliases[n] # NoName THEN gadgets[aliases[n]]
  ELSE NoRow

AliasesOf(n) == {a \in Names : aliases[a] = n}

RevisionsIn(table, n) == {r \in table : r.gadget = n}

VersionsIn(table, n) == {r.version : r \in RevisionsIn(table, n)}

\* SELECT COALESCE(MAX(version), 0) + 1
NextVersion(table, n) ==
  1 + (CHOOSE m \in VersionsIn(table, n) \cup {0} :
         \A v \in VersionsIn(table, n) : v <= m)

\* search: the full-text rows that match, joined with gadgets by rowid.
Search(b) ==
  {n \in LiveIds : \E e \in fts : e.rowid = gadgets[n].rowid /\ e.body = b}

----------------------------------------------------------------------------
(* Writing the tables.                                                     *)

IndexRow(rid, n, b) == [rowid |-> rid, id |-> n, body |-> b]

\* The triggers gadgets_ai, gadgets_ad and gadgets_au.
IndexInsert(index, rid, n, b) == index \cup {IndexRow(rid, n, b)}

IndexDelete(index, rid) == {e \in index : e.rowid # rid}

IndexUpdateKeepingOld(rid, n, b) == IndexInsert(fts, rid, n, b)

IndexUpdate(rid, n, b) == IndexInsert(IndexDelete(fts, rid), rid, n, b)

\* #writeRevision: one more row, numbered after the highest version so far.
WithRevision(table, n, b) ==
  table \cup {[gadget |-> n, version |-> NextVersion(table, n), body |-> b]}

\* What ON UPDATE CASCADE does to the revisions when id becomes newId.
MovedRevisionsLeftBehind(id, newId) == revisions

MovedRevisionsDropped(id, newId) == revisions \ RevisionsIn(revisions, id)

MovedRevisions(id, newId) ==
  {[r EXCEPT !.gadget = IF @ = id THEN newId ELSE @] : r \in revisions}

\* The alias rows after a rename: a row for newId is dropped, the others of
\* the gadget follow it, and the old id becomes an alias (INSERT OR IGNORE).
RenamedAliasesNotFollowing(id, newId) ==
  [aliases EXCEPT ![newId] = NoName, ![id] = newId]

RenamedAliasesForgettingId(id, newId) ==
  [a \in Names |-> IF a = newId THEN NoName
                   ELSE IF aliases[a] = id THEN newId ELSE aliases[a]]

RenamedAliases(id, newId) ==
  LET kept  == [aliases EXCEPT ![newId] = NoName]
      moved == [a \in Names |-> IF kept[a] = id THEN newId ELSE kept[a]]
  IN  [moved EXCEPT ![id] = IF @ = NoName THEN newId ELSE @]

\* A call that throws leaves the tables as its transaction found them.
Answer(code) ==
  /\ outcome' = code
  /\ UNCHANGED store

----------------------------------------------------------------------------
(* put and add.                                                            *)

PutVerdictUnvalidated(id) ==
  IF ~Live(id) /\ aliases[id] # NoName THEN "aliasConflict" ELSE "ok"

PutVerdictIgnoringAliases(id) ==
  IF id \notin ValidNames THEN "invalidId" ELSE "ok"

PutVerdict(id) ==
  IF id \notin ValidNames THEN "invalidId"
  ELSE IF ~Live(id) /\ aliases[id] # NoName THEN "aliasConflict"
  ELSE "ok"

AddVerdict(id) ==
  IF id \in ValidNames /\ Live(id) THEN "alreadyExists" ELSE PutVerdict(id)

\* SQLite gives a new row some rowid that no row of the table has, which may
\* be that of a deleted row: the primary key is the id, not the rowid.
InsertGadget(id, b) ==
  /\ NextVersion(revisions, id) <= VersionBound
  /\ \E rid \in RowIds \ {gadgets[n].rowid : n \in LiveIds} :
       /\ gadgets' = [gadgets EXCEPT ![id] = [rowid |-> rid, body |-> b]]
       /\ fts' = IndexInsert(fts, rid, id, b)
  /\ revisions' = WithRevision(revisions, id, b)
  /\ outcome' = "ok"
  /\ UNCHANGED aliases

\* put's UPDATE and rollback's.
UpdateGadgetSnapshottingOld(id, b) ==
  /\ NextVersion(revisions, id) <= VersionBound
  /\ gadgets' = [gadgets EXCEPT ![id].body = b]
  /\ fts' = IndexUpdate(gadgets[id].rowid, id, b)
  /\ revisions' = WithRevision(revisions, id, gadgets[id].body)
  /\ outcome' = "ok"
  /\ UNCHANGED aliases

UpdateGadget(id, b) ==
  /\ NextVersion(revisions, id) <= VersionBound
  /\ gadgets' = [gadgets EXCEPT ![id].body = b]
  /\ fts' = IndexUpdate(gadgets[id].rowid, id, b)
  /\ revisions' = WithRevision(revisions, id, b)
  /\ outcome' = "ok"
  /\ UNCHANGED aliases

Put(id, b) ==
  \/ PutVerdict(id) = "ok" /\ ~Live(id) /\ InsertGadget(id, b)
  \/ PutVerdict(id) = "ok" /\ Live(id) /\ UpdateGadget(id, b)
  \/ PutVerdict(id) # "ok" /\ Answer(PutVerdict(id))

Add(id, b) ==
  \/ AddVerdict(id) = "ok" /\ InsertGadget(id, b)
  \/ AddVerdict(id) # "ok" /\ Answer(AddVerdict(id))

----------------------------------------------------------------------------
(* delete.  The foreign keys take the revisions and the aliases along.     *)

DeleteGadget(id) ==
  /\ gadgets' = [gadgets EXCEPT ![id] = NoRow]
  /\ aliases' = [a \in Names |-> IF aliases[a] = id THEN NoName ELSE aliases[a]]
  /\ revisions' = revisions \ RevisionsIn(revisions, id)
  /\ fts' = IndexDelete(fts, gadgets[id].rowid)
  /\ outcome' = "ok"

Delete(id) ==
  \/ Live(id) /\ DeleteGadget(id)
  \/ ~Live(id) /\ Answer("notFound")

----------------------------------------------------------------------------
(* rename.                                                                 *)

RenameVerdictCapOffByOne(id, newId) ==
  IF newId \notin ValidNames THEN "invalidId"
  ELSE IF ~Live(id) THEN "notFound"
  ELSE IF newId = id THEN "sameName"
  ELSE IF Live(newId) \/ aliases[newId] \notin {NoName, id} THEN "aliasConflict"
  ELSE IF Cardinality(AliasesOf(id)) > MaxAliases THEN "tooManyAliases"
  ELSE "ok"

RenameVerdict(id, newId) ==
  IF newId \notin ValidNames THEN "invalidId"
  ELSE IF ~Live(id) THEN "notFound"
  ELSE IF newId = id THEN "sameName"
  ELSE IF Live(newId) \/ aliases[newId] \notin {NoName, id} THEN "aliasConflict"
  ELSE IF Cardinality(AliasesOf(id)) >= MaxAliases THEN "tooManyAliases"
  ELSE "ok"

RenameGadget(id, newId) ==
  LET row == gadgets[id]
  IN  /\ NextVersion(revisions, id) <= VersionBound
      /\ gadgets' = [gadgets EXCEPT ![id] = NoRow, ![newId] = row]
      /\ aliases' = RenamedAliases(id, newId)
      /\ revisions' = WithRevision(MovedRevisions(id, newId), newId, row.body)
      /\ fts' = IndexUpdate(row.rowid, newId, row.body)
      /\ outcome' = "ok"

Rename(id, newId) ==
  \/ RenameVerdict(id, newId) = "ok" /\ RenameGadget(id, newId)
  \/ RenameVerdict(id, newId) # "ok" /\ Answer(RenameVerdict(id, newId))

----------------------------------------------------------------------------
(* rollback: the snapshot of an earlier version becomes the newest one.    *)

RollbackVerdict(id, v) ==
  IF ~Live(id) THEN "notFound"
  ELSE IF v \notin VersionsIn(revisions, id) THEN "revisionMissing"
  ELSE "ok"

Rollback(id, v) ==
  \/ /\ RollbackVerdict(id, v) = "ok"
     /\ \E r \in RevisionsIn(revisions, id) : r.version = v /\ UpdateGadget(id, r.body)
  \/ RollbackVerdict(id, v) # "ok" /\ Answer(RollbackVerdict(id, v))

----------------------------------------------------------------------------
(* The specification.                                                      *)

\* A statement that fails below the checks (disk full, database locked, two
\* revision ids that collide) aborts whatever transaction it is part of.
StorageError == Answer("storageError")

Init ==
  /\ gadgets = [n \in Names |-> NoRow]
  /\ aliases = [n \in Names |-> NoName]
  /\ revisions = {}
  /\ fts = {}
  /\ outcome = "ok"

Next ==
  \/ \E id \in Names, b \in Bodies : Put(id, b) \/ Add(id, b)
  \/ \E id \in Names : Delete(id)
  \/ \E id, newId \in Names : Rename(id, newId)
  \/ \E id \in Names, v \in 1..VersionBound : Rollback(id, v)
  \/ StorageError

Spec == Init /\ [][Next]_vars

----------------------------------------------------------------------------
(* Invariants.                                                             *)

RevisionRow == [gadget : Names, version : Nat \ {0}, body : Bodies]

Outcomes ==
  {"ok", "sameName", "invalidId", "notFound", "alreadyExists", "aliasConflict",
   "tooManyAliases", "revisionMissing", "storageError"}

\* The tables hold rows of their columns' types, and every id that is live
\* or an alias passed validateGadgetId when it was first written.
TypeOK ==
  /\ gadgets \in [Names -> Row \cup {NoRow}]
  /\ aliases \in [Names -> Names \cup {NoName}]
  /\ revisions \subseteq RevisionRow
  /\ fts \subseteq [rowid : RowIds, id : Names, body : Bodies]
  /\ outcome \in Outcomes
  /\ \A n \in Names \ ValidNames : ~Live(n) /\ aliases[n] = NoName

\* A name means one gadget: it is never both live and an alias, and an alias
\* leads in one hop to a live gadget.  resolve would otherwise shadow one
\* gadget by another, or return nothing for a name that is still taken.
NamesUnambiguous ==
  \A n \in Names :
    aliases[n] # NoName => ~Live(n) /\ Live(aliases[n])

\* No chain of renames gives a gadget more than MAX_ALIASES_PER_GADGET
\* aliases.
AliasesWithinCap ==
  \A n \in Names : Cardinality(AliasesOf(n)) <= MaxAliases

\* Two rows of gadgets never share a rowid, which search's join relies on.
RowidsDistinct ==
  \A m, n \in LiveIds : gadgets[m].rowid = gadgets[n].rowid => m = n

\* A live gadget's revisions are numbered 1..k without a gap or a duplicate,
\* also after it was renamed onto a name that was deleted or given away
\* before, and a name that is not live has none left.
VersionsContiguous ==
  \A n \in Names :
    /\ Live(n) => \E k \in 1..VersionBound : VersionsIn(revisions, n) = 1..k
    /\ ~Live(n) => RevisionsIn(revisions, n) = {}

\* ... and each of them is one snapshot.
SnapshotsUnique ==
  \A r, s \in revisions : r.gadget = s.gadget /\ r.version = s.version => r = s

\* The gadget served now is the newest revision: no write path changes the
\* row without snapshotting it, and no snapshot is taken of an older row.
HeadIsNewestRevision ==
  \A n \in LiveIds : \E r \in RevisionsIn(revisions, n) :
    /\ \A s \in RevisionsIn(revisions, n) : s.version <= r.version
    /\ r.body = gadgets[n].body

\* The full-text table mirrors gadgets through inserts, updates, renames,
\* rollbacks and cascaded deletes, so that search returns exactly the live
\* gadgets that match and never a stale body or a former id.
IndexMirrorsGadgets ==
  fts = {IndexRow(gadgets[n].rowid, n, gadgets[n].body) : n \in LiveIds}

SearchIsExact ==
  \A b \in Bodies : Search(b) = {n \in LiveIds : gadgets[n].body = b}

\* What is inductive of the above (GadgetStoreProofs).
IInv ==
  /\ TypeOK
  /\ NamesUnambiguous
  /\ RowidsDistinct
  /\ VersionsContiguous
  /\ SnapshotsUnique
  /\ HeadIsNewestRevision
  /\ IndexMirrorsGadgets

----------------------------------------------------------------------------
(* Action properties.                                                      *)

\* The rowid identifies a gadget for as long as it lives: no write changes it.
LiveRowIds == {gadgets[n].rowid : n \in LiveIds}

\* An id a client once learned keeps resolving to the same gadget, through
\* its renames and those of others, until that gadget is deleted: rename
\* promises that pinned ids keep working.
NamesKeepTheirGadget ==
  [][\A n \in Names :
       Resolve(n) # NoRow /\ Resolve(n).rowid \in LiveRowIds'
         => Resolve(n)' # NoRow /\ Resolve(n)'.rowid = Resolve(n).rowid]_vars

Snapshots(n) == {<<r.version, r.body>> : r \in RevisionsIn(revisions, n)}

\* A gadget's history only grows, whatever it is called: no operation
\* rewrites or drops a snapshot, rollback included, and a rename takes the
\* whole history along.
HistoryGrows ==
  [][\A m, n \in Names :
       Live(m) /\ Live(n)' /\ gadgets[m].rowid = gadgets'[n].rowid
         => Snapshots(m) \subseteq Snapshots(n)']_vars

\* The store implements the abstract library.  An entity is a rowid.
IdOfRow(rid) ==
  IF \E n \in LiveIds : gadgets[n].rowid = rid
  THEN CHOOSE n \in LiveIds : gadgets[n].rowid = rid
  ELSE NoName

BodyAt(n, v) == (CHOOSE r \in revisions : r.gadget = n /\ r.version = v).body

HistoryOf(n) ==
  [v \in 1..(NextVersion(revisions, n) - 1) |-> BodyAt(n, v)]

Library == INSTANCE GadgetLibrary WITH
  Entities  <- RowIds,
  NameLimit <- MaxAliases + 1,
  NoEntity  <- NoRow,
  entityOf  <- [n \in Names |-> IF Resolve(n) = NoRow THEN NoRow ELSE Resolve(n).rowid],
  idOf      <- [rid \in RowIds |-> IdOfRow(rid)],
  history   <- [rid \in RowIds |->
                  IF IdOfRow(rid) = NoName THEN <<>> ELSE HistoryOf(IdOfRow(rid))]

\* Every behaviour of the tables is a behaviour of the library: names,
\* current ids and histories move together, one abstract step per call.
ImplementsLibrary == Library!Spec

=============================================================================
