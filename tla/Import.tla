------------------------------- MODULE Import -------------------------------
(***************************************************************************)
(* importNdjson (packages/core/src/services/ndjson.ts) over the store: a   *)
(* payload is worked through line by line, each line's put commits by      *)
(* itself, and one of three policies says what becomes of ids that exist.  *)
(*                                                                         *)
(* The import is synchronous, so other calls of its process come before or *)
(* after it (Client); the process may die between two lines (Kill).  What  *)
(* another process may do meanwhile is SharedStore's matter.               *)
(*                                                                         *)
(* No action uses the variants with a slip in them that stand before the   *)
(* definition they are named for.                                          *)
(***************************************************************************)
EXTENDS GadgetStore, SequencesExt

CONSTANTS
  MaxLines,  \* bounds the model: lines of a payload
  Invalid    \* a line that JSON.parse or GadgetInputSchema rejects

VARIABLES
  pc,        \* "idle", "importing" or "answered"
  lines,     \* the payload's lines that are not blank
  policy,
  position,  \* the line that is next
  counts,    \* what the answer will say
  before     \* history: the tables as the import found them

progress == <<pc, lines, policy, position, counts, before>>
importVars == <<gadgets, aliases, revisions, fts, outcome, progress>>

Line == [id : ValidNames, body : Bodies] \cup {Invalid}

ASSUME LinesAssumption == MaxLines \in Nat /\ Invalid \notin [id : ValidNames, body : Bodies]

Policies == {"skip", "overwrite", "error"}

Kinds == {"imported", "overwritten", "skipped", "errors"}

Tables == [gadgets |-> gadgets, revisions |-> revisions]

NoTables == [gadgets |-> [n \in Names |-> NoRow], revisions |-> {}]

----------------------------------------------------------------------------
(* The import.                                                             *)

BeginImport(payload, p) ==
  /\ pc = "idle"
  /\ pc' = "importing"
  /\ lines' = payload
  /\ policy' = p
  /\ position' = 1
  /\ counts' = [k \in Kinds |-> 0]
  /\ before' = Tables
  /\ outcome' = "ok"
  /\ UNCHANGED store

AtLine == pc = "importing" /\ position <= Len(lines)

Count(kind) ==
  /\ counts' = [counts EXCEPT ![kind] = @ + 1]
  /\ position' = position + 1
  /\ UNCHANGED <<pc, lines, policy, before>>

RejectLine ==
  /\ AtLine /\ lines[position] = Invalid
  /\ Count("errors")
  /\ UNCHANGED vars

ExistingBefore(line) == before.gadgets[line.id] # NoRow

\* getById, for every line anew: an earlier line may have created it.
Existing(line) == Live(line.id)

\* The id exists and the policy is not to overwrite it.
KeepLine ==
  /\ AtLine /\ lines[position] # Invalid
  /\ Existing(lines[position])
  /\ \/ policy = "skip" /\ Count("skipped")
     \/ policy = "error" /\ Count("errors")
  /\ UNCHANGED vars

ToBePutUnlessSkipped(line) ==
  line # Invalid /\ (Existing(line) => policy # "skip")

ToBePut(line) == line # Invalid /\ (Existing(line) => policy = "overwrite")

\* put commits, or throws for an id that is an alias of another gadget; the
\* loop goes on with the next line either way.
PutLineCountedFirst ==
  /\ AtLine /\ ToBePut(lines[position])
  /\ Put(lines[position].id, lines[position].body)
  /\ Count(IF Live(lines[position].id) THEN "overwritten" ELSE "imported")

PutLine ==
  /\ AtLine /\ ToBePut(lines[position])
  /\ Put(lines[position].id, lines[position].body)
  /\ Count(IF outcome' # "ok" THEN "errors"
           ELSE IF Existing(lines[position]) THEN "overwritten"
           ELSE "imported")

\* put fails below its checks.  The exception is caught line by line as well.
PutFails ==
  /\ AtLine /\ ToBePut(lines[position])
  /\ StorageError
  /\ Count("errors")

Answered ==
  /\ pc = "importing" /\ position > Len(lines)
  /\ pc' = "answered"
  /\ UNCHANGED <<vars, lines, policy, position, counts, before>>

\* The progress is the call's own and gone with it.
Over ==
  /\ pc' = "idle"
  /\ lines' = <<>>
  /\ policy' = "skip"
  /\ position' = 1
  /\ counts' = [k \in Kinds |-> 0]
  /\ before' = NoTables
  /\ UNCHANGED vars

\* The process dies, or getById throws: nobody is told how far it came.
Kill == pc = "importing" /\ Over

Forget == pc = "answered" /\ Over

----------------------------------------------------------------------------
(* The specification.                                                      *)

ImportInit ==
  /\ Init
  /\ pc = "idle"
  /\ lines = <<>>
  /\ policy = "skip"
  /\ position = 1
  /\ counts = [k \in Kinds |-> 0]
  /\ before = NoTables

ImportLine == RejectLine \/ KeepLine \/ PutLine \/ PutFails

Client == pc = "idle" /\ Next /\ UNCHANGED progress

ImportNext ==
  \/ \E payload \in BoundedSeq(Line, MaxLines), p \in Policies : BeginImport(payload, p)
  \/ ImportLine \/ Answered \/ Kill \/ Forget
  \/ Client

ImportSpec == ImportInit /\ [][ImportNext]_importVars

----------------------------------------------------------------------------
(* Properties.                                                             *)

Running == pc \in {"importing", "answered"}

NewSince == {n \in LiveIds : before.gadgets[n] = NoRow}

Written == revisions \ before.revisions

\* Every line that was looked at is counted once, and the counts say what
\* happened to the tables: one gadget more for each line
\* imported, one revision more for each line imported or overwritten, none for
\* a line whose put was refused or failed, also when a line meets an id that
\* an earlier one of the same payload has created.
CountsAreTrue ==
  Running =>
    /\ counts["imported"] + counts["overwritten"] + counts["skipped"] + counts["errors"]
         = position - 1
    /\ counts["imported"] = Cardinality(NewSince)
    /\ counts["imported"] + counts["overwritten"] = Cardinality(Written)

\* Only `overwrite` touches gadgets that were there: under the other policies
\* their rows and their histories are the ones the import found, and what an
\* import creates it does not touch again.
ExistingKept ==
  Running /\ policy # "overwrite" =>
    /\ \A n \in Names : before.gadgets[n] # NoRow => gadgets[n] = before.gadgets[n]
    /\ \A r \in Written : r.gadget \in NewSince /\ r.version = 1

LinesOf(n) == {i \in DOMAIN lines : lines[i] # Invalid /\ lines[i].id = n}

\* The line that decides n's body: the last one where lines overwrite, else
\* the first.
DecidingLine(n) ==
  CHOOSE i \in LinesOf(n) : \A j \in LinesOf(n) :
    IF policy = "overwrite" THEN j <= i ELSE i <= j

\* An answer without errors is to be relied on: every gadget of the payload is
\* there, with the body the policy gives it, also when an earlier import of
\* the same payload was killed half way.
CleanImportIsComplete ==
  pc = "answered" /\ counts["errors"] = 0 =>
    \A n \in {lines[i].id : i \in DOMAIN lines} :
      /\ Live(n)
      /\ policy = "overwrite" \/ n \in NewSince
           => gadgets[n].body = lines[DecidingLine(n)].body

=============================================================================
