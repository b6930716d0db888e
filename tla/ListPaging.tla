---------------------------- MODULE ListPaging -----------------------------
(***************************************************************************)
(* Paging through the gadgets while they change: GadgetRepo.list with its  *)
(* keyset cursor, and exportNdjson, which walks all pages and re-reads     *)
(* every gadget it lists.                                                  *)
(*                                                                         *)
(* Each page and each getById is a read of its own: between two of them    *)
(* the same process (a client that pages with gadget.list) or another one  *)
(* (during an export) may create, change, rename and delete gadgets.  Ids  *)
(* are numbers because the cursor compares them.  Aliases play no part     *)
(* here: a rename that GadgetStore allows is one allowed here.             *)
(*                                                                         *)
(* As in GadgetStore, no action uses the variants with a slip in them that *)
(* stand before the definition they are named for.                         *)
(***************************************************************************)
EXTENDS Naturals, Sequences, FiniteSets

CONSTANTS
  Ids,          \* a set of numbers, for the order of the id column
  Categories,
  Wanted,       \* the category asked for, or AnyCategory
  AnyCategory,
  Limits,       \* page sizes a caller asks for
  MaxPageSize,  \* MAX_PAGE_SIZE
  TimeBound,    \* bounds the model: the clock's last value
  NoRow,
  Start         \* a listing that has no cursor yet

Row == [updated : 0..TimeBound, category : Categories]

Position == [updated : 0..TimeBound, id : Ids]

ASSUME IdsAssumption == Ids \subseteq Nat /\ IsFiniteSet(Ids)

ASSUME SizesAssumption ==
  Limits \subseteq Nat /\ MaxPageSize \in Nat \ {0} /\ TimeBound \in Nat

ASSUME MissingAssumption == NoRow \notin Row /\ Start \notin Position

VARIABLES
  rows,     \* table gadgets: id -> updated_at and category, or NoRow
  now,      \* the clock, which may stand still but does not go back
  phase,    \* of the export: "page", "fetch", "done" or "cancelled"
  cursor,   \* position of the last row of the last page
  more,     \* that page had a nextCursor
  pending,  \* ids of that page whose getById is still to come
  lines,    \* ids exported so far
  touched   \* history: ids written since the listing began

vars == <<rows, now, phase, cursor, more, pending, lines, touched>>
table == <<rows, now, touched>>
export == <<phase, cursor, more, pending, lines>>

Live(n) == rows[n] # NoRow

----------------------------------------------------------------------------
(* The reader.                                                             *)

\* clampLimit
Clamp(limit) ==
  IF limit < 1 THEN 1 ELSE IF limit > MaxPageSize THEN MaxPageSize ELSE limit

PositionOf(n) == [updated |-> rows[n].updated, id |-> n]

\* The order of the rows, updated_at DESC then id ASC, which is also the
\* cursor's WHERE clause: q comes after p.
After(p, q) ==
  q.updated < p.updated \/ (q.updated = p.updated /\ q.id > p.id)

Matches(n) == Live(n) /\ (Wanted = AnyCategory \/ rows[n].category = Wanted)

RemainingFromCursor ==
  {n \in Ids : Matches(n) /\ (cursor = Start \/ ~After(PositionOf(n), cursor))}

RemainingInLaterMillisecond ==
  {n \in Ids : Matches(n) /\ (cursor = Start \/ rows[n].updated < cursor.updated)}

\* The rows a page is taken from.
Remaining ==
  {n \in Ids : Matches(n) /\ (cursor = Start \/ After(cursor, PositionOf(n)))}

\* The first rows of Remaining, at most `limit` of them: those that fewer
\* than `limit` others precede.
Preceding(n) == {m \in Remaining : After(PositionOf(m), PositionOf(n))}

FirstRows(limit) == {n \in Remaining : Cardinality(Preceding(n)) < limit}

LastOf(page) == CHOOSE n \in page : \A m \in page : ~After(PositionOf(n), PositionOf(m))

\* list: one row more than the page is read, to know whether there is a next.
ReadPage ==
  /\ phase = "page"
  /\ \E limit \in Limits :
       LET page == FirstRows(Clamp(limit))
       IN  /\ pending' = page
           /\ more' = (page # Remaining)
           /\ cursor' = IF page # Remaining THEN PositionOf(LastOf(page)) ELSE cursor
  /\ phase' = "fetch"
  /\ UNCHANGED <<lines, table>>

FetchOneUnchecked ==
  /\ phase = "fetch"
  /\ \E n \in pending :
       /\ pending' = pending \ {n}
       /\ lines' = Append(lines, IF Live(n) THEN n ELSE NoRow)
  /\ UNCHANGED <<phase, cursor, more, table>>

\* for (const summary of page.items): the summaries come in the page's order,
\* in which ids that changed since are still where they were listed.  Which
\* one comes first matters to no property.
FetchOne ==
  /\ phase = "fetch"
  /\ \E n \in pending :
       /\ pending' = pending \ {n}
       /\ lines' = IF Live(n) THEN Append(lines, n) ELSE lines
  /\ UNCHANGED <<phase, cursor, more, table>>

NextPage ==
  /\ phase = "fetch"
  /\ pending = {}
  /\ phase' = IF more THEN "page" ELSE "done"
  /\ UNCHANGED <<cursor, more, pending, lines, table>>

\* The signal is tested before every page and every fetch, but the walk never
\* yields to the event loop: only an abort from before its start is seen.
Cancel ==
  /\ phase = "page"
  /\ cursor = Start
  /\ phase' = "cancelled"
  /\ UNCHANGED <<cursor, more, pending, lines, table>>

----------------------------------------------------------------------------
(* The writers.                                                            *)

Write(ids, newRows) ==
  /\ rows' = newRows
  /\ touched' = touched \cup ids
  /\ UNCHANGED <<now, export>>

\* put: creates, or updates and perhaps moves to another category.
Put(n) ==
  \E c \in Categories :
    Write({n}, [rows EXCEPT ![n] = [updated |-> now, category |-> c]])

\* rollback: the category stays.
Rollback(n) ==
  /\ Live(n)
  /\ Write({n}, [rows EXCEPT ![n].updated = now])

Delete(n) ==
  /\ Live(n)
  /\ Write({n}, [rows EXCEPT ![n] = NoRow])

Rename(n, m) ==
  /\ Live(n) /\ ~Live(m)
  /\ Write({n, m},
           [rows EXCEPT ![n] = NoRow, ![m] = [rows[n] EXCEPT !.updated = now]])

Tick ==
  /\ now < TimeBound
  /\ now' = now + 1
  /\ UNCHANGED <<rows, touched, export>>

----------------------------------------------------------------------------
(* The specification.                                                      *)

\* The listing starts over any table written at or before now.
Init ==
  /\ now \in 0..TimeBound
  /\ rows \in [Ids -> {r \in Row : r.updated <= now} \cup {NoRow}]
  /\ phase = "page"
  /\ cursor = Start
  /\ more = TRUE
  /\ pending = {}
  /\ lines = <<>>
  /\ touched = {}

Reader == ReadPage \/ FetchOne \/ NextPage

Writer ==
  \/ \E n \in Ids : Put(n) \/ Rollback(n) \/ Delete(n)
  \/ \E n, m \in Ids : Rename(n, m)
  \/ Tick

Next == Reader \/ Cancel \/ Writer

\* The reader is a loop in a running process; nothing is owed by the others.
Spec == Init /\ [][Next]_vars /\ WF_vars(Reader)

----------------------------------------------------------------------------
(* Properties.                                                             *)

TypeOK ==
  /\ rows \in [Ids -> Row \cup {NoRow}]
  /\ now \in 0..TimeBound
  /\ phase \in {"page", "fetch", "done", "cancelled"}
  /\ cursor \in Position \cup {Start}
  /\ more \in BOOLEAN
  /\ pending \subseteq Ids
  /\ lines \in Seq(Ids)
  /\ touched \subseteq Ids

\* No id is exported twice, although rows move to the front of the order
\* while they are being paged through and a renamed row comes back under
\* another id.
NothingTwice ==
  \A i, j \in DOMAIN lines : lines[i] = lines[j] => i = j

Exported == {lines[i] : i \in DOMAIN lines}

OfWanted(n) == Live(n) /\ (Wanted # AnyCategory => rows[n].category = Wanted)

\* A gadget that nobody writes to during the export is in it if and only if it
\* is of the category, whatever is written around it and wherever the page
\* boundaries fall, in particular among rows of the same millisecond.
UntouchedExported ==
  phase = "done" =>
    \A n \in Ids \ touched : n \in Exported <=> OfWanted(n)

\* An export ends even if it never runs out of writers: writing moves rows to
\* the front, never ahead of the cursor for good.
ExportEnds == <>(phase \in {"done", "cancelled"})

=============================================================================
