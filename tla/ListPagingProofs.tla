-------------------------- MODULE ListPagingProofs --------------------------
(***************************************************************************)
(* Theorems about ListPaging, for any ids, categories and page sizes:      *)
(* nothing is exported twice, and what nobody writes to is exported if and *)
(* only if it is asked for.                                                *)
(*                                                                         *)
(* The first rests on Passed: an id that is behind the cursor stays behind *)
(* it, since the clock does not go back and a write puts a row where the   *)
(* clock is.  The second rests on UntouchedAhead: an untouched row that is *)
(* asked for is exported, on the page, or ahead of the cursor.             *)
(***************************************************************************)
EXTENDS ListPaging, TLAPS, FiniteSetTheorems, WellFoundedInduction

----------------------------------------------------------------------------
(* The order of the rows.                                                  *)

Matching == {n \in Ids : Matches(n)}

\* Among some subsets of a finite set one has none of the others within it.
LEMMA SmallestSubset ==
  ASSUME NEW S, IsFiniteSet(S), NEW T, T \subseteq SUBSET S, T # {}
  PROVE  \E x \in T : \A y \in T : y \subseteq x => y = x
<1>1. IsWellFoundedOn(StrictSubsetOrdering(S), SUBSET S)
  BY FS_StrictSubsetOrderingWellFounded, FS_FiniteSubsetsOfFinite
<1>2. \E x \in T : \A y \in T : <<y, x>> \notin StrictSubsetOrdering(S)
  BY <1>1, WFMin
<1> QED
  BY <1>2 DEF StrictSubsetOrdering

\* The order of two positions.
LEMMA AfterIsAnOrder ==
  ASSUME NEW p \in Position, NEW q \in Position, NEW r \in Position
  PROVE  /\ After(p, q) /\ After(q, r) => After(p, r)
         /\ ~(After(p, q) /\ After(q, p))
         /\ ~After(p, q) /\ ~After(q, p) => p = q
<1>1. \A x \in Position : x.updated \in Nat
  BY SizesAssumption DEF Position
<1>2. \A x \in Position : x.id \in Nat
  BY IdsAssumption DEF Position
<1>3. ASSUME p.updated = q.updated, p.id = q.id
      PROVE  p = q
  BY <1>3 DEF Position
<1> QED
  BY <1>1, <1>2, <1>3 DEF After

\* Where the rows are that match.
LEMMA PositionsAre ==
  ASSUME TypeOK, NEW n \in Ids, Live(n)
  PROVE  /\ rows[n] \in Row
         /\ PositionOf(n) \in Position
         /\ PositionOf(n).updated = rows[n].updated
         /\ PositionOf(n).id = n
  BY DEF TypeOK, Live, PositionOf, Position, Row

\* An order on finitely many things has a last one.
LEMMA LastInOrder ==
  ASSUME NEW S, IsFiniteSet(S), S # {}, NEW R,
         \A x \in S : <<x, x>> \notin R,
         \A x, y, z \in S : <<x, y>> \in R /\ <<y, z>> \in R => <<x, z>> \in R
  PROVE  \E x \in S : \A y \in S : <<x, y>> \notin R
<1> DEFINE Beyond(x) == {y \in S : <<x, y>> \in R}
           All == {Beyond(x) : x \in S}
<1>1. All \subseteq SUBSET S /\ All # {}
  <2>1. PICK x \in S : TRUE
    OBVIOUS
  <2>2. Beyond(x) \in All
    OBVIOUS
  <2>3. \A x1 \in S : Beyond(x1) \subseteq S
    OBVIOUS
  <2> HIDE DEF Beyond
  <2> QED
    BY <2>2, <2>3
<1>2. \A T : T \subseteq SUBSET S /\ T # {} =>
        \E x \in T : \A y \in T : y \subseteq x => y = x
  BY SmallestSubset
<1>3. PICK b \in All : \A c \in All : c \subseteq b => c = b
  <2> HIDE DEF All
  <2> QED
    BY <1>1, <1>2
<1>4. PICK x \in S : b = Beyond(x)
  OBVIOUS
<1>5. ASSUME NEW y \in S, <<x, y>> \in R PROVE FALSE
  <2>1. Beyond(y) \subseteq Beyond(x)
    BY <1>5
  <2>2. y \in Beyond(x) /\ y \notin Beyond(y)
    BY <1>5
  <2>3. Beyond(y) \in All
    OBVIOUS
  <2> QED
    BY <2>1, <2>2, <2>3, <1>3, <1>4
<1> QED
  BY <1>5

\* Rows that match have a first and a last one among them.
LEMMA FirstAndLast ==
  ASSUME TypeOK, NEW page \in SUBSET Matching, page # {}
  PROVE  /\ \E n \in page : \A m \in page : ~After(PositionOf(m), PositionOf(n))
         /\ \E n \in page : \A m \in page : ~After(PositionOf(n), PositionOf(m))
<1> DEFINE Rows == {p \in page \X page : After(PositionOf(p[1]), PositionOf(p[2]))}
           Back == {p \in page \X page : After(PositionOf(p[2]), PositionOf(p[1]))}
<1>1. IsFiniteSet(page)
  BY IdsAssumption, FS_Subset DEF Matching
<1>2. \A n \in page : PositionOf(n) \in Position
  BY PositionsAre DEF Matching, Matches
<1>3. \A n \in page : <<n, n>> \notin Rows /\ <<n, n>> \notin Back
  BY <1>2, AfterIsAnOrder
<1>4. \A n, m, k \in page :
        /\ <<n, m>> \in Rows /\ <<m, k>> \in Rows => <<n, k>> \in Rows
        /\ <<n, m>> \in Back /\ <<m, k>> \in Back => <<n, k>> \in Back
  BY <1>2, AfterIsAnOrder
<1>5. \E n \in page : \A m \in page : <<n, m>> \notin Rows
  <2> HIDE DEF Rows
  <2> QED
    BY <1>1, <1>3, <1>4, LastInOrder
<1>6. \E n \in page : \A m \in page : <<n, m>> \notin Back
  <2> HIDE DEF Back
  <2> QED
    BY <1>1, <1>3, <1>4, LastInOrder
<1> QED
  BY <1>5, <1>6

\* What a page is of the rows that remain: it has some if they are any, and
\* if it has not all then the others come after the last one on it.
LEMMA PageIs ==
  ASSUME TypeOK, NEW limit \in Nat \ {0}
  PROVE  /\ FirstRows(limit) \subseteq Remaining
         /\ FirstRows(limit) # Remaining =>
              LET last == LastOf(FirstRows(limit))
              IN  /\ last \in FirstRows(limit)
                  /\ \A m \in FirstRows(limit) : ~After(PositionOf(last), PositionOf(m))
                  /\ \A m \in Remaining \ FirstRows(limit) :
                       After(PositionOf(last), PositionOf(m))
<1> DEFINE page == FirstRows(limit)
           last == LastOf(page)
<1>1. page \subseteq Remaining /\ Remaining \subseteq Matching /\ Matching \subseteq Ids
  BY DEF FirstRows, Remaining, Matching
<1>2. \A n \in Remaining : PositionOf(n) \in Position /\ PositionOf(n).id = n
  BY <1>1, PositionsAre DEF Matching, Matches
<1>3. \A n \in Ids : IsFiniteSet(Preceding(n)) /\ Cardinality(Preceding(n)) \in Nat
  BY <1>1, IdsAssumption, FS_Subset, FS_CardinalityType DEF Preceding
<1>4. ASSUME Remaining # {} PROVE page # {}
  <2>1. PICK n \in Remaining : \A m \in Remaining : ~After(PositionOf(m), PositionOf(n))
    BY <1>1, <1>4, FirstAndLast
  <2>2. Cardinality(Preceding(n)) = 0
    BY <2>1, FS_EmptySet DEF Preceding
  <2> QED
    BY <2>2 DEF FirstRows
<1>5. ASSUME page # Remaining
      PROVE  last \in page /\ \A m \in page : ~After(PositionOf(last), PositionOf(m))
  <2>1. page # {}
    BY <1>1, <1>4, <1>5
  <2>2. \E n \in page : \A m \in page : ~After(PositionOf(n), PositionOf(m))
    BY <2>1, <1>1, FirstAndLast
  <2> HIDE DEF page
  <2> QED
    BY <2>2 DEF LastOf
<1>6. ASSUME page # Remaining, NEW m \in Remaining \ page
      PROVE  After(PositionOf(last), PositionOf(m))
  <2>1. last \in page /\ last \in Remaining
    BY <1>1, <1>5, <1>6
  <2>2. Cardinality(Preceding(last)) < limit /\ ~(Cardinality(Preceding(m)) < limit)
    BY <2>1, <1>6 DEF FirstRows
  <2>3. m # last /\ PositionOf(m) # PositionOf(last)
    BY <2>1, <1>2, <1>6
  <2>4. ASSUME After(PositionOf(m), PositionOf(last)) PROVE FALSE
    <3>1. Preceding(m) \subseteq Preceding(last)
      BY <2>1, <2>4, <1>2, AfterIsAnOrder DEF Preceding
    <3>2. Cardinality(Preceding(m)) <= Cardinality(Preceding(last))
      BY <3>1, <1>1, <1>3, <2>1, FS_Subset
    <3> QED
      BY <3>2, <2>1, <2>2, <1>1, <1>3
  <2> QED
    BY <2>1, <2>3, <2>4, <1>2, AfterIsAnOrder
<1> QED
  BY <1>1, <1>5, <1>6

----------------------------------------------------------------------------
(* The types.                                                              *)

\* A page size that a caller asks for is made one that list can use.
LEMMA ClampIs ==
  ASSUME NEW limit \in Limits
  PROVE  Clamp(limit) \in Nat \ {0}
BY SizesAssumption DEF Clamp

\* Every step keeps the types.
LEMMA TypesKept ==
  ASSUME TypeOK, [Next]_vars
  PROVE  TypeOK'
<1> USE DEF TypeOK
<1>1. CASE ReadPage
  <2>1. PICK limit \in Limits :
          LET page == FirstRows(Clamp(limit))
          IN  /\ pending' = page
              /\ more' = (page # Remaining)
              /\ cursor' = IF page # Remaining THEN PositionOf(LastOf(page)) ELSE cursor
    BY <1>1 DEF ReadPage
  <2> DEFINE page == FirstRows(Clamp(limit))
  <2>2. page \subseteq Remaining /\ Remaining \subseteq Ids /\ \A n \in Remaining : Live(n)
    BY DEF FirstRows, Remaining, Matches
  <2>3. page # Remaining => PositionOf(LastOf(page)) \in Position
    BY <2>2, ClampIs, PageIs, PositionsAre
  <2> QED
    BY <1>1, <2>1, <2>2, <2>3 DEF ReadPage, table
<1>2. CASE FetchOne
  <2>1. PICK n \in pending :
          /\ pending' = pending \ {n}
          /\ lines' = IF Live(n) THEN Append(lines, n) ELSE lines
    BY <1>2 DEF FetchOne
  <2>2. n \in Ids /\ lines' \in Seq(Ids)
    BY <2>1
  <2> QED
    BY <1>2, <2>1, <2>2 DEF FetchOne, table
<1>3. CASE NextPage
  BY <1>3 DEF NextPage, table
<1>4. CASE Cancel
  BY <1>4 DEF Cancel, table
<1>5. ASSUME NEW n \in Ids, Put(n) \/ Rollback(n) \/ Delete(n) PROVE TypeOK'
  <2>1. CASE Put(n)
    BY <2>1 DEF Put, Write, export, Row
  <2>2. CASE Rollback(n)
    BY <2>2 DEF Rollback, Live, Write, export, Row
  <2>3. CASE Delete(n)
    BY <2>3 DEF Delete, Write, export
  <2> QED
    BY <1>5, <2>1, <2>2, <2>3
<1>6. ASSUME NEW n \in Ids, NEW m \in Ids, Rename(n, m) PROVE TypeOK'
  <2>1. [rows[n] EXCEPT !.updated = now] \in Row
    BY <1>6 DEF Rename, Live, Row
  <2> QED
    BY <1>6, <2>1 DEF Rename, Write, export
<1>7. CASE Tick
  BY <1>7, SizesAssumption DEF Tick, export
<1>8. CASE UNCHANGED vars
  BY <1>8 DEF vars
<1> QED
  BY <1>1, <1>2, <1>3, <1>4, <1>5, <1>6, <1>7, <1>8 DEF Next, Reader, Writer

\* Every variable of the listing keeps its type.
THEOREM Types == Spec => []TypeOK
<1>1. Init => TypeOK
  BY DEF Init, TypeOK
<1> QED
  BY <1>1, TypesKept, PTL DEF Spec

----------------------------------------------------------------------------
(* Nothing twice.                                                          *)

\* No row was written, and no page was read, later than now.
NoneFromTheFuture ==
  /\ \A n \in Ids : Live(n) => rows[n].updated <= now
  /\ cursor # Start => cursor.updated <= now

\* The cursor is past n for good: a write would put n where the clock is, and
\* that is not after the cursor.
Passed(n) ==
  /\ now > cursor.updated \/ n <= cursor.id
  /\ Live(n) => ~After(cursor, PositionOf(n))

\* While more pages are to come, what was exported or listed has been passed.
ListedIsPassed ==
  more => IF cursor = Start
          THEN phase # "fetch" /\ Exported \cup pending = {}
          ELSE \A n \in Exported \cup pending : Passed(n)

\* Between pages nothing is pending, and the walk is between pages only while
\* there are more.
BetweenPages ==
  /\ phase \in {"page", "done"} => pending = {}
  /\ phase = "page" => more
  /\ phase = "done" => ~more

NothingTwiceInv ==
  /\ TypeOK
  /\ NoneFromTheFuture
  /\ BetweenPages
  /\ ListedIsPassed
  /\ NothingTwice
  /\ pending \cap Exported = {}

\* What nobody wrote to and is asked for is exported, on the page, or ahead.
UntouchedAhead ==
  phase # "cancelled" =>
    \A n \in Ids \ touched :
      Matches(n) => \/ n \in Exported \cup pending
                    \/ more /\ (cursor = Start \/ After(cursor, PositionOf(n)))

\* What nobody wrote to and is exported, or on the page, is asked for.
ListedIsWanted ==
  \A n \in (Exported \cup pending) \ touched : Matches(n)

UntouchedInv ==
  /\ TypeOK
  /\ BetweenPages
  /\ UntouchedAhead
  /\ ListedIsWanted

\* What a line adds to what is exported.
LEMMA ExportedThen ==
  ASSUME TypeOK
  PROVE  /\ \A n \in Ids : lines' = Append(lines, n) => Exported' = Exported \cup {n}
         /\ lines' = lines => Exported' = Exported
         /\ Exported \subseteq Ids
<1>1. ASSUME NEW n \in Ids, lines' = Append(lines, n)
      PROVE  Exported' = Exported \cup {n}
  <2>1. DOMAIN lines' = 1..Len(lines) + 1 /\ DOMAIN lines = 1..Len(lines)
    BY <1>1 DEF TypeOK
  <2>2. \A i \in 1..Len(lines) + 1 :
          lines'[i] = IF i = Len(lines) + 1 THEN n ELSE lines[i]
    BY <1>1 DEF TypeOK
  <2>3. Len(lines) \in Nat
    BY DEF TypeOK
  <2>4. n = lines'[Len(lines) + 1] /\ Len(lines) + 1 \in DOMAIN lines'
    BY <2>1, <2>2, <2>3
  <2>5. \A i \in DOMAIN lines : i \in DOMAIN lines' /\ lines'[i] = lines[i]
    BY <2>1, <2>2, <2>3
  <2>6. \A i \in DOMAIN lines' : lines'[i] = n \/ (i \in DOMAIN lines /\ lines'[i] = lines[i])
    BY <2>1, <2>2, <2>3
  <2> QED
    BY <2>4, <2>5, <2>6 DEF Exported
<1> QED
  BY <1>1 DEF Exported, TypeOK

\* What a writer does to the rows.
LEMMA WriterIs ==
  ASSUME TypeOK, Writer
  PROVE  /\ now \in Nat /\ now' \in Nat /\ now' >= now
         /\ UNCHANGED export
         /\ touched \subseteq touched'
         /\ \A n \in Ids :
              \/ rows'[n] = rows[n]
              \/ /\ n \in touched'
                 /\ now' = now
                 /\ rows'[n] # NoRow => rows'[n].updated = now
<1> USE DEF TypeOK
<1>1. now \in Nat
  BY SizesAssumption
<1>2. ASSUME NEW n \in Ids, Put(n) \/ Rollback(n) \/ Delete(n)
      PROVE  /\ now' = now /\ UNCHANGED export /\ touched' = touched \cup {n}
             /\ \A m \in Ids \ {n} : rows'[m] = rows[m]
             /\ rows'[n] # NoRow => rows'[n].updated = now
  <2>1. CASE Put(n)
    BY <2>1 DEF Put, Write
  <2>2. CASE Rollback(n)
    BY <2>2 DEF Rollback, Live, Row, Write
  <2>3. CASE Delete(n)
    BY <2>3 DEF Delete, Write
  <2> QED
    BY <1>2, <2>1, <2>2, <2>3
<1>3. ASSUME NEW n \in Ids, NEW m \in Ids, Rename(n, m)
      PROVE  /\ now' = now /\ UNCHANGED export /\ touched' = touched \cup {n, m}
             /\ \A k \in Ids \ {n, m} : rows'[k] = rows[k]
             /\ rows'[n] = NoRow /\ rows'[m].updated = now
  <2>1. n # m
    BY <1>3 DEF Rename
  <2>2. [rows[n] EXCEPT !.updated = now].updated = now
    BY <1>3 DEF Rename, Live, Row
  <2> QED
    BY <1>3, <2>1, <2>2 DEF Rename, Write
<1>4. CASE Tick
  BY <1>1, <1>4 DEF Tick
<1>5. CASE \E n \in Ids : Put(n) \/ Rollback(n) \/ Delete(n)
  BY <1>1, <1>2, <1>5
<1>6. CASE \E n, m \in Ids : Rename(n, m)
  BY <1>1, <1>3, <1>6
<1> QED
  BY <1>4, <1>5, <1>6 DEF Writer

\* A page keeps what the first theorem needs.
LEMMA PageKeepsNothingTwice ==
  ASSUME NothingTwiceInv, TypeOK', ReadPage
  PROVE  NothingTwiceInv'
<1> USE DEF NothingTwiceInv
<1>1. PICK limit \in Limits :
        LET page == FirstRows(Clamp(limit))
        IN  /\ pending' = page
            /\ more' = (page # Remaining)
            /\ cursor' = IF page # Remaining THEN PositionOf(LastOf(page)) ELSE cursor
  BY DEF ReadPage
<1> DEFINE page == FirstRows(Clamp(limit))
           last == LastOf(page)
<1>2. /\ phase = "page" /\ more /\ pending = {}
      /\ phase' = "fetch" /\ lines' = lines /\ UNCHANGED <<rows, now>>
  BY DEF ReadPage, BetweenPages, table
<1>3. Exported' = Exported /\ Exported \subseteq Ids
  BY <1>2, ExportedThen
<1>4. /\ page \subseteq Remaining
      /\ page # Remaining =>
           /\ last \in page
           /\ \A m \in page : ~After(PositionOf(last), PositionOf(m))
  BY ClampIs, PageIs
<1>5. \A n \in Remaining :
        /\ n \in Ids /\ Live(n)
        /\ PositionOf(n) \in Position
        /\ PositionOf(n).updated = rows[n].updated /\ PositionOf(n).id = n
        /\ cursor = Start \/ After(cursor, PositionOf(n))
  BY PositionsAre DEF Remaining, Matches
<1>6. \A n \in Exported : cursor # Start /\ cursor \in Position /\ Passed(n)
  BY <1>2 DEF ListedIsPassed, TypeOK
<1>7. pending' \cap Exported' = {}
  BY <1>1, <1>3, <1>4, <1>5, <1>6 DEF Passed
<1>8. NoneFromTheFuture'
  <2>1. page # Remaining => last \in Ids /\ PositionOf(last).updated <= now
    BY <1>4, <1>5 DEF NoneFromTheFuture
  <2> QED
    BY <1>1, <1>2, <2>1 DEF NoneFromTheFuture, Live
<1>9. ListedIsPassed'
  <2> SUFFICES ASSUME more'
               PROVE  cursor' # Start /\ \A n \in Exported' \cup pending' : Passed(n)'
    BY <1>2 DEF ListedIsPassed
  <2>1. page # Remaining /\ cursor' = PositionOf(last) /\ last \in page
    BY <1>1, <1>4
  <2>2. /\ cursor' \in Position /\ cursor' # Start
        /\ cursor'.updated = rows[last].updated /\ cursor'.id = last
    BY <2>1, <1>4, <1>5, MissingAssumption
  <2>3. /\ now \in Nat /\ cursor'.updated \in Nat /\ cursor'.updated <= now
        /\ \A n \in Ids : n \in Nat
    <3>1. now \in Nat
      BY SizesAssumption DEF TypeOK
    <3>2. cursor'.updated \in Nat
      BY <2>2, SizesAssumption DEF Position
    <3>3. cursor'.updated <= now
      BY <2>2, <1>2, <1>8 DEF NoneFromTheFuture
    <3> QED
      BY <3>1, <3>2, <3>3, IdsAssumption
  <2>4. ASSUME NEW n \in page PROVE Passed(n)'
    <3>1. ~After(cursor', PositionOf(n)) /\ rows[n].updated <= now /\ rows[n].updated \in Nat
      BY <2>1, <1>4, <1>5, SizesAssumption DEF NoneFromTheFuture, TypeOK, Live, Row
    <3>2. now > cursor'.updated \/ n <= cursor'.id
      <4>1. n \in Ids /\ PositionOf(n).updated = rows[n].updated /\ PositionOf(n).id = n
        BY <1>4, <1>5
      <4>2. cursor'.id \in Nat
        BY <2>2, IdsAssumption DEF Position
      <4> QED
        BY <3>1, <4>1, <4>2, <2>3 DEF After
    <3>3. PositionOf(n)' = PositionOf(n)
      BY <1>2 DEF PositionOf
    <3> QED
      BY <3>1, <3>2, <3>3, <1>2 DEF Passed
  <2>5. ASSUME NEW n \in Exported PROVE Passed(n)'
    <3>1. cursor \in Position /\ Passed(n) /\ n \in Ids /\ After(cursor, cursor')
      BY <1>3, <1>4, <1>5, <1>6, <2>1
    <3>2. cursor.updated \in Nat
      BY <3>1, SizesAssumption DEF Position
    <3>3. cursor.id \in Nat /\ cursor'.id \in Nat /\ n \in Nat
      BY <3>1, <2>2, IdsAssumption DEF Position
    <3>4. cursor.updated <= now
      BY <1>6 DEF NoneFromTheFuture
    <3>5. now > cursor'.updated \/ n <= cursor'.id
      <4>1. CASE now > cursor.updated
        BY <3>1, <3>2, <4>1, <2>3 DEF After
      <4>2. CASE ~(now > cursor.updated)
        BY <3>1, <3>2, <3>3, <3>4, <4>2, <2>3 DEF After, Passed
      <4> QED
        BY <4>1, <4>2
    <3>6. Live(n) => ~After(cursor', PositionOf(n))
      BY <3>1, <2>2, AfterIsAnOrder, PositionsAre DEF Passed
    <3>7. PositionOf(n)' = PositionOf(n) /\ Live(n)' = Live(n)
      BY <1>2 DEF PositionOf, Live
    <3> QED
      BY <3>5, <3>6, <3>7, <1>2 DEF Passed
  <2> QED
    BY <1>1, <1>3, <2>2, <2>4, <2>5
<1>10. BetweenPages' /\ NothingTwice'
  BY <1>2 DEF BetweenPages, NothingTwice
<1> QED
  BY <1>7, <1>8, <1>9, <1>10

\* A fetch keeps it.
LEMMA FetchKeepsNothingTwice ==
  ASSUME NothingTwiceInv, TypeOK', FetchOne
  PROVE  NothingTwiceInv'
<1> USE DEF NothingTwiceInv
<1>1. PICK n \in pending :
        /\ pending' = pending \ {n}
        /\ lines' = IF Live(n) THEN Append(lines, n) ELSE lines
  BY DEF FetchOne
<1>2. phase = "fetch" /\ UNCHANGED <<phase, cursor, more, rows, now>>
  BY DEF FetchOne, table
<1>3. n \in Ids /\ n \notin Exported
  BY <1>1 DEF TypeOK
<1>4. Exported' = Exported \cup {n} \/ Exported' = Exported
  BY <1>1, <1>3, ExportedThen
<1>5. pending' \cap Exported' = {}
  BY <1>1, <1>4
<1>6. NoneFromTheFuture' /\ BetweenPages'
  BY <1>2 DEF NoneFromTheFuture, BetweenPages, Live
<1>7. ListedIsPassed'
  <2>1. \A m \in Ids : Passed(m)' = Passed(m)
    BY <1>2 DEF Passed, Live, PositionOf
  <2>2. Exported' \cup pending' \subseteq Exported \cup pending
    BY <1>1, <1>4
  <2>3. Exported \cup pending \subseteq Ids
    BY ExportedThen DEF TypeOK
  <2> QED
    BY <1>1, <1>2, <2>1, <2>2, <2>3 DEF ListedIsPassed
<1>8. NothingTwice'
  <2>1. CASE lines' = lines
    BY <2>1 DEF NothingTwice
  <2>2. CASE lines' = Append(lines, n)
    <3>1. DOMAIN lines' = 1..Len(lines) + 1 /\ DOMAIN lines = 1..Len(lines)
      BY <2>2 DEF TypeOK
    <3>2. \A i \in 1..Len(lines) + 1 :
            lines'[i] = IF i = Len(lines) + 1 THEN n ELSE lines[i]
      BY <2>2 DEF TypeOK
    <3>3. Len(lines) \in Nat
      BY DEF TypeOK
    <3>4. \A i \in 1..Len(lines) : lines[i] # n
      BY <3>1, <1>3 DEF Exported
    <3> QED
      BY <3>1, <3>2, <3>3, <3>4 DEF NothingTwice
  <2> QED
    BY <1>1, <2>1, <2>2
<1> QED
  BY <1>5, <1>6, <1>7, <1>8

\* A writer keeps it: what was passed is not written in front of the cursor.
LEMMA WriterKeepsNothingTwice ==
  ASSUME NothingTwiceInv, TypeOK', Writer
  PROVE  NothingTwiceInv'
<1> USE DEF NothingTwiceInv
<1>1. UNCHANGED <<phase, cursor, more, pending, lines>>
  BY WriterIs DEF export
<1>2. now \in Nat /\ now' \in Nat /\ now' >= now
  BY WriterIs
<1>3. \A n \in Ids : \/ rows'[n] = rows[n]
                     \/ now' = now /\ (rows'[n] # NoRow => rows'[n].updated = now)
  BY WriterIs
<1>4. cursor # Start => cursor \in Position /\ cursor.updated \in Nat /\ cursor.updated <= now
  BY SizesAssumption DEF TypeOK, Position, NoneFromTheFuture
<1>5. NoneFromTheFuture'
  <2>1. ASSUME NEW n \in Ids, rows'[n] # NoRow PROVE rows'[n].updated <= now'
    <3>1. CASE rows'[n] = rows[n]
      <4>1. rows[n].updated \in Nat /\ rows[n].updated <= now
        BY <3>1, <2>1, SizesAssumption DEF TypeOK, Row, Live, NoneFromTheFuture
      <4> QED
        BY <3>1, <4>1, <1>2
    <3> QED
      BY <3>1, <2>1, <1>2, <1>3
  <2> QED
    BY <1>1, <1>2, <1>4, <2>1 DEF NoneFromTheFuture, Live
<1>6. Exported' = Exported
  BY <1>1, ExportedThen
<1>7. ASSUME NEW n \in Ids, cursor # Start, Passed(n) PROVE Passed(n)'
  <2>1. now' > cursor.updated \/ n <= cursor.id
    BY <1>2, <1>4, <1>7 DEF Passed
  <2>2. ASSUME rows'[n] # NoRow PROVE ~After(cursor, PositionOf(n)')
    <3>1. CASE rows'[n] = rows[n]
      BY <3>1, <2>2, <1>7 DEF Passed, Live, PositionOf
    <3>2. CASE now' = now /\ rows'[n].updated = now
      <4>1. PositionOf(n)'.updated = now /\ PositionOf(n)'.id = n
        BY <3>2 DEF PositionOf
      <4>2. cursor.id \in Nat /\ n \in Nat
        BY <1>4, <1>7, IdsAssumption DEF Position
      <4> QED
        BY <4>1, <4>2, <3>2, <2>1, <1>2, <1>4, <1>7 DEF After
    <3> QED
      BY <3>1, <3>2, <2>2, <1>3
  <2> QED
    BY <1>1, <2>1, <2>2 DEF Passed, Live
<1>8. ListedIsPassed'
  <2>1. Exported \cup pending \subseteq Ids
    BY ExportedThen DEF TypeOK
  <2> QED
    BY <1>1, <1>6, <1>7, <2>1 DEF ListedIsPassed
<1> QED
  BY <1>1, <1>5, <1>6, <1>8 DEF BetweenPages, NothingTwice

\* An export lists no id twice.
THEOREM ExportsNothingTwice == Spec => []NothingTwice
<1>1. Init => NothingTwiceInv
  <2> SUFFICES ASSUME Init PROVE NothingTwiceInv
    OBVIOUS
  <2>1. TypeOK
    BY DEF Init, TypeOK
  <2>2. Exported = {} /\ NothingTwice
    BY DEF Init, Exported, NothingTwice
  <2>3. NoneFromTheFuture
    BY DEF Init, NoneFromTheFuture, Live
  <2>4. ListedIsPassed /\ BetweenPages
    BY <2>2 DEF Init, ListedIsPassed, BetweenPages
  <2> QED
    BY <2>1, <2>2, <2>3, <2>4 DEF Init, NothingTwiceInv
<1>2. NothingTwiceInv /\ [Next]_vars => NothingTwiceInv'
  <2> SUFFICES ASSUME NothingTwiceInv, [Next]_vars PROVE NothingTwiceInv'
    OBVIOUS
  <2>1. TypeOK'
    BY TypesKept DEF NothingTwiceInv
  <2>2. CASE ReadPage
    BY <2>1, <2>2, PageKeepsNothingTwice
  <2>3. CASE FetchOne
    BY <2>1, <2>3, FetchKeepsNothingTwice
  <2>4. CASE NextPage \/ Cancel
    <3>1. UNCHANGED <<cursor, more, pending, lines, rows, now>>
      BY <2>4 DEF NextPage, Cancel, table
    <3>2. Exported' = Exported /\ NothingTwice' = NothingTwice
      BY <3>1 DEF Exported, NothingTwice
    <3>3. \A n : Passed(n)' = Passed(n)
      BY <3>1 DEF Passed, Live, PositionOf
    <3>4. NoneFromTheFuture' /\ BetweenPages'
      BY <2>4, <3>1 DEF NothingTwiceInv, NoneFromTheFuture, BetweenPages, NextPage, Cancel, Live
    <3>5. ListedIsPassed'
      BY <2>4, <3>1, <3>2, <3>3 DEF NothingTwiceInv, ListedIsPassed, NextPage, Cancel
    <3> QED
      BY <2>1, <3>1, <3>2, <3>4, <3>5 DEF NothingTwiceInv
  <2>5. CASE Writer
    BY <2>1, <2>5, WriterKeepsNothingTwice
  <2>6. CASE UNCHANGED vars
    <3>1. Exported' = Exported /\ \A n : Passed(n)' = Passed(n)
      BY <2>6 DEF vars, Exported, Passed, Live, PositionOf
    <3> QED
      BY <2>1, <2>6, <3>1 DEF vars, NothingTwiceInv, NoneFromTheFuture, BetweenPages,
                              ListedIsPassed, NothingTwice, Live
  <2> QED
    BY <2>2, <2>3, <2>4, <2>5, <2>6 DEF Next, Reader
<1>3. NothingTwiceInv => NothingTwice
  BY DEF NothingTwiceInv
<1> QED
  BY <1>1, <1>2, <1>3, PTL DEF Spec

----------------------------------------------------------------------------
(* What nobody writes to.                                                  *)

\* A page keeps what the second theorem needs.
LEMMA PageKeepsUntouched ==
  ASSUME UntouchedInv, TypeOK', ReadPage
  PROVE  UntouchedInv'
<1> USE DEF UntouchedInv
<1>1. PICK limit \in Limits :
        LET page == FirstRows(Clamp(limit))
        IN  /\ pending' = page
            /\ more' = (page # Remaining)
            /\ cursor' = IF page # Remaining THEN PositionOf(LastOf(page)) ELSE cursor
  BY DEF ReadPage
<1> DEFINE page == FirstRows(Clamp(limit))
           last == LastOf(page)
<1>2. /\ phase = "page" /\ more /\ pending = {}
      /\ phase' = "fetch" /\ UNCHANGED <<lines, rows, now, touched>>
  BY DEF ReadPage, BetweenPages, table
<1>3. Exported' = Exported /\ \A n : Matches(n)' = Matches(n) /\ PositionOf(n)' = PositionOf(n)
  BY <1>2 DEF Exported, Matches, Live, PositionOf
<1>4. page \subseteq Remaining /\ \A n \in Remaining : Matches(n)
  BY ClampIs, PageIs DEF Remaining
<1>5. UntouchedAhead'
  <2> SUFFICES ASSUME NEW n \in Ids \ touched, Matches(n), n \notin Exported, n \notin page
               PROVE  more' /\ After(cursor', PositionOf(n))
    BY <1>1, <1>2, <1>3 DEF UntouchedAhead
  <2>1. n \in Remaining
    BY <1>2 DEF UntouchedAhead, Remaining
  <2>2. After(PositionOf(last), PositionOf(n))
    BY <2>1, ClampIs, PageIs
  <2> QED
    BY <1>1, <2>1, <2>2
<1>6. ListedIsWanted'
  BY <1>1, <1>2, <1>3, <1>4 DEF ListedIsWanted
<1> QED
  BY <1>2, <1>5, <1>6 DEF BetweenPages

\* A fetch keeps it: what nobody wrote to is still there to be fetched.
LEMMA FetchKeepsUntouched ==
  ASSUME UntouchedInv, TypeOK', FetchOne
  PROVE  UntouchedInv'
<1> USE DEF UntouchedInv
<1>1. PICK n \in pending :
        /\ pending' = pending \ {n}
        /\ lines' = IF Live(n) THEN Append(lines, n) ELSE lines
  BY DEF FetchOne
<1>2. phase = "fetch" /\ UNCHANGED <<phase, cursor, more, rows, now, touched>>
  BY DEF FetchOne, table
<1>3. \A m : Matches(m)' = Matches(m) /\ PositionOf(m)' = PositionOf(m)
  BY <1>2 DEF Matches, Live, PositionOf
<1>4. n \in Ids
  BY <1>1 DEF TypeOK
<1>5. IF Live(n) THEN Exported' = Exported \cup {n} ELSE Exported' = Exported
  BY <1>1, <1>4, ExportedThen
<1>6. n \notin touched => Live(n)
  BY <1>1 DEF ListedIsWanted, Matches
<1>7. UntouchedAhead'
  BY <1>1, <1>2, <1>3, <1>5, <1>6 DEF UntouchedAhead
<1>8. ListedIsWanted'
  BY <1>1, <1>2, <1>3, <1>5 DEF ListedIsWanted
<1> QED
  BY <1>2, <1>7, <1>8 DEF BetweenPages

\* A writer keeps it: the rows it changes are no longer untouched.
LEMMA WriterKeepsUntouched ==
  ASSUME UntouchedInv, TypeOK', Writer
  PROVE  UntouchedInv'
<1> USE DEF UntouchedInv
<1>1. UNCHANGED <<phase, cursor, more, pending, lines>> /\ touched \subseteq touched'
  BY WriterIs DEF export
<1>2. ASSUME NEW n \in Ids \ touched'
      PROVE  Matches(n)' = Matches(n) /\ PositionOf(n)' = PositionOf(n)
  <2>1. rows'[n] = rows[n]
    BY WriterIs
  <2> QED
    BY <2>1 DEF Matches, Live, PositionOf
<1>3. Exported' = Exported /\ Exported \cup pending \subseteq Ids
  BY <1>1, ExportedThen DEF TypeOK
<1>4. UntouchedAhead'
  BY <1>1, <1>2, <1>3 DEF UntouchedAhead
<1>5. ListedIsWanted'
  BY <1>1, <1>2, <1>3 DEF ListedIsWanted
<1> QED
  BY <1>1, <1>4, <1>5 DEF BetweenPages

\* A gadget that nobody writes to during an export is in it if and only if it
\* is asked for.
THEOREM ExportsTheUntouched == Spec => []UntouchedExported
<1>1. Init => UntouchedInv
  <2> SUFFICES ASSUME Init PROVE UntouchedInv
    OBVIOUS
  <2>1. TypeOK
    BY DEF Init, TypeOK
  <2>2. Exported = {}
    BY DEF Init, Exported
  <2> QED
    BY <2>1, <2>2 DEF Init, UntouchedInv, BetweenPages, UntouchedAhead, ListedIsWanted
<1>2. UntouchedInv /\ [Next]_vars => UntouchedInv'
  <2> SUFFICES ASSUME UntouchedInv, [Next]_vars PROVE UntouchedInv'
    OBVIOUS
  <2>1. TypeOK'
    BY TypesKept DEF UntouchedInv
  <2>2. CASE ReadPage
    BY <2>1, <2>2, PageKeepsUntouched
  <2>3. CASE FetchOne
    BY <2>1, <2>3, FetchKeepsUntouched
  <2>4. CASE NextPage \/ Cancel \/ UNCHANGED vars
    <3>1. UNCHANGED <<cursor, more, pending, lines, rows, now, touched>>
      BY <2>4 DEF NextPage, Cancel, table, vars
    <3>2. /\ Exported' = Exported
          /\ \A n : Matches(n)' = Matches(n) /\ PositionOf(n)' = PositionOf(n)
      BY <3>1 DEF Exported, Matches, Live, PositionOf
    <3>3. BetweenPages'
      BY <2>4, <3>1 DEF UntouchedInv, BetweenPages, NextPage, Cancel, vars
    <3>4. UntouchedAhead'
      BY <2>4, <3>1, <3>2 DEF UntouchedInv, UntouchedAhead, NextPage, Cancel, vars
    <3>5. ListedIsWanted'
      BY <3>1, <3>2 DEF UntouchedInv, ListedIsWanted
    <3> QED
      BY <2>1, <3>3, <3>4, <3>5 DEF UntouchedInv
  <2>5. CASE Writer
    BY <2>1, <2>5, WriterKeepsUntouched
  <2> QED
    BY <2>2, <2>3, <2>4, <2>5 DEF Next, Reader
<1>3. UntouchedInv => UntouchedExported
  <2> SUFFICES ASSUME UntouchedInv, phase = "done", NEW n \in Ids \ touched
               PROVE  n \in Exported <=> OfWanted(n)
    BY DEF UntouchedExported
  <2>1. ~more /\ pending = {}
    BY DEF UntouchedInv, BetweenPages
  <2>2. n \in Exported <=> Matches(n)
    BY <2>1 DEF UntouchedInv, UntouchedAhead, ListedIsWanted
  <2> QED
    BY <2>2 DEF Matches, OfWanted
<1> QED
  BY <1>1, <1>2, <1>3, PTL DEF Spec

=============================================================================
