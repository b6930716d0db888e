--------------------------- MODULE KickoffProofs ---------------------------
(***************************************************************************)
(* Theorems about Kickoff, for every library, page limit, number of writes *)
(* and order of the categories.                                            *)
(*                                                                         *)
(* That the call acts on what the user has seen, and is over, heartbeat    *)
(* included, once it has its answer: inductive is what it has agreed on    *)
(* with the user at each point, whatever the prompt is.                    *)
(*                                                                         *)
(* That the prompt is the right one: a ranking is a bijection of the rows  *)
(* and the places, so that the picks of a category are the gadgets that    *)
(* are wanted of it; what selectChain and assemblePrompt have after each   *)
(* round follows by induction over the rounds, as long as no other process *)
(* writes.                                                                 *)
(***************************************************************************)
EXTENDS Kickoff, TLAPS, FiniteSetTheorems, SequenceTheorems

Questions == {"basics", "type", "stack", "integrations"}

ShownNow == shown = [prompt |-> prompt, chain |-> chain]

\* Before the preview nothing has been shown or picked; from then on prompt
\* and chain are what was shown; only a pick leads to sampling; and an answer
\* that was given is right.
Agreed ==
  /\ at \in {"idle", "select", "assemble"} \cup Questions => shown = None /\ pick = "none"
  /\ at = "preview" => ShownNow /\ pick = "none"
  /\ at = "sample" => ShownNow /\ pick = "sample"
  /\ DeliversWhatWasShown

\* The picks that end the call, and their actions.
LEMMA ActionsOfPicks ==
  /\ DOMAIN ActionOf = {"return", "cancel", "dispatch-now", "plan-first"}
  /\ ActionOf["return"] = "returned" /\ ActionOf["cancel"] = "cancelled"
  /\ \A p \in {"dispatch-now", "plan-first"} : ActionOf[p] = p
  BY DEF ActionOf

\* One step of the call, or of anybody else, keeps the agreement.
LEMMA StepAgrees == Agreed /\ [Next]_vars => Agreed'
<1> SUFFICES ASSUME Agreed, [Next]_vars
             PROVE  Agreed'
  OBVIOUS
<1> USE DEF Agreed, Questions, ShownNow, None
<1>1. CASE Call
  BY <1>1 DEF Call, DeliversWhatWasShown
<1>2. CASE User
  <2>1. CASE Accepted
    BY <2>1 DEF Accepted, NextQuestion, DeliversWhatWasShown
  <2>2. CASE Declined
    BY <2>2 DEF Declined, Answer, Cancelled, DeliversWhatWasShown
  <2>3. CASE IntegrationsAnswered
    BY <2>3 DEF IntegrationsAnswered, DeliversWhatWasShown
  <2>4. CASE PreviewDeclined
    BY <2>4 DEF PreviewDeclined, Answer, Result, DeliversWhatWasShown
  <2>5. ASSUME NEW p \in {"return", "dispatch-now", "plan-first", "sample", "cancel"}, Picked(p)
        PROVE  Agreed'
    <3>1. CASE p = "sample" /\ at' = "sample"
      BY <2>5, <3>1, ActionsOfPicks DEF Picked, Answer, DeliversWhatWasShown
    <3>2. CASE p \in DOMAIN ActionOf /\ Answer(Result(ActionOf[p]))
      <4>1. answer'.is = ActionOf[p] /\ shown' = [prompt |-> answer'.prompt, chain |-> answer'.chain]
        BY <2>5, <3>2 DEF Picked, Answer, Result
      <4> QED
        BY <2>5, <3>2, <4>1 DEF Picked, Answer, DeliversWhatWasShown
    <3> QED
      BY <2>5, <3>1, <3>2 DEF Picked
  <2> QED
    BY <1>2, <2>1, <2>2, <2>3, <2>4, <2>5 DEF User
<1>3. CASE ElicitationFails \/ ComposingFails
  BY <1>3 DEF ElicitationFails, ComposingFails, Answer, DeliversWhatWasShown
<1>4. CASE Own
  <2>1. CASE SelectCategory
    BY <2>1 DEF SelectCategory, DeliversWhatWasShown
  <2>2. CASE ChainSelected
    BY <2>2 DEF ChainSelected, DeliversWhatWasShown
  <2>3. CASE AssembleItem
    BY <2>3 DEF AssembleItem, DeliversWhatWasShown
  <2>4. CASE ShowPreview
    BY <2>4 DEF ShowPreview, DeliversWhatWasShown
  <2> QED
    BY <1>4, <2>1, <2>2, <2>3, <2>4 DEF Own
<1>5. CASE Sampled
  BY <1>5 DEF Sampled, Answer, Result, DeliversWhatWasShown
<1>6. CASE SamplingFails
  BY <1>6 DEF SamplingFails, Answer, Result, DeliversWhatWasShown
<1>7. CASE Write
  BY <1>7 DEF Write, wizard, call, DeliversWhatWasShown
<1>8. CASE UNCHANGED vars
  BY <1>8 DEF vars, wizard, call, DeliversWhatWasShown
<1> QED
  BY <1>1, <1>2, <1>3, <1>4, <1>5, <1>6, <1>7, <1>8 DEF Next

\* Whatever other clients write and whenever, the answer of a call is made of
\* the preview and of the user's pick.
THEOREM AlwaysDeliversWhatWasShown == Spec => []DeliversWhatWasShown
<1>1. Init => Agreed
  BY DEF Init, Agreed, Questions, None, DeliversWhatWasShown
<1>2. Agreed => DeliversWhatWasShown
  BY DEF Agreed
<1> QED
  BY <1>1, <1>2, StepAgrees, PTL DEF Spec

\* What the call answers is an answer.
LEMMA AnswersAreNoNone ==
  /\ Cancelled # None
  /\ \A action \in Actions : Result(action) # None
  /\ [is |-> "invalidGadget", prompt |-> <<>>, chain |-> <<>>] # None
  /\ \A p \in DOMAIN ActionOf : ActionOf[p] \in Actions
<1>1. Cancelled.is # None.is
  BY DEF Cancelled, None
<1>2. \A action \in Actions : Result(action).is # None.is
  BY DEF Result, None, Actions
<1>3. [is |-> "invalidGadget", prompt |-> <<>>, chain |-> <<>>].is # None.is
  BY DEF None
<1>4. \A p \in DOMAIN ActionOf : ActionOf[p] \in Actions
  BY ActionsOfPicks DEF Actions
<1> QED
  BY <1>1, <1>2, <1>3, <1>4

\* An answer ends the call and its heartbeat.
LEMMA AnswerEnds ==
  ASSUME NEW result, result # None, Answer(result)
  PROVE  OverOnEveryWayOut'
  BY DEF Answer, OverOnEveryWayOut, None

\* A step that leaves answer and heartbeat alone and does not end the call.
LEMMA GoesOn ==
  ASSUME OverOnEveryWayOut, at \notin {"idle", "done"}, at' \notin {"idle", "done"},
         answer' = answer
  PROVE  OverOnEveryWayOut'
  BY DEF OverOnEveryWayOut, None

\* Every step ends the call altogether or not at all.
LEMMA StepIsOver == OverOnEveryWayOut /\ [Next]_vars => OverOnEveryWayOut'
<1> SUFFICES ASSUME OverOnEveryWayOut, [Next]_vars
             PROVE  OverOnEveryWayOut'
  OBVIOUS
<1>1. CASE Call
  BY <1>1 DEF Call, OverOnEveryWayOut, None
<1>2. CASE User
  <2>1. CASE Accepted
    <3>1. at' \in {"type", "stack", "integrations"} /\ at \notin {"idle", "done"} /\ answer' = answer
      BY <2>1 DEF Accepted, NextQuestion, call
    <3> QED
      BY <3>1, GoesOn
  <2>2. CASE Declined
    BY <2>2, AnswersAreNoNone, AnswerEnds DEF Declined
  <2>3. CASE IntegrationsAnswered
    BY <2>3, GoesOn DEF IntegrationsAnswered, call
  <2>4. CASE PreviewDeclined
    BY <2>4, AnswersAreNoNone, AnswerEnds DEF PreviewDeclined, Actions
  <2>5. ASSUME NEW p \in {"return", "dispatch-now", "plan-first", "sample", "cancel"}, Picked(p)
        PROVE  OverOnEveryWayOut'
    <3>1. CASE at' = "sample" /\ UNCHANGED call
      BY <2>5, <3>1, GoesOn DEF Picked, call
    <3>2. CASE p \in DOMAIN ActionOf /\ Answer(Result(ActionOf[p]))
      BY <3>2, AnswersAreNoNone, AnswerEnds
    <3> QED
      BY <2>5, <3>1, <3>2 DEF Picked
  <2> QED
    BY <1>2, <2>1, <2>2, <2>3, <2>4, <2>5 DEF User
<1>3. CASE ElicitationFails \/ ComposingFails
  BY <1>3, AnswersAreNoNone, AnswerEnds DEF ElicitationFails, ComposingFails
<1>4. CASE Own
  BY <1>4, GoesOn DEF Own, SelectCategory, ChainSelected, AssembleItem, ShowPreview, call
<1>5. CASE Sampled
  BY <1>5, AnswersAreNoNone, AnswerEnds DEF Sampled, Actions
<1>6. CASE SamplingFails
  BY <1>6, AnswersAreNoNone, AnswerEnds DEF SamplingFails, Actions
<1>7. CASE Write
  BY <1>7 DEF Write, wizard, call, OverOnEveryWayOut
<1>8. CASE UNCHANGED vars
  BY <1>8 DEF vars, wizard, call, OverOnEveryWayOut
<1> QED
  BY <1>1, <1>2, <1>3, <1>4, <1>5, <1>6, <1>7, <1>8 DEF Next

\* On every way out of the wizard (declined, failed, timed out, dispatched)
\* there is an answer and the heartbeat has stopped.
THEOREM AlwaysOverOnEveryWayOut == Spec => []OverOnEveryWayOut
<1>1. Init => OverOnEveryWayOut
  BY DEF Init, OverOnEveryWayOut
<1> QED
  BY <1>1, StepIsOver, PTL DEF Spec

----------------------------------------------------------------------------
(* Ranked rows.                                                            *)

\* i is j or comes before it in the ranking.
Ahead(i, j, score) == score[i] > score[j] \/ (score[i] = score[j] /\ i <= j)

RankIn(S, score, i) == Cardinality({j \in S : Ahead(j, i, score)})

\* Ranks are numbers from 1 to the number of rows, and grow along the ranking.
LEMMA RanksGrow ==
  ASSUME NEW S \in SUBSET Nat, IsFiniteSet(S), NEW score \in [S -> Nat]
  PROVE  /\ Cardinality(S) \in Nat
         /\ \A i \in S : RankIn(S, score, i) \in 1..Cardinality(S)
         /\ \A i, j \in S : Ahead(i, j, score) /\ i # j =>
              RankIn(S, score, i) < RankIn(S, score, j)
<1> DEFINE U(i) == {j \in S : Ahead(j, i, score)}
<1>1. Cardinality(S) \in Nat
  BY FS_CardinalityType
<1>2. ASSUME NEW i \in S
      PROVE  /\ IsFiniteSet(U(i)) /\ Cardinality(U(i)) \in Nat
             /\ Cardinality(U(i)) <= Cardinality(S)
             /\ i \in U(i) /\ Cardinality(U(i)) >= 1
  <2>1. U(i) \in SUBSET S
    OBVIOUS
  <2>2. IsFiniteSet(U(i)) /\ Cardinality(U(i)) <= Cardinality(S)
    BY <2>1, FS_Subset
  <2>3. i \in U(i)
    BY DEF Ahead
  <2>4. Cardinality(U(i)) \in Nat /\ Cardinality(U(i)) # 0
    BY <2>2, <2>3, FS_CardinalityType, FS_EmptySet
  <2> QED
    BY <2>2, <2>3, <2>4
<1>3. ASSUME NEW i \in S, NEW j \in S, Ahead(i, j, score), i # j
      PROVE  Cardinality(U(i)) < Cardinality(U(j))
  <2>1. U(i) \in SUBSET U(j)
    <3> SUFFICES ASSUME NEW k \in S, Ahead(k, i, score)
                 PROVE  Ahead(k, j, score)
      OBVIOUS
    <3>1. /\ score[i] \in Nat /\ score[j] \in Nat /\ score[k] \in Nat
          /\ i \in Nat /\ j \in Nat /\ k \in Nat
      OBVIOUS
    <3> QED
      BY <1>3, <3>1 DEF Ahead
  <2>2. j \notin U(i)
    BY <1>3 DEF Ahead
  <2>3. Cardinality(U(i)) <= Cardinality(U(j))
    BY <1>2, <2>1, FS_Subset
  <2>4. U(i) # U(j)
    BY <1>2, <2>2
  <2>5. Cardinality(U(i)) # Cardinality(U(j))
    BY <1>2, <2>1, <2>4, FS_Subset
  <2> QED
    BY <1>2, <2>3, <2>5
<1> QED
  BY <1>1, <1>2, <1>3 DEF RankIn

\* The ranking is a sequence of all the rows, each of them once, in order.
LEMMA RankedIs ==
  ASSUME NEW S \in SUBSET Nat, IsFiniteSet(S), NEW score \in [S -> Nat]
  PROVE  LET order == Ranked(S, score)
         IN  /\ order \in Seq(S) /\ Len(order) = Cardinality(S)
             /\ DOMAIN order = 1..Cardinality(S)
             /\ \A i \in S : \E k \in DOMAIN order : order[k] = i
             /\ \A k, m \in DOMAIN order :
                  k < m => Ahead(order[k], order[m], score) /\ order[k] # order[m]
<1> DEFINE n == Cardinality(S)
           order == Ranked(S, score)
           rank == [i \in S |-> RankIn(S, score, i)]
<1>1. n \in Nat /\ rank \in [S -> 1..n]
  BY RanksGrow
<1>2. \A i, j \in S : rank[i] = rank[j] => i = j
  <2> SUFFICES ASSUME NEW i \in S, NEW j \in S, i # j
               PROVE  rank[i] # rank[j]
    OBVIOUS
  <2>1. Ahead(i, j, score) \/ Ahead(j, i, score)
    BY DEF Ahead
  <2>2. rank[i] < rank[j] \/ rank[j] < rank[i]
    BY <2>1, RanksGrow
  <2> QED
    BY <1>1, <2>2
<1>3. rank \in Injection(S, 1..n)
  BY <1>1, <1>2 DEF Injection, IsInjective
<1>4. IsFiniteSet(1..n) /\ Cardinality(1..n) = n
  BY <1>1, FS_Interval
<1>5. rank \in Surjection(S, 1..n)
  BY <1>3, <1>4, FS_Injection
<1>6. \A k \in 1..n : \E i \in S : k = RankIn(S, score, i)
  BY <1>5 DEF Surjection
<1>7. order = [k \in 1..n |-> CHOOSE i \in S : k = RankIn(S, score, i)]
  BY DEF Ranked, RankIn, Ahead
<1>8. \A k \in 1..n : order[k] \in S /\ RankIn(S, score, order[k]) = k
  BY <1>6, <1>7
<1>9. DOMAIN order = 1..n
  BY <1>7
<1>10. order \in Seq(S) /\ Len(order) = n
  BY <1>1, <1>7, <1>8
<1>11. ASSUME NEW i \in S PROVE \E k \in DOMAIN order : order[k] = i
  BY <1>1, <1>2, <1>8, <1>9
<1>12. ASSUME NEW k \in 1..n, NEW m \in 1..n, k < m
       PROVE  Ahead(order[k], order[m], score) /\ order[k] # order[m]
  <2> HIDE DEF order
  <2>k. k \in Nat /\ m \in Nat /\ order[k] \in S /\ order[m] \in S
    BY <1>1, <1>8
  <2>1. order[k] # order[m]
    BY <1>8, <1>12, <2>k
  <2>2. ~Ahead(order[m], order[k], score)
    <3> SUFFICES ASSUME Ahead(order[m], order[k], score) PROVE FALSE
      OBVIOUS
    <3>1. RankIn(S, score, order[m]) < RankIn(S, score, order[k])
      BY <2>k, <2>1, RanksGrow
    <3> QED
      BY <1>8, <1>12, <2>k, <3>1
  <2>3. Ahead(order[k], order[m], score)
    <3>1. /\ score[order[k]] \in Nat /\ score[order[m]] \in Nat
          /\ order[k] \in Nat /\ order[m] \in Nat
      BY <2>k
    <3> QED
      BY <2>2, <3>1 DEF Ahead
  <2> QED
    BY <2>1, <2>3
<1> QED
  BY <1>9, <1>10, <1>11, <1>12

----------------------------------------------------------------------------
(* The library.                                                            *)

LibraryOK == library \in Seq(Gadget) /\ DistinctIds(library)

\* A row of the library is the one of its id.
LEMMA RowIs ==
  ASSUME LibraryOK
  PROVE  /\ DOMAIN library = 1..Len(library) /\ Len(library) \in Nat
         /\ \A i \in DOMAIN library :
              library[i] \in Gadget /\ Stored(library[i].id) /\ Row(library[i].id) = i
         /\ \A id : Stored(id) => Row(id) \in DOMAIN library /\ library[Row(id)].id = id
  BY DEF LibraryOK, DistinctIds, Stored, Row

\* Without one of its ids the library is one still.
LEMMA WithoutIs ==
  ASSUME LibraryOK, NEW id
  PROVE  /\ Without(id) \in Seq(Gadget) /\ DistinctIds(Without(id))
         /\ \A i \in DOMAIN Without(id) : Without(id)[i].id # id
<1> DEFINE r == Row(id)
           n == Len(library)
<1>1. CASE ~Stored(id)
  BY <1>1 DEF Without, Stored, LibraryOK
<1>2. CASE Stored(id)
  <2>1. r \in 1..n /\ library[r].id = id /\ n \in Nat
    BY <1>2, RowIs
  <2> DEFINE before == SubSeq(library, 1, r - 1)
             after  == SubSeq(library, r + 1, n)
  <2>2. Without(id) = before \o after
    BY <1>2 DEF Without, RemoveAt
  <2> HIDE DEF r
  <2>3. /\ before \in Seq(Gadget) /\ Len(before) = r - 1
        /\ \A i \in 1..r - 1 : before[i] = library[i]
    BY <2>1, SubSeqProperties DEF LibraryOK
  <2>4. /\ after \in Seq(Gadget) /\ Len(after) = n - r
        /\ \A i \in 1..n - r : after[i] = library[r + i]
    BY <2>1, SubSeqProperties DEF LibraryOK
  <2> HIDE DEF before, after
  <2>5. /\ Without(id) \in Seq(Gadget) /\ DOMAIN Without(id) = 1..n - 1
        /\ \A i \in 1..n - 1 : Without(id)[i] = library[IF i < r THEN i ELSE i + 1]
    BY <2>1, <2>2, <2>3, <2>4, ConcatProperties
  <2>6. \A i, j \in 1..n : library[i].id = library[j].id => i = j
    BY RowIs DEF LibraryOK, DistinctIds
  <2> DEFINE w == Without(id)
             from(i) == IF i < r THEN i ELSE i + 1
  <2>7. \A i \in 1..n - 1 : from(i) \in 1..n /\ from(i) # r /\ w[i] = library[from(i)]
    BY <2>1, <2>5
  <2>8. \A i, j \in 1..n - 1 : from(i) = from(j) => i = j
    BY <2>1
  <2>9. w \in Seq(Gadget) /\ DOMAIN w = 1..n - 1
    BY <2>5
  <2> HIDE DEF w, from
  <2>10. DistinctIds(w)
    BY <2>6, <2>7, <2>8, <2>9 DEF DistinctIds
  <2>11. \A i \in DOMAIN w : w[i].id # id
    BY <2>1, <2>6, <2>7, <2>9
  <2> QED
    BY <2>9, <2>10, <2>11 DEF w
<1> QED
  BY <1>1, <1>2

\* Putting a gadget moves it to the front.
LEMMA PutInFront ==
  ASSUME LibraryOK, NEW g \in Gadget
  PROVE  LET rows == <<g>> \o Without(g.id) IN rows \in Seq(Gadget) /\ DistinctIds(rows)
<1> DEFINE w == Without(g.id)
           rows == <<g>> \o w
<1>1. /\ w \in Seq(Gadget) /\ DistinctIds(w)
      /\ \A i \in DOMAIN w : w[i].id # g.id
  BY WithoutIs
<1> HIDE DEF w
<1>2. <<g>> \in Seq(Gadget) /\ Len(<<g>>) = 1 /\ <<g>>[1] = g
  OBVIOUS
<1>3. Len(w) \in Nat /\ DOMAIN w = 1..Len(w)
  BY <1>1
<1>4. /\ rows \in Seq(Gadget) /\ DOMAIN rows = 1..Len(w) + 1
      /\ \A i \in 1..Len(w) + 1 : rows[i] = IF i = 1 THEN g ELSE w[i - 1]
  BY <1>1, <1>2, <1>3, ConcatProperties
<1>5. DistinctIds(rows)
  BY <1>1, <1>3, <1>4 DEF DistinctIds
<1> QED
  BY <1>4, <1>5 DEF w

----------------------------------------------------------------------------
(* The picks of a category.                                                *)

Fits(category) == {i \in Page(category) : library[i].fit > 0}

Score(category) == [i \in Fits(category) |-> library[i].fit]

\* The rows that are scored are the candidates.
LEMMA FitsAre ==
  ASSUME LibraryOK, NEW category
  PROVE  /\ Fits(category) \in SUBSET DOMAIN library
         /\ Fits(category) \in SUBSET Nat /\ IsFiniteSet(Fits(category))
         /\ Score(category) \in [Fits(category) -> Nat]
         /\ \A i \in Fits(category) : library[i].category = category
         /\ \A id : Candidate(id, category) <=> Stored(id) /\ Row(id) \in Fits(category)
<1> DEFINE rows == {i \in DOMAIN library : library[i].category = category}
           newer(i) == {j \in rows : j < i}
           upTo(i) == {j \in 1..i : library[j].category = category}
<1>1. /\ DOMAIN library = 1..Len(library) /\ Len(library) \in Nat
      /\ \A i \in DOMAIN library : library[i] \in Gadget
  BY RowIs
<1>2. IsFiniteSet(1..Len(library)) /\ \A i \in DOMAIN library : library[i].fit \in Nat
  BY <1>1, FS_Interval, CategoriesAssumption DEF Gadget
<1>3. Fits(category) \in SUBSET DOMAIN library /\ \A i \in Fits(category) : i \in rows
  BY DEF Fits, Page
<1>4. IsFiniteSet(Fits(category))
  BY <1>1, <1>2, <1>3, FS_Subset
<1>5. ASSUME NEW i \in rows
      PROVE  Cardinality(newer(i)) < PageLimit <=> Cardinality(upTo(i)) <= PageLimit
  <2>1. i \in 1..Len(library) /\ newer(i) \in SUBSET (1..Len(library))
    BY <1>1
  <2>2. upTo(i) = newer(i) \cup {i} /\ i \notin newer(i)
    BY <1>1, <2>1
  <2>3. IsFiniteSet(newer(i)) /\ Cardinality(newer(i)) \in Nat
    BY <1>2, <2>1, FS_Subset, FS_CardinalityType
  <2>4. Cardinality(upTo(i)) = Cardinality(newer(i)) + 1
    BY <2>2, <2>3, FS_AddElement
  <2> QED
    BY <2>3, <2>4, CategoriesAssumption
<1>6. \A i : i \in Fits(category) <=>
               i \in rows /\ Cardinality(upTo(i)) <= PageLimit /\ library[i].fit > 0
  BY <1>5 DEF Fits, Page
<1>7. ASSUME NEW id
      PROVE  Candidate(id, category) <=> Stored(id) /\ Row(id) \in Fits(category)
  <2>1. Candidate(id, category) <=>
          \E i \in DOMAIN library : library[i].id = id /\ i \in Fits(category)
    BY <1>6 DEF Candidate
  <2> QED
    BY <2>1, RowIs
<1> QED
  BY <1>1, <1>2, <1>3, <1>4, <1>7 DEF Score

\* What is picked of a category: each of the gadgets that are wanted, once.
THEOREM PicksAreWanted ==
  ASSUME LibraryOK, NEW category
  PROVE  LET picks == Picks(category)
         IN  /\ picks \in Seq(Fits(category))
             /\ \A k, m \in DOMAIN picks : picks[k] = picks[m] => k = m
             /\ \A id \in Ids :
                  Wanted(id, category) <=> \E k \in DOMAIN picks : library[picks[k]].id = id
<1> DEFINE S == Fits(category)
           score == Score(category)
           scored == Scored(category)
           n == Cardinality(S)
<1>1. /\ S \in SUBSET DOMAIN library /\ S \in SUBSET Nat /\ IsFiniteSet(S)
      /\ score \in [S -> Nat]
      /\ \A id : Candidate(id, category) <=> Stored(id) /\ Row(id) \in S
  BY FitsAre
<1>2. scored = Ranked(S, score)
  BY DEF Scored, Fits, Score
<1>3. \A i \in S : score[i] = library[i].fit
  BY DEF Score
<1> HIDE DEF S, score, scored
<1>4. /\ scored \in Seq(S) /\ Len(scored) = n /\ DOMAIN scored = 1..n
      /\ \A i \in S : \E k \in 1..n : scored[k] = i
      /\ \A k, m \in 1..n :
           k < m => Ahead(scored[k], scored[m], score) /\ scored[k] # scored[m]
  <2> DEFINE order == Ranked(S, score)
  <2>1. /\ order \in Seq(S) /\ Len(order) = Cardinality(S)
        /\ DOMAIN order = 1..Cardinality(S)
        /\ \A i \in S : \E k \in DOMAIN order : order[k] = i
        /\ \A k, m \in DOMAIN order :
             k < m => Ahead(order[k], order[m], score) /\ order[k] # order[m]
    BY <1>1, RankedIs
  <2> HIDE DEF order
  <2>2. scored = order
    BY <1>2 DEF order
  <2> QED
    BY <2>1, <2>2
<1>5. n \in Nat /\ \A k \in 1..n : scored[k] \in S
  BY <1>1, <1>4, FS_CardinalityType
<1>6. \A k, m \in 1..n : scored[k] = scored[m] => k = m
  BY <1>4, <1>5
<1>7. \A i \in S : i \in DOMAIN library /\ library[i].id \in Ids /\ Row(library[i].id) = i
                   /\ Stored(library[i].id)
  BY <1>1, RowIs DEF Gadget
<1>8. CASE category = "constraint" /\ enterprise
  <2>1. Picks(category) = scored
    BY <1>8 DEF Picks, scored
  <2>2. ASSUME NEW id \in Ids
        PROVE  Wanted(id, category) <=> \E k \in 1..n : library[scored[k]].id = id
    <3>1. Wanted(id, category) <=> Stored(id) /\ Row(id) \in S
      BY <1>1, <1>8 DEF Wanted
    <3> QED
      BY <3>1, <1>4, <1>5, <1>7, RowIs
  <2> QED
    BY <2>1, <2>2, <1>4, <1>6 DEF S
<1>9. CASE ~(category = "constraint" /\ enterprise)
  <2> DEFINE picks == Picks(category)
  <2>1. picks = SubSeq(scored, 1, IF scored = <<>> THEN 0 ELSE 1)
    BY <1>9 DEF Picks, scored
  <2>2. CASE n = 0
    <3>1. scored = <<>> /\ picks = <<>> /\ S = {}
      BY <1>4, <1>5, <2>1, <2>2
    <3>2. \A id \in Ids : ~Wanted(id, category)
      BY <1>1, <3>1 DEF Wanted
    <3> QED
      BY <3>1, <3>2
  <2>3. CASE n # 0
    <3>1. 1 \in 1..n /\ scored # <<>>
      BY <1>4, <1>5, <2>3
    <3> DEFINE best == scored[1]
    <3>2. picks \in Seq(S) /\ DOMAIN picks = {1} /\ picks[1] = best /\ best \in S
      <4>1. picks = SubSeq(scored, 1, 1) /\ best \in S
        BY <1>5, <2>1, <3>1
      <4> QED
        BY <1>4, <3>1, <4>1, SubSeqProperties
    <3>3. \A i \in S : i # best => Ahead(best, i, score)
      BY <1>4, <1>5, <3>1
    <3> HIDE DEF best
    <3>4. ASSUME NEW id \in Ids
          PROVE  Wanted(id, category) <=> library[best].id = id
      <4>1. CASE library[best].id = id
        <5>1. Candidate(id, category) /\ Row(id) = best
          BY <1>1, <1>7, <3>2, <4>1
        <5>2. ASSUME NEW other \in Ids, Candidate(other, category), other # id
              PROVE  \/ library[Row(other)].fit < library[Row(id)].fit
                     \/ library[Row(other)].fit = library[Row(id)].fit /\ Row(id) < Row(other)
          <6>1. Row(other) \in S /\ Row(other) # best
            BY <1>1, <4>1, <5>2, RowIs
          <6>2. Ahead(best, Row(other), score) /\ best \in Nat /\ Row(other) \in Nat
            BY <1>1, <3>2, <3>3, <6>1
          <6>3. score[best] = library[best].fit /\ score[Row(other)] = library[Row(other)].fit
                /\ score[best] \in Nat /\ score[Row(other)] \in Nat
            BY <1>1, <1>3, <3>2, <6>1
          <6> QED
            BY <5>1, <6>1, <6>2, <6>3 DEF Ahead
        <5> QED
          BY <4>1, <5>1, <5>2 DEF Wanted, BestOf
      <4>2. ASSUME Wanted(id, category), library[best].id # id PROVE FALSE
        <5>1. Stored(id) /\ Row(id) \in S /\ BestOf(id, category)
          BY <1>1, <1>9, <4>2 DEF Wanted
        <5> DEFINE other == library[best].id
        <5>2. other \in Ids /\ Candidate(other, category) /\ Row(other) = best
          BY <1>1, <1>7, <3>2
        <5>3. \/ library[best].fit < library[Row(id)].fit
              \/ library[best].fit = library[Row(id)].fit /\ Row(id) < best
          BY <4>2, <5>1, <5>2 DEF BestOf
        <5>4. Row(id) # best
          BY <4>2, <5>1, RowIs
        <5>5. Ahead(best, Row(id), score) /\ best \in Nat /\ Row(id) \in Nat
          BY <1>1, <3>2, <3>3, <5>1, <5>4
        <5>6. score[best] = library[best].fit /\ score[Row(id)] = library[Row(id)].fit
              /\ score[best] \in Nat /\ score[Row(id)] \in Nat
          BY <1>1, <1>3, <3>2, <5>1
        <5> QED
          BY <5>3, <5>4, <5>5, <5>6 DEF Ahead
      <4> QED
        BY <4>1, <4>2
    <3> QED
      BY <3>2, <3>4 DEF S
  <2> QED
    BY <2>2, <2>3, <1>5
<1> QED
  BY <1>8, <1>9

----------------------------------------------------------------------------
(* Types, step by step.                                                    *)

Items == [id : Ids, category : ToSet(Categories)]

\* The items that one round of selectChain adds.
ItemsOf(picks) ==
  [k \in DOMAIN picks |-> [id |-> library[picks[k]].id, category |-> library[picks[k]].category]]

LEMMA ItemsAre ==
  ASSUME LibraryOK, NEW category
  PROVE  LET picks == Picks(category)
         IN  /\ ItemsOf(picks) \in Seq(Items) /\ Len(ItemsOf(picks)) = Len(picks)
             /\ DOMAIN ItemsOf(picks) = DOMAIN picks
             /\ \A k \in DOMAIN picks :
                  /\ picks[k] \in DOMAIN library
                  /\ ItemsOf(picks)[k] = [id |-> library[picks[k]].id, category |-> category]
<1> DEFINE picks == Picks(category)
<1>1. picks \in Seq(Fits(category))
  BY PicksAreWanted
<1> HIDE DEF picks
<1>2. /\ DOMAIN picks = 1..Len(picks) /\ Len(picks) \in Nat
      /\ \A k \in DOMAIN picks : picks[k] \in Fits(category)
  BY <1>1
<1>3. \A k \in DOMAIN picks :
        picks[k] \in DOMAIN library /\ library[picks[k]] \in Gadget
        /\ library[picks[k]].category = category
  BY <1>2, FitsAre, RowIs
<1>4. \A k \in DOMAIN picks : ItemsOf(picks)[k] \in Items
  BY <1>3 DEF ItemsOf, Items, Gadget
<1>5. DOMAIN ItemsOf(picks) = 1..Len(picks)
  BY <1>2 DEF ItemsOf
<1>6. ItemsOf(picks) \in Seq(Items) /\ Len(ItemsOf(picks)) = Len(picks)
  BY <1>2, <1>4, <1>5 DEF ItemsOf
<1>7. \A k \in DOMAIN picks :
        ItemsOf(picks)[k] = [id |-> library[picks[k]].id, category |-> category]
  BY <1>3 DEF ItemsOf
<1> QED
  BY <1>2, <1>3, <1>5, <1>6, <1>7 DEF picks

\* Whatever is put or deleted, an id stays the key of its row.
LEMMA StepKeepsLibrary == LibraryOK /\ [Next]_vars => LibraryOK'
<1> SUFFICES ASSUME LibraryOK, [Next]_vars
             PROVE  LibraryOK'
  OBVIOUS
<1>1. CASE Write
  <2>1. ASSUME NEW g \in Gadget, library' = <<g>> \o Without(g.id)
        PROVE  LibraryOK'
    BY <2>1, PutInFront DEF LibraryOK
  <2>2. ASSUME NEW id \in Ids, library' = Without(id)
        PROVE  LibraryOK'
    BY <2>2, WithoutIs DEF LibraryOK
  <2> QED
    BY <1>1, <2>1, <2>2 DEF Write
<1>2. CASE library' = library
  BY <1>2 DEF LibraryOK
<1> QED
  BY <1>1, <1>2 DEF Next, Call, User, Accepted, Declined, IntegrationsAnswered, PreviewDeclined,
    Picked, ElicitationFails, ComposingFails, Own, SelectCategory, ChainSelected, AssembleItem,
    ShowPreview, Sampled, SamplingFails, vars

\* What is composed: where the call is, its chain and its prompt.
ComposedOK ==
  /\ at \in {"idle", "basics", "type", "stack", "integrations", "select", "assemble",
             "preview", "sample", "done"}
  /\ enterprise \in BOOLEAN /\ position \in Nat \ {0}
  /\ chain \in Seq(Items) /\ prompt \in Seq(Contents)

LEMMA AnswerKeepsComposed ==
  ASSUME ComposedOK, NEW result, Answer(result)
  PROVE  ComposedOK'
  BY DEF ComposedOK, Answer

LEMMA StepKeepsComposed == LibraryOK /\ ComposedOK /\ [Next]_vars => ComposedOK'
<1> SUFFICES ASSUME LibraryOK, ComposedOK, [Next]_vars
             PROVE  ComposedOK'
  OBVIOUS
<1>1. CASE SelectCategory
  <2> DEFINE added == ItemsOf(Picks(Categories[position]))
  <2>1. added \in Seq(Items)
    BY ItemsAre
  <2>2. chain' = chain \o added
    BY <1>1 DEF SelectCategory, ItemsOf
  <2> HIDE DEF added
  <2>3. chain' \in Seq(Items)
    BY <2>1, <2>2, ConcatProperties DEF ComposedOK
  <2> QED
    BY <1>1, <2>3 DEF SelectCategory, ComposedOK
<1>2. CASE AssembleItem
  <2>1. Stored(chain[position].id) => library[Row(chain[position].id)].content \in Contents
    BY RowIs DEF Gadget
  <2>2. prompt' \in Seq(Contents)
    BY <1>2, <2>1, AppendProperties DEF AssembleItem, ComposedOK
  <2> QED
    BY <1>2, <2>2 DEF AssembleItem, ComposedOK
<1>3. CASE Accepted
  BY <1>3 DEF Accepted, NextQuestion, ComposedOK
<1>4. CASE Call \/ IntegrationsAnswered \/ ChainSelected \/ ShowPreview
  BY <1>4 DEF Call, IntegrationsAnswered, ChainSelected, ShowPreview, ComposedOK
<1>5. CASE \/ Declined \/ PreviewDeclined \/ ElicitationFails \/ ComposingFails
           \/ Sampled \/ SamplingFails
  BY <1>5, AnswerKeepsComposed
    DEF Declined, PreviewDeclined, ElicitationFails, ComposingFails, Sampled, SamplingFails
<1>6. ASSUME NEW p \in {"return", "dispatch-now", "plan-first", "sample", "cancel"}, Picked(p)
      PROVE  ComposedOK'
  <2>1. CASE Answer(Result(ActionOf[p]))
    BY <2>1, AnswerKeepsComposed
  <2>2. CASE at' = "sample" /\ UNCHANGED <<enterprise, position, chain, prompt>>
    BY <2>2 DEF ComposedOK
  <2> QED
    BY <1>6, <2>1, <2>2 DEF Picked
<1>7. CASE UNCHANGED wizard
  BY <1>7 DEF wizard, ComposedOK
<1>8. CASE User
  BY <1>8, <1>3, <1>4, <1>5, <1>6 DEF User
<1> QED
  BY <1>1, <1>2, <1>4, <1>5, <1>7, <1>8 DEF Next, Own, Write, vars

\* What is answered is an action or an error.
AnswerOK == answer = None \/ answer.is \in Actions \cup {"invalidGadget"}

LEMMA AnswerIsOK ==
  ASSUME NEW result, result.is \in Actions \cup {"invalidGadget"}, Answer(result)
  PROVE  AnswerOK'
  BY DEF Answer, AnswerOK

LEMMA StepAnswersOK == AnswerOK /\ [Next]_vars => AnswerOK'
<1> SUFFICES ASSUME AnswerOK, [Next]_vars
             PROVE  AnswerOK'
  OBVIOUS
<1>1. /\ Cancelled.is \in Actions
      /\ \A action \in Actions : Result(action).is \in Actions
      /\ [is |-> "invalidGadget", prompt |-> <<>>, chain |-> <<>>].is = "invalidGadget"
  BY DEF Cancelled, Result, Actions
<1>2. CASE Declined
  BY <1>1, <1>2, AnswerIsOK DEF Declined
<1>3. CASE ElicitationFails \/ ComposingFails
  BY <1>1, <1>3, AnswerIsOK DEF ElicitationFails, ComposingFails
<1>4. CASE PreviewDeclined \/ Sampled \/ SamplingFails
  <2>1. \E action \in Actions : Answer(Result(action))
    BY <1>4 DEF PreviewDeclined, Sampled, SamplingFails, Actions
  <2> QED
    BY <1>1, <2>1, AnswerIsOK
<1>5. ASSUME NEW p \in {"return", "dispatch-now", "plan-first", "sample", "cancel"}, Picked(p)
      PROVE  AnswerOK'
  <2>1. CASE p \in DOMAIN ActionOf /\ Answer(Result(ActionOf[p]))
    BY <1>1, <2>1, AnswersAreNoNone, AnswerIsOK
  <2>2. CASE UNCHANGED call
    BY <2>2 DEF call, AnswerOK
  <2> QED
    BY <1>5, <2>1, <2>2 DEF Picked
<1>6. CASE answer' = answer
  BY <1>6 DEF AnswerOK
<1>7. CASE User
  BY <1>7, <1>2, <1>4, <1>5, <1>6 DEF User, Accepted, IntegrationsAnswered, call
<1>8. CASE Own
  BY <1>8, <1>6 DEF Own, SelectCategory, ChainSelected, AssembleItem, ShowPreview, call
<1> QED
  BY <1>3, <1>4, <1>6, <1>7, <1>8 DEF Next, Call, Write, vars, call

TypesHold == LibraryOK /\ ComposedOK /\ AnswerOK /\ OverOnEveryWayOut

LEMMA TypesHoldInitially == Init => TypesHold
<1> SUFFICES ASSUME Init
             PROVE  TypesHold
  OBVIOUS
<1>1. LibraryOK
  BY LibrariesAssumption DEF Init, LibraryOK
<1>2. ComposedOK
  <2>1. <<>> \in Seq(Items) /\ <<>> \in Seq(Contents)
    BY EmptySeq
  <2>2. chain \in Seq(Items) /\ prompt \in Seq(Contents)
    BY <2>1 DEF Init
  <2>3. 1 \in Nat \ {0}
    OBVIOUS
  <2> QED
    BY <2>2, <2>3 DEF Init, ComposedOK
<1>3. AnswerOK /\ OverOnEveryWayOut
  BY DEF Init, AnswerOK, OverOnEveryWayOut
<1> QED
  BY <1>1, <1>2, <1>3 DEF TypesHold

LEMMA StepHasTypes == TypesHold /\ [Next]_vars => TypesHold'
  BY StepKeepsLibrary, StepKeepsComposed, StepAnswersOK, StepIsOver DEF TypesHold

\* Whatever is put, deleted, answered and when: the library keeps its key,
\* the chain and the prompt are made of its gadgets, and the call is over, its
\* heartbeat too, exactly when it has an answer.
THEOREM AlwaysTypeOK == Spec => []TypeOK
<1>1. TypesHold => TypeOK
  BY DEF TypesHold, LibraryOK, ComposedOK, AnswerOK, Items, TypeOK
<1> QED
  BY <1>1, TypesHoldInitially, StepHasTypes, PTL DEF Spec

----------------------------------------------------------------------------
(* The chain and the prompt.                                               *)

\* items are what selectChain has after m categories: the wanted gadgets of
\* these, each of them once and in the order of the categories.
ChainIs(items, m) ==
  /\ \A k \in DOMAIN items :
       Stored(items[k].id) /\ \E i \in 1..m : items[k].category = Categories[i]
  /\ \A id \in Ids, i \in 1..m :
       Wanted(id, Categories[i]) <=>
         \E k \in DOMAIN items : items[k] = [id |-> id, category |-> Categories[i]]
  /\ IsInjective(items)
  /\ \A j, k \in DOMAIN items : j <= k => Rank(items[j].category) <= Rank(items[k].category)

\* The contents of the first n items.
ContentsOf(n) == [k \in 1..n |-> library[Row(chain[k].id)].content]

\* Until another process writes, what has been composed is right so far.
ComposedRight ==
  ~disturbed =>
    /\ at \in {"idle"} \cup Questions => chain = <<>> /\ prompt = <<>>
    /\ at = "select" =>
         position \in 1..Len(Categories) + 1 /\ ChainIs(chain, position - 1) /\ prompt = <<>>
    /\ at = "assemble" =>
         /\ position \in 1..Len(chain) + 1 /\ ChainIs(chain, Len(Categories))
         /\ prompt = ContentsOf(position - 1)

\* A category's rank is its place in COMPOSE_ORDER.
LEMMA RankIs ==
  /\ Len(Categories) \in Nat /\ DOMAIN Categories = 1..Len(Categories)
  /\ \A i \in 1..Len(Categories) : Rank(Categories[i]) = i
<1>1. Len(Categories) \in Nat /\ DOMAIN Categories = 1..Len(Categories)
  BY CategoriesAssumption
<1>2. \A i, j \in DOMAIN Categories : Categories[i] = Categories[j] => i = j
  BY CategoriesAssumption DEF IsInjective
<1> QED
  BY <1>1, <1>2 DEF Rank

\* Nothing has been selected yet.
LEMMA NothingSelected == ChainIs(<<>>, 0)
<1>1. DOMAIN <<>> = {} /\ 1..0 = {}
  OBVIOUS
<1> QED
  BY <1>1 DEF ChainIs, IsInjective

\* A round of selectChain adds the next category.
LEMMA ChainGrows ==
  ASSUME LibraryOK, NEW n \in 1..Len(Categories), NEW items \in Seq(Items), ChainIs(items, n - 1)
  PROVE  ChainIs(items \o ItemsOf(Picks(Categories[n])), n)
<1> DEFINE category == Categories[n]
           picks == Picks(category)
           added == ItemsOf(picks)
           all == items \o added
           P == Len(items)
           Q == Len(added)
<1>1. n \in Nat \ {0} /\ Len(Categories) \in Nat /\ \A i \in 1..n : Rank(Categories[i]) = i
  BY RankIs
<1>2. /\ added \in Seq(Items) /\ DOMAIN added = DOMAIN picks
      /\ \A k \in DOMAIN picks :
           picks[k] \in DOMAIN library
           /\ added[k] = [id |-> library[picks[k]].id, category |-> category]
  BY ItemsAre
<1>3. /\ \A k, m \in DOMAIN picks : picks[k] = picks[m] => k = m
      /\ \A id \in Ids : Wanted(id, category) <=> \E k \in DOMAIN picks : library[picks[k]].id = id
  BY PicksAreWanted
<1> HIDE DEF picks, added
<1>4. P \in Nat /\ Q \in Nat /\ DOMAIN items = 1..P /\ DOMAIN added = 1..Q
  BY <1>2
<1>5. /\ DOMAIN all = 1..P + Q
      /\ \A k \in 1..P : all[k] = items[k]
      /\ \A k \in 1..Q : all[P + k] = added[k]
  <2>1. all \in Seq(Items) /\ Len(all) = P + Q
    BY <1>2, ConcatProperties
  <2>2. \A k \in 1..P + Q : all[k] = IF k <= P THEN items[k] ELSE added[k - P]
    BY <1>2, <1>4, ConcatProperties
  <2>3. \A k \in 1..Q : P + k \in 1..P + Q /\ ~(P + k <= P) /\ (P + k) - P = k
    BY <1>4
  <2>4. \A k \in 1..P : k \in 1..P + Q /\ k <= P
    BY <1>4
  <2> HIDE DEF all
  <2> QED
    BY <1>4, <2>1, <2>2, <2>3, <2>4
<1> HIDE DEF all, P, Q
<1>6. \A k \in 1..P + Q : k \in 1..P \/ \E h \in 1..Q : k = P + h
  <2> SUFFICES ASSUME NEW k \in 1..P + Q, k \notin 1..P
               PROVE  \E h \in 1..Q : k = P + h
    OBVIOUS
  <2>1. k - P \in 1..Q /\ k = P + (k - P)
    BY <1>4
  <2> QED
    BY <2>1
<1>7. \A k \in 1..P :
        Stored(items[k].id) /\ \E i \in 1..n - 1 : items[k].category = Categories[i]
  BY <1>4 DEF ChainIs
<1>8. \A k \in 1..P : Rank(items[k].category) < n /\ Rank(items[k].category) \in Nat
  BY <1>1, <1>7
<1>9. \A k \in 1..Q :
        added[k].category = category /\ Rank(added[k].category) = n /\ Stored(added[k].id)
  <2>1. n \in 1..n /\ Rank(category) = n
    BY <1>1
  <2> SUFFICES ASSUME NEW k \in 1..Q
               PROVE  added[k].category = category /\ Stored(added[k].id)
    BY <2>1
  <2>2. added[k].id = library[picks[k]].id /\ added[k].category = category
    BY <1>2, <1>4
  <2>3. Stored(library[picks[k]].id)
    BY <1>2, <1>4, RowIs
  <2> QED
    BY <2>2, <2>3
<1>10. ASSUME NEW k \in 1..P + Q
       PROVE  Stored(all[k].id) /\ \E i \in 1..n : all[k].category = Categories[i]
  <2>1. CASE k \in 1..P
    <3>1. PICK i \in 1..n - 1 : items[k].category = Categories[i]
      BY <1>7, <2>1
    <3>2. i \in 1..n
      BY <1>1
    <3> QED
      BY <1>5, <1>7, <2>1, <3>1, <3>2
  <2>2. ASSUME NEW h \in 1..Q, k = P + h
        PROVE  Stored(all[k].id) /\ \E i \in 1..n : all[k].category = Categories[i]
    <3>1. n \in 1..n
      BY <1>1
    <3> QED
      BY <1>5, <1>9, <2>2, <3>1
  <2> QED
    BY <1>6, <2>1, <2>2
<1>11. ASSUME NEW id \in Ids, NEW i \in 1..n
       PROVE  Wanted(id, Categories[i]) <=>
                \E k \in 1..P + Q : all[k] = [id |-> id, category |-> Categories[i]]
  <2>1. CASE i # n
    <3>1. i \in 1..n - 1 /\ i < n
      BY <1>1, <2>1
    <3>2. Wanted(id, Categories[i]) <=>
            \E k \in 1..P : items[k] = [id |-> id, category |-> Categories[i]]
      BY <1>4, <3>1 DEF ChainIs
    <3>3. \A k \in 1..Q : added[k] # [id |-> id, category |-> Categories[i]]
      <4>1. Rank(Categories[i]) # n
        BY <1>1, <3>1
      <4> QED
        BY <1>9, <4>1
    <3>4. 1..P \in SUBSET (1..P + Q)
      BY <1>4
    <3> QED
      BY <1>5, <1>6, <3>2, <3>3, <3>4
  <2>2. CASE i = n
    <3>1. Wanted(id, category) <=>
            \E k \in 1..Q : added[k] = [id |-> id, category |-> category]
      BY <1>2, <1>3, <1>4
    <3>2. \A k \in 1..P : items[k] # [id |-> id, category |-> category]
      <4>1. Rank(category) = n
        BY <1>1
      <4> QED
        BY <1>1, <1>8, <4>1
    <3>3. \A k \in 1..Q : P + k \in 1..P + Q
      BY <1>4
    <3> QED
      BY <1>5, <1>6, <2>2, <3>1, <3>2, <3>3
  <2> QED
    BY <2>1, <2>2
<1>12. \A j, k \in 1..P : items[j] = items[k] => j = k
  BY <1>4 DEF ChainIs, IsInjective
<1>13. \A j, k \in 1..Q : added[j] = added[k] => j = k
  <2> SUFFICES ASSUME NEW j \in 1..Q, NEW k \in 1..Q, added[j] = added[k]
               PROVE  j = k
    OBVIOUS
  <2>1. added[j].id = library[picks[j]].id /\ added[k].id = library[picks[k]].id
    BY <1>2, <1>4
  <2>2. Row(library[picks[j]].id) = picks[j] /\ Row(library[picks[k]].id) = picks[k]
    BY <1>2, <1>4, RowIs
  <2> QED
    BY <1>2, <1>3, <1>4, <2>1, <2>2
<1>14. ASSUME NEW j \in 1..P + Q, NEW k \in 1..P + Q, all[j] = all[k]
       PROVE  j = k
  <2>1. CASE j \in 1..P /\ k \in 1..P
    BY <1>5, <1>12, <1>14, <2>1
  <2>2. ASSUME NEW g \in 1..Q, NEW h \in 1..Q, j = P + g, k = P + h
        PROVE  j = k
    BY <1>5, <1>13, <1>14, <2>2
  <2>3. ASSUME NEW g \in 1..P, NEW h \in 1..Q
        PROVE  all[g] # all[P + h]
    BY <1>1, <1>5, <1>8, <1>9
  <2> QED
    BY <1>6, <1>14, <2>1, <2>2, <2>3
<1>15. ASSUME NEW j \in 1..P + Q, NEW k \in 1..P + Q, j <= k
       PROVE  Rank(all[j].category) <= Rank(all[k].category)
  <2>1. CASE j \in 1..P /\ k \in 1..P
    <3>1. Rank(items[j].category) <= Rank(items[k].category)
      BY <1>4, <1>15, <2>1 DEF ChainIs
    <3> QED
      BY <1>5, <2>1, <3>1
  <2>2. ASSUME NEW h \in 1..Q, k = P + h
        PROVE  Rank(all[j].category) <= Rank(all[k].category)
    <3>1. Rank(all[k].category) = n
      BY <1>5, <1>9, <2>2
    <3>2. Rank(all[j].category) \in Nat /\ Rank(all[j].category) <= n
      <4>1. CASE j \in 1..P
        BY <1>1, <1>5, <1>8, <4>1
      <4>2. ASSUME NEW g \in 1..Q, j = P + g PROVE Rank(all[j].category) = n
        BY <1>5, <1>9, <4>2
      <4> QED
        BY <1>1, <1>6, <4>1, <4>2
    <3> QED
      BY <3>1, <3>2
  <2>3. k \in 1..P => j \in 1..P
    BY <1>4, <1>15
  <2> QED
    BY <1>6, <2>1, <2>2, <2>3
<1>16. IsInjective(all)
  BY <1>5, <1>14 DEF IsInjective
<1>17. ChainIs(all, n)
  BY <1>5, <1>10, <1>11, <1>15, <1>16 DEF ChainIs
<1> QED
  BY <1>17 DEF all, added, picks

\* What depends on the library and the bar stays while these do.
LEMMA SelectionStays ==
  ASSUME library' = library, enterprise' = enterprise, NEW m
  PROVE  /\ ChainIs(chain, m)' <=> ChainIs(chain', m)
         /\ chain' = chain => ContentsOf(m)' = ContentsOf(m)
<1>1. \A id : (Stored(id)' <=> Stored(id)) /\ Row(id)' = Row(id)
  BY DEF Stored, Row
<1>2. \A id, category : Candidate(id, category)' <=> Candidate(id, category)
  BY DEF Candidate
<1>3. \A id, category : BestOf(id, category)' <=> BestOf(id, category)
  BY <1>1, <1>2 DEF BestOf
<1>4. \A id, category : Wanted(id, category)' <=> Wanted(id, category)
  BY <1>2, <1>3 DEF Wanted
<1>5. ChainIs(chain, m)' <=> ChainIs(chain', m)
  BY <1>1, <1>4 DEF ChainIs
<1>6. chain' = chain => ContentsOf(m)' = ContentsOf(m)
  BY <1>1 DEF ContentsOf
<1> QED
  BY <1>5, <1>6

\* A round of assemblePrompt resolves the item that is next.
LEMMA PromptGrows ==
  ASSUME LibraryOK, ComposedOK, position \in 1..Len(chain),
         Stored(chain[position].id), prompt = ContentsOf(position - 1)
  PROVE  Append(prompt, library[Row(chain[position].id)].content) = ContentsOf(position)
<1> DEFINE content == library[Row(chain[position].id)].content
<1>1. position \in Nat \ {0} /\ Len(chain) \in Nat /\ prompt \in Seq(Contents)
  BY DEF ComposedOK
<1>2. content \in Contents
  BY RowIs DEF Gadget
<1>3. Len(prompt) = position - 1 /\ \A k \in 1..position - 1 : prompt[k] = ContentsOf(position)[k]
  BY <1>1 DEF ContentsOf
<1>4. content = ContentsOf(position)[position] /\ DOMAIN ContentsOf(position) = 1..position
  BY <1>1 DEF ContentsOf
<1> HIDE DEF content
<1>5. /\ Append(prompt, content) \in Seq(Contents) /\ Len(Append(prompt, content)) = position
      /\ \A k \in 1..position - 1 : Append(prompt, content)[k] = prompt[k]
      /\ Append(prompt, content)[position] = content
  BY <1>1, <1>2, <1>3, AppendProperties
<1>6. DOMAIN Append(prompt, content) = 1..position
  BY <1>5
<1>7. \A k \in 1..position : Append(prompt, content)[k] = ContentsOf(position)[k]
  BY <1>1, <1>3, <1>4, <1>5
<1>8. Append(prompt, content) = [k \in 1..position |-> ContentsOf(position)[k]]
  BY <1>6, <1>7, <1>5
<1>9. ContentsOf(position) = [k \in 1..position |-> ContentsOf(position)[k]]
  BY <1>4 DEF ContentsOf
<1> QED
  BY <1>8, <1>9 DEF content

\* Every step composes rightly, or another process disturbs it.
LEMMA StepComposes == LibraryOK /\ ComposedOK /\ ComposedRight /\ [Next]_vars => ComposedRight'
<1> SUFFICES ASSUME LibraryOK, ComposedOK, ComposedRight, [Next]_vars, ~disturbed'
             PROVE  ComposedRight'
  BY DEF ComposedRight
<1>1. ~disturbed
  BY DEF Next, Call, User, Accepted, Declined, IntegrationsAnswered, PreviewDeclined, Picked,
    ElicitationFails, ComposingFails, Own, SelectCategory, ChainSelected, AssembleItem, ShowPreview,
    Sampled, SamplingFails, Write, vars
<1>2. position \in Nat \ {0} /\ chain \in Seq(Items) /\ Len(chain) \in Nat
  BY DEF ComposedOK
<1>3. CASE at' \notin {"idle", "select", "assemble"} \cup Questions
  BY <1>3 DEF ComposedRight
<1>4. CASE Call \/ Accepted
  <2>1. at \in {"idle"} \cup Questions /\ at' \in Questions /\ UNCHANGED <<chain, prompt>>
    BY <1>4 DEF Call, Accepted, NextQuestion, Questions
  <2> QED
    BY <1>1, <2>1 DEF ComposedRight, Questions
<1>5. CASE IntegrationsAnswered
  <2>1. /\ at' = "select" /\ position' = 1 /\ chain' = <<>> /\ prompt' = <<>>
        /\ library' = library /\ enterprise' = enterprise /\ chain' = chain
    BY <1>1, <1>5 DEF IntegrationsAnswered, ComposedRight, Questions
  <2>2. ChainIs(chain, 0)'
    BY <2>1, NothingSelected, SelectionStays
  <2>3. position' - 1 = 0 /\ position' \in 1..Len(Categories) + 1
    BY <2>1, RankIs
  <2> QED
    BY <2>1, <2>2, <2>3 DEF ComposedRight, Questions
<1>6. CASE SelectCategory
  <2>1. /\ at = "select" /\ at' = "select" /\ position' = position + 1
        /\ position <= Len(Categories) /\ UNCHANGED <<library, enterprise, prompt>>
        /\ chain' = chain \o ItemsOf(Picks(Categories[position]))
    BY <1>6 DEF SelectCategory, ItemsOf
  <2>2. position \in 1..Len(Categories) /\ ChainIs(chain, position - 1) /\ prompt = <<>>
    BY <1>1, <1>2, <2>1, RankIs DEF ComposedRight
  <2> PICK n \in 1..Len(Categories) : n = position
    BY <2>2
  <2>3. ChainIs(chain', n)
    BY <1>2, <2>1, <2>2, ChainGrows
  <2>4. ChainIs(chain, n)'
    BY <2>1, <2>3, SelectionStays
  <2>5. position' - 1 = n /\ position' \in 1..Len(Categories) + 1
    BY <2>1, <2>2, RankIs
  <2> QED
    BY <2>1, <2>2, <2>4, <2>5 DEF ComposedRight, Questions
<1>7. CASE ChainSelected
  <2>1. /\ at = "select" /\ at' = "assemble" /\ position > Len(Categories) /\ position' = 1
        /\ library' = library /\ enterprise' = enterprise /\ chain' = chain /\ prompt' = prompt
    BY <1>7 DEF ChainSelected
  <2>2. ChainIs(chain, Len(Categories)) /\ prompt = <<>>
    <3>1. position \in 1..Len(Categories) + 1 /\ ChainIs(chain, position - 1) /\ prompt = <<>>
      BY <1>1, <2>1 DEF ComposedRight
    <3>2. position - 1 = Len(Categories)
      BY <1>2, <2>1, <3>1, RankIs
    <3> QED
      BY <3>1, <3>2
  <2>3. ChainIs(chain, Len(Categories))' /\ ContentsOf(0)' = ContentsOf(0)
    BY <2>1, <2>2, SelectionStays
  <2>4. ContentsOf(0) = <<>>
    BY DEF ContentsOf
  <2>5. position' - 1 = 0 /\ position' \in 1..Len(chain') + 1
    BY <1>2, <2>1
  <2> QED
    BY <2>1, <2>2, <2>3, <2>4, <2>5 DEF ComposedRight, Questions
<1>8. CASE AssembleItem
  <2>1. /\ at = "assemble" /\ at' = "assemble" /\ position <= Len(chain)
        /\ position' = position + 1
        /\ library' = library /\ enterprise' = enterprise /\ chain' = chain
        /\ prompt' = IF Stored(chain[position].id)
                     THEN Append(prompt, library[Row(chain[position].id)].content) ELSE prompt
    BY <1>8 DEF AssembleItem
  <2>2. ChainIs(chain, Len(Categories)) /\ prompt = ContentsOf(position - 1)
    BY <1>1, <2>1 DEF ComposedRight
  <2>3. position \in 1..Len(chain) /\ Stored(chain[position].id)
    BY <1>2, <2>1, <2>2 DEF ChainIs
  <2> PICK n \in 1..Len(chain) : n = position
    BY <2>3
  <2>4. prompt' = ContentsOf(n)
    BY <2>1, <2>2, <2>3, PromptGrows
  <2>5. ChainIs(chain, Len(Categories))' /\ ContentsOf(n)' = ContentsOf(n)
    BY <2>1, <2>2, SelectionStays
  <2>6. position' - 1 = n /\ position' \in 1..Len(chain') + 1
    BY <1>2, <2>1, <2>3
  <2> QED
    BY <2>1, <2>4, <2>5, <2>6 DEF ComposedRight, Questions
<1>9. CASE Write /\ ~Composing
  BY <1>1, <1>9 DEF Write, wizard, Composing, ComposedRight
<1>10. CASE UNCHANGED vars
  <2>1. /\ at' = at /\ position' = position /\ prompt' = prompt
        /\ library' = library /\ enterprise' = enterprise /\ chain' = chain
    BY <1>10 DEF vars, wizard
  <2>2. \A m : (ChainIs(chain, m)' <=> ChainIs(chain, m)) /\ ContentsOf(m)' = ContentsOf(m)
    BY <2>1, SelectionStays
  <2> QED
    BY <1>1, <2>1, <2>2 DEF ComposedRight
<1> QED
  BY <1>3, <1>4, <1>5, <1>6, <1>7, <1>8, <1>9, <1>10 DEF Next, User, Own, Declined, Answer,
    PreviewDeclined, Picked, ElicitationFails, ComposingFails, ShowPreview, Sampled,
    SamplingFails, Write, Questions

\* Only a prompt that is complete goes to the preview.
LEMMA OnlyShowsComplete ==
  ASSUME ComposedOK, ComposedRight, [Next]_vars, at = "assemble", at' = "preview", ~disturbed
  PROVE  ChainIs(chain, Len(Categories)) /\ prompt = ContentsOf(Len(chain))
<1>1. ShowPreview
  BY DEF Next, Call, User, Accepted, NextQuestion, Declined, IntegrationsAnswered, PreviewDeclined,
    Picked, ElicitationFails, ComposingFails, Own, SelectCategory, ChainSelected, AssembleItem,
    Sampled, SamplingFails, Write, wizard, vars, Answer
<1>2. /\ position \in 1..Len(chain) + 1 /\ ChainIs(chain, Len(Categories))
      /\ prompt = ContentsOf(position - 1)
  BY DEF ComposedRight
<1>3. position - 1 = Len(chain)
  BY <1>1, <1>2 DEF ShowPreview, ComposedOK
<1> QED
  BY <1>2, <1>3

\* Whatever the library, the page and the bar: unless another process writes
\* meanwhile, the preview's chain is exactly the wanted gadgets, each of them
\* once and in canonical order, and its prompt is their contents.
THEOREM AlwaysChainContributed == Spec => ChainContributed
<1> DEFINE Contributed ==
      at = "assemble" /\ at' = "preview" /\ ~disturbed =>
        /\ \A id \in Ids, i \in DOMAIN Categories :
             Wanted(id, Categories[i]) <=>
               \E k \in DOMAIN chain : chain[k] = [id |-> id, category |-> Categories[i]]
        /\ IsInjective(chain)
        /\ \A k \in 2..Len(chain) : Rank(chain[k - 1].category) <= Rank(chain[k].category)
        /\ prompt = [k \in DOMAIN chain |-> library[Row(chain[k].id)].content]
<1>1. Init => ComposedRight
  BY DEF Init, ComposedRight
<1>2. ASSUME ComposedOK, ComposedRight, [Next]_vars
      PROVE  Contributed
  <2> SUFFICES ASSUME at = "assemble", at' = "preview", ~disturbed
               PROVE  /\ \A id \in Ids, i \in DOMAIN Categories :
                           Wanted(id, Categories[i]) <=>
                             \E k \in DOMAIN chain : chain[k] = [id |-> id, category |-> Categories[i]]
                      /\ IsInjective(chain)
                      /\ \A k \in 2..Len(chain) :
                           Rank(chain[k - 1].category) <= Rank(chain[k].category)
                      /\ prompt = [k \in DOMAIN chain |-> library[Row(chain[k].id)].content]
    OBVIOUS
  <2>1. ChainIs(chain, Len(Categories)) /\ prompt = ContentsOf(Len(chain))
    BY <1>2, OnlyShowsComplete
  <2>2. DOMAIN chain = 1..Len(chain) /\ Len(chain) \in Nat
    BY <1>2 DEF ComposedOK
  <2>3. \A k \in 2..Len(chain) : k - 1 \in 1..Len(chain) /\ k \in 1..Len(chain) /\ k - 1 <= k
    BY <2>2
  <2>4. \A k \in 2..Len(chain) : Rank(chain[k - 1].category) <= Rank(chain[k].category)
    BY <2>1, <2>2, <2>3 DEF ChainIs
  <2>5. prompt = [k \in DOMAIN chain |-> library[Row(chain[k].id)].content]
    BY <2>1, <2>2 DEF ContentsOf
  <2> QED
    BY <2>1, <2>4, <2>5, RankIs DEF ChainIs
<1>3. TypesHold /\ ComposedRight /\ [Next]_vars => ComposedRight'
  BY StepComposes DEF TypesHold
<1>4. TypesHold /\ ComposedRight /\ [Next]_vars => [Contributed]_vars
  BY <1>2 DEF TypesHold
<1> QED
  BY <1>1, <1>3, <1>4, TypesHoldInitially, StepHasTypes, PTL DEF Spec, ChainContributed

=============================================================================
