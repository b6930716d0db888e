---------------------------- MODULE SeedingProofs ----------------------------
(***************************************************************************)
(* Theorems about Seeding, for any catalog and any packs: the tables stay  *)
(* well formed (a name that a renamed gadget answers to never becomes a    *)
(* gadget of its own), a start only adds, and one that ends without an     *)
(* error leaves out nothing of what it was to seed.                        *)
(*                                                                         *)
(* For the last one, every seed that a start wants is there already or is  *)
(* still to come, in this stage or in a pack (NothingForgotten); and what  *)
(* the binary embeds is seen to before the packs unless the data files     *)
(* added something.                                                        *)
(***************************************************************************)
EXTENDS Seeding, TLAPS

\* The seeds of any pack and stage are items.
LEMMA StagesAreItems ==
  /\ <<>> \in Seq(Items)
  /\ \A name \in DOMAIN Packs : Packs[name] \in Seq(Items)
  BY CatalogAssumption DEF Items

LEMMA FilesAreItems ==
  ASSUME NEW gadgetFile \in GadgetFiles, NEW runnerFile \in RunnerFiles
  PROVE  gadgetFile \o runnerFile \in Seq(Items)
<1>1. gadgetFile \in Seq(Items) /\ runnerFile \in Seq(Items)
  BY CatalogAssumption DEF Items
<1> QED
  BY <1>1

\* What a stage goes on with after its first item.
LEMMA RestOfStage ==
  ASSUME todo \in Seq(Items), todo # <<>>
  PROVE  Head(todo) \in Items /\ Tail(todo) \in Seq(Items)
  OBVIOUS

AliasesLead ==
  \A a \in Ids : aliases[a] # NoName => ~Live(a) /\ Live(aliases[a])

\* A name that is free of aliases can become a gadget.
LEMMA GadgetAdded ==
  ASSUME TypeOK, NEW id \in Ids, aliases[id] = NoName, NEW origin \in {"seeded", "edited"},
         gadgets' = [gadgets EXCEPT ![id] = origin], aliases' = aliases
  PROVE  gadgets' \in [Ids -> {"seeded", "edited", NoGadget}] /\ AliasesLead'
  BY MissingAssumption, CatalogAssumption DEF TypeOK, AliasesLead, Live

\* The first state.
LEMMA InitTypes == Init => TypeOK
  BY CatalogAssumption, StagesAreItems DEF Init, TypeOK, Live

\* Every step keeps the types, and what the aliases lead to.
LEMMA StepTypes == TypeOK /\ [Next]_vars => TypeOK'
<1> SUFFICES ASSUME TypeOK, [Next]_vars
             PROVE  TypeOK'
  OBVIOUS
<1> USE DEF library
<1>1. ASSUME NEW gadgetFile \in GadgetFiles, NEW runnerFile \in RunnerFiles,
             NEW enabled \in SUBSET DOMAIN Packs, Start(gadgetFile, runnerFile, enabled)
      PROVE  TypeOK'
  <2>1. gadgetFile \o runnerFile \in Seq(Items)
    BY FilesAreItems
  <2>2. wanted' \subseteq Items
    <3>1. ToSet(gadgetFile \o runnerFile) \subseteq Items
      BY <2>1 DEF ToSet
    <3>2. \A name \in enabled : ToSet(Packs[name]) \subseteq Items
      BY StagesAreItems DEF ToSet
    <3> QED
      BY <1>1, <3>1, <3>2 DEF Start
  <2> QED
    BY <1>1, <2>1, <2>2 DEF Start, TypeOK, Live
<1>2. CASE StartUnseeded
  BY <1>2 DEF StartUnseeded, TypeOK, Live
<1>3. CASE Seed
  <2>1. CASE SkipItem
    BY <2>1, RestOfStage DEF SkipItem, TypeOK, Live
  <2>2. CASE SeedGadget
    <3>1. Head(todo) \in Ids /\ aliases[Head(todo)] = NoName /\ Tail(todo) \in Seq(Items)
      BY <2>2, RestOfStage DEF SeedGadget, TypeOK
    <3>2. gadgets' \in [Ids -> {"seeded", "edited", NoGadget}] /\ AliasesLead'
      BY <2>2, <3>1, GadgetAdded DEF SeedGadget
    <3> QED
      BY <2>2, <3>1, <3>2 DEF SeedGadget, TypeOK, AliasesLead
  <2>3. CASE SeedConflict
    BY <2>3, StagesAreItems DEF SeedConflict, TypeOK, Live
  <2>4. CASE SeedRunner
    BY <2>4, RestOfStage DEF SeedRunner, TypeOK, Live
  <2>5. CASE FallBack
    BY <2>5, CatalogAssumption DEF FallBack, TypeOK, Live
  <2>6. CASE CatalogDone
    BY <2>6 DEF CatalogDone, TypeOK, Live
  <2>7. CASE NextPack
    BY <2>7, StagesAreItems DEF NextPack, TypeOK, Live
  <2>8. CASE Serve
    BY <2>8 DEF Serve, TypeOK, Live
  <2> QED
    BY <1>3, <2>1, <2>2, <2>3, <2>4, <2>5, <2>6, <2>7, <2>8 DEF Seed
<1>4. CASE Stop
  BY <1>4, StagesAreItems DEF Stop, TypeOK, Live
<1>5. ASSUME NEW id \in Ids, Put(id)
      PROVE  TypeOK'
  <2>1. aliases[id] = NoName
    BY <1>5 DEF Put, TypeOK
  <2>2. gadgets' \in [Ids -> {"seeded", "edited", NoGadget}] /\ AliasesLead'
    BY <1>5, <2>1, GadgetAdded DEF Put, Client
  <2> QED
    BY <1>5, <2>2 DEF Put, Client, TypeOK, AliasesLead
<1>6. ASSUME NEW id \in Ids, Delete(id)
      PROVE  TypeOK'
  <2>1. /\ gadgets' = [gadgets EXCEPT ![id] = NoGadget]
        /\ aliases' = [a \in Ids |-> IF aliases[a] = id THEN NoName ELSE aliases[a]]
    BY <1>6 DEF Delete, Client
  <2>2. gadgets' \in [Ids -> {"seeded", "edited", NoGadget}] /\ aliases' \in [Ids -> Ids \cup {NoName}]
    BY <2>1 DEF TypeOK
  <2>3. AliasesLead'
    BY <2>1, CatalogAssumption DEF TypeOK, AliasesLead, Live
  <2> QED
    BY <1>6, <2>2, <2>3 DEF Delete, Client, TypeOK, AliasesLead
<1>7. ASSUME NEW id \in Ids, NEW newId \in Ids, Rename(id, newId)
      PROVE  TypeOK'
  <2>1. /\ Live(id) /\ ~Live(newId) /\ aliases[newId] \in {NoName, id}
        /\ gadgets' = [gadgets EXCEPT ![id] = NoGadget, ![newId] = gadgets[id]]
        /\ aliases' = [a \in Ids |-> IF a = newId THEN NoName
                                     ELSE IF a = id \/ aliases[a] = id THEN newId
                                     ELSE aliases[a]]
    BY <1>7 DEF Rename, Client
  <2>2. gadgets' \in [Ids -> {"seeded", "edited", NoGadget}] /\ aliases' \in [Ids -> Ids \cup {NoName}]
    BY <2>1 DEF TypeOK
  <2>3. AliasesLead'
    BY <2>1, CatalogAssumption DEF TypeOK, AliasesLead, Live
  <2> QED
    BY <1>7, <2>2, <2>3 DEF Rename, Client, TypeOK, AliasesLead
<1>8. ASSUME NEW id \in RunnerIds, DeleteRunner(id)
      PROVE  TypeOK'
  BY <1>8 DEF DeleteRunner, Client, TypeOK, Live
<1>9. CASE UNCHANGED vars
  BY <1>9 DEF vars, TypeOK, Live
<1> QED
  BY <1>1, <1>2, <1>3, <1>4, <1>5, <1>6, <1>7, <1>8, <1>9 DEF Next

Adds ==
  pc # "serving" =>
    /\ \A id \in Ids : Live(id) => gadgets'[id] = gadgets[id]
    /\ aliases' = aliases
    /\ runners \subseteq runners'

\* A step of a start, or of a server that is down, only adds.
LEMMA StepAdds == TypeOK /\ [Next]_vars => Adds
<1> SUFFICES ASSUME TypeOK, [Next]_vars, pc # "serving"
             PROVE  Adds
  BY DEF Adds
<1> USE DEF library, Adds
<1>1. CASE Seed
  <2>1. CASE SeedGadget
    BY <2>1 DEF SeedGadget, TypeOK, Live, Present
  <2>2. CASE SeedRunner
    BY <2>2 DEF SeedRunner
  <2> QED
    BY <1>1, <2>1, <2>2
      DEF Seed, SkipItem, SeedConflict, FallBack, CatalogDone, NextPack, Serve
<1>2. CASE ~Seed
  BY <1>2 DEF Next, Start, StartUnseeded, Stop, Put, Delete, Rename, DeleteRunner, Client, vars
<1> QED
  BY <1>1, <1>2

\* The tables stay well formed through starts, kills and edits.
THEOREM SeedingTypes == Spec => []TypeOK
  BY InitTypes, StepTypes, PTL DEF Spec

\* No start resets, renames back or removes what the database has.
THEOREM StartsOnlyAdd == Spec => SeedingOnlyAdds
<1>1. TypeOK /\ [Next]_vars => [Adds]_vars
  BY StepAdds
<1> QED
  BY <1>1, SeedingTypes, PTL DEF Spec, SeedingOnlyAdds, Adds


----------------------------------------------------------------------------
(* A start that ends without an error is complete.                         *)

PackItems(names) == UNION {ToSet(Packs[name]) : name \in names}

\* What the binary embeds is being seen to, or need not be.
CatalogSeen ==
  /\ pc = "embedded" => ToSet(Embedded) \subseteq Present \cup ToSet(todo)
  /\ pc = "packs" => fromDisk \/ ToSet(Embedded) \subseteq Present

NothingForgotten ==
  Starting =>
    /\ CatalogSeen
    /\ wanted \subseteq Present \cup PackItems(packs) \cup ToSet(todo)

\* Taking an item off a stage.
LEMMA StageWithoutHead ==
  ASSUME todo \in Seq(Items), todo # <<>>
  PROVE  ToSet(todo) = {Head(todo)} \cup ToSet(Tail(todo))
<1>1. Len(todo) \in Nat \ {0} /\ Head(todo) = todo[1]
  OBVIOUS
<1>2. DOMAIN todo = 1..Len(todo) /\ DOMAIN Tail(todo) = 1..Len(todo) - 1
  OBVIOUS
<1>3. \A i \in 1..Len(todo) - 1 : Tail(todo)[i] = todo[i + 1]
  OBVIOUS
<1>4. ASSUME NEW x \in ToSet(todo) PROVE x \in {Head(todo)} \cup ToSet(Tail(todo))
  <2>1. PICK i \in 1..Len(todo) : x = todo[i]
    BY <1>2 DEF ToSet
  <2>2. CASE i = 1
    BY <2>1, <2>2, <1>1
  <2>3. CASE i # 1
    <3>1. i - 1 \in 1..Len(todo) - 1
      BY <1>1, <2>3
    <3>2. Tail(todo)[i - 1] = x
      BY <2>1, <3>1, <1>3
    <3> QED
      BY <3>1, <3>2, <1>2 DEF ToSet
  <2> QED
    BY <2>2, <2>3
<1>5. ASSUME NEW x \in {Head(todo)} \cup ToSet(Tail(todo)) PROVE x \in ToSet(todo)
  <2>1. CASE x = Head(todo)
    BY <2>1, <1>1, <1>2 DEF ToSet
  <2>2. CASE x \in ToSet(Tail(todo))
    <3>1. PICK i \in 1..Len(todo) - 1 : x = Tail(todo)[i]
      BY <2>2, <1>2 DEF ToSet
    <3>2. i + 1 \in 1..Len(todo) /\ x = todo[i + 1]
      BY <3>1, <1>1, <1>3
    <3> QED
      BY <3>2, <1>2 DEF ToSet
  <2> QED
    BY <1>5, <2>1, <2>2
<1> QED
  BY <1>4, <1>5

\* Going on to the next item of a stage, the present one being there now.
LEMMA ItemSeen ==
  ASSUME TypeOK, NothingForgotten, todo # <<>>, todo' = Tail(todo),
         Present \cup {Head(todo)} \subseteq Present',
         fromDisk => fromDisk', UNCHANGED <<pc, packs, wanted>>
  PROVE  NothingForgotten'
<1>1. ToSet(todo) = {Head(todo)} \cup ToSet(todo')
  BY StageWithoutHead DEF TypeOK
<1>2. Present \cup ToSet(todo) \subseteq Present' \cup ToSet(todo')
  BY <1>1
<1>3. Starting' = Starting
  BY DEF Starting
<1>4. Starting => CatalogSeen'
  BY <1>2, <1>3 DEF NothingForgotten, CatalogSeen
<1> QED
  BY <1>2, <1>3, <1>4 DEF NothingForgotten, PackItems

\* What becomes of Present when the tables stay.
LEMMA SamePresent == UNCHANGED library => Present' = Present
  BY DEF library, Present, Live

\* A stage that is through.
LEMMA EmptyStage == ToSet(<<>>) = {}
  BY DEF ToSet

\* No step of a start, and nothing around it, forgets a seed.
LEMMA StepForgetsNothing == TypeOK /\ NothingForgotten /\ [Next]_vars => NothingForgotten'
<1> SUFFICES ASSUME TypeOK, NothingForgotten, [Next]_vars
             PROVE  NothingForgotten'
  OBVIOUS
<1>1. ASSUME NEW gadgetFile \in GadgetFiles, NEW runnerFile \in RunnerFiles,
             NEW enabled \in SUBSET DOMAIN Packs, Start(gadgetFile, runnerFile, enabled)
      PROVE  NothingForgotten'
  <2>1. /\ pc' = "disk" /\ packs' = enabled
        /\ wanted' = ToSet(todo') \cup PackItems(enabled)
    BY <1>1 DEF Start, PackItems
  <2> QED
    BY <2>1 DEF NothingForgotten, CatalogSeen, PackItems
<1>2. CASE SkipItem
  BY <1>2, SamePresent, ItemSeen DEF SkipItem
<1>3. CASE SeedGadget
  <2>1. Present \cup {Head(todo)} \subseteq Present'
    BY <1>3, MissingAssumption DEF SeedGadget, Present, Live, TypeOK
  <2> QED
    BY <1>3, <2>1, ItemSeen DEF SeedGadget
<1>4. CASE SeedRunner
  <2>1. Present \cup {Head(todo)} \subseteq Present'
    BY <1>4 DEF SeedRunner, Present, Live
  <2> QED
    BY <1>4, <2>1, ItemSeen DEF SeedRunner
<1>5. CASE FallBack
  <2>1. /\ Starting /\ todo = <<>> /\ pc' = "embedded" /\ todo' = Embedded
        /\ Present' = Present /\ UNCHANGED <<packs, wanted>>
    BY <1>5, SamePresent DEF FallBack, Starting
  <2>2. CatalogSeen'
    BY <2>1 DEF CatalogSeen
  <2>3. wanted \subseteq Present \cup PackItems(packs)
    BY <2>1, EmptyStage DEF NothingForgotten
  <2> QED
    BY <2>1, <2>2, <2>3 DEF NothingForgotten, PackItems
<1>6. CASE CatalogDone
  <2>1. /\ Starting /\ todo = <<>> /\ (pc = "embedded" \/ fromDisk)
        /\ pc' = "packs" /\ Present' = Present /\ UNCHANGED <<todo, fromDisk, packs, wanted>>
    BY <1>6, SamePresent DEF CatalogDone, Starting
  <2>2. fromDisk \/ ToSet(Embedded) \subseteq Present
    BY <2>1, EmptyStage DEF NothingForgotten, CatalogSeen
  <2>3. CatalogSeen'
    BY <2>1, <2>2 DEF CatalogSeen
  <2>4. wanted \subseteq Present \cup PackItems(packs) \cup ToSet(todo)
    BY <2>1 DEF NothingForgotten
  <2> QED
    BY <2>1, <2>3, <2>4 DEF NothingForgotten, PackItems
<1>7. CASE NextPack
  <2>1. /\ Starting /\ todo = <<>> /\ pc = "packs" /\ pc' = "packs"
        /\ Present' = Present /\ UNCHANGED <<fromDisk, wanted>>
    BY <1>7, SamePresent DEF NextPack, Starting
  <2>2. PICK name \in packs : todo' = Packs[name] /\ packs' = packs \ {name}
    BY <1>7 DEF NextPack
  <2>3. PackItems(packs) = PackItems(packs') \cup ToSet(todo')
    BY <2>2 DEF PackItems
  <2>4. wanted \subseteq Present \cup PackItems(packs)
    BY <2>1, EmptyStage DEF NothingForgotten
  <2>5. CatalogSeen'
    BY <2>1 DEF NothingForgotten, CatalogSeen
  <2> QED
    BY <2>1, <2>3, <2>4, <2>5 DEF NothingForgotten, PackItems
<1>8. CASE \/ StartUnseeded \/ SeedConflict \/ Serve \/ Stop
  BY <1>8 DEF StartUnseeded, SeedConflict, Serve, Stop, NothingForgotten, Starting
<1>9. CASE \/ \E id \in Ids : Put(id) \/ Delete(id) \/ \E newId \in Ids : Rename(id, newId)
           \/ \E id \in RunnerIds : DeleteRunner(id)
  BY <1>9 DEF Put, Delete, Rename, DeleteRunner, Client, NothingForgotten, Starting
<1>10. CASE UNCHANGED vars
  <2>1. Present' = Present /\ UNCHANGED <<pc, todo, fromDisk, packs, wanted>>
    BY <1>10, SamePresent DEF vars, library
  <2> QED
    BY <2>1 DEF NothingForgotten, CatalogSeen, PackItems, Starting
<1> QED
  BY <1>1, <1>2, <1>3, <1>4, <1>5, <1>6, <1>7, <1>8, <1>9, <1>10 DEF Next, Seed

\* A start that ends without an error (maybeSeed) leaves out nothing that its
\* data files and packs hold, nor, unless the data files added something, what
\* the binary embeds, whichever of the files are there and wherever earlier
\* starts were killed.
THEOREM CleanStartsComplete == Spec => SeedingCompletes
<1> DEFINE Completes ==
      Starting /\ pc' = "serving" /\ ~failed' =>
        /\ wanted \subseteq Present'
        /\ fromDisk \/ ToSet(Embedded) \subseteq Present'
<1>1. Init => NothingForgotten
  BY DEF Init, NothingForgotten, Starting
<1>2. ASSUME TypeOK, NothingForgotten, [Next]_vars PROVE Completes
  <2> SUFFICES ASSUME Starting, pc' = "serving", ~failed'
               PROVE  wanted \subseteq Present' /\ (fromDisk \/ ToSet(Embedded) \subseteq Present')
    OBVIOUS
  <2>1. Serve
    BY <1>2 DEF Next, Seed, Start, StartUnseeded, SkipItem, SeedGadget, SeedConflict, SeedRunner,
                FallBack, CatalogDone, NextPack, Stop, Put, Delete, Rename, DeleteRunner, Client,
                Starting, vars
  <2>2. pc = "packs" /\ todo = <<>> /\ packs = {} /\ Present' = Present
    BY <2>1, SamePresent DEF Serve
  <2>3. PackItems(packs) = {} /\ ToSet(todo) = {}
    BY <2>2, EmptyStage DEF PackItems
  <2> QED
    BY <2>2, <2>3, <1>2 DEF NothingForgotten, CatalogSeen
<1>3. TypeOK /\ NothingForgotten /\ [Next]_vars => [Completes]_vars
  BY <1>2
<1>4. Spec => []NothingForgotten
  BY <1>1, StepForgetsNothing, SeedingTypes, PTL DEF Spec
<1> QED
  BY <1>3, <1>4, SeedingTypes, PTL DEF Spec, SeedingCompletes

=============================================================================
