------------------------------ MODULE Seeding ------------------------------
(***************************************************************************)
(* A server's start-ups on one database, over its life: maybeSeed          *)
(* (packages/server/src/cli.ts) and the functions of                       *)
(* packages/core/src/services/seed.ts it calls, between the edits that     *)
(* clients make while the server runs.                                     *)
(*                                                                         *)
(* Every seeded item commits by itself, and a server may be killed between *)
(* any two of them and started again with other packs.  No client is       *)
(* connected before the seeding is over.  Of GadgetStore's tables only     *)
(* what seeding tells apart is kept: which gadget a name has, and whether  *)
(* it came from a seed or from a client.                                   *)
(*                                                                         *)
(* No action uses the variants with a slip in them that stand before the   *)
(* definition they are named for.                                          *)
(***************************************************************************)
EXTENDS Sequences, SequencesExt

CONSTANTS
  Ids,         \* gadget ids
  RunnerIds,   \* ids of reviewer runners
  GadgetFiles, \* what data/gadgets.ndjson may hold, <<>> when it is not there
  RunnerFiles, \* ... and data/reviewer_runners.json
  Embedded,    \* the gadgets and runners in the binary
  Packs,       \* pack name -> its gadgets
  NoGadget,
  NoName

Items == Ids \cup RunnerIds

ASSUME CatalogAssumption ==
  /\ Ids \cap RunnerIds = {}
  /\ NoName \notin Ids
  /\ GadgetFiles \subseteq Seq(Ids) /\ RunnerFiles \subseteq Seq(RunnerIds)
  /\ Embedded \in Seq(Items)
  /\ \A name \in DOMAIN Packs : Packs[name] \in Seq(Ids)

ASSUME MissingAssumption == NoGadget \notin {"seeded", "edited"}

VARIABLES
  gadgets,  \* id -> "seeded", "edited" by a client, or NoGadget
  aliases,  \* former id -> id, or NoName
  runners,  \* ids of the reviewer runners
  pc,       \* "down", "disk", "embedded", "packs" or "serving"
  todo,     \* items of this stage still to be looked at
  fromDisk, \* the data files have added an item
  packs,    \* packs enabled at this start and still to be seeded
  wanted,   \* history: what this start was to seed
  failed    \* history: this start's seeding was cut short by an error

vars == <<gadgets, aliases, runners, pc, todo, fromDisk, packs, wanted, failed>>
library == <<gadgets, aliases, runners>>

Live(id) == gadgets[id] # NoGadget

Present == {id \in Ids : Live(id)} \cup runners

Starting == pc \in {"disk", "embedded", "packs"}

----------------------------------------------------------------------------
(* Seeding.                                                                *)

\* The server starts, with both data files next to it, one of them or none,
\* and with some packs enabled.
Start(gadgetFile, runnerFile, enabled) ==
  /\ pc = "down"
  /\ pc' = "disk"
  /\ todo' = gadgetFile \o runnerFile
  /\ fromDisk' = FALSE
  /\ packs' = enabled
  /\ wanted' = ToSet(gadgetFile \o runnerFile)
                 \cup UNION {ToSet(Packs[name]) : name \in enabled}
  /\ failed' = FALSE
  /\ UNCHANGED library

\* GADGET_SEED=off
StartUnseeded ==
  /\ pc = "down"
  /\ pc' = "serving"
  /\ wanted' = {}
  /\ failed' = FALSE
  /\ UNCHANGED <<library, todo, fromDisk, packs>>

\* getById(id) or get(id) found the item.
SkipRestOfStage ==
  /\ todo # <<>> /\ Head(todo) \in Present
  /\ todo' = <<>>
  /\ UNCHANGED <<library, pc, fromDisk, packs, wanted, failed>>

SkipItem ==
  /\ todo # <<>> /\ Head(todo) \in Present
  /\ todo' = Tail(todo)
  /\ UNCHANGED <<library, pc, fromDisk, packs, wanted, failed>>

SeedGadgetAnyway ==
  /\ todo # <<>> /\ Head(todo) \in Ids
  /\ gadgets' = [gadgets EXCEPT ![Head(todo)] = "seeded"]
  /\ todo' = Tail(todo)
  /\ fromDisk' = (fromDisk \/ pc = "disk")
  /\ UNCHANGED <<aliases, runners, pc, packs, wanted, failed>>

SeedGadgetIgnoringAliases ==
  /\ todo # <<>> /\ Head(todo) \in Ids \ Present
  /\ gadgets' = [gadgets EXCEPT ![Head(todo)] = "seeded"]
  /\ todo' = Tail(todo)
  /\ fromDisk' = (fromDisk \/ pc = "disk")
  /\ UNCHANGED <<aliases, runners, pc, packs, wanted, failed>>

\* repo.add of an id that nothing is called by.
SeedGadget ==
  /\ todo # <<>> /\ Head(todo) \in Ids \ Present
  /\ aliases[Head(todo)] = NoName
  /\ gadgets' = [gadgets EXCEPT ![Head(todo)] = "seeded"]
  /\ todo' = Tail(todo)
  /\ fromDisk' = (fromDisk \/ pc = "disk")
  /\ UNCHANGED <<aliases, runners, pc, packs, wanted, failed>>

\* repo.add of an id that a renamed gadget still answers to: AliasConflictError
\* ends all of the seeding.  maybeSeed logs it and the server goes on.
SeedConflict ==
  /\ todo # <<>> /\ Head(todo) \in Ids \ Present
  /\ aliases[Head(todo)] # NoName
  /\ failed' = TRUE
  /\ pc' = "serving"
  /\ todo' = <<>>
  /\ packs' = {}
  /\ UNCHANGED <<library, fromDisk, wanted>>

SeedRunner ==
  /\ todo # <<>> /\ Head(todo) \in RunnerIds \ Present
  /\ runners' = runners \cup {Head(todo)}
  /\ todo' = Tail(todo)
  /\ fromDisk' = (fromDisk \/ pc = "disk")
  /\ UNCHANGED <<gadgets, aliases, pc, packs, wanted, failed>>

\* The files, if there were any, seeded nothing: fall back to what the binary
\* embeds.
FallBack ==
  /\ pc = "disk" /\ todo = <<>> /\ ~fromDisk
  /\ pc' = "embedded"
  /\ todo' = Embedded
  /\ UNCHANGED <<library, fromDisk, packs, wanted, failed>>

CatalogDone ==
  /\ todo = <<>>
  /\ pc = "embedded" \/ (pc = "disk" /\ fromDisk)
  /\ pc' = "packs"
  /\ UNCHANGED <<library, todo, fromDisk, packs, wanted, failed>>

NextPack ==
  /\ pc = "packs" /\ todo = <<>>
  /\ \E name \in packs :
       /\ todo' = Packs[name]
       /\ packs' = packs \ {name}
  /\ UNCHANGED <<library, pc, fromDisk, wanted, failed>>

Serve ==
  /\ pc = "packs" /\ todo = <<>> /\ packs = {}
  /\ pc' = "serving"
  /\ UNCHANGED <<library, todo, fromDisk, packs, wanted, failed>>

\* The server is killed or stopped, in whatever it is doing.
Stop ==
  /\ pc # "down"
  /\ pc' = "down"
  /\ todo' = <<>>
  /\ packs' = {}
  /\ UNCHANGED <<library, fromDisk, wanted, failed>>

----------------------------------------------------------------------------
(* What clients do meanwhile (GadgetStore has these in full).              *)

Client(newGadgets, newAliases, newRunners) ==
  /\ pc = "serving"
  /\ gadgets' = newGadgets /\ aliases' = newAliases /\ runners' = newRunners
  /\ UNCHANGED <<pc, todo, fromDisk, packs, wanted, failed>>

Put(id) ==
  /\ Live(id) \/ aliases[id] = NoName
  /\ Client([gadgets EXCEPT ![id] = "edited"], aliases, runners)

Delete(id) ==
  /\ Live(id)
  /\ Client([gadgets EXCEPT ![id] = NoGadget],
            [a \in Ids |-> IF aliases[a] = id THEN NoName ELSE aliases[a]],
            runners)

Rename(id, newId) ==
  /\ Live(id) /\ ~Live(newId) /\ aliases[newId] \in {NoName, id}
  /\ Client([gadgets EXCEPT ![id] = NoGadget, ![newId] = gadgets[id]],
            [a \in Ids |-> IF a = newId THEN NoName
                           ELSE IF a = id \/ aliases[a] = id THEN newId
                           ELSE aliases[a]],
            runners)

DeleteRunner(id) ==
  /\ id \in runners
  /\ Client(gadgets, aliases, runners \ {id})

----------------------------------------------------------------------------
(* The specification.                                                      *)

Init ==
  /\ gadgets = [id \in Ids |-> NoGadget]
  /\ aliases = [id \in Ids |-> NoName]
  /\ runners = {}
  /\ pc = "down"
  /\ todo = <<>>
  /\ fromDisk = FALSE
  /\ packs = {}
  /\ wanted = {}
  /\ failed = FALSE

Seed ==
  \/ SkipItem \/ SeedGadget \/ SeedConflict \/ SeedRunner
  \/ FallBack \/ CatalogDone \/ NextPack \/ Serve

Next ==
  \/ \E gadgetFile \in GadgetFiles, runnerFile \in RunnerFiles, enabled \in SUBSET DOMAIN Packs :
       Start(gadgetFile, runnerFile, enabled)
  \/ StartUnseeded \/ Seed \/ Stop
  \/ \E id \in Ids : Put(id) \/ Delete(id) \/ \E newId \in Ids : Rename(id, newId)
  \/ \E id \in RunnerIds : DeleteRunner(id)

Spec == Init /\ [][Next]_vars

----------------------------------------------------------------------------
(* Properties.                                                             *)

\* Also what NamesUnambiguous says of GadgetStore: seeding never makes a live
\* gadget of a name that a renamed one still answers to.
TypeOK ==
  /\ gadgets \in [Ids -> {"seeded", "edited", NoGadget}]
  /\ aliases \in [Ids -> Ids \cup {NoName}]
  /\ \A a \in Ids : aliases[a] # NoName => ~Live(a) /\ Live(aliases[a])
  /\ runners \subseteq RunnerIds
  /\ pc \in {"down", "disk", "embedded", "packs", "serving"}
  /\ todo \in Seq(Items)
  /\ {fromDisk, failed} \subseteq BOOLEAN
  /\ packs \subseteq DOMAIN Packs
  /\ wanted \subseteq Items

\* A start never touches what the database has: no gadget that a client edited
\* is reset to its seed, none is renamed back, and none goes.
SeedingOnlyAdds ==
  [][pc # "serving" =>
       /\ \A id \in Ids : Live(id) => gadgets'[id] = gadgets[id]
       /\ aliases' = aliases
       /\ runners \subseteq runners']_vars

\* A start that ends without an error leaves out nothing that its data files
\* and packs hold, and nothing that the binary embeds unless the data files
\* added something: a partly seeded database is completed, wherever earlier
\* starts were killed.  (One data file that adds an item keeps the embedded
\* items of the other kind out, until a start finds nothing to add from it.)
SeedingCompletes ==
  [][Starting /\ pc' = "serving" /\ ~failed' =>
       /\ wanted \subseteq Present'
       /\ fromDisk \/ ToSet(Embedded) \subseteq Present']_vars

=============================================================================
