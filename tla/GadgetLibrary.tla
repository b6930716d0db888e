--------------------------- MODULE GadgetLibrary ---------------------------
(***************************************************************************)
(* What the gadget store promises its callers, without its tables.         *)
(*                                                                         *)
(* A gadget is an entity with a history of bodies, the last of which is    *)
(* the one it has now.  Names are bound to entities: one of an entity's    *)
(* names is its current id, the others are ids it had before.  Saving and  *)
(* rolling back both extend the history; renaming binds one more name and  *)
(* extends the history too.  A bound name is never given to another        *)
(* entity: only deleting the gadget frees its names.                       *)
(*                                                                         *)
(* GadgetStore implements this specification (GadgetStore!Library).        *)
(***************************************************************************)
EXTENDS Naturals, Sequences, FiniteSets

CONSTANTS
  Names,      \* every string a gadget or an alias can be called by
  Entities,   \* gadgets over their whole life, whatever they are called
  Bodies,     \* what a revision snapshots: title, description, content, tags
  NameLimit,  \* names one entity may hold at a time
  NoEntity,   \* what an unbound name is bound to
  NoName      \* the current id of an entity that is not in use

VARIABLES
  entityOf,   \* name -> entity or NoEntity
  idOf,       \* entity -> its current id, or NoName while it is not in use
  history     \* entity -> sequence of bodies; empty for an unused entity

vars == <<entityOf, idOf, history>>

NamesOf(e) == {n \in Names : entityOf[n] = e}

InUse(e) == idOf[e] # NoName

Init ==
  /\ entityOf = [n \in Names |-> NoEntity]
  /\ idOf = [e \in Entities |-> NoName]
  /\ history = [e \in Entities |-> <<>>]

Create(e, n, b) ==
  /\ ~InUse(e)
  /\ entityOf[n] = NoEntity
  /\ entityOf' = [entityOf EXCEPT ![n] = e]
  /\ idOf' = [idOf EXCEPT ![e] = n]
  /\ history' = [history EXCEPT ![e] = <<b>>]

Save(e, b) ==
  /\ InUse(e)
  /\ history' = [history EXCEPT ![e] = Append(@, b)]
  /\ UNCHANGED <<entityOf, idOf>>

Rename(e, n) ==
  /\ InUse(e)
  /\ n # idOf[e]
  /\ entityOf[n] \in {NoEntity, e}
  /\ Cardinality(NamesOf(e) \cup {n}) <= NameLimit
  /\ entityOf' = [entityOf EXCEPT ![n] = e]
  /\ idOf' = [idOf EXCEPT ![e] = n]
  /\ history' = [history EXCEPT ![e] = Append(@, @[Len(@)])]

Drop(e) ==
  /\ InUse(e)
  /\ entityOf' = [n \in Names |-> IF entityOf[n] = e THEN NoEntity ELSE entityOf[n]]
  /\ idOf' = [idOf EXCEPT ![e] = NoName]
  /\ history' = [history EXCEPT ![e] = <<>>]

Next ==
  \E e \in Entities :
    \/ Drop(e)
    \/ \E b \in Bodies : Save(e, b)
    \/ \E n \in Names : Rename(e, n) \/ \E b \in Bodies : Create(e, n, b)

Spec == Init /\ [][Next]_vars
=============================================================================
