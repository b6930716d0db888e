---------------------------- MODULE MCToolCalls ----------------------------
(* Instances of ToolCalls for TLC: one session of each role, two names that *)
(* are valid and one that is not, two bodies of which one is misshapen, and *)
(* a library that is empty or holds a renamed gadget.                       *)
EXTENDS ToolCalls, TLC

CONSTANTS reader, writer, admin, n1, n2, bad, r1, b1, b2

RoleOfSession == (reader :> "reader") @@ (writer :> "writer") @@ (admin :> "admin")

EmptyLibrary ==
  [gadgets |-> [n \in Names |-> NoRow], aliases |-> [n \in Names |-> NoName],
   revisions |-> {}, fts |-> {}]

RenamedGadget ==
  [gadgets |-> [n \in Names |-> IF n = n2 THEN [rowid |-> r1, body |-> b1] ELSE NoRow],
   aliases |-> [n \in Names |-> IF n = n1 THEN n2 ELSE NoName],
   revisions |-> {[gadget |-> n2, version |-> v, body |-> b1] : v \in 1..2},
   fts |-> {IndexRow(r1, n2, b1)}]

Stores == {EmptyLibrary, RenamedGadget}
=============================================================================
