------------------------------ MODULE MCKickoff ------------------------------
(* Instances of Kickoff for TLC: three gadgets in two categories, pages of   *)
(* two rows, a library with one task and two constraints and an empty one.   *)
EXTENDS Kickoff

CONSTANTS g1, g2, g3, c1, c2

Order == <<"task", "constraint">>

Library ==
  <<[id |-> g1, category |-> "constraint", fit |-> 1, content |-> c1],
    [id |-> g2, category |-> "constraint", fit |-> 2, content |-> c2],
    [id |-> g3, category |-> "task", fit |-> 1, content |-> c1]>>

InitialLibraries == {Library, <<>>}
=============================================================================
