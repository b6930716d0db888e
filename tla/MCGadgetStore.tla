--------------------------- MODULE MCGadgetStore ---------------------------
(* Instances of GadgetStore for TLC.                                       *)
EXTENDS GadgetStore, TLC

\* Names, rowids and bodies are only compared: one of each permutation does.
Symmetry == Permutations(ValidNames) \cup Permutations(RowIds) \cup Permutations(Bodies)
=============================================================================
