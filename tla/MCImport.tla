------------------------------ MODULE MCImport ------------------------------
(* Instances of Import for TLC.                                            *)
EXTENDS Import

ImportSymmetry ==
  Permutations(ValidNames) \cup Permutations(RowIds) \cup Permutations(Bodies)
=============================================================================
