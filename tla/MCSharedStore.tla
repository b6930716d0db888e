---------------------------- MODULE MCSharedStore ---------------------------
(* Instances of SharedStore for TLC: two processes, two names.             *)
EXTENDS SharedStore
=============================================================================
