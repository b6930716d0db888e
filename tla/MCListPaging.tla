---------------------------- MODULE MCListPaging ----------------------------
(* An instance of ListPaging for TLC: three ids, pages of one and of two.  *)
EXTENDS ListPaging
=============================================================================
