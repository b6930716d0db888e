---------------------------- MODULE MCReviewerRun ---------------------------
(* Instances of ReviewerRun for TLC.                                       *)
EXTENDS ReviewerRun
=============================================================================
