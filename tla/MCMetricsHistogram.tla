------------------------- MODULE MCMetricsHistogram -------------------------
(* An instance of MetricsHistogram for TLC.                                *)
EXTENDS MetricsHistogram
=============================================================================
