--------------------------- MODULE MCHttpSessions ---------------------------
(* An instance of HttpSessions for TLC: three sessions at a time, two       *)
(* workspaces, both signals.                                                *)
EXTENDS HttpSessions
=============================================================================
