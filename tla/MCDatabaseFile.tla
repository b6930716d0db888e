--------------------------- MODULE MCDatabaseFile ---------------------------
(* An instance of DatabaseFile for TLC: two servers and a command on a new  *)
(* file, three migrations, two writes, one kill, three commands.            *)
EXTENDS DatabaseFile
=============================================================================
