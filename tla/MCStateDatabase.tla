--------------------------- MODULE MCStateDatabase ---------------------------
(* Two processes, a session; the file found, if any, is of version 4.       *)
EXTENDS StateDatabase
=============================================================================
