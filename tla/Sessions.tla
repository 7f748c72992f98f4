------------------------------ MODULE Sessions ------------------------------
(***************************************************************************)
(* What the routing pipeline, its stages and the stores name alike.        *)
(***************************************************************************)
CONSTANTS
  Session,   \* sessions of the host, each with at most one route in progress
  None       \* null, undefined
=============================================================================
