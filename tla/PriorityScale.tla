--------------------------- MODULE PriorityScale ---------------------------
(***************************************************************************)
(* The ends of the scale of reclaim priorities.                            *)
(***************************************************************************)
EXTENDS Integers

RECLAIM_PRIORITY_MIN == -1000
RECLAIM_PRIORITY_MAX == 1000
=============================================================================
