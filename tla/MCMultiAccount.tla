--------------------------- MODULE MCMultiAccount ---------------------------
(* Instances of MultiAccount for TLC.                                      *)
EXTENDS MultiAccount, TLC

CONSTANTS p1, p2, p3

\* p1 and p2 are alike.
Symmetry == Permutations({p1, p2})

\* Bundle u belongs to account u; bundle 1 has two processes.
McAccountOf == [u \in Uid |-> u]
McUidOf     == (p1 :> 1) @@ (p2 :> 1) @@ (p3 :> 2)
=============================================================================
