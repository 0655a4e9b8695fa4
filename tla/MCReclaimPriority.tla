------------------------- MODULE MCReclaimPriority -------------------------
(***************************************************************************)
(* Instances of ReclaimPriority for TLC.                                   *)
(***************************************************************************)
EXTENDS ReclaimPriority, TLC

OneAccount == [u \in Uid |-> 100]

LowImportant == [p \in Pid |-> 200]

\* A bundle of its own for each process.
OwnBundle == [p \in Pid |-> p]

\* An app with two processes, and a render process beside it.
AppAndRender == [p \in Pid |-> IF p = 3 THEN 2 ELSE 1]

\* Two system apps that use each other's extension, and an app that uses one.
SystemCycleBinds == {<<1, 2>>, <<2, 1>>, <<3, 1>>}

\* Process 1 uses extension 2 and shares a bundle with extension 3; 2 and 3 use each other.
SharedBundle == [p \in Pid |-> IF p = 2 THEN 2 ELSE 1]
CycleBinds == {<<1, 2>>, <<2, 3>>, <<3, 2>>}
=============================================================================
