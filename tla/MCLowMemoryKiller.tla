------------------------- MODULE MCLowMemoryKiller -------------------------
(* Instances of LowMemoryKiller for TLC.                                   *)
EXTENDS LowMemoryKiller

Level(m, p) == [name |-> "killLevel", memoryMB |-> m, minPriority |-> p]
Comment     == [name |-> "comment", memoryMB |-> NoMemory, minPriority |-> NoPriority]
Unknown     == [name |-> "killlevel", memoryMB |-> 200, minPriority |-> 0]

\* Everything three nodes can say: levels in any order, equal levels, a level
\* that wraps around 2^32 KB, priorities out of range, unreadable nodes.
McNode == {Level(m, p) : m \in {NoMemory, 200, 500, 2^22 + 200},
                         p \in {-1001, 0, 400, NoPriority}} \cup {Comment, Unknown}
McXmls == BoundedSeq(McNode, 3)

\* A reading that fails to parse, one between the levels and one that is enough.
McBuffers == {-1, 450, 500}

McSizeOf == [p \in Pid |-> IF p = 1 THEN 100 ELSE 10]
=============================================================================
