----------------------------- MODULE KillConfig -----------------------------
(***************************************************************************)
(* The killing waterlines: how KillConfig reads them from the XML and how  *)
(* the low memory killer looks up the priority above which it kills.       *)
(* Memory is counted in MB; a level is memoryMB * 1024 KB in 32 unsigned   *)
(* bits, which is memoryMB % 2^22 MB.                                      *)
(***************************************************************************)
EXTENDS Integers, FiniteSetsExt, SequencesExt

CONSTANTS
  MaxLevels     \* KILL_LEVEL_ITEMS__MAX_COUNT

RECLAIM_PRIORITY_MIN == -1000
RECLAIM_PRIORITY_MAX == 1000
RECLAIM_PRIORITY_UNKNOWN == 1000

\* XmlHelper's defaults for a parameter that is missing or does not parse.
NoMemory   == 0
NoPriority == RECLAIM_PRIORITY_MAX + 1

ToKB(memoryMB) == memoryMB % 2^22

\* g_minPrioTable, used when the XML gives no levels.
DefaultTable == [m \in {100, 200, 300, 400, 500} |-> m - 100]

(***************************************************************************)
(* ParseKillLevelNode: a comment is skipped; another node than killLevel,  *)
(* a parameter that cannot be read, or a level read before is an error.    *)
(***************************************************************************)
NodeOk(nodes, i) ==
  \/ nodes[i].name = "comment"
  \/ /\ nodes[i].name = "killLevel"
     /\ nodes[i].memoryMB # NoMemory
     /\ nodes[i].minPriority # NoPriority
     /\ \A j \in 1 .. i - 1 :
          nodes[j].name = "killLevel" => ToKB(nodes[j].memoryMB) # ToKB(nodes[i].memoryMB)

LevelNodes(nodes) == {nodes[i] : i \in {j \in DOMAIN nodes : nodes[j].name = "killLevel"}}

LevelsMap(nodes) ==
  [m \in {ToKB(n.memoryMB) : n \in LevelNodes(nodes)} |->
     (CHOOSE n \in LevelNodes(nodes) : ToKB(n.memoryMB) = m).minPriority]

\* Mutant: the order of the priorities is not checked.
IncreasingUnchecked(map) == TRUE

\* Priorities rise with the memory and start at RECLAIM_PRIORITY_MIN or above.
Increasing(map) ==
  /\ \A m \in DOMAIN map : map[m] >= RECLAIM_PRIORITY_MIN
  /\ \A m, n \in DOMAIN map : m < n => map[m] < map[n]

\* ParseConfig: one error clears the whole map.
ParseConfig(nodes) ==
  IF /\ \A i \in DOMAIN nodes : NodeOk(nodes, i)
     /\ Cardinality(LevelNodes(nodes)) <= MaxLevels
     /\ Increasing(LevelsMap(nodes))
  THEN LevelsMap(nodes)
  ELSE [m \in {} |-> NoPriority]

\* The map the killer uses.
KillLevels(map) == IF DOMAIN map = {} THEN DefaultTable ELSE map

(***************************************************************************)
(* QueryKillMemoryPriorityPair walks the levels upwards to the first one   *)
(* above the current buffer.  killLevel counts the levels it looked at.    *)
(***************************************************************************)
QueryKillMemoryPriorityPair(map, curr) ==
  LET above == {m \in DOMAIN map : curr < m}
      first == Min(above)
  IN  [ minPrio   |-> IF above = {} THEN RECLAIM_PRIORITY_UNKNOWN + 1 ELSE map[first],
        target    |-> Max(DOMAIN map),
        killLevel |-> Cardinality({m \in DOMAIN map : above # {} => m <= first}) ]
=============================================================================
