----------------------- MODULE LowMemoryKiller_proofs -----------------------
(***************************************************************************)
(* Proofs about LowMemoryKiller, for every set of processes, bundles,      *)
(* priorities and buffer readings, and for every XML.                      *)
(***************************************************************************)
EXTENDS LowMemoryKiller, FiniteSetTheorems, WellFoundedInduction, TLAPS

-----------------------------------------------------------------------------
(* Least and greatest elements.                                            *)

\* A non-empty set of integers that is bounded below has a least element, and Min is it.
LEMMA MinOfBounded ==
  ASSUME NEW S, S \subseteq Int, S # {}, NEW b \in Int, \A x \in S : x >= b
  PROVE  Min(S) \in S /\ \A x \in S : Min(S) <= x
<1> DEFINE T == {x - b : x \in S}
<1>1. T \subseteq Nat /\ T # {}
  <2>1. \A x \in S : x - b \in Nat
    OBVIOUS
  <2>2. PICK x \in S : TRUE
    OBVIOUS
  <2>3. x - b \in T
    BY <2>2
  <2> QED BY <2>1, <2>3
<1>2. PICK n \in T : \A m \in T : ~(<<m, n>> \in OpToRel(<, Nat))
  BY <1>1, NatLessThanWellFounded, WFMin
<1>3. \A m \in T : n <= m
  <2> SUFFICES ASSUME NEW m \in T, ~(n <= m) PROVE FALSE
    OBVIOUS
  <2>1. m \in Nat /\ n \in Nat /\ m < n
    BY <1>1
  <2>2. <<m, n>> \in OpToRel(<, Nat)
    BY <2>1 DEF OpToRel
  <2> QED BY <2>2, <1>2
<1>4. PICK x \in S : n = x - b
  OBVIOUS
<1>5. ASSUME NEW y \in S PROVE x <= y
  <2>1. y - b \in T
    OBVIOUS
  <2> HIDE DEF T
  <2>2. x - b <= y - b
    BY <1>3, <1>4, <2>1
  <2>3. x \in Int /\ y \in Int
    OBVIOUS
  <2> QED BY <2>2, <2>3
<1>6. \E z \in S : \A y \in S : z =< y
  BY <1>5
<1> QED BY <1>6 DEF Min

\* A non-empty set of integers that is bounded above has a greatest element.
LEMMA GreatestOfBounded ==
  ASSUME NEW S, S \subseteq Int, S # {}, NEW b \in Int, \A x \in S : x <= b
  PROVE  \E x \in S : \A y \in S : y <= x
<1> DEFINE T == {0 - x : x \in S}
<1>1. /\ T \subseteq Int /\ T # {}
      /\ \A t \in T : t >= 0 - b
      /\ 0 - b \in Int
  <2>1. \A x \in S : 0 - x \in Int /\ 0 - x >= 0 - b
    OBVIOUS
  <2>2. PICK x \in S : TRUE
    OBVIOUS
  <2>3. 0 - x \in T
    BY <2>2
  <2> QED BY <2>1, <2>3
<1>2. Min(T) \in T /\ \A t \in T : Min(T) <= t
  <2> HIDE DEF T
  <2> QED BY <1>1, MinOfBounded
<1>3. PICK x \in S : Min(T) = 0 - x
  BY <1>2
<1>4. ASSUME NEW y \in S PROVE y <= x
  <2>1. 0 - y \in T
    OBVIOUS
  <2>2. 0 - x <= 0 - y
    <3> HIDE DEF T
    <3> QED BY <1>2, <1>3, <2>1
  <2>3. x \in Int /\ y \in Int
    OBVIOUS
  <2> QED BY <2>2, <2>3
<1> QED BY <1>4

\* Integers with an upper bound have a greatest.
LEMMA MaxOfBounded ==
  ASSUME NEW S, S \subseteq Int, S # {}, NEW b \in Int, \A x \in S : x <= b
  PROVE  Max(S) \in S /\ \A x \in S : x <= Max(S)
<1>1. PICK x \in S : \A y \in S : y <= x
  BY GreatestOfBounded
<1>2. \A y \in S : x >= y
  BY <1>1
<1>3. Max(S) \in S /\ \A y \in S : Max(S) >= y
  BY <1>2 DEF Max
<1> QED BY <1>3

-----------------------------------------------------------------------------
(* The waterlines.                                                         *)

\* What every map of waterlines in use is: finitely many levels, whose priorities rise with
\* the memory.
GoodLevels(map) ==
  /\ DOMAIN map \subseteq Nat
  /\ DOMAIN map # {}
  /\ IsFiniteSet(DOMAIN map)
  /\ \E b \in Nat : \A m \in DOMAIN map : m <= b
  /\ \A m \in DOMAIN map : map[m] \in Int
  /\ Increasing(map)

\* The levels the program falls back on are good ones.
LEMMA DefaultTableGood == GoodLevels(DefaultTable)
<1>1. IsFiniteSet({100, 200, 300, 400, 500})
  <2>1. {100, 200, 300, 400, 500} \in SUBSET Nat /\ \A m \in {100, 200, 300, 400, 500} : m <= 500
    OBVIOUS
  <2> QED BY <2>1, FS_BoundedSetOfNaturals
<1>2. \A m \in {100, 200, 300, 400, 500} : m <= 500
  OBVIOUS
<1> QED BY <1>1, <1>2 DEF DefaultTable, GoodLevels, Increasing, RECLAIM_PRIORITY_MIN

\* The levels of an XML are finitely many, and below 2^22 MB.
LEMMA LevelsMapShape ==
  ASSUME NEW nodes \in Seq(Node)
  PROVE  /\ DOMAIN LevelsMap(nodes) \subseteq Nat
         /\ IsFiniteSet(DOMAIN LevelsMap(nodes))
         /\ \E b \in Nat : \A m \in DOMAIN LevelsMap(nodes) : m <= b
         /\ \A m \in DOMAIN LevelsMap(nodes) : LevelsMap(nodes)[m] \in Int
<1> DEFINE N == LevelNodes(nodes)
           D == {ToKB(n.memoryMB) : n \in N}
<1>1. DOMAIN LevelsMap(nodes) = D
  BY Zenon DEF LevelsMap
<1>2. N \subseteq Node
  BY DEF LevelNodes
<1>3. 2^22 \in Nat /\ 2^22 > 0
  BY SMT
<1>4. D \subseteq Nat /\ \A m \in D : m <= 2^22
  <2>1. ASSUME NEW k \in Nat PROVE ToKB(k) \in Nat /\ ToKB(k) <= 2^22
    BY <1>3 DEF ToKB
  <2>2. \A n \in N : n.memoryMB \in Nat
    BY <1>2 DEF Node
  <2> QED BY <2>1, <2>2
<1>5. IsFiniteSet(D)
  BY <1>3, <1>4, FS_BoundedSetOfNaturals
<1>6. ASSUME NEW m \in D PROVE LevelsMap(nodes)[m] \in Int
  <2>1. \E n \in N : ToKB(n.memoryMB) = m
    OBVIOUS
  <2>2. (CHOOSE n \in N : ToKB(n.memoryMB) = m) \in N
    BY <2>1
  <2> QED BY <1>2, <2>2 DEF LevelsMap, Node
<1> QED BY <1>1, <1>3, <1>4, <1>5, <1>6

\* Whatever the XML says, the killer uses good levels: one error leaves the map empty, and
\* an empty map is replaced by g_minPrioTable.
LEMMA LevelsGood ==
  ASSUME NEW x \in Xmls
  PROVE  GoodLevels(KillLevels(ParseConfig(x)))
<1>1. x \in Seq(Node)
  BY LmkAssumption
<1>2. CASE DOMAIN ParseConfig(x) = {}
  BY <1>2, DefaultTableGood DEF KillLevels
<1>3. CASE DOMAIN ParseConfig(x) # {}
  <2>1. KillLevels(ParseConfig(x)) = ParseConfig(x)
    BY <1>3 DEF KillLevels
  <2>2. DOMAIN [m \in {} |-> NoPriority] = {}
    OBVIOUS
  <2>3. ParseConfig(x) = LevelsMap(x) /\ Increasing(LevelsMap(x))
    BY <1>3, <2>2 DEF ParseConfig
  <2> QED BY <1>1, <1>3, <2>1, <2>3, LevelsMapShape DEF GoodLevels
<1> QED BY <1>2, <1>3

\* The constants as the arithmetic below needs them.
LEMMA BoundsAreNumbers ==
  /\ MaxKillCnt \in Nat /\ MaxKillCnt > 0 /\ MaxBirths \in Nat
  /\ Buffers \subseteq Int
  /\ \A q \in Prios \cup {RECLAIM_PRIORITY_UNKNOWN} : q \in Int /\ q <= RECLAIM_PRIORITY_MAX
  /\ RECLAIM_PRIORITY_MAX \in Int
BY LmkAssumption DEF RECLAIM_PRIORITY_UNKNOWN, RECLAIM_PRIORITY_MAX, RECLAIM_PRIORITY_MIN

\* Where more memory makes the killer kill, less makes it kill at least as much: for any two
\* readings.
LEMMA QueryMonotone ==
  ASSUME GoodLevels(levels), NEW a \in Int, NEW b \in Int, a <= b, NEW q \in Killed(b)
  PROVE  q \in Killed(a)
<1> DEFINE above(c) == {m \in DOMAIN levels : c < m}
           prio(c) == QueryKillMemoryPriorityPair(levels, c).minPrio
<1>0. DOMAIN levels \subseteq Nat /\ (\A m \in DOMAIN levels : levels[m] \in Int) /\ Increasing(levels)
  BY DEF GoodLevels
<1>1. ASSUME NEW c \in Int
      PROVE  prio(c) = IF above(c) = {} THEN RECLAIM_PRIORITY_UNKNOWN + 1 ELSE levels[Min(above(c))]
  BY DEF QueryKillMemoryPriorityPair
<1>2. ASSUME NEW c \in Int, above(c) # {}
      PROVE  Min(above(c)) \in above(c) /\ \A m \in above(c) : Min(above(c)) <= m
  <2>1. above(c) \subseteq Int /\ \A m \in above(c) : m >= 0
    BY <1>0
  <2> HIDE DEF above
  <2> QED BY <1>2, <2>1, MinOfBounded
<1>3. prio(b) \in RECLAIM_PRIORITY_MIN .. RECLAIM_PRIORITY_MAX /\ q >= prio(b) /\ q \in Prios /\ q \in Int
  BY BoundsAreNumbers DEF Killed
<1>4. above(b) # {}
  <2>1. RECLAIM_PRIORITY_UNKNOWN + 1 \notin RECLAIM_PRIORITY_MIN .. RECLAIM_PRIORITY_MAX
    BY DEF RECLAIM_PRIORITY_UNKNOWN, RECLAIM_PRIORITY_MIN, RECLAIM_PRIORITY_MAX
  <2> HIDE DEF above, prio
  <2> QED BY <1>1, <1>3, <2>1
<1>5. above(b) \subseteq above(a)
  BY <1>0
<1> DEFINE ma == Min(above(a))
           mb == Min(above(b))
<1>6. /\ above(a) # {} /\ ma \in DOMAIN levels /\ mb \in DOMAIN levels /\ ma <= mb
      /\ prio(a) = levels[ma] /\ prio(b) = levels[mb]
  <2>1. above(a) # {}
    BY <1>4, <1>5
  <2>2. ma \in above(a) /\ mb \in above(b) /\ ma <= mb
    <3> HIDE DEF above
    <3> QED BY <1>2, <1>4, <1>5, <2>1
  <2>3. ma \in DOMAIN levels /\ mb \in DOMAIN levels
    <3> HIDE DEF ma, mb
    <3> QED BY <2>2
  <2> HIDE DEF above, prio
  <2> QED BY <1>1, <1>4, <2>1, <2>2, <2>3
<1> HIDE DEF ma, mb, prio, above
<1>7. levels[ma] <= levels[mb] /\ levels[ma] >= RECLAIM_PRIORITY_MIN
  BY <1>0, <1>6 DEF Increasing
<1>8. levels[ma] \in Int /\ levels[mb] \in Int
  BY <1>0, <1>6
<1>9. levels[ma] \in RECLAIM_PRIORITY_MIN .. RECLAIM_PRIORITY_MAX /\ q >= levels[ma]
  <2>1. levels[mb] \in RECLAIM_PRIORITY_MIN .. RECLAIM_PRIORITY_MAX /\ q >= levels[mb]
    BY <1>3, <1>6
  <2>2. ASSUME NEW x \in Int, NEW y \in RECLAIM_PRIORITY_MIN .. RECLAIM_PRIORITY_MAX, NEW z \in Int,
               x <= y, x >= RECLAIM_PRIORITY_MIN, z >= y
        PROVE  x \in RECLAIM_PRIORITY_MIN .. RECLAIM_PRIORITY_MAX /\ z >= x
    BY <2>2 DEF RECLAIM_PRIORITY_MIN, RECLAIM_PRIORITY_MAX
  <2>3. q \in Int
    BY <1>3
  <2> QED BY <1>7, <1>8, <2>1, <2>2, <2>3
<1>10. prio(a) \in RECLAIM_PRIORITY_MIN .. RECLAIM_PRIORITY_MAX /\ q >= prio(a)
  BY <1>6, <1>9, Zenon
<1> QED BY <1>3, <1>10 DEF Killed, prio

-----------------------------------------------------------------------------
(* The end of the list.                                                    *)

\* LastOf is in the set it is taken from, and nothing in the set comes after it.
LEMMA LastOfIsLast ==
  ASSUME NEW S, S \subseteq Uid, S # {},
         NEW top \in Int, \A u \in S : bprio[u] \in Int /\ bprio[u] <= top
  PROVE  LastOf(S) \in S /\ \A v \in S : bprio[v] <= bprio[LastOf(S)]
<1> DEFINE P == {bprio[u] : u \in S}
<1>1. P \subseteq Int /\ P # {} /\ \A q \in P : q <= top
  <2>1. PICK u \in S : TRUE
    OBVIOUS
  <2>2. bprio[u] \in P
    BY <2>1
  <2> QED BY <2>2
<1>2. PICK q \in P : \A r \in P : r <= q
  <2> HIDE DEF P
  <2> QED BY <1>1, GreatestOfBounded
<1> DEFINE T == {u \in S : bprio[u] = q}
<1>3. INT_MAX \in Int
  BY SMT DEF INT_MAX
<1>4. T \subseteq Int /\ T # {} /\ \A u \in T : u <= INT_MAX
  <2>1. S \subseteq 0 .. INT_MAX
    BY LmkAssumption
  <2>2. PICK u \in S : bprio[u] = q
    BY <1>2
  <2>3. T # {}
    BY <2>2
  <2>4. \A v \in S : v \in Int /\ v <= INT_MAX
    BY <1>3, <2>1
  <2>5. T \subseteq S
    OBVIOUS
  <2> HIDE DEF T
  <2> QED BY <2>3, <2>4, <2>5
<1>5. PICK u \in T : \A v \in T : v <= u
  <2> HIDE DEF T
  <2> QED BY <1>3, <1>4, GreatestOfBounded
<1>6. ASSUME NEW v \in S PROVE bprio[u] > bprio[v] \/ (bprio[u] = bprio[v] /\ u >= v)
  <2>1. bprio[v] <= q
    BY <1>2
  <2>2. bprio[u] = q
    BY <1>5
  <2>3. CASE bprio[v] = q
    <3>1. v <= u /\ v \in Int /\ u \in Int
      BY <1>4, <1>5, <2>3
    <3> QED BY <2>2, <2>3, <3>1
  <2>4. CASE bprio[v] # q
    BY <1>1, <2>1, <2>2, <2>4
  <2> QED BY <2>3, <2>4
<1>7. \E w \in S : \A v \in S : bprio[w] > bprio[v] \/ (bprio[w] = bprio[v] /\ w >= v)
  BY <1>6
<1>8. /\ LastOf(S) \in S
      /\ \A v \in S : bprio[LastOf(S)] > bprio[v] \/ (bprio[LastOf(S)] = bprio[v] /\ LastOf(S) >= v)
  BY <1>7 DEF LastOf
<1>9. ASSUME NEW v \in S PROVE bprio[v] <= bprio[LastOf(S)]
  <2>1. bprio[v] \in Int /\ bprio[LastOf(S)] \in Int
    BY <1>8
  <2> QED BY <1>8, <2>1
<1> QED BY <1>8, <1>9

-----------------------------------------------------------------------------
(* The type invariant.                                                     *)

\* Where the killer's locals stand at each point of PsiHandlerInner: the loop is entered
\* with kills to spare, and a copy has processes until the last one is signalled.
KillerState ==
  /\ stage = "idle" => killCnt = 0
  /\ stage \in {"pick", "kill", "mark"} => killCnt < MaxKillCnt
  /\ stage = "kill" => toKill # {}
  /\ stage = "mark" => toKill = {}

TInv == TypeOK /\ KillerState /\ GoodLevels(levels)

\* The types hold at the start, whichever XML was parsed.
LEMMA InitTInv == Init => TInv
<1> SUFFICES ASSUME Init PROVE TInv
  OBVIOUS
<1>1. GoodLevels(levels)
  BY LevelsGood DEF Init
<1>2. Cardinality(DOMAIN levels) \in Nat
  BY <1>1, FS_CardinalityType DEF GoodLevels
<1>3. NoEvent.minPrio \in Int /\ NoEvent.targetKill \in Nat
  BY DEF NoEvent, NoPriority, RECLAIM_PRIORITY_MAX
<1>4. proc \in [Pid -> {"gone", "runs", "blocked", "dying", "dead"}] /\ procs \in [Uid -> SUBSET Pid]
  BY DEF Init
<1>5. bprio \in [Uid -> Prios \cup {RECLAIM_PRIORITY_UNKNOWN}]
  BY DEF Init
<1>6. TypeOK
  BY <1>2, <1>3, <1>4, <1>5, BoundsAreNumbers DEF Init, TypeOK
<1>7. KillerState
  BY DEF Init, KillerState
<1> QED BY <1>1, <1>6, <1>7 DEF TInv

\* What an event looks up: a target and a level of the table in use.
LEMMA QueryTypes ==
  ASSUME TInv, NEW b \in Int
  PROVE  /\ QueryKillMemoryPriorityPair(levels, b).target \in Nat
         /\ QueryKillMemoryPriorityPair(levels, b).killLevel \in 0 .. Cardinality(DOMAIN levels)
         /\ Unsigned(b) \in Nat
<1> DEFINE above == {m \in DOMAIN levels : b < m}
           looked == {m \in DOMAIN levels : above # {} => m <= Min(above)}
<1>1. IsFiniteSet(DOMAIN levels) /\ DOMAIN levels \subseteq Nat /\ DOMAIN levels # {}
  BY DEF TInv, GoodLevels
<1>2. PICK top \in Nat : \A m \in DOMAIN levels : m <= top
  BY DEF TInv, GoodLevels
<1>3. Max(DOMAIN levels) \in Nat
  <2>1. DOMAIN levels \subseteq Int /\ top \in Int
    BY <1>1
  <2>2. Max(DOMAIN levels) \in DOMAIN levels
    BY <1>1, <1>2, <2>1, MaxOfBounded
  <2> QED BY <1>1, <2>2
<1>4. Cardinality(looked) \in 0 .. Cardinality(DOMAIN levels)
  <2>1. looked \in SUBSET DOMAIN levels
    OBVIOUS
  <2>2. IsFiniteSet(looked) /\ Cardinality(looked) <= Cardinality(DOMAIN levels)
    <3> HIDE DEF looked
    <3> QED BY <1>1, <2>1, FS_Subset
  <2>3. Cardinality(looked) \in Nat /\ Cardinality(DOMAIN levels) \in Nat
    <3> HIDE DEF looked
    <3> QED BY <1>1, <2>2, FS_CardinalityType
  <2> HIDE DEF looked
  <2> QED BY <2>2, <2>3
<1>5. /\ QueryKillMemoryPriorityPair(levels, b).target = Max(DOMAIN levels)
      /\ QueryKillMemoryPriorityPair(levels, b).killLevel = Cardinality(looked)
  BY DEF QueryKillMemoryPriorityPair
<1>6. Unsigned(b) \in Nat
  BY <1>3 DEF Unsigned
<1> QED BY <1>3, <1>4, <1>5, <1>6

\* goto out forgets the locals, whatever they were.
LEMMA OutTInv ==
  ASSUME Out, MaxKillCnt \in Nat, MaxKillCnt > 0
  PROVE  /\ stage' = "idle" /\ killCnt' \in 0 .. MaxKillCnt
         /\ event'.minPrio \in Int /\ event'.targetKill \in Nat /\ currKillKb' \in Nat
         /\ toKill' \subseteq Pid /\ freedBuf' \in Nat
         /\ KillerState'
BY DEF Out, NoEvent, NoPriority, RECLAIM_PRIORITY_MAX, KillerState

\* The priority manager's changes to the table keep the types.
LEMMA TableTInv ==
  ASSUME TInv
  PROVE  /\ \A u \in Uid, p \in Pid : CreateProcess(u, p) => TInv'
         /\ \A u \in Uid : UpdateReclaimPriority(u) => TInv'
         /\ \A p \in Pid : HandleTerminateProcess(p) => TInv'
<1>0. TypeOK /\ KillerState /\ GoodLevels(levels)
  BY DEF TInv
<1>1. ASSUME NEW u \in Uid, NEW p \in Pid, CreateProcess(u, p) PROVE TInv'
  <2>1. PICK q \in Prios : bprio' = [bprio EXCEPT ![u] = IF u \in Bundles THEN bprio[u] ELSE q]
    BY <1>1 DEF CreateProcess
  <2>2. bprio' \in [Uid -> Prios \cup {RECLAIM_PRIORITY_UNKNOWN}]
    <3>1. bprio \in [Uid -> Prios \cup {RECLAIM_PRIORITY_UNKNOWN}]
      BY <1>0 DEF TypeOK
    <3> QED BY <2>1, <3>1
  <2>3. procs' \in [Uid -> SUBSET Pid] /\ (Bundles \cup {u}) \subseteq Bundles'
    <3>1. procs' = [procs EXCEPT ![u] = procs[u] \cup {p}] /\ procs \in [Uid -> SUBSET Pid]
      BY <1>0, <1>1 DEF CreateProcess, TypeOK
    <3> QED BY <3>1 DEF Bundles
  <2>4. young' \subseteq Bundles' /\ waiting' \subseteq Bundles'
    BY <1>0, <1>1, <2>3 DEF CreateProcess, TypeOK
  <2>5. births' \in 0 .. MaxBirths
    BY <1>0, <1>1, BoundsAreNumbers DEF CreateProcess, TypeOK
  <2>6. proc' \in [Pid -> {"gone", "runs", "blocked", "dying", "dead"}]
    BY <1>0, <1>1 DEF CreateProcess, TypeOK
  <2>7. tried' \subseteq Pid /\ joined' \subseteq Uid /\ moved' \subseteq Uid
    BY <1>0, <1>1 DEF CreateProcess, TypeOK
  <2> QED BY <1>0, <1>1, <2>2, <2>3, <2>4, <2>5, <2>6, <2>7
          DEF CreateProcess, lmkVars, TInv, TypeOK, KillerState
<1>2. ASSUME NEW u \in Uid, UpdateReclaimPriority(u) PROVE TInv'
  <2>1. bprio' \in [Uid -> Prios \cup {RECLAIM_PRIORITY_UNKNOWN}]
    BY <1>0, <1>2 DEF UpdateReclaimPriority, TypeOK
  <2>2. Bundles' = Bundles
    BY <1>2 DEF UpdateReclaimPriority, Bundles
  <2> QED BY <1>0, <1>2, <2>1, <2>2 DEF UpdateReclaimPriority, lmkVars, TInv, TypeOK, KillerState
<1>3. ASSUME NEW p \in Pid, HandleTerminateProcess(p) PROVE TInv'
  <2> DEFINE emptied == {v \in Uid : procs[v] = {p}}
  <2>1. /\ proc' = [proc EXCEPT ![p] = "gone"]
        /\ procs' = [v \in Uid |-> procs[v] \ {p}]
        /\ bprio' = [v \in Uid |-> IF v \in emptied THEN RECLAIM_PRIORITY_UNKNOWN ELSE bprio[v]]
        /\ young' = young \ emptied
        /\ waiting' = waiting \ emptied
        /\ UNCHANGED <<levels, buffer, births, lmkVars, history>>
    BY <1>3 DEF HandleTerminateProcess
  <2>2. procs' \in [Uid -> SUBSET Pid] /\ Bundles \ emptied \subseteq Bundles'
    <3>1. procs \in [Uid -> SUBSET Pid]
      BY <1>0 DEF TypeOK
    <3>2. ASSUME NEW v \in Bundles, v \notin emptied PROVE v \in Bundles'
      BY <2>1, <3>1, <3>2 DEF Bundles
    <3> HIDE DEF emptied
    <3> QED BY <2>1, <3>1, <3>2
  <2>3. bprio' \in [Uid -> Prios \cup {RECLAIM_PRIORITY_UNKNOWN}]
    <3>1. bprio \in [Uid -> Prios \cup {RECLAIM_PRIORITY_UNKNOWN}]
      BY <1>0 DEF TypeOK
    <3> HIDE DEF emptied
    <3> QED BY <2>1, <3>1
  <2> HIDE DEF emptied
  <2>4. young' \subseteq Bundles' /\ waiting' \subseteq Bundles'
    BY <1>0, <2>1, <2>2 DEF TypeOK
  <2>5. proc' \in [Pid -> {"gone", "runs", "blocked", "dying", "dead"}]
    BY <1>0, <2>1 DEF TypeOK
  <2> QED BY <1>0, <2>1, <2>2, <2>3, <2>4, <2>5 DEF lmkVars, history, TInv, TypeOK, KillerState
<1> QED BY <1>1, <1>2, <1>3

\* The kernel and the applications keep the types.
LEMMA KernelTInv ==
  ASSUME TInv
  PROVE  /\ \A p \in Pid : Block(p) \/ Exit(p) => TInv'
         /\ ChangeBuffer => TInv'
         /\ \A u \in Uid : Grow(u) => TInv'
<1>0. TypeOK /\ KillerState /\ GoodLevels(levels)
  BY DEF TInv
<1>1. ASSUME NEW p \in Pid, Block(p) \/ Exit(p) PROVE TInv'
  <2>1. proc' \in [Pid -> {"gone", "runs", "blocked", "dying", "dead"}]
    BY <1>0, <1>1 DEF Block, Exit, TypeOK
  <2>2. UNCHANGED <<levels, buffer, tableVars, lmkVars, history>>
    BY <1>1 DEF Block, Exit
  <2> QED BY <1>0, <2>1, <2>2 DEF tableVars, lmkVars, history, TInv, TypeOK, KillerState, Bundles
<1>2. CASE ChangeBuffer
  BY <1>0, <1>2 DEF ChangeBuffer, tableVars, lmkVars, history, TInv, TypeOK, KillerState, Bundles
<1>3. ASSUME NEW u \in Uid, Grow(u) PROVE TInv'
  BY <1>0, <1>3 DEF Grow, lmkVars, history, TInv, TypeOK, KillerState, Bundles
<1> QED BY <1>1, <1>2, <1>3

\* A copy is of a bundle of the table, and none that could have been taken is less important.
LEMMA CopyIsLast ==
  ASSUME TInv, Killable # {}
  PROVE  /\ LastOf(Killable) \in Bundles \ waiting
         /\ \A v \in Bundles \ waiting : bprio[v] <= bprio[LastOf(Killable)]
<1>1. \A u \in Uid : bprio[u] \in Int /\ bprio[u] <= RECLAIM_PRIORITY_MAX
  BY BoundsAreNumbers DEF TInv, TypeOK
<1>2. Killable \subseteq Bundles \ waiting /\ Bundles \subseteq Uid
  BY DEF Killable, Bundles
<1>3. LastOf(Killable) \in Killable /\ \A v \in Killable : bprio[v] <= bprio[LastOf(Killable)]
  <2>1. Killable \subseteq Uid /\ \A u \in Killable : bprio[u] \in Int /\ bprio[u] <= RECLAIM_PRIORITY_MAX
    BY <1>1, <1>2
  <2> QED BY <2>1, LastOfIsLast, BoundsAreNumbers
<1> DEFINE w == LastOf(Killable)
<1>4. bprio[w] >= event.minPrio /\ bprio[w] \in Int /\ event.minPrio \in Int
  <2> HIDE DEF w
  <2>1. w \in Killable
    BY <1>3 DEF w
  <2> QED BY <1>1, <1>2, <2>1 DEF Killable, TInv, TypeOK
<1>5. ASSUME NEW v \in Bundles \ waiting, v \notin Killable PROVE bprio[v] <= bprio[w]
  <2>1. ~(bprio[v] >= event.minPrio) /\ bprio[v] \in Int
    BY <1>1, <1>2, <1>5 DEF Killable
  <2> HIDE DEF w
  <2> QED BY <1>4, <2>1
<1> QED BY <1>2, <1>3, <1>5

\* PsiHandlerInner reads the buffer and its level, and begins or ends.
LEMMA EventTInv ==
  ASSUME TInv, PsiHandlerInner
  PROVE  TInv'
<1> DEFINE curBuf == Unsigned(buffer)
           q == QueryKillMemoryPriorityPair(levels, curBuf)
           need == IF curBuf > 0 /\ q.target > curBuf THEN q.target - curBuf ELSE 0
<1>0. TypeOK /\ KillerState /\ GoodLevels(levels) /\ buffer \in Int
  BY BoundsAreNumbers DEF TInv, TypeOK
<1>1. curBuf \in Nat
  BY <1>0, QueryTypes
<1>2. q.target \in Nat /\ q.killLevel \in 0 .. Cardinality(DOMAIN levels)
  <2> HIDE DEF curBuf
  <2> QED BY <1>1, QueryTypes
<1>3. need \in Nat
  <2> HIDE DEF curBuf, q
  <2> QED BY <1>1, <1>2
<1>4. /\ stage = "idle"
      /\ killLevel' = q.killLevel
      /\ \/ UNCHANGED <<stage, event>>
         \/ /\ stage' = "pick"
            /\ q.minPrio \in RECLAIM_PRIORITY_MIN .. RECLAIM_PRIORITY_MAX
            /\ event' = [curBuf |-> curBuf, minPrio |-> q.minPrio, target |-> q.target, targetKill |-> need]
      /\ UNCHANGED <<levels, buffer, proc, tableVars, currKillKb, killCnt, copy, toKill, freedBuf, history>>
  BY DEF PsiHandlerInner
<1> HIDE DEF curBuf, q, need
<1>5. event'.minPrio \in Int /\ event'.targetKill \in Nat /\ stage' \in {"idle", "pick"}
  <2>1. CASE UNCHANGED <<stage, event>>
    BY <1>0, <1>4, <2>1 DEF TypeOK
  <2>2. CASE ~(UNCHANGED <<stage, event>>)
    BY <1>3, <1>4, <2>2
  <2> QED BY <2>1, <2>2
<1>6. KillerState'
  BY <1>0, <1>4, <1>5, BoundsAreNumbers DEF KillerState
<1> QED BY <1>0, <1>2, <1>4, <1>5, <1>6 DEF tableVars, history, TInv, TypeOK, Bundles

\* GetOneKillableBundle copies the bundle or gives up.
LEMMA PickTInv ==
  ASSUME TInv, GetOneKillableBundle
  PROVE  TInv'
<1> DEFINE u == LastOf(Killable)
<1>0. TypeOK /\ KillerState /\ GoodLevels(levels) /\ stage = "pick"
  BY DEF TInv, GetOneKillableBundle
<1>1. UNCHANGED <<levels, buffer, proc, tableVars, killLevel, tried>>
  BY DEF GetOneKillableBundle
<1>2. CASE Out /\ UNCHANGED <<joined, moved>>
  <2>1. /\ stage' = "idle" /\ killCnt' \in 0 .. MaxKillCnt
        /\ event'.minPrio \in Int /\ event'.targetKill \in Nat /\ currKillKb' \in Nat
        /\ toKill' \subseteq Pid /\ freedBuf' \in Nat
        /\ KillerState'
    BY <1>2, OutTInv, BoundsAreNumbers
  <2> QED BY <1>0, <1>1, <1>2, <2>1 DEF tableVars, TInv, TypeOK, Bundles
<1>3. CASE /\ Killable # {}
           /\ stage' = "kill"
           /\ copy' = [uid |-> u, priority |-> bprio[u]]
           /\ toKill' = procs[u]
           /\ freedBuf' = 0
           /\ joined' = joined \ {u}
           /\ moved' = {}
           /\ UNCHANGED <<event, currKillKb, killCnt>>
  <2>1. u \in Bundles /\ u \in Uid
    BY <1>3, CopyIsLast DEF Bundles
  <2> HIDE DEF u
  <2>2. toKill' \subseteq Pid /\ toKill' # {} /\ copy'.uid \in Uid
    BY <1>0, <1>3, <2>1 DEF TypeOK, Bundles
  <2>3. KillerState'
    BY <1>0, <1>3, <2>2 DEF KillerState
  <2> QED BY <1>0, <1>1, <1>3, <2>2, <2>3 DEF tableVars, TInv, TypeOK, Bundles
<1> QED BY <1>2, <1>3 DEF GetOneKillableBundle

\* KillOneProcessByPid takes the least pid left in the copy.
LEMMA KillTInv ==
  ASSUME TInv, KillOneProcessByPid
  PROVE  TInv'
<1> DEFINE p == Min(toKill)
           freed == IF proc[p] \in {"runs", "dying"} THEN SizeOf[p] ELSE 0
<1>0. TypeOK /\ KillerState /\ GoodLevels(levels) /\ stage = "kill"
  BY DEF TInv, KillOneProcessByPid
<1>1. p \in Pid
  <2>1. toKill \subseteq Pid /\ toKill # {} /\ Pid \subseteq Nat
    BY <1>0, LmkAssumption DEF TypeOK, KillerState
  <2>2. toKill \subseteq Int /\ \A x \in toKill : x >= 0
    BY <2>1
  <2>3. ASSUME NEW b \in Int, \A x \in toKill : x >= b PROVE Min(toKill) \in toKill
    BY <2>1, <2>2, <2>3, MinOfBounded
  <2>4. 0 \in Int /\ Min(toKill) \in toKill
    BY <2>2, <2>3
  <2> QED BY <2>1, <2>4
<1>2. /\ toKill' = toKill \ {p}
      /\ stage' = IF toKill' = {} THEN "mark" ELSE "kill"
      /\ proc' = [proc EXCEPT ![p] = IF proc[p] = "runs" THEN "dying" ELSE proc[p]]
      /\ freedBuf' = freedBuf + freed
      /\ tried' = tried \cup {p}
      /\ UNCHANGED <<levels, buffer, tableVars, event, currKillKb, killCnt, copy, killLevel, joined, moved>>
  BY DEF KillOneProcessByPid, Remaining
<1> HIDE DEF p
<1>3. freed \in Nat
  BY <1>1, LmkAssumption
<1> HIDE DEF freed
<1>4. proc' \in [Pid -> {"gone", "runs", "blocked", "dying", "dead"}]
  BY <1>0, <1>1, <1>2 DEF TypeOK
<1>5. KillerState'
  BY <1>0, <1>2 DEF KillerState
<1>6. freedBuf' \in Nat
  BY <1>0, <1>2, <1>3 DEF TypeOK
<1>7. stage' \in {"mark", "kill"} /\ copy'.uid \in Uid
  BY <1>0, <1>2 DEF TypeOK
<1>8. tried' \subseteq Pid /\ toKill' \subseteq Pid
  BY <1>0, <1>1, <1>2 DEF TypeOK
<1> QED BY <1>0, <1>2, <1>4, <1>5, <1>6, <1>7, <1>8 DEF tableVars, TInv, TypeOK, Bundles

\* SetBundleState marks the bundle with the uid of the copy, if there still is one.
LEMMA MarkTInv ==
  ASSUME TInv, SetBundleState
  PROVE  TInv'
<1>0. TypeOK /\ KillerState /\ GoodLevels(levels) /\ stage = "mark"
  BY DEF TInv, SetBundleState
<1>1. /\ waiting' = Marked(copy.uid)
      /\ UNCHANGED <<levels, buffer, proc, procs, bprio, young, births, killLevel, history>>
  BY DEF SetBundleState
<1>2. Bundles' = Bundles
  BY <1>1 DEF Bundles
<1>3. waiting' \subseteq Bundles'
  BY <1>0, <1>1, <1>2 DEF Marked, TypeOK
<1>4. CASE Out
  <2>1. /\ stage' = "idle" /\ killCnt' \in 0 .. MaxKillCnt
        /\ event'.minPrio \in Int /\ event'.targetKill \in Nat /\ currKillKb' \in Nat
        /\ toKill' \subseteq Pid /\ freedBuf' \in Nat
        /\ KillerState'
    BY <1>4, OutTInv, BoundsAreNumbers
  <2> QED BY <1>0, <1>1, <1>2, <1>3, <2>1 DEF history, TInv, TypeOK
<1>5. CASE /\ stage' = "check"
           /\ currKillKb' = currKillKb + freedBuf
           /\ killCnt' = killCnt + 1
           /\ UNCHANGED <<event, copy, toKill, freedBuf>>
  <2>1. killCnt' \in 0 .. MaxKillCnt /\ currKillKb' \in Nat
    BY <1>0, <1>5, BoundsAreNumbers DEF TypeOK, KillerState
  <2>2. KillerState'
    BY <1>5 DEF KillerState
  <2> QED BY <1>0, <1>1, <1>2, <1>3, <1>5, <2>1, <2>2 DEF history, TInv, TypeOK
<1> QED BY <1>4, <1>5 DEF SetBundleState

\* The buffer is read again, and the loop goes on or ends.
LEMMA CheckTInv ==
  ASSUME TInv, CheckBuffer
  PROVE  TInv'
<1>0. TypeOK /\ KillerState /\ GoodLevels(levels) /\ stage = "check"
  BY DEF TInv, CheckBuffer
<1>1. UNCHANGED <<levels, buffer, proc, tableVars, history>>
  BY DEF CheckBuffer
<1>2. Cardinality(DOMAIN levels) \in Nat
  BY <1>0, FS_CardinalityType DEF GoodLevels
<1>3. CASE Out /\ killLevel' \in {killLevel, 0}
  <2>1. /\ stage' = "idle" /\ killCnt' \in 0 .. MaxKillCnt
        /\ event'.minPrio \in Int /\ event'.targetKill \in Nat /\ currKillKb' \in Nat
        /\ toKill' \subseteq Pid /\ freedBuf' \in Nat
        /\ KillerState'
    BY <1>3, OutTInv, BoundsAreNumbers
  <2> QED BY <1>0, <1>1, <1>2, <1>3, <2>1 DEF tableVars, history, TInv, TypeOK, Bundles
<1>4. CASE /\ GoesOn
           /\ stage' = "pick"
           /\ UNCHANGED <<event, currKillKb, killCnt, copy, toKill, freedBuf, killLevel>>
  <2>1. KillerState'
    BY <1>4 DEF KillerState, GoesOn
  <2> QED BY <1>0, <1>1, <1>4, <2>1 DEF tableVars, history, TInv, TypeOK, Bundles
<1> QED BY <1>3, <1>4 DEF CheckBuffer

\* Every step keeps the types.
LEMMA NextTInv == TInv /\ [Next]_vars => TInv'
<1> SUFFICES ASSUME TInv, [Next]_vars PROVE TInv'
  OBVIOUS
<1>1. CASE UNCHANGED vars
  BY <1>1 DEF vars, tableVars, lmkVars, history, TInv, TypeOK, KillerState, Bundles
<1> QED BY <1>1, TableTInv, KernelTInv, EventTInv, PickTInv, KillTInv, MarkTInv, CheckTInv
        DEF Next, KillerStep

\* Type correctness; in particular an event never kills more than MAX_KILL_CNT_PER_EVENT
\* bundles, and what it still has to free never becomes negative.
THEOREM TypeCorrect == Spec => []TypeOK
<1>1. Spec => []TInv
  BY InitTInv, NextTInv, PTL DEF Spec
<1>2. TInv => TypeOK
  BY DEF TInv
<1> QED BY <1>1, <1>2, PTL

\* Whatever the XML says, less memory never makes the killer spare more: ParseConfig throws
\* away a map whose priorities do not rise, and QueryKillMemoryPriorityPair takes the first
\* level above the buffer.
THEOREM WaterlinesMonotone == Spec => []LevelsMonotone
<1>1. Spec => []TInv
  BY InitTInv, NextTInv, PTL DEF Spec
<1>2. TInv => LevelsMonotone
  <2> SUFFICES ASSUME TInv PROVE LevelsMonotone
    OBVIOUS
  <2>1. GoodLevels(levels) /\ DOMAIN levels \cup {0} \subseteq Int
    BY DEF TInv, GoodLevels
  <2>2. ASSUME NEW a \in DOMAIN levels \cup {0}, NEW b \in DOMAIN levels \cup {0}, a <= b
        PROVE  Killed(b) \subseteq Killed(a)
    BY <2>1, <2>2, QueryMonotone
  <2> QED BY <2>2 DEF LevelsMonotone
<1> QED BY <1>1, <1>2, PTL

-----------------------------------------------------------------------------
(* What the killer's copy is worth while the table changes.                *)

\* Until another process joins the bundle, every process it has was tried or is still on
\* the killer's copy.
CopyCovers ==
  stage \in {"kill", "mark"} /\ copy.uid \notin joined => procs[copy.uid] \subseteq tried \cup toKill

SInv == LeastImportantFirst /\ WaitingMeansTried /\ CopyCovers

\* Nothing is killed or waited for at the start.
LEMMA InitSInv == Init => SInv
BY DEF Init, SInv, LeastImportantFirst, WaitingMeansTried, CopyCovers

\* The steps of the priority manager, while the killer works from its copy.
LEMMA TableSInv ==
  ASSUME TInv, SInv
  PROVE  /\ \A u \in Uid, p \in Pid : CreateProcess(u, p) => SInv'
         /\ \A u \in Uid : UpdateReclaimPriority(u) => SInv'
         /\ \A p \in Pid : HandleTerminateProcess(p) => SInv'
<1>0. TypeOK
  BY DEF TInv
<1>1. ASSUME NEW u \in Uid, NEW p \in Pid, CreateProcess(u, p) PROVE SInv'
  <2>1. /\ \A v \in Uid : p \notin procs[v]
        /\ procs' = [procs EXCEPT ![u] = procs[u] \cup {p}]
        /\ \A v \in Uid \ {u} : bprio'[v] = bprio[v]
        /\ tried' = tried \ {p}
        /\ joined' = joined \cup {u}
        /\ moved' = moved \cup {u}
        /\ waiting' = waiting /\ stage' = stage /\ copy' = copy /\ toKill' = toKill
    BY <1>0, <1>1 DEF CreateProcess, lmkVars, TypeOK
  <2>2. \A v \in Uid \ {u} : procs'[v] = procs[v]
    BY <1>0, <2>1 DEF TypeOK
  <2>3. LeastImportantFirst'
    <3> SUFFICES ASSUME stage \in {"kill", "mark"},
                        NEW v \in Bundles', v \notin waiting, v \notin moved, v # u, v # copy.uid
                 PROVE  bprio'[v] <= copy.priority
      BY <2>1 DEF LeastImportantFirst
    <3>1. v \in Uid /\ v \in Bundles
      BY <2>2 DEF Bundles
    <3> QED BY <2>1, <3>1 DEF SInv, LeastImportantFirst
  <2>4. WaitingMeansTried'
    <3> SUFFICES ASSUME NEW v \in waiting, v \notin joined, v # u PROVE procs'[v] \subseteq tried \ {p}
      BY <2>1 DEF WaitingMeansTried
    <3>1. v \in Uid
      BY <1>0 DEF TypeOK, Bundles
    <3> QED BY <2>1, <2>2, <3>1 DEF SInv, WaitingMeansTried
  <2>5. CopyCovers'
    <3> SUFFICES ASSUME stage \in {"kill", "mark"}, copy.uid \notin joined, copy.uid # u
                 PROVE  procs'[copy.uid] \subseteq (tried \ {p}) \cup toKill
      BY <2>1 DEF CopyCovers
    <3>1. copy.uid \in Uid
      BY <1>0 DEF TypeOK
    <3> QED BY <2>1, <2>2, <3>1 DEF SInv, CopyCovers
  <2> QED BY <2>3, <2>4, <2>5 DEF SInv
<1>2. ASSUME NEW u \in Uid, UpdateReclaimPriority(u) PROVE SInv'
  <2>1. /\ \A v \in Uid \ {u} : bprio'[v] = bprio[v]
        /\ moved' = moved \cup {u}
        /\ UNCHANGED <<procs, waiting, tried, joined, stage, copy, toKill>>
    BY <1>0, <1>2 DEF UpdateReclaimPriority, lmkVars, TypeOK
  <2>2. LeastImportantFirst'
    BY <2>1 DEF SInv, LeastImportantFirst, Bundles
  <2>3. WaitingMeansTried' /\ CopyCovers'
    BY <2>1 DEF SInv, WaitingMeansTried, CopyCovers
  <2> QED BY <2>2, <2>3 DEF SInv
<1>3. ASSUME NEW p \in Pid, HandleTerminateProcess(p) PROVE SInv'
  <2> DEFINE emptied == {v \in Uid : procs[v] = {p}}
  <2>1. /\ procs' = [v \in Uid |-> procs[v] \ {p}]
        /\ bprio' = [v \in Uid |-> IF v \in emptied THEN RECLAIM_PRIORITY_UNKNOWN ELSE bprio[v]]
        /\ waiting' = waiting \ emptied
        /\ UNCHANGED <<tried, joined, moved, stage, copy, toKill>>
    BY <1>3 DEF HandleTerminateProcess, lmkVars, history
  <2>2. ASSUME NEW v \in Bundles' PROVE v \in Bundles /\ v \notin emptied /\ bprio'[v] = bprio[v]
    BY <2>1, <2>2 DEF Bundles
  <2> HIDE DEF emptied
  <2>3. LeastImportantFirst'
    BY <2>1, <2>2 DEF SInv, LeastImportantFirst
  <2>4. WaitingMeansTried'
    <3> SUFFICES ASSUME NEW v \in waiting, v \notin joined PROVE procs'[v] \subseteq tried
      BY <2>1 DEF WaitingMeansTried
    <3>1. v \in Uid
      BY <1>0 DEF TypeOK, Bundles
    <3> QED BY <2>1, <3>1 DEF SInv, WaitingMeansTried
  <2>5. CopyCovers'
    <3> SUFFICES ASSUME stage \in {"kill", "mark"}, copy.uid \notin joined
                 PROVE  procs'[copy.uid] \subseteq tried \cup toKill
      BY <2>1 DEF CopyCovers
    <3>1. copy.uid \in Uid
      BY <1>0 DEF TypeOK
    <3> QED BY <2>1, <3>1 DEF SInv, CopyCovers
  <2> QED BY <2>3, <2>4, <2>5 DEF SInv
<1> QED BY <1>1, <1>2, <1>3

\* The steps of the killer.
LEMMA KillerSInv ==
  ASSUME TInv, SInv, PsiHandlerInner \/ KillerStep
  PROVE  SInv'
<1>0. TypeOK /\ KillerState
  BY DEF TInv
<1>1. CASE PsiHandlerInner
  <2>1. stage' \in {"idle", "pick"} /\ UNCHANGED <<procs, waiting, joined, tried>>
    BY <1>1 DEF PsiHandlerInner, tableVars, history
  <2> QED BY <2>1 DEF SInv, LeastImportantFirst, WaitingMeansTried, CopyCovers
<1>2. CASE GetOneKillableBundle
  <2> DEFINE u == LastOf(Killable)
  <2>1. UNCHANGED <<procs, bprio, waiting, tried>>
    BY <1>2 DEF GetOneKillableBundle, tableVars
  <2>2. CASE Out /\ UNCHANGED <<joined, moved>>
    BY <2>1, <2>2 DEF Out, SInv, LeastImportantFirst, WaitingMeansTried, CopyCovers
  <2>3. CASE /\ Killable # {}
             /\ stage' = "kill"
             /\ copy' = [uid |-> u, priority |-> bprio[u]]
             /\ toKill' = procs[u]
             /\ joined' = joined \ {u}
             /\ moved' = {}
    <3>1. u \in Bundles \ waiting /\ \A v \in Bundles \ waiting : bprio[v] <= bprio[u]
      BY <2>3, CopyIsLast
    <3> HIDE DEF u
    <3>2. Bundles' = Bundles /\ copy'.uid = u /\ copy'.priority = bprio[u]
      BY <2>1, <2>3 DEF Bundles
    <3>3. LeastImportantFirst'
      BY <2>1, <2>3, <3>1, <3>2 DEF LeastImportantFirst
    <3>4. WaitingMeansTried'
      BY <2>1, <2>3, <3>1 DEF SInv, WaitingMeansTried
    <3>5. CopyCovers'
      BY <2>1, <2>3, <3>2 DEF CopyCovers
    <3> QED BY <3>3, <3>4, <3>5 DEF SInv
  <2> QED BY <1>2, <2>2, <2>3 DEF GetOneKillableBundle
<1>3. CASE KillOneProcessByPid
  <2> DEFINE p == Min(toKill)
  <2>1. /\ stage = "kill" /\ stage' \in {"mark", "kill"}
        /\ toKill' = toKill \ {p} /\ tried' = tried \cup {p}
        /\ UNCHANGED <<procs, bprio, waiting, copy, joined, moved>>
    BY <1>3 DEF KillOneProcessByPid, Remaining, tableVars
  <2> HIDE DEF p
  <2>2. LeastImportantFirst'
    BY <2>1 DEF SInv, LeastImportantFirst, Bundles
  <2>3. WaitingMeansTried' /\ CopyCovers'
    BY <2>1 DEF SInv, WaitingMeansTried, CopyCovers
  <2> QED BY <2>2, <2>3 DEF SInv
<1>4. CASE SetBundleState
  <2>1. /\ stage = "mark" /\ stage' \in {"idle", "check"}
        /\ waiting' \subseteq waiting \cup {copy.uid}
        /\ UNCHANGED <<procs, joined, tried>>
    BY <1>4 DEF SetBundleState, Marked, Out, history
  <2>2. copy.uid \notin joined => procs[copy.uid] \subseteq tried
    BY <1>0, <2>1 DEF SInv, CopyCovers, KillerState
  <2> QED BY <2>1, <2>2 DEF SInv, LeastImportantFirst, WaitingMeansTried, CopyCovers
<1>5. CASE CheckBuffer
  <2>1. stage' \in {"idle", "pick"} /\ UNCHANGED <<procs, waiting, joined, tried>>
    BY <1>5 DEF CheckBuffer, Out, tableVars, history
  <2> QED BY <2>1 DEF SInv, LeastImportantFirst, WaitingMeansTried, CopyCovers
<1> QED BY <1>1, <1>2, <1>3, <1>4, <1>5 DEF KillerStep

\* Every step keeps the order of killing.
LEMMA NextSInv == TInv /\ SInv /\ [Next]_vars => SInv'
<1> SUFFICES ASSUME TInv, SInv, [Next]_vars PROVE SInv'
  OBVIOUS
<1>1. ASSUME UNCHANGED <<procs, bprio, waiting, lmkVars, history>> PROVE SInv'
  BY <1>1 DEF lmkVars, history, SInv, LeastImportantFirst, WaitingMeansTried, CopyCovers, Bundles
<1>2. ASSUME NEW p \in Pid, Block(p) \/ Exit(p) PROVE SInv'
  BY <1>1, <1>2 DEF Block, Exit, tableVars
<1>3. ASSUME NEW u \in Uid, Grow(u) PROVE SInv'
  BY <1>1, <1>3 DEF Grow
<1>4. CASE ChangeBuffer
  BY <1>1, <1>4 DEF ChangeBuffer, tableVars
<1>5. CASE UNCHANGED vars
  BY <1>1, <1>5 DEF vars, tableVars
<1> QED BY <1>2, <1>3, <1>4, <1>5, TableSInv, KillerSInv DEF Next

\* The copy is made under the lock, the signals are sent after it: still, whatever the
\* priority manager does meanwhile, every bundle whose place in the list the killer knew is
\* at least as important as the one it is killing, or waits for its death already.
THEOREM KillsLeastImportant == Spec => []LeastImportantFirst
<1>1. Spec => [](TInv /\ SInv)
  BY InitTInv, NextTInv, InitSInv, NextSInv, PTL DEF Spec
<1>2. SInv => LeastImportantFirst
  BY DEF SInv
<1> QED BY <1>1, <1>2, PTL

\* SetBundleState looks the bundle up again by its uid, after the signals: a bundle that is
\* skipped from then on has no process the killer did not try, unless one joined it behind
\* the killer's back.
THEOREM WaitingWereTried == Spec => []WaitingMeansTried
<1>1. Spec => [](TInv /\ SInv)
  BY InitTInv, NextTInv, InitSInv, NextSInv, PTL DEF Spec
<1>2. SInv => WaitingMeansTried
  BY DEF SInv
<1> QED BY <1>1, <1>2, PTL
=============================================================================
