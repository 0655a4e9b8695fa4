----------------------- MODULE ReclaimPriority_proofs -----------------------
(***************************************************************************)
(* Proofs about ReclaimPriority, for every set of processes and bundles.   *)
(* First the typing and what every step keeps (IInv); then the kernel's    *)
(* scores, the system apps, the bind graph, the flags and the clients.     *)
(***************************************************************************)
EXTENDS ReclaimPriority, WellFoundedInduction, TLAPS

-----------------------------------------------------------------------------
(* The least element of a set of priorities.                               *)

\* A non-empty set of priorities has a least element, and Min is it.
LEMMA MinPriority ==
  ASSUME NEW S, S \subseteq Int, S # {}, \A x \in S : x >= RECLAIM_PRIORITY_MIN
  PROVE  Min(S) \in S /\ \A x \in S : Min(S) <= x
<1> DEFINE T == {x + 1000 : x \in S}
<1>1. T \subseteq Nat /\ T # {}
  <2>1. \A x \in S : x + 1000 \in Nat
    BY DEF RECLAIM_PRIORITY_MIN
  <2>2. PICK x \in S : TRUE
    OBVIOUS
  <2>3. x + 1000 \in T
    BY <2>2
  <2> QED BY <2>1, <2>3
<1>2. PICK n \in T : \A m \in T : ~(<<m, n>> \in OpToRel(<, Nat))
  BY <1>1, NatLessThanWellFounded, WFMin
<1>3. \A m \in T : n <= m
  <2> SUFFICES ASSUME NEW m \in T, ~(n <= m) PROVE FALSE
    OBVIOUS
  <2>1. m \in Nat /\ n \in Nat /\ m < n
    BY <1>1
  <2>2. <<m, n>> \in OpToRel(<, Nat)
    BY <2>1 DEF OpToRel
  <2> QED BY <2>2, <1>2
<1>4. \E x \in S : \A y \in S : x =< y
  <2>1. PICK x \in S : n = x + 1000
    OBVIOUS
  <2>2. ASSUME NEW y \in S PROVE x <= y
    <3>1. y + 1000 \in T
      OBVIOUS
    <3>2. x + 1000 <= y + 1000
      <4> HIDE DEF T
      <4> QED BY <1>3, <2>1, <3>1
    <3>3. x \in Int /\ y \in Int
      OBVIOUS
    <3> HIDE DEF T
    <3> QED BY <3>2, <3>3
  <2> QED BY <2>2
<1> QED BY <1>4 DEF Min

-----------------------------------------------------------------------------
(* What the operators of the model return.                                 *)

\* Priorities are integers, and none is below the most important one.
LEMMA PriorityRange ==
  Priority \subseteq Int /\ \A x \in Priority : x >= RECLAIM_PRIORITY_MIN /\ x <= 1000
BY DEF Priority, RECLAIM_PRIORITY_MIN, RECLAIM_PRIORITY_MAX

\* What is at least as important as a system process is not FOREGROUND or below.
LEMMA SystemIsNotForeground ==
  ASSUME NEW a \in Priority, NEW b \in Priority, a <= b, b <= RECLAIM_PRIORITY_KILLABLE_SYSTEM
  PROVE  ~(a >= RECLAIM_PRIORITY_FOREGROUND) /\ ~(b >= RECLAIM_PRIORITY_FOREGROUND)
<1>1. a \in Int /\ b \in Int
  BY PriorityRange
<1> QED BY <1>1 DEF RECLAIM_PRIORITY_FOREGROUND, RECLAIM_PRIORITY_KILLABLE_SYSTEM

\* Each level is a priority, and so is the lesser of two.
LEMMA LevelTypes ==
  /\ \A a, b \in Priority : Least(a, b) \in Priority
  /\ RECLAIM_PRIORITY_BACKGROUND \in Priority
  /\ RECLAIM_PRIORITY_FOREGROUND \in Priority
  /\ RECLAIM_PRIORITY_UNKNOWN \in Priority
  /\ RECLAIM_PRIORITY_VISIBLE \in Priority
  /\ RECLAIM_PRIORITY_SUSPEND \in Priority
  /\ RECLAIM_PRIORITY_KILLABLE_SYSTEM \in Priority
  /\ \A st : TaskLevel(st) \in Priority /\ VisibleLevel(st) \in Priority
  /\ \A p \in Pid : ImportantLevel(p) \in Priority
<1>1. \A a, b \in Priority : Least(a, b) \in Priority
  BY DEF Least
<1>2. /\ RECLAIM_PRIORITY_BACKGROUND \in Priority
      /\ RECLAIM_PRIORITY_FOREGROUND \in Priority
      /\ RECLAIM_PRIORITY_UNKNOWN \in Priority
      /\ RECLAIM_PRIORITY_VISIBLE \in Priority
      /\ RECLAIM_PRIORITY_SUSPEND \in Priority
      /\ RECLAIM_PRIORITY_KILLABLE_SYSTEM \in Priority
      /\ RECLAIM_PRIORITY_BG_SUSPEND_DELAY \in Priority
      /\ RECLAIM_PRIORITY_BG_PERCEIVED \in Priority
      /\ RECLAIM_PRIORITY_BG_DIST_DEVICE \in Priority
  BY DEF Priority, RECLAIM_PRIORITY_MIN, RECLAIM_PRIORITY_MAX, RECLAIM_PRIORITY_FOREGROUND,
         RECLAIM_PRIORITY_BACKGROUND, RECLAIM_PRIORITY_VISIBLE,
         RECLAIM_PRIORITY_BG_SUSPEND_DELAY, RECLAIM_PRIORITY_BG_PERCEIVED,
         RECLAIM_PRIORITY_BG_DIST_DEVICE, RECLAIM_PRIORITY_SUSPEND,
         RECLAIM_PRIORITY_KILLABLE_SYSTEM, RECLAIM_PRIORITY_UNKNOWN
<1>3. ASSUME NEW st PROVE TaskLevel(st) \in Priority
  <2>1. CASE "suspendDelay" \in st
    BY <1>2, <2>1 DEF TaskLevel
  <2>2. CASE "suspendDelay" \notin st /\ {"bgRunning", "event"} \cap st # {}
    BY <1>2, <2>2 DEF TaskLevel
  <2>3. CASE {"suspendDelay", "bgRunning", "event"} \cap st = {} /\ "dist" \in st
    BY <1>2, <2>3 DEF TaskLevel
  <2>4. CASE {"suspendDelay", "bgRunning", "event"} \cap st = {} /\ "dist" \notin st
    BY <1>2, <2>4 DEF TaskLevel
  <2> QED BY <2>1, <2>2, <2>3, <2>4
<1>4. \A st : VisibleLevel(st) \in Priority
  BY <1>2 DEF VisibleLevel
<1>5. \A p \in Pid : ImportantLevel(p) \in Priority
  BY <1>2, ConstantsAssumption DEF ImportantLevel
<1> QED BY <1>1, <1>2, <1>3, <1>4, <1>5

\* The priority a status gives lies in the range of priorities.
LEMMA PriorityByStatusType ==
  ASSUME NEW p \in Pid, NEW old \in Priority, NEW st
  PROVE  /\ BaseLevel(old, st) \in Priority
         /\ Capped(p, old, st) \in Priority
         /\ PriorityByStatus(p, old, st) \in Priority
<1>1. BaseLevel(old, st) \in Priority
  BY LevelTypes DEF BaseLevel
<1>2. \A x \in Priority : Capped(p, x, st) \in Priority
  BY LevelTypes DEF Capped
<1> QED BY <1>1, <1>2 DEF PriorityByStatus

\* So does the priority of an extension seen as an app.
LEMMA PriorityAsAppType ==
  ASSUME NEW p \in Pid, NEW old \in Priority, NEW st
  PROVE  GetPriorityByProcStatus(p, old, st) \in Priority
BY LevelTypes, ConstantsAssumption DEF GetPriorityByProcStatus

\* A bundle's priority is in range and covers every process of the bundle.
LEMMA BundlePriorityFacts ==
  ASSUME NEW u, NEW kn \in SUBSET Pid, NEW pr \in [Pid -> Priority]
  PROVE  /\ BundlePriority(u, kn, pr) \in Priority
         /\ \A p \in kn : UidOf[p] = u => BundlePriority(u, kn, pr) <= pr[p]
<1> DEFINE S == {RECLAIM_PRIORITY_UNKNOWN} \cup {pr[p] : p \in ProcsOf(u, kn)}
<1>1. S \subseteq Priority /\ S # {}
  BY DEF ProcsOf, Priority, RECLAIM_PRIORITY_UNKNOWN, RECLAIM_PRIORITY_MIN, RECLAIM_PRIORITY_MAX
<1>2. Priority \subseteq Int /\ \A x \in Priority : x >= RECLAIM_PRIORITY_MIN
  BY PriorityRange
<1>3. Min(S) \in S /\ \A x \in S : Min(S) <= x
  <2> HIDE DEF S
  <2> QED BY <1>1, <1>2, MinPriority
<1>4. \A p \in kn : UidOf[p] = u => pr[p] \in S
  BY DEF ProcsOf
<1>5. BundlePriority(u, kn, pr) = IF Min(S) <= RECLAIM_PRIORITY_MIN THEN RECLAIM_PRIORITY_MIN
                                  ELSE Min(S)
  BY DEF BundlePriority
<1> HIDE DEF S
<1>6. Min(S) \in Priority
  BY <1>1, <1>3
<1> QED BY <1>2, <1>3, <1>4, <1>5, <1>6
        DEF Priority, RECLAIM_PRIORITY_MIN, RECLAIM_PRIORITY_MAX

\* It depends on the bundle's own processes only.
LEMMA BundlePriorityLocal ==
  ASSUME NEW u, NEW kn, NEW pr, NEW new, \A p \in kn : UidOf[p] = u => new[p] = pr[p]
  PROVE  BundlePriority(u, kn, new) = BundlePriority(u, kn, pr)
<1>1. {new[p] : p \in ProcsOf(u, kn)} = {pr[p] : p \in ProcsOf(u, kn)}
  BY DEF ProcsOf
<1> QED BY <1>1 DEF BundlePriority

\* UpdateBundlePriority changes one bundle and files it under its new priority.
LEMMA UpdateBundleFacts ==
  ASSUME TypeOK, NEW u \in Uid, UpdateBundlePriority(u),
         known' \in SUBSET Pid, prio' \in [Pid -> Priority]
  PROVE  /\ bprio' \in [Uid -> Priority]
         /\ \A v \in Uid : v # u => bprio'[v] = bprio[v]
         /\ \A p \in known' : UidOf[p] = u => bprio'[u] <= prio'[p]
         /\ bprio'[u] = BundlePriority(u, known', prio')
         /\ ~overtaken' => prioSet' = (prioSet \ {<<bprio[u], u>>}) \cup {<<bprio'[u], u>>}
         /\ prioSet' \in SUBSET (Priority \X Uid)
<1> DEFINE np == BundlePriority(u, known', prio')
<1>1. np \in Priority /\ \A p \in known' : UidOf[p] = u => np <= prio'[p]
  BY BundlePriorityFacts
<1>2. /\ bprio' = [bprio EXCEPT ![u] = np]
      /\ prioSet' = IF overtaken' THEN {} ELSE (prioSet \ {<<bprio[u], u>>}) \cup {<<np, u>>}
  BY DEF UpdateBundlePriority, Listed
<1> HIDE DEF np
<1>3. bprio' \in [Uid -> Priority] /\ bprio'[u] = np /\ \A v \in Uid : v # u => bprio'[v] = bprio[v]
  BY <1>1, <1>2 DEF TypeOK
<1>4. prioSet' \in SUBSET (Priority \X Uid)
  <2>1. <<np, u>> \in Priority \X Uid
    BY <1>1
  <2> QED BY <1>2, <2>1 DEF TypeOK
<1> QED BY <1>1, <1>2, <1>3, <1>4 DEF np

\* The sorted set stays the image of the bundle table.
LEMMA ListAfterUpdate ==
  ASSUME TypeOK, NEW u \in Uid, NEW hand,
         prioSet \subseteq {<<bprio[v], v>> : v \in bundles},
         \A v \in bundles \ hand : <<bprio[v], v>> \in prioSet,
         bprio' \in [Uid -> Priority], \A v \in Uid : v # u => bprio'[v] = bprio[v],
         prioSet' = (prioSet \ {<<bprio[u], u>>}) \cup {<<bprio'[u], u>>},
         bundles' = bundles \cup {u}
  PROVE  /\ prioSet' \subseteq {<<bprio'[v], v>> : v \in bundles'}
         /\ \A v \in bundles' \ hand : <<bprio'[v], v>> \in prioSet'
<1>1. prioSet' \subseteq {<<bprio'[v], v>> : v \in bundles'}
  BY DEF TypeOK
<1>2. ASSUME NEW v \in bundles' \ hand PROVE <<bprio'[v], v>> \in prioSet'
  <2>1. CASE v = u
    BY <2>1
  <2>2. CASE v # u
    <3>1. v \in bundles \ hand /\ v \in Uid
      BY <2>2 DEF TypeOK
    <3> QED BY <2>2, <3>1
  <2> QED BY <2>1, <2>2
<1> QED BY <1>1, <1>2

-----------------------------------------------------------------------------
(* The inductive invariant.                                                *)

\* The stages in which the unlocked handler has a process's record in hand.
OwnStages       == {"cap", "min", "file"}
ExtensionStages == {"extMin", "extFile"}

\* The handler's locals exist exactly while it runs; it writes late, and has a record
\* in hand, only when it runs without the lock.
JobInv ==
  /\ stage = "idle" => dirty = {} /\ todo = {} /\ pending = {} /\ ~locked
  /\ stage # "idle" => \E u \in Uid : dirty = {u}
  /\ locked => pending = {}
  /\ stage = "write" => todo = {} /\ ~locked
  /\ stage \in OwnStages => todo = {} /\ \E p \in Pid : target = {p} /\ dirty = {UidOf[p]}
  /\ stage \in ExtensionStages => \E p \in Pid : target = {p}
  /\ stage \in OwnStages \cup ExtensionStages => pending = {} /\ ~locked
  /\ stage \notin OwnStages \cup ExtensionStages => target = {}
  /\ stage \notin {"cap", "file", "extFile"} => minimum = RECLAIM_PRIORITY_UNKNOWN

\* A bundle that is not in hand covers its processes.  One that was filed with a
\* minimum read before an ability start does not cover the starting process, but then
\* it is not above FOREGROUND: it is refiled when the start ends.
CoverInv ==
  \A p \in known : UidOf[p] \notin InHand =>
    \/ bprio[UidOf[p]] <= prio[p]
    \/ p \in starting /\ bprio[UidOf[p]] >= RECLAIM_PRIORITY_FOREGROUND

\* The same of the minimum that the bundle in hand is about to get.
MinimumInv ==
  stage \in {"file", "extFile"} =>
    \A p \in known : UidOf[p] \in InHand =>
      \/ minimum <= prio[p]
      \/ p \in starting /\ minimum >= RECLAIM_PRIORITY_FOREGROUND

\* A bundle in hand that is in the set although the handler has erased it was filed by
\* an ability start.  It has the priority that the handler is going to file it with.
FileInv ==
  \A u \in InHand : ~overtaken /\ <<bprio[u], u>> \in prioSet =>
    /\ stage \in {"min", "extMin"} => bprio[u] = BundlePriority(u, known, prio)
    /\ stage \in {"file", "extFile"} => bprio[u] = minimum

\* While BMS answers, the bundle in hand is no system bundle.
TargetInv ==
  \A p \in target : BmsMayFail \/ UidOf[p] \notin KeepAlive \cup XmlKillable

\* The level that is still to be capped is that of the flags, and the process has it
\* unless an ability start has given it another one.
CapInv ==
  stage = "cap" => \A p \in target \cap known :
    /\ minimum = BaseLevel(minimum, status[p])
    /\ p \in starting \/ prio[p] = minimum

\* What holds of the record that the unlocked handler has in hand.
HandInv == MinimumInv /\ FileInv /\ TargetInv /\ CapInv

\* Flags belong to known processes only, and no render process is known.
RecordInv ==
  /\ known \cap Render = {}
  /\ starting \subseteq known
  /\ \A p \in Pid \ known : status[p] = {}

\* What is queued for re-prioritisation is an extension, or gone by now.
TodoInv == \A e \in todo : e[2] \in known => "extension" \in status[e[2]]

\* The kernel has a process's priority, or a write of it is on its way.
KernelInv ==
  /\ \A p \in known \ starting :
       life[p] = "live" /\ (stage = "write" \/ UidOf[p] \notin dirty) /\ p \notin target
         => oom[p] = prio[p] \/ <<p, prio[p]>> \in pending
  /\ \A w \in pending : w[1] \in known \ starting => w[2] = prio[w[1]]

\* While BMS answers, a process of a system bundle is never anything else.
SystemInv ==
  /\ XmlKillable \subseteq killList
  /\ \A p \in known :
       UidOf[p] \in KeepAlive \cup XmlKillable /\ ~BmsMayFail
         => /\ prio[p] <= RECLAIM_PRIORITY_KILLABLE_SYSTEM
            /\ "extension" \notin status[p]
            /\ p \notin starting

IInv ==
  /\ TypeOK
  /\ ListMatchesTable
  /\ CoverInv
  /\ StartHasTimer
  /\ JobInv
  /\ HandInv
  /\ RecordInv
  /\ TodoInv
  /\ KernelInv
  /\ SystemInv

\* Nothing is to be said when no record is in hand.
LEMMA EmptyHand == target' = {} => HandInv'
BY DEF HandInv, MinimumInv, FileInv, TargetInv, CapInv, InHand

\* The initial state satisfies the invariant.
LEMMA InitInv == Init => IInv
<1> SUFFICES ASSUME Init PROVE IInv
  OBVIOUS
<1>1. TypeOK
  BY LevelTypes, ConstantsAssumption DEF Init, TypeOK, Life
<1>2. ListMatchesTable /\ CoverInv /\ StartHasTimer
  BY DEF Init, ListMatchesTable, CoverInv, StartHasTimer
<1>3. JobInv /\ RecordInv /\ TodoInv /\ KernelInv /\ SystemInv
  BY DEF Init, JobInv, RecordInv, TodoInv, KernelInv, SystemInv, OwnStages, ExtensionStages
<1>4. HandInv
  BY DEF Init, HandInv, MinimumInv, FileInv, TargetInv, CapInv, InHand
<1> QED BY <1>1, <1>2, <1>3, <1>4 DEF IInv

\* Between handlers, and in a handler that holds the lock, no record is in hand.
LEMMA IdleHand ==
  ASSUME IInv, stage \notin OwnStages \cup ExtensionStages
  PROVE  target = {} /\ InHand = {} /\ minimum = RECLAIM_PRIORITY_UNKNOWN
BY DEF IInv, JobInv, InHand, OwnStages, ExtensionStages

\* A step that changes none of it keeps what holds of the table and the handler.
LEMMA TableUntouched ==
  ASSUME IInv, UNCHANGED <<known, prio, status, starting, bundleVars, jobVars>>
  PROVE  ListMatchesTable' /\ CoverInv' /\ HandInv' /\ JobInv' /\ TodoInv'
<1> USE DEF bundleVars, jobVars
<1>1. InHand' = InHand
  BY DEF InHand
<1>2. ListMatchesTable' /\ CoverInv'
  BY <1>1 DEF IInv, ListMatchesTable, CoverInv
<1>3. JobInv' /\ TodoInv'
  BY DEF IInv, JobInv, TodoInv, OwnStages, ExtensionStages
<1>4. MinimumInv' /\ FileInv' /\ TargetInv' /\ CapInv'
  BY <1>1 DEF IInv, HandInv, MinimumInv, FileInv, TargetInv, CapInv
<1> QED BY <1>2, <1>3, <1>4 DEF HandInv

-----------------------------------------------------------------------------
(* What the fragments of the handlers do to the table.                     *)

\* After an UpdateBundlePriority the list matches the table and the bundle
\* covers its processes, if only the bundle's own processes have changed.
LEMMA TableAfterUpdate ==
  ASSUME TypeOK, ListMatchesTable, CoverInv,
         NEW u \in Uid, UpdateBundlePriority(u),
         known' \in SUBSET Pid, prio' \in [Pid -> Priority],
         \A q \in known' : UidOf[q] # u => /\ q \in known /\ prio'[q] = prio[q]
                                           /\ q \in starting => q \in starting',
         bundles' = bundles \cup {u}, bundles' = {UidOf[q] : q \in known'},
         \A v \in bundles' : AccountOf[v] \in accounts',
         overtaken => overtaken', target' = target
  PROVE  /\ bprio' \in [Uid -> Priority]
         /\ prioSet' \in SUBSET (Priority \X Uid)
         /\ ListMatchesTable'
         /\ CoverInv'
<1>1. /\ bprio' \in [Uid -> Priority]
      /\ \A v \in Uid : v # u => bprio'[v] = bprio[v]
      /\ \A p \in known' : UidOf[p] = u => bprio'[u] <= prio'[p]
      /\ ~overtaken' => prioSet' = (prioSet \ {<<bprio[u], u>>}) \cup {<<bprio'[u], u>>}
      /\ prioSet' \in SUBSET (Priority \X Uid)
  BY UpdateBundleFacts
<1>2. InHand' = InHand
  BY DEF InHand
<1>3. ASSUME ~overtaken'
      PROVE  /\ prioSet' \subseteq {<<bprio'[v], v>> : v \in bundles'}
             /\ \A v \in bundles' \ InHand : <<bprio'[v], v>> \in prioSet'
  <2>1. /\ prioSet \subseteq {<<bprio[v], v>> : v \in bundles}
        /\ \A v \in bundles \ InHand : <<bprio[v], v>> \in prioSet
    BY <1>3 DEF ListMatchesTable
  <2> QED BY <1>1, <1>3, <2>1, ListAfterUpdate
<1>4. ListMatchesTable'
  BY <1>2, <1>3 DEF ListMatchesTable
<1>5. CoverInv'
  <2> SUFFICES ASSUME NEW p \in known', UidOf[p] \notin InHand'
               PROVE  \/ bprio'[UidOf[p]] <= prio'[p]
                      \/ p \in starting' /\ bprio'[UidOf[p]] >= RECLAIM_PRIORITY_FOREGROUND
    BY DEF CoverInv
  <2>1. UidOf[p] \in Uid
    BY ConstantsAssumption
  <2>2. CASE UidOf[p] = u
    BY <1>1, <2>2
  <2>3. CASE UidOf[p] # u
    BY <1>1, <1>2, <2>1, <2>3 DEF CoverInv
  <2> QED BY <2>2, <2>3
<1> QED BY <1>1, <1>4, <1>5

\* The sort key of an extension is a priority.
LEMMA SortKeyType ==
  ASSUME NEW q \in Pid, prio' \in [Pid -> Priority], toMe' \in [Pid -> SUBSET Pid]
  PROVE  CalculateExtensionProcPrio(q) \in Priority
<1> DEFINE missing == toMe'[q] \ known'
           counted == IF missing = {} THEN toMe'[q]
                      ELSE {c \in toMe'[q] : \A m \in missing : m < c}
           first == IF missing = {} THEN RECLAIM_PRIORITY_BACKGROUND ELSE 0
           S == {first} \cup {prio'[c] : c \in counted}
<1>1. counted \subseteq Pid
  OBVIOUS
<1>2. first \in Priority
  BY LevelTypes DEF RECLAIM_PRIORITY_FOREGROUND
<1>3. CalculateExtensionProcPrio(q) = Min(S)
  BY DEF CalculateExtensionProcPrio
<1> HIDE DEF counted, first
<1>4. S \subseteq Priority /\ S # {}
  BY <1>1, <1>2
<1>5. Priority \subseteq Int /\ \A x \in Priority : x >= RECLAIM_PRIORITY_MIN
  BY PriorityRange
<1> HIDE DEF S
<1>6. Min(S) \in S
  BY <1>4, <1>5, MinPriority
<1> QED BY <1>3, <1>4, <1>6

\* The priority an extension inherits from its clients is between 0 and 400.
LEMMA ConnectorPriorityRange ==
  ASSUME TypeOK, NEW q \in Pid
  PROVE  ConnectorPriority(q) \in 0 .. 400
<1>1. CASE ~(toMe[q] \subseteq known)
  BY <1>1 DEF ConnectorPriority
<1>2. CASE toMe[q] \subseteq known
  <2> DEFINE S == {RECLAIM_PRIORITY_BACKGROUND}
                    \cup {IF prio[c] < 0 THEN 0 ELSE prio[c] : c \in toMe[q]}
  <2>1. ASSUME NEW c \in toMe[q] PROVE (IF prio[c] < 0 THEN 0 ELSE prio[c]) \in Nat
    <3>1. prio[c] \in Priority
      BY DEF TypeOK
    <3>2. prio[c] \in Int
      BY <3>1, PriorityRange
    <3> QED BY <3>2
  <2>2. S \subseteq Nat
    BY <2>1 DEF RECLAIM_PRIORITY_BACKGROUND
  <2>3. 400 \in S
    BY DEF RECLAIM_PRIORITY_BACKGROUND
  <2>4. ConnectorPriority(q) = Min(S)
    BY <1>2 DEF ConnectorPriority
  <2> HIDE DEF S
  <2>5. S \subseteq Int /\ S # {} /\ \A x \in S : x >= RECLAIM_PRIORITY_MIN
    BY <2>2, <2>3 DEF RECLAIM_PRIORITY_MIN
  <2>6. Min(S) \in S /\ \A x \in S : Min(S) <= x
    BY <2>5, MinPriority
  <2>7. Min(S) \in Nat /\ Min(S) <= 400
    BY <2>2, <2>3, <2>6
  <2> QED BY <2>4, <2>7
<1> QED BY <1>1, <1>2

\* So the priority given to an extension is a priority.
LEMMA ExtensionPriorityType ==
  ASSUME TypeOK, NEW q \in Pid
  PROVE  ExtensionPriority(q) \in Priority
<1>1. GetPriorityByProcStatus(q, prio[q], status[q]) \in Priority
  BY PriorityAsAppType DEF TypeOK
<1>2. ConnectorPriority(q) + 100 \in Priority
  BY ConnectorPriorityRange DEF Priority, RECLAIM_PRIORITY_MIN, RECLAIM_PRIORITY_MAX
<1>3. ImportantPrio[q] \in Priority
  BY ConstantsAssumption
<1> QED BY <1>1, <1>2, <1>3, LevelTypes DEF ExtensionPriority

\* UpdatePriorityByProcForExtension queues extensions only.
LEMMA ForExtension ==
  ASSUME NEW p, UpdatePriorityByProcForExtension(p),
         prio' \in [Pid -> Priority], toMe' \in [Pid -> SUBSET Pid]
  PROVE  /\ stage' \in {"set", "hang"}
         /\ todo' \in SUBSET (Priority \X Pid)
         /\ \A e \in todo' : "extension" \in status'[e[2]]
<1>1. CASE WalkLoops(p, known', status', fromMe')
  BY <1>1 DEF UpdatePriorityByProcForExtension
<1>2. CASE ~WalkLoops(p, known', status', fromMe')
  <2> DEFINE E == ConnectedExtensions(p, known', status', fromMe')
  <2>1. stage' = "set" /\ todo' = {<<CalculateExtensionProcPrio(q), q>> : q \in E}
    BY <1>2 DEF UpdatePriorityByProcForExtension
  <2>2. E \subseteq Pid /\ \A q \in E : "extension" \in status'[q]
    BY DEF ConnectedExtensions, Reached
  <2>3. \A q \in Pid : CalculateExtensionProcPrio(q) \in Priority
    BY SortKeyType
  <2> HIDE DEF E
  <2> QED BY <2>1, <2>2, <2>3
<1> QED BY <1>1, <1>2

\* UpdatePriorityByProcStatus changes the priority of one process, and none of
\* a bundle that is more important than FOREGROUND; it queues extensions only.
LEMMA StatusUpdate ==
  ASSUME IInv, target = {}, NEW p \in known, UpdatePriorityByProcStatus(p),
         UNCHANGED <<known, bundles, accounts, overtaken, target>>,
         starting' \in {starting, starting \ {p}},
         toMe' \in [Pid -> SUBSET Pid]
  PROVE  /\ prio' \in [Pid -> Priority]
         /\ \A q \in Pid : q # p => prio'[q] = prio[q]
         /\ prio' # prio => bprio[UidOf[p]] >= RECLAIM_PRIORITY_FOREGROUND
         /\ bprio' \in [Uid -> Priority]
         /\ prioSet' \in SUBSET (Priority \X Uid)
         /\ ListMatchesTable'
         /\ CoverInv'
         /\ stage' \in {"set", "hang"}
         /\ todo' \in SUBSET (Priority \X Pid)
         /\ \A e \in todo' : "extension" \in status'[e[2]]
<1> DEFINE u == UidOf[p]
<1>1. p \in Pid /\ u \in Uid /\ u \in bundles /\ InHand = {} /\ InHand' = {}
  BY ConstantsAssumption DEF IInv, TypeOK, ListMatchesTable, InHand
<1>2. CASE /\ bprio[u] < RECLAIM_PRIORITY_FOREGROUND
           /\ UNCHANGED <<prio, bprio, prioSet>>
           /\ NothingToPropagate
  <2>1. ListMatchesTable'
    BY <1>1, <1>2 DEF IInv, ListMatchesTable
  <2>2. CoverInv'
    <3> SUFFICES ASSUME NEW q \in known
                 PROVE  \/ bprio[UidOf[q]] <= prio[q]
                        \/ q \in starting' /\ bprio[UidOf[q]] >= RECLAIM_PRIORITY_FOREGROUND
      BY <1>2 DEF CoverInv
    <3>1. \/ bprio[UidOf[q]] <= prio[q]
          \/ q \in starting /\ bprio[UidOf[q]] >= RECLAIM_PRIORITY_FOREGROUND
      BY <1>1 DEF IInv, CoverInv
    <3>2. CASE q # p
      BY <3>1, <3>2
    <3>3. CASE q = p
      <4>1. bprio[u] \in Int
        BY <1>1, PriorityRange DEF IInv, TypeOK
      <4>2. ~(bprio[u] >= RECLAIM_PRIORITY_FOREGROUND)
        BY <1>2, <4>1 DEF RECLAIM_PRIORITY_FOREGROUND
      <4> QED BY <3>1, <3>3, <4>2
    <3> QED BY <3>2, <3>3
  <2> QED BY <1>2, <2>1, <2>2 DEF IInv, TypeOK, NothingToPropagate
<1>3. CASE /\ bprio[u] >= RECLAIM_PRIORITY_FOREGROUND
           /\ prio' = [prio EXCEPT ![p] = PriorityByStatus(p, prio[p], status'[p])]
           /\ UpdateBundlePriority(u)
           /\ UpdatePriorityByProcForExtension(p)
  <2>1. PriorityByStatus(p, prio[p], status'[p]) \in Priority
    BY <1>1, PriorityByStatusType DEF IInv, TypeOK
  <2>2. prio' \in [Pid -> Priority] /\ \A q \in Pid : q # p => prio'[q] = prio[q]
    BY <1>1, <1>3, <2>1 DEF IInv, TypeOK
  <2>3. /\ bprio' \in [Uid -> Priority]
        /\ prioSet' \in SUBSET (Priority \X Uid)
        /\ ListMatchesTable'
        /\ CoverInv'
    <3>1. known' \in SUBSET Pid
      BY DEF IInv, TypeOK
    <3>2. \A q \in known' : UidOf[q] # u => /\ q \in known /\ prio'[q] = prio[q]
                                            /\ q \in starting => q \in starting'
      BY <3>1, <2>2
    <3>3. bundles' = bundles \cup {u} /\ bundles' = {UidOf[q] : q \in known'}
      BY <1>1 DEF IInv, ListMatchesTable
    <3>4. \A v \in bundles' : AccountOf[v] \in accounts'
      BY DEF IInv, ListMatchesTable
    <3> QED BY <1>1, <1>3, <2>2, <3>1, <3>2, <3>3, <3>4, TableAfterUpdate DEF IInv
  <2>4. /\ stage' \in {"set", "hang"}
        /\ todo' \in SUBSET (Priority \X Pid)
        /\ \A e \in todo' : "extension" \in status'[e[2]]
    BY <1>3, <2>2, ForExtension
  <2> QED BY <1>3, <2>2, <2>3, <2>4
<1> QED BY <1>2, <1>3 DEF UpdatePriorityByProcStatus

\* The first step of a handler that re-prioritises process p: the kernel has
\* yet to hear of p's bundle, everything else is in order.
LEMMA HandlerBegins ==
  ASSUME IInv, NEW p \in known, NEW holdsLock \in BOOLEAN, Idle, Begin(UidOf[p], holdsLock),
         \/ UpdatePriorityByProcStatus(p)
         \/ NothingToPropagate /\ UNCHANGED <<prio, bprio, prioSet, starting>>,
         UNCHANGED <<life, oom, known, bundles, accounts, overtaken>>,
         status' \in [Pid -> SUBSET Flag],
         \A q \in Pid : q # p => status'[q] = status[q],
         "extension" \in status'[p] =>
           \/ "extension" \in status[p]
           \/ BmsMayFail
           \/ UidOf[p] \notin KeepAlive \cup XmlKillable,
         toMe' \in [Pid -> SUBSET Pid], fromMe' \in [Pid -> SUBSET Pid],
         starting' \in {starting, starting \ {p}},
         startTimer' \in SUBSET Pid, starting' \subseteq startTimer',
         createCheck' \in SUBSET Pid,
         killList' \in SUBSET Uid, killList \subseteq killList'
  PROVE  IInv'
<1> DEFINE u == UidOf[p]
<1>1. p \in Pid /\ u \in Uid
  BY ConstantsAssumption DEF IInv, TypeOK
<1>2. /\ target = {} /\ InHand = {} /\ minimum = RECLAIM_PRIORITY_UNKNOWN
      /\ target' = {} /\ InHand' = {} /\ minimum' = RECLAIM_PRIORITY_UNKNOWN
  BY IdleHand DEF Idle, Begin, InHand, OwnStages, ExtensionStages
<1>3. /\ prio' \in [Pid -> Priority]
      /\ \A q \in Pid : q # p => prio'[q] = prio[q]
      /\ prio' # prio => bprio[u] >= RECLAIM_PRIORITY_FOREGROUND
      /\ bprio' \in [Uid -> Priority]
      /\ prioSet' \in SUBSET (Priority \X Uid)
      /\ ListMatchesTable'
      /\ CoverInv'
      /\ stage' \in {"set", "hang"}
      /\ todo' \in SUBSET (Priority \X Pid)
      /\ \A e \in todo' : "extension" \in status'[e[2]]
  <2>1. CASE UpdatePriorityByProcStatus(p)
    BY <1>2, <2>1, StatusUpdate
  <2>2. CASE NothingToPropagate /\ UNCHANGED <<prio, bprio, prioSet, starting>>
    <3>1. ListMatchesTable' /\ CoverInv'
      BY <1>2, <2>2 DEF IInv, ListMatchesTable, CoverInv
    <3> QED BY <2>2, <3>1 DEF NothingToPropagate, IInv, TypeOK
  <2> QED BY <2>1, <2>2
<1>4. dirty' = {u} /\ locked' = holdsLock /\ pending' = {} /\ dirty = {}
  BY DEF Idle, Begin, IInv, JobInv
<1>5. TypeOK'
  BY <1>1, <1>2, <1>3, <1>4, LevelTypes DEF IInv, TypeOK
<1>6. StartHasTimer' /\ TodoInv'
  BY <1>3 DEF StartHasTimer, TodoInv
<1>7. JobInv'
  BY <1>1, <1>2, <1>3, <1>4 DEF JobInv, OwnStages, ExtensionStages
<1>8. RecordInv'
  BY <1>1 DEF IInv, RecordInv
<1>9. KernelInv'
  <2>1. ASSUME NEW q \in known' \ starting', life'[q] = "live",
               stage' = "write" \/ UidOf[q] \notin dirty'
        PROVE  oom'[q] = prio'[q]
    <3>1. q \in Pid /\ q # p /\ q \in known \ starting
      BY <1>3, <1>4, <2>1 DEF IInv, TypeOK
    <3>2. oom[q] = prio[q]
      BY <1>2, <1>4, <2>1, <3>1 DEF IInv, KernelInv, JobInv, Idle
    <3> QED BY <1>3, <3>1, <3>2
  <2> QED BY <1>4, <2>1 DEF KernelInv
<1>10. SystemInv'
  <2>1. XmlKillable \subseteq killList'
    BY DEF IInv, SystemInv
  <2>2. ASSUME NEW q \in known', UidOf[q] \in KeepAlive \cup XmlKillable, ~BmsMayFail
        PROVE  /\ prio'[q] <= RECLAIM_PRIORITY_KILLABLE_SYSTEM
               /\ "extension" \notin status'[q]
               /\ q \notin starting'
    <3>1. /\ q \in Pid
          /\ prio[q] <= RECLAIM_PRIORITY_KILLABLE_SYSTEM
          /\ "extension" \notin status[q]
          /\ q \notin starting /\ q \notin starting'
      BY <2>2 DEF IInv, TypeOK, SystemInv
    <3>2. CASE q # p
      BY <1>3, <3>1, <3>2
    <3>3. CASE q = p
      <4>1. bprio[u] \in Priority /\ prio[p] \in Priority /\ bprio[u] <= prio[p]
        BY <1>1, <1>2, <3>1, <3>3 DEF IInv, TypeOK, CoverInv
      <4>2. prio[p] <= RECLAIM_PRIORITY_KILLABLE_SYSTEM
        BY <3>1, <3>3
      <4>3. ~(bprio[u] >= RECLAIM_PRIORITY_FOREGROUND)
        BY <4>1, <4>2, SystemIsNotForeground
      <4> QED BY <1>3, <2>2, <3>1, <3>3, <4>3
    <3> QED BY <3>2, <3>3
  <2> QED BY <2>1, <2>2 DEF SystemInv
<1>11. HandInv'
  BY <1>2, EmptyHand
<1> QED BY <1>3, <1>5, <1>6, <1>7, <1>8, <1>9, <1>10, <1>11 DEF IInv

-----------------------------------------------------------------------------
(* Each action preserves the invariant.                                    *)

\* The kernel starts or ends a process: no table changes.
LEMMA EnvironmentStep ==
  ASSUME IInv, NEW p \in Pid, Spawn(p) \/ Exit(p)
  PROVE  IInv'
<1>1. /\ life' \in [Pid -> Life] /\ oom' \in [Pid -> Priority]
      /\ \A q \in Pid : life'[q] = "live" => q # p /\ life[q] = "live" /\ oom'[q] = oom[q]
  BY LevelTypes DEF IInv, TypeOK, Spawn, Exit, Life, Alive
<1>2. UNCHANGED <<procVars, bundleVars, killList, timerVars, jobVars>>
  BY DEF Spawn, Exit
<1> USE <1>2 DEF procVars, bundleVars, timerVars, jobVars
<1>3. TypeOK'
  BY <1>1 DEF IInv, TypeOK
<1>4. ListMatchesTable' /\ CoverInv' /\ HandInv' /\ JobInv' /\ TodoInv'
  BY TableUntouched
<1>5. StartHasTimer' /\ RecordInv' /\ SystemInv'
  BY DEF IInv, StartHasTimer, RecordInv, SystemInv
<1>6. KernelInv'
  BY <1>1 DEF IInv, TypeOK, KernelInv
<1> QED BY <1>3, <1>4, <1>5, <1>6 DEF IInv

\* A render process gets no record: only the kernel hears of it.
LEMMA RenderStep ==
  ASSUME IInv, NEW p \in Pid, HandleCreateRender(p)
  PROVE  IInv'
<1>1. /\ life' \in [Pid -> Life] /\ oom' \in [Pid -> Priority]
      /\ \A q \in Pid : q # p => life'[q] = life[q] /\ oom'[q] = oom[q]
  BY LevelTypes DEF IInv, TypeOK, HandleCreateRender, CreatedLife, Life
<1>2. p \notin known /\ UNCHANGED <<procVars, bundleVars, killList, timerVars, jobVars>>
  BY DEF HandleCreateRender, IInv, RecordInv
<1> USE <1>2 DEF procVars, bundleVars, timerVars, jobVars
<1>3. TypeOK'
  BY <1>1 DEF IInv, TypeOK
<1>4. ListMatchesTable' /\ CoverInv' /\ HandInv' /\ JobInv' /\ TodoInv'
  BY TableUntouched
<1>5. StartHasTimer' /\ RecordInv' /\ SystemInv'
  BY DEF IInv, StartHasTimer, RecordInv, SystemInv
<1>6. KernelInv'
  BY <1>1 DEF IInv, TypeOK, KernelInv
<1> QED BY <1>3, <1>4, <1>5, <1>6 DEF IInv

\* The four handlers that re-prioritise a process begin.
LEMMA UpdateProcessStep ==
  ASSUME IInv, NEW p \in Pid, NEW r \in DOMAIN ChangeProc, NEW before \in BOOLEAN,
         HandleUpdateProcess(p, r, before)
  PROVE  IInv'
<1>1. p \in known /\ Idle /\ Begin(UidOf[p], TRUE)
  BY DEF HandleUpdateProcess
<1>2. /\ ChangeProc[r].on \subseteq Flag \ {"extension"}
      /\ status' = [status EXCEPT ![p] = (@ \cup ChangeProc[r].on) \ ChangeProc[r].off]
  BY DEF HandleUpdateProcess, ChangeProc, Flag
<1>3. /\ status' \in [Pid -> SUBSET Flag]
      /\ \A q \in Pid : q # p => status'[q] = status[q]
      /\ "extension" \in status'[p] => "extension" \in status[p]
  BY <1>2 DEF IInv, TypeOK
<1>4. /\ starting' \in {starting, starting \ {p}}
      /\ startTimer' \in SUBSET Pid
      /\ starting' \subseteq startTimer'
  BY DEF HandleUpdateProcess, IInv, TypeOK, StartHasTimer
<1>5. /\ UNCHANGED <<life, oom, known, toMe, fromMe, bundles, accounts, overtaken, killList,
                     createCheck>>
      /\ \/ UpdatePriorityByProcStatus(p)
         \/ NothingToPropagate /\ UNCHANGED <<prio, bprio, prioSet, starting>>
  BY DEF HandleUpdateProcess
<1>6. /\ toMe' \in [Pid -> SUBSET Pid] /\ fromMe' \in [Pid -> SUBSET Pid]
      /\ createCheck' \in SUBSET Pid /\ killList' \in SUBSET Uid /\ killList \subseteq killList'
  BY <1>5 DEF IInv, TypeOK
<1> QED BY <1>1, <1>3, <1>4, <1>5, <1>6, HandlerBegins

\* The ability-start timer ends the start and re-prioritises, or does nothing.
LEMMA StartTimerStep ==
  ASSUME IInv, NEW p \in Pid, CheckAbilityStartCompleted(p)
  PROVE  IInv'
<1>1. /\ UNCHANGED <<life, oom, known, status, toMe, fromMe, bundles, accounts, overtaken,
                     killList, createCheck>>
      /\ Idle
      /\ startTimer' = startTimer \ {p}
  BY DEF CheckAbilityStartCompleted
<1>2. CASE p \notin known \cap starting /\ UNCHANGED <<starting, prio, bprio, prioSet, jobVars>>
  <2> USE <1>1, <1>2 DEF jobVars, bundleVars
  <2>1. p \notin starting
    BY DEF IInv, RecordInv
  <2>2. TypeOK' /\ StartHasTimer'
    BY <2>1 DEF IInv, TypeOK, StartHasTimer
  <2>3. ListMatchesTable' /\ CoverInv' /\ HandInv' /\ JobInv' /\ TodoInv'
    BY TableUntouched
  <2>4. RecordInv' /\ SystemInv' /\ KernelInv'
    BY DEF IInv, RecordInv, SystemInv, KernelInv
  <2> QED BY <2>2, <2>3, <2>4 DEF IInv
<1>3. CASE /\ p \in known \cap starting
           /\ starting' = starting \ {p}
           /\ UpdatePriorityByProcStatus(p)
           /\ Begin(UidOf[p], TRUE)
  <2>1. /\ status' \in [Pid -> SUBSET Flag]
        /\ toMe' \in [Pid -> SUBSET Pid] /\ fromMe' \in [Pid -> SUBSET Pid]
        /\ createCheck' \in SUBSET Pid /\ killList' \in SUBSET Uid /\ killList \subseteq killList'
        /\ startTimer' \in SUBSET Pid /\ starting' \subseteq startTimer'
    BY <1>1, <1>3 DEF IInv, TypeOK, StartHasTimer
  <2> QED BY <1>1, <1>3, <2>1, HandlerBegins
<1> QED BY <1>2, <1>3 DEF CheckAbilityStartCompleted

\* The unlocked handler sets the level of process p before the caps, and has it in hand.
BaseStep(p) ==
  /\ Idle
  /\ p \in known
  /\ createCheck' = createCheck \ {p}
  /\ bprio[UidOf[p]] >= RECLAIM_PRIORITY_FOREGROUND
  /\ prio' = [prio EXCEPT ![p] = BaseLevel(prio[p], status[p])]
  /\ stage' = "cap"
  /\ target' = {p}
  /\ minimum' = prio'[p]
  /\ dirty' = {UidOf[p]}
  /\ locked' = FALSE
  /\ UNCHANGED <<life, oom, known, status, starting, toMe, fromMe, bundleVars, killList,
                 startTimer, todo, pending>>

\* That step.
LEMMA BaseStepInv ==
  ASSUME IInv, NEW p \in Pid, BaseStep(p)
  PROVE  IInv'
<1> DEFINE u == UidOf[p]
<1> USE DEF BaseStep, bundleVars
<1>1. /\ u \in Uid /\ p \in known /\ stage = "idle" /\ dirty = {} /\ todo = {} /\ pending = {}
      /\ target = {} /\ InHand = {} /\ InHand' = {u}
  BY IdleHand, ConstantsAssumption DEF Idle, IInv, JobInv, InHand, OwnStages, ExtensionStages
<1>2. BaseLevel(prio[p], status[p]) \in Priority
  BY PriorityByStatusType DEF IInv, TypeOK
<1>3. /\ prio' \in [Pid -> Priority] /\ minimum' = BaseLevel(prio[p], status[p])
      /\ prio'[p] = minimum' /\ \A q \in Pid : q # p => prio'[q] = prio[q]
  BY <1>2 DEF IInv, TypeOK
<1>4. TypeOK'
  BY <1>1, <1>2, <1>3 DEF IInv, TypeOK
<1>5. StartHasTimer' /\ RecordInv' /\ TodoInv'
  BY DEF IInv, StartHasTimer, RecordInv, TodoInv
<1>6. ListMatchesTable'
  BY <1>1 DEF IInv, ListMatchesTable
<1>7. CoverInv'
  <2>1. \A q \in known : UidOf[q] # u => q \in Pid /\ prio'[q] = prio[q]
    BY <1>3 DEF IInv, TypeOK
  <2> QED BY <1>1, <2>1 DEF IInv, CoverInv
<1>8. JobInv'
  BY <1>1 DEF JobInv, OwnStages, ExtensionStages
<1>9. BmsMayFail \/ u \notin KeepAlive \cup XmlKillable
  <2> SUFFICES ASSUME ~BmsMayFail, u \in KeepAlive \cup XmlKillable PROVE FALSE
    OBVIOUS
  <2>1. prio[p] <= RECLAIM_PRIORITY_KILLABLE_SYSTEM /\ p \notin starting
    BY <1>1 DEF IInv, SystemInv
  <2>2. bprio[u] \in Priority /\ prio[p] \in Priority /\ bprio[u] <= prio[p]
    BY <1>1, <2>1 DEF IInv, TypeOK, CoverInv
  <2> QED BY <2>1, <2>2, SystemIsNotForeground
<1>10. HandInv'
  <2>1. minimum' = BaseLevel(minimum', status[p])
    <3>1. prio[p] \in Int
      BY <1>1, PriorityRange DEF IInv, TypeOK
    <3> QED BY <1>3, <3>1 DEF BaseLevel, Least, RECLAIM_PRIORITY_FOREGROUND
  <2>2. MinimumInv' /\ FileInv'
    BY DEF MinimumInv, FileInv
  <2>3. TargetInv' /\ CapInv'
    BY <1>3, <1>9, <2>1 DEF TargetInv, CapInv
  <2> QED BY <2>2, <2>3 DEF HandInv
<1>11. KernelInv'
  BY <1>1, <1>3 DEF IInv, TypeOK, KernelInv
<1>12. SystemInv'
  <2>1. \A q \in known : UidOf[q] # u => q \in Pid /\ prio'[q] = prio[q]
    BY <1>3 DEF IInv, TypeOK
  <2> QED BY <1>9, <2>1 DEF IInv, SystemInv
<1> QED BY <1>4, <1>5, <1>6, <1>7, <1>8, <1>10, <1>11, <1>12 DEF IInv

\* The check 15 s after a creation begins to re-prioritise without the lock, or there is
\* nothing to do.
LEMMA CreateCheckStep ==
  ASSUME IInv, NEW p \in Pid, CheckCreateProcPriorityDelay(p)
  PROVE  IInv'
<1>1. /\ UNCHANGED <<life, oom, known, status, starting, toMe, fromMe, bundleVars,
                     killList, startTimer>>
      /\ Idle
      /\ createCheck' = createCheck \ {p}
  BY DEF CheckCreateProcPriorityDelay
<1>2. CASE UNCHANGED <<prio, jobVars>>
  <2> USE <1>1, <1>2 DEF jobVars, bundleVars
  <2>1. TypeOK' /\ StartHasTimer'
    BY DEF IInv, TypeOK, StartHasTimer
  <2>2. ListMatchesTable' /\ CoverInv' /\ HandInv' /\ JobInv' /\ TodoInv'
    BY TableUntouched
  <2>3. RecordInv' /\ SystemInv' /\ KernelInv'
    BY DEF IInv, RecordInv, SystemInv, KernelInv
  <2> QED BY <2>1, <2>2, <2>3 DEF IInv
<1>3. CASE /\ p \in known
           /\ UNCHANGED prio
           /\ NothingToPropagate
           /\ Begin(UidOf[p], FALSE)
  <2>1. /\ status' \in [Pid -> SUBSET Flag]
        /\ toMe' \in [Pid -> SUBSET Pid] /\ fromMe' \in [Pid -> SUBSET Pid]
        /\ createCheck' \in SUBSET Pid /\ killList' \in SUBSET Uid /\ killList \subseteq killList'
        /\ startTimer' \in SUBSET Pid /\ starting' \subseteq startTimer'
    BY <1>1 DEF IInv, TypeOK, StartHasTimer
  <2>2. UNCHANGED <<bundles, accounts, overtaken, bprio, prioSet>>
    BY <1>1 DEF bundleVars
  <2> QED BY <1>1, <1>3, <2>1, <2>2, HandlerBegins
<1>4. CASE /\ p \in known
           /\ bprio[UidOf[p]] >= RECLAIM_PRIORITY_FOREGROUND
           /\ prio' = [prio EXCEPT ![p] = BaseLevel(prio[p], status[p])]
           /\ stage' = "cap"
           /\ target' = {p}
           /\ minimum' = prio'[p]
           /\ dirty' = {UidOf[p]}
           /\ locked' = FALSE
           /\ UNCHANGED <<todo, pending>>
  BY <1>1, <1>4, BaseStepInv DEF BaseStep
<1> QED BY <1>2, <1>3, <1>4 DEF CheckCreateProcPriorityDelay

\* A (dis)connection flags the extension only if it is not a system app.
LEMMA ExtensionStep ==
  ASSUME IInv, NEW c \in Pid, NEW t \in Pid, NEW bind \in BOOLEAN, NEW before \in BOOLEAN,
         HandleExtensionProcess(c, t, bind, before)
  PROVE  IInv'
<1> DEFINE u == UidOf[t]
           system == \/ prio[t] <= RECLAIM_PRIORITY_KILLABLE_SYSTEM
                     \/ IsSystemBundle(u)
           answers == IF t \notin known \/ system THEN {TRUE} ELSE IsKillableSystemApp(u)
<1>1. /\ UNCHANGED <<life, oom, known, starting, bundles, accounts, overtaken, timerVars>>
      /\ Idle
      /\ UpdateExtensionStatusForCaller(c, t, bind)
  BY DEF HandleExtensionProcess
<1>2. PICK skip \in answers :
        /\ killList' = IF skip /\ t \in known /\ ~system THEN killList \cup {u} ELSE killList
        /\ \/ /\ skip
              /\ UNCHANGED <<prio, status, toMe, bprio, prioSet, jobVars>>
           \/ /\ ~skip
              /\ UpdateExtensionStatusForTarget(c, t, bind, before)
  BY DEF HandleExtensionProcess
<1>3. fromMe' \in [Pid -> SUBSET Pid]
  BY <1>1 DEF UpdateExtensionStatusForCaller, IInv, TypeOK
<1>4. killList' \in SUBSET Uid /\ killList \subseteq killList'
  BY <1>2, ConstantsAssumption DEF IInv, TypeOK
<1>5. CASE UNCHANGED <<prio, status, toMe, bprio, prioSet, jobVars>>
  <2> USE <1>1, <1>5 DEF jobVars, timerVars, bundleVars
  <2>1. TypeOK' /\ StartHasTimer'
    BY <1>3, <1>4 DEF IInv, TypeOK, StartHasTimer
  <2>2. ListMatchesTable' /\ CoverInv' /\ HandInv' /\ JobInv' /\ TodoInv'
    BY TableUntouched
  <2>3. RecordInv' /\ SystemInv' /\ KernelInv'
    BY <1>4 DEF IInv, RecordInv, SystemInv, KernelInv
  <2> QED BY <2>1, <2>2, <2>3 DEF IInv
<1>6. CASE ~skip /\ UpdateExtensionStatusForTarget(c, t, bind, before)
  <2>1. t \in known /\ FALSE \in IsKillableSystemApp(u)
    <3>1. skip # TRUE
      BY <1>6
    <3>2. t \in known /\ ~system /\ skip \in IsKillableSystemApp(u)
      BY <1>2, <3>1
    <3>3. IsKillableSystemApp(u) \subseteq {TRUE, FALSE}
      BY DEF IsKillableSystemApp
    <3>4. skip = FALSE
      BY <3>1, <3>2, <3>3
    <3> QED BY <3>2, <3>4
  <2>2. BmsMayFail \/ u \notin KeepAlive \cup XmlKillable
    BY <2>1 DEF IsKillableSystemApp, IInv, SystemInv
  <2>3. /\ status' \in [Pid -> SUBSET Flag]
        /\ \A q \in Pid : q # t => status'[q] = status[q]
        /\ toMe' \in [Pid -> SUBSET Pid]
    BY <1>6 DEF UpdateExtensionStatusForTarget, IInv, TypeOK, Flag
  <2>4. /\ Begin(u, TRUE)
        /\ \/ UpdatePriorityByProcStatus(t)
           \/ NothingToPropagate /\ UNCHANGED <<prio, bprio, prioSet, starting>>
    BY <1>1, <1>6 DEF UpdateExtensionStatusForTarget
  <2>5. /\ starting' \in {starting, starting \ {t}}
        /\ startTimer' \in SUBSET Pid /\ starting' \subseteq startTimer'
        /\ createCheck' \in SUBSET Pid
    BY <1>1 DEF timerVars, IInv, TypeOK, StartHasTimer
  <2> HIDE DEF u
  <2> QED BY <1>1, <1>3, <1>4, <2>1, <2>2, <2>3, <2>4, <2>5, HandlerBegins DEF u
<1> QED BY <1>2, <1>5, <1>6

\* What the unlocked handler has in hand stays in order when an ability start comes in
\* between, also if it starts in the bundle in hand.
LEMMA HandAfterStart ==
  ASSUME IInv, NEW p \in known, HandleAbilityStart(p),
         prio' \in [Pid -> Priority], \A q \in Pid : q # p => prio'[q] = prio[q]
  PROVE  HandInv'
<1> DEFINE u == UidOf[p]
<1>1. /\ prio' = [prio EXCEPT ![p] = RECLAIM_PRIORITY_FOREGROUND]
      /\ starting' = starting \cup {p}
      /\ overtaken' = (overtaken \/ Overtakes(u))
      /\ UpdateBundlePriority(u)
      /\ UNCHANGED <<known, status, stage, target, minimum>>
  BY DEF HandleAbilityStart, jobVars
<1>a. /\ TypeOK /\ target \in SUBSET Pid /\ known \in SUBSET Pid /\ minimum \in Priority
      /\ prio \in [Pid -> Priority]
  BY DEF IInv, TypeOK
<1>2. InHand' = InHand /\ InHand \subseteq Uid
  <2>1. \A q \in target : UidOf[q] \in Uid
    BY <1>a, ConstantsAssumption
  <2> QED BY <1>1, <2>1 DEF InHand
<1>3. /\ p \in Pid /\ u \in Uid /\ prio'[p] = 0 /\ minimum \in Int
      /\ known' \in SUBSET Pid
  <2>1. p \in Pid /\ known' \in SUBSET Pid
    BY <1>1, <1>a
  <2>2. u \in Uid
    BY <2>1, ConstantsAssumption
  <2>3. prio'[p] = RECLAIM_PRIORITY_FOREGROUND
    BY <1>1, <1>a, <2>1
  <2>4. minimum \in Int
    BY <1>a, PriorityRange
  <2> QED BY <2>1, <2>2, <2>3, <2>4 DEF RECLAIM_PRIORITY_FOREGROUND
<1>4. /\ \A v \in Uid : v # u => bprio'[v] = bprio[v]
      /\ bprio'[u] = BundlePriority(u, known', prio')
      /\ ~overtaken' => prioSet' = (prioSet \ {<<bprio[u], u>>}) \cup {<<bprio'[u], u>>}
  BY <1>1, <1>3, <1>a, UpdateBundleFacts
<1>5. MinimumInv'
  <2> SUFFICES ASSUME stage \in {"file", "extFile"}, NEW q \in known, UidOf[q] \in InHand
               PROVE  \/ minimum <= prio'[q]
                      \/ q \in starting' /\ minimum >= RECLAIM_PRIORITY_FOREGROUND
    BY <1>1, <1>2 DEF MinimumInv
  <2>1. CASE q = p
    BY <1>1, <1>3, <2>1 DEF RECLAIM_PRIORITY_FOREGROUND
  <2>2. CASE q # p
    <3>1. prio'[q] = prio[q]
      BY <2>2 DEF IInv, TypeOK
    <3> QED BY <1>1, <3>1 DEF IInv, HandInv, MinimumInv
  <2> QED BY <2>1, <2>2
<1>6. FileInv'
  <2> SUFFICES ASSUME NEW v \in InHand, ~overtaken', <<bprio'[v], v>> \in prioSet'
               PROVE  /\ stage \in {"min", "extMin"} => bprio'[v] = BundlePriority(v, known', prio')
                      /\ stage \in {"file", "extFile"} => bprio'[v] = minimum
    BY <1>1, <1>2 DEF FileInv
  <2>1. CASE v = u
    <3>1. ~overtaken /\ ~Overtakes(u)
      BY <1>1
    <3>2. bprio'[u] = BundlePriority(u, known', prio')
      BY <1>4
    <3>3. stage \in {"file", "extFile"} => BundlePriority(u, known', prio') = minimum
      BY <2>1, <3>1 DEF Overtakes
    <3> QED BY <2>1, <3>2, <3>3
  <2>2. CASE v # u
    <3>1. v \in Uid /\ bprio'[v] = bprio[v] /\ <<bprio[v], v>> \in prioSet /\ ~overtaken
      <4>1. v \in Uid /\ bprio'[v] = bprio[v]
        BY <1>2, <1>4, <2>2
      <4>2. ~overtaken
        BY <1>1
      <4>3. <<bprio[v], v>> \in (prioSet \ {<<bprio[u], u>>}) \cup {<<bprio'[u], u>>}
        BY <1>4, <4>1
      <4> QED BY <2>2, <4>1, <4>2, <4>3
    <3>2. \A q \in known : UidOf[q] = v => prio'[q] = prio[q]
      BY <2>2 DEF IInv, TypeOK
    <3>3. BundlePriority(v, known, prio') = BundlePriority(v, known, prio)
      BY <3>2, BundlePriorityLocal
    <3> QED BY <1>1, <3>1, <3>3 DEF IInv, HandInv, FileInv
  <2> QED BY <2>1, <2>2
<1>7. TargetInv'
  BY <1>1 DEF IInv, HandInv, TargetInv
<1>8. CapInv'
  <2> SUFFICES ASSUME stage = "cap", NEW q \in target \cap known
               PROVE  /\ minimum = BaseLevel(minimum, status[q])
                      /\ q \in starting' \/ prio'[q] = minimum
    BY <1>1 DEF CapInv
  <2>1. /\ minimum = BaseLevel(minimum, status[q])
        /\ q \in starting \/ prio[q] = minimum
    BY DEF IInv, HandInv, CapInv
  <2> QED BY <1>1, <2>1 DEF IInv, TypeOK
<1> QED BY <1>5, <1>6, <1>7, <1>8 DEF HandInv

\* A start on another thread, also in the middle of the unlocked handler.
LEMMA AbilityStartStep ==
  ASSUME IInv, NEW p \in Pid, HandleAbilityStart(p)
  PROVE  IInv'
<1> DEFINE u == UidOf[p]
<1>1. /\ LockFree
      /\ p \in known
      /\ StartsAbility(p)
      /\ prio' = [prio EXCEPT ![p] = RECLAIM_PRIORITY_FOREGROUND]
      /\ starting' = starting \cup {p}
      /\ known' = known
      /\ overtaken => overtaken'
      /\ overtaken' \in BOOLEAN
      /\ UpdateBundlePriority(u)
      /\ WriteOomScoreAdjToKernel(u)
      /\ startTimer' = startTimer \cup {p}
      /\ UNCHANGED <<life, status, toMe, fromMe, bundles, accounts, killList, createCheck, jobVars>>
  BY DEF HandleAbilityStart, RestartTimer, IInv, TypeOK
<1>2. u \in Uid /\ u \in bundles
  BY <1>1, ConstantsAssumption DEF IInv, TypeOK, ListMatchesTable
<1>3. prio' \in [Pid -> Priority] /\ \A q \in Pid : q # p => prio'[q] = prio[q]
  BY <1>1, LevelTypes DEF IInv, TypeOK
<1>4. /\ bprio' \in [Uid -> Priority]
      /\ prioSet' \in SUBSET (Priority \X Uid)
      /\ ListMatchesTable'
      /\ CoverInv'
  <2>1. known' \in SUBSET Pid
    BY <1>1 DEF IInv, TypeOK
  <2>2. \A q \in known' : UidOf[q] # u => /\ q \in known /\ prio'[q] = prio[q]
                                          /\ q \in starting => q \in starting'
    BY <1>1, <1>3, <2>1
  <2>3. bundles' = bundles \cup {u} /\ bundles' = {UidOf[q] : q \in known'}
    BY <1>1, <1>2 DEF IInv, ListMatchesTable
  <2>4. \A v \in bundles' : AccountOf[v] \in accounts'
    BY <1>1 DEF IInv, ListMatchesTable
  <2>5. target' = target
    BY <1>1 DEF jobVars
  <2> QED BY <1>1, <1>2, <1>3, <2>1, <2>2, <2>3, <2>4, <2>5, TableAfterUpdate DEF IInv
<1>5. oom' = [q \in Pid |-> IF q \in ProcsOf(u, known) /\ Alive(q) THEN prio'[q] ELSE oom[q]]
  BY <1>1 DEF WriteOomScoreAdjToKernel
<1>6. oom' \in [Pid -> Priority]
  BY <1>3, <1>5 DEF IInv, TypeOK
<1>7. TypeOK'
  BY <1>1, <1>3, <1>4, <1>6 DEF IInv, TypeOK, jobVars
<1>8. StartHasTimer' /\ RecordInv' /\ JobInv' /\ TodoInv'
  BY <1>1 DEF IInv, StartHasTimer, RecordInv, JobInv, TodoInv, jobVars, OwnStages, ExtensionStages
<1>9. KernelInv'
  <2>1. stage' = stage /\ dirty' = dirty /\ pending' = pending /\ target' = target /\ life' = life
    BY <1>1 DEF jobVars
  <2>2. ASSUME NEW q \in known' \ starting', life'[q] = "live",
               stage' = "write" \/ UidOf[q] \notin dirty', q \notin target'
        PROVE  oom'[q] = prio'[q] \/ <<q, prio'[q]>> \in pending'
    <3>1. q \in Pid /\ q # p /\ q \in known \ starting /\ prio'[q] = prio[q]
      BY <1>1, <1>3, <2>2 DEF IInv, TypeOK
    <3>2. oom[q] = prio[q] \/ <<q, prio[q]>> \in pending
      BY <2>1, <2>2, <3>1 DEF IInv, KernelInv
    <3>3. oom'[q] = prio[q] \/ oom'[q] = oom[q]
      BY <1>5, <3>1
    <3> QED BY <2>1, <3>1, <3>2, <3>3
  <2>3. ASSUME NEW w \in pending', w[1] \in known' \ starting' PROVE w[2] = prio'[w[1]]
    <3>1. w \in pending /\ w[1] \in known \ starting /\ w[1] # p /\ w[1] \in Pid
      BY <1>1, <2>1, <2>3 DEF IInv, TypeOK
    <3> QED BY <1>3, <3>1 DEF IInv, KernelInv
  <2> QED BY <2>2, <2>3 DEF KernelInv
<1>10. SystemInv'
  <2>1. ASSUME NEW q \in known', UidOf[q] \in KeepAlive \cup XmlKillable, ~BmsMayFail
        PROVE  /\ prio'[q] <= RECLAIM_PRIORITY_KILLABLE_SYSTEM
               /\ "extension" \notin status'[q]
               /\ q \notin starting'
    <3>1. /\ q \in Pid
          /\ prio[q] \in Priority
          /\ prio[q] <= RECLAIM_PRIORITY_KILLABLE_SYSTEM
          /\ "extension" \notin status[q]
          /\ q \notin starting
      BY <1>1, <2>1 DEF IInv, TypeOK, SystemInv
    <3>2. q # p
      <4> SUFFICES ASSUME q = p PROVE FALSE
        OBVIOUS
      <4>1. prio[p] >= RECLAIM_PRIORITY_FOREGROUND
        BY <1>1, <3>1, PriorityRange DEF StartsAbility, RECLAIM_PRIORITY_FOREGROUND
      <4>2. prio[p] \in Int /\ prio[p] <= RECLAIM_PRIORITY_KILLABLE_SYSTEM
        BY <3>1, PriorityRange
      <4> QED BY <4>1, <4>2 DEF RECLAIM_PRIORITY_FOREGROUND, RECLAIM_PRIORITY_KILLABLE_SYSTEM
    <3> QED BY <1>1, <1>3, <3>1, <3>2
  <2> QED BY <1>1, <2>1 DEF SystemInv, IInv
<1>11. HandInv'
  BY <1>1, <1>3, HandAfterStart
<1> QED BY <1>4, <1>7, <1>8, <1>9, <1>10, <1>11 DEF IInv

\* A process created in a system bundle gets a system priority.
LEMMA CreatedSystemProc ==
  ASSUME NEW p \in Pid
  PROVE  CreatePriority(p, TRUE) <= RECLAIM_PRIORITY_KILLABLE_SYSTEM
<1> DEFINE first == IF p \in Important THEN ImportantPrio[p] ELSE RECLAIM_PRIORITY_FOREGROUND
<1>1. first \in Priority
  BY ConstantsAssumption, LevelTypes
<1>2. CreatePriority(p, TRUE) = IF first > RECLAIM_PRIORITY_KILLABLE_SYSTEM
                                THEN RECLAIM_PRIORITY_KILLABLE_SYSTEM ELSE first
  BY DEF CreatePriority
<1> HIDE DEF first
<1>3. first \in Int
  BY <1>1, PriorityRange
<1>4. first > RECLAIM_PRIORITY_KILLABLE_SYSTEM \/ first <= RECLAIM_PRIORITY_KILLABLE_SYSTEM
  BY <1>3 DEF RECLAIM_PRIORITY_KILLABLE_SYSTEM
<1>5. RECLAIM_PRIORITY_KILLABLE_SYSTEM <= RECLAIM_PRIORITY_KILLABLE_SYSTEM
  BY DEF RECLAIM_PRIORITY_KILLABLE_SYSTEM
<1> QED BY <1>2, <1>4, <1>5

\* A new process enters the table, the list and the kernel in one handler.
LEMMA CreateStep ==
  ASSUME IInv, NEW p \in Pid, HandleCreateProcess(p)
  PROVE  IInv'
<1> DEFINE u == UidOf[p]
<1>1. /\ Idle
      /\ p \notin Render
      /\ CreatedLife(p)
      /\ accounts' = accounts \cup {AccountOf[u]}
      /\ bundles' = bundles \cup {u}
      /\ known' = known \cup {p}
      /\ UpdateBundlePriority(u)
      /\ WriteOomScoreAdjToKernel(u)
      /\ createCheck' = createCheck \cup {p}
      /\ UNCHANGED <<status, starting, toMe, fromMe, startTimer, overtaken, jobVars>>
  BY DEF HandleCreateProcess
<1>2. PICK killable \in IsKillableSystemApp(u) :
        /\ killList' = IF killable THEN killList \cup {u} ELSE killList
        /\ prio' = IF p \in known THEN prio ELSE [prio EXCEPT ![p] = CreatePriority(p, killable)]
  BY DEF HandleCreateProcess
<1>3. u \in Uid /\ AccountOf[u] \in Account
  BY ConstantsAssumption
<1>4. /\ stage = "idle" /\ dirty = {} /\ pending = {} /\ target = {}
      /\ UNCHANGED <<stage, target, minimum, todo, dirty, pending, locked>>
  BY <1>1, IdleHand DEF Idle, IInv, JobInv, jobVars, OwnStages, ExtensionStages
<1>5. CreatePriority(p, killable) \in Priority
  BY LevelTypes, ConstantsAssumption DEF CreatePriority
<1>6. prio' \in [Pid -> Priority] /\ \A q \in Pid : q # p => prio'[q] = prio[q]
  BY <1>2, <1>5 DEF IInv, TypeOK
<1>7. known' \in SUBSET Pid
  BY <1>1 DEF IInv, TypeOK
<1>8. /\ bprio' \in [Uid -> Priority]
      /\ prioSet' \in SUBSET (Priority \X Uid)
      /\ ListMatchesTable'
      /\ CoverInv'
  <2>1. \A q \in known' : UidOf[q] # u => /\ q \in known /\ prio'[q] = prio[q]
                                          /\ q \in starting => q \in starting'
    BY <1>1, <1>6, <1>7
  <2>2. bundles' = {UidOf[q] : q \in known'}
    BY <1>1 DEF IInv, ListMatchesTable
  <2>3. \A v \in bundles' : AccountOf[v] \in accounts'
    BY <1>1 DEF IInv, ListMatchesTable
  <2> QED BY <1>1, <1>3, <1>4, <1>6, <1>7, <2>1, <2>2, <2>3, TableAfterUpdate DEF IInv
<1>9. oom' = [q \in Pid |-> IF q \in ProcsOf(u, known') /\ Alive(q) THEN prio'[q] ELSE oom[q]]
  BY <1>1 DEF WriteOomScoreAdjToKernel
<1>10. oom' \in [Pid -> Priority]
  BY <1>6, <1>9 DEF IInv, TypeOK
<1>11. life' \in [Pid -> Life] /\ \A q \in Pid : life'[q] = "live" =>
          Alive(q) /\ (q # p => life[q] = "live")
  BY <1>1 DEF IInv, TypeOK, CreatedLife, Alive, Life
<1>12. killList' \in SUBSET Uid /\ killList \subseteq killList'
  BY <1>2, <1>3 DEF IInv, TypeOK
<1>13. TypeOK'
  BY <1>1, <1>3, <1>4, <1>6, <1>7, <1>8, <1>10, <1>11, <1>12 DEF IInv, TypeOK
<1>14. StartHasTimer' /\ RecordInv' /\ JobInv' /\ TodoInv' /\ HandInv'
  <2>1. HandInv'
    BY <1>4, EmptyHand
  <2> QED BY <1>1, <1>4, <2>1 DEF IInv, StartHasTimer, RecordInv, JobInv, TodoInv,
                                  OwnStages, ExtensionStages
<1>15. KernelInv'
  <2>1. ASSUME NEW q \in known' \ starting', life'[q] = "live"
        PROVE  oom'[q] = prio'[q]
    <3>1. q \in Pid /\ Alive(q)
      BY <1>7, <1>11, <2>1
    <3>2. CASE UidOf[q] = u
      BY <1>9, <2>1, <3>1, <3>2 DEF ProcsOf
    <3>3. CASE UidOf[q] # u
      <4>1. q # p /\ q \in known \ starting /\ life[q] = "live" /\ prio'[q] = prio[q]
        BY <1>1, <1>6, <1>11, <2>1, <3>1, <3>3
      <4>2. oom[q] = prio[q]
        BY <1>4, <4>1 DEF IInv, KernelInv
      <4> QED BY <1>9, <3>1, <3>3, <4>1, <4>2 DEF ProcsOf
    <3> QED BY <3>2, <3>3
  <2> QED BY <1>4, <2>1 DEF KernelInv
<1>16. SystemInv'
  <2>1. ASSUME NEW q \in known', UidOf[q] \in KeepAlive \cup XmlKillable, ~BmsMayFail
        PROVE  /\ prio'[q] <= RECLAIM_PRIORITY_KILLABLE_SYSTEM
               /\ "extension" \notin status'[q]
               /\ q \notin starting'
    <3>1. CASE q \in known
      BY <1>1, <1>2, <1>6, <1>7, <2>1, <3>1 DEF IInv, SystemInv
    <3>2. CASE q \notin known
      <4>1. q = p /\ status'[q] = {} /\ q \notin starting'
        BY <1>1, <3>2 DEF IInv, RecordInv
      <4>2. IsKillableSystemApp(u) = {TRUE}
        <5>1. CASE u \in killList
          BY <5>1 DEF IsKillableSystemApp
        <5>2. CASE u \notin killList
          <6>1. u \in KeepAlive
            BY <2>1, <4>1, <5>2 DEF IInv, SystemInv
          <6>2. (u \in KeepAlive) = TRUE
            BY <6>1
          <6> QED BY <2>1, <5>2, <6>2 DEF IsKillableSystemApp
        <5> QED BY <5>1, <5>2
      <4>3. killable = TRUE
        BY <1>2, <4>2
      <4>4. prio'[p] = CreatePriority(p, TRUE)
        BY <1>2, <3>2, <4>1, <4>3 DEF IInv, TypeOK
      <4>5. CreatePriority(p, TRUE) <= RECLAIM_PRIORITY_KILLABLE_SYSTEM
        BY CreatedSystemProc
      <4> QED BY <4>1, <4>4, <4>5
    <3> QED BY <3>1, <3>2
  <2> QED BY <1>12, <2>1 DEF SystemInv, IInv
<1> QED BY <1>8, <1>13, <1>14, <1>15, <1>16 DEF IInv

\* A suspended bundle: every process falls to SUSPEND, in the kernel too.
LEMMA SuspendStep ==
  ASSUME IInv, NEW u \in Uid, HandleApplicationSuspend(u)
  PROVE  IInv'
<1>1. /\ Idle
      /\ u \in bundles
      /\ ~(bprio[u] <= RECLAIM_PRIORITY_KILLABLE_SYSTEM)
      /\ prio' = [p \in Pid |-> IF p \in ProcsOf(u, known) THEN RECLAIM_PRIORITY_SUSPEND ELSE prio[p]]
      /\ known' = known
      /\ UpdateBundlePriority(u)
      /\ WriteOomScoreAdjToKernel(u)
      /\ UNCHANGED <<life, status, starting, toMe, fromMe, bundles, accounts, overtaken,
                     killList, timerVars, jobVars>>
  BY DEF HandleApplicationSuspend, IsSystemBundle, SuspendPriority
<1>2. /\ stage = "idle" /\ dirty = {} /\ pending = {} /\ target = {} /\ InHand = {}
      /\ UNCHANGED <<stage, target, minimum, todo, dirty, pending, locked>>
  BY <1>1, IdleHand DEF Idle, IInv, JobInv, jobVars, OwnStages, ExtensionStages
<1>3. /\ prio' \in [Pid -> Priority]
      /\ \A q \in Pid : UidOf[q] # u => prio'[q] = prio[q]
      /\ \A q \in Pid \ known : prio'[q] = prio[q]
  BY <1>1, LevelTypes DEF IInv, TypeOK, ProcsOf
<1>4. known' \in SUBSET Pid
  BY <1>1 DEF IInv, TypeOK
<1>5. /\ bprio' \in [Uid -> Priority]
      /\ prioSet' \in SUBSET (Priority \X Uid)
      /\ ListMatchesTable'
      /\ CoverInv'
  <2>1. \A q \in known' : UidOf[q] # u => /\ q \in known /\ prio'[q] = prio[q]
                                          /\ q \in starting => q \in starting'
    BY <1>1, <1>3, <1>4
  <2>2. bundles' = bundles \cup {u} /\ bundles' = {UidOf[q] : q \in known'}
    BY <1>1 DEF IInv, ListMatchesTable
  <2>3. \A v \in bundles' : AccountOf[v] \in accounts'
    BY <1>1 DEF IInv, ListMatchesTable
  <2> QED BY <1>1, <1>2, <1>3, <1>4, <2>1, <2>2, <2>3, TableAfterUpdate DEF IInv
<1>6. oom' = [q \in Pid |-> IF q \in ProcsOf(u, known') /\ Alive(q) THEN prio'[q] ELSE oom[q]]
  BY <1>1 DEF WriteOomScoreAdjToKernel
<1>7. oom' \in [Pid -> Priority]
  BY <1>3, <1>6 DEF IInv, TypeOK
<1>8. TypeOK'
  BY <1>1, <1>2, <1>3, <1>4, <1>5, <1>7 DEF IInv, TypeOK, timerVars
<1>9. StartHasTimer' /\ RecordInv' /\ JobInv' /\ TodoInv' /\ HandInv'
  <2>1. HandInv'
    BY <1>2, EmptyHand
  <2> QED BY <1>1, <1>2, <2>1 DEF IInv, StartHasTimer, RecordInv, JobInv, TodoInv, timerVars,
                                  OwnStages, ExtensionStages
<1>10. KernelInv'
  <2>1. ASSUME NEW q \in known' \ starting', life'[q] = "live"
        PROVE  oom'[q] = prio'[q]
    <3>1. q \in Pid /\ q \in known \ starting /\ life[q] = "live" /\ Alive(q)
      BY <1>1, <1>4, <2>1 DEF Alive
    <3>2. CASE UidOf[q] = u
      BY <1>6, <2>1, <3>1, <3>2 DEF ProcsOf
    <3>3. CASE UidOf[q] # u
      <4>1. oom[q] = prio[q]
        BY <1>2, <3>1 DEF IInv, KernelInv
      <4> QED BY <1>3, <1>6, <3>1, <3>3, <4>1 DEF ProcsOf
    <3> QED BY <3>2, <3>3
  <2> QED BY <1>2, <2>1 DEF KernelInv
<1>11. SystemInv'
  <2>1. ASSUME NEW q \in known', UidOf[q] \in KeepAlive \cup XmlKillable, ~BmsMayFail
        PROVE  /\ prio'[q] <= RECLAIM_PRIORITY_KILLABLE_SYSTEM
               /\ "extension" \notin status'[q]
               /\ q \notin starting'
    <3>1. /\ q \in Pid /\ q \in known
          /\ prio[q] <= RECLAIM_PRIORITY_KILLABLE_SYSTEM
          /\ "extension" \notin status[q]
          /\ q \notin starting
      BY <1>1, <1>4, <2>1 DEF IInv, SystemInv
    <3>2. UidOf[q] # u
      <4> SUFFICES ASSUME UidOf[q] = u PROVE FALSE
        OBVIOUS
      <4>1. bprio[u] \in Priority /\ prio[q] \in Priority
        BY <3>1 DEF IInv, TypeOK
      <4>2. bprio[u] <= prio[q]
        BY <1>2, <3>1 DEF IInv, CoverInv
      <4>3. bprio[u] \in Int /\ prio[q] \in Int
        BY <4>1, PriorityRange
      <4> QED BY <1>1, <3>1, <4>2, <4>3 DEF RECLAIM_PRIORITY_KILLABLE_SYSTEM
    <3> QED BY <1>1, <1>3, <3>1, <3>2
  <2> QED BY <1>1, <2>1 DEF SystemInv, IInv
<1> QED BY <1>5, <1>8, <1>9, <1>10, <1>11 DEF IInv

\* Removing bundles that have no process left keeps the list and the table in step.
LEMMA TableAfterRemoval ==
  ASSUME IInv, target = {}, UNCHANGED <<overtaken, target>>,
         NEW empty \in SUBSET bundles, RemoveBundles(empty),
         known' \in SUBSET known,
         \A q \in known' : prio'[q] = prio[q] /\ (q \in starting => q \in starting'),
         bundles \ empty = {UidOf[q] : q \in known'},
         \A v \in bundles \ empty : AccountOf[v] \in accounts'
  PROVE  /\ bundles' \in SUBSET Uid
         /\ bprio' \in [Uid -> Priority]
         /\ prioSet' \in SUBSET (Priority \X Uid)
         /\ ListMatchesTable'
         /\ CoverInv'
<1>1. /\ bundles' = bundles \ empty
      /\ bprio' = [u \in Uid |-> IF u \in empty THEN RECLAIM_PRIORITY_UNKNOWN ELSE bprio[u]]
      /\ prioSet' = IF overtaken THEN {} ELSE prioSet \ {<<bprio[u], u>> : u \in empty}
  BY DEF RemoveBundles, Listed
<1>2. /\ bundles' \in SUBSET Uid
      /\ bprio' \in [Uid -> Priority]
      /\ prioSet' \in SUBSET (Priority \X Uid)
      /\ \A u \in bundles \ empty : bprio'[u] = bprio[u]
  BY <1>1, LevelTypes DEF IInv, TypeOK
<1>3. InHand = {} /\ InHand' = {}
  BY DEF InHand
<1>4. ASSUME ~overtaken
      PROVE  /\ prioSet' \subseteq {<<bprio'[v], v>> : v \in bundles'}
             /\ \A v \in bundles' : <<bprio'[v], v>> \in prioSet'
  <2>1. /\ prioSet \subseteq {<<bprio[v], v>> : v \in bundles}
        /\ \A v \in bundles : <<bprio[v], v>> \in prioSet
    BY <1>3, <1>4 DEF IInv, ListMatchesTable
  <2> QED BY <1>1, <1>2, <1>4, <2>1
<1>5. ListMatchesTable'
  BY <1>1, <1>4 DEF ListMatchesTable
<1>6. CoverInv'
  <2> SUFFICES ASSUME NEW q \in known'
               PROVE  \/ bprio'[UidOf[q]] <= prio'[q]
                      \/ q \in starting' /\ bprio'[UidOf[q]] >= RECLAIM_PRIORITY_FOREGROUND
    BY DEF CoverInv
  <2>1. bprio'[UidOf[q]] = bprio[UidOf[q]]
    BY <1>2
  <2> QED BY <1>3, <2>1 DEF IInv, CoverInv
<1> QED BY <1>2, <1>5, <1>6

\* Dropping the records of some processes while the handler is idle, or while
\* nothing is known any more, leaves the rest of the invariant alone.
LEMMA RecordsAfterRemoval ==
  ASSUME IInv, NEW gone, RemoveProcs(gone),
         UNCHANGED <<oom, killList, timerVars, jobVars>>,
         \A q \in Pid : life'[q] = "live" => life[q] = "live"
  PROVE  /\ prio' \in [Pid -> Priority] /\ status' \in [Pid -> SUBSET Flag]
         /\ known' \in SUBSET Pid /\ starting' \in SUBSET Pid
         /\ known' = known \ gone
         /\ \A q \in known' : prio'[q] = prio[q] /\ (q \in starting => q \in starting')
         /\ StartHasTimer' /\ JobInv' /\ RecordInv' /\ TodoInv' /\ KernelInv' /\ SystemInv'
<1> USE DEF timerVars, jobVars
<1>1. /\ known' = known \ gone
      /\ prio' = [p \in Pid |-> IF p \in gone THEN RECLAIM_PRIORITY_UNKNOWN ELSE prio[p]]
      /\ status' = [p \in Pid |-> IF p \in gone THEN {} ELSE status[p]]
      /\ starting' = starting \ gone
  BY DEF RemoveProcs
<1>2. /\ prio' \in [Pid -> Priority] /\ status' \in [Pid -> SUBSET Flag]
      /\ known' \in SUBSET Pid /\ starting' \in SUBSET Pid
      /\ \A q \in known' : prio'[q] = prio[q] /\ status'[q] = status[q]
  BY <1>1, LevelTypes DEF IInv, TypeOK
<1>3. StartHasTimer' /\ JobInv'
  BY <1>1 DEF IInv, StartHasTimer, JobInv, OwnStages, ExtensionStages
<1>4. RecordInv'
  BY <1>1 DEF IInv, RecordInv
<1>5. TodoInv'
  BY <1>1, <1>2 DEF IInv, TodoInv
<1>6. KernelInv'
  <2>1. \A q \in known' \ starting' : q \in known \ starting /\ q \in Pid
    BY <1>1 DEF IInv, TypeOK
  <2> QED BY <1>2, <2>1 DEF IInv, KernelInv
<1>7. SystemInv'
  BY <1>1, <1>2 DEF IInv, SystemInv
<1> QED BY <1>1, <1>2, <1>3, <1>4, <1>5, <1>6, <1>7

\* What the died-process check does to the records, whichever bundles it misses.
LEMMA FilterForgets ==
  ASSUME IInv, FilterDiedProcess
  PROVE  \E gone \in SUBSET Pid :
           /\ RemoveProcs(gone)
           /\ \A p \in Pid : /\ toMe'[p] \subseteq toMe[p] /\ fromMe'[p] \subseteq fromMe[p]
                             /\ p \in gone => toMe'[p] = {} /\ fromMe'[p] = {}
           /\ toMe' \in [Pid -> SUBSET Pid] /\ fromMe' \in [Pid -> SUBSET Pid]
<1> DEFINE alive == {p \in Pid : Alive(p)}
<1>1. PICK lost \in SUBSET (IF overtaken THEN bundles ELSE {}),
           unlisted \in SUBSET (IF overtaken THEN bundles ELSE {}) :
        LET gone == {p \in known : \/ UidOf[p] \in lost
                                   \/ ~(p \in alive \/ UidOf[p] \in unlisted)}
            left(p, binds) ==
              IF p \notin known \ gone THEN {}
              ELSE IF UidOf[p] \in unlisted THEN binds ELSE binds \cap alive
        IN  /\ RemoveProcs(gone)
            /\ toMe' = [p \in Pid |-> left(p, toMe[p])]
            /\ fromMe' = [p \in Pid |-> left(p, fromMe[p])]
  BY DEF FilterDiedProcess
<1> DEFINE gone == {p \in known : \/ UidOf[p] \in lost
                                  \/ ~(p \in alive \/ UidOf[p] \in unlisted)}
           left(p, binds) ==
             IF p \notin known \ gone THEN {}
             ELSE IF UidOf[p] \in unlisted THEN binds ELSE binds \cap alive
<1>2. /\ RemoveProcs(gone)
      /\ toMe' = [p \in Pid |-> left(p, toMe[p])]
      /\ fromMe' = [p \in Pid |-> left(p, fromMe[p])]
  BY <1>1
<1>3. gone \in SUBSET Pid
  BY DEF IInv, TypeOK
<1>4. \A p \in Pid : \A binds : left(p, binds) \subseteq binds /\ (p \in gone => left(p, binds) = {})
  OBVIOUS
<1>5. TypeOK
  BY DEF IInv
<1> HIDE DEF gone, left
<1>6. \A p \in Pid : /\ toMe'[p] \subseteq toMe[p] /\ fromMe'[p] \subseteq fromMe[p]
                     /\ p \in gone => toMe'[p] = {} /\ fromMe'[p] = {}
  BY <1>2, <1>4
<1>7. toMe' \in [Pid -> SUBSET Pid] /\ fromMe' \in [Pid -> SUBSET Pid]
  <2>1. \A p \in Pid : left(p, toMe[p]) \in SUBSET Pid /\ left(p, fromMe[p]) \in SUBSET Pid
    BY <1>4, <1>5 DEF TypeOK
  <2> QED BY <1>2, <2>1
<1> QED BY <1>2, <1>3, <1>6, <1>7

\* A terminated process leaves the table, with its bundle and account if last.
LEMMA TerminateStep ==
  ASSUME IInv, NEW p \in Pid, ProcessTerminated(p)
  PROVE  IInv'
<1>1. /\ Idle
      /\ life[p] = "dead"
      /\ life' = [life EXCEPT ![p] = "gone"]
      /\ UNCHANGED <<oom, killList, timerVars, jobVars>>
  BY DEF ProcessTerminated
<1>2. /\ life' \in [Pid -> Life] /\ \A q \in Pid : life'[q] = "live" => life[q] = "live"
      /\ target = {} /\ target' = {} /\ InHand = {} /\ InHand' = {}
  BY <1>1, IdleHand DEF IInv, TypeOK, Life, Idle, jobVars, InHand, OwnStages, ExtensionStages
<1>3. CASE UNCHANGED <<procVars, bundleVars>>
  <2> USE <1>1, <1>3 DEF procVars, bundleVars, timerVars, jobVars
  <2>1. TypeOK'
    BY <1>2 DEF IInv, TypeOK
  <2>2. ListMatchesTable' /\ CoverInv' /\ HandInv' /\ JobInv' /\ TodoInv'
    BY TableUntouched
  <2>3. StartHasTimer' /\ RecordInv' /\ SystemInv'
    BY DEF IInv, StartHasTimer, RecordInv, SystemInv
  <2>4. KernelInv'
    BY <1>2 DEF IInv, TypeOK, KernelInv
  <2> QED BY <2>1, <2>2, <2>3, <2>4 DEF IInv
<1>4. CASE p \in known /\ HandleTerminateProcess(p)
  <2> DEFINE u == UidOf[p]
  <2>1. /\ RemoveProcs({p})
        /\ toMe' = [toMe EXCEPT ![p] = {}]
        /\ fromMe' = [fromMe EXCEPT ![p] = {}]
        /\ overtaken' = overtaken
        /\ \/ /\ ProcsOf(u, known') = {}
              /\ RemoveBundles({u})
           \/ /\ ProcsOf(u, known') # {}
              /\ UpdateBundlePriority(u)
              /\ UNCHANGED bundles
           \/ /\ ProcsOf(u, known') # {}
              /\ UNCHANGED <<bundles, bprio, prioSet>>
        /\ accounts' = IF \E v \in bundles' : AccountOf[v] = AccountOf[u]
                       THEN accounts ELSE accounts \ {AccountOf[u]}
    BY <1>4 DEF HandleTerminateProcess
  <2>2. /\ prio' \in [Pid -> Priority] /\ status' \in [Pid -> SUBSET Flag]
        /\ known' \in SUBSET Pid /\ starting' \in SUBSET Pid
        /\ known' = known \ {p}
        /\ \A q \in known' : prio'[q] = prio[q] /\ (q \in starting => q \in starting')
        /\ StartHasTimer' /\ JobInv' /\ RecordInv' /\ TodoInv' /\ KernelInv' /\ SystemInv'
    BY <1>1, <1>2, <2>1, RecordsAfterRemoval
  <2>3. u \in Uid /\ u \in bundles /\ bundles = {UidOf[q] : q \in known}
    BY <1>4, ConstantsAssumption DEF IInv, ListMatchesTable
  <2>4. /\ bundles' \in SUBSET Uid
        /\ bprio' \in [Uid -> Priority]
        /\ prioSet' \in SUBSET (Priority \X Uid)
        /\ ListMatchesTable'
        /\ CoverInv'
    <3>1. \A v \in bundles : AccountOf[v] \in accounts
      BY DEF IInv, ListMatchesTable
    <3>2. CASE ProcsOf(u, known') = {} /\ RemoveBundles({u})
      <4>1. bundles' = bundles \ {u}
        BY <3>2 DEF RemoveBundles
      <4>2. bundles \ {u} = {UidOf[q] : q \in known'}
        BY <2>2, <2>3, <3>2 DEF ProcsOf
      <4>3. \A v \in bundles \ {u} : AccountOf[v] \in accounts'
        BY <2>1, <3>1, <4>1
      <4> QED BY <1>2, <2>1, <2>2, <2>3, <3>2, <4>2, <4>3, TableAfterRemoval
    <3>3. CASE ProcsOf(u, known') # {} /\ bundles' = bundles
      <4>1. bundles' = {UidOf[q] : q \in known'} /\ bundles' = bundles \cup {u}
        BY <2>2, <2>3, <3>3 DEF ProcsOf
      <4>2. \A v \in bundles' : AccountOf[v] \in accounts'
        BY <2>1, <3>1, <3>3
      <4>3. CASE UpdateBundlePriority(u)
        <5>1. \A q \in known' : UidOf[q] # u => /\ q \in known /\ prio'[q] = prio[q]
                                                /\ q \in starting => q \in starting'
          BY <2>2
        <5> QED BY <1>2, <2>1, <2>2, <2>3, <3>3, <4>1, <4>2, <4>3, <5>1, TableAfterUpdate DEF IInv, TypeOK
      <4>4. CASE UNCHANGED <<bundles, bprio, prioSet>>
        <5>1. ListMatchesTable'
          BY <1>2, <2>1, <4>1, <4>2, <4>4 DEF IInv, ListMatchesTable
        <5>2. CoverInv'
          BY <1>2, <2>2, <4>4 DEF IInv, CoverInv
        <5> QED BY <4>4, <5>1, <5>2 DEF IInv, TypeOK
      <4> QED BY <2>1, <3>3, <4>3, <4>4
    <3> QED BY <2>1, <3>2, <3>3
  <2>5. TypeOK'
    BY <1>1, <1>2, <2>1, <2>2, <2>4 DEF IInv, TypeOK, timerVars, jobVars
  <2>6. HandInv'
    BY <1>2, EmptyHand
  <2> QED BY <2>2, <2>4, <2>5, <2>6 DEF IInv
<1> QED BY <1>3, <1>4 DEF ProcessTerminated

\* The periodic filter drops the dead processes and the emptied bundles.
LEMMA FilterStep ==
  ASSUME IInv, FilterDiedProcess
  PROVE  IInv'
<1>1. PICK gone :
        /\ RemoveProcs(gone)
        /\ \A p \in Pid : toMe'[p] \subseteq toMe[p] /\ fromMe'[p] \subseteq fromMe[p]
        /\ toMe' \in [Pid -> SUBSET Pid] /\ fromMe' \in [Pid -> SUBSET Pid]
  BY FilterForgets
<1>2. /\ RemoveBundles({u \in bundles : ProcsOf(u, known') = {}})
      /\ stage = "idle"
      /\ UNCHANGED <<life, oom, accounts, overtaken, killList, timerVars, jobVars>>
  BY DEF FilterDiedProcess, Idle
<1>3. /\ prio' \in [Pid -> Priority] /\ status' \in [Pid -> SUBSET Flag]
      /\ known' \in SUBSET Pid /\ starting' \in SUBSET Pid
      /\ known' = known \ gone
      /\ \A q \in known' : prio'[q] = prio[q] /\ (q \in starting => q \in starting')
      /\ StartHasTimer' /\ JobInv' /\ RecordInv' /\ TodoInv' /\ KernelInv' /\ SystemInv'
  BY <1>1, <1>2, RecordsAfterRemoval
<1>4. target = {} /\ target' = {}
  BY <1>2, IdleHand DEF jobVars, OwnStages, ExtensionStages
<1>5. /\ bundles' \in SUBSET Uid
      /\ bprio' \in [Uid -> Priority]
      /\ prioSet' \in SUBSET (Priority \X Uid)
      /\ ListMatchesTable'
      /\ CoverInv'
  <2> DEFINE empty == {u \in bundles : ProcsOf(u, known') = {}}
  <2>1. bundles \ empty = {UidOf[q] : q \in known'}
    BY <1>3 DEF ProcsOf, IInv, ListMatchesTable
  <2>2. \A v \in bundles \ empty : AccountOf[v] \in accounts'
    BY <1>2 DEF IInv, ListMatchesTable
  <2>3. RemoveBundles(empty) /\ empty \in SUBSET bundles /\ known' \in SUBSET known
    BY <1>2, <1>3
  <2> HIDE DEF empty
  <2> QED BY <1>2, <1>3, <1>4, <2>1, <2>2, <2>3, TableAfterRemoval
<1>6. TypeOK'
  BY <1>1, <1>2, <1>3, <1>5 DEF IInv, TypeOK, timerVars, jobVars
<1>7. HandInv'
  BY <1>4, EmptyHand
<1> QED BY <1>3, <1>5, <1>6, <1>7 DEF IInv

\* Reset empties the table, also while the unlocked handler is running: the list is then
\* not kept up any longer if the handler has a bundle in hand.
LEMMA ResetStep ==
  ASSUME IInv, Reset
  PROVE  IInv'
<1>1. /\ RemoveProcs(known)
      /\ toMe' = [p \in Pid |-> {}]
      /\ fromMe' = [p \in Pid |-> {}]
      /\ bundles' = {}
      /\ bprio' = [u \in Uid |-> RECLAIM_PRIORITY_UNKNOWN]
      /\ accounts' = {}
      /\ prioSet' = {}
      /\ overtaken' = (target # {})
      /\ UNCHANGED <<life, oom, killList, timerVars, jobVars>>
  BY DEF Reset
<1>2. /\ prio' \in [Pid -> Priority] /\ status' \in [Pid -> SUBSET Flag]
      /\ known' \in SUBSET Pid /\ starting' \in SUBSET Pid
      /\ known' = known \ known
      /\ StartHasTimer' /\ JobInv' /\ RecordInv' /\ TodoInv' /\ KernelInv' /\ SystemInv'
  BY <1>1, RecordsAfterRemoval
<1>3. TypeOK'
  <2>1. overtaken' \in BOOLEAN
    BY <1>1
  <2> QED BY <1>1, <1>2, <2>1, LevelTypes DEF IInv, TypeOK, timerVars, jobVars
<1>4. ListMatchesTable' /\ CoverInv'
  BY <1>1, <1>2 DEF ListMatchesTable, CoverInv
<1>5. HandInv'
  <2>1. known' = {} /\ UNCHANGED <<stage, target, minimum>>
    BY <1>1, <1>2 DEF jobVars
  <2>2. MinimumInv' /\ CapInv'
    BY <2>1 DEF MinimumInv, CapInv
  <2>3. FileInv'
    BY <1>1, <2>1 DEF FileInv, InHand
  <2>4. TargetInv'
    BY <2>1 DEF IInv, HandInv, TargetInv
  <2> QED BY <2>2, <2>3, <2>4 DEF HandInv
<1> QED BY <1>2, <1>3, <1>4, <1>5 DEF IInv

\* Setting an extension's priority leaves the system processes alone.
LEMMA ExtensionIsNoSystemApp ==
  ASSUME IInv, NEW e \in todo, e[2] \in known,
         prio' \in [Pid -> Priority], \A r \in Pid : r # e[2] => prio'[r] = prio[r],
         UNCHANGED <<known, status, starting, killList>>
  PROVE  /\ SystemInv'
         /\ BmsMayFail \/ UidOf[e[2]] \notin KeepAlive \cup XmlKillable
<1>1. "extension" \in status[e[2]]
  BY DEF IInv, TodoInv
<1>2. BmsMayFail \/ UidOf[e[2]] \notin KeepAlive \cup XmlKillable
  BY <1>1 DEF IInv, SystemInv
<1>3. ASSUME NEW r \in known, UidOf[r] \in KeepAlive \cup XmlKillable, ~BmsMayFail
      PROVE  /\ prio'[r] <= RECLAIM_PRIORITY_KILLABLE_SYSTEM
             /\ "extension" \notin status[r]
             /\ r \notin starting
  <2>1. /\ r \in Pid
        /\ prio[r] <= RECLAIM_PRIORITY_KILLABLE_SYSTEM
        /\ "extension" \notin status[r] /\ r \notin starting
    BY <1>3 DEF IInv, TypeOK, SystemInv
  <2>2. r # e[2]
    BY <1>1, <2>1
  <2> QED BY <2>1, <2>2
<1> QED BY <1>2, <1>3 DEF IInv, SystemInv

\* One iteration of the loop over the connected extensions.
LEMMA ConnectStep ==
  ASSUME IInv, SetConnectExtensionProcPrio
  PROVE  IInv'
<1>1. /\ stage = "set"
      /\ pending = {}
      /\ UNCHANGED <<life, known, status, starting, toMe, fromMe, bundles, accounts, overtaken,
                     killList, timerVars, minimum, dirty, pending, locked>>
  BY DEF SetConnectExtensionProcPrio
<1>2. PICK e \in todo :
        /\ todo' = todo \ {e}
        /\ \/ /\ e[2] \notin known
              /\ UNCHANGED <<prio, bprio, prioSet, oom, stage, target>>
           \/ /\ e[2] \in known
              /\ locked
              /\ prio' = [prio EXCEPT ![e[2]] = ExtensionPriority(e[2])]
              /\ UpdateBundlePriority(UidOf[e[2]])
              /\ WriteOneOomScoreAdj(e[2])
              /\ UNCHANGED <<stage, target>>
           \/ /\ e[2] \in known
              /\ ~locked
              /\ prio' = [prio EXCEPT ![e[2]] = ExtensionPriority(e[2])]
              /\ prioSet' = Listed(prioSet \ {<<bprio[UidOf[e[2]]], UidOf[e[2]]>>})
              /\ stage' = "extMin"
              /\ target' = {e[2]}
              /\ UNCHANGED <<bprio, oom>>
  BY DEF SetConnectExtensionProcPrio
<1> DEFINE q == e[2]
           u == UidOf[q]
<1>3. target = {} /\ InHand = {} /\ minimum = RECLAIM_PRIORITY_UNKNOWN
  BY <1>1, IdleHand DEF OwnStages, ExtensionStages
<1>4. StartHasTimer' /\ RecordInv' /\ TodoInv'
  BY <1>1, <1>2 DEF IInv, StartHasTimer, RecordInv, TodoInv, timerVars
<1>5. CASE UNCHANGED <<prio, bprio, prioSet, oom, stage, target>>
  <2> USE <1>1, <1>2, <1>5 DEF timerVars
  <2>1. TypeOK'
    BY DEF IInv, TypeOK
  <2>2. InHand' = InHand
    BY DEF InHand
  <2>3. ListMatchesTable' /\ CoverInv'
    BY <2>2 DEF IInv, ListMatchesTable, CoverInv
  <2>4. HandInv'
    BY <1>3, EmptyHand
  <2>5. JobInv' /\ SystemInv' /\ KernelInv'
    BY DEF IInv, JobInv, SystemInv, KernelInv, OwnStages, ExtensionStages
  <2> QED BY <1>4, <2>1, <2>3, <2>4, <2>5 DEF IInv
<1>6. ASSUME q \in known, prio' = [prio EXCEPT ![q] = ExtensionPriority(q)]
      PROVE  /\ q \in Pid /\ u \in Uid /\ u \in bundles
             /\ prio' \in [Pid -> Priority] /\ prio'[q] = ExtensionPriority(q)
             /\ \A r \in Pid : r # q => prio'[r] = prio[r]
             /\ SystemInv'
             /\ BmsMayFail \/ u \notin KeepAlive \cup XmlKillable
             /\ \E v \in Uid : dirty = {v}
  <2>1. q \in Pid /\ u \in Uid /\ u \in bundles
    BY <1>6, ConstantsAssumption DEF IInv, TypeOK, ListMatchesTable
  <2>2. ExtensionPriority(q) \in Priority
    BY <2>1, ExtensionPriorityType DEF IInv
  <2>3. /\ prio' \in [Pid -> Priority] /\ prio'[q] = ExtensionPriority(q)
        /\ \A r \in Pid : r # q => prio'[r] = prio[r]
    BY <1>6, <2>1, <2>2 DEF IInv, TypeOK
  <2>4. SystemInv' /\ (BmsMayFail \/ u \notin KeepAlive \cup XmlKillable)
    BY <1>1, <1>6, <2>3, ExtensionIsNoSystemApp
  <2>5. \E v \in Uid : dirty = {v}
    BY <1>1 DEF IInv, JobInv
  <2> QED BY <2>1, <2>3, <2>4, <2>5
<1>7. CASE /\ q \in known
           /\ locked
           /\ prio' = [prio EXCEPT ![q] = ExtensionPriority(q)]
           /\ UpdateBundlePriority(u)
           /\ WriteOneOomScoreAdj(q)
           /\ UNCHANGED <<stage, target>>
  <2>1. /\ q \in Pid /\ u \in Uid /\ u \in bundles
        /\ prio' \in [Pid -> Priority]
        /\ \A r \in Pid : r # q => prio'[r] = prio[r]
        /\ SystemInv'
    BY <1>6, <1>7
  <2>2. known' \in SUBSET Pid
    BY <1>1 DEF IInv, TypeOK
  <2>3. /\ bprio' \in [Uid -> Priority]
        /\ prioSet' \in SUBSET (Priority \X Uid)
        /\ ListMatchesTable'
        /\ CoverInv'
    <3>1. \A r \in known' : UidOf[r] # u => /\ r \in known /\ prio'[r] = prio[r]
                                            /\ r \in starting => r \in starting'
      BY <1>1, <2>1, <2>2
    <3>2. bundles' = bundles \cup {u} /\ bundles' = {UidOf[r] : r \in known'}
      BY <1>1, <2>1 DEF IInv, ListMatchesTable
    <3>3. \A v \in bundles' : AccountOf[v] \in accounts'
      BY <1>1 DEF IInv, ListMatchesTable
    <3>4. overtaken => overtaken'
      BY <1>1
    <3> QED BY <1>7, <2>1, <2>2, <3>1, <3>2, <3>3, <3>4, TableAfterUpdate DEF IInv
  <2>4. oom' = IF Alive(q) THEN [oom EXCEPT ![q] = prio'[q]] ELSE oom
    BY <1>7 DEF WriteOneOomScoreAdj
  <2>5. oom' \in [Pid -> Priority] /\ \A r \in Pid : r # q => oom'[r] = oom[r]
    BY <2>1, <2>4 DEF IInv, TypeOK
  <2>6. TypeOK'
    BY <1>1, <1>2, <1>7, <2>1, <2>3, <2>5 DEF IInv, TypeOK, timerVars
  <2>7. JobInv'
    BY <1>1, <1>7 DEF IInv, JobInv, OwnStages, ExtensionStages
  <2>8. KernelInv'
    <3>1. ASSUME NEW r \in known \ starting, life[r] = "live", UidOf[r] \notin dirty
          PROVE  oom'[r] = prio'[r]
      <4>1. r \in Pid /\ Alive(r)
        BY <3>1 DEF Alive, IInv, TypeOK
      <4>2. CASE r = q
        BY <2>4, <4>1, <4>2 DEF IInv, TypeOK
      <4>3. CASE r # q
        <5>1. oom[r] = prio[r]
          BY <1>1, <1>3, <3>1 DEF IInv, KernelInv
        <5> QED BY <2>1, <2>5, <4>1, <4>3, <5>1
      <4> QED BY <4>2, <4>3
    <3> QED BY <1>1, <1>7, <3>1 DEF KernelInv
  <2>9. HandInv'
    BY <1>3, <1>7, EmptyHand
  <2> QED BY <1>4, <2>1, <2>3, <2>6, <2>7, <2>8, <2>9 DEF IInv
<1>8. CASE /\ q \in known
           /\ ~locked
           /\ prio' = [prio EXCEPT ![q] = ExtensionPriority(q)]
           /\ prioSet' = Listed(prioSet \ {<<bprio[u], u>>})
           /\ stage' = "extMin"
           /\ target' = {q}
           /\ UNCHANGED <<bprio, oom>>
  <2>1. /\ q \in Pid /\ u \in Uid /\ u \in bundles
        /\ prio' \in [Pid -> Priority]
        /\ \A r \in Pid : r # q => prio'[r] = prio[r]
        /\ SystemInv'
        /\ BmsMayFail \/ u \notin KeepAlive \cup XmlKillable
        /\ \E v \in Uid : dirty = {v}
    BY <1>6, <1>8
  <2>2. InHand' = {u} /\ ~overtaken' = ~overtaken
    BY <1>1, <1>8 DEF InHand
  <2>3. prioSet' = IF overtaken THEN {} ELSE prioSet \ {<<bprio[u], u>>}
    BY <1>1, <1>8 DEF Listed
  <2>4. TypeOK'
    BY <1>1, <1>2, <1>8, <2>1, <2>3 DEF IInv, TypeOK, timerVars
  <2>5. ListMatchesTable'
    BY <1>1, <1>3, <1>8, <2>2, <2>3 DEF IInv, ListMatchesTable
  <2>6. CoverInv'
    <3>1. \A r \in known : UidOf[r] # u => r \in Pid /\ prio'[r] = prio[r]
      BY <2>1 DEF IInv, TypeOK
    <3> QED BY <1>1, <1>3, <1>8, <2>2, <3>1 DEF IInv, CoverInv
  <2>7. JobInv'
    BY <1>1, <1>3, <1>8, <2>1 DEF JobInv, OwnStages, ExtensionStages
  <2>8. KernelInv'
    <3>1. ASSUME NEW r \in known \ starting, life[r] = "live", UidOf[r] \notin dirty, r # q
          PROVE  oom[r] = prio'[r]
      <4>1. r \in Pid /\ oom[r] = prio[r]
        BY <1>1, <1>3, <3>1 DEF IInv, TypeOK, KernelInv
      <4> QED BY <2>1, <3>1, <4>1
    <3> QED BY <1>1, <1>8, <3>1 DEF KernelInv
  <2>9. HandInv'
    <3>1. MinimumInv' /\ CapInv'
      BY <1>8 DEF MinimumInv, CapInv
    <3>2. TargetInv'
      BY <1>8, <2>1 DEF TargetInv
    <3>3. FileInv'
      BY <1>8, <2>2, <2>3 DEF FileInv
    <3> QED BY <3>1, <3>2, <3>3 DEF HandInv
  <2> QED BY <1>4, <2>1, <2>4, <2>5, <2>6, <2>7, <2>8, <2>9 DEF IInv
<1> QED BY <1>2, <1>5, <1>7, <1>8

\* The end of a handler: the kernel hears of the bundle.
LEMMA ApplyStep ==
  ASSUME IInv, ApplyReclaimPriority
  PROVE  IInv'
<1>1. PICK u \in dirty : WriteOomScoreAdjToKernel(u)
  BY DEF ApplyReclaimPriority
<1>2. /\ stage = "set" /\ todo = {} /\ locked
      /\ stage' = "idle" /\ dirty' = {} /\ locked' = FALSE
      /\ UNCHANGED <<procVars, bundleVars, life, killList, timerVars, target, minimum, todo, pending>>
  BY DEF ApplyReclaimPriority
<1>3. pending = {} /\ dirty = {u}
  BY <1>1, <1>2 DEF IInv, JobInv
<1>a. target = {} /\ InHand = {} /\ minimum = RECLAIM_PRIORITY_UNKNOWN /\ InHand' = {}
  BY <1>2, IdleHand DEF InHand, OwnStages, ExtensionStages
<1> USE <1>2, <1>3 DEF procVars, bundleVars, timerVars
<1>4. oom' = [q \in Pid |-> IF q \in ProcsOf(u, known) /\ Alive(q) THEN prio[q] ELSE oom[q]]
  BY <1>1 DEF WriteOomScoreAdjToKernel
<1>5. TypeOK'
  <2>1. oom' \in [Pid -> Priority]
    BY <1>4 DEF IInv, TypeOK
  <2> QED BY <2>1 DEF IInv, TypeOK
<1>6. ListMatchesTable' /\ CoverInv' /\ StartHasTimer' /\ HandInv'
  <2>1. HandInv'
    BY <1>a, EmptyHand
  <2> QED BY <1>a, <2>1 DEF IInv, ListMatchesTable, CoverInv, StartHasTimer
<1>7. JobInv' /\ RecordInv' /\ TodoInv' /\ SystemInv'
  BY <1>a DEF IInv, JobInv, RecordInv, TodoInv, SystemInv, OwnStages, ExtensionStages
<1>8. KernelInv'
  <2>1. ASSUME NEW q \in known \ starting, life[q] = "live" PROVE oom'[q] = prio[q]
    <3>1. q \in Pid /\ Alive(q)
      BY <2>1 DEF IInv, TypeOK, Alive
    <3>2. CASE UidOf[q] = u
      BY <1>4, <3>1, <3>2 DEF ProcsOf
    <3>3. CASE UidOf[q] # u
      <4>1. oom[q] = prio[q]
        BY <1>a, <2>1, <3>3 DEF IInv, KernelInv
      <4> QED BY <1>4, <3>1, <3>3, <4>1 DEF ProcsOf
    <3> QED BY <3>2, <3>3
  <2> QED BY <2>1 DEF KernelInv
<1> QED BY <1>5, <1>6, <1>7, <1>8 DEF IInv

\* The status caps the level of the process in hand, and its bundle leaves the list.
LEMMA CapStep ==
  ASSUME IInv, CapPriority
  PROVE  IInv'
<1>1. /\ stage = "cap" /\ stage' = "min"
      /\ minimum' = RECLAIM_PRIORITY_UNKNOWN
      /\ UNCHANGED <<life, oom, known, status, starting, toMe, fromMe, bundles, bprio, accounts,
                     killList, timerVars, overtaken, target, todo, dirty, pending, locked>>
  BY DEF CapPriority
<1>2. PICK p \in Pid : target = {p} /\ dirty = {UidOf[p]}
  BY <1>1 DEF IInv, JobInv, OwnStages
<1> DEFINE u == UidOf[p]
<1>3. /\ todo = {} /\ pending = {} /\ ~locked /\ u \in Uid
      /\ InHand = {u} /\ InHand' = {u}
  BY <1>1, <1>2, ConstantsAssumption DEF IInv, JobInv, OwnStages, InHand
<1>4. PICK seen \in {prio[p], minimum} :
        /\ prio' = IF p \in known THEN [prio EXCEPT ![p] = Capped(p, seen, status[p])] ELSE prio
        /\ prioSet' = Listed(prioSet \ {<<bprio[u], u>>})
  BY <1>2 DEF CapPriority
<1>5. prioSet' = IF overtaken THEN {} ELSE prioSet \ {<<bprio[u], u>>}
  BY <1>1, <1>4 DEF Listed
<1>6. Capped(p, seen, status[p]) \in Priority
  <2>1. seen \in Priority
    BY <1>4 DEF IInv, TypeOK
  <2> QED BY <2>1, PriorityByStatusType
<1>7. prio' \in [Pid -> Priority] /\ \A q \in Pid : q # p => prio'[q] = prio[q]
  BY <1>4, <1>6 DEF IInv, TypeOK
<1>8. TypeOK'
  <2>1. prioSet' \in SUBSET (Priority \X Uid)
    BY <1>5 DEF IInv, TypeOK
  <2> QED BY <1>1, <1>7, <2>1, LevelTypes DEF IInv, TypeOK, timerVars
<1>9. StartHasTimer' /\ RecordInv' /\ TodoInv'
  BY <1>1 DEF IInv, StartHasTimer, RecordInv, TodoInv, timerVars
<1>10. ListMatchesTable'
  BY <1>1, <1>3, <1>5 DEF IInv, ListMatchesTable
<1>11. CoverInv'
  <2>1. \A r \in known : UidOf[r] # u => r \in Pid /\ prio'[r] = prio[r]
    BY <1>7 DEF IInv, TypeOK
  <2> QED BY <1>1, <1>3, <2>1 DEF IInv, CoverInv
<1>12. JobInv'
  BY <1>1, <1>2, <1>3 DEF JobInv, OwnStages, ExtensionStages
<1>13. HandInv'
  <2>1. MinimumInv' /\ CapInv'
    BY <1>1 DEF MinimumInv, CapInv
  <2>2. TargetInv'
    BY <1>1 DEF IInv, HandInv, TargetInv
  <2>3. FileInv'
    BY <1>1, <1>3, <1>5 DEF FileInv
  <2> QED BY <2>1, <2>2, <2>3 DEF HandInv
<1>14. KernelInv'
  <2>1. ASSUME NEW r \in known \ starting, life[r] = "live", UidOf[r] \notin dirty, r # p
        PROVE  oom[r] = prio'[r]
    <3>1. r \in Pid /\ oom[r] = prio[r]
      BY <1>1, <1>2, <1>3, <2>1 DEF IInv, TypeOK, KernelInv
    <3> QED BY <1>7, <2>1, <3>1
  <2> QED BY <1>1, <1>2, <1>3, <2>1 DEF KernelInv
<1>15. SystemInv'
  <2>1. BmsMayFail \/ u \notin KeepAlive \cup XmlKillable
    BY <1>2 DEF IInv, HandInv, TargetInv
  <2>2. \A r \in known : UidOf[r] # u => r \in Pid /\ prio'[r] = prio[r]
    BY <1>7 DEF IInv, TypeOK
  <2> QED BY <1>1, <2>1, <2>2 DEF IInv, SystemInv
<1> QED BY <1>8, <1>9, <1>10, <1>11, <1>12, <1>13, <1>14, <1>15 DEF IInv

\* The handler reads the least priority in the bundle in hand.
LEMMA ReadMinimumStep ==
  ASSUME IInv, ReadMinimum
  PROVE  IInv'
<1>1. /\ \/ stage = "min" /\ stage' = "file"
         \/ stage = "extMin" /\ stage' = "extFile"
      /\ UNCHANGED <<life, oom, procVars, bundleVars, killList, timerVars, target, todo, dirty,
                     pending, locked>>
  BY DEF ReadMinimum
<1>2. PICK p \in target : minimum' = BundlePriority(UidOf[p], known, prio)
  BY DEF ReadMinimum
<1> DEFINE u == UidOf[p]
<1>3. target = {p} /\ pending = {} /\ ~locked /\ p \in Pid
  BY <1>1, <1>2 DEF IInv, JobInv, OwnStages, ExtensionStages
<1>4. InHand = {u} /\ InHand' = {u}
  BY <1>1, <1>3 DEF InHand
<1> USE DEF procVars, bundleVars, timerVars
<1>5. minimum' \in Priority /\ \A q \in known : UidOf[q] = u => minimum' <= prio[q]
  <2>1. known \in SUBSET Pid /\ prio \in [Pid -> Priority]
    BY DEF IInv, TypeOK
  <2> QED BY <1>2, <2>1, BundlePriorityFacts
<1>6. TypeOK'
  BY <1>1, <1>5 DEF IInv, TypeOK
<1>7. ListMatchesTable' /\ CoverInv'
  BY <1>1, <1>4 DEF IInv, ListMatchesTable, CoverInv
<1>8. StartHasTimer' /\ RecordInv' /\ TodoInv' /\ SystemInv'
  BY <1>1 DEF IInv, StartHasTimer, RecordInv, TodoInv, SystemInv
<1>9. JobInv'
  BY <1>1 DEF IInv, JobInv, OwnStages, ExtensionStages
<1>10. KernelInv'
  BY <1>1 DEF IInv, KernelInv
<1>11. HandInv'
  <2>1. MinimumInv'
    BY <1>1, <1>4, <1>5 DEF MinimumInv
  <2>2. FileInv'
    BY <1>1, <1>2, <1>4 DEF IInv, HandInv, FileInv
  <2>3. TargetInv' /\ CapInv'
    BY <1>1 DEF IInv, HandInv, TargetInv, CapInv
  <2> QED BY <2>1, <2>2, <2>3 DEF HandInv
<1> QED BY <1>6, <1>7, <1>8, <1>9, <1>10, <1>11 DEF IInv

\* The bundle in hand gets the minimum that was read and goes back into the list: there
\* is no other entry for it, unless an ability start has filed it under that minimum.
LEMMA FileFacts ==
  ASSUME IInv, FileBundle, stage \in {"file", "extFile"}
  PROVE  /\ bprio' \in [Uid -> Priority]
         /\ prioSet' \in SUBSET (Priority \X Uid)
         /\ overtaken' = overtaken
         /\ target' = {} /\ minimum' = RECLAIM_PRIORITY_UNKNOWN
         /\ UNCHANGED <<life, oom, procVars, bundles, accounts, killList, timerVars, dirty, locked>>
         /\ \E p \in Pid : target = {p}
         /\ pending = {} /\ ~locked /\ \E u \in Uid : dirty = {u}
         /\ ListMatchesTable' /\ CoverInv' /\ HandInv'
<1>1. /\ bprio' = [u \in Uid |-> IF u \in bundles \cap InHand THEN minimum ELSE bprio[u]]
      /\ overtaken' = overtaken
      /\ prioSet' = IF overtaken THEN {} ELSE prioSet \cup {<<minimum, u>> : u \in bundles \cap InHand}
      /\ target' = {} /\ minimum' = RECLAIM_PRIORITY_UNKNOWN
      /\ UNCHANGED <<life, oom, procVars, bundles, accounts, killList, timerVars, dirty, locked>>
  BY DEF FileBundle, Listed
<1>2. /\ \E p \in Pid : target = {p}
      /\ pending = {} /\ ~locked /\ \E u \in Uid : dirty = {u}
  BY DEF IInv, JobInv, OwnStages, ExtensionStages
<1>3. minimum \in Priority /\ bundles \in SUBSET Uid
  BY DEF IInv, TypeOK
<1>4. bprio' \in [Uid -> Priority]
  BY <1>1, <1>3 DEF IInv, TypeOK
<1>5. prioSet' \in SUBSET (Priority \X Uid)
  <2>1. \A u \in bundles \cap InHand : <<minimum, u>> \in Priority \X Uid
    BY <1>3
  <2> QED BY <1>1, <2>1 DEF IInv, TypeOK
<1>6. InHand' = {}
  BY <1>1 DEF InHand
<1>7. ASSUME ~overtaken
      PROVE  /\ prioSet' \subseteq {<<bprio'[u], u>> : u \in bundles}
             /\ \A u \in bundles : <<bprio'[u], u>> \in prioSet'
  <2>1. /\ prioSet \subseteq {<<bprio[u], u>> : u \in bundles}
        /\ \A u \in bundles \ InHand : <<bprio[u], u>> \in prioSet
    BY <1>7 DEF IInv, ListMatchesTable
  <2>2. ASSUME NEW u \in bundles, <<bprio[u], u>> \in prioSet PROVE bprio'[u] = bprio[u]
    <3>1. u \in InHand => bprio[u] = minimum
      BY <1>7, <2>2 DEF IInv, HandInv, FileInv
    <3> QED BY <1>1, <1>3, <3>1
  <2>3. \A u \in bundles \cap InHand : bprio'[u] = minimum
    BY <1>1, <1>3
  <2>4. \A u \in bundles \ InHand : bprio'[u] = bprio[u]
    BY <1>1, <1>3
  <2>5. prioSet' \subseteq {<<bprio'[u], u>> : u \in bundles}
    <3>1. ASSUME NEW x \in prioSet PROVE x \in {<<bprio'[u], u>> : u \in bundles}
      <4>1. PICK u \in bundles : x = <<bprio[u], u>>
        BY <2>1, <3>1
      <4>2. bprio'[u] = bprio[u]
        BY <2>2, <3>1, <4>1
      <4> QED BY <4>1, <4>2
    <3>2. \A u \in bundles \cap InHand : <<minimum, u>> \in {<<bprio'[v], v>> : v \in bundles}
      BY <2>3
    <3> QED BY <1>1, <1>7, <3>1, <3>2
  <2>6. \A u \in bundles : <<bprio'[u], u>> \in prioSet'
    BY <1>1, <1>7, <2>1, <2>3, <2>4
  <2> QED BY <2>5, <2>6
<1>8. ListMatchesTable'
  <2>1. known' = known
    BY <1>1 DEF procVars
  <2> QED BY <1>1, <1>6, <1>7, <2>1 DEF IInv, ListMatchesTable
<1>9. CoverInv'
  <2> SUFFICES ASSUME NEW p \in known
               PROVE  \/ bprio'[UidOf[p]] <= prio[p]
                      \/ p \in starting /\ bprio'[UidOf[p]] >= RECLAIM_PRIORITY_FOREGROUND
    BY <1>1 DEF CoverInv, procVars
  <2>1. UidOf[p] \in Uid /\ UidOf[p] \in bundles
    BY ConstantsAssumption DEF IInv, TypeOK, ListMatchesTable
  <2>2. CASE UidOf[p] \in InHand
    <3>1. bprio'[UidOf[p]] = minimum
      BY <1>1, <2>1, <2>2
    <3> QED BY <2>2, <3>1 DEF IInv, HandInv, MinimumInv
  <2>3. CASE UidOf[p] \notin InHand
    <3>1. bprio'[UidOf[p]] = bprio[UidOf[p]]
      BY <1>1, <2>1, <2>3
    <3> QED BY <2>3, <3>1 DEF IInv, CoverInv
  <2> QED BY <2>2, <2>3
<1>10. HandInv'
  BY <1>1, EmptyHand
<1> QED BY <1>1, <1>2, <1>4, <1>5, <1>8, <1>9, <1>10

\* The bundle of the process is filed, and its extensions are queued.
LEMMA FileOwnStep ==
  ASSUME IInv, FileOwn
  PROVE  IInv'
<1>1. stage = "file" /\ FileBundle /\ pending' = pending
  BY DEF FileOwn
<1>2. PICK p \in target : UpdatePriorityByProcForExtension(p)
  BY DEF FileOwn
<1>3. /\ bprio' \in [Uid -> Priority]
      /\ prioSet' \in SUBSET (Priority \X Uid)
      /\ overtaken' = overtaken
      /\ target' = {} /\ minimum' = RECLAIM_PRIORITY_UNKNOWN
      /\ UNCHANGED <<life, oom, procVars, bundles, accounts, killList, timerVars, dirty, locked>>
      /\ pending = {} /\ ~locked /\ \E u \in Uid : dirty = {u}
      /\ ListMatchesTable' /\ CoverInv' /\ HandInv'
  BY <1>1, FileFacts
<1>4. UNCHANGED <<life, oom, known, prio, status, starting, toMe, fromMe, startTimer, createCheck>>
  BY <1>3 DEF procVars, timerVars
<1>5. /\ stage' \in {"set", "hang"}
      /\ todo' \in SUBSET (Priority \X Pid)
      /\ \A e \in todo' : "extension" \in status'[e[2]]
  <2>1. prio' \in [Pid -> Priority] /\ toMe' \in [Pid -> SUBSET Pid]
    BY <1>4 DEF IInv, TypeOK
  <2> QED BY <1>2, <2>1, ForExtension
<1>6. TypeOK'
  BY <1>1, <1>3, <1>4, <1>5, LevelTypes DEF IInv, TypeOK
<1>7. StartHasTimer' /\ RecordInv' /\ SystemInv'
  BY <1>3, <1>4 DEF IInv, StartHasTimer, RecordInv, SystemInv
<1>8. JobInv' /\ TodoInv'
  BY <1>1, <1>3, <1>5 DEF JobInv, TodoInv, OwnStages, ExtensionStages
<1>9. KernelInv'
  <2>1. \A q \in target : UidOf[q] \in dirty
    BY <1>1 DEF IInv, JobInv, OwnStages
  <2>2. ASSUME NEW r \in known \ starting, life[r] = "live", UidOf[r] \notin dirty
        PROVE  oom[r] = prio[r]
    <3>1. r \notin target
      BY <2>1, <2>2
    <3> QED BY <1>1, <1>3, <2>2, <3>1 DEF IInv, KernelInv
  <2> QED BY <1>1, <1>3, <1>4, <1>5, <2>2 DEF KernelInv
<1> QED BY <1>3, <1>6, <1>7, <1>8, <1>9 DEF IInv

\* The bundle of an extension is filed, and its priority is on its way to the kernel.
LEMMA FileExtensionStep ==
  ASSUME IInv, FileExtension
  PROVE  IInv'
<1>1. /\ stage = "extFile" /\ FileBundle /\ stage' = "set" /\ todo' = todo
      /\ pending' = {<<p, prio[p]>> : p \in target \cap known}
  BY DEF FileExtension
<1>2. /\ bprio' \in [Uid -> Priority]
      /\ prioSet' \in SUBSET (Priority \X Uid)
      /\ overtaken' = overtaken
      /\ target' = {} /\ minimum' = RECLAIM_PRIORITY_UNKNOWN
      /\ UNCHANGED <<life, oom, procVars, bundles, accounts, killList, timerVars, dirty, locked>>
      /\ pending = {} /\ ~locked /\ \E u \in Uid : dirty = {u}
      /\ ListMatchesTable' /\ CoverInv' /\ HandInv'
  BY <1>1, FileFacts
<1>3. UNCHANGED <<life, oom, known, prio, status, starting, toMe, fromMe, startTimer, createCheck>>
  BY <1>2 DEF procVars, timerVars
<1>4. pending' \in SUBSET (Pid \X Priority)
  BY <1>1 DEF IInv, TypeOK
<1>5. TypeOK'
  BY <1>1, <1>2, <1>3, <1>4, LevelTypes DEF IInv, TypeOK
<1>6. StartHasTimer' /\ RecordInv' /\ SystemInv' /\ TodoInv'
  BY <1>1, <1>2, <1>3 DEF IInv, StartHasTimer, RecordInv, SystemInv, TodoInv
<1>7. JobInv'
  BY <1>1, <1>2 DEF JobInv, OwnStages, ExtensionStages
<1>8. KernelInv'
  <2>1. ASSUME NEW r \in known \ starting, life[r] = "live", UidOf[r] \notin dirty
        PROVE  oom[r] = prio[r] \/ <<r, prio[r]>> \in pending'
    <3>1. CASE r \in target
      BY <1>1, <2>1, <3>1
    <3>2. CASE r \notin target
      BY <1>1, <1>2, <2>1, <3>2 DEF IInv, KernelInv
    <3> QED BY <3>1, <3>2
  <2>2. \A w \in pending' : w[2] = prio[w[1]]
    BY <1>1
  <2> QED BY <1>1, <1>2, <1>3, <2>1, <2>2 DEF KernelInv
<1> QED BY <1>2, <1>5, <1>6, <1>7, <1>8 DEF IInv

\* The end of the handler that runs without the lock.
LEMMA UnlockedStep ==
  ASSUME IInv, ReadUnlocked \/ WriteUnlocked \/ ReturnUnlocked
  PROVE  IInv'
<1>1. UNCHANGED <<life, procVars, bundleVars, killList, timerVars, target, minimum, todo, locked>>
  BY DEF ReadUnlocked, WriteUnlocked, ReturnUnlocked
<1> USE <1>1 DEF procVars, bundleVars, timerVars
<1>a. stage \notin OwnStages \cup ExtensionStages
  BY DEF ReadUnlocked, WriteUnlocked, ReturnUnlocked, IInv, JobInv, OwnStages, ExtensionStages
<1>b. target = {} /\ InHand = {} /\ InHand' = {} /\ minimum = RECLAIM_PRIORITY_UNKNOWN
  BY <1>a, IdleHand DEF InHand
<1>2. ListMatchesTable' /\ CoverInv' /\ StartHasTimer' /\ HandInv'
  <2>1. HandInv'
    BY <1>b, EmptyHand
  <2> QED BY <1>b, <2>1 DEF IInv, ListMatchesTable, CoverInv, StartHasTimer
<1>3. RecordInv' /\ TodoInv' /\ SystemInv'
  BY DEF IInv, RecordInv, TodoInv, SystemInv
<1>4. TypeOK' /\ JobInv' /\ KernelInv'
  <2>1. CASE ReadUnlocked
    <3>1. /\ stage = "set" /\ todo = {} /\ pending = {} /\ ~locked /\ stage' = "write"
          /\ pending' = {<<p, prio[p]>> : p \in {q \in known : UidOf[q] \in dirty}}
          /\ UNCHANGED <<oom, dirty>>
      BY <2>1 DEF ReadUnlocked
    <3>2. TypeOK'
      BY <3>1 DEF IInv, TypeOK
    <3>3. JobInv'
      BY <1>b, <3>1 DEF IInv, JobInv, OwnStages, ExtensionStages
    <3>4. KernelInv'
      <4>1. ASSUME NEW q \in known \ starting, life[q] = "live"
            PROVE  oom[q] = prio[q] \/ <<q, prio[q]>> \in pending'
        BY <1>b, <3>1, <4>1 DEF IInv, KernelInv
      <4>2. \A w \in pending' : w[2] = prio[w[1]]
        BY <3>1
      <4> QED BY <3>1, <4>1, <4>2 DEF KernelInv
    <3> QED BY <3>2, <3>3, <3>4
  <2>2. CASE WriteUnlocked
    <3>1. PICK w \in pending :
            /\ pending' = pending \ {w}
            /\ oom' = IF Alive(w[1]) THEN [oom EXCEPT ![w[1]] = w[2]] ELSE oom
      BY <2>2 DEF WriteUnlocked
    <3>2. UNCHANGED <<stage, dirty>>
      BY <2>2 DEF WriteUnlocked
    <3>3. w[1] \in Pid /\ w[2] \in Priority /\ w = <<w[1], w[2]>>
      BY DEF IInv, TypeOK
    <3>4. TypeOK'
      BY <3>1, <3>2, <3>3 DEF IInv, TypeOK
    <3>5. JobInv'
      BY <1>a, <1>b, <3>1, <3>2 DEF IInv, JobInv, OwnStages, ExtensionStages
    <3>6. KernelInv'
      <4>1. ASSUME NEW q \in known \ starting, life[q] = "live",
                   stage = "write" \/ UidOf[q] \notin dirty
            PROVE  oom'[q] = prio[q] \/ <<q, prio[q]>> \in pending'
        <5>1. q \in Pid /\ Alive(q)
          BY <4>1 DEF IInv, TypeOK, Alive
        <5>2. CASE w[1] = q
          <6>1. w[2] = prio[q]
            BY <4>1, <5>2 DEF IInv, KernelInv
          <6> QED BY <3>1, <3>3, <5>1, <5>2, <6>1 DEF IInv, TypeOK
        <5>3. CASE w[1] # q
          <6>1. oom'[q] = oom[q]
            BY <3>1, <3>3, <5>1, <5>3 DEF IInv, TypeOK
          <6>2. oom[q] = prio[q] \/ <<q, prio[q]>> \in pending
            BY <1>b, <4>1 DEF IInv, KernelInv
          <6> QED BY <3>1, <3>3, <5>3, <6>1, <6>2
        <5> QED BY <5>2, <5>3
      <4>2. \A x \in pending' : x[1] \in known \ starting => x[2] = prio[x[1]]
        BY <3>1 DEF IInv, KernelInv
      <4> QED BY <3>2, <4>1, <4>2 DEF KernelInv
    <3> QED BY <3>4, <3>5, <3>6
  <2>3. CASE ReturnUnlocked
    <3>1. stage = "write" /\ pending = {} /\ stage' = "idle" /\ dirty' = {} /\ UNCHANGED <<oom, pending>>
      BY <2>3 DEF ReturnUnlocked
    <3>2. todo = {} /\ ~locked
      BY <1>b, <3>1 DEF IInv, JobInv, OwnStages, ExtensionStages
    <3>3. TypeOK'
      BY <3>1 DEF IInv, TypeOK
    <3>4. JobInv'
      BY <1>b, <3>1, <3>2 DEF JobInv, OwnStages, ExtensionStages
    <3>5. KernelInv'
      BY <1>b, <3>1 DEF IInv, KernelInv
    <3> QED BY <3>3, <3>4, <3>5
  <2> QED BY <2>1, <2>2, <2>3
<1> QED BY <1>2, <1>3, <1>4 DEF IInv

-----------------------------------------------------------------------------
(* The theorems.                                                           *)

\* Every step of the manager preserves the invariant.
LEMMA NextInv == IInv /\ [Next]_vars => IInv'
<1> SUFFICES ASSUME IInv, [Next]_vars PROVE IInv'
  OBVIOUS
<1>1. CASE UNCHANGED vars
  <2> USE <1>1 DEF vars, procVars, bundleVars, timerVars, jobVars
  <2>1. TypeOK' /\ StartHasTimer'
    BY DEF IInv, TypeOK, StartHasTimer
  <2>2. ListMatchesTable' /\ CoverInv' /\ HandInv' /\ JobInv' /\ TodoInv'
    BY TableUntouched
  <2>3. RecordInv' /\ SystemInv' /\ KernelInv'
    BY DEF IInv, RecordInv, SystemInv, KernelInv
  <2> QED BY <2>1, <2>2, <2>3 DEF IInv
<1>2. ASSUME NEW p \in Pid, Spawn(p) \/ Exit(p) PROVE IInv'
  BY <1>2, EnvironmentStep
<1>3. ASSUME NEW p \in Pid, HandleCreateRender(p) PROVE IInv'
  BY <1>3, RenderStep
<1>4. ASSUME NEW p \in Pid, HandleCreateProcess(p) PROVE IInv'
  BY <1>4, CreateStep
<1>5. ASSUME NEW p \in Pid, ProcessTerminated(p) PROVE IInv'
  BY <1>5, TerminateStep
<1>6. ASSUME NEW p \in Pid, CheckCreateProcPriorityDelay(p) PROVE IInv'
  BY <1>6, CreateCheckStep
<1>7. ASSUME NEW p \in Pid, CheckAbilityStartCompleted(p) PROVE IInv'
  BY <1>7, StartTimerStep
<1>8. ASSUME NEW p \in Pid, HandleAbilityStart(p) PROVE IInv'
  BY <1>8, AbilityStartStep
<1>9. ASSUME NEW p \in Pid, NEW r \in Reasons \ {"APPLICATION_SUSPEND"}, NEW before \in BOOLEAN,
             HandleUpdateProcess(p, r, before)
      PROVE  IInv'
  <2>1. r \in DOMAIN ChangeProc
    BY ConstantsAssumption
  <2> QED BY <1>9, <2>1, UpdateProcessStep
<1>10. ASSUME NEW u \in Uid, HandleApplicationSuspend(u) PROVE IInv'
  BY <1>10, SuspendStep
<1>11. ASSUME NEW b \in Binds, NEW bind \in BOOLEAN, NEW before \in BOOLEAN,
              HandleExtensionProcess(b[1], b[2], bind, before)
       PROVE  IInv'
  <2>1. b[1] \in Pid /\ b[2] \in Pid
    BY ConstantsAssumption
  <2> QED BY <1>11, <2>1, ExtensionStep
<1>12. CASE FilterDiedProcess
  BY <1>12, FilterStep
<1>13. CASE SetConnectExtensionProcPrio
  BY <1>13, ConnectStep
<1>14. CASE ApplyReclaimPriority
  BY <1>14, ApplyStep
<1>15. CASE ReadUnlocked \/ WriteUnlocked \/ ReturnUnlocked
  BY <1>15, UnlockedStep
<1>16. CASE Reset
  BY <1>16, ResetStep
<1>17. CASE CapPriority
  BY <1>17, CapStep
<1>18. CASE ReadMinimum
  BY <1>18, ReadMinimumStep
<1>19. CASE FileOwn
  BY <1>19, FileOwnStep
<1>20. CASE FileExtension
  BY <1>20, FileExtensionStep
<1> QED BY <1>1, <1>2, <1>3, <1>4, <1>5, <1>6, <1>7, <1>8, <1>9, <1>10, <1>11, <1>12, <1>13,
           <1>14, <1>15, <1>16, <1>17, <1>18, <1>19, <1>20 DEF Next

\* IInv holds in every reachable state.
THEOREM Invariance == Spec => []IInv
BY InitInv, NextInv, PTL DEF Spec

\* No handler ever leaves a field outside its type; in particular every
\* priority the manager computes is an oom_score_adj the kernel accepts.
THEOREM TypeCorrect == Spec => []TypeOK
<1>1. IInv => TypeOK
  BY DEF IInv
<1> QED BY <1>1, Invariance, PTL

\* The bundle list the killer reads and the account table never disagree: the handlers
\* refile a bundle at every change of its priority, and what an ability start files
\* between the unlocked handler's erase and its insert is filed under the same key.
\* Nothing is claimed of the list once a start or a Reset has overtaken that insert.
THEOREM ListCorrect == Spec => []ListMatchesTable
<1>1. IInv => ListMatchesTable
  BY DEF IInv
<1> QED BY <1>1, Invariance, PTL

\* A bundle that is not in the unlocked handler's hand is never easier to kill than its
\* most important process, but for a process in the middle of an ability start: a minimum
\* that was read before the start may be set after it, and the end of the start refiles
\* the bundle whatever was set.
THEOREM BundleCorrect == Spec => []BundleCoversProcs
<1>1. IInv => BundleCoversProcs
  BY DEF IInv, CoverInv, BundleCoversProcs
<1> QED BY <1>1, Invariance, PTL

\* Every ability start under way has a pending CheckAbilityStartCompleted.
THEOREM TimerCorrect == Spec => []StartHasTimer
<1>1. IInv => StartHasTimer
  BY DEF IInv
<1> QED BY <1>1, Invariance, PTL

\* The kernel's oom_score_adj is the table's priority, also when
\* CheckCreateProcPriorityDelay wrote without the lock, but for the bundle that a handler
\* has still to write and the process whose record it has in hand.
THEOREM KernelCorrect == Spec => []KernelMirrorsTable
<1>1. IInv => KernelMirrorsTable
  <2> SUFFICES ASSUME IInv, NEW p \in known \ starting, life[p] = "live", UidOf[p] \notin dirty,
                      p \notin target, \A w \in pending : w[1] # p
               PROVE  oom[p] = prio[p]
    BY DEF KernelMirrorsTable
  <2>1. <<p, prio[p]>> \notin pending
    OBVIOUS
  <2> QED BY <2>1 DEF IInv, KernelInv
<1> QED BY <1>1, Invariance, PTL

\* While BMS answers, nothing moves a killable system app off its priority: the unlocked
\* handler never has one in hand either.
THEOREM SystemCorrect == Spec => []SystemAppsPinned
<1>1. IInv => SystemAppsPinned
  <2> SUFFICES ASSUME IInv, NEW u \in bundles, u \in KeepAlive \cup XmlKillable, ~BmsMayFail
               PROVE  bprio[u] <= RECLAIM_PRIORITY_KILLABLE_SYSTEM
    BY DEF SystemAppsPinned
  <2>1. PICK p \in known : UidOf[p] = u
    BY DEF IInv, ListMatchesTable
  <2>2. prio[p] <= RECLAIM_PRIORITY_KILLABLE_SYSTEM /\ p \notin starting
    BY <2>1 DEF IInv, SystemInv
  <2>3. u \notin InHand
    BY DEF IInv, HandInv, TargetInv, InHand
  <2>4. bprio[u] <= prio[p]
    BY <2>1, <2>2, <2>3 DEF IInv, CoverInv
  <2>5. bprio[u] \in Priority /\ prio[p] \in Priority
    BY <2>1 DEF IInv, TypeOK
  <2>6. bprio[u] \in Int /\ prio[p] \in Int
    BY <2>5, PriorityRange
  <2> QED BY <2>2, <2>4, <2>6 DEF RECLAIM_PRIORITY_KILLABLE_SYSTEM
<1> QED BY <1>1, Invariance, PTL

-----------------------------------------------------------------------------
(* What a step does, seen from the invariants of the sections that follow. *)

\* A step that touches no record, no bundle and no queue.
Quiet ==
  /\ UNCHANGED <<known, prio, status, starting, toMe, fromMe, bprio, killList, todo, target, minimum>>
  /\ \A q \in known : q \in createCheck' <=> q \in createCheck
  /\ stage' = "hang" <=> stage = "hang"
  /\ stage' = "cap" <=> stage = "cap"

\* A step that forgets the records of the processes in gone and the binds to them.
Forgets(gone) ==
  /\ RemoveProcs(gone)
  /\ \A q \in Pid : /\ toMe'[q] \subseteq toMe[q] /\ fromMe'[q] \subseteq fromMe[q]
                    /\ q \in gone => toMe'[q] = {} /\ fromMe'[q] = {}
  /\ \A u \in Uid : bprio'[u] \in {bprio[u], RECLAIM_PRIORITY_UNKNOWN,
                                   BundlePriority(u, known', prio')}
  /\ UNCHANGED <<killList, createCheck, todo, stage, target, minimum>>

\* A handler that sets the flags of process p and re-prioritises it, unless an
\* ability start of p is to be over first.
Handles(p) ==
  /\ stage = "idle"
  /\ p \in known
  /\ \A q \in Pid : q # p => status'[q] = status[q] /\ toMe'[q] = toMe[q]
  /\ starting' \in {starting, starting \ {p}}
  /\ \A q \in Pid : q # p => (q \in createCheck' <=> q \in createCheck)
  /\ \/ UpdatePriorityByProcStatus(p)
     \/ p \in starting' /\ UNCHANGED <<prio, bprio>> /\ NothingToPropagate
  /\ UNCHANGED <<known, killList, target, minimum>>

\* Such a handler for an event of p itself.
HandlesOwn(p) ==
  /\ Handles(p)
  /\ "extension" \in status'[p] <=> "extension" \in status[p]
  /\ UNCHANGED <<toMe, fromMe>>

\* Such a handler for extension t, of which c connects or disconnects.
HandlesBind(c, t, bind) ==
  /\ Handles(t)
  /\ UpdateExtensionStatusForCaller(c, t, bind)
  /\ status'[t] = (status[t] \ {"fg"}) \cup {"extension"}
  /\ toMe'[t] = IF bind THEN toMe[t] \cup {c} ELSE toMe[t] \ {c}
  /\ UNCHANGED createCheck

\* A connection of which only the caller's side is recorded.
SkipsBind(c, t, bind) ==
  /\ UpdateExtensionStatusForCaller(c, t, bind)
  /\ t \in known => \/ prio[t] <= RECLAIM_PRIORITY_KILLABLE_SYSTEM
                    \/ bprio[UidOf[t]] <= RECLAIM_PRIORITY_KILLABLE_SYSTEM
                    \/ UidOf[t] \in killList \cup KeepAlive
  /\ \A u \in killList' \ killList : u = UidOf[t] /\ u \in KeepAlive
  /\ UNCHANGED <<known, prio, status, starting, toMe, bprio, createCheck, todo, stage, target, minimum>>

\* A step of the unlocked handler while it has a record in hand, or takes one.
HandStep ==
  \/ \E p \in Pid : BaseStep(p)
  \/ CapPriority
  \/ ReadMinimum
  \/ FileOwn
  \/ FileExtension

\* Such a step changes priorities only.
LEMMA HandStepKeeps ==
  ASSUME HandStep
  PROVE  UNCHANGED <<known, status, starting, toMe, fromMe, killList>>
<1>1. ASSUME NEW p \in Pid, BaseStep(p) PROVE UNCHANGED <<known, status, starting, toMe, fromMe, killList>>
  BY <1>1 DEF BaseStep
<1>2. CASE CapPriority
  BY <1>2 DEF CapPriority
<1>3. CASE ReadMinimum
  BY <1>3 DEF ReadMinimum, procVars
<1>4. CASE FileOwn \/ FileExtension
  BY <1>4 DEF FileOwn, FileExtension, FileBundle, procVars
<1> QED BY <1>1, <1>2, <1>3, <1>4 DEF HandStep

\* Every step is one of these, or an action of which more must be known.
StepKind ==
  \/ Quiet
  \/ \E p \in Pid : HandleCreateProcess(p) \/ HandleAbilityStart(p) \/ HandlesOwn(p)
  \/ \E u \in Uid : "APPLICATION_SUSPEND" \in Reasons /\ HandleApplicationSuspend(u)
  \/ \E b \in Binds, bind \in BOOLEAN :
       HandlesBind(b[1], b[2], bind) \/ SkipsBind(b[1], b[2], bind)
  \/ \E gone \in SUBSET Pid : Forgets(gone)
  \/ SetConnectExtensionProcPrio
  \/ HandStep

\* The three ways to lose records: a termination, the died-process check, Reset.
LEMMA ForgettingSteps ==
  ASSUME IInv, (\E p \in Pid : ProcessTerminated(p)) \/ FilterDiedProcess \/ Reset
  PROVE  Quiet \/ \E gone \in SUBSET Pid : Forgets(gone)
<1>1. CASE FilterDiedProcess
  <2>1. PICK gone \in SUBSET Pid :
          /\ RemoveProcs(gone)
          /\ \A p \in Pid : /\ toMe'[p] \subseteq toMe[p] /\ fromMe'[p] \subseteq fromMe[p]
                            /\ p \in gone => toMe'[p] = {} /\ fromMe'[p] = {}
    BY <1>1, FilterForgets
  <2>2. /\ RemoveBundles({u \in bundles : ProcsOf(u, known') = {}})
        /\ UNCHANGED <<killList, timerVars, jobVars>>
    BY <1>1 DEF FilterDiedProcess
  <2>3. \A u \in Uid : bprio'[u] \in {bprio[u], RECLAIM_PRIORITY_UNKNOWN}
    BY <2>2 DEF RemoveBundles
  <2>4. Forgets(gone)
    BY <2>1, <2>2, <2>3 DEF Forgets, timerVars, jobVars
  <2> QED BY <2>4
<1>2. CASE Reset
  <2>1. Forgets(known)
    BY <1>2 DEF Reset, Forgets, timerVars, jobVars
  <2> QED BY <2>1 DEF IInv, TypeOK
<1>3. ASSUME NEW p \in Pid, ProcessTerminated(p)
      PROVE  Quiet \/ \E gone \in SUBSET Pid : Forgets(gone)
  <2>1. UNCHANGED <<killList, timerVars, jobVars>>
    BY <1>3 DEF ProcessTerminated
  <2>2. CASE UNCHANGED <<procVars, bundleVars>>
    BY <2>1, <2>2 DEF Quiet, procVars, bundleVars, timerVars, jobVars
  <2>3. CASE HandleTerminateProcess(p)
    <3>1. /\ RemoveProcs({p})
          /\ toMe' = [toMe EXCEPT ![p] = {}]
          /\ fromMe' = [fromMe EXCEPT ![p] = {}]
      BY <2>3 DEF HandleTerminateProcess
    <3>2. ASSUME NEW u \in Uid
          PROVE  bprio'[u] \in {bprio[u], RECLAIM_PRIORITY_UNKNOWN, BundlePriority(u, known', prio')}
      <4>1. \/ RemoveBundles({UidOf[p]})
            \/ UpdateBundlePriority(UidOf[p])
            \/ bprio' = bprio
        BY <2>3 DEF HandleTerminateProcess
      <4>2. CASE RemoveBundles({UidOf[p]})
        BY <4>2 DEF RemoveBundles
      <4>3. CASE UpdateBundlePriority(UidOf[p])
        BY <4>3 DEF UpdateBundlePriority, IInv, TypeOK
      <4> QED BY <4>1, <4>2, <4>3
    <3>3. Forgets({p})
      BY <2>1, <3>1, <3>2 DEF Forgets, timerVars, jobVars, IInv, TypeOK
    <3> QED BY <3>3
  <2> QED BY <1>3, <2>2, <2>3 DEF ProcessTerminated
<1> QED BY <1>1, <1>2, <1>3

\* The handlers that re-prioritise a process for an event of its own.
LEMMA OwnSteps ==
  ASSUME IInv, NEW p \in Pid,
         \/ CheckCreateProcPriorityDelay(p)
         \/ CheckAbilityStartCompleted(p)
         \/ \E r \in DOMAIN ChangeProc, before \in BOOLEAN : HandleUpdateProcess(p, r, before)
  PROVE  Quiet \/ HandlesOwn(p) \/ BaseStep(p)
<1>1. CASE CheckCreateProcPriorityDelay(p)
  <2>1. /\ UNCHANGED <<known, status, starting, toMe, fromMe, bundleVars, killList>>
        /\ stage = "idle"
        /\ createCheck' = createCheck \ {p}
    BY <1>1 DEF CheckCreateProcPriorityDelay, Idle
  <2>2. CASE p \notin known /\ UNCHANGED <<prio, jobVars>>
    BY <2>1, <2>2 DEF Quiet, bundleVars, jobVars
  <2>3. CASE /\ p \in known /\ bprio[UidOf[p]] < RECLAIM_PRIORITY_FOREGROUND
             /\ UNCHANGED prio /\ NothingToPropagate /\ Begin(UidOf[p], FALSE)
    <3>1. UpdatePriorityByProcStatus(p)
      BY <2>1, <2>3 DEF UpdatePriorityByProcStatus, bundleVars
    <3>2. UNCHANGED <<target, minimum>>
      BY <2>3 DEF Begin
    <3> QED BY <2>1, <2>3, <3>1, <3>2 DEF HandlesOwn, Handles
  <2>4. CASE /\ p \in known
             /\ bprio[UidOf[p]] >= RECLAIM_PRIORITY_FOREGROUND
             /\ prio' = [prio EXCEPT ![p] = BaseLevel(prio[p], status[p])]
             /\ stage' = "cap"
             /\ target' = {p}
             /\ minimum' = prio'[p]
             /\ dirty' = {UidOf[p]}
             /\ locked' = FALSE
             /\ UNCHANGED <<todo, pending>>
    BY <1>1, <2>4 DEF CheckCreateProcPriorityDelay, BaseStep
  <2> QED BY <1>1, <2>2, <2>3, <2>4 DEF CheckCreateProcPriorityDelay
<1>2. CASE CheckAbilityStartCompleted(p)
  <2>1. CASE UNCHANGED <<starting, prio, bprio, prioSet, jobVars>>
    BY <1>2, <2>1 DEF CheckAbilityStartCompleted, Quiet, jobVars
  <2>2. CASE /\ p \in known \cap starting /\ starting' = starting \ {p} /\ UpdatePriorityByProcStatus(p)
             /\ Begin(UidOf[p], TRUE)
    BY <1>2, <2>2 DEF CheckAbilityStartCompleted, HandlesOwn, Handles, Idle, Begin
  <2> QED BY <1>2, <2>1, <2>2 DEF CheckAbilityStartCompleted
<1>3. ASSUME NEW r \in DOMAIN ChangeProc, NEW before \in BOOLEAN, HandleUpdateProcess(p, r, before)
      PROVE  HandlesOwn(p)
  <2>1. /\ stage = "idle" /\ p \in known
        /\ status' = [status EXCEPT ![p] = (@ \cup ChangeProc[r].on) \ ChangeProc[r].off]
        /\ UNCHANGED <<known, toMe, fromMe, killList, createCheck, target, minimum>>
        /\ starting' \in {starting, starting \ {p}}
    BY <1>3 DEF HandleUpdateProcess, Idle, Begin
  <2>2. "extension" \notin ChangeProc[r].on /\ "extension" \notin ChangeProc[r].off
    BY DEF ChangeProc
  <2>3. /\ \A q \in Pid : q # p => status'[q] = status[q]
        /\ "extension" \in status'[p] <=> "extension" \in status[p]
    BY <2>1, <2>2 DEF IInv, TypeOK
  <2>4. \/ UpdatePriorityByProcStatus(p)
        \/ p \in starting' /\ UNCHANGED <<prio, bprio>> /\ NothingToPropagate
    BY <1>3 DEF HandleUpdateProcess
  <2> QED BY <2>1, <2>3, <2>4 DEF HandlesOwn, Handles
<1> QED BY <1>1, <1>2, <1>3

\* A bind or unbind, by what becomes of the extension's side.
LEMMA BindSteps ==
  ASSUME IInv, NEW c \in Pid, NEW t \in Pid, NEW bind \in BOOLEAN, NEW before \in BOOLEAN,
         HandleExtensionProcess(c, t, bind, before)
  PROVE  HandlesBind(c, t, bind) \/ SkipsBind(c, t, bind)
<1> DEFINE u == UidOf[t]
           system == \/ prio[t] <= RECLAIM_PRIORITY_KILLABLE_SYSTEM
                     \/ IsSystemBundle(u)
           answers == IF t \notin known \/ system THEN {TRUE} ELSE IsKillableSystemApp(u)
<1>1. /\ UNCHANGED <<known, starting, createCheck>>
      /\ stage = "idle"
      /\ UpdateExtensionStatusForCaller(c, t, bind)
  BY DEF HandleExtensionProcess, timerVars, Idle
<1>2. PICK skip \in answers :
        /\ killList' = IF skip /\ t \in known /\ ~system THEN killList \cup {u} ELSE killList
        /\ \/ /\ skip
              /\ UNCHANGED <<prio, status, toMe, bprio, prioSet, jobVars>>
           \/ /\ ~skip
              /\ UpdateExtensionStatusForTarget(c, t, bind, before)
  BY DEF HandleExtensionProcess
<1>3. TRUE \in IsKillableSystemApp(u) => u \in killList \/ u \in KeepAlive
  BY DEF IsKillableSystemApp
<1>4. CASE skip /\ UNCHANGED <<prio, status, toMe, bprio, prioSet, jobVars>>
  <2>1. skip = TRUE
    BY <1>2, <1>4 DEF IsKillableSystemApp
  <2>2. t \in known => system \/ u \in killList \/ u \in KeepAlive
    BY <1>2, <1>3, <2>1
  <2>3. \A v \in killList' \ killList : v = u /\ v \in KeepAlive
    BY <1>2, <1>3, <2>1
  <2> QED BY <1>1, <1>4, <2>2, <2>3 DEF SkipsBind, jobVars, IsSystemBundle
<1>5. CASE ~skip /\ UpdateExtensionStatusForTarget(c, t, bind, before)
  <2>1. t \in known /\ killList' = killList
    BY <1>2, <1>5
  <2>2. /\ status' = [status EXCEPT ![t] = (@ \ {"fg"}) \cup {"extension"}]
        /\ toMe' = [toMe EXCEPT ![t] = IF bind THEN @ \cup {c} ELSE @ \ {c}]
        /\ \/ UpdatePriorityByProcStatus(t)
           \/ t \in starting /\ UNCHANGED <<prio, bprio>> /\ NothingToPropagate
    BY <1>5 DEF UpdateExtensionStatusForTarget
  <2>a. UNCHANGED <<target, minimum>>
    BY <1>5 DEF UpdateExtensionStatusForTarget, Begin
  <2>3. Handles(t)
    BY <1>1, <2>1, <2>2, <2>a DEF Handles, IInv, TypeOK
  <2>4. /\ status'[t] = (status[t] \ {"fg"}) \cup {"extension"}
        /\ toMe'[t] = IF bind THEN toMe[t] \cup {c} ELSE toMe[t] \ {c}
    BY <2>2 DEF IInv, TypeOK
  <2> QED BY <1>1, <2>3, <2>4 DEF HandlesBind
<1> QED BY <1>2, <1>4, <1>5

\* What any step does.
LEMMA StepKinds == IInv /\ [Next]_vars => StepKind
<1> SUFFICES ASSUME IInv, [Next]_vars PROVE StepKind
  OBVIOUS
<1>1. CASE UNCHANGED vars
  BY <1>1 DEF vars, procVars, bundleVars, timerVars, jobVars, StepKind, Quiet
<1>2. ASSUME NEW p \in Pid, Spawn(p) \/ Exit(p) \/ HandleCreateRender(p) PROVE Quiet
  BY <1>2 DEF Spawn, Exit, HandleCreateRender, procVars, bundleVars, timerVars, jobVars, Quiet
<1>3. CASE ApplyReclaimPriority
  BY <1>3 DEF ApplyReclaimPriority, procVars, bundleVars, timerVars, StepKind, Quiet
<1>4. CASE ReadUnlocked \/ WriteUnlocked \/ ReturnUnlocked
  BY <1>4 DEF ReadUnlocked, WriteUnlocked, ReturnUnlocked, procVars, bundleVars, timerVars,
              StepKind, Quiet
<1>5. ASSUME NEW p \in Pid, NEW r \in Reasons \ {"APPLICATION_SUSPEND"}, NEW before \in BOOLEAN,
             HandleUpdateProcess(p, r, before)
      PROVE  StepKind
  <2>1. r \in DOMAIN ChangeProc
    BY ConstantsAssumption
  <2>2. Quiet \/ HandlesOwn(p) \/ BaseStep(p)
    BY <1>5, <2>1, OwnSteps
  <2> QED BY <2>2 DEF StepKind, HandStep
<1>6. ASSUME NEW p \in Pid, CheckCreateProcPriorityDelay(p) \/ CheckAbilityStartCompleted(p)
      PROVE  StepKind
  BY <1>6, OwnSteps DEF StepKind, HandStep
<1>7. ASSUME NEW b \in Binds, NEW bind \in BOOLEAN, NEW before \in BOOLEAN,
             HandleExtensionProcess(b[1], b[2], bind, before)
      PROVE  StepKind
  <2>1. b[1] \in Pid /\ b[2] \in Pid
    BY ConstantsAssumption
  <2>2. HandlesBind(b[1], b[2], bind) \/ SkipsBind(b[1], b[2], bind)
    BY <1>7, <2>1, BindSteps
  <2> QED BY <2>2 DEF StepKind
<1>8. CASE (\E p \in Pid : ProcessTerminated(p)) \/ FilterDiedProcess \/ Reset
  BY <1>8, ForgettingSteps DEF StepKind
<1>9. CASE CapPriority \/ ReadMinimum \/ FileOwn \/ FileExtension
  BY <1>9 DEF StepKind, HandStep
<1> QED BY <1>1, <1>2, <1>3, <1>4, <1>5, <1>6, <1>7, <1>8, <1>9 DEF Next, StepKind

-----------------------------------------------------------------------------
(* A bundle above a floor f <= FOREGROUND is never pushed below it, unless *)
(* the configuration itself puts one of its processes there: it is never   *)
(* taken for a system bundle and its events are never skipped.             *)

\* Nothing in the configuration puts a process of bundle u below f.
Floored(f, u) ==
  /\ u \notin KeepAlive \cup XmlKillable
  /\ \A q \in Important : UidOf[q] = u => ImportantPrio[q] >= f

\* No process of bundle u is below f, nor is what the unlocked handler is about to give
\* the bundle, and u is not held for a system app.
Above(f, u) ==
  /\ u \notin killList
  /\ bprio[u] >= f
  /\ u \in InHand => minimum >= f
  /\ \A q \in Pid : UidOf[q] = u => prio[q] >= f

\* The values of the levels.
LEMMA LevelValues ==
  ASSUME NEW st
  PROVE  /\ TaskLevel(st) \in {100, 200, 260, 1000}
         /\ VisibleLevel(st) \in {50, 1000}
<1>1. CASE "suspendDelay" \in st
  BY <1>1 DEF TaskLevel, VisibleLevel, RECLAIM_PRIORITY_BG_SUSPEND_DELAY,
              RECLAIM_PRIORITY_VISIBLE, RECLAIM_PRIORITY_UNKNOWN
<1>2. CASE "suspendDelay" \notin st /\ {"bgRunning", "event"} \cap st # {}
  BY <1>2 DEF TaskLevel, VisibleLevel, RECLAIM_PRIORITY_BG_PERCEIVED,
              RECLAIM_PRIORITY_VISIBLE, RECLAIM_PRIORITY_UNKNOWN
<1>3. CASE {"suspendDelay", "bgRunning", "event"} \cap st = {} /\ "dist" \in st
  BY <1>3 DEF TaskLevel, VisibleLevel, RECLAIM_PRIORITY_BG_DIST_DEVICE,
              RECLAIM_PRIORITY_VISIBLE, RECLAIM_PRIORITY_UNKNOWN
<1>4. CASE {"suspendDelay", "bgRunning", "event"} \cap st = {} /\ "dist" \notin st
  BY <1>4 DEF TaskLevel, VisibleLevel, RECLAIM_PRIORITY_VISIBLE, RECLAIM_PRIORITY_UNKNOWN
<1> QED BY <1>1, <1>2, <1>3, <1>4

\* A status change does not push a process below the floor, at none of its steps.
LEMMA PriorityByStatusFloor ==
  ASSUME NEW p \in Pid, NEW f \in Int, f <= 0, NEW old \in Int, old >= f, NEW st,
         p \in Important => ImportantPrio[p] >= f
  PROVE  /\ BaseLevel(old, st) >= f
         /\ Capped(p, old, st) >= f
         /\ PriorityByStatus(p, old, st) >= f
<1>1. BaseLevel(old, st) \in Int /\ BaseLevel(old, st) >= f
  <2>1. CASE "fg" \in st
    BY <2>1 DEF BaseLevel, Least, RECLAIM_PRIORITY_FOREGROUND
  <2>2. CASE {"fg", "extension"} \cap st = {}
    BY <2>2 DEF BaseLevel, RECLAIM_PRIORITY_BACKGROUND
  <2>3. CASE "fg" \notin st /\ "extension" \in st
    BY <2>3 DEF BaseLevel
  <2> QED BY <2>1, <2>2, <2>3
<1>2. ImportantLevel(p) \in Int /\ ImportantLevel(p) >= f
  <2>1. p \in Important => ImportantPrio[p] \in Int
    BY ConstantsAssumption, PriorityRange
  <2> QED BY <2>1 DEF ImportantLevel, RECLAIM_PRIORITY_UNKNOWN
<1>3. TaskLevel(st) \in Int /\ TaskLevel(st) >= f /\ VisibleLevel(st) \in Int /\ VisibleLevel(st) >= f
  BY LevelValues
<1>4. \A x \in Int : x >= f => Capped(p, x, st) >= f
  BY <1>2, <1>3 DEF Capped, Least
<1> QED BY <1>1, <1>4 DEF PriorityByStatus

\* Neither does the re-prioritisation of a connected extension.
LEMMA ExtensionPriorityFloor ==
  ASSUME TypeOK, NEW q \in Pid, NEW f \in Int, f <= 0,
         q \in Important => ImportantPrio[q] >= f
  PROVE  ExtensionPriority(q) >= f
<1> DEFINE g == GetPriorityByProcStatus(q, prio[q], status[q])
           st == status[q]
<1>1. q \in Important => ImportantPrio[q] \in Int
  BY ConstantsAssumption, PriorityRange
<1>2. g \in Int /\ g >= f
  <2>1. CASE q \in Important /\ prio[q] >= ImportantPrio[q]
    BY <1>1, <2>1 DEF GetPriorityByProcStatus
  <2>2. CASE ~(q \in Important /\ prio[q] >= ImportantPrio[q])
    <3>1. CASE "fg" \in st
      <4>1. g = 0
        BY <2>2, <3>1 DEF GetPriorityByProcStatus, RECLAIM_PRIORITY_FOREGROUND
      <4> QED BY <4>1
    <3>2. CASE "fg" \notin st /\ "visible" \in st
      <4>1. g = 50
        BY <2>2, <3>2 DEF GetPriorityByProcStatus, RECLAIM_PRIORITY_VISIBLE
      <4> QED BY <4>1
    <3>3. CASE {"fg", "visible"} \cap st = {}
      <4>1. g = Least(TaskLevel(st), IF "ui" \in st THEN RECLAIM_PRIORITY_BACKGROUND
                                                    ELSE RECLAIM_PRIORITY_UNKNOWN)
        BY <2>2, <3>3 DEF GetPriorityByProcStatus
      <4>2. TaskLevel(st) \in {100, 200, 260, 1000}
        BY LevelValues
      <4> QED BY <4>1, <4>2 DEF Least, RECLAIM_PRIORITY_BACKGROUND, RECLAIM_PRIORITY_UNKNOWN
    <3> QED BY <3>1, <3>2, <3>3
  <2> QED BY <2>1, <2>2
<1>3. ConnectorPriority(q) + 100 \in Int /\ ConnectorPriority(q) + 100 >= f
  BY ConnectorPriorityRange
<1> HIDE DEF g
<1>4. Least(g, ConnectorPriority(q) + 100) \in Int /\ Least(g, ConnectorPriority(q) + 100) >= f
  BY <1>2, <1>3 DEF Least
<1> QED BY <1>1, <1>4 DEF ExtensionPriority, Least, g

\* A bundle whose processes are above the floor is above it.
LEMMA BundlePriorityFloor ==
  ASSUME NEW u, NEW kn \in SUBSET Pid, NEW pr \in [Pid -> Priority], NEW f \in Int, f <= 0,
         \A q \in kn : UidOf[q] = u => pr[q] >= f
  PROVE  BundlePriority(u, kn, pr) >= f
<1> DEFINE S == {RECLAIM_PRIORITY_UNKNOWN} \cup {pr[p] : p \in ProcsOf(u, kn)}
<1>1. S \subseteq Priority /\ S # {}
  BY DEF ProcsOf, Priority, RECLAIM_PRIORITY_UNKNOWN, RECLAIM_PRIORITY_MIN, RECLAIM_PRIORITY_MAX
<1>2. \A x \in S : x >= f
  BY DEF ProcsOf, RECLAIM_PRIORITY_UNKNOWN
<1>3. BundlePriority(u, kn, pr) = IF Min(S) <= RECLAIM_PRIORITY_MIN THEN RECLAIM_PRIORITY_MIN
                                  ELSE Min(S)
  BY DEF BundlePriority
<1> HIDE DEF S
<1>4. Min(S) \in S
  BY <1>1, PriorityRange, MinPriority
<1>5. Min(S) \in Int /\ Min(S) >= f
  BY <1>1, <1>2, <1>4, PriorityRange
<1> QED BY <1>3, <1>5 DEF RECLAIM_PRIORITY_MIN

\* When only the bundle of p is refiled, any bundle stays above the floor if its processes do.
LEMMA AboveAfterUpdate ==
  ASSUME TypeOK, TypeOK', NEW u \in Uid, NEW v \in Uid, NEW f \in Int, f <= 0, Above(f, u),
         bprio' = bprio \/ UpdateBundlePriority(v),
         \A q \in Pid : UidOf[q] = u => prio'[q] >= f,
         u \notin killList',
         u \in InHand' => minimum' >= f
  PROVE  Above(f, u)'
<1>1. known' \in SUBSET Pid /\ prio' \in [Pid -> Priority]
  BY DEF TypeOK
<1>2. \A q \in known' : UidOf[q] = u => prio'[q] >= f
  BY <1>1
<1>3. BundlePriority(u, known', prio') >= f
  BY <1>1, <1>2, BundlePriorityFloor
<1>4. bprio'[u] = bprio[u] \/ bprio'[u] = BundlePriority(u, known', prio')
  BY DEF UpdateBundlePriority, TypeOK
<1> QED BY <1>3, <1>4 DEF Above

\* What a re-prioritising handler does to the priorities.
LEMMA HandlesPriorities ==
  ASSUME TypeOK, TypeOK', NEW p \in Pid, Handles(p)
  PROVE  /\ \A q \in Pid : q # p => prio'[q] = prio[q]
         /\ prio'[p] = prio[p] \/ prio'[p] = PriorityByStatus(p, prio[p], status'[p])
         /\ bprio' = bprio \/ UpdateBundlePriority(UidOf[p])
         /\ UNCHANGED <<target, minimum>>
BY DEF Handles, UpdatePriorityByProcStatus, TypeOK

\* The configured floor keeps: no step pushes the bundle below it.
LEMMA AboveStep ==
  ASSUME IInv, TypeOK', [Next]_vars, NEW u \in Uid, NEW f \in Int, f <= 0,
         Floored(f, u), Above(f, u)
  PROVE  Above(f, u)'
<1>1. /\ u \notin killList /\ u \notin KeepAlive
      /\ bprio[u] >= f
      /\ u \in InHand => minimum >= f
      /\ \A q \in Pid : UidOf[q] = u => prio[q] >= f
      /\ \A q \in Pid : UidOf[q] = u /\ q \in Important => ImportantPrio[q] >= f
  BY DEF Floored, Above
<1>2. \A q \in Pid : prio[q] \in Int
  BY PriorityRange DEF IInv, TypeOK
<1>3. TypeOK
  BY DEF IInv
<1>a. UNCHANGED <<target, minimum>> => (u \in InHand' => minimum' >= f)
  BY <1>1 DEF InHand
<1>4. CASE Quiet
  BY <1>1, <1>4, <1>a DEF Quiet, Above
<1>5. ASSUME NEW p \in Pid, HandleCreateProcess(p) PROVE Above(f, u)'
  <2>1. /\ UpdateBundlePriority(UidOf[p])
        /\ \E k \in IsKillableSystemApp(UidOf[p]) :
             /\ killList' = IF k THEN killList \cup {UidOf[p]} ELSE killList
             /\ prio' = IF p \in known THEN prio ELSE [prio EXCEPT ![p] = CreatePriority(p, k)]
    BY <1>5 DEF HandleCreateProcess
  <2>2. UidOf[p] \in Uid
    BY ConstantsAssumption
  <2>3. PICK k \in IsKillableSystemApp(UidOf[p]) :
             /\ killList' = IF k THEN killList \cup {UidOf[p]} ELSE killList
             /\ prio' = IF p \in known THEN prio ELSE [prio EXCEPT ![p] = CreatePriority(p, k)]
    BY <2>1
  <2>4. UidOf[p] = u => k = FALSE
    BY <1>1 DEF IsKillableSystemApp
  <2>5. u \notin killList'
    BY <1>1, <2>3, <2>4
  <2>6. ASSUME UidOf[p] = u PROVE CreatePriority(p, FALSE) >= f
    BY <1>1, <2>6 DEF CreatePriority, RECLAIM_PRIORITY_FOREGROUND
  <2>7. \A q \in Pid : UidOf[q] = u => prio'[q] >= f
    BY <1>1, <1>3, <2>3, <2>4, <2>6 DEF TypeOK
  <2>8. UNCHANGED <<target, minimum>>
    BY <1>5 DEF HandleCreateProcess, jobVars
  <2> QED BY <1>3, <1>a, <2>1, <2>2, <2>5, <2>7, <2>8, AboveAfterUpdate
<1>6. ASSUME NEW p \in Pid, HandleAbilityStart(p) PROVE Above(f, u)'
  <2>1. /\ UpdateBundlePriority(UidOf[p]) /\ killList' = killList
        /\ prio' = [prio EXCEPT ![p] = 0]
        /\ UNCHANGED <<target, minimum>>
    BY <1>6 DEF HandleAbilityStart, RECLAIM_PRIORITY_FOREGROUND, jobVars
  <2>2. UidOf[p] \in Uid
    BY ConstantsAssumption
  <2>3. \A q \in Pid : UidOf[q] = u => prio'[q] >= f
    BY <1>1, <1>3, <2>1 DEF TypeOK
  <2> QED BY <1>1, <1>3, <1>a, <2>1, <2>2, <2>3, AboveAfterUpdate
<1>7. ASSUME NEW p \in Pid, Handles(p) PROVE Above(f, u)'
  <2>1. /\ \A q \in Pid : q # p => prio'[q] = prio[q]
        /\ prio'[p] = prio[p] \/ prio'[p] = PriorityByStatus(p, prio[p], status'[p])
        /\ bprio' = bprio \/ UpdateBundlePriority(UidOf[p])
        /\ UNCHANGED <<target, minimum>>
    BY <1>3, <1>7, HandlesPriorities
  <2>2. UidOf[p] \in Uid /\ killList' = killList
    BY <1>7, ConstantsAssumption DEF Handles
  <2>3. UidOf[p] = u => PriorityByStatus(p, prio[p], status'[p]) >= f
    BY <1>1, <1>2, PriorityByStatusFloor
  <2>4. \A q \in Pid : UidOf[q] = u => prio'[q] >= f
    BY <1>1, <2>1, <2>3
  <2> QED BY <1>1, <1>3, <1>a, <2>1, <2>2, <2>4, AboveAfterUpdate
<1>8. ASSUME NEW v \in Uid, HandleApplicationSuspend(v) PROVE Above(f, u)'
  <2>1. /\ UpdateBundlePriority(v) /\ killList' = killList
        /\ prio' = [p \in Pid |-> IF p \in ProcsOf(v, known) THEN 800 ELSE prio[p]]
        /\ UNCHANGED <<target, minimum>>
    BY <1>8 DEF HandleApplicationSuspend, SuspendPriority, RECLAIM_PRIORITY_SUSPEND, jobVars
  <2>2. \A q \in Pid : UidOf[q] = u => prio'[q] >= f
    BY <1>1, <2>1
  <2> QED BY <1>1, <1>3, <1>a, <2>1, <2>2, AboveAfterUpdate
<1>9. ASSUME NEW c \in Pid, NEW t \in Pid, NEW bind \in BOOLEAN, SkipsBind(c, t, bind)
      PROVE  Above(f, u)'
  BY <1>1, <1>9, <1>a DEF SkipsBind, Above
<1>10. ASSUME NEW gone \in SUBSET Pid, Forgets(gone) PROVE Above(f, u)'
  <2>a. RemoveProcs(gone)
    BY <1>10 DEF Forgets
  <2>b. prio' = [p \in Pid |-> IF p \in gone THEN 1000 ELSE prio[p]]
    BY <2>a DEF RemoveProcs, RECLAIM_PRIORITY_UNKNOWN
  <2>c. bprio'[u] \in {bprio[u], 1000, BundlePriority(u, known', prio')}
    BY <1>10 DEF Forgets, RECLAIM_PRIORITY_UNKNOWN
  <2>d. killList' = killList /\ UNCHANGED <<target, minimum>>
    BY <1>10 DEF Forgets
  <2>1. /\ prio' = [p \in Pid |-> IF p \in gone THEN 1000 ELSE prio[p]]
        /\ bprio'[u] \in {bprio[u], 1000, BundlePriority(u, known', prio')}
        /\ killList' = killList /\ UNCHANGED <<target, minimum>>
    BY <2>b, <2>c, <2>d
  <2>2. \A q \in Pid : UidOf[q] = u => prio'[q] >= f
    BY <1>1, <2>1
  <2>3. known' \in SUBSET Pid /\ prio' \in [Pid -> Priority]
    BY DEF TypeOK
  <2>4. BundlePriority(u, known', prio') >= f
    BY <2>2, <2>3, BundlePriorityFloor
  <2> QED BY <1>1, <1>a, <2>1, <2>2, <2>4 DEF Above
<1>11. CASE SetConnectExtensionProcPrio
  <2>1. PICK e \in todo :
          \/ UNCHANGED <<prio, bprio>>
          \/ /\ prio' = [prio EXCEPT ![e[2]] = ExtensionPriority(e[2])]
             /\ bprio' = bprio \/ UpdateBundlePriority(UidOf[e[2]])
    BY <1>11 DEF SetConnectExtensionProcPrio
  <2>2. /\ e[2] \in Pid /\ UidOf[e[2]] \in Uid /\ killList' = killList
        /\ minimum' = minimum /\ stage = "set"
    BY <1>3, <1>11, ConstantsAssumption DEF TypeOK, SetConnectExtensionProcPrio
  <2>3. UidOf[e[2]] = u => ExtensionPriority(e[2]) >= f
    BY <1>1, <1>3, <2>2, ExtensionPriorityFloor
  <2>4. \A q \in Pid : UidOf[q] = u => prio'[q] >= f
    BY <1>1, <1>3, <2>1, <2>2, <2>3 DEF TypeOK
  <2>5. minimum' >= f
    BY <2>2, IdleHand DEF OwnStages, ExtensionStages, RECLAIM_PRIORITY_UNKNOWN
  <2> QED BY <1>1, <1>3, <2>1, <2>2, <2>4, <2>5, AboveAfterUpdate
<1>b. CASE HandStep
  <2>1. killList' = killList
    BY <1>b, HandStepKeeps
  <2>2. ASSUME NEW p \in Pid, BaseStep(p) PROVE Above(f, u)'
    <3>1. /\ prio' = [prio EXCEPT ![p] = BaseLevel(prio[p], status[p])]
          /\ target' = {p} /\ minimum' = prio'[p] /\ bprio' = bprio
      BY <2>2 DEF BaseStep, bundleVars
    <3>2. UidOf[p] = u => BaseLevel(prio[p], status[p]) >= f
      BY <1>1, <1>2, PriorityByStatusFloor
    <3>3. /\ \A q \in Pid : UidOf[q] = u => prio'[q] >= f
          /\ UidOf[p] = u => minimum' >= f
      BY <1>1, <1>3, <3>1, <3>2 DEF TypeOK
    <3>4. u \in InHand' => UidOf[p] = u
      BY <3>1 DEF InHand
    <3> QED BY <1>1, <2>1, <3>1, <3>3, <3>4 DEF Above
  <2>3. CASE CapPriority
    <3>1. /\ stage = "cap" /\ bprio' = bprio /\ target' = target
          /\ minimum' = RECLAIM_PRIORITY_UNKNOWN
      BY <2>3 DEF CapPriority
    <3>2. PICK p \in target : \E seen \in {prio[p], minimum} :
            prio' = prio \/ prio' = [prio EXCEPT ![p] = Capped(p, seen, status[p])]
      BY <2>3 DEF CapPriority
    <3>3. PICK seen \in {prio[p], minimum} :
            prio' = prio \/ prio' = [prio EXCEPT ![p] = Capped(p, seen, status[p])]
      BY <3>2
    <3>4. p \in Pid /\ minimum \in Int /\ UidOf[p] \in InHand
      BY <1>3, PriorityRange DEF TypeOK, InHand
    <3>5. UidOf[p] = u => seen \in Int /\ seen >= f
      BY <1>1, <1>2, <3>4
    <3>6. UidOf[p] = u => Capped(p, seen, status[p]) >= f
      BY <1>1, <3>4, <3>5, PriorityByStatusFloor
    <3>7. \A q \in Pid : UidOf[q] = u => prio'[q] >= f
      BY <1>1, <1>3, <3>3, <3>4, <3>6 DEF TypeOK
    <3>8. minimum' >= f
      BY <3>1 DEF RECLAIM_PRIORITY_UNKNOWN
    <3> QED BY <1>1, <2>1, <3>1, <3>7, <3>8 DEF Above
  <2>4. CASE ReadMinimum
    <3>1. UNCHANGED <<known, prio, bprio, target>>
      BY <2>4 DEF ReadMinimum, procVars, bundleVars
    <3>2. PICK p \in target : minimum' = BundlePriority(UidOf[p], known, prio)
      BY <2>4 DEF ReadMinimum
    <3>3. target = {p}
      BY <2>4, <3>2 DEF ReadMinimum, IInv, JobInv, OwnStages, ExtensionStages
    <3>4. known \in SUBSET Pid /\ prio \in [Pid -> Priority]
      BY <1>3 DEF TypeOK
    <3>5. BundlePriority(u, known, prio) >= f
      BY <1>1, <3>4, BundlePriorityFloor
    <3>6. u \in InHand' => minimum' >= f
      BY <3>1, <3>2, <3>3, <3>5 DEF InHand
    <3> QED BY <1>1, <2>1, <3>1, <3>6 DEF Above
  <2>5. CASE FileOwn \/ FileExtension
    <3>1. FileBundle
      BY <2>5 DEF FileOwn, FileExtension
    <3>2. prio' = prio /\ target' = {}
      BY <3>1 DEF FileBundle, procVars
    <3>a. bprio' = [v \in Uid |-> IF v \in bundles \cap InHand THEN minimum ELSE bprio[v]]
      BY <3>1 DEF FileBundle
    <3>c. bprio'[u] = IF u \in bundles \cap InHand THEN minimum ELSE bprio[u]
      <4> HIDE DEF InHand
      <4> QED BY <3>a
    <3>3. bprio'[u] = bprio[u] \/ (u \in InHand /\ bprio'[u] = minimum)
      BY <3>c
    <3>b. target' = {}
      BY <3>2
    <3>4. u \notin InHand'
      BY <3>b DEF InHand
    <3> QED BY <1>1, <2>1, <3>2, <3>3, <3>4 DEF Above
  <2> QED BY <1>b, <2>2, <2>3, <2>4, <2>5 DEF HandStep
<1>12. StepKind
  BY StepKinds
<1>13. \A b \in Binds : b[1] \in Pid /\ b[2] \in Pid
  BY ConstantsAssumption
<1> QED BY <1>4, <1>5, <1>6, <1>7, <1>8, <1>9, <1>10, <1>11, <1>12, <1>13, <1>b
        DEF StepKind, HandlesOwn, HandlesBind

\* At the start every bundle is above every floor that the configuration respects.
LEMMA AboveInit ==
  ASSUME Init, NEW u \in Uid, NEW f \in Int, f <= 0, Floored(f, u)
  PROVE  Above(f, u)
BY DEF Init, Above, Floored, InHand, RECLAIM_PRIORITY_UNKNOWN

-----------------------------------------------------------------------------
(* The bind graph.                                                         *)

\* A process without a record has no binds, and only an extension has clients.
BindInv ==
  /\ \A p \in Pid \ known : toMe[p] = {} /\ fromMe[p] = {}
  /\ \A p \in Pid : toMe[p] # {} => "extension" \in status[p]

\* What a bind does to the caller's side.
LEMMA CallerSide ==
  ASSUME TypeOK, NEW c \in Pid, NEW t \in Pid, NEW bind \in BOOLEAN,
         UpdateExtensionStatusForCaller(c, t, bind)
  PROVE  /\ \A q \in Pid : fromMe'[q] \subseteq fromMe[q] \cup {t}
         /\ \A q \in Pid : q # c => fromMe'[q] = fromMe[q]
         /\ \A q \in Pid \ known : fromMe'[q] = fromMe[q]
BY DEF UpdateExtensionStatusForCaller, TypeOK

\* BindInv is inductive.
LEMMA BindStep ==
  ASSUME IInv, TypeOK', [Next]_vars, BindInv
  PROVE  BindInv'
<1>1. TypeOK /\ (\A p \in Pid \ known : status[p] = {})
  BY DEF IInv, RecordInv
<1>2. CASE UNCHANGED <<known, status, toMe, fromMe>>
  BY <1>2 DEF BindInv
<1>3. ASSUME NEW p \in Pid, HandleCreateProcess(p) PROVE BindInv'
  BY <1>3 DEF HandleCreateProcess, BindInv
<1>4. ASSUME NEW p \in Pid, HandlesOwn(p) PROVE BindInv'
  BY <1>4 DEF HandlesOwn, Handles, BindInv
<1>5. ASSUME NEW b \in Binds, NEW bind \in BOOLEAN, HandlesBind(b[1], b[2], bind) PROVE BindInv'
  <2>1. b[1] \in Pid /\ b[2] \in Pid
    BY ConstantsAssumption
  <2>2. \A q \in Pid \ known : fromMe'[q] = fromMe[q]
    BY <1>1, <1>5, <2>1, CallerSide DEF HandlesBind
  <2>3. /\ known' = known /\ b[2] \in known
        /\ \A q \in Pid : q # b[2] => status'[q] = status[q] /\ toMe'[q] = toMe[q]
        /\ "extension" \in status'[b[2]]
    BY <1>5 DEF HandlesBind, Handles
  <2> QED BY <2>2, <2>3 DEF BindInv
<1>6. ASSUME NEW b \in Binds, NEW bind \in BOOLEAN, SkipsBind(b[1], b[2], bind) PROVE BindInv'
  <2>1. b[1] \in Pid /\ b[2] \in Pid
    BY ConstantsAssumption
  <2>2. \A q \in Pid \ known : fromMe'[q] = fromMe[q]
    BY <1>1, <1>6, <2>1, CallerSide DEF SkipsBind
  <2> QED BY <1>6, <2>2 DEF SkipsBind, BindInv
<1>7. ASSUME NEW gone \in SUBSET Pid, Forgets(gone) PROVE BindInv'
  <2>1. /\ known' = known \ gone
        /\ status' = [p \in Pid |-> IF p \in gone THEN {} ELSE status[p]]
        /\ \A q \in Pid : /\ toMe'[q] \subseteq toMe[q] /\ fromMe'[q] \subseteq fromMe[q]
                          /\ q \in gone => toMe'[q] = {} /\ fromMe'[q] = {}
    BY <1>7 DEF Forgets, RemoveProcs
  <2> QED BY <2>1 DEF BindInv
<1>8. StepKind
  BY StepKinds
<1>9. HandStep => UNCHANGED <<known, status, toMe, fromMe>>
  BY HandStepKeeps
<1> QED BY <1>2, <1>3, <1>4, <1>5, <1>6, <1>7, <1>8, <1>9
        DEF StepKind, Quiet, HandleAbilityStart, HandleApplicationSuspend,
            SetConnectExtensionProcPrio

\* The processes GetConnectedExtensionProc walks through without marking them.
Walkable == {q \in known : "extension" \notin status[q]}

\* No cycle of binds leads through such processes only.
Acyclic == \A S \in SUBSET Walkable : S # {} => \E q \in S : fromMe[q] \cap S = {}

\* Without such a cycle the walk ends, wherever it begins.
LEMMA AcyclicWalkEnds ==
  ASSUME Acyclic', NEW p
  PROVE  ~WalkLoops(p, known', status', fromMe')
<1> SUFFICES ASSUME NEW S \in SUBSET {q \in Reached(p, known', fromMe') : "extension" \notin status'[q]},
                    S # {}, \A q \in S : fromMe'[q] \cap known' \cap S # {}
             PROVE  FALSE
  BY DEF WalkLoops
<1> DEFINE T == S \cap known'
<1>1. T \in SUBSET Walkable' /\ T # {}
  BY DEF Walkable
<1>2. PICK q \in T : fromMe'[q] \cap T = {}
  BY <1>1 DEF Acyclic
<1> QED BY <1>2

\* The graph stays acyclic when it loses processes or edges.
LEMMA AcyclicShrinks ==
  ASSUME Acyclic, Walkable' \subseteq Walkable,
         \A q \in Walkable' : fromMe'[q] \cap Walkable' \subseteq fromMe[q]
  PROVE  Acyclic'
<1> SUFFICES ASSUME NEW S \in SUBSET Walkable', S # {}
             PROVE  \E q \in S : fromMe'[q] \cap S = {}
  BY DEF Acyclic
<1>1. PICK q \in S : fromMe[q] \cap S = {}
  BY DEF Acyclic
<1> QED BY <1>1

\* Nobody connects to an extension that lives in a killable system app, nor to
\* one in a bundle that the configuration places at that level.
NoSystemTarget ==
  \A b \in Binds : Floored(RECLAIM_PRIORITY_KILLABLE_SYSTEM + 1, UidOf[b[2]])

\* So the bundle of such an extension is never taken for a system bundle.
TargetsAbove ==
  \A b \in Binds : Above(RECLAIM_PRIORITY_KILLABLE_SYSTEM + 1, UidOf[b[2]])

\* A bind to a process with a record marks it as an extension, so it adds no edge
\* between processes that are none; a process with a new record has no edges.
LEMMA AcyclicStep ==
  ASSUME IInv, TypeOK', [Next]_vars, BindInv, NoSystemTarget, TargetsAbove, Acyclic
  PROVE  Acyclic'
<1>1. TypeOK /\ (\A p \in Pid \ known : status[p] = {})
  BY DEF IInv, RecordInv
<1>2. CASE UNCHANGED <<known, status, fromMe>>
  BY <1>2 DEF Acyclic, Walkable
<1>3. ASSUME NEW p \in Pid, HandleCreateProcess(p) PROVE Acyclic'
  <2>1. known' = known \cup {p} /\ UNCHANGED <<status, fromMe>>
    BY <1>3 DEF HandleCreateProcess
  <2>2. CASE p \in known
    <3>1. known' = known
      BY <2>1, <2>2
    <3> QED BY <1>2, <2>1, <3>1
  <2>3. CASE p \notin known
    <3> SUFFICES ASSUME NEW S \in SUBSET Walkable', S # {}
                 PROVE  \E q \in S : fromMe'[q] \cap S = {}
      BY DEF Acyclic
    <3>1. CASE p \in S
      <4>1. fromMe'[p] = {}
        BY <2>1, <2>3 DEF BindInv
      <4> QED BY <3>1, <4>1
    <3>2. CASE p \notin S
      <4>1. S \in SUBSET Walkable
        BY <2>1, <3>2 DEF Walkable
      <4> QED BY <2>1, <4>1 DEF Acyclic
    <3> QED BY <3>1, <3>2
  <2> QED BY <2>2, <2>3
<1>4. ASSUME NEW p \in Pid, HandlesOwn(p) PROVE Acyclic'
  <2>1. Walkable' = Walkable /\ fromMe' = fromMe
    BY <1>1, <1>4 DEF HandlesOwn, Handles, Walkable, TypeOK
  <2> QED BY <2>1, AcyclicShrinks
<1>5. ASSUME NEW b \in Binds, NEW bind \in BOOLEAN, HandlesBind(b[1], b[2], bind) PROVE Acyclic'
  <2>1. b[1] \in Pid /\ b[2] \in Pid
    BY ConstantsAssumption
  <2>2. \A q \in Pid : fromMe'[q] \subseteq fromMe[q] \cup {b[2]}
    BY <1>1, <1>5, <2>1, CallerSide DEF HandlesBind
  <2>3. Walkable' \subseteq Walkable /\ b[2] \notin Walkable' /\ Walkable' \subseteq Pid
    BY <1>1, <1>5 DEF HandlesBind, Handles, Walkable, TypeOK
  <2> QED BY <2>2, <2>3, AcyclicShrinks
<1>6. ASSUME NEW b \in Binds, NEW bind \in BOOLEAN, SkipsBind(b[1], b[2], bind) PROVE Acyclic'
  <2> DEFINE t == b[2]
  <2>1. b[1] \in Pid /\ t \in Pid
    BY ConstantsAssumption
  <2>2. \A q \in Pid : fromMe'[q] \subseteq fromMe[q] \cup {t}
    BY <1>1, <1>6, <2>1, CallerSide DEF SkipsBind
  <2>3. t \notin known
    <3> SUFFICES ASSUME t \in known PROVE FALSE
      OBVIOUS
    <3>1. /\ UidOf[t] \notin killList /\ UidOf[t] \notin KeepAlive
          /\ bprio[UidOf[t]] >= RECLAIM_PRIORITY_KILLABLE_SYSTEM + 1
          /\ prio[t] >= RECLAIM_PRIORITY_KILLABLE_SYSTEM + 1
      BY <2>1 DEF NoSystemTarget, TargetsAbove, Floored, Above
    <3>2. prio[t] \in Int /\ bprio[UidOf[t]] \in Int
      BY <1>1, <2>1, ConstantsAssumption, PriorityRange DEF TypeOK
    <3>3. \/ prio[t] <= RECLAIM_PRIORITY_KILLABLE_SYSTEM
          \/ bprio[UidOf[t]] <= RECLAIM_PRIORITY_KILLABLE_SYSTEM
      BY <1>6, <3>1 DEF SkipsBind
    <3> QED BY <3>1, <3>2, <3>3 DEF RECLAIM_PRIORITY_KILLABLE_SYSTEM
  <2>4. Walkable' = Walkable /\ t \notin Walkable' /\ Walkable' \subseteq Pid
    BY <1>1, <1>6, <2>3 DEF SkipsBind, Walkable, TypeOK
  <2> QED BY <2>2, <2>4, AcyclicShrinks
<1>7. ASSUME NEW gone \in SUBSET Pid, Forgets(gone) PROVE Acyclic'
  <2>1. /\ known' = known \ gone
        /\ status' = [p \in Pid |-> IF p \in gone THEN {} ELSE status[p]]
        /\ \A q \in Pid : fromMe'[q] \subseteq fromMe[q]
    BY <1>7 DEF Forgets, RemoveProcs
  <2>2. Walkable' \subseteq Walkable /\ Walkable' \subseteq Pid
    BY <1>1, <2>1 DEF Walkable, TypeOK
  <2> QED BY <2>1, <2>2, AcyclicShrinks
<1>8. StepKind
  BY StepKinds
<1>9. HandStep => UNCHANGED <<known, status, toMe, fromMe>>
  BY HandStepKeeps
<1> QED BY <1>2, <1>3, <1>4, <1>5, <1>6, <1>7, <1>8, <1>9
        DEF StepKind, Quiet, HandleAbilityStart, HandleApplicationSuspend,
            SetConnectExtensionProcPrio

\* Only UpdatePriorityByProcForExtension can get lost, and only in a cycle.
LEMMA NoHangStep ==
  ASSUME IInv, [Next]_vars, HandlerNeverHangs, Acyclic'
  PROVE  HandlerNeverHangs'
<1>1. CASE stage' = stage
  BY <1>1 DEF HandlerNeverHangs
<1>2. CASE Quiet
  BY <1>2 DEF Quiet, HandlerNeverHangs
<1>3. ASSUME NEW p, Handles(p) PROVE HandlerNeverHangs'
  <2>1. ~WalkLoops(p, known', status', fromMe')
    BY AcyclicWalkEnds
  <2> QED BY <1>3, <2>1 DEF Handles, UpdatePriorityByProcStatus, UpdatePriorityByProcForExtension,
                            NothingToPropagate, HandlerNeverHangs
<1>a. CASE HandStep
  <2>1. ~FileOwn => stage' # "hang"
    BY <1>a DEF HandStep, BaseStep, CapPriority, ReadMinimum, FileExtension
  <2>2. CASE FileOwn
    <3>1. PICK p \in target : UpdatePriorityByProcForExtension(p)
      BY <2>2 DEF FileOwn
    <3>2. ~WalkLoops(p, known', status', fromMe')
      BY AcyclicWalkEnds
    <3> QED BY <3>1, <3>2 DEF UpdatePriorityByProcForExtension, HandlerNeverHangs
  <2> QED BY <2>1, <2>2 DEF HandlerNeverHangs
<1>b. CASE SetConnectExtensionProcPrio
  BY <1>b DEF SetConnectExtensionProcPrio, HandlerNeverHangs
<1>4. StepKind
  BY StepKinds
<1> QED BY <1>1, <1>2, <1>3, <1>4, <1>a, <1>b
        DEF StepKind, HandlesOwn, HandlesBind, SkipsBind, Forgets, HandleCreateProcess,
            HandleAbilityStart, HandleApplicationSuspend, jobVars

\* The invariant behind HandlerNeverHangs.
HangInv ==
  /\ IInv
  /\ BindInv
  /\ NoSystemTarget
  /\ TargetsAbove
  /\ Acyclic
  /\ HandlerNeverHangs

\* It holds at the start.
LEMMA HangInit == NoSystemTarget /\ Init => HangInv
<1> SUFFICES ASSUME NoSystemTarget, Init PROVE HangInv
  OBVIOUS
<1>1. IInv
  BY InitInv
<1>2. BindInv /\ Acyclic /\ HandlerNeverHangs
  BY DEF Init, BindInv, Acyclic, Walkable, HandlerNeverHangs
<1>3. TargetsAbove
  <2> SUFFICES ASSUME NEW b \in Binds
               PROVE  Above(RECLAIM_PRIORITY_KILLABLE_SYSTEM + 1, UidOf[b[2]])
    BY DEF TargetsAbove
  <2>1. UidOf[b[2]] \in Uid
    BY ConstantsAssumption
  <2>2. /\ RECLAIM_PRIORITY_KILLABLE_SYSTEM + 1 \in Int
        /\ RECLAIM_PRIORITY_KILLABLE_SYSTEM + 1 <= 0
    BY DEF RECLAIM_PRIORITY_KILLABLE_SYSTEM
  <2>3. Floored(RECLAIM_PRIORITY_KILLABLE_SYSTEM + 1, UidOf[b[2]])
    BY DEF NoSystemTarget
  <2> QED BY <2>1, <2>2, <2>3, AboveInit
<1> QED BY <1>1, <1>2, <1>3 DEF HangInv

\* Every step preserves it.
LEMMA HangStep == HangInv /\ [Next]_vars => HangInv'
<1> SUFFICES ASSUME HangInv, [Next]_vars PROVE HangInv'
  OBVIOUS
<1>1. IInv' /\ TypeOK'
  BY NextInv DEF HangInv, IInv
<1>2. BindInv'
  BY <1>1, BindStep DEF HangInv
<1>3. NoSystemTarget'
  BY DEF HangInv, NoSystemTarget, Floored
<1>4. TargetsAbove'
  <2> SUFFICES ASSUME NEW b \in Binds
               PROVE  Above(RECLAIM_PRIORITY_KILLABLE_SYSTEM + 1, UidOf[b[2]])'
    BY DEF TargetsAbove
  <2>1. UidOf[b[2]] \in Uid
    BY ConstantsAssumption
  <2>2. /\ RECLAIM_PRIORITY_KILLABLE_SYSTEM + 1 \in Int
        /\ RECLAIM_PRIORITY_KILLABLE_SYSTEM + 1 <= 0
    BY DEF RECLAIM_PRIORITY_KILLABLE_SYSTEM
  <2>3. /\ IInv
        /\ Floored(RECLAIM_PRIORITY_KILLABLE_SYSTEM + 1, UidOf[b[2]])
        /\ Above(RECLAIM_PRIORITY_KILLABLE_SYSTEM + 1, UidOf[b[2]])
    BY DEF HangInv, NoSystemTarget, TargetsAbove
  <2> QED BY <1>1, <2>1, <2>2, <2>3, AboveStep
<1>5. Acyclic'
  BY <1>1, AcyclicStep DEF HangInv
<1>6. HandlerNeverHangs'
  BY <1>5, NoHangStep DEF HangInv
<1> QED BY <1>1, <1>2, <1>3, <1>4, <1>5, <1>6 DEF HangInv

\* GetConnectedExtensionProc always returns, however processes and binds come and
\* go, as long as nobody connects to an extension in a killable system app: its
\* events are skipped, so it is never marked as an extension and enters no visited set.
THEOREM NeverHangs == NoSystemTarget /\ Spec => []HandlerNeverHangs
<1>1. HangInv => HandlerNeverHangs
  BY DEF HangInv
<1> QED BY <1>1, HangInit, HangStep, PTL DEF Spec

-----------------------------------------------------------------------------
(* A process's priority and its flags.                                     *)

\* UpdatePriorityByProcStatus gives an app that is no extension, and that no
\* configuration caps, the most important level its flags stand for.
LEMMA StatusGivesLevel ==
  ASSUME NEW p \in Pid \ Important, NEW old \in Int, old >= 0, NEW st, "extension" \notin st
  PROVE  PriorityByStatus(p, old, st) = LevelOfFlags(st)
<1> DEFINE S == {RECLAIM_PRIORITY_BACKGROUND} \cup {FlagLevel[f] : f \in st \cap DOMAIN FlagLevel}
           m == PriorityByStatus(p, old, st)
<1>1. LevelOfFlags(st) = Min(S)
  BY DEF LevelOfFlags
<1>2. \A x : x \in S <=> \/ x = 400
                         \/ "fg" \in st /\ x = 0
                         \/ "visible" \in st /\ x = 50
                         \/ "suspendDelay" \in st /\ x = 100
                         \/ {"bgRunning", "event"} \cap st # {} /\ x = 200
                         \/ "dist" \in st /\ x = 260
  BY DEF FlagLevel, RECLAIM_PRIORITY_BACKGROUND, RECLAIM_PRIORITY_FOREGROUND,
         RECLAIM_PRIORITY_VISIBLE, RECLAIM_PRIORITY_BG_SUSPEND_DELAY,
         RECLAIM_PRIORITY_BG_PERCEIVED, RECLAIM_PRIORITY_BG_DIST_DEVICE
<1>3. m = Least(Least(BaseLevel(old, st), VisibleLevel(st)), Least(TaskLevel(st), 1000))
  BY DEF PriorityByStatus, Capped, ImportantLevel, RECLAIM_PRIORITY_UNKNOWN
<1>4. VisibleLevel(st) = IF "visible" \in st THEN 50 ELSE 1000
  BY DEF VisibleLevel, RECLAIM_PRIORITY_VISIBLE, RECLAIM_PRIORITY_UNKNOWN
<1>5. m \in S /\ \A x \in S : m <= x
  <2>1. CASE "fg" \in st
    <3>1. BaseLevel(old, st) = 0
      BY <2>1 DEF BaseLevel, Least, RECLAIM_PRIORITY_FOREGROUND
    <3>2. TaskLevel(st) \in {100, 200, 260, 1000}
      BY LevelValues
    <3>3. m = 0
      BY <1>3, <1>4, <3>1, <3>2 DEF Least
    <3> HIDE DEF m, S
    <3> QED BY <1>2, <2>1, <3>3
  <2>2. CASE "fg" \notin st
    <3>1. BaseLevel(old, st) = 400
      BY <2>2 DEF BaseLevel, RECLAIM_PRIORITY_BACKGROUND
    <3>2. CASE "suspendDelay" \in st
      <4>1. TaskLevel(st) = 100
        BY <3>2 DEF TaskLevel, RECLAIM_PRIORITY_BG_SUSPEND_DELAY
      <4>2. m = IF "visible" \in st THEN 50 ELSE 100
        BY <1>3, <1>4, <3>1, <4>1 DEF Least
      <4> HIDE DEF m, S
      <4> QED BY <1>2, <2>2, <3>2, <4>2
    <3>3. CASE "suspendDelay" \notin st /\ {"bgRunning", "event"} \cap st # {}
      <4>1. TaskLevel(st) = 200
        BY <3>3 DEF TaskLevel, RECLAIM_PRIORITY_BG_PERCEIVED
      <4>2. m = IF "visible" \in st THEN 50 ELSE 200
        BY <1>3, <1>4, <3>1, <4>1 DEF Least
      <4> HIDE DEF m, S
      <4> QED BY <1>2, <2>2, <3>3, <4>2
    <3>4. CASE {"suspendDelay", "bgRunning", "event"} \cap st = {} /\ "dist" \in st
      <4>1. TaskLevel(st) = 260
        BY <3>4 DEF TaskLevel, RECLAIM_PRIORITY_BG_DIST_DEVICE
      <4>2. m = IF "visible" \in st THEN 50 ELSE 260
        BY <1>3, <1>4, <3>1, <4>1 DEF Least
      <4> HIDE DEF m, S
      <4> QED BY <1>2, <2>2, <3>4, <4>2
    <3>5. CASE {"suspendDelay", "bgRunning", "event"} \cap st = {} /\ "dist" \notin st
      <4>1. TaskLevel(st) = 1000
        BY <3>5 DEF TaskLevel, RECLAIM_PRIORITY_UNKNOWN
      <4>2. m = IF "visible" \in st THEN 50 ELSE 400
        BY <1>3, <1>4, <3>1, <4>1 DEF Least
      <4> HIDE DEF m, S
      <4> QED BY <1>2, <2>2, <3>5, <4>2
    <3> QED BY <3>2, <3>3, <3>4, <3>5
  <2> QED BY <2>1, <2>2
<1> HIDE DEF m, S
<1>6. S \subseteq Int /\ S # {} /\ \A x \in S : x >= RECLAIM_PRIORITY_MIN
  BY <1>2 DEF RECLAIM_PRIORITY_MIN
<1>7. Min(S) \in S /\ \A x \in S : Min(S) <= x
  BY <1>6, MinPriority
<1>8. Min(S) <= m /\ m <= Min(S) /\ m \in Int /\ Min(S) \in Int
  BY <1>5, <1>6, <1>7
<1>9. Min(S) = m
  BY <1>8
<1> QED BY <1>1, <1>9 DEF m

\* Every plain bundle stays at FOREGROUND or below in importance, so that no
\* event of its processes is skipped.
PlainAbove == \A u \in Uid : Plain(u) => Above(0, u)

\* Plain says that the configuration respects the floor FOREGROUND.
LEMMA PlainIsFloored ==
  ASSUME NEW u, Plain(u)
  PROVE  Floored(0, u)
BY DEF Plain, Floored, RECLAIM_PRIORITY_FOREGROUND

\* PlainAbove is inductive.
LEMMA PlainStep ==
  ASSUME IInv, TypeOK', [Next]_vars, PlainAbove
  PROVE  PlainAbove'
<1> SUFFICES ASSUME NEW u \in Uid, Plain(u) PROVE Above(0, u)'
  BY DEF PlainAbove, Plain
<1>1. Floored(0, u) /\ Above(0, u)
  BY PlainIsFloored DEF PlainAbove
<1> QED BY <1>1, AboveStep

\* It holds at the start.
LEMMA PlainInit == Init => PlainAbove
<1> SUFFICES ASSUME Init, NEW u \in Uid, Plain(u) PROVE Above(0, u)
  BY DEF PlainAbove
<1>1. Floored(0, u)
  BY PlainIsFloored
<1> QED BY <1>1, AboveInit

\* An event of a process in a plain bundle takes effect, unless it was stamped
\* before the process's ability start.
LEMMA PlainHandles ==
  ASSUME TypeOK, PlainAbove, NEW p \in Pid, Plain(UidOf[p]), Handles(p)
  PROVE  \/ /\ prio' = [prio EXCEPT ![p] = PriorityByStatus(p, prio[p], status'[p])]
            /\ UpdatePriorityByProcForExtension(p)
         \/ p \in starting' /\ prio' = prio /\ NothingToPropagate
<1>1. UidOf[p] \in Uid
  BY ConstantsAssumption
<1>2. bprio[UidOf[p]] >= 0 /\ bprio[UidOf[p]] \in Int
  <2>1. bprio[UidOf[p]] >= 0
    BY <1>1 DEF PlainAbove, Above
  <2>2. bprio \in [Uid -> Priority]
    BY DEF TypeOK
  <2>3. bprio[UidOf[p]] \in Priority
    BY <1>1, <2>2
  <2> QED BY <2>1, <2>3, PriorityRange
<1>3. ~(bprio[UidOf[p]] < RECLAIM_PRIORITY_FOREGROUND)
  BY <1>2 DEF RECLAIM_PRIORITY_FOREGROUND
<1> QED BY <1>3 DEF Handles, UpdatePriorityByProcStatus

\* An ordinary process is never an extension, and its priority is that of its
\* flags unless it is suspended, a timer is still to re-prioritise it or the unlocked
\* handler is still to cap its level.
MatchInv ==
  \A p \in known : Ordinary(p) =>
    /\ "extension" \notin status[p]
    /\ \/ p \in starting \cup createCheck
       \/ stage = "cap" /\ p \in target
       \/ prio[p] \in {RECLAIM_PRIORITY_SUSPEND, LevelOfFlags(status[p])}

\* A step that does not touch the record of p keeps what MatchInv says of it.
LEMMA MatchUntouched ==
  ASSUME MatchInv, NEW p \in known, Ordinary(p),
         p \in starting => p \in starting',
         p \in createCheck => p \in createCheck',
         stage = "cap" /\ p \in target => stage' = "cap" /\ p \in target',
         prio'[p] = prio[p], status'[p] = status[p]
  PROVE  /\ "extension" \notin status'[p]
         /\ \/ p \in starting' \cup createCheck'
            \/ stage' = "cap" /\ p \in target'
            \/ prio'[p] \in {RECLAIM_PRIORITY_SUSPEND, LevelOfFlags(status'[p])}
BY DEF MatchInv

\* MatchInv is inductive.
LEMMA MatchStep ==
  ASSUME IInv, TypeOK', [Next]_vars, PlainAbove, MatchInv
  PROVE  MatchInv'
<1> SUFFICES ASSUME NEW p \in known', Ordinary(p)
             PROVE  /\ "extension" \notin status'[p]
                    /\ \/ p \in starting' \cup createCheck'
                       \/ stage' = "cap" /\ p \in target'
                       \/ prio'[p] \in {RECLAIM_PRIORITY_SUSPEND, LevelOfFlags(status'[p])}
  BY DEF MatchInv, Ordinary, Plain
<1> DEFINE Goal == /\ "extension" \notin status'[p]
                   /\ \/ p \in starting' \cup createCheck'
                      \/ stage' = "cap" /\ p \in target'
                      \/ prio'[p] \in {RECLAIM_PRIORITY_SUSPEND, LevelOfFlags(status'[p])}
<1>1. TypeOK /\ p \in Pid /\ (\A q \in Pid \ known : status[q] = {})
  BY DEF IInv, RecordInv, TypeOK
<1>2. CASE /\ p \in known
           /\ p \in starting => p \in starting'
           /\ p \in createCheck => p \in createCheck'
           /\ stage = "cap" /\ p \in target => stage' = "cap" /\ p \in target'
           /\ prio'[p] = prio[p] /\ status'[p] = status[p]
  BY <1>2, MatchUntouched
<1> HIDE DEF Goal
<1>3. ASSUME Quiet PROVE Goal
  BY <1>2, <1>3 DEF Quiet, Goal
<1>4. ASSUME NEW q \in Pid, HandleCreateProcess(q) PROVE Goal
  <2>1. /\ known' = known \cup {q} /\ createCheck' = createCheck \cup {q}
        /\ UNCHANGED <<status, starting>> /\ stage = "idle"
        /\ \E k : prio' = IF q \in known THEN prio ELSE [prio EXCEPT ![q] = CreatePriority(q, k)]
    BY <1>4 DEF HandleCreateProcess, Idle
  <2>2. CASE p = q
    BY <1>1, <2>1, <2>2 DEF Goal, MatchInv
  <2>3. CASE p # q
    BY <1>1, <1>2, <2>1, <2>3 DEF Goal, TypeOK
  <2> QED BY <2>2, <2>3
<1>5. ASSUME NEW q \in Pid, HandleAbilityStart(q) PROVE Goal
  <2>1. /\ known' = known /\ starting' = starting \cup {q}
        /\ UNCHANGED <<status, createCheck, stage, target>>
        /\ prio' = [prio EXCEPT ![q] = RECLAIM_PRIORITY_FOREGROUND]
    BY <1>5 DEF HandleAbilityStart, jobVars
  <2>2. CASE p = q
    BY <2>1, <2>2 DEF Goal, MatchInv
  <2>3. CASE p # q
    BY <1>1, <1>2, <2>1, <2>3 DEF Goal, TypeOK
  <2> QED BY <2>2, <2>3
<1>6. ASSUME NEW q \in Pid, Handles(q), p # q PROVE Goal
  <2>1. prio'[p] = prio[p]
    BY <1>1, <1>6, HandlesPriorities
  <2>2. /\ p \in known /\ status'[p] = status[p]
        /\ p \in starting => p \in starting'
        /\ p \in createCheck => p \in createCheck'
        /\ stage = "idle"
    BY <1>1, <1>6 DEF Handles
  <2> QED BY <1>2, <2>1, <2>2 DEF Goal
<1>7. ASSUME HandlesOwn(p) PROVE Goal
  <2>1. Handles(p) /\ p \in known /\ "extension" \notin status'[p]
    BY <1>7 DEF HandlesOwn, Handles, MatchInv
  <2>2. Plain(UidOf[p]) /\ p \notin Important /\ UidOf[p] \in Uid
    BY <1>1, ConstantsAssumption DEF Ordinary
  <2>3. CASE p \in starting'
    BY <2>1, <2>3 DEF Goal
  <2>4. CASE prio' = [prio EXCEPT ![p] = PriorityByStatus(p, prio[p], status'[p])]
    <3>1. prio[p] \in Int /\ prio[p] >= 0
      <4>1. Above(0, UidOf[p])
        BY <2>2 DEF PlainAbove
      <4>2. prio[p] >= 0
        BY <1>1, <4>1 DEF Above
      <4>3. prio[p] \in Priority
        BY <1>1 DEF TypeOK
      <4> QED BY <4>2, <4>3, PriorityRange
    <3>2. PriorityByStatus(p, prio[p], status'[p]) = LevelOfFlags(status'[p])
      BY <1>1, <2>1, <2>2, <3>1, StatusGivesLevel
    <3> QED BY <1>1, <2>1, <2>4, <3>2 DEF Goal, TypeOK
  <2> QED BY <1>1, <2>1, <2>2, <2>3, <2>4, PlainHandles
<1>8. ASSUME NEW u \in Uid, HandleApplicationSuspend(u) PROVE Goal
  <2>1. /\ known' = known /\ UNCHANGED <<status, starting, createCheck, stage, target>>
        /\ prio' = [q \in Pid |-> IF q \in ProcsOf(u, known) THEN RECLAIM_PRIORITY_SUSPEND ELSE prio[q]]
    BY <1>8 DEF HandleApplicationSuspend, SuspendPriority, timerVars, jobVars
  <2>2. prio'[p] = RECLAIM_PRIORITY_SUSPEND \/ prio'[p] = prio[p]
    BY <1>1, <2>1
  <2>3. CASE prio'[p] = RECLAIM_PRIORITY_SUSPEND
    BY <2>1, <2>3 DEF Goal, MatchInv
  <2> QED BY <1>2, <2>1, <2>2, <2>3 DEF Goal
<1>9. ASSUME NEW b \in Binds, NEW bind \in BOOLEAN, HandlesBind(b[1], b[2], bind) PROVE Goal
  <2>1. b[2] # p /\ b[2] \in Pid
    BY ConstantsAssumption DEF Ordinary
  <2> QED BY <1>6, <1>9, <2>1 DEF HandlesBind
<1>10. ASSUME NEW c, NEW t, NEW bind, SkipsBind(c, t, bind) PROVE Goal
  BY <1>2, <1>10 DEF SkipsBind, Goal
<1>11. ASSUME NEW gone \in SUBSET Pid, Forgets(gone) PROVE Goal
  <2>1. /\ known' = known \ gone /\ starting' = starting \ gone /\ createCheck' = createCheck
        /\ status' = [q \in Pid |-> IF q \in gone THEN {} ELSE status[q]]
        /\ prio' = [q \in Pid |-> IF q \in gone THEN RECLAIM_PRIORITY_UNKNOWN ELSE prio[q]]
        /\ stage' = stage /\ target' = target
    BY <1>11 DEF Forgets, RemoveProcs
  <2> QED BY <1>1, <1>2, <2>1 DEF Goal
<1>12. ASSUME SetConnectExtensionProcPrio PROVE Goal
  <2>1. PICK e \in todo :
          \/ prio' = prio
          \/ e[2] \in known /\ prio' = [prio EXCEPT ![e[2]] = ExtensionPriority(e[2])]
    BY <1>12 DEF SetConnectExtensionProcPrio
  <2>2. UNCHANGED <<known, status, starting, createCheck>> /\ stage = "set"
    BY <1>12 DEF SetConnectExtensionProcPrio, timerVars
  <2>3. e[2] = p => "extension" \in status[p] /\ "extension" \notin status[p]
    BY <2>2 DEF IInv, TodoInv, MatchInv
  <2>4. prio'[p] = prio[p]
    BY <1>1, <2>1, <2>3 DEF TypeOK
  <2> QED BY <1>2, <2>2, <2>4 DEF Goal
<1>a. ASSUME HandStep PROVE Goal
  <2>1. UNCHANGED <<known, status, starting>>
    BY <1>a, HandStepKeeps
  <2>2. ASSUME NEW q \in Pid, BaseStep(q) PROVE Goal
    <3>1. /\ stage = "idle" /\ stage' = "cap" /\ target' = {q}
          /\ createCheck' = createCheck \ {q}
      BY <2>2 DEF BaseStep, Idle
    <3>2. CASE p = q
      BY <2>1, <3>1, <3>2 DEF Goal, MatchInv
    <3>3. CASE p # q
      <4>1. prio'[p] = prio[p]
        BY <1>1, <2>2, <3>3 DEF BaseStep, TypeOK
      <4> QED BY <1>2, <2>1, <3>1, <3>3, <4>1 DEF Goal
    <3> QED BY <3>2, <3>3
  <2>3. CASE CapPriority
    <3>1. stage = "cap" /\ createCheck' = createCheck
      BY <2>3 DEF CapPriority, timerVars
    <3>2. PICK q \in target : \E seen \in {prio[q], minimum} :
            prio' = IF q \in known THEN [prio EXCEPT ![q] = Capped(q, seen, status[q])]
                    ELSE prio
      BY <2>3 DEF CapPriority
    <3>3. PICK seen \in {prio[q], minimum} :
            prio' = IF q \in known THEN [prio EXCEPT ![q] = Capped(q, seen, status[q])]
                    ELSE prio
      BY <3>2
    <3>4. target = {q}
      BY <3>1, <3>2 DEF IInv, JobInv, OwnStages, ExtensionStages
    <3>5. CASE p # q
      <4>1. prio'[p] = prio[p]
        BY <1>1, <3>3, <3>5 DEF TypeOK
      <4> QED BY <1>2, <2>1, <3>1, <3>4, <3>5, <4>1 DEF Goal
    <3>6. CASE p = q /\ p \in starting
      BY <2>1, <3>6 DEF Goal, MatchInv
    <3>7. CASE p = q /\ p \notin starting
      <4>1. prio[p] = minimum /\ minimum = BaseLevel(minimum, status[p])
        BY <2>1, <3>1, <3>2, <3>7 DEF IInv, HandInv, CapInv
      <4>2. minimum \in Int /\ minimum >= 0
        <5>1. UidOf[p] \in Uid /\ Plain(UidOf[p])
          BY <1>1, ConstantsAssumption DEF Ordinary
        <5>2. prio[p] >= 0
          BY <1>1, <5>1 DEF PlainAbove, Above
        <5>3. minimum \in Int
          BY <1>1, PriorityRange DEF TypeOK
        <5> QED BY <4>1, <5>2, <5>3
      <4>3. seen = minimum
        BY <3>7, <4>1
      <4>4. prio'[p] = PriorityByStatus(p, minimum, status[p])
        <5>1. prio'[p] = Capped(p, minimum, status[p])
          BY <1>1, <2>1, <3>3, <3>7, <4>3 DEF TypeOK
        <5>2. Capped(p, minimum, status[p]) = PriorityByStatus(p, minimum, status[p])
          BY <4>1 DEF PriorityByStatus
        <5> QED BY <5>1, <5>2
      <4>5. p \notin Important /\ "extension" \notin status[p]
        BY <2>1 DEF Ordinary, MatchInv
      <4>6. PriorityByStatus(p, minimum, status[p]) = LevelOfFlags(status[p])
        BY <1>1, <4>2, <4>5, StatusGivesLevel
      <4>7. status'[p] = status[p]
        BY <2>1
      <4>8. prio'[p] = LevelOfFlags(status'[p])
        BY <4>4, <4>6, <4>7
      <4> QED BY <4>5, <4>7, <4>8 DEF Goal
    <3> QED BY <3>5, <3>6, <3>7
  <2>4. CASE ReadMinimum
    <3>1. stage # "cap" /\ UNCHANGED <<prio, createCheck>>
      BY <2>4 DEF ReadMinimum, procVars, timerVars
    <3> QED BY <1>2, <2>1, <3>1 DEF Goal
  <2>5. CASE FileOwn \/ FileExtension
    <3>1. stage # "cap" /\ FileBundle
      BY <2>5 DEF FileOwn, FileExtension
    <3>2. UNCHANGED <<prio, createCheck>>
      BY <3>1 DEF FileBundle, procVars, timerVars
    <3> QED BY <1>2, <2>1, <3>1, <3>2 DEF Goal
  <2> QED BY <1>a, <2>2, <2>3, <2>4, <2>5 DEF HandStep
<1>13. StepKind
  BY StepKinds
<1>14. Goal
  <2>1. ASSUME NEW q \in Pid, HandlesOwn(q) PROVE Goal
    BY <1>6, <1>7, <2>1 DEF HandlesOwn
  <2> QED BY <1>3, <1>4, <1>5, <1>8, <1>9, <1>10, <1>11, <1>12, <1>13, <1>a, <2>1
      DEF StepKind
<1> QED BY <1>14 DEF Goal

\* The invariant behind PriorityMatchesStatus.
StatusInv == IInv /\ PlainAbove /\ MatchInv

\* StatusInv holds in every reachable state.
LEMMA StatusInvariance == Spec => []StatusInv
<1>1. Init => StatusInv
  <2>1. Init => MatchInv
    BY DEF Init, MatchInv
  <2> QED BY <2>1, InitInv, PlainInit DEF StatusInv
<1>2. StatusInv /\ [Next]_vars => StatusInv'
  <2> SUFFICES ASSUME StatusInv, [Next]_vars PROVE StatusInv'
    OBVIOUS
  <2>1. IInv' /\ TypeOK'
    BY NextInv DEF StatusInv, IInv
  <2> QED BY <2>1, PlainStep, MatchStep DEF StatusInv
<1> QED BY <1>1, <1>2, PTL DEF Spec

\* The flags and the priority of an ordinary process never drift apart: an event
\* skipped during an ability start is made good when the start ends.
THEOREM MatchesStatus == Spec => []PriorityMatchesStatus
<1>1. StatusInv => PriorityMatchesStatus
  BY DEF StatusInv, MatchInv, PriorityMatchesStatus
<1> QED BY <1>1, StatusInvariance, PTL

-----------------------------------------------------------------------------
(* A client in the foreground and the extension it uses.                   *)

\* A foreground process in a plain bundle has the priority of one, outside an ability start.
FgInv ==
  \A c \in known \ starting : Plain(UidOf[c]) /\ "fg" \in status[c] => prio[c] <= 0

\* Client c is in the foreground and uses extension e, by both their records.
Uses(c, e) ==
  /\ c \in known \ starting /\ Plain(UidOf[c]) /\ "fg" \in status[c] /\ e \in fromMe[c]
  /\ e \in known \ starting /\ Plain(UidOf[e]) /\ c \in toMe[e]

\* The running handler will still re-prioritise e, or never gets that far.
Awaits(e) == stage = "hang" \/ \E x \in todo : x[2] = e

\* Such an extension has its client's protection, or is in the handler's queue.
UsedInv == \A c, e \in Pid : Uses(c, e) => prio[e] <= 100 \/ Awaits(e)

\* The foreground flag gives FOREGROUND at least.
LEMMA ForegroundLevel ==
  ASSUME TypeOK, NEW p \in Pid, NEW old \in Priority, NEW st, "fg" \in st
  PROVE  PriorityByStatus(p, old, st) <= 0 /\ BaseLevel(old, st) <= 0
<1>1. BaseLevel(old, st) \in Int /\ BaseLevel(old, st) <= 0
  <2>1. old \in Int
    BY PriorityRange
  <2> QED BY <2>1 DEF BaseLevel, Least, RECLAIM_PRIORITY_FOREGROUND
<1>2. ImportantLevel(p) \in Int /\ TaskLevel(st) \in Int /\ VisibleLevel(st) \in Int
  BY LevelTypes, PriorityRange
<1> QED BY <1>1, <1>2 DEF PriorityByStatus, Capped, Least

\* A cap never makes a process less important.
LEMMA CappedIsLower ==
  ASSUME NEW p \in Pid, NEW x \in Priority, NEW st
  PROVE  Capped(p, x, st) <= x
<1>1. x \in Int
  BY PriorityRange
<1>2. ImportantLevel(p) \in Int /\ TaskLevel(st) \in Int /\ VisibleLevel(st) \in Int
  BY LevelTypes, PriorityRange
<1> QED BY <1>1, <1>2 DEF Capped, Least

\* The unlocked handler only raises a foreground process or an extension, in importance.
LEMMA HandRaises ==
  ASSUME IInv, TypeOK', HandStep, NEW p \in known \ starting,
         {"fg", "extension"} \cap status[p] # {}
  PROVE  prio'[p] <= prio[p]
<1>1. TypeOK /\ p \in Pid /\ prio[p] \in Priority /\ prio[p] \in Int
  BY PriorityRange DEF IInv, TypeOK
<1>2. ASSUME NEW q \in Pid, BaseStep(q) PROVE prio'[p] <= prio[p]
  <2>1. prio' = [prio EXCEPT ![q] = BaseLevel(prio[q], status[q])]
    BY <1>2 DEF BaseStep
  <2>2. BaseLevel(prio[p], status[p]) <= prio[p]
    BY <1>1 DEF BaseLevel, Least, RECLAIM_PRIORITY_FOREGROUND
  <2>3. prio'[p] = prio[p] \/ prio'[p] = BaseLevel(prio[p], status[p])
    BY <1>1, <2>1 DEF TypeOK
  <2> QED BY <1>1, <2>2, <2>3
<1>3. CASE CapPriority
  <2>1. stage = "cap"
    BY <1>3 DEF CapPriority
  <2>2. PICK q \in target : \E seen \in {prio[q], minimum} :
          prio' = IF q \in known THEN [prio EXCEPT ![q] = Capped(q, seen, status[q])] ELSE prio
    BY <1>3 DEF CapPriority
  <2>3. PICK seen \in {prio[q], minimum} :
          prio' = IF q \in known THEN [prio EXCEPT ![q] = Capped(q, seen, status[q])] ELSE prio
    BY <2>2
  <2>4. CASE p = q
    <3>1. prio[p] = minimum
      BY <2>1, <2>2, <2>4 DEF IInv, HandInv, CapInv
    <3>2. prio'[p] = Capped(p, prio[p], status[p])
      BY <1>1, <2>3, <2>4, <3>1 DEF TypeOK
    <3> QED BY <1>1, <3>2, CappedIsLower
  <2>5. CASE p # q
    BY <1>1, <2>3, <2>5 DEF TypeOK
  <2> QED BY <2>4, <2>5
<1>4. CASE ReadMinimum \/ FileOwn \/ FileExtension
  <2>1. prio' = prio
    BY <1>4 DEF ReadMinimum, FileOwn, FileExtension, FileBundle, procVars
  <2> QED BY <1>1, <2>1
<1> QED BY <1>2, <1>3, <1>4 DEF HandStep

\* Also as an extension a foreground process keeps FOREGROUND.
LEMMA ForegroundExtension ==
  ASSUME TypeOK, NEW q \in Pid, "fg" \in status[q], prio[q] <= 0
  PROVE  ExtensionPriority(q) <= 0
<1> DEFINE g == GetPriorityByProcStatus(q, prio[q], status[q])
<1>1. prio[q] \in Int
  BY PriorityRange DEF TypeOK
<1>2. ImportantPrio[q] \in Int /\ ConnectorPriority(q) \in Int
  <2>1. ImportantPrio[q] \in Priority
    BY ConstantsAssumption
  <2>2. ConnectorPriority(q) \in 0 .. 400
    BY ConnectorPriorityRange
  <2>3. \A x \in 0 .. 400 : x \in Int
    OBVIOUS
  <2> HIDE DEF g
  <2> QED BY <2>1, <2>2, <2>3, PriorityRange
<1>3. g \in Int /\ g <= 0
  <2>1. CASE q \in Important /\ prio[q] >= ImportantPrio[q]
    BY <1>1, <1>2, <2>1 DEF GetPriorityByProcStatus
  <2>2. CASE ~(q \in Important /\ prio[q] >= ImportantPrio[q])
    <3>1. g = 0
      BY <2>2 DEF GetPriorityByProcStatus, RECLAIM_PRIORITY_FOREGROUND
    <3> QED BY <3>1
  <2> QED BY <2>1, <2>2
<1> HIDE DEF g
<1>4. Least(g, ConnectorPriority(q) + 100) \in Int /\ Least(g, ConnectorPriority(q) + 100) <= 0
  BY <1>2, <1>3 DEF Least
<1> QED BY <1>2, <1>4 DEF ExtensionPriority, Least, g

\* An extension inherits the priority of its most important client.
LEMMA ClientProtects ==
  ASSUME TypeOK, NEW e \in Pid, NEW c \in toMe[e], prio[c] <= 0
  PROVE  ExtensionPriority(e) <= 100
<1>1. ConnectorPriority(e) \in Int /\ ConnectorPriority(e) <= 0
  <2>1. CASE ~(toMe[e] \subseteq known)
    BY <2>1 DEF ConnectorPriority
  <2>2. CASE toMe[e] \subseteq known
    <3> DEFINE S == {RECLAIM_PRIORITY_BACKGROUND}
                      \cup {IF prio[d] < 0 THEN 0 ELSE prio[d] : d \in toMe[e]}
    <3>1. \A d \in toMe[e] : prio[d] \in Int
      BY PriorityRange DEF TypeOK
    <3>2. S \subseteq Int /\ S # {} /\ \A x \in S : x >= RECLAIM_PRIORITY_MIN
      BY <3>1 DEF RECLAIM_PRIORITY_BACKGROUND, RECLAIM_PRIORITY_MIN
    <3>3. 0 \in S
      <4>1. (IF prio[c] < 0 THEN 0 ELSE prio[c]) = 0
        BY <3>1
      <4> QED BY <4>1
    <3>4. ConnectorPriority(e) = Min(S)
      BY <2>2 DEF ConnectorPriority
    <3> HIDE DEF S
    <3>5. Min(S) \in S /\ Min(S) <= 0
      BY <3>2, <3>3, MinPriority
    <3> QED BY <3>2, <3>4, <3>5
  <2> QED BY <2>1, <2>2
<1>2. GetPriorityByProcStatus(e, prio[e], status[e]) \in Int
  BY PriorityAsAppType, PriorityRange DEF TypeOK
<1>3. ImportantPrio[e] \in Int
  BY ConstantsAssumption, PriorityRange
<1> HIDE DEF ConnectorPriority
<1>4. /\ Least(GetPriorityByProcStatus(e, prio[e], status[e]), ConnectorPriority(e) + 100) \in Int
      /\ Least(GetPriorityByProcStatus(e, prio[e], status[e]), ConnectorPriority(e) + 100) <= 100
  BY <1>1, <1>2 DEF Least
<1> QED BY <1>3, <1>4 DEF ExtensionPriority, Least

\* The handler of process p queues p itself and the extensions p uses.
LEMMA QueuesConnected ==
  ASSUME NEW p \in Pid, UpdatePriorityByProcForExtension(p), NEW e \in Pid,
         e = p \/ e \in fromMe'[p] \cap known', "extension" \in status'[e]
  PROVE  Awaits(e)'
<1>1. CASE WalkLoops(p, known', status', fromMe')
  BY <1>1 DEF UpdatePriorityByProcForExtension, Awaits
<1>2. CASE ~WalkLoops(p, known', status', fromMe')
  <2> DEFINE E == ConnectedExtensions(p, known', status', fromMe')
  <2>1. e \in E
    BY DEF ConnectedExtensions, Reached, Closed
  <2>2. todo' = {<<CalculateExtensionProcPrio(q), q>> : q \in E}
    BY <1>2 DEF UpdatePriorityByProcForExtension
  <2>3. <<CalculateExtensionProcPrio(e), e>> \in todo'
    BY <2>1, <2>2
  <2>4. <<CalculateExtensionProcPrio(e), e>>[2] = e
    OBVIOUS
  <2> QED BY <2>3, <2>4 DEF Awaits
<1> QED BY <1>1, <1>2

\* FgInv is inductive, where no bundle is suspended.
LEMMA FgStep ==
  ASSUME IInv, TypeOK', [Next]_vars, PlainAbove, FgInv, "APPLICATION_SUSPEND" \notin Reasons
  PROVE  FgInv'
<1> DEFINE Goal == FgInv'
<1>1. TypeOK /\ (\A q \in Pid \ known : status[q] = {})
  BY DEF IInv, RecordInv
<1> HIDE DEF Goal
<1>2. ASSUME Quiet PROVE Goal
  BY <1>2 DEF Quiet, FgInv, Goal
<1>3. ASSUME NEW p \in Pid, HandleCreateProcess(p) PROVE Goal
  <2>1. /\ known' = known \cup {p} /\ UNCHANGED <<status, starting>>
        /\ \E k : prio' = IF p \in known THEN prio ELSE [prio EXCEPT ![p] = CreatePriority(p, k)]
    BY <1>3 DEF HandleCreateProcess
  <2>2. ASSUME NEW c \in known' \ starting', Plain(UidOf[c]), "fg" \in status'[c]
        PROVE  prio'[c] <= 0
    <3>1. c \in known \ starting
      BY <1>1, <2>1, <2>2
    <3>2. prio'[c] = prio[c]
      BY <1>1, <2>1, <3>1 DEF TypeOK
    <3> QED BY <2>1, <2>2, <3>1, <3>2 DEF FgInv
  <2> QED BY <2>2 DEF FgInv, Goal, Plain
<1>4. ASSUME NEW p \in Pid, HandleAbilityStart(p) PROVE Goal
  <2>1. /\ known' = known /\ starting' = starting \cup {p} /\ status' = status
        /\ prio' = [prio EXCEPT ![p] = RECLAIM_PRIORITY_FOREGROUND]
    BY <1>4 DEF HandleAbilityStart
  <2> QED BY <1>1, <2>1 DEF FgInv, Goal, TypeOK, Plain
<1>5. ASSUME NEW p \in Pid, Handles(p) PROVE Goal
  <2>1. /\ known' = known /\ starting \ {p} \subseteq starting' /\ p \in known
        /\ \A q \in Pid : q # p => status'[q] = status[q]
    BY <1>5 DEF Handles
  <2>2. \A q \in Pid : q # p => prio'[q] = prio[q]
    BY <1>1, <1>5, HandlesPriorities
  <2>3. ASSUME NEW c \in known' \ starting', Plain(UidOf[c]), "fg" \in status'[c]
        PROVE  prio'[c] <= 0
    <3>1. c \in Pid
      BY DEF TypeOK
    <3>2. CASE c = p
      <4>1. prio' = [prio EXCEPT ![p] = PriorityByStatus(p, prio[p], status'[p])]
        BY <1>1, <1>5, <2>3, <3>2, PlainHandles
      <4>2. PriorityByStatus(p, prio[p], status'[p]) <= 0
        BY <1>1, <2>3, <3>2, ForegroundLevel DEF TypeOK
      <4> QED BY <1>1, <3>2, <4>1, <4>2 DEF TypeOK
    <3>3. CASE c # p
      BY <2>1, <2>2, <2>3, <3>1, <3>3 DEF FgInv
    <3> QED BY <3>2, <3>3
  <2> QED BY <2>3 DEF FgInv, Goal, Plain
<1>6. ASSUME NEW c, NEW t, NEW bind, SkipsBind(c, t, bind) PROVE Goal
  BY <1>6 DEF SkipsBind, FgInv, Goal, Plain
<1>7. ASSUME NEW gone \in SUBSET Pid, Forgets(gone) PROVE Goal
  <2>1. /\ known' = known \ gone /\ starting' = starting \ gone
        /\ status' = [q \in Pid |-> IF q \in gone THEN {} ELSE status[q]]
        /\ prio' = [q \in Pid |-> IF q \in gone THEN RECLAIM_PRIORITY_UNKNOWN ELSE prio[q]]
    BY <1>7 DEF Forgets, RemoveProcs
  <2> QED BY <1>1, <2>1 DEF FgInv, Goal, Plain, TypeOK
<1>8. ASSUME SetConnectExtensionProcPrio PROVE Goal
  <2>1. PICK x \in todo :
          \/ prio' = prio
          \/ x[2] \in known /\ prio' = [prio EXCEPT ![x[2]] = ExtensionPriority(x[2])]
    BY <1>8 DEF SetConnectExtensionProcPrio
  <2>2. UNCHANGED <<known, status, starting>>
    BY <1>8 DEF SetConnectExtensionProcPrio
  <2>3. ASSUME NEW c \in known \ starting, Plain(UidOf[c]), "fg" \in status[c]
        PROVE  prio'[c] <= 0
    <3>1. c \in Pid /\ prio[c] <= 0
      BY <1>1, <2>3 DEF FgInv, TypeOK
    <3>2. ExtensionPriority(c) <= 0
      BY <1>1, <2>3, <3>1, ForegroundExtension
    <3>3. prio'[c] = prio[c] \/ prio'[c] = ExtensionPriority(c)
      BY <1>1, <2>1, <3>1 DEF TypeOK
    <3> QED BY <3>1, <3>2, <3>3
  <2> QED BY <2>2, <2>3 DEF FgInv, Goal, Plain
<1>a. ASSUME HandStep PROVE Goal
  <2>1. UNCHANGED <<known, status, starting>>
    BY <1>a, HandStepKeeps
  <2>2. ASSUME NEW c \in known \ starting, Plain(UidOf[c]), "fg" \in status[c]
        PROVE  prio'[c] <= 0
    <3>1. c \in Pid /\ prio[c] <= 0
      BY <1>1, <2>2 DEF FgInv, TypeOK
    <3>2. prio'[c] <= prio[c]
      BY <1>a, <2>2, HandRaises
    <3>3. prio[c] \in Int /\ prio'[c] \in Int
      BY <1>1, <3>1, PriorityRange DEF TypeOK
    <3> QED BY <3>1, <3>2, <3>3
  <2> QED BY <2>1, <2>2 DEF FgInv, Goal, Plain
<1>9. StepKind
  BY StepKinds
<1>10. \A b \in Binds : b[2] \in Pid
  BY ConstantsAssumption
<1>11. Goal
  BY <1>2, <1>3, <1>4, <1>5, <1>6, <1>7, <1>8, <1>9, <1>10, <1>a
     DEF StepKind, HandlesOwn, HandlesBind
<1> QED BY <1>11 DEF Goal

\* Uses(c, e) comes about only in a handler that then queues e.
LEMMA UsedStep ==
  ASSUME IInv, TypeOK', [Next]_vars, PlainAbove, BindInv, BindInv', FgInv, UsedInv,
         "APPLICATION_SUSPEND" \notin Reasons
  PROVE  UsedInv'
<1> SUFFICES ASSUME NEW c \in Pid, NEW e \in Pid, Uses(c, e)'
             PROVE  prio'[e] <= 100 \/ Awaits(e)'
  BY DEF UsedInv
<1> DEFINE Goal == prio'[e] <= 100 \/ Awaits(e)'
<1>1. TypeOK /\ (\A q \in Pid \ known : status[q] = {})
  BY DEF IInv, RecordInv
<1>2. /\ c \in known' \ starting' /\ Plain(UidOf[c]) /\ "fg" \in status'[c] /\ e \in fromMe'[c]
      /\ e \in known' \ starting' /\ Plain(UidOf[e]) /\ c \in toMe'[e]
  BY DEF Uses, Plain
<1>3. "extension" \in status'[e]
  BY <1>2 DEF BindInv
<1> HIDE DEF Goal
<1>4. ASSUME Uses(c, e), prio'[e] = prio[e], todo' = todo, stage' = "hang" <=> stage = "hang"
      PROVE  Goal
  BY <1>4 DEF UsedInv, Goal, Awaits
<1>5. ASSUME Quiet PROVE Goal
  <2>1. Uses(c, e)
    BY <1>2, <1>5 DEF Quiet, Uses
  <2> QED BY <1>4, <1>5, <2>1 DEF Quiet
<1>6. ASSUME NEW p \in Pid, HandleCreateProcess(p) PROVE Goal
  <2>1. /\ known' = known \cup {p} /\ UNCHANGED <<status, starting, toMe, fromMe, stage, todo>>
        /\ \E k : prio' = IF p \in known THEN prio ELSE [prio EXCEPT ![p] = CreatePriority(p, k)]
    BY <1>6 DEF HandleCreateProcess, jobVars
  <2>2. c \in known /\ e \in known
    BY <1>2, <2>1 DEF BindInv
  <2>3. Uses(c, e)
    BY <1>2, <2>1, <2>2 DEF Uses
  <2>4. prio'[e] = prio[e]
    BY <1>1, <2>1, <2>2 DEF TypeOK
  <2> QED BY <1>4, <2>1, <2>3, <2>4
<1>7. ASSUME NEW p \in Pid, HandleAbilityStart(p) PROVE Goal
  <2>1. /\ known' = known /\ starting' = starting \cup {p}
        /\ UNCHANGED <<status, toMe, fromMe, stage, todo>>
        /\ prio' = [prio EXCEPT ![p] = RECLAIM_PRIORITY_FOREGROUND]
    BY <1>7 DEF HandleAbilityStart, jobVars
  <2>2. Uses(c, e) /\ prio'[e] = prio[e]
    BY <1>1, <1>2, <2>1 DEF Uses, TypeOK
  <2> QED BY <1>4, <2>1, <2>2
<1>8. ASSUME NEW p \in Pid, Handles(p), p = e \/ (p = c /\ e \in known') PROVE Goal
  <2>1. Plain(UidOf[p]) /\ p \notin starting'
    BY <1>2, <1>8
  <2>2. UpdatePriorityByProcForExtension(p)
    BY <1>1, <1>8, <2>1, PlainHandles
  <2>3. Awaits(e)'
    BY <1>2, <1>3, <1>8, <2>2, QueuesConnected
  <2> QED BY <2>3 DEF Goal
<1>9. ASSUME NEW p \in Pid, Handles(p), p # e, p # c, e \in fromMe[c] PROVE Goal
  <2>1. /\ known' = known /\ starting \ {p} \subseteq starting' /\ stage = "idle"
        /\ status'[c] = status[c] /\ toMe'[e] = toMe[e]
    BY <1>9 DEF Handles
  <2>2. Uses(c, e)
    BY <1>2, <1>9, <2>1 DEF Uses
  <2>3. todo = {}
    BY <2>1 DEF IInv, JobInv
  <2>4. prio[e] <= 100
    BY <2>1, <2>2, <2>3 DEF UsedInv, Awaits
  <2>5. prio'[e] = prio[e]
    BY <1>1, <1>9, HandlesPriorities
  <2> QED BY <2>4, <2>5 DEF Goal
<1>10. ASSUME NEW p \in Pid, HandlesOwn(p) PROVE Goal
  <2>1. Handles(p) /\ fromMe' = fromMe
    BY <1>10 DEF HandlesOwn
  <2> QED BY <1>2, <1>8, <1>9, <2>1
<1>11. ASSUME NEW b \in Binds, NEW bind \in BOOLEAN, HandlesBind(b[1], b[2], bind) PROVE Goal
  <2>1. b[1] \in Pid /\ b[2] \in Pid
    BY ConstantsAssumption
  <2>2. Handles(b[2]) /\ "fg" \notin status'[b[2]]
    BY <1>11 DEF HandlesBind
  <2>3. fromMe'[c] \subseteq fromMe[c] \cup {b[2]}
    BY <1>1, <1>11, <2>1, CallerSide DEF HandlesBind
  <2> QED BY <1>2, <1>8, <1>9, <2>1, <2>2, <2>3
<1>12. ASSUME NEW b \in Binds, NEW bind \in BOOLEAN, SkipsBind(b[1], b[2], bind) PROVE Goal
  <2> DEFINE t == b[2]
  <2>1. b[1] \in Pid /\ t \in Pid
    BY ConstantsAssumption
  <2>2. fromMe'[c] \subseteq fromMe[c] \cup {t}
    BY <1>1, <1>12, <2>1, CallerSide DEF SkipsBind
  <2>3. UNCHANGED <<known, prio, status, starting, toMe, todo, stage>>
    BY <1>12 DEF SkipsBind
  <2>4. e # t
    <3> SUFFICES ASSUME e = t PROVE FALSE
      OBVIOUS
    <3>1. UidOf[t] \in Uid /\ Plain(UidOf[t]) /\ t \in known
      BY <1>2, <2>1, <2>3, ConstantsAssumption
    <3>2. Above(0, UidOf[t]) /\ UidOf[t] \notin KeepAlive
      BY <3>1 DEF PlainAbove, Plain
    <3>3. prio[t] >= 0 /\ bprio[UidOf[t]] >= 0 /\ UidOf[t] \notin killList
      BY <2>1, <3>2 DEF Above
    <3>4. prio[t] \in Int /\ bprio[UidOf[t]] \in Int
      BY <1>1, <2>1, <3>1, PriorityRange DEF TypeOK
    <3>5. \/ prio[t] <= RECLAIM_PRIORITY_KILLABLE_SYSTEM
          \/ bprio[UidOf[t]] <= RECLAIM_PRIORITY_KILLABLE_SYSTEM
      BY <1>12, <3>1, <3>2, <3>3 DEF SkipsBind
    <3> QED BY <3>3, <3>4, <3>5 DEF RECLAIM_PRIORITY_KILLABLE_SYSTEM
  <2>5. Uses(c, e)
    BY <1>2, <2>2, <2>3, <2>4 DEF Uses
  <2> QED BY <1>4, <2>3, <2>5
<1>13. ASSUME NEW gone \in SUBSET Pid, Forgets(gone) PROVE Goal
  <2>1. /\ known' = known \ gone /\ starting' = starting \ gone
        /\ status' = [q \in Pid |-> IF q \in gone THEN {} ELSE status[q]]
        /\ prio' = [q \in Pid |-> IF q \in gone THEN RECLAIM_PRIORITY_UNKNOWN ELSE prio[q]]
        /\ \A q \in Pid : toMe'[q] \subseteq toMe[q] /\ fromMe'[q] \subseteq fromMe[q]
        /\ todo' = todo /\ stage' = stage
    BY <1>13 DEF Forgets, RemoveProcs
  <2>2. Uses(c, e) /\ prio'[e] = prio[e]
    BY <1>1, <1>2, <2>1 DEF Uses, TypeOK
  <2> QED BY <1>4, <2>1, <2>2
<1>14. ASSUME SetConnectExtensionProcPrio PROVE Goal
  <2>1. PICK x \in todo :
          /\ todo' = todo \ {x}
          /\ \/ x[2] \notin known /\ prio' = prio
             \/ x[2] \in known /\ prio' = [prio EXCEPT ![x[2]] = ExtensionPriority(x[2])]
    BY <1>14 DEF SetConnectExtensionProcPrio
  <2>2. UNCHANGED <<known, status, starting, toMe, fromMe>> /\ stage # "hang"
    BY <1>14 DEF SetConnectExtensionProcPrio
  <2>3. Uses(c, e) /\ e \in known
    BY <1>2, <2>2 DEF Uses
  <2>4. CASE x[2] = e
    <3>1. prio'[e] = ExtensionPriority(e)
      BY <1>1, <2>1, <2>3, <2>4 DEF TypeOK
    <3>2. prio[c] <= 0 /\ c \in toMe[e]
      BY <2>3 DEF FgInv, Uses
    <3>3. ExtensionPriority(e) <= 100
      BY <1>1, <3>2, ClientProtects
    <3> QED BY <3>1, <3>3 DEF Goal
  <2>5. CASE x[2] # e
    <3>1. prio'[e] = prio[e]
      BY <1>1, <2>1, <2>5 DEF TypeOK
    <3>2. prio[e] <= 100 \/ Awaits(e)
      BY <2>3 DEF UsedInv
    <3>3. Awaits(e) => Awaits(e)'
      BY <2>1, <2>2, <2>5 DEF Awaits
    <3> QED BY <3>1, <3>2, <3>3 DEF Goal
  <2> QED BY <2>4, <2>5
<1>a. ASSUME HandStep PROVE Goal
  <2>1. UNCHANGED <<known, status, starting, toMe, fromMe>>
    BY <1>a, HandStepKeeps
  <2>2. Uses(c, e) /\ e \in known \ starting /\ {"fg", "extension"} \cap status[e] # {}
    BY <1>2, <1>3, <2>1 DEF Uses
  <2>3. CASE FileExtension
    <3>1. todo' = todo /\ prio' = prio /\ stage' = "set" /\ stage = "extFile"
      BY <2>3 DEF FileExtension, FileBundle, procVars
    <3> QED BY <1>4, <2>2, <3>1
  <2>4. CASE ReadMinimum
    <3>1. todo' = todo /\ prio' = prio /\ stage' # "hang" /\ stage # "hang"
      BY <2>4 DEF ReadMinimum, procVars
    <3> QED BY <1>4, <2>2, <3>1
  <2>5. ASSUME stage \in {"idle", "cap", "file"} PROVE Goal
    <3>1. todo = {}
      BY <2>5 DEF IInv, JobInv, OwnStages
    <3>2. prio[e] <= 100
      BY <2>2, <2>5, <3>1 DEF UsedInv, Awaits
    <3>3. prio'[e] <= prio[e]
      BY <1>a, <2>2, HandRaises
    <3>4. prio[e] \in Int /\ prio'[e] \in Int
      BY <1>1, PriorityRange DEF TypeOK
    <3>5. prio'[e] <= 100
      BY <3>2, <3>3, <3>4
    <3> QED BY <3>5 DEF Goal
  <2>6. stage \in {"idle", "cap", "file"} \/ FileExtension \/ ReadMinimum
    BY <1>a DEF HandStep, BaseStep, CapPriority, FileOwn, Idle
  <2> QED BY <2>3, <2>4, <2>5, <2>6
<1>15. StepKind
  BY StepKinds
<1>16. Goal
  BY <1>5, <1>6, <1>7, <1>10, <1>11, <1>12, <1>13, <1>14, <1>15, <1>a DEF StepKind
<1> QED BY <1>16 DEF Goal

\* The invariant behind ForegroundClientProtects.
ClientInv ==
  /\ "APPLICATION_SUSPEND" \notin Reasons
  /\ IInv
  /\ PlainAbove
  /\ BindInv
  /\ FgInv
  /\ UsedInv

\* It holds at the start.
LEMMA ClientInit == "APPLICATION_SUSPEND" \notin Reasons /\ Init => ClientInv
<1> SUFFICES ASSUME "APPLICATION_SUSPEND" \notin Reasons, Init PROVE ClientInv
  OBVIOUS
<1>1. BindInv /\ FgInv /\ UsedInv
  BY DEF Init, BindInv, FgInv, UsedInv, Uses
<1> QED BY <1>1, InitInv, PlainInit DEF ClientInv

\* Every step preserves it.
LEMMA ClientStep == ClientInv /\ [Next]_vars => ClientInv'
<1> SUFFICES ASSUME ClientInv, [Next]_vars PROVE ClientInv'
  OBVIOUS
<1>1. IInv' /\ TypeOK'
  BY NextInv DEF ClientInv, IInv
<1>2. BindInv' /\ PlainAbove'
  BY <1>1, BindStep, PlainStep DEF ClientInv
<1>3. FgInv' /\ UsedInv'
  BY <1>1, <1>2, FgStep, UsedStep DEF ClientInv
<1> QED BY <1>1, <1>2, <1>3 DEF ClientInv

\* An extension used by a foreground client is protected by it between handlers,
\* in whatever order binds, foreground events, starts and deaths arrive.  A
\* suspension is excluded: it sends every process of the bundle to SUSPEND,
\* whoever uses it.
THEOREM ClientsProtect ==
  "APPLICATION_SUSPEND" \notin Reasons /\ Spec => []ForegroundClientProtects
<1>1. ClientInv => ForegroundClientProtects
  <2> SUFFICES ASSUME ClientInv, stage = "idle", NEW c \in known \ starting,
                      NEW e \in fromMe[c] \cap (known \ starting),
                      Plain(UidOf[c]), "fg" \in status[c], Plain(UidOf[e]), c \in toMe[e]
               PROVE  prio[e] <= 100
    BY DEF ForegroundClientProtects, RECLAIM_PRIORITY_BG_SUSPEND_DELAY
  <2>1. c \in Pid /\ e \in Pid /\ todo = {}
    BY DEF ClientInv, IInv, TypeOK, JobInv
  <2>2. Uses(c, e) /\ ~Awaits(e)
    BY <2>1 DEF Uses, Awaits
  <2> QED BY <2>1, <2>2 DEF ClientInv, UsedInv
<1> QED BY <1>1, ClientInit, ClientStep, PTL DEF Spec
=============================================================================
