------------------------ MODULE MultiAccount_proofs ------------------------
(***************************************************************************)
(* Proofs about MultiAccount: through account switches, late reports,      *)
(* status events and ability starts between the steps of a hot switch a    *)
(* bundle has the priority of its most important process, and once the     *)
(* reports are handled the accounts have the priorities of their state.    *)
(*                                                                         *)
(* And about ReclaimStrategy, which is told those priorities, for any      *)
(* accounts, processes, documents and failures: the kernel holds what the  *)
(* service has read back, processes are filed under their account, and an  *)
(* account has the settings its last priority asks for.                    *)
(***************************************************************************)
EXTENDS MultiAccount, ReclaimStrategy, SequenceTheorems, FiniteSetTheorems,
        WellFoundedInduction, TLAPS

-----------------------------------------------------------------------------
(* Least elements.                                                         *)

\* The least of a set is the one element below all others.
LEMMA MinIs ==
  ASSUME NEW I, I \subseteq Int, NEW p \in I, \A y \in I : p =< y
  PROVE  Min(I) = p
<1>1. \A x \in I : (\A y \in I : x =< y) => x = p
  OBVIOUS
<1> QED BY <1>1 DEF Min

\* Integers that are bounded from below have a least.
LEMMA BoundedMin ==
  ASSUME NEW I, I \subseteq Int, I # {}, NEW low \in Int, \A y \in I : low =< y
  PROVE  Min(I) \in I /\ \A y \in I : Min(I) =< y
<1> DEFINE J == {n \in Nat : n + low \in I}
<1>1. J # {} /\ J \subseteq Nat
  <2>1. PICK y \in I : TRUE
    OBVIOUS
  <2>2. y - low \in Nat /\ (y - low) + low = y
    BY <2>1
  <2>3. y - low \in J
    BY <2>1, <2>2
  <2> QED BY <2>3
<1>2. PICK m \in J : \A j \in J : ~(<<j, m>> \in OpToRel(<, Nat))
  <2> HIDE DEF J
  <2> QED BY <1>1, NatLessThanWellFounded, WFMin
<1>3. m \in Nat /\ m + low \in I
  BY <1>2
<1>4. ASSUME NEW y \in I PROVE m + low =< y
  <2>1. y - low \in Nat /\ (y - low) + low = y
    OBVIOUS
  <2>2. y - low \in J
    BY <2>1
  <2>3. ASSUME ~(m =< y - low) PROVE FALSE
    <3>1. <<y - low, m>> \in OpToRel(<, Nat)
      BY <1>3, <2>1, <2>3 DEF OpToRel
    <3> QED BY <1>2, <2>2, <3>1
  <2> QED BY <1>3, <2>1, <2>3
<1>5. Min(I) = m + low
  BY <1>3, <1>4, MinIs
<1> QED BY <1>3, <1>4, <1>5

\* A set of integers has a least one where nothing in it is less.
HasLeast(T) == \E x \in T : \A y \in T : x =< y

\* A finite set of integers has a least.
LEMMA FiniteMin ==
  ASSUME NEW S, IsFiniteSet(S), S \subseteq Int, S # {}
  PROVE  Min(S) \in S /\ \A y \in S : Min(S) =< y
<1> DEFINE Bad(n) == \E T \in SUBSET S : T # {} /\ Cardinality(T) = n /\ ~HasLeast(T)
           C == {n \in Nat : Bad(n)}
<1>1. ASSUME C # {} PROVE FALSE
  <2>1. PICK m \in C : \A j \in C : ~(<<j, m>> \in OpToRel(<, Nat))
    <3>1. C \subseteq Nat
      OBVIOUS
    <3> HIDE DEF C
    <3> QED BY <1>1, <3>1, NatLessThanWellFounded, WFMin
  <2>2. m \in Nat /\ Bad(m)
    BY <2>1
  <2>3. PICK T \in SUBSET S : T # {} /\ Cardinality(T) = m /\ ~HasLeast(T)
    BY <2>2
  <2>4. IsFiniteSet(T)
    BY FS_Subset
  <2>5. PICK x \in T : TRUE
    BY <2>3
  <2>6. IsFiniteSet(T \ {x}) /\ Cardinality(T \ {x}) = m - 1 /\ Cardinality(T \ {x}) \in Nat
    BY <2>3, <2>4, <2>5, FS_RemoveElement, FS_CardinalityType
  <2>7. CASE T \ {x} = {}
    <3>1. T = {x} /\ x \in Int
      BY <2>5, <2>7
    <3>2. HasLeast(T)
      BY <3>1 DEF HasLeast
    <3> QED BY <2>3, <3>2
  <2>8. CASE T \ {x} # {} /\ HasLeast(T \ {x})
    <3>1. PICK z \in T \ {x} : \A y \in T \ {x} : z =< y
      BY <2>8 DEF HasLeast
    <3>2. x \in Int /\ z \in Int /\ T \subseteq Int
      BY <2>5
    <3>3. CASE z =< x
      <4>1. \A y \in T : z =< y
        BY <3>1, <3>3
      <4> QED BY <2>3, <3>1, <4>1 DEF HasLeast
    <3>4. CASE ~(z =< x)
      <4>1. \A y \in T : x =< y
        BY <3>1, <3>2, <3>4
      <4> QED BY <2>3, <2>5, <4>1 DEF HasLeast
    <3> QED BY <3>3, <3>4
  <2>9. CASE T \ {x} # {} /\ ~HasLeast(T \ {x})
    <3>1. T \ {x} \in SUBSET S /\ m - 1 \in Nat
      BY <2>6
    <3>2. Bad(m - 1)
      BY <2>6, <2>9, <3>1
    <3>3. m - 1 \in C
      BY <3>1, <3>2
    <3>4. <<m - 1, m>> \in OpToRel(<, Nat)
      BY <2>2, <3>1 DEF OpToRel
    <3> QED BY <2>1, <3>3, <3>4
  <2> QED BY <2>7, <2>8, <2>9
<1>2. Cardinality(S) \in Nat
  BY FS_CardinalityType
<1>3. HasLeast(S)
  <2>1. ASSUME ~HasLeast(S) PROVE FALSE
    <3>1. Bad(Cardinality(S))
      BY <2>1
    <3>2. Cardinality(S) \in C
      BY <1>2, <3>1
    <3> HIDE DEF C
    <3> QED BY <1>1, <3>2
  <2> QED BY <2>1
<1>4. PICK x \in S : \A y \in S : x =< y
  BY <1>3 DEF HasLeast
<1>5. Min(S) = x
  BY <1>4, MinIs
<1> QED BY <1>4, <1>5

-----------------------------------------------------------------------------
(* The inductive invariant.                                                *)

Scale == RECLAIM_PRIORITY_MIN .. RECLAIM_PRIORITY_MAX

AccountTyping ==
  /\ active \in SUBSET Account /\ oldActive \in SUBSET Account
  /\ switches \in 0 .. MaxSwitches
  /\ reports \in Seq(Account) /\ Len(reports) <= switches
  /\ initialized \in BOOLEAN /\ failed \in BOOLEAN
  /\ retryTimes \in 0 .. MaxRetry
  /\ DOMAIN accPrio \subseteq Account
  /\ \A a \in DOMAIN accPrio : accPrio[a] \in {HIGH_PRIORITY, LOW_PRIORITY}
  /\ alive \in SUBSET Pid

PriorityTyping ==
  /\ prio \in [Pid -> Int] /\ bprio \in [Uid -> Scale] /\ overtaken \in SUBSET Uid
  /\ visits \in [Uid -> 0 .. 2] /\ stage \in {"idle", "write", "delta", "increase"}
  /\ hand \in SUBSET Uid /\ oldPriority \in Scale /\ delta \in Int /\ left \in SUBSET Pid

\* The last report is of the account that is active now.  The accounts the manager knows
\* have the priorities of the switch it handled last, but for those a report still speaks of.
Reported(a) == \E i \in 1 .. Len(reports) : reports[i] = a

Settling ==
  /\ reports # <<>> => active = {reports[Len(reports)]}
  /\ ~initialized /\ ~failed => DOMAIN accPrio = {}
  /\ initialized /\ ~failed =>
       /\ reports = <<>> => oldActive = active
       /\ \A a \in DOMAIN accPrio :
            Reported(a) \/ accPrio[a] = IF a \in oldActive THEN HIGH_PRIORITY ELSE LOW_PRIORITY

\* A hot switch has at most one bundle in hand, whose processes alone it has left to move;
\* the account of every bundle it visits is known.
InHand ==
  /\ stage = "idle" => hand = {}
  /\ stage # "idle" => \E u \in Uid : hand = {u}
  /\ stage # "increase" => left = {}
  /\ \A p \in left : UidOf[p] \in hand
  /\ stage = "write" => \A u \in hand \ overtaken : oldPriority = bprio[u]
  /\ \A u \in Uid : visits[u] > 0 \/ u \in hand => AccountOf[u] \in DOMAIN accPrio

\* The priority a process has when the hot switch is through with it, and the bundle's
\* that goes with those: the old one, as long as the difference is not taken.
Level(p) == IF p \in left THEN prio[p] + delta ELSE prio[p]
BasePriority(u)  == IF stage = "delta" /\ u \in hand THEN oldPriority ELSE bprio[u]

\* The bundle has the least priority of its processes.
Leads(u) ==
  /\ \E p \in ProcsOf(u) : Level(p) = BasePriority(u)
  /\ \A p \in ProcsOf(u) : BasePriority(u) <= Level(p)

AccountInv  == AccountTyping /\ Settling
PriorityInv == PriorityTyping /\ InHand /\ \A u \in Uid \ overtaken : Leads(u)

IInv == AccountInv /\ PriorityInv

\* The numbers behind the names of the priorities.
LEMMA Constants ==
  /\ RECLAIM_PRIORITY_KILLABLE_SYSTEM = -800 /\ RECLAIM_PRIORITY_FOREGROUND = 0
  /\ RECLAIM_PRIORITY_MIN = -1000 /\ RECLAIM_PRIORITY_MAX = 1000
  /\ HIGH_PRIORITY = -50 /\ LOW_PRIORITY = 50
BY SMT DEF RECLAIM_PRIORITY_KILLABLE_SYSTEM, RECLAIM_PRIORITY_FOREGROUND, RECLAIM_PRIORITY_MIN, RECLAIM_PRIORITY_MAX,
           HIGH_PRIORITY, LOW_PRIORITY

\* The scale goes from -1000 to 1000.
LEMMA ScaleRange ==
  /\ \A x \in Scale : x \in Int /\ -1000 <= x /\ x <= 1000
  /\ \A x \in Int : x \in Scale <=> -1000 <= x /\ x <= 1000
<1>1. Scale = -1000 .. 1000
  BY Constants DEF Scale
<1> QED BY <1>1

\* Every bundle has processes, finitely many, and they are its own.
LEMMA Processes ==
  ASSUME NEW u \in Uid
  PROVE  /\ ProcsOf(u) # {} /\ ProcsOf(u) \subseteq Pid /\ IsFiniteSet(ProcsOf(u))
         /\ \A p \in Pid : p \in ProcsOf(u) <=> UidOf[p] = u
<1>1. ProcsOf(u) \in SUBSET Pid /\ ProcsOf(u) # {} /\ \A p \in Pid : p \in ProcsOf(u) <=> UidOf[p] = u
  BY AccountAssumption DEF ProcsOf
<1>2. IsFiniteSet(Pid)
  BY AccountAssumption
<1>3. IsFiniteSet(ProcsOf(u))
  BY <1>1, <1>2, FS_Subset
<1> QED BY <1>1, <1>3

\* The least priority of the processes of a bundle.
LEMMA LeastOfBundle ==
  ASSUME NEW u \in Uid, NEW f \in [Pid -> Int]
  PROVE  LET least == Min({f[p] : p \in ProcsOf(u)})
         IN  /\ least \in Int
             /\ \E p \in ProcsOf(u) : f[p] = least
             /\ \A p \in ProcsOf(u) : least <= f[p]
<1> DEFINE I == {f[p] : p \in ProcsOf(u)}
<1>1. ProcsOf(u) # {} /\ ProcsOf(u) \subseteq Pid /\ IsFiniteSet(ProcsOf(u))
  BY Processes
<1>2. I \subseteq Int /\ I # {}
  BY <1>1
<1>3. IsFiniteSet(I)
  <2>1. [p \in ProcsOf(u) |-> f[p]] \in Surjection(ProcsOf(u), I)
    BY DEF Surjection
  <2> QED BY <1>1, <2>1, FS_Surjection
<1>4. Min(I) \in I /\ \A y \in I : Min(I) =< y
  <2> HIDE DEF I
  <2> QED BY <1>2, <1>3, FiniteMin
<1>5. PICK p \in ProcsOf(u) : Min(I) = f[p]
  BY <1>4
<1>6. \A q \in ProcsOf(u) : f[q] \in I
  OBVIOUS
<1>7. Min(I) \in Int /\ f[p] = Min(I) /\ \A q \in ProcsOf(u) : Min(I) <= f[q]
  <2> HIDE DEF I
  <2> QED BY <1>2, <1>4, <1>5, <1>6
<1> QED BY <1>7

\* The invariant holds before the manager is initialised.
LEMMA InitIInv == Init => IInv
<1> SUFFICES ASSUME Init PROVE IInv
  OBVIOUS
<1>1. PICK l \in Levels :
        prio = [p \in Pid |-> IF UidOf[p] \in SystemUids THEN RECLAIM_PRIORITY_KILLABLE_SYSTEM ELSE l]
  BY DEF Init
<1>2. l \in Scale /\ RECLAIM_PRIORITY_KILLABLE_SYSTEM \in Scale
  <2>1. l \in RECLAIM_PRIORITY_FOREGROUND .. RECLAIM_PRIORITY_MAX
    BY AccountAssumption
  <2> QED BY <2>1, Constants, ScaleRange
<1>3. prio \in [Pid -> Scale]
  BY <1>1, <1>2
<1>4. prio \in [Pid -> Int]
  BY <1>3, ScaleRange
<1>5. stage = "idle" /\ hand = {} /\ left = {} /\ overtaken = {}
  BY DEF Init
<1>6. ASSUME NEW u \in Uid PROVE bprio[u] \in Scale /\ Leads(u)
  <2>1. bprio[u] = Min({prio[p] : p \in ProcsOf(u)})
    BY DEF Init
  <2>2. /\ \E p \in ProcsOf(u) : prio[p] = bprio[u]
        /\ \A p \in ProcsOf(u) : bprio[u] <= prio[p]
    BY <1>4, <2>1, LeastOfBundle
  <2>3. PICK p \in ProcsOf(u) : prio[p] = bprio[u]
    BY <2>2
  <2>4. bprio[u] \in Scale
    BY <1>3, <2>3, Processes
  <2>5. BasePriority(u) = bprio[u] /\ \A q \in Pid : Level(q) = prio[q]
    BY <1>5 DEF BasePriority, Level
  <2>6. ProcsOf(u) \subseteq Pid
    BY Processes
  <2> QED BY <2>2, <2>4, <2>5, <2>6 DEF Leads
<1>7. AccountInv
  <2>1. active \in SUBSET Account /\ reports = <<>> /\ reports \in Seq(Account) /\ Len(reports) = 0
    BY DEF Init
  <2>2. switches \in 0 .. MaxSwitches /\ Len(reports) <= switches /\ retryTimes \in 0 .. MaxRetry
    BY <2>1, AccountAssumption DEF Init
  <2>3. DOMAIN accPrio = {} /\ oldActive = {} /\ alive = Pid /\ initialized = FALSE /\ failed = FALSE
    BY DEF Init
  <2>4. AccountTyping
    BY <2>1, <2>2, <2>3 DEF AccountTyping
  <2>5. Settling
    BY DEF Init, Settling
  <2> QED BY <2>4, <2>5 DEF AccountInv
<1>8. PriorityTyping
  <2>1. bprio \in [Uid -> Scale]
    BY <1>6 DEF Init
  <2>2. visits \in [Uid -> 0 .. 2] /\ oldPriority \in Scale /\ delta \in Int
    BY Constants, ScaleRange DEF Init
  <2> QED BY <1>4, <1>5, <2>1, <2>2 DEF PriorityTyping
<1>9. InHand
  <2>1. \A u \in Uid : visits[u] = 0
    BY DEF Init
  <2> QED BY <1>5, <2>1 DEF InHand
<1> QED BY <1>6, <1>7, <1>8, <1>9 DEF IInv, PriorityInv

-----------------------------------------------------------------------------
(* The account service and the reports.                                    *)

\* What does not touch the priorities keeps them, and keeps a hot switch that
\* is under way.
LEMMA PriorityFrame ==
  ASSUME PriorityInv, UNCHANGED priorityVars, UNCHANGED <<stage, hand, oldPriority, delta, left>>,
         visits' \in [Uid -> 0 .. 2], DOMAIN accPrio \subseteq DOMAIN accPrio',
         \A u \in Uid : visits'[u] > 0 => visits[u] > 0 \/ AccountOf[u] \in DOMAIN accPrio'
  PROVE  PriorityInv'
<1>1. UNCHANGED <<prio, bprio, overtaken>>
  BY DEF priorityVars
<1>2. PriorityTyping'
  BY <1>1 DEF PriorityInv, PriorityTyping
<1>3. InHand'
  <2>1. \A u \in Uid : visits'[u] > 0 \/ u \in hand => AccountOf[u] \in DOMAIN accPrio'
    BY DEF PriorityInv, InHand
  <2> QED BY <1>1, <2>1 DEF PriorityInv, InHand
<1>4. \A u \in Uid \ overtaken' : Leads(u)'
  BY <1>1 DEF PriorityInv, Leads, Level, BasePriority
<1> QED BY <1>2, <1>3, <1>4 DEF PriorityInv

\* What does not touch the accounts keeps them.
LEMMA AccountFrame ==
  ASSUME AccountInv, UNCHANGED accountVars
  PROVE  AccountInv'
<1>1. UNCHANGED <<active, switches, reports, initialized, retryTimes, oldActive, accPrio, alive, failed>>
  BY DEF accountVars
<1>2. AccountTyping'
  BY <1>1 DEF AccountInv, AccountTyping
<1>3. \A a : Reported(a)' = Reported(a)
  BY <1>1 DEF Reported
<1>4. Settling'
  BY <1>1, <1>3 DEF AccountInv, Settling
<1> QED BY <1>2, <1>4 DEF AccountInv

\* The account service puts the new account at the end of the reports.
LEMMA SwitchIInv ==
  ASSUME IInv, NEW a \in Account, Switch(a)
  PROVE  IInv'
<1>1. reports \in Seq(Account) /\ switches \in 0 .. MaxSwitches /\ MaxSwitches \in Nat /\ Len(reports) <= switches
  BY AccountAssumption DEF IInv, AccountInv, AccountTyping
<1>2. /\ reports' \in Seq(Account) /\ Len(reports') = Len(reports) + 1 /\ reports'[Len(reports) + 1] = a
      /\ \A i \in 1 .. Len(reports) : reports'[i] = reports[i]
  BY <1>1 DEF Switch
<1>3. switches' = switches + 1 /\ switches < MaxSwitches /\ active' = {a}
  BY DEF Switch
<1>4. UNCHANGED <<initialized, retryTimes, oldActive, accPrio, alive, failed>> /\ UNCHANGED priorityVars /\ UNCHANGED switchVars
  BY DEF Switch
<1>5. AccountTyping'
  <2>1. switches' \in 0 .. MaxSwitches /\ Len(reports') <= switches'
    BY <1>1, <1>2, <1>3
  <2> QED BY <1>2, <1>3, <1>4, <2>1 DEF IInv, AccountInv, AccountTyping
<1>6. Settling'
  <2>1. reports' # <<>> /\ active' = {reports'[Len(reports')]}
    BY <1>1, <1>2, <1>3
  <2>2. \A b : Reported(b) => Reported(b)'
    BY <1>1, <1>2 DEF Reported
  <2> QED BY <1>4, <2>1, <2>2 DEF IInv, AccountInv, Settling
<1>7. PriorityInv'
  <2>1. UNCHANGED <<visits, stage, hand, oldPriority, delta, left>> /\ visits \in [Uid -> 0 .. 2]
    BY <1>4 DEF switchVars, IInv, PriorityInv, PriorityTyping
  <2> QED BY <1>4, <2>1, PriorityFrame DEF IInv
<1> QED BY <1>5, <1>6, <1>7 DEF IInv, AccountInv

\* The priorities an update gives.
LEMMA UpdateType ==
  ASSUME AccountTyping, NEW done \in SUBSET Account, UpdateAccountPriorityInfo(done)
  PROVE  /\ DOMAIN accPrio' = DOMAIN accPrio \cup done /\ DOMAIN accPrio' \subseteq Account
         /\ \A a \in DOMAIN accPrio' : accPrio'[a] \in {HIGH_PRIORITY, LOW_PRIORITY}
         /\ \A a \in done : accPrio'[a] = AccountPriority(a)
         /\ \A a \in DOMAIN accPrio \ done : accPrio'[a] = accPrio[a]
BY DEF UpdateAccountPriorityInfo, AccountPriority, AccountTyping

\* Init reads the active accounts, in part when a query fails.
LEMMA InitManagerIInv ==
  ASSUME IInv, InitManager
  PROVE  IInv'
<1>0. AccountTyping /\ Settling /\ PriorityInv /\ active \in SUBSET Account /\ ~initialized
  BY DEF IInv, AccountInv, AccountTyping, InitManager
<1>1. UNCHANGED <<active, switches, reports, alive>> /\ UNCHANGED priorityVars /\ UNCHANGED switchVars
  BY DEF InitManager
<1>2. retryTimes' \in 0 .. MaxRetry
  <2>1. retryTimes \in 0 .. MaxRetry /\ MaxRetry \in Nat
    BY <1>0, AccountAssumption DEF AccountTyping
  <2> QED BY <2>1 DEF InitManager
<1>3. ASSUME DOMAIN accPrio \subseteq DOMAIN accPrio' PROVE PriorityInv'
  <2>1. UNCHANGED <<visits, stage, hand, oldPriority, delta, left>> /\ visits \in [Uid -> 0 .. 2]
    BY <1>0, <1>1 DEF switchVars, PriorityInv, PriorityTyping
  <2> QED BY <1>0, <1>1, <1>3, <2>1, PriorityFrame
<1>4. CASE oldActive' = {} /\ UNCHANGED <<initialized, accPrio, failed>>
  <2>1. AccountTyping'
    BY <1>0, <1>1, <1>2, <1>4 DEF AccountTyping
  <2>2. Settling'
    BY <1>0, <1>1, <1>4 DEF Settling
  <2> QED BY <1>3, <1>4, <2>1, <2>2 DEF IInv, AccountInv
<1>5. ASSUME NEW done \in SUBSET active, oldActive' = active, UpdateAccountPriorityInfo(done), failed' = TRUE,
             UNCHANGED initialized
      PROVE  IInv'
  <2>1. done \in SUBSET Account
    BY <1>0
  <2>2. /\ DOMAIN accPrio \subseteq DOMAIN accPrio' /\ DOMAIN accPrio' \subseteq Account
        /\ \A a \in DOMAIN accPrio' : accPrio'[a] \in {HIGH_PRIORITY, LOW_PRIORITY}
    BY <1>0, <1>5, <2>1, UpdateType
  <2>3. AccountTyping'
    BY <1>0, <1>1, <1>2, <1>5, <2>2 DEF AccountTyping
  <2>4. Settling'
    BY <1>0, <1>1, <1>5 DEF Settling
  <2> QED BY <1>3, <2>2, <2>3, <2>4 DEF IInv, AccountInv
<1>6. CASE oldActive' = active /\ UpdateAccountPriorityInfo(active) /\ initialized' = TRUE /\ UNCHANGED failed
  <2>1. /\ DOMAIN accPrio' = DOMAIN accPrio \cup active /\ DOMAIN accPrio' \subseteq Account
        /\ \A a \in DOMAIN accPrio' : accPrio'[a] \in {HIGH_PRIORITY, LOW_PRIORITY}
        /\ \A a \in active : accPrio'[a] = AccountPriority(a)
    BY <1>0, <1>6, UpdateType
  <2>2. AccountTyping'
    BY <1>0, <1>1, <1>2, <1>6, <2>1 DEF AccountTyping
  <2>3. Settling'
    <3>1. ASSUME ~failed', NEW a \in DOMAIN accPrio'
          PROVE  accPrio'[a] = IF a \in oldActive' THEN HIGH_PRIORITY ELSE LOW_PRIORITY
      <4>1. a \in active
        BY <1>0, <1>6, <2>1, <3>1 DEF Settling
      <4> QED BY <1>6, <2>1, <4>1 DEF AccountPriority
    <3>2. reports' # <<>> => active' = {reports'[Len(reports')]}
      BY <1>0, <1>1 DEF Settling
    <3> QED BY <1>1, <1>6, <3>1, <3>2 DEF Settling
  <2> QED BY <1>3, <2>1, <2>2, <2>3 DEF IInv, AccountInv
<1>7. \/ oldActive' = {} /\ UNCHANGED <<initialized, accPrio, failed>>
      \/ \E done \in SUBSET active :
           oldActive' = active /\ UpdateAccountPriorityInfo(done) /\ failed' = TRUE /\ UNCHANGED initialized
      \/ oldActive' = active /\ UpdateAccountPriorityInfo(active) /\ initialized' = TRUE /\ UNCHANGED failed
  BY DEF InitManager, Partial
<1> QED BY <1>4, <1>5, <1>6, <1>7

\* A report handled without touching the priorities.
LEMMA ReportDropped ==
  ASSUME IInv, reports # <<>>, reports' = Tail(reports), UNCHANGED <<active, switches, initialized, retryTimes>>
  PROVE  /\ reports' \in Seq(Account) /\ Len(reports') <= switches' /\ Head(reports) \in Account
         /\ reports' # <<>> => active' = {reports'[Len(reports')]}
         /\ \A a : Reported(a) => a = Head(reports) \/ Reported(a)'
         /\ \A a \in active : Reported(a)
<1>1. reports \in Seq(Account) /\ switches \in Nat /\ Len(reports) <= switches /\ Len(reports) \in Nat \ {0}
  BY DEF IInv, AccountInv, AccountTyping
<1>2. reports' \in Seq(Account) /\ Len(reports') = Len(reports) - 1 /\ Head(reports) = reports[1]
      /\ Head(reports) \in Account /\ \A i \in 1 .. Len(reports) - 1 : reports'[i] = reports[i + 1]
  BY <1>1
<1>3. active = {reports[Len(reports)]}
  BY DEF IInv, AccountInv, Settling
<1>4. ASSUME reports' # <<>> PROVE active' = {reports'[Len(reports')]}
  <2>1. Len(reports') # 0
    BY <1>2, <1>4
  <2>2. reports'[Len(reports')] = reports[Len(reports)]
    BY <1>1, <1>2, <2>1
  <2> QED BY <1>3, <2>2
<1>5. ASSUME NEW a, Reported(a), a # Head(reports) PROVE Reported(a)'
  <2>1. PICK i \in 1 .. Len(reports) : reports[i] = a
    BY <1>5 DEF Reported
  <2>2. i - 1 \in 1 .. Len(reports') /\ reports'[i - 1] = a
    BY <1>1, <1>2, <1>5, <2>1
  <2> QED BY <2>2 DEF Reported
<1>6. \A a \in active : Reported(a)
  BY <1>1, <1>3 DEF Reported
<1> QED BY <1>1, <1>2, <1>4, <1>5, <1>6

\* A hot switch visits a bundle at most twice, and only bundles of the accounts
\* it is about.
LEMMA VisitsType ==
  ASSUME NEW a, NEW S, NEW id
  PROVE  LET V == Cardinality({i \in {1, 2} : IF i = 1 THEN a \in S ELSE a = id})
         IN  V \in 0 .. 2 /\ (V > 0 => a \in S \cup {id})
<1> DEFINE I == {i \in {1, 2} : IF i = 1 THEN a \in S ELSE a = id}
<1>1. IsFiniteSet({1, 2}) /\ Cardinality({1, 2}) = 2
  <2>1. {1, 2} = {1} \cup {2} /\ 2 \notin {1}
    OBVIOUS
  <2>2. IsFiniteSet({1}) /\ Cardinality({1}) = 1
    BY FS_Singleton
  <2>3. IsFiniteSet({1} \cup {2}) /\ Cardinality({1} \cup {2}) = 2
    BY <2>1, <2>2, FS_AddElement
  <2> QED BY <2>1, <2>3
<1>2. IsFiniteSet(I) /\ Cardinality(I) <= 2
  <2>1. I \in SUBSET {1, 2}
    OBVIOUS
  <2> HIDE DEF I
  <2> QED BY <1>1, <2>1, FS_Subset
<1>3. Cardinality(I) \in Nat
  <2> HIDE DEF I
  <2> QED BY <1>2, FS_CardinalityType
<1>4. ASSUME a \notin S \cup {id} PROVE Cardinality(I) = 0
  <2>1. I = {}
    BY <1>4
  <2> HIDE DEF I
  <2> QED BY <2>1, FS_EmptySet
<1>5. Cardinality(I) \in 0 .. 2 /\ (Cardinality(I) > 0 => a \in S \cup {id})
  <2> HIDE DEF I
  <2> QED BY <1>2, <1>3, <1>4
<1> QED BY <1>5

\* A report is handled: not at all, in part, or by a hot or a cold switch.
LEMMA HandleOsAccountsChangedIInv ==
  ASSUME IInv, NEW hot \in BOOLEAN, HandleOsAccountsChanged(hot)
  PROVE  IInv'
<1> DEFINE id       == Head(reports)
           switched == oldActive \ active
<1>0. AccountTyping /\ Settling /\ switched \in SUBSET Account /\ PriorityInv /\ visits \in [Uid -> 0 .. 2]
  BY DEF IInv, AccountInv, AccountTyping, PriorityInv, PriorityTyping
<1>1. /\ reports # <<>> /\ reports' = Tail(reports) /\ UNCHANGED <<active, switches, initialized, retryTimes>>
      /\ UNCHANGED priorityVars /\ UNCHANGED <<stage, hand, oldPriority, delta, left>>
  BY DEF HandleOsAccountsChanged
<1>2. /\ reports' \in Seq(Account) /\ Len(reports') <= switches' /\ id \in Account
      /\ reports' # <<>> => active' = {reports'[Len(reports')]}
      /\ \A a : Reported(a) => a = id \/ Reported(a)'
      /\ \A a \in active : Reported(a)
  BY <1>1, ReportDropped
<1>3. ASSUME DOMAIN accPrio \subseteq DOMAIN accPrio', visits' = visits PROVE PriorityInv'
  BY <1>0, <1>1, <1>3, PriorityFrame
<1>4. CASE ~initialized /\ failed' = failed /\ UNCHANGED <<oldActive, accPrio, alive, visits>>
  <2>1. AccountTyping'
    BY <1>0, <1>1, <1>2, <1>4 DEF AccountTyping
  <2>2. Settling'
    BY <1>0, <1>1, <1>2, <1>4 DEF Settling
  <2> QED BY <1>3, <1>4, <2>1, <2>2 DEF IInv, AccountInv
<1>5. CASE initialized /\ failed' = TRUE /\ UNCHANGED <<oldActive, accPrio, alive, visits>>
  <2>1. AccountTyping'
    BY <1>0, <1>1, <1>2, <1>5 DEF AccountTyping
  <2>2. Settling'
    BY <1>0, <1>1, <1>2, <1>5 DEF Settling
  <2> QED BY <1>3, <1>5, <2>1, <2>2 DEF IInv, AccountInv
<1>6. ASSUME initialized, oldActive' = active, NEW done \in SUBSET switched, UpdateAccountPriorityInfo(done),
             failed' = TRUE, UNCHANGED <<alive, visits>>
      PROVE  IInv'
  <2>1. done \in SUBSET Account
    BY <1>0
  <2>2. /\ DOMAIN accPrio \subseteq DOMAIN accPrio' /\ DOMAIN accPrio' \subseteq Account
        /\ \A a \in DOMAIN accPrio' : accPrio'[a] \in {HIGH_PRIORITY, LOW_PRIORITY}
    BY <1>0, <1>6, <2>1, UpdateType
  <2>3. AccountTyping'
    BY <1>0, <1>1, <1>2, <1>6, <2>2 DEF AccountTyping
  <2>4. Settling'
    BY <1>0, <1>1, <1>2, <1>6 DEF Settling
  <2> QED BY <1>3, <1>6, <2>2, <2>3, <2>4 DEF IInv, AccountInv
<1>7. CASE /\ initialized /\ oldActive' = active /\ UpdateAccountPriorityInfo(switched \cup {id}) /\ UNCHANGED failed
           /\ HandleAccountHotSwitch(switched, id) \/ HandleAccountColdSwitch(switched)
  <2> DEFINE upd == switched \cup {id}
  <2>1. upd \in SUBSET Account
    BY <1>0, <1>2
  <2>2. /\ DOMAIN accPrio' = DOMAIN accPrio \cup upd /\ DOMAIN accPrio' \subseteq Account
        /\ \A a \in DOMAIN accPrio' : accPrio'[a] \in {HIGH_PRIORITY, LOW_PRIORITY}
        /\ \A a \in upd : accPrio'[a] = AccountPriority(a)
        /\ \A a \in DOMAIN accPrio \ upd : accPrio'[a] = accPrio[a]
    <3> HIDE DEF upd
    <3>1. UpdateAccountPriorityInfo(upd)
      BY <1>7 DEF upd
    <3> QED BY <1>0, <2>1, <3>1, UpdateType
  <2>3. PriorityInv' /\ alive' \in SUBSET Pid
    <3>1. CASE HandleAccountHotSwitch(switched, id)
      <4>1. alive' = alive
            /\ visits' = [u \in Uid |-> Cardinality({i \in {1, 2} : IF i = 1 THEN AccountOf[u] \in switched
                                                                             ELSE AccountOf[u] = id})]
        BY <3>1, Zenon DEF HandleAccountHotSwitch
      <4>2. ASSUME NEW u \in Uid
            PROVE  visits'[u] \in 0 .. 2 /\ (visits'[u] > 0 => AccountOf[u] \in DOMAIN accPrio')
        <5>1. visits'[u] = Cardinality({i \in {1, 2} : IF i = 1 THEN AccountOf[u] \in switched
                                                                 ELSE AccountOf[u] = id})
          BY <4>1, Zenon
        <5>2. LET V == Cardinality({i \in {1, 2} : IF i = 1 THEN AccountOf[u] \in switched ELSE AccountOf[u] = id})
              IN  V \in 0 .. 2 /\ (V > 0 => AccountOf[u] \in upd)
          <6> HIDE DEF switched, id
          <6> QED BY VisitsType
        <5>3. visits'[u] \in 0 .. 2 /\ (visits'[u] > 0 => AccountOf[u] \in upd)
          BY <5>1, <5>2, Zenon
        <5> HIDE DEF upd
        <5> QED BY <2>2, <5>3
      <4>3. visits' \in [Uid -> 0 .. 2]
        <5>1. visits' = [u \in Uid |-> visits'[u]]
          BY <4>1, Zenon
        <5> QED BY <4>2, <5>1
      <4>4. alive' \in SUBSET Pid
        BY <1>0, <4>1 DEF AccountTyping
      <4>5. DOMAIN accPrio \subseteq DOMAIN accPrio'
        BY <2>2
      <4> QED BY <1>0, <1>1, <4>2, <4>3, <4>4, <4>5, PriorityFrame
    <3>2. CASE HandleAccountColdSwitch(switched)
      <4>1. alive' \subseteq alive /\ visits' = visits
        BY <3>2 DEF HandleAccountColdSwitch
      <4>2. DOMAIN accPrio \subseteq DOMAIN accPrio'
        BY <2>2
      <4>3. alive' \in SUBSET Pid
        BY <1>0, <4>1 DEF AccountTyping
      <4> QED BY <1>3, <4>1, <4>2, <4>3
    <3> QED BY <1>7, <3>1, <3>2
  <2>4. AccountTyping'
    BY <1>0, <1>1, <1>2, <1>7, <2>2, <2>3 DEF AccountTyping
  <2>5. ASSUME ~failed', NEW a \in DOMAIN accPrio'
        PROVE  Reported(a)' \/ accPrio'[a] = IF a \in oldActive' THEN HIGH_PRIORITY ELSE LOW_PRIORITY
    <3>1. CASE a \in upd
      BY <1>7, <2>2, <3>1 DEF AccountPriority
    <3>2. CASE a \notin upd
      <4>1. a \in DOMAIN accPrio /\ accPrio'[a] = accPrio[a] /\ a # id /\ a \notin switched
        BY <2>2, <2>5, <3>2
      <4>2. Reported(a) \/ accPrio[a] = IF a \in oldActive THEN HIGH_PRIORITY ELSE LOW_PRIORITY
        BY <1>0, <1>7, <2>5, <4>1 DEF Settling
      <4>3. Reported(a) => Reported(a)'
        BY <1>2, <4>1
      <4>4. ~Reported(a) => (a \in oldActive <=> a \in active)
        BY <1>2, <4>1
      <4> HIDE DEF id, switched
      <4> QED BY <1>7, <4>1, <4>2, <4>3, <4>4
    <3> QED BY <3>1, <3>2
  <2>6. Settling'
    BY <1>1, <1>2, <1>7, <2>5 DEF Settling
  <2> QED BY <2>3, <2>4, <2>6 DEF IInv, AccountInv
<1>8. \/ ~initialized /\ failed' = failed /\ UNCHANGED <<oldActive, accPrio, alive, visits>>
      \/ initialized /\ failed' = TRUE /\ UNCHANGED <<oldActive, accPrio, alive, visits>>
      \/ /\ initialized /\ oldActive' = active
         /\ \E done \in SUBSET switched : UpdateAccountPriorityInfo(done)
         /\ failed' = TRUE /\ UNCHANGED <<alive, visits>>
      \/ /\ initialized /\ oldActive' = active /\ UpdateAccountPriorityInfo(switched \cup {id}) /\ UNCHANGED failed
         /\ HandleAccountHotSwitch(switched, id) \/ HandleAccountColdSwitch(switched)
  <2>1. initialized \in BOOLEAN /\ failed \in BOOLEAN
    BY <1>0 DEF AccountTyping
  <2>2. \A S : Partial(S) \subseteq SUBSET S
    BY DEF Partial
  <2> QED BY <2>1, <2>2, Zenon DEF HandleOsAccountsChanged, Remembered
<1> HIDE DEF id, switched
<1> QED BY <1>4, <1>5, <1>6, <1>7, <1>8

-----------------------------------------------------------------------------
(* The steps of a hot switch.                                              *)

\* What a hot switch gives a bundle is a priority.
LEMMA RecalcType ==
  ASSUME NEW a, accPrio[a] \in Int, NEW p \in Int
  PROVE  RecalcBundlePriority(a, p) \in Scale
<1> DEFINE np == accPrio[a] + p
<1>1. np \in Int
  OBVIOUS
<1>2. CASE np > RECLAIM_PRIORITY_MAX
  <2>1. ~(np < RECLAIM_PRIORITY_FOREGROUND)
    BY <1>1, <1>2, Constants
  <2>2. RecalcBundlePriority(a, p) = RECLAIM_PRIORITY_MAX
    BY <1>2, <2>1, Zenon DEF RecalcBundlePriority
  <2> QED BY <2>2, Constants, ScaleRange
<1>3. CASE np < RECLAIM_PRIORITY_FOREGROUND
  <2>1. ~(np > RECLAIM_PRIORITY_MAX)
    BY <1>1, <1>3, Constants
  <2>2. RecalcBundlePriority(a, p) = RECLAIM_PRIORITY_FOREGROUND
    BY <1>3, <2>1, Zenon DEF RecalcBundlePriority
  <2> QED BY <2>2, Constants, ScaleRange
<1>4. CASE ~(np > RECLAIM_PRIORITY_MAX) /\ ~(np < RECLAIM_PRIORITY_FOREGROUND)
  <2>1. RecalcBundlePriority(a, p) = np
    BY <1>4, Zenon DEF RecalcBundlePriority
  <2> HIDE DEF np
  <2> QED BY <1>1, <1>4, <2>1, Constants, ScaleRange
<1> QED BY <1>2, <1>3, <1>4

\* A step of a hot switch that keeps the levels and the base of every bundle that
\* no ability start overtook keeps its lead.
LEMMA LeadsKept ==
  ASSUME PriorityInv, overtaken' = overtaken,
         \A u \in Uid \ overtaken : BasePriority(u)' = BasePriority(u) /\ \A p \in ProcsOf(u) : Level(p)' = Level(p)
  PROVE  \A u \in Uid \ overtaken' : Leads(u)'
<1> SUFFICES ASSUME NEW u \in Uid \ overtaken' PROVE Leads(u)'
  OBVIOUS
<1>1. Leads(u)
  BY DEF PriorityInv
<1> QED BY <1>1 DEF Leads

\* The priority of a bundle is read.
LEMMA ReadPriorityIInv ==
  ASSUME IInv, NEW u \in Uid, ReadPriority(u)
  PROVE  IInv'
<1>0. PriorityTyping /\ InHand /\ PriorityInv
  BY DEF IInv, PriorityInv
<1>1. /\ stage = "idle" /\ visits[u] > 0 /\ visits' = [visits EXCEPT ![u] = @ - 1]
      /\ stage' = "write" /\ hand' = {u} /\ oldPriority' = bprio[u]
      /\ UNCHANGED <<prio, bprio, overtaken, delta, left>> /\ UNCHANGED accountVars
  BY DEF ReadPriority, priorityVars
<1>2. AccountInv'
  BY <1>1, AccountFrame DEF IInv
<1>3. visits' \in [Uid -> 0 .. 2] /\ \A v \in Uid : visits'[v] > 0 => visits[v] > 0
  <2>1. visits \in [Uid -> 0 .. 2]
    BY <1>0 DEF PriorityTyping
  <2>2. visits[u] \in 0 .. 2 /\ visits[u] - 1 \in 0 .. 2
    BY <1>1, <2>1
  <2> QED BY <1>1, <2>1, <2>2
<1>4. PriorityTyping'
  <2>1. bprio[u] \in Scale
    BY <1>0 DEF PriorityTyping
  <2> QED BY <1>0, <1>1, <1>3, <2>1 DEF PriorityTyping
<1>5. left = {} /\ hand = {}
  BY <1>0, <1>1 DEF InHand
<1>6. InHand'
  <2>1. accPrio' = accPrio
    BY <1>1 DEF accountVars
  <2>2. \A v \in Uid : visits'[v] > 0 \/ v \in hand' => AccountOf[v] \in DOMAIN accPrio'
    BY <1>0, <1>1, <1>3, <2>1 DEF InHand
  <2>3. \A v \in hand' \ overtaken' : oldPriority' = bprio'[v]
    BY <1>1
  <2> QED BY <1>1, <1>5, <2>2, <2>3 DEF InHand
<1>7. \A v \in Uid \ overtaken' : Leads(v)'
  <2>1. \A v \in Uid : BasePriority(v)' = BasePriority(v)
    BY <1>1 DEF BasePriority
  <2>2. \A p : Level(p)' = Level(p)
    BY <1>1 DEF Level
  <2> QED BY <1>0, <1>1, <2>1, <2>2, LeadsKept
<1> QED BY <1>2, <1>4, <1>6, <1>7 DEF IInv, PriorityInv

\* The bundle's new priority is written: the processes still go by the old one.
LEMMA WritePriorityIInv ==
  ASSUME IInv, NEW u \in Uid, WritePriority(u)
  PROVE  IInv'
<1>0. PriorityTyping /\ InHand /\ PriorityInv /\ AccountTyping
  BY DEF IInv, PriorityInv, AccountInv
<1>1. /\ stage = "write" /\ u \in hand /\ stage' = "delta"
      /\ bprio' = [bprio EXCEPT ![u] = RecalcBundlePriority(AccountOf[u], oldPriority)]
      /\ UNCHANGED <<prio, overtaken, visits, hand, oldPriority, delta, left>> /\ UNCHANGED accountVars
  BY DEF WritePriority
<1>2. AccountInv'
  BY <1>1, AccountFrame DEF IInv
<1>3. RecalcBundlePriority(AccountOf[u], oldPriority) \in Scale
  <2>1. AccountOf[u] \in DOMAIN accPrio
    BY <1>0, <1>1 DEF InHand
  <2>2. accPrio[AccountOf[u]] \in Int
    BY <1>0, <2>1, Constants DEF AccountTyping
  <2>3. oldPriority \in Int
    BY <1>0, ScaleRange DEF PriorityTyping
  <2> QED BY <2>2, <2>3, RecalcType
<1>4. bprio \in [Uid -> Scale] /\ bprio' \in [Uid -> Scale] /\ \A v \in Uid \ {u} : bprio'[v] = bprio[v]
  BY <1>0, <1>1, <1>3 DEF PriorityTyping
<1>5. PriorityTyping'
  BY <1>0, <1>1, <1>4 DEF PriorityTyping
<1>6. InHand'
  <2>1. accPrio' = accPrio
    BY <1>1 DEF accountVars
  <2> QED BY <1>0, <1>1, <2>1 DEF InHand
<1>7. hand = {u}
  BY <1>0, <1>1 DEF InHand
<1>8. \A v \in Uid \ overtaken' : Leads(v)'
  <2>1. \A v \in Uid \ overtaken : BasePriority(v)' = BasePriority(v)
    BY <1>0, <1>1, <1>4, <1>7 DEF BasePriority, InHand
  <2>2. \A p : Level(p)' = Level(p)
    BY <1>1 DEF Level
  <2> QED BY <1>0, <1>1, <2>1, <2>2, LeadsKept
<1> QED BY <1>2, <1>5, <1>6, <1>8 DEF IInv, PriorityInv

\* The difference is taken: the processes owe it to the bundle.
LEMMA CallIncreaseIInv ==
  ASSUME IInv, NEW u \in Uid, CallIncrease(u)
  PROVE  IInv'
<1>0. PriorityTyping /\ InHand /\ PriorityInv
  BY DEF IInv, PriorityInv
<1>1. /\ stage = "delta" /\ u \in hand /\ stage' = "increase" /\ delta' = bprio[u] - oldPriority
      /\ left' = ProcsOf(u)
      /\ UNCHANGED <<prio, bprio, overtaken, visits, hand, oldPriority>> /\ UNCHANGED accountVars
  BY DEF CallIncrease, Delta, priorityVars
<1>2. AccountInv'
  BY <1>1, AccountFrame DEF IInv
<1>3. bprio[u] \in Int /\ oldPriority \in Int /\ delta' \in Int
  <2>1. bprio[u] \in Scale /\ oldPriority \in Scale
    BY <1>0 DEF PriorityTyping
  <2>2. bprio[u] \in Int /\ oldPriority \in Int
    BY <2>1, ScaleRange
  <2> QED BY <1>1, <2>2
<1>4. PriorityTyping'
  <2>1. left' \in SUBSET Pid
    BY <1>1, Processes
  <2> QED BY <1>0, <1>1, <1>3, <2>1 DEF PriorityTyping
<1>5. hand = {u} /\ left = {}
  BY <1>0, <1>1 DEF InHand
<1>6. InHand'
  <2>1. accPrio' = accPrio
    BY <1>1 DEF accountVars
  <2>2. \A p \in left' : UidOf[p] \in hand'
    BY <1>1, Processes
  <2> QED BY <1>0, <1>1, <2>1, <2>2 DEF InHand
<1>7. ASSUME NEW v \in Uid \ overtaken' PROVE Leads(v)'
  <2>1. Leads(v) /\ v \in Uid /\ ProcsOf(v) \subseteq Pid
    BY <1>0, <1>1, Processes DEF PriorityInv
  <2>2. \A p \in ProcsOf(v) : prio[p] \in Int /\ Level(p) = prio[p]
    BY <1>0, <1>5, <2>1 DEF PriorityTyping, Level
  <2>3. CASE v = u
    <3>1. BasePriority(u) = oldPriority /\ BasePriority(u)' = bprio[u]
      BY <1>1 DEF BasePriority
    <3>2. \A p \in ProcsOf(u) : Level(p)' = prio[p] + (bprio[u] - oldPriority)
      BY <1>1 DEF Level
    <3>3. PICK p \in ProcsOf(u) : prio[p] = oldPriority
      BY <2>1, <2>2, <2>3, <3>1 DEF Leads
    <3>4. Level(p)' = BasePriority(u)'
      BY <1>3, <3>1, <3>2, <3>3
    <3>5. ASSUME NEW q \in ProcsOf(u) PROVE BasePriority(u)' <= Level(q)'
      <4>1. prio[q] \in Int /\ oldPriority <= prio[q]
        BY <2>1, <2>2, <2>3, <3>1 DEF Leads
      <4>2. bprio[u] <= prio[q] + (bprio[u] - oldPriority)
        BY <1>3, <4>1
      <4> QED BY <3>1, <3>2, <4>2
    <3> QED BY <2>3, <3>4, <3>5 DEF Leads
  <2>4. CASE v # u
    <3>1. BasePriority(v)' = BasePriority(v)
      BY <1>1, <1>5, <2>4 DEF BasePriority
    <3>2. ASSUME NEW p \in ProcsOf(v) PROVE Level(p)' = Level(p)
      <4>1. p \notin left'
        BY <1>1, <2>1, <2>4, Processes
      <4> QED BY <1>1, <1>5, <4>1 DEF Level
    <3> QED BY <2>1, <3>1, <3>2 DEF Leads
  <2> QED BY <2>3, <2>4
<1> QED BY <1>2, <1>4, <1>6, <1>7 DEF IInv, PriorityInv

\* A process is moved: it is where it was to be.
LEMMA IncreaseProcPriorityIInv ==
  ASSUME IInv, NEW p \in Pid, IncreaseProcPriority(p)
  PROVE  IInv'
<1>0. PriorityTyping /\ InHand /\ PriorityInv
  BY DEF IInv, PriorityInv
<1>1. /\ stage = "increase" /\ p \in left /\ prio' = [prio EXCEPT ![p] = @ + delta] /\ left' = left \ {p}
      /\ UNCHANGED <<bprio, overtaken, visits, oldPriority, delta>> /\ UNCHANGED accountVars
      /\ (left' = {} /\ stage' = "idle" /\ hand' = {}) \/ (stage' = stage /\ hand' = hand)
  BY DEF IncreaseProcPriority
<1>2. AccountInv'
  BY <1>1, AccountFrame DEF IInv
<1>3. prio \in [Pid -> Int] /\ delta \in Int /\ prio[p] + delta \in Int
  BY <1>0 DEF PriorityTyping
<1>4. prio' \in [Pid -> Int] /\ prio'[p] = prio[p] + delta /\ \A q \in Pid \ {p} : prio'[q] = prio[q]
  BY <1>1, <1>3
<1>5. PriorityTyping'
  <2>1. hand' \in SUBSET Uid /\ left' \in SUBSET Pid /\ stage' \in {"idle", "write", "delta", "increase"}
    BY <1>0, <1>1 DEF PriorityTyping
  <2> QED BY <1>0, <1>1, <1>4, <2>1 DEF PriorityTyping
<1>6. InHand'
  <2>1. accPrio' = accPrio
    BY <1>1 DEF accountVars
  <2>2. hand' \subseteq hand /\ left' \subseteq left
    BY <1>1
  <2>3. \A q \in left' : UidOf[q] \in hand'
    BY <1>0, <1>1 DEF InHand
  <2>4. \A u \in Uid : visits'[u] > 0 \/ u \in hand' => AccountOf[u] \in DOMAIN accPrio'
    BY <1>0, <1>1, <2>1, <2>2 DEF InHand
  <2>5. (stage' = "idle" => hand' = {}) /\ (stage' # "idle" => \E u \in Uid : hand' = {u})
    BY <1>0, <1>1 DEF InHand
  <2>6. (stage' # "increase" => left' = {}) /\ stage' # "write"
    BY <1>1
  <2> QED BY <2>3, <2>4, <2>5, <2>6 DEF InHand
<1>7. \A v \in Uid \ overtaken' : Leads(v)'
  <2>1. \A v \in Uid : BasePriority(v)' = BasePriority(v)
    BY <1>1 DEF BasePriority
  <2>2. \A q \in Pid : Level(q)' = Level(q)
    BY <1>1, <1>4 DEF Level
  <2>3. \A v \in Uid : ProcsOf(v) \subseteq Pid
    BY Processes
  <2> QED BY <1>0, <1>1, <2>1, <2>2, <2>3, LeadsKept
<1> QED BY <1>2, <1>5, <1>6, <1>7 DEF IInv, PriorityInv

-----------------------------------------------------------------------------
(* The handlers that hold the lock.                                        *)

\* A process gets another priority, and its bundle the one of its most important process.
LEMMA UpdatePriorityIInv ==
  ASSUME IInv, NEW p \in Pid, NEW l \in Int, prio' = [prio EXCEPT ![p] = l], UpdatePriority(UidOf[p])
  PROVE  IInv'
<1> DEFINE u     == UidOf[p]
           least == Min({prio'[q] : q \in ProcsOf(u)})
           new   == CASE least > RECLAIM_PRIORITY_MAX -> RECLAIM_PRIORITY_MAX
                      [] least < RECLAIM_PRIORITY_MIN -> RECLAIM_PRIORITY_MIN
                      [] OTHER -> least
<1>0. PriorityTyping /\ InHand /\ PriorityInv /\ u \in Uid
  BY AccountAssumption DEF IInv, PriorityInv
<1>1. /\ bprio' = [bprio EXCEPT ![u] = new]
      /\ overtaken' = IF u \in hand \/ least \notin Scale THEN overtaken \cup {u} ELSE overtaken \ {u}
      /\ UNCHANGED accountVars /\ UNCHANGED switchVars
  BY Zenon DEF UpdatePriority, Scale
<1>2. UNCHANGED <<visits, stage, hand, oldPriority, delta, left>>
  BY <1>1 DEF switchVars
<1>3. AccountInv'
  BY <1>1, AccountFrame DEF IInv
<1>4. prio' \in [Pid -> Int] /\ \A q \in Pid \ {p} : prio'[q] = prio[q]
  BY <1>0 DEF PriorityTyping
<1>5. /\ least \in Int
      /\ \E q \in ProcsOf(u) : prio'[q] = least
      /\ \A q \in ProcsOf(u) : least <= prio'[q]
  <2>1. PICK f \in [Pid -> Int] : f = prio'
    BY <1>4
  <2>2. least = Min({f[q] : q \in ProcsOf(u)})
    BY <2>1
  <2>3. LET m == Min({f[q] : q \in ProcsOf(u)})
        IN  m \in Int /\ (\E q \in ProcsOf(u) : f[q] = m) /\ \A q \in ProcsOf(u) : m <= f[q]
    <3> HIDE DEF u
    <3> QED BY <1>0, LeastOfBundle
  <2> HIDE DEF least, u
  <2> QED BY <2>1, <2>2, <2>3
<1> HIDE DEF least
<1>6. new \in Scale /\ (least \in Scale => new = least)
  <2>1. CASE least > RECLAIM_PRIORITY_MAX
    <3>1. ~(least < RECLAIM_PRIORITY_MIN) /\ least \notin Scale
      BY <1>5, <2>1, Constants, ScaleRange
    <3>2. new = RECLAIM_PRIORITY_MAX
      BY <2>1, <3>1, Zenon
    <3> QED BY <3>1, <3>2, Constants, ScaleRange
  <2>2. CASE least < RECLAIM_PRIORITY_MIN
    <3>1. ~(least > RECLAIM_PRIORITY_MAX) /\ least \notin Scale
      BY <1>5, <2>2, Constants, ScaleRange
    <3>2. new = RECLAIM_PRIORITY_MIN
      BY <2>2, <3>1, Zenon
    <3> QED BY <3>1, <3>2, Constants, ScaleRange
  <2>3. CASE ~(least > RECLAIM_PRIORITY_MAX) /\ ~(least < RECLAIM_PRIORITY_MIN)
    <3>1. new = least
      BY <2>3, Zenon
    <3> QED BY <1>5, <2>3, <3>1, Constants, ScaleRange
  <2> QED BY <2>1, <2>2, <2>3
<1> HIDE DEF new, u
<1>7. bprio' \in [Uid -> Scale] /\ bprio'[u] = new /\ \A v \in Uid \ {u} : bprio'[v] = bprio[v]
  <2>1. bprio \in [Uid -> Scale]
    BY <1>0 DEF PriorityTyping
  <2> QED BY <1>0, <1>1, <1>6, <2>1
<1>8. overtaken' \subseteq overtaken \cup {u} /\ overtaken \subseteq overtaken' \cup {u}
      /\ (u \notin overtaken' => u \notin hand /\ least \in Scale)
  BY <1>1
<1>9. PriorityTyping'
  <2>1. overtaken' \in SUBSET Uid
    BY <1>0, <1>8 DEF PriorityTyping
  <2> QED BY <1>0, <1>2, <1>4, <1>7, <2>1 DEF PriorityTyping
<1>10. InHand'
  <2>1. accPrio' = accPrio
    BY <1>1 DEF accountVars
  <2>2. ASSUME stage' = "write", NEW v \in hand' \ overtaken' PROVE oldPriority' = bprio'[v]
    <3>1. v \in Uid /\ v # u /\ v \in hand \ overtaken
      BY <1>0, <1>2, <1>8, <2>2 DEF PriorityTyping
    <3> QED BY <1>0, <1>2, <1>7, <2>2, <3>1 DEF InHand
  <2> QED BY <1>0, <1>2, <2>1, <2>2 DEF InHand
<1>11. ASSUME NEW v \in Uid \ overtaken' PROVE Leads(v)'
  <2>1. ProcsOf(v) \subseteq Pid /\ \A q \in ProcsOf(v) : UidOf[q] = v
    BY Processes
  <2>2. CASE v = u
    <3>1. u \notin hand /\ bprio'[u] = least
      BY <1>6, <1>7, <1>8, <2>2
    <3>2. BasePriority(u)' = least
      BY <1>2, <3>1 DEF BasePriority
    <3>3. \A q \in ProcsOf(u) : q \notin left
      BY <1>0, <2>1, <2>2, <3>1 DEF InHand
    <3>4. \A q \in ProcsOf(u) : Level(q)' = prio'[q]
      BY <1>2, <3>3 DEF Level
    <3> QED BY <1>5, <2>2, <3>2, <3>4 DEF Leads
  <2>3. CASE v # u
    <3>1. v \notin overtaken /\ Leads(v)
      BY <1>0, <1>8, <2>3 DEF PriorityInv
    <3>2. BasePriority(v)' = BasePriority(v)
      BY <1>2, <1>7, <2>3 DEF BasePriority
    <3>3. ASSUME NEW q \in ProcsOf(v) PROVE Level(q)' = Level(q)
      <4>1. q \in Pid /\ q # p
        BY <2>1, <2>3 DEF u
      <4> QED BY <1>2, <1>4, <4>1 DEF Level
    <3> QED BY <3>1, <3>2, <3>3 DEF Leads
  <2> QED BY <2>2, <2>3
<1> QED BY <1>3, <1>9, <1>10, <1>11 DEF IInv, PriorityInv

\* A status event and an ability start give a process a priority of the handlers.
LEMMA HandlersIInv ==
  ASSUME IInv, NEW p \in Pid, HandleUpdateProcess(p) \/ HandleAbilityStart(p)
  PROVE  IInv'
<1>1. ASSUME HandleUpdateProcess(p) PROVE IInv'
  <2>1. PICK l \in Levels : prio' = [prio EXCEPT ![p] = l]
    BY <1>1 DEF HandleUpdateProcess
  <2>2. l \in Int
    BY AccountAssumption, Constants
  <2>3. UpdatePriority(UidOf[p])
    BY <1>1 DEF HandleUpdateProcess
  <2> QED BY <2>1, <2>2, <2>3, UpdatePriorityIInv
<1>2. ASSUME HandleAbilityStart(p) PROVE IInv'
  <2>1. prio' = [prio EXCEPT ![p] = RECLAIM_PRIORITY_FOREGROUND] /\ UpdatePriority(UidOf[p])
    BY <1>2 DEF HandleAbilityStart
  <2>2. RECLAIM_PRIORITY_FOREGROUND \in Int
    BY Constants
  <2> QED BY <2>1, <2>2, UpdatePriorityIInv
<1> QED BY <1>1, <1>2

\* Every step keeps the invariant.
LEMMA NextIInv == IInv /\ [Next]_vars => IInv'
<1> SUFFICES ASSUME IInv, [Next]_vars PROVE IInv'
  OBVIOUS
<1>1. CASE UNCHANGED vars
  <2>1. UNCHANGED accountVars /\ UNCHANGED priorityVars /\ UNCHANGED switchVars
    BY <1>1 DEF vars
  <2>2. AccountInv'
    BY <2>1, AccountFrame DEF IInv
  <2>3. UNCHANGED <<visits, stage, hand, oldPriority, delta, left>> /\ accPrio' = accPrio /\ visits \in [Uid -> 0 .. 2]
    BY <2>1 DEF switchVars, accountVars, IInv, PriorityInv, PriorityTyping
  <2>4. PriorityInv'
    BY <2>1, <2>3, PriorityFrame DEF IInv
  <2> QED BY <2>2, <2>4 DEF IInv
<1>2. CASE \E a \in Account : Switch(a)
  BY <1>2, SwitchIInv
<1>3. CASE InitManager
  BY <1>3, InitManagerIInv
<1>4. CASE \E hot \in BOOLEAN : HandleOsAccountsChanged(hot)
  BY <1>4, HandleOsAccountsChangedIInv
<1>5. CASE \E u \in Uid : ReadPriority(u) \/ WritePriority(u) \/ CallIncrease(u)
  BY <1>5, ReadPriorityIInv, WritePriorityIInv, CallIncreaseIInv
<1>6. CASE \E p \in Pid : IncreaseProcPriority(p) \/ HandleUpdateProcess(p) \/ HandleAbilityStart(p)
  BY <1>6, IncreaseProcPriorityIInv, HandlersIInv
<1> QED BY <1>1, <1>2, <1>3, <1>4, <1>5, <1>6 DEF Next

-----------------------------------------------------------------------------
(* The theorems.                                                           *)

\* The invariant holds of every behaviour: for any accounts, bundles and processes, ability
\* starts between any two steps of a hot switch (HandleAccountHotSwitch runs without
\* totalBundlePrioSetLock_), and queries to the account service that fail at any point.
THEOREM PrioritiesStayKnown == Spec => []IInv
<1>1. Init => IInv
  BY InitIInv
<1>2. IInv /\ [Next]_vars => IInv'
  BY NextIInv
<1> QED BY <1>1, <1>2, PTL DEF Spec

\* Every variable keeps its type: in particular a bundle's priority stays within -1000 .. 1000
\* through any number of hot switches and of ability starts between their steps.
THEOREM TypeCorrect == Spec => []TypeOK
<1>1. IInv => TypeOK
  BY DEF IInv, AccountInv, AccountTyping, PriorityInv, PriorityTyping, TypeOK, Scale
<1> QED BY <1>1, PrioritiesStayKnown, PTL

\* A bundle that the hot switch does not have in hand has the priority of its most important
\* process, whatever the order of account switches (RecalcBundlePriority), status events
\* (HandleUpdateProcess) and ability starts - unless a start reached it while it was in hand
\* and its priority was not computed anew since.
THEOREM BundleFollowsProcesses == Spec => []BundleIsMin
<1>1. IInv => BundleIsMin
  <2> SUFFICES ASSUME IInv, NEW u \in Uid \ (hand \cup overtaken)
               PROVE  bprio[u] = Min({prio[p] : p \in ProcsOf(u)})
    BY DEF BundleIsMin
  <2> DEFINE I == {prio[p] : p \in ProcsOf(u)}
  <2>1. prio \in [Pid -> Int] /\ Leads(u) /\ InHand
    BY DEF IInv, PriorityInv, PriorityTyping
  <2>2. ProcsOf(u) \subseteq Pid /\ \A p \in ProcsOf(u) : UidOf[p] = u
    BY Processes
  <2>3. BasePriority(u) = bprio[u] /\ \A p \in ProcsOf(u) : Level(p) = prio[p]
    BY <2>1, <2>2 DEF BasePriority, Level, InHand
  <2>4. I \subseteq Int
    BY <2>1, <2>2
  <2>5. bprio[u] \in I /\ \A y \in I : bprio[u] =< y
    BY <2>1, <2>3 DEF Leads
  <2> HIDE DEF I
  <2>6. Min(I) = bprio[u]
    BY <2>4, <2>5, MinIs
  <2> QED BY <2>6 DEF I
<1> QED BY <1>1, PrioritiesStayKnown, PTL

\* When no query failed, the accounts have the priorities of their state once
\* HandleOsAccountsChanged has handled every report, however late it came.
THEOREM ReportsSettleAccounts == Spec => []AccountsSettled
<1>1. IInv => AccountsSettled
  <2> SUFFICES ASSUME IInv, initialized, reports = <<>>, ~failed, NEW a \in DOMAIN accPrio
               PROVE  accPrio[a] = AccountPriority(a)
    BY DEF AccountsSettled
  <2>1. oldActive = active
    BY DEF IInv, AccountInv, Settling
  <2>2. ~Reported(a)
    BY DEF Reported
  <2>3. accPrio[a] = IF a \in oldActive THEN HIGH_PRIORITY ELSE LOW_PRIORITY
    BY <2>2 DEF IInv, AccountInv, Settling
  <2> QED BY <2>1, <2>3 DEF AccountPriority
<1> QED BY <1>1, PrioritiesStayKnown, PTL

-----------------------------------------------------------------------------
(* The configuration that a document becomes.                              *)

\* The ranges of scores that CheckZswapdParam lets through.
Ranges ==
  [minScore : Int, maxScore : Int, ratios : (0 .. PERCENT_100) \X (0 .. PERCENT_100) \X Int]

\* What a child that is a number, or has no value, holds.
IsNumber(value) == value = <<>> \/ value[1] \in Int

\* A map of parameters in which those of a ZswapdParam are numbers.
NumbersIn(param) == \A k \in DOMAIN param \cap ZswapdParams : IsNumber(param[k])

\* A sequence has a length and a value at each place up to it.
LEMMA SequenceShape ==
  ASSUME NEW s, IsSequence(s)
  PROVE  Len(s) \in Nat /\ DOMAIN s = 1 .. Len(s)
BY DEF IsSequence

\* The first of some places of a sequence, or the place after its end.
LEMMA FirstPlace ==
  ASSUME NEW l \in Nat, NEW bad, bad \subseteq 1 .. l
  PROVE  Min(bad \union {l + 1}) \in 1 .. l + 1
<1>1. PICK T : T = bad \union {l + 1}
  OBVIOUS
<1>2. T \subseteq Int /\ T # {} /\ \A y \in T : y \in 1 .. l + 1
  BY <1>1
<1>3. \A y \in T : 1 =< y
  BY <1>2
<1>4. 1 \in Int
  OBVIOUS
<1>5. Min(T) \in T
  BY <1>2, <1>3, <1>4, BoundedMin
<1>6. Min(T) \in 1 .. l + 1
  BY <1>2, <1>5
<1> QED BY <1>1, <1>6

\* The beginning of a sequence.
LEMMA Beginning ==
  ASSUME NEW S, NEW s \in Seq(S), NEW n \in 0 .. Len(s)
  PROVE  /\ SubSeq(s, 1, n) \in Seq(S)
         /\ Len(SubSeq(s, 1, n)) = n
         /\ \A i \in 1 .. n : SubSeq(s, 1, n)[i] = s[i]
<1>1. \A i \in 1 .. n : s[i] \in S
  OBVIOUS
<1>2. /\ SubSeq(s, 1, n) \in Seq(S)
      /\ Len(SubSeq(s, 1, n)) = IF 1 <= n THEN n - 1 + 1 ELSE 0
      /\ \A i \in 1 .. n - 1 + 1 : SubSeq(s, 1, n)[i] = s[1 + i - 1]
  BY <1>1, SubSeqProperties
<1>3. \A i \in 1 .. n : SubSeq(s, 1, n)[i] = s[i]
  BY <1>2
<1> QED BY <1>2, <1>3

\* The children before the first of some bad places.
CutAt(kids, bad) == SubSeq(kids, 1, Min(bad \union {Len(kids) + 1}) - 1)

\* A cut before the first bad child is the beginning of the children.
LEMMA CutBefore ==
  ASSUME NEW kids, IsSequence(kids), NEW bad, bad \subseteq DOMAIN kids
  PROVE  /\ Len(CutAt(kids, bad)) \in Nat
         /\ DOMAIN CutAt(kids, bad) = 1 .. Len(CutAt(kids, bad))
         /\ \A i \in DOMAIN CutAt(kids, bad) : i \in DOMAIN kids /\ CutAt(kids, bad)[i] = kids[i]
<1>1. Len(kids) \in Nat /\ DOMAIN kids = 1 .. Len(kids)
  BY SequenceShape
<1>2. kids \in Seq(ToSet(kids))
  BY DEF IsSequence
<1>3. bad \subseteq 1 .. Len(kids)
  BY <1>1
<1>4. PICK m : m = Min(bad \union {Len(kids) + 1})
  OBVIOUS
<1>5. m \in 1 .. Len(kids) + 1
  BY <1>1, <1>3, <1>4, FirstPlace
<1>6. PICK n \in 0 .. Len(kids) : n = m - 1
  BY <1>1, <1>5
<1>7. CutAt(kids, bad) = SubSeq(kids, 1, n)
  BY <1>4, <1>6 DEF CutAt
<1>8. /\ SubSeq(kids, 1, n) \in Seq(ToSet(kids)) /\ Len(SubSeq(kids, 1, n)) = n
      /\ \A i \in 1 .. n : SubSeq(kids, 1, n)[i] = kids[i]
  BY <1>1, <1>2, <1>6, Beginning
<1>9. PICK cut : cut = CutAt(kids, bad)
  OBVIOUS
<1>10. cut \in Seq(ToSet(kids)) /\ Len(cut) = n /\ \A i \in 1 .. n : cut[i] = kids[i]
  BY <1>7, <1>8, <1>9
<1>11. Len(cut) \in Nat /\ DOMAIN cut = 1 .. Len(cut) /\ \A i \in DOMAIN cut : i \in DOMAIN kids /\ cut[i] = kids[i]
  BY <1>1, <1>6, <1>10
<1> QED BY <1>9, <1>11

\* The children's values added to a map of numbers keep it one.
LEMMA ModuleParamNumbers ==
  ASSUME NEW param, NumbersIn(param), NEW kids, IsSequence(kids),
         \A k \in DOMAIN kids : kids[k].name \in ZswapdParams => IsNumber(kids[k].value)
  PROVE  NumbersIn(GetModuleParam(param, kids))
<1> SUFFICES ASSUME NEW k \in DOMAIN GetModuleParam(param, kids) \cap ZswapdParams
             PROVE  IsNumber(GetModuleParam(param, kids)[k])
  BY DEF NumbersIn
<1>1. CASE k \in DOMAIN param
  BY <1>1 DEF GetModuleParam, NumbersIn
<1>2. CASE k \notin DOMAIN param
  <2>1. GetModuleParam(param, kids)[k] = kids[Min(Named(kids, k))].value
    BY <1>2 DEF GetModuleParam
  <2>2. Named(kids, k) # {}
    BY <1>2 DEF GetModuleParam, Named
  <2>3. Named(kids, k) \subseteq Int /\ \A y \in Named(kids, k) : 1 <= y
    BY SequenceShape DEF Named
  <2>4. Min(Named(kids, k)) \in Named(kids, k)
    BY <2>2, <2>3, BoundedMin
  <2> QED BY <2>1, <2>4 DEF Named
<1> QED BY <1>1, <1>2

\* A ZswapdParam read from numbers is a range.
LEMMA ZswapdParamIsRange ==
  ASSUME NEW param, NumbersIn(param)
  PROVE  ZswapdParam(param) \in Ranges
<1>1. ASSUME NEW key \in ZswapdParams, NEW default \in Int
      PROVE  SetIntParam(param, key, default) \in Int
  BY <1>1 DEF SetIntParam, NumbersIn, IsNumber
<1>2. ASSUME NEW key \in ZswapdParams, NEW default \in 0 .. 100
      PROVE  InRange(SetUnsignedIntParam(param, key, default), 100, default) \in 0 .. 100
  <2>1. SetUnsignedIntParam(param, key, default) \in Int
    BY <1>1, <1>2 DEF SetUnsignedIntParam
  <2> QED BY <1>2, <2>1 DEF InRange
<1>3. ASSUME NEW key \in ZswapdParams, NEW default \in Int
      PROVE  InRange(SetIntParam(param, key, default), 1000, default) \in Int
  BY <1>1, <1>3 DEF InRange
<1>4. "minScore" \in ZswapdParams /\ "maxScore" \in ZswapdParams /\ "mem2zramRatio" \in ZswapdParams
      /\ "zram2ufsRatio" \in ZswapdParams /\ "refaultThreshold" \in ZswapdParams
  BY DEF ZswapdParams
<1> DEFINE r(key, default) == InRange(SetUnsignedIntParam(param, key, default), 100, default)
<1>5. r("mem2zramRatio", 60) \in 0 .. 100 /\ r("zram2ufsRatio", 10) \in 0 .. 100
      /\ r("refaultThreshold", 50) \in Int
  BY <1>2, <1>4
<1>6. InRange(SetIntParam(param, "minScore", 0), 1000, 0) \in Int
      /\ InRange(SetIntParam(param, "maxScore", 1000), 1000, 1000) \in Int
  BY <1>3, <1>4
<1>7. ZswapdParam(param) =
        [minScore |-> InRange(SetIntParam(param, "minScore", 0), 1000, 0),
         maxScore |-> InRange(SetIntParam(param, "maxScore", 1000), 1000, 1000),
         ratios |-> <<r("mem2zramRatio", 60), r("zram2ufsRatio", 10), r("refaultThreshold", 50)>>]
  BY DEF ZswapdParam, MAX_INTPARAM, MAX_UNINTPARAM, MEMCG_MEM_2_ZRAM_RATIO, MEMCG_ZRAM_2_UFS_RATIO,
         MEMCG_REFAULT_THRESHOLD, RECLAIM_PRIORITY_MAX
<1> HIDE DEF r
<1> QED BY <1>5, <1>6, <1>7 DEF Ranges, PERCENT_100

\* The maps of parameters after the first n of the children.
Accumulates(f, m, kids) ==
  f = [n \in 0 .. m |-> IF n = 0 THEN NoParam ELSE GetModuleParam(f[n - 1], kids[n].kids)]

\* The recursion over the children has a solution.
LEMMA AccumulatedExists ==
  ASSUME NEW kids, NEW l \in Nat
  PROVE  \E f : Accumulates(f, l, kids)
<1> DEFINE Bad == {m \in Nat : ~ \E f : Accumulates(f, m, kids)}
<1>1. ASSUME Bad # {} PROVE FALSE
  <2>1. PICK m \in Bad : \A k \in Bad : ~(<<k, m>> \in OpToRel(<, Nat))
    <3>1. Bad \subseteq Nat
      OBVIOUS
    <3> HIDE DEF Bad
    <3> QED BY <1>1, <3>1, NatLessThanWellFounded, WFMin
  <2>2. m \in Nat /\ ~ \E f : Accumulates(f, m, kids)
    OBVIOUS
  <2>3. m # 0
    <3> SUFFICES ASSUME m = 0 PROVE FALSE
      OBVIOUS
    <3>1. Accumulates([n \in 0 .. 0 |-> NoParam], 0, kids)
      BY DEF Accumulates
    <3> QED BY <2>2, <3>1
  <2>4. m - 1 \in Nat /\ m - 1 \notin Bad
    <3>1. m - 1 \in Nat /\ <<m - 1, m>> \in OpToRel(<, Nat)
      BY <2>2, <2>3 DEF OpToRel
    <3> HIDE DEF Bad
    <3> QED BY <2>1, <3>1
  <2>5. PICK g : Accumulates(g, m - 1, kids)
    BY <2>4
  <2> DEFINE h == [n \in 0 .. m |-> IF n = m THEN GetModuleParam(g[m - 1], kids[m].kids) ELSE g[n]]
  <2>6. \A n \in 0 .. m : n # m => h[n] = g[n] /\ n \in 0 .. m - 1
    BY <2>2
  <2>7. \A n \in 0 .. m - 1 : g[n] = IF n = 0 THEN NoParam ELSE GetModuleParam(g[n - 1], kids[n].kids)
    BY <2>5 DEF Accumulates
  <2>8. \A n \in 0 .. m : h[n] = IF n = 0 THEN NoParam ELSE GetModuleParam(h[n - 1], kids[n].kids)
    <3> SUFFICES ASSUME NEW n \in 0 .. m
                 PROVE  h[n] = IF n = 0 THEN NoParam ELSE GetModuleParam(h[n - 1], kids[n].kids)
      OBVIOUS
    <3>1. n # 0 => n - 1 \in 0 .. m /\ n - 1 # m
      BY <2>2
    <3>2. n # 0 => h[n - 1] = g[n - 1]
      BY <2>6, <3>1
    <3>3. CASE n = m
      <4>1. h[m] = GetModuleParam(g[m - 1], kids[m].kids)
        BY <2>2
      <4> HIDE DEF h
      <4> QED BY <2>3, <3>2, <3>3, <4>1
    <3>4. CASE n # m
      <4> HIDE DEF h
      <4> QED BY <2>6, <2>7, <3>2, <3>4
    <3> QED BY <3>3, <3>4
  <2>9. Accumulates(h, m, kids)
    <3>1. h = [n \in 0 .. m |-> h[n]]
      OBVIOUS
    <3> HIDE DEF h
    <3> QED BY <2>8, <3>1 DEF Accumulates
  <2> QED BY <2>2, <2>9
<1>2. l \notin Bad
  BY <1>1
<1> QED BY <1>2

\* Accumulated is the solution.
LEMMA AccumulatedIs ==
  ASSUME NEW kids, Len(kids) \in Nat
  PROVE  Accumulates(Accumulated(kids), Len(kids), kids)
<1>1. \E f : Accumulates(f, Len(kids), kids)
  BY AccumulatedExists
<1>2. Accumulated(kids) = CHOOSE f : Accumulates(f, Len(kids), kids)
  BY DEF Accumulated, Accumulates
<1> QED BY <1>1, <1>2

\* The children of a section of a document.
IsSection(section) ==
  /\ IsSequence(section.kids)
  /\ \A j \in DOMAIN section.kids :
       /\ IsSequence(section.kids[j].kids)
       /\ \A k \in DOMAIN section.kids[j].kids :
            section.kids[j].kids[k].name \in ZswapdParams =>
              IsNumber(section.kids[j].kids[k].value)

\* A document is made of sections.
LEMMA DocumentSections ==
  ASSUME NEW doc, IsDocument(doc)
  PROVE  IsSequence(doc) /\ \A i \in DOMAIN doc : IsSection(doc[i])
BY DEF IsDocument, IsSection, IsNumber

\* Of a section's children, the maps of parameters hold numbers.
LEMMA AccumulatedNumbers ==
  ASSUME NEW kids, Len(kids) \in Nat,
         \A j \in 1 .. Len(kids) :
           /\ IsSequence(kids[j].kids)
           /\ \A k \in DOMAIN kids[j].kids :
                kids[j].kids[k].name \in ZswapdParams => IsNumber(kids[j].kids[k].value)
  PROVE  \A n \in 1 .. Len(kids) : NumbersIn(Accumulated(kids)[n])
<1> DEFINE f == Accumulated(kids)
           Bad == {n \in 0 .. Len(kids) : ~NumbersIn(f[n])}
<1>1. /\ f[0] = NoParam
      /\ \A n \in 1 .. Len(kids) : f[n] = GetModuleParam(f[n - 1], kids[n].kids)
  <2>1. Accumulates(f, Len(kids), kids)
    BY AccumulatedIs
  <2> HIDE DEF f
  <2> QED BY <2>1 DEF Accumulates
<1> HIDE DEF f
<1>2. ASSUME Bad # {} PROVE FALSE
  <2>1. PICK m \in Bad : \A k \in Bad : ~(<<k, m>> \in OpToRel(<, Nat))
    <3>1. Bad \subseteq Nat
      OBVIOUS
    <3> HIDE DEF Bad
    <3> QED BY <1>2, <3>1, NatLessThanWellFounded, WFMin
  <2>2. m \in 0 .. Len(kids) /\ ~NumbersIn(f[m])
    OBVIOUS
  <2>3. m # 0
    <3>1. NumbersIn(NoParam)
      BY DEF NumbersIn, NoParam
    <3> QED BY <1>1, <2>2, <3>1
  <2>4. m - 1 \in 0 .. Len(kids) /\ NumbersIn(f[m - 1])
    <3>1. m - 1 \in 0 .. Len(kids) /\ <<m - 1, m>> \in OpToRel(<, Nat)
      BY <2>2, <2>3 DEF OpToRel
    <3>2. m - 1 \notin Bad
      <4> HIDE DEF Bad
      <4> QED BY <2>1, <3>1
    <3> QED BY <3>1, <3>2
  <2>5. m \in 1 .. Len(kids)
    BY <2>2, <2>3
  <2>6. NumbersIn(GetModuleParam(f[m - 1], kids[m].kids))
    BY <2>4, <2>5, ModuleParamNumbers
  <2> QED BY <1>1, <2>2, <2>5, <2>6
<1>3. \A n \in 1 .. Len(kids) : NumbersIn(f[n])
  <2>1. \A n \in 0 .. Len(kids) : n \notin Bad
    BY <1>2
  <2> QED BY <2>1
<1> QED BY <1>3 DEF f

\* The ranges read from a section are ranges.
LEMMA ParseReclaimRanges ==
  ASSUME NEW section, IsSection(section), NEW old \in Seq(Ranges)
  PROVE  ParseReclaim(section, old) \in Seq(Ranges)
<1> DEFINE bad == {i \in DOMAIN section.kids : ~ModuleParamOk(section.kids[i].kids)}
           kids == CutAt(section.kids, bad)
           new == [n \in DOMAIN kids |-> ZswapdParam(Accumulated(kids)[n])]
<1>1. ParseReclaim(section, old) = IF Readable(section) THEN old \o new ELSE old
  BY DEF ParseReclaim, Before, CutAt
<1>2. /\ Len(kids) \in Nat /\ DOMAIN kids = 1 .. Len(kids)
      /\ \A i \in DOMAIN kids : i \in DOMAIN section.kids /\ kids[i] = section.kids[i]
  <2>1. bad \subseteq DOMAIN section.kids /\ IsSequence(section.kids)
    BY DEF IsSection
  <2> HIDE DEF bad
  <2> QED BY <2>1, CutBefore
<1> HIDE DEF kids
<1>3. \A n \in 1 .. Len(kids) : NumbersIn(Accumulated(kids)[n])
  <2>1. \A j \in 1 .. Len(kids) :
           /\ IsSequence(kids[j].kids)
           /\ \A k \in DOMAIN kids[j].kids :
                kids[j].kids[k].name \in ZswapdParams => IsNumber(kids[j].kids[k].value)
    BY <1>2 DEF IsSection
  <2> QED BY <1>2, <2>1, AccumulatedNumbers
<1>4. \A n \in 1 .. Len(kids) : ZswapdParam(Accumulated(kids)[n]) \in Ranges
  BY <1>3, ZswapdParamIsRange
<1>5. new \in Seq(Ranges)
  <2>1. new \in [1 .. Len(kids) -> Ranges]
    BY <1>2, <1>4
  <2> HIDE DEF new
  <2> QED BY <1>2, <2>1
<1> HIDE DEF new
<1>6. old \o new \in Seq(Ranges)
  BY <1>5, ConcatProperties
<1> QED BY <1>1, <1>6

\* Every section leaves ranges in the configuration.
LEMMA ParseSectionRanges ==
  ASSUME NEW section, IsSection(section), NEW c, c.reclaim \in Seq(Ranges),
         "reclaim" \in DOMAIN c
  PROVE  /\ ParseSection(c, section).reclaim \in Seq(Ranges)
         /\ "reclaim" \in DOMAIN ParseSection(c, section)
<1>1. ParseReclaim(section, c.reclaim) \in Seq(Ranges)
  BY ParseReclaimRanges
<1>2. CASE section.name = "reclaimConfig"
  <2>1. ParseSection(c, section) = [c EXCEPT !.reclaim = ParseReclaim(section, c.reclaim)]
    BY <1>2 DEF ParseSection
  <2> QED BY <1>1, <2>1
<1>3. CASE section.name # "reclaimConfig"
  <2>1. \/ ParseSection(c, section) = [c EXCEPT !.avail = ParseAvailBuffer(section, c.avail)]
        \/ ParseSection(c, section) = [c EXCEPT !.level = ParseMemoryLevel(section, c.level)]
        \/ ParseSection(c, section) = [c EXCEPT !.priority = ParseReclaimPriority(section, c.priority)]
        \/ ParseSection(c, section) = [c EXCEPT !.nand = ParseNandLife(section, c.nand)]
        \/ ParseSection(c, section) = [c EXCEPT !.switch = ParseSwitch(section, c.switch)]
        \/ ParseSection(c, section) = [c EXCEPT !.purge = ParsePurgeable(section, c.purge)]
        \/ ParseSection(c, section) = c
    BY <1>3 DEF ParseSection
  <2> QED BY <2>1
<1> QED BY <1>2, <1>3

\* The configurations after the first n sections.
Reads(f, m, sections) ==
  f = [n \in 0 .. m |-> IF n = 0 THEN [DefaultConfig EXCEPT !.reclaim = <<>>]
                        ELSE ParseSection(f[n - 1], sections[n])]

\* The recursion over the sections has a solution.
LEMMA ReadsExists ==
  ASSUME NEW sections, NEW l \in Nat
  PROVE  \E f : Reads(f, l, sections)
<1> DEFINE Bad == {m \in Nat : ~ \E f : Reads(f, m, sections)}
           Base == [DefaultConfig EXCEPT !.reclaim = <<>>]
<1>1. ASSUME Bad # {} PROVE FALSE
  <2>1. PICK m \in Bad : \A k \in Bad : ~(<<k, m>> \in OpToRel(<, Nat))
    <3>1. Bad \subseteq Nat
      OBVIOUS
    <3> HIDE DEF Bad
    <3> QED BY <1>1, <3>1, NatLessThanWellFounded, WFMin
  <2>2. m \in Nat /\ ~ \E f : Reads(f, m, sections)
    OBVIOUS
  <2>3. m # 0
    <3> SUFFICES ASSUME m = 0 PROVE FALSE
      OBVIOUS
    <3>1. Reads([n \in 0 .. 0 |-> Base], 0, sections)
      BY DEF Reads
    <3> QED BY <2>2, <3>1
  <2>4. m - 1 \in Nat /\ m - 1 \notin Bad
    <3>1. m - 1 \in Nat /\ <<m - 1, m>> \in OpToRel(<, Nat)
      BY <2>2, <2>3 DEF OpToRel
    <3> HIDE DEF Bad
    <3> QED BY <2>1, <3>1
  <2>5. PICK g : Reads(g, m - 1, sections)
    BY <2>4
  <2> DEFINE h == [n \in 0 .. m |-> IF n = m THEN ParseSection(g[m - 1], sections[m]) ELSE g[n]]
  <2>6. \A n \in 0 .. m : n # m => h[n] = g[n] /\ n \in 0 .. m - 1
    BY <2>2
  <2>7. \A n \in 0 .. m - 1 : g[n] = IF n = 0 THEN Base ELSE ParseSection(g[n - 1], sections[n])
    BY <2>5 DEF Reads
  <2>8. \A n \in 0 .. m : h[n] = IF n = 0 THEN Base ELSE ParseSection(h[n - 1], sections[n])
    <3> HIDE DEF Base
    <3> SUFFICES ASSUME NEW n \in 0 .. m
                 PROVE  h[n] = IF n = 0 THEN Base ELSE ParseSection(h[n - 1], sections[n])
      OBVIOUS
    <3>1. n # 0 => n - 1 \in 0 .. m /\ n - 1 # m
      BY <2>2
    <3>2. n # 0 => h[n - 1] = g[n - 1]
      BY <2>6, <3>1
    <3>3. CASE n = m
      <4>1. h[m] = ParseSection(g[m - 1], sections[m])
        BY <2>2
      <4> HIDE DEF h
      <4> QED BY <2>3, <3>2, <3>3, <4>1
    <3>4. CASE n # m
      <4> HIDE DEF h
      <4> QED BY <2>6, <2>7, <3>2, <3>4
    <3> QED BY <3>3, <3>4
  <2>9. Reads(h, m, sections)
    <3>1. h = [n \in 0 .. m |-> h[n]]
      OBVIOUS
    <3> HIDE DEF h
    <3> QED BY <2>8, <3>1 DEF Reads
  <2> QED BY <2>2, <2>9
<1>2. l \notin Bad
  BY <1>1
<1> QED BY <1>2

\* What is read, section by section, has ranges in it.
LEMMA ReadSectionsRanges ==
  ASSUME NEW sections, Len(sections) \in Nat, \A i \in 1 .. Len(sections) : IsSection(sections[i])
  PROVE  /\ ReadSections(sections).reclaim \in Seq(Ranges)
         /\ "reclaim" \in DOMAIN ReadSections(sections)
<1>1. \E f : Reads(f, Len(sections), sections)
  BY ReadsExists
<1>2. PICK f : /\ Reads(f, Len(sections), sections)
               /\ ReadSections(sections) = f[Len(sections)]
  <2>1. ReadSections(sections) = (CHOOSE f : Reads(f, Len(sections), sections))[Len(sections)]
    BY DEF ReadSections, Reads
  <2> QED BY <1>1, <2>1
<1> DEFINE Ok(n) == f[n].reclaim \in Seq(Ranges) /\ "reclaim" \in DOMAIN f[n]
           Bad == {n \in 0 .. Len(sections) : ~Ok(n)}
<1>3. Ok(0)
  <2>1. f[0] = [DefaultConfig EXCEPT !.reclaim = <<>>]
    BY <1>2 DEF Reads
  <2>2. f[0].reclaim = <<>> /\ "reclaim" \in DOMAIN f[0]
    BY <2>1 DEF DefaultConfig
  <2>3. <<>> \in Seq(Ranges)
    OBVIOUS
  <2> QED BY <2>2, <2>3
<1>4. \A n \in 1 .. Len(sections) : f[n] = ParseSection(f[n - 1], sections[n])
  <2>1. \A n \in 0 .. Len(sections) :
          f[n] = IF n = 0 THEN [DefaultConfig EXCEPT !.reclaim = <<>>]
                 ELSE ParseSection(f[n - 1], sections[n])
    BY <1>2 DEF Reads
  <2> QED BY <2>1
<1>5. ASSUME NEW n \in 1 .. Len(sections), Ok(n - 1) PROVE Ok(n)
  <2>1. ParseSection(f[n - 1], sections[n]).reclaim \in Seq(Ranges)
        /\ "reclaim" \in DOMAIN ParseSection(f[n - 1], sections[n])
    BY <1>5, ParseSectionRanges
  <2> QED BY <1>4, <2>1
<1> HIDE DEF Ok
<1>6. ASSUME Bad # {} PROVE FALSE
  <2>1. PICK m \in Bad : \A k \in Bad : ~(<<k, m>> \in OpToRel(<, Nat))
    <3>1. Bad \subseteq Nat
      OBVIOUS
    <3> HIDE DEF Bad
    <3> QED BY <1>6, <3>1, NatLessThanWellFounded, WFMin
  <2>2. m \in 0 .. Len(sections) /\ ~Ok(m)
    OBVIOUS
  <2>3. m # 0
    BY <1>3, <2>2
  <2>4. m - 1 \in 0 .. Len(sections) /\ <<m - 1, m>> \in OpToRel(<, Nat)
    BY <2>2, <2>3 DEF OpToRel
  <2>5. m - 1 \notin Bad
    <3> HIDE DEF Bad
    <3> QED BY <2>1, <2>4
  <2>6. Ok(m - 1)
    BY <2>4, <2>5
  <2>7. m \in 1 .. Len(sections)
    BY <2>2, <2>3
  <2> QED BY <1>5, <2>2, <2>6, <2>7
<1>7. Ok(Len(sections))
  <2>1. Len(sections) \in 0 .. Len(sections) /\ Len(sections) \notin Bad
    BY <1>6
  <2> QED BY <2>1
<1> QED BY <1>2, <1>7 DEF Ok

\* A document that can be read leaves ranges in the configuration.
LEMMA ReadParamRanges ==
  ASSUME NEW doc, IsDocument(doc)
  PROVE  ReadParamFromXml(doc).reclaim \in Seq(Ranges)
<1> DEFINE bad == {i \in DOMAIN doc : ~(doc[i].name \in Sections)}
           sections == CutAt(doc, bad)
<1>1. ReadParamFromXml(doc) = [ReadSections(sections) EXCEPT !.loaded = (sections = doc)]
  BY DEF ReadParamFromXml, Before, CutAt
<1>2. IsSequence(doc) /\ \A i \in DOMAIN doc : IsSection(doc[i])
  BY DocumentSections
<1>3. Len(sections) \in Nat /\ \A i \in 1 .. Len(sections) : IsSection(sections[i])
  <2>1. bad \subseteq DOMAIN doc
    OBVIOUS
  <2> HIDE DEF bad
  <2>2. /\ Len(sections) \in Nat /\ DOMAIN sections = 1 .. Len(sections)
        /\ \A i \in DOMAIN sections : i \in DOMAIN doc /\ sections[i] = doc[i]
    BY <1>2, <2>1, CutBefore
  <2> HIDE DEF sections
  <2> QED BY <1>2, <2>2
<1> HIDE DEF sections
<1>4. ReadSections(sections).reclaim \in Seq(Ranges)
  BY <1>3, ReadSectionsRanges
<1> QED BY <1>1, <1>4

-----------------------------------------------------------------------------
(* The score and the ratios of a priority.                                 *)

\* The smaller of two numbers.
LEMMA MinOfTwo ==
  ASSUME NEW a \in Int, NEW b \in Int
  PROVE  Min({a, b}) = IF a =< b THEN a ELSE b
<1>1. CASE a =< b
  <2>1. \A y \in {a, b} : a =< y
    BY <1>1
  <2>2. {a, b} \subseteq Int /\ a \in {a, b}
    OBVIOUS
  <2>3. Min({a, b}) = a
    BY <2>1, <2>2, MinIs
  <2> QED BY <1>1, <2>3
<1>2. CASE ~(a =< b)
  <2>1. \A y \in {a, b} : b =< y
    BY <1>2
  <2>2. {a, b} \subseteq Int /\ b \in {a, b}
    OBVIOUS
  <2>3. Min({a, b}) = b
    BY <2>1, <2>2, MinIs
  <2> QED BY <1>2, <2>3
<1> QED BY <1>1, <1>2

\* The larger of two numbers.
LEMMA MaxOfTwo ==
  ASSUME NEW a \in Int, NEW b \in Int
  PROVE  Max({a, b}) = IF a >= b THEN a ELSE b
<1> DEFINE m == IF a >= b THEN a ELSE b
<1>1. m \in {a, b} /\ \A y \in {a, b} : m >= y
  OBVIOUS
<1>2. \A x \in {a, b} : (\A y \in {a, b} : x >= y) => x = m
  OBVIOUS
<1>3. (CHOOSE x \in {a, b} : \A y \in {a, b} : x >= y) = m
  BY <1>1, <1>2
<1> QED BY <1>3 DEF Max

\* The score a priority stands for.
ScoreOf(priority) == IF priority < 0 THEN 0 ELSE IF priority > 1000 THEN 1000 ELSE priority

\* GetValidScore_ cuts a priority to a score.
LEMMA ValidScore ==
  ASSUME NEW priority \in Int
  PROVE  GetValidScore(priority) = ScoreOf(priority) /\ ScoreOf(priority) \in 0 .. 1000
<1>1. Min({priority, 1000}) = IF priority =< 1000 THEN priority ELSE 1000
  BY MinOfTwo
<1>2. PICK m \in Int : m = Min({priority, 1000})
  BY <1>1
<1>3. Max({0, m}) = IF 0 >= m THEN 0 ELSE m
  BY MaxOfTwo
<1>4. GetValidScore(priority) = Max({0, m})
  BY <1>2 DEF GetValidScore, RECLAIM_SCORE_MIN, RECLAIM_SCORE_MAX
<1> QED BY <1>1, <1>2, <1>3, <1>4 DEF ScoreOf

\* The ratios of a range are percentages already.
LEMMA ClampSame ==
  ASSUME NEW r \in (0 .. PERCENT_100) \X (0 .. PERCENT_100) \X Int
  PROVE  Clamp100(r) = r
<1>1. r = <<r[1], r[2], r[3]>> /\ r[1] \in 0 .. 100 /\ r[2] \in 0 .. 100
  BY DEF PERCENT_100
<1>2. Min({r[1], 100}) = r[1] /\ Min({r[2], 100}) = r[2]
  BY <1>1, MinOfTwo
<1> QED BY <1>1, <1>2 DEF Clamp100, PERCENT_100

\* A set of places of a sequence that is not empty has a last one.
LEMMA LastPlace ==
  ASSUME NEW l \in Nat, NEW T, T \subseteq 1 .. l, T # {}
  PROVE  \E i \in T : \A j \in T : j =< i
<1> DEFINE R == {l - j : j \in T}
<1>1. R \subseteq Nat /\ R # {}
  <2>1. \A j \in T : l - j \in Nat
    OBVIOUS
  <2>2. PICK j \in T : TRUE
    OBVIOUS
  <2>3. l - j \in R
    BY <2>2
  <2> QED BY <2>1, <2>3
<1>2. PICK n \in R : \A k \in R : ~(<<k, n>> \in OpToRel(<, Nat))
  <2> HIDE DEF R
  <2> QED BY <1>1, NatLessThanWellFounded, WFMin
<1>3. PICK i \in T : n = l - i
  OBVIOUS
<1>4. ASSUME NEW j \in T, ~(j =< i) PROVE FALSE
  <2>1. l - j \in R /\ l - j \in Nat /\ n \in Nat /\ l - j < n
    BY <1>1, <1>3, <1>4
  <2>2. <<l - j, n>> \in OpToRel(<, Nat)
    BY <2>1 DEF OpToRel
  <2> QED BY <1>2, <2>1, <2>2
<1> QED BY <1>4

\* Of the ranges that cover a score one comes first in reclaimConfigSet_, and no other
\* starts lower.
LEMMA FirstCovering ==
  ASSUME config.reclaim \in Seq(Ranges), NEW score \in Int, Covering(score) # {}
  PROVE  \E i \in Covering(score) :
           /\ RatiosByScore(score) = config.reclaim[i].ratios
           /\ \A j \in Covering(score) : config.reclaim[i].minScore =< config.reclaim[j].minScore
<1> DEFINE C == Covering(score)
           r == config.reclaim
           Lows == {r[j].minScore : j \in C}
<1>1. C \subseteq 1 .. Len(r) /\ Len(r) \in Nat /\ \A j \in C : r[j] \in Ranges
  BY DEF Covering
<1>2. \A j \in C : r[j].minScore \in Int /\ r[j].minScore =< score
  <2>1. \A j \in C : r[j].minScore =< score
    BY DEF Covering
  <2> QED BY <1>1, <2>1 DEF Ranges
<1>3. PICK low \in Int : low \in Lows /\ \A j \in C : low =< r[j].minScore
  <2> HIDE DEF C, r
  <2>1. \A n \in Nat : \A T \in SUBSET (1 .. n) : T # {} /\ (\A j \in T : r[j].minScore \in Int) =>
          \E i \in T : \A j \in T : r[i].minScore =< r[j].minScore
    <3> DEFINE Q(n) == \A T \in SUBSET (1 .. n) : T # {} /\ (\A j \in T : r[j].minScore \in Int) =>
                         \E i \in T : \A j \in T : r[i].minScore =< r[j].minScore
               Bad == {n \in Nat : ~Q(n)}
    <3>1. ASSUME Bad # {} PROVE FALSE
      <4>1. PICK n \in Bad : \A k \in Bad : ~(<<k, n>> \in OpToRel(<, Nat))
        <5>1. Bad \subseteq Nat
          OBVIOUS
        <5> HIDE DEF Bad
        <5> QED BY <3>1, <5>1, NatLessThanWellFounded, WFMin
      <4>2. n \in Nat /\ ~Q(n)
        OBVIOUS
      <4>3. n # 0
        <5>1. Q(0)
          <6>1. \A T \in SUBSET (1 .. 0) : T = {}
            OBVIOUS
          <6> QED BY <6>1
        <5> HIDE DEF Q
        <5> QED BY <4>2, <5>1
      <4>4. n - 1 \in Nat /\ <<n - 1, n>> \in OpToRel(<, Nat)
        BY <4>2, <4>3 DEF OpToRel
      <4>5. n - 1 \notin Bad
        <5> HIDE DEF Bad
        <5> QED BY <4>1, <4>4
      <4>6. Q(n - 1)
        BY <4>4, <4>5
      <4>7. PICK T \in SUBSET (1 .. n) :
              /\ T # {} /\ \A j \in T : r[j].minScore \in Int
              /\ ~ \E i \in T : \A j \in T : r[i].minScore =< r[j].minScore
        BY <4>2
      <4>8. T \ {n} \in SUBSET (1 .. n - 1)
        BY <4>2
      <4>9. CASE T \ {n} = {}
        <5>1. T = {n}
          BY <4>7, <4>9
        <5> QED BY <4>7, <5>1
      <4>10. CASE T \ {n} # {}
        <5>1. \A j \in T \ {n} : r[j].minScore \in Int
          BY <4>7
        <5>2. PICK i \in T \ {n} : \A j \in T \ {n} : r[i].minScore =< r[j].minScore
          BY <4>6, <4>8, <4>10, <5>1
        <5>3. CASE n \in T /\ r[n].minScore < r[i].minScore
          <6>1. ASSUME NEW j \in T PROVE r[n].minScore =< r[j].minScore
            <7>1. r[n].minScore \in Int /\ r[i].minScore \in Int /\ r[j].minScore \in Int
              BY <4>7, <5>3
            <7>2. CASE j = n
              BY <7>1, <7>2
            <7>3. CASE j # n
              <8>1. r[i].minScore =< r[j].minScore
                BY <5>2, <7>3
              <8> QED BY <5>3, <7>1, <8>1
            <7> QED BY <7>2, <7>3
          <6> QED BY <4>7, <5>3, <6>1
        <5>4. CASE ~(n \in T /\ r[n].minScore < r[i].minScore)
          <6>1. \A j \in T : r[i].minScore =< r[j].minScore
            BY <4>7, <5>2, <5>4
          <6> QED BY <4>7, <6>1
        <5> QED BY <5>3, <5>4
      <4> QED BY <4>9, <4>10
    <3> QED BY <3>1
  <2>2. C # {}
    BY DEF C
  <2>3. PICK i \in C : \A j \in C : r[i].minScore =< r[j].minScore
    BY <1>1, <1>2, <2>1, <2>2
  <2> QED BY <1>2, <2>3
<1> DEFINE Ties == {j \in C : r[j].minScore = low}
<1>4. PICK i \in Ties : \A j \in Ties : j =< i
  <2>1. Ties \subseteq 1 .. Len(r) /\ Ties # {}
    BY <1>1, <1>3
  <2> HIDE DEF Ties
  <2> QED BY <1>1, <2>1, LastPlace
<1> HIDE DEF C, r
<1>5. i \in C /\ r[i].minScore = low /\ i \in Int
  BY <1>1, <1>4
<1>6. \A j \in C : j = i \/ RatiosOrder(r, i, j)
  <2> SUFFICES ASSUME NEW j \in C, j # i PROVE RatiosOrder(r, i, j)
    OBVIOUS
  <2>1. low =< r[j].minScore /\ r[j].minScore \in Int /\ j \in Int
    BY <1>1, <1>2, <1>3
  <2>2. CASE low = r[j].minScore
    <3>1. j =< i
      BY <1>4, <2>2
    <3> QED BY <1>5, <2>1, <2>2, <3>1 DEF RatiosOrder
  <2>3. CASE low # r[j].minScore
    BY <1>3, <1>5, <2>1, <2>3 DEF RatiosOrder
  <2> QED BY <2>2, <2>3
<1>7. PICK k \in C : /\ k = CHOOSE x \in C : \A j \in C : j = x \/ RatiosOrder(r, x, j)
                     /\ \A j \in C : j = k \/ RatiosOrder(r, k, j)
  BY <1>5, <1>6
<1>8. RatiosByScore(score) = r[k].ratios
  BY <1>7 DEF RatiosByScore, C, r
<1>9. \A j \in C : r[k].minScore =< r[j].minScore
  <2> SUFFICES ASSUME NEW j \in C, j # k PROVE r[k].minScore =< r[j].minScore
    BY <1>2
  <2>1. RatiosOrder(r, k, j)
    BY <1>7
  <2> QED BY <1>2, <2>1 DEF RatiosOrder
<1> QED BY <1>8, <1>9 DEF C, r

-----------------------------------------------------------------------------
(* The inductive invariant of the memory cgroups.                          *)

\* What the kernel holds for a priority under some ranges: the body of PriorityApplied.
Holds(priority, dir, reclaim) ==
  LET entries == {e \in ToSet(reclaim) : ScoreOf(priority) \in e.minScore .. e.maxScore}
  IN entries # {} =>
       /\ dir.score = ScoreOf(priority)
       /\ \E e \in entries : /\ dir.ratios = e.ratios
                             /\ \A f \in entries : e.minScore <= f.minScore

\* PriorityApplied, account by account.
LEMMA AppliedHolds ==
  PriorityApplied <=> \A u \in DOMAIN applied : Holds(applied[u], dirs[u], config.reclaim)
BY DEF PriorityApplied, Holds, ScoreOf

\* What HandleAccountPriorityChanged_ writes holds for the priority.
LEMMA GivenHolds ==
  ASSUME config.reclaim \in Seq(Ranges), NEW priority \in Int,
         Covering(GetValidScore(priority)) # {}, NEW dir,
         dir.score = GetValidScore(priority),
         dir.ratios = Clamp100(RatiosByScore(GetValidScore(priority)))
  PROVE  Holds(priority, dir, config.reclaim)
<1> DEFINE score == ScoreOf(priority)
           entries == {e \in ToSet(config.reclaim) : score \in e.minScore .. e.maxScore}
<1>1. GetValidScore(priority) = score /\ score \in Int
  <2>1. score \in Int
    BY DEF ScoreOf
  <2>2. GetValidScore(priority) = score
    BY ValidScore
  <2> QED BY <2>1, <2>2
<1> HIDE DEF score
<1>2. PICK i \in Covering(score) :
        /\ RatiosByScore(score) = config.reclaim[i].ratios
        /\ \A j \in Covering(score) : config.reclaim[i].minScore =< config.reclaim[j].minScore
  BY <1>1, FirstCovering
<1>3. \A j \in DOMAIN config.reclaim :
        /\ config.reclaim[j] \in Ranges /\ config.reclaim[j] \in ToSet(config.reclaim)
        /\ config.reclaim[j].minScore \in Int /\ config.reclaim[j].maxScore \in Int
  <2>1. \A j \in DOMAIN config.reclaim : config.reclaim[j] \in Ranges
    OBVIOUS
  <2>2. \A j \in DOMAIN config.reclaim : config.reclaim[j] \in ToSet(config.reclaim)
    BY DEF ToSet
  <2> QED BY <2>1, <2>2 DEF Ranges
<1>4. config.reclaim[i] \in entries /\ i \in DOMAIN config.reclaim
  BY <1>1, <1>3 DEF Covering
<1>5. \A f \in entries : config.reclaim[i].minScore <= f.minScore
  <2> SUFFICES ASSUME NEW f \in entries PROVE config.reclaim[i].minScore <= f.minScore
    OBVIOUS
  <2>1. PICK j \in DOMAIN config.reclaim : f = config.reclaim[j]
    BY DEF ToSet
  <2>2. j \in Covering(score)
    BY <1>1, <1>3, <2>1 DEF Covering
  <2> QED BY <1>2, <2>1, <2>2
<1>6. Clamp100(config.reclaim[i].ratios) = config.reclaim[i].ratios
  <2>1. config.reclaim[i] \in Ranges
    BY <1>3, <1>4
  <2>2. config.reclaim[i].ratios \in (0 .. PERCENT_100) \X (0 .. PERCENT_100) \X Int
    BY <2>1 DEF Ranges
  <2> QED BY <2>2, ClampSame
<1>7. dir.score = score /\ dir.ratios = config.reclaim[i].ratios
  BY <1>1, <1>2, <1>6
<1> QED BY <1>4, <1>5, <1>7 DEF Holds, score

\* A score that no range covers asks for nothing.
LEMMA UncoveredHolds ==
  ASSUME config.reclaim \in Seq(Ranges), NEW priority \in Int,
         Covering(GetValidScore(priority)) = {}, NEW dir
  PROVE  Holds(priority, dir, config.reclaim)
<1>1. GetValidScore(priority) = ScoreOf(priority) /\ ScoreOf(priority) \in Int
  <2>1. ScoreOf(priority) \in Int
    BY DEF ScoreOf
  <2>2. GetValidScore(priority) = ScoreOf(priority)
    BY ValidScore
  <2> QED BY <2>1, <2>2
<1> SUFFICES ASSUME NEW e \in ToSet(config.reclaim),
                    ScoreOf(priority) \in e.minScore .. e.maxScore
             PROVE  FALSE
  BY DEF Holds
<1>2. PICK j \in DOMAIN config.reclaim : e = config.reclaim[j]
  BY DEF ToSet
<1>3. e.minScore \in Int /\ e.maxScore \in Int
  <2>1. config.reclaim[j] \in Ranges
    BY <1>2
  <2> QED BY <1>2, <2>1 DEF Ranges
<1>4. j \in Covering(ScoreOf(priority))
  BY <1>1, <1>2, <1>3 DEF Covering
<1> QED BY <1>1, <1>4

\* The requests that are posted.
Tasks ==
  [kind : {"create"}, pid : Pid]
    \union [kind : {"priority"}, account : Account, priority : Priorities]
    \union [kind : {"died"}, account : Account]

\* Requests are there, and accounts have been updated, only once Init is done.
Served ==
  /\ tasks \in Seq(Tasks)
  /\ phase # "running" => tasks = <<>> /\ readBack = {} /\ DOMAIN applied = {}

\* The settings of what was read back are the kernel's.
Mirrored == readBack \subseteq DOMAIN memcgs /\ MirrorsKernel

\* Accounts that were given a priority have a directory, with what the priority asks for.
Applied == DOMAIN applied \subseteq DOMAIN dirs /\ PriorityApplied

StrategyInv ==
  /\ config.reclaim \in Seq(Ranges)
  /\ Served
  /\ Mirrored
  /\ Applied
  /\ ProcsFiled

\* The program starts in it.
LEMMA StrategyStart == StrategyInit => StrategyInv
<1> SUFFICES ASSUME StrategyInit PROVE StrategyInv
  OBVIOUS
<1>1. config.reclaim \in Seq(Ranges)
  <2>1. config.reclaim = DefaultReclaim
    BY DEF StrategyInit, DefaultConfig
  <2>2. [minScore |-> -1000, maxScore |-> 1000, ratios |-> <<60, 10, 50>>] \in Ranges
    BY DEF Ranges, PERCENT_100
  <2>3. DefaultReclaim = <<[minScore |-> -1000, maxScore |-> 1000, ratios |-> <<60, 10, 50>>]>>
    BY DEF DefaultReclaim, RECLAIM_PRIORITY_MIN, RECLAIM_PRIORITY_MAX, MEMCG_MEM_2_ZRAM_RATIO,
           MEMCG_ZRAM_2_UFS_RATIO, MEMCG_REFAULT_THRESHOLD
  <2> QED BY <2>1, <2>2, <2>3
<1>2. tasks = <<>> /\ readBack = {} /\ DOMAIN applied = {} /\ phase = "boot"
  BY DEF StrategyInit
<1>3. Served
  BY <1>2 DEF Served
<1>4. Mirrored /\ Applied /\ ProcsFiled
  BY <1>2 DEF Mirrored, MirrorsKernel, Applied, PriorityApplied, ProcsFiled
<1> QED BY <1>1, <1>3, <1>4 DEF StrategyInv

\* The settings of what was read back stay the kernel's.
LEMMA MirroredStep == StrategyInv /\ [StrategyNext]_strategyVars => Mirrored'
<1> SUFFICES ASSUME StrategyInv, [StrategyNext]_strategyVars PROVE Mirrored'
  OBVIOUS
<1>1. /\ readBack \subseteq DOMAIN memcgs
      /\ \A u \in readBack : u \in DOMAIN dirs /\ memcgs[u] = dirs[u]
      /\ phase # "running" => readBack = {}
  BY DEF StrategyInv, Mirrored, MirrorsKernel, Served
<1>2. ASSUME UNCHANGED <<memcgs, dirs, readBack>> PROVE Mirrored'
  BY <1>1, <1>2 DEF Mirrored, MirrorsKernel
<1>3. ASSUME readBack' = {} PROVE Mirrored'
  BY <1>3 DEF Mirrored, MirrorsKernel
<1>4. CASE UNCHANGED strategyVars
  BY <1>2, <1>4 DEF strategyVars
<1>5. CASE LoadConfig
  BY <1>2, <1>5 DEF LoadConfig, kernelVars, history
<1>6. CASE \E bad \in Outcomes(InitSteps), zram \in BOOLEAN : Initialise(bad, zram)
  BY <1>1, <1>3, <1>6 DEF Initialise, InitFailed, InitDone, history
<1>7. CASE \E p \in Pid : NotifyProcessCreated(p) \/ RenderProcessStarted(p) \/ ProcessGone(p)
  BY <1>2, <1>7 DEF NotifyProcessCreated, RenderProcessStarted, ProcessGone, Posting
<1>8. CASE \E u \in Account, pr \in Priorities : NotifyAccountPriorityChanged(u, pr)
  BY <1>2, <1>8 DEF NotifyAccountPriorityChanged, Posting, kernelVars
<1>9. CASE \E u \in Account : NotifyAccountDied(u)
  BY <1>2, <1>9 DEF NotifyAccountDied, Posting, kernelVars
<1>10. CASE \E bad \in Outcomes({"mkdir", "proc"}) : HandleProcessCreate(bad)
  <2>1. PICK bad : HandleProcessCreate(bad)
    BY <1>10
  <2> DEFINE u == OwnerOf[Head(tasks).pid]
  <2>2. readBack' = readBack
    BY <2>1 DEF HandleProcessCreate
  <2>3. \A v \in DOMAIN memcgs : v \in DOMAIN memcgs' /\ memcgs'[v] = memcgs[v]
    BY <2>1 DEF HandleProcessCreate, Put
  <2>4. \A v \in DOMAIN dirs : v \in DOMAIN dirs' /\ dirs'[v] = dirs[v]
    BY <2>1 DEF HandleProcessCreate, AddUser, Put
  <2> QED BY <1>1, <2>2, <2>3, <2>4 DEF Mirrored, MirrorsKernel
<1>11. CASE \E bad \in Outcomes({"score", "ratios", "readback"}) : HandleAccountPriorityChanged(bad)
  <2>1. PICK bad : HandleAccountPriorityChanged(bad)
    BY <1>11
  <2>2. PICK u : u = Head(tasks).account
    OBVIOUS
  <2>3. PICK score : score = GetValidScore(Head(tasks).priority)
    OBVIOUS
  <2>4. PICK ratios : ratios = Clamp100(RatiosByScore(score))
    OBVIOUS
  <2>5. CASE ~(Exists(u) /\ Covering(score) # {})
    BY <1>2, <2>1, <2>2, <2>3, <2>5 DEF HandleAccountPriorityChanged
  <2>6. CASE Exists(u) /\ Covering(score) # {}
    <3>1. /\ memcgs' = Put(memcgs, u, SetScoreAndReclaimRatiosToKernel(u, score, ratios, bad))
          /\ dirs' = Written(u, score, ratios, bad)
          /\ readBack' = IF CanReadBack(u, bad) THEN readBack \union {u} ELSE readBack \ {u}
      BY <2>1, <2>2, <2>3, <2>4, <2>6 DEF HandleAccountPriorityChanged
    <3>2. /\ DOMAIN dirs' = DOMAIN dirs
          /\ \A v \in DOMAIN dirs : v # u => dirs'[v] = dirs[v]
      BY <3>1 DEF Written
    <3>3. /\ DOMAIN memcgs' = DOMAIN memcgs \union {u}
          /\ \A v \in DOMAIN memcgs : v # u => memcgs'[v] = memcgs[v]
      BY <3>1 DEF Put
    <3>4. CanReadBack(u, bad) => u \in DOMAIN dirs' /\ memcgs'[u] = dirs'[u]
      BY <3>1, <3>2 DEF SetScoreAndReclaimRatiosToKernel, CanReadBack, Put
    <3>5. \A v \in readBack' : v # u => v \in readBack
      BY <3>1
    <3>6. \A v \in readBack' : v \in DOMAIN memcgs' /\ v \in DOMAIN dirs' /\ memcgs'[v] = dirs'[v]
      BY <1>1, <3>1, <3>2, <3>3, <3>4, <3>5
    <3> QED BY <3>6 DEF Mirrored, MirrorsKernel
  <2> QED BY <2>5, <2>6
<1>12. CASE \E bad \in Outcomes({"rmdir"}) : HandleAccountDied(bad)
  <2>1. PICK bad : HandleAccountDied(bad)
    BY <1>12
  <2>2. PICK u : u = Head(tasks).account
    OBVIOUS
  <2>3. CASE ~Exists(u)
    BY <1>2, <2>1, <2>2, <2>3 DEF HandleAccountDied
  <2>4. CASE Exists(u)
    <3>1. /\ memcgs' = [v \in DOMAIN memcgs \ {u} |-> memcgs[v]]
          /\ dirs' = dirs \/ dirs' = [d \in DOMAIN dirs \ {u} |-> dirs[d]]
          /\ readBack' = readBack \ {u}
      BY <2>1, <2>2, <2>4 DEF HandleAccountDied
    <3>2. \A v \in readBack' : v \in DOMAIN memcgs' /\ v \in DOMAIN dirs' /\ memcgs'[v] = dirs'[v]
      BY <1>1, <3>1
    <3> QED BY <3>2 DEF Mirrored, MirrorsKernel
  <2> QED BY <2>3, <2>4
<1> QED BY <1>4, <1>5, <1>6, <1>7, <1>8, <1>9, <1>10, <1>11, <1>12 DEF StrategyNext

\* Requests stay typed, and wait only once Init is done.
LEMMA ServedStep == StrategyInv /\ [StrategyNext]_strategyVars => Served'
<1> SUFFICES ASSUME StrategyInv, [StrategyNext]_strategyVars PROVE Served'
  OBVIOUS
<1>1. /\ tasks \in Seq(Tasks)
      /\ phase # "running" => tasks = <<>> /\ readBack = {} /\ DOMAIN applied = {}
  BY DEF StrategyInv, Served
<1>2. ASSUME UNCHANGED <<phase, readBack, applied>>, NEW t \in Tasks, Post(t) PROVE Served'
  <2>1. CASE phase = "running"
    BY <1>1, <1>2, <2>1 DEF Served, Post
  <2>2. CASE phase # "running"
    BY <1>1, <1>2, <2>2 DEF Served, Post
  <2> QED BY <2>1, <2>2
<1>3. ASSUME UNCHANGED phase, tasks # <<>>, tasks' = Tail(tasks) PROVE Served'
  <2>1. phase' = "running" /\ tasks' \in Seq(Tasks)
    BY <1>1, <1>3
  <2> QED BY <2>1 DEF Served
<1>4. CASE UNCHANGED strategyVars
  BY <1>1, <1>4 DEF strategyVars, Served
<1>5. CASE LoadConfig
  BY <1>1, <1>5 DEF LoadConfig, history, Served
<1>6. CASE \E bad \in Outcomes(InitSteps), zram \in BOOLEAN : Initialise(bad, zram)
  BY <1>1, <1>6 DEF Initialise, InitFailed, InitDone, history, Served
<1>7. CASE \E p \in Pid : NotifyProcessCreated(p) \/ RenderProcessStarted(p) \/ ProcessGone(p)
  <2>1. PICK p \in Pid : NotifyProcessCreated(p) \/ RenderProcessStarted(p) \/ ProcessGone(p)
    BY <1>7
  <2>2. CASE NotifyProcessCreated(p)
    <3>1. [kind |-> "create", pid |-> p] \in Tasks
      BY DEF Tasks
    <3> QED BY <1>2, <2>2, <3>1 DEF NotifyProcessCreated, Posting
  <2>3. CASE RenderProcessStarted(p) \/ ProcessGone(p)
    BY <1>1, <2>3 DEF RenderProcessStarted, ProcessGone, Served
  <2> QED BY <2>1, <2>2, <2>3
<1>8. CASE \E u \in Account, pr \in Priorities : NotifyAccountPriorityChanged(u, pr)
  <2>1. PICK u \in Account, pr \in Priorities : NotifyAccountPriorityChanged(u, pr)
    BY <1>8
  <2>2. [kind |-> "priority", account |-> u, priority |-> pr] \in Tasks
    BY DEF Tasks
  <2> QED BY <1>2, <2>1, <2>2 DEF NotifyAccountPriorityChanged, Posting
<1>9. CASE \E u \in Account : NotifyAccountDied(u)
  <2>1. PICK u \in Account : NotifyAccountDied(u)
    BY <1>9
  <2>2. [kind |-> "died", account |-> u] \in Tasks
    BY DEF Tasks
  <2> QED BY <1>2, <2>1, <2>2 DEF NotifyAccountDied, Posting
<1>10. CASE \E bad \in Outcomes({"mkdir", "proc"}) : HandleProcessCreate(bad)
  BY <1>3, <1>10 DEF HandleProcessCreate, Taking
<1>11. CASE \E bad \in Outcomes({"score", "ratios", "readback"}) : HandleAccountPriorityChanged(bad)
  BY <1>3, <1>11 DEF HandleAccountPriorityChanged, Taking
<1>12. CASE \E bad \in Outcomes({"rmdir"}) : HandleAccountDied(bad)
  BY <1>3, <1>12 DEF HandleAccountDied, Taking
<1> QED BY <1>4, <1>5, <1>6, <1>7, <1>8, <1>9, <1>10, <1>11, <1>12 DEF StrategyNext

\* The configuration is read once, before any account is updated, and has ranges in it.
LEMMA ConfigStep ==
  StrategyInv /\ [StrategyNext]_strategyVars =>
    config'.reclaim \in Seq(Ranges) /\ (DOMAIN applied # {} => UNCHANGED config)
<1> SUFFICES ASSUME StrategyInv, [StrategyNext]_strategyVars
             PROVE  config'.reclaim \in Seq(Ranges) /\ (DOMAIN applied # {} => UNCHANGED config)
  OBVIOUS
<1>1. config.reclaim \in Seq(Ranges) /\ (phase # "running" => DOMAIN applied = {})
  BY DEF StrategyInv, Served
<1>2. CASE LoadConfig
  <2>1. DOMAIN applied = {}
    BY <1>1, <1>2 DEF LoadConfig
  <2>2. CASE config' = DefaultConfig
    <3>1. config'.reclaim = <<[minScore |-> -1000, maxScore |-> 1000, ratios |-> <<60, 10, 50>>]>>
      BY <2>2 DEF DefaultConfig, DefaultReclaim, RECLAIM_PRIORITY_MIN, RECLAIM_PRIORITY_MAX,
                  MEMCG_MEM_2_ZRAM_RATIO, MEMCG_ZRAM_2_UFS_RATIO, MEMCG_REFAULT_THRESHOLD
    <3>2. [minScore |-> -1000, maxScore |-> 1000, ratios |-> <<60, 10, 50>>] \in Ranges
      BY DEF Ranges, PERCENT_100
    <3> QED BY <2>1, <3>1, <3>2
  <2>3. CASE \E doc \in Documents : config' = ReadParamFromXml(doc)
    <3>1. \A doc \in Documents : ReadParamFromXml(doc).reclaim \in Seq(Ranges)
      BY ReadParamRanges, StrategyAssumption
    <3> QED BY <2>1, <2>3, <3>1
  <2> QED BY <1>2, <2>2, <2>3 DEF LoadConfig
<1>3. CASE UNCHANGED config
  BY <1>1, <1>3
<1>4. LoadConfig \/ UNCHANGED config
  BY DEF StrategyNext, strategyVars, Initialise, InitFailed, InitDone, NotifyProcessCreated,
         RenderProcessStarted, ProcessGone,
         NotifyAccountPriorityChanged, NotifyAccountDied, Posting, HandleProcessCreate,
         HandleAccountPriorityChanged, HandleAccountDied
<1> QED BY <1>2, <1>3, <1>4

\* Accounts keep what their last priority asks for.
LEMMA AppliedStep == StrategyInv /\ [StrategyNext]_strategyVars => Applied'
<1> SUFFICES ASSUME StrategyInv, [StrategyNext]_strategyVars PROVE Applied'
  OBVIOUS
<1>1. /\ DOMAIN applied \subseteq DOMAIN dirs
      /\ \A u \in DOMAIN applied : Holds(applied[u], dirs[u], config.reclaim)
      /\ phase # "running" => DOMAIN applied = {}
  BY AppliedHolds DEF StrategyInv, Applied, Served
<1>2. config'.reclaim \in Seq(Ranges) /\ (DOMAIN applied # {} => config' = config)
  BY ConfigStep
<1>3. ASSUME /\ DOMAIN applied' \subseteq DOMAIN dirs'
             /\ \A u \in DOMAIN applied' : Holds(applied'[u], dirs'[u], config'.reclaim)
      PROVE  Applied'
  BY <1>3 DEF Applied, PriorityApplied, Holds, ScoreOf
<1>4. ASSUME applied' = applied, \A u \in DOMAIN dirs : u \in DOMAIN dirs' /\ dirs'[u] = dirs[u]
      PROVE  Applied'
  <2>1. DOMAIN applied' \subseteq DOMAIN dirs'
    BY <1>1, <1>4
  <2>2. \A u \in DOMAIN applied' : Holds(applied'[u], dirs'[u], config'.reclaim)
    BY <1>1, <1>2, <1>4
  <2> QED BY <1>3, <2>1, <2>2
<1>5. CASE UNCHANGED strategyVars
  BY <1>4, <1>5 DEF strategyVars
<1>6. CASE LoadConfig
  BY <1>4, <1>6 DEF LoadConfig, kernelVars, history
<1>7. CASE \E bad \in Outcomes(InitSteps), zram \in BOOLEAN : Initialise(bad, zram)
  <2>1. DOMAIN applied' = {}
    BY <1>1, <1>7 DEF Initialise, InitFailed, InitDone, history
  <2> QED BY <1>3, <2>1
<1>8. CASE \E p \in Pid : NotifyProcessCreated(p) \/ RenderProcessStarted(p) \/ ProcessGone(p)
  BY <1>4, <1>8 DEF NotifyProcessCreated, RenderProcessStarted, ProcessGone, Posting
<1>9. CASE \E u \in Account, pr \in Priorities : NotifyAccountPriorityChanged(u, pr)
  BY <1>4, <1>9 DEF NotifyAccountPriorityChanged, Posting, kernelVars
<1>10. CASE \E u \in Account : NotifyAccountDied(u)
  BY <1>4, <1>10 DEF NotifyAccountDied, Posting, kernelVars
<1>11. CASE \E bad \in Outcomes({"mkdir", "proc"}) : HandleProcessCreate(bad)
  <2>1. PICK bad : HandleProcessCreate(bad)
    BY <1>11
  <2>2. \A v \in DOMAIN dirs : v \in DOMAIN dirs' /\ dirs'[v] = dirs[v]
    BY <2>1 DEF HandleProcessCreate, AddUser, Put
  <2>3. applied' = applied
    BY <2>1 DEF HandleProcessCreate
  <2> QED BY <1>4, <2>2, <2>3
<1>12. CASE \E bad \in Outcomes({"score", "ratios", "readback"}) : HandleAccountPriorityChanged(bad)
  <2>1. PICK bad : HandleAccountPriorityChanged(bad)
    BY <1>12
  <2>2. PICK u : u = Head(tasks).account
    OBVIOUS
  <2>3. PICK priority : priority = Head(tasks).priority
    OBVIOUS
  <2>4. priority \in Int
    <3>1. Head(tasks) \in Tasks /\ Head(tasks).kind = "priority"
      BY <2>1 DEF HandleAccountPriorityChanged, Taking, StrategyInv, Served
    <3> QED BY <2>3, <3>1, StrategyAssumption DEF Tasks
  <2>5. PICK score : score = GetValidScore(priority)
    OBVIOUS
  <2>6. PICK ratios : ratios = Clamp100(RatiosByScore(score))
    OBVIOUS
  <2>7. /\ dirs' = IF Exists(u) /\ Covering(score) # {} THEN Written(u, score, ratios, bad) ELSE dirs
        /\ applied' = IF ~Exists(u) THEN applied
                      ELSE IF bad = {} /\ u \in DOMAIN dirs THEN Put(applied, u, priority)
                      ELSE [v \in DOMAIN applied \ {u} |-> applied[v]]
        /\ config' = config
    BY <2>1, <2>2, <2>3, <2>5, <2>6 DEF HandleAccountPriorityChanged
  <2>8. /\ DOMAIN dirs' = DOMAIN dirs
        /\ \A v \in DOMAIN dirs : v # u => dirs'[v] = dirs[v]
    BY <2>7 DEF Written
  <2>9. CASE ~Exists(u)
    BY <1>4, <2>7, <2>9
  <2>10. CASE Exists(u) /\ ~(bad = {} /\ u \in DOMAIN dirs)
    <3>1. applied' = [v \in DOMAIN applied \ {u} |-> applied[v]]
      BY <2>7, <2>10
    <3>2. \A v \in DOMAIN applied' : Holds(applied'[v], dirs'[v], config'.reclaim)
      BY <1>1, <2>7, <2>8, <3>1
    <3> QED BY <1>1, <1>3, <2>8, <3>1, <3>2
  <2>11. CASE Exists(u) /\ bad = {} /\ u \in DOMAIN dirs
    <3>1. applied' = Put(applied, u, priority)
      BY <2>7, <2>11
    <3>2. /\ DOMAIN applied' = DOMAIN applied \union {u} /\ applied'[u] = priority
          /\ \A v \in DOMAIN applied : v # u => applied'[v] = applied[v]
      BY <3>1 DEF Put
    <3>3. Holds(priority, dirs'[u], config.reclaim)
      <4>1. config.reclaim \in Seq(Ranges)
        BY DEF StrategyInv
      <4>2. CASE Covering(score) # {}
        <5>1. dirs'[u].score = score /\ dirs'[u].ratios = ratios
          BY <2>7, <2>11, <4>2 DEF Written
        <5> QED BY <2>4, <2>5, <2>6, <4>1, <4>2, <5>1, GivenHolds
      <4>3. CASE Covering(score) = {}
        BY <2>4, <2>5, <4>1, <4>3, UncoveredHolds
      <4> QED BY <4>2, <4>3
    <3>4. ASSUME NEW v \in DOMAIN applied' PROVE Holds(applied'[v], dirs'[v], config'.reclaim)
      <4>1. CASE v = u
        BY <2>7, <3>2, <3>3, <4>1
      <4>2. CASE v # u
        <5>1. v \in DOMAIN applied /\ v \in DOMAIN dirs
          BY <1>1, <3>2, <4>2
        <5> QED BY <1>1, <2>7, <2>8, <3>2, <4>2, <5>1
      <4> QED BY <4>1, <4>2
    <3>5. DOMAIN applied' \subseteq DOMAIN dirs'
      BY <1>1, <2>8, <2>11, <3>2
    <3> QED BY <1>3, <3>4, <3>5
  <2> QED BY <2>9, <2>10, <2>11
<1>13. CASE \E bad \in Outcomes({"rmdir"}) : HandleAccountDied(bad)
  <2>1. PICK bad : HandleAccountDied(bad)
    BY <1>13
  <2>2. PICK u : u = Head(tasks).account
    OBVIOUS
  <2>3. CASE ~Exists(u)
    BY <1>4, <2>1, <2>2, <2>3 DEF HandleAccountDied
  <2>4. CASE Exists(u)
    <3>1. /\ dirs' = dirs \/ dirs' = [d \in DOMAIN dirs \ {u} |-> dirs[d]]
          /\ applied' = [v \in DOMAIN applied \ {u} |-> applied[v]]
          /\ config' = config
      BY <2>1, <2>2, <2>4 DEF HandleAccountDied
    <3>2. DOMAIN applied' \subseteq DOMAIN dirs'
      BY <1>1, <3>1
    <3>3. \A v \in DOMAIN applied' : applied'[v] = applied[v] /\ dirs'[v] = dirs[v] /\ v \in DOMAIN applied
      BY <1>1, <3>1
    <3>4. \A v \in DOMAIN applied' : Holds(applied'[v], dirs'[v], config'.reclaim)
      BY <1>1, <3>1, <3>3
    <3> QED BY <1>3, <3>2, <3>4
  <2> QED BY <2>3, <2>4
<1> QED BY <1>5, <1>6, <1>7, <1>8, <1>9, <1>10, <1>11, <1>12, <1>13 DEF StrategyNext

\* A report about p waits to be handled.
Announced(p) == \E i \in DOMAIN tasks : tasks[i].kind = "create" /\ tasks[i].pid = p

\* Of the waiting reports a step takes the first at most.
LEMMA ReportsWait ==
  ASSUME tasks \in Seq(Tasks), tasks # <<>>, tasks' = Tail(tasks), NEW p, Announced(p),
         ~(Head(tasks).kind = "create" /\ Head(tasks).pid = p)
  PROVE  Announced(p)'
<1>1. PICK i \in DOMAIN tasks : tasks[i].kind = "create" /\ tasks[i].pid = p
  BY DEF Announced
<1>2. i \in 1 .. Len(tasks) /\ i # 1 /\ Len(tasks) \in Nat
  BY <1>1
<1>3. /\ Len(tasks') = Len(tasks) - 1 /\ tasks' \in Seq(Tasks)
      /\ \A j \in 1 .. Len(tasks') : tasks'[j] = tasks[j + 1]
  BY HeadTailProperties
<1>4. i - 1 \in 1 .. Len(tasks') /\ tasks'[i - 1] = tasks[i]
  BY <1>2, <1>3
<1>5. i - 1 \in DOMAIN tasks'
  BY <1>3, <1>4
<1> QED BY <1>1, <1>4, <1>5 DEF Announced

\* A request that is posted hides no report.
LEMMA ReportsStay ==
  ASSUME tasks \in Seq(Tasks), NEW t \in Tasks, Post(t), NEW p, Announced(p)
  PROVE  Announced(p)'
<1>1. PICK i \in DOMAIN tasks : tasks[i].kind = "create" /\ tasks[i].pid = p
  BY DEF Announced
<1>2. i \in DOMAIN tasks' /\ tasks'[i] = tasks[i]
  BY <1>1 DEF Post
<1> QED BY <1>1, <1>2 DEF Announced

\* Process p is in the memcg of its account, left out by a failed write, or reported.
FiledOrReported(p) == p \in missed \/ cgroup[p] = OwnerOf[p] \/ Announced(p)

\* Processes stay filed, or their reports stay.
LEMMA FiledStep == StrategyInv /\ [StrategyNext]_strategyVars => ProcsFiled'
<1> SUFFICES ASSUME StrategyInv, [StrategyNext]_strategyVars, phase' = "running",
                    NEW p \in DOMAIN cgroup'
             PROVE  FiledOrReported(p)'
  BY DEF ProcsFiled, FiledOrReported, Announced, Alive
<1>1. /\ tasks \in Seq(Tasks)
      /\ phase = "running" => \A q \in DOMAIN cgroup : FiledOrReported(q)
  BY DEF StrategyInv, Served, ProcsFiled, FiledOrReported, Announced, Alive
<1>2. ASSUME phase = "running", p \in DOMAIN cgroup, cgroup'[p] = cgroup[p], p \in missed => p \in missed',
             Announced(p) => Announced(p)'
      PROVE  FiledOrReported(p)'
  BY <1>1, <1>2 DEF FiledOrReported
<1>3. CASE UNCHANGED strategyVars
  BY <1>2, <1>3 DEF strategyVars, Announced
<1>4. CASE LoadConfig
  BY <1>4 DEF LoadConfig
<1>5. CASE \E bad \in Outcomes(InitSteps), zram \in BOOLEAN : Initialise(bad, zram)
  <2>1. PICK bad, zram : Initialise(bad, zram)
    BY <1>5
  <2>2. ~InitFailed(bad, zram)
    BY DEF InitFailed
  <2>3. PICK unread : InitDone(bad, unread, zram)
    BY <2>1, <2>2 DEF Initialise
  <2>4. PICK filed : filed = {q \in IF "scan" \in bad THEN {} ELSE Alive \ unread :
                               q \notin bad /\ OwnerOf[q] \notin bad}
    OBVIOUS
  <2>5. /\ cgroup' = [q \in Alive |-> IF q \in filed THEN OwnerOf[q] ELSE cgroup[q]]
        /\ missed' = Alive \ filed
    BY <2>3, <2>4 DEF InitDone
  <2>6. p \in Alive
    BY <2>5
  <2> QED BY <2>5, <2>6 DEF FiledOrReported
<1>6. CASE \E q \in Pid : NotifyProcessCreated(q)
  <2>1. PICK q \in Pid : NotifyProcessCreated(q)
    BY <1>6
  <2>2. /\ phase = "running" /\ Post([kind |-> "create", pid |-> q])
        /\ cgroup' = Put(cgroup, q, Root) /\ missed' = missed /\ q \notin DOMAIN cgroup
    BY <2>1 DEF NotifyProcessCreated, Posting, Alive
  <2>3. [kind |-> "create", pid |-> q] \in Tasks
    BY DEF Tasks
  <2>4. CASE p = q
    <3>1. tasks' = Append(tasks, [kind |-> "create", pid |-> q])
      BY <2>2 DEF Post
    <3>2. /\ Len(tasks) + 1 \in DOMAIN tasks'
          /\ tasks'[Len(tasks) + 1] = [kind |-> "create", pid |-> q]
      BY <1>1, <2>3, <3>1
    <3>3. Announced(p)'
      BY <2>4, <3>2 DEF Announced
    <3> QED BY <3>3 DEF FiledOrReported
  <2>5. CASE p # q
    <3>1. p \in DOMAIN cgroup /\ cgroup'[p] = cgroup[p]
      BY <2>2, <2>5 DEF Put
    <3>2. Announced(p) => Announced(p)'
      BY <1>1, <2>2, <2>3, ReportsStay
    <3> QED BY <1>2, <2>2, <3>1, <3>2
  <2> QED BY <2>4, <2>5
<1>7. CASE \E q \in Pid : ProcessGone(q)
  <2>1. PICK q \in Pid : ProcessGone(q)
    BY <1>7
  <2>2. /\ phase = "running" /\ tasks' = tasks
        /\ cgroup' = [r \in DOMAIN cgroup \ {q} |-> cgroup[r]] /\ missed' = missed \ {q}
    BY <2>1 DEF ProcessGone, Alive
  <2>3. p \in DOMAIN cgroup /\ p # q /\ cgroup'[p] = cgroup[p]
    BY <2>2
  <2>4. Announced(p) => Announced(p)'
    BY <2>2 DEF Announced
  <2> QED BY <1>2, <2>2, <2>3, <2>4
<1>8. CASE \E u \in Account, pr \in Priorities : NotifyAccountPriorityChanged(u, pr)
  <2>1. PICK u \in Account, pr \in Priorities : NotifyAccountPriorityChanged(u, pr)
    BY <1>8
  <2>2. [kind |-> "priority", account |-> u, priority |-> pr] \in Tasks
    BY DEF Tasks
  <2>3. /\ phase = "running" /\ cgroup' = cgroup /\ missed' = missed
        /\ Post([kind |-> "priority", account |-> u, priority |-> pr])
    BY <2>1 DEF NotifyAccountPriorityChanged, Posting, kernelVars
  <2>4. Announced(p) => Announced(p)'
    BY <1>1, <2>2, <2>3, ReportsStay
  <2> QED BY <1>2, <2>3, <2>4
<1>9. CASE \E u \in Account : NotifyAccountDied(u)
  <2>1. PICK u \in Account : NotifyAccountDied(u)
    BY <1>9
  <2>2. [kind |-> "died", account |-> u] \in Tasks
    BY DEF Tasks
  <2>3. /\ phase = "running" /\ cgroup' = cgroup /\ missed' = missed
        /\ Post([kind |-> "died", account |-> u])
    BY <2>1 DEF NotifyAccountDied, Posting, kernelVars
  <2>4. Announced(p) => Announced(p)'
    BY <1>1, <2>2, <2>3, ReportsStay
  <2> QED BY <1>2, <2>3, <2>4
<1>10. CASE \E bad \in Outcomes({"mkdir", "proc"}) : HandleProcessCreate(bad)
  <2>1. PICK bad : HandleProcessCreate(bad)
    BY <1>10
  <2>2. PICK q : q = Head(tasks).pid
    OBVIOUS
  <2>3. PICK ds : ds = IF OwnerOf[q] \in DOMAIN memcgs THEN dirs ELSE AddUser(OwnerOf[q], dirs, bad)
    OBVIOUS
  <2>4. /\ tasks # <<>> /\ Head(tasks).kind = "create" /\ tasks' = Tail(tasks)
        /\ phase = "running"
        /\ cgroup' = IF q \in Alive /\ OwnerOf[q] \in DOMAIN ds /\ "proc" \notin bad
                     THEN [cgroup EXCEPT ![q] = OwnerOf[q]] ELSE cgroup
        /\ missed' = IF q \in Alive /\ ("proc" \in bad \/ OwnerOf[q] \notin DOMAIN ds)
                     THEN missed \union {q} ELSE missed \ {q}
    BY <2>1, <2>2, <2>3 DEF HandleProcessCreate, Taking, Filed
  <2>5. p \in DOMAIN cgroup
    BY <2>4
  <2>6. CASE p = q
    <3>1. CASE OwnerOf[q] \in DOMAIN ds /\ "proc" \notin bad
      BY <2>4, <2>5, <2>6, <3>1 DEF FiledOrReported, Alive
    <3>2. CASE ~(OwnerOf[q] \in DOMAIN ds /\ "proc" \notin bad)
      BY <2>4, <2>5, <2>6, <3>2 DEF FiledOrReported, Alive
    <3> QED BY <3>1, <3>2
  <2>7. CASE p # q
    <3>1. cgroup'[p] = cgroup[p] /\ (p \in missed => p \in missed')
      BY <2>4, <2>5, <2>7
    <3>2. Announced(p) => Announced(p)'
      BY <1>1, <2>2, <2>4, <2>7, ReportsWait
    <3> QED BY <1>2, <2>4, <2>5, <3>1, <3>2
  <2> QED BY <2>6, <2>7
<1>11. ASSUME phase = "running", cgroup' = cgroup, missed' = missed,
              tasks # <<>>, tasks' = Tail(tasks), Head(tasks).kind # "create"
       PROVE  FiledOrReported(p)'
  <2>1. Announced(p) => Announced(p)'
    BY <1>1, <1>11, ReportsWait
  <2> QED BY <1>2, <1>11, <2>1
<1>12. CASE \E bad \in Outcomes({"score", "ratios", "readback"}) : HandleAccountPriorityChanged(bad)
  BY <1>11, <1>12 DEF HandleAccountPriorityChanged, Taking
<1>13. CASE \E bad \in Outcomes({"rmdir"}) : HandleAccountDied(bad)
  BY <1>11, <1>13 DEF HandleAccountDied, Taking
<1>14. CASE \E q \in Pid : RenderProcessStarted(q)
  <2>1. PICK q \in Pid : RenderProcessStarted(q)
    BY <1>14
  <2>2. /\ phase = "running" /\ tasks' = tasks
        /\ cgroup' = Put(cgroup, q, Root) /\ missed' = missed \union {q}
    BY <2>1 DEF RenderProcessStarted
  <2>3. CASE p = q
    BY <2>2, <2>3 DEF FiledOrReported
  <2>4. CASE p # q
    <3>1. p \in DOMAIN cgroup /\ cgroup'[p] = cgroup[p]
      BY <2>2, <2>4 DEF Put
    <3>2. Announced(p) => Announced(p)'
      BY <2>2 DEF Announced
    <3> QED BY <1>2, <2>2, <3>1, <3>2
  <2> QED BY <2>3, <2>4
<1> QED BY <1>3, <1>4, <1>5, <1>6, <1>7, <1>8, <1>9, <1>10, <1>12, <1>13, <1>14 DEF StrategyNext

\* The invariant of the memory cgroups holds throughout.
THEOREM StrategyInvariance == StrategySpec => []StrategyInv
<1>1. StrategyInv /\ [StrategyNext]_strategyVars => StrategyInv'
  BY MirroredStep, ServedStep, AppliedStep, FiledStep, ConfigStep DEF StrategyInv
<1> QED BY <1>1, StrategyStart, PTL DEF StrategySpec

\* After an update that was read back, the score and the ratios that Memcg keeps for an
\* account are the kernel's, whichever of the two writes failed.
THEOREM KernelMirrored == StrategySpec => []MirrorsKernel
<1>1. StrategyInv => MirrorsKernel
  BY DEF StrategyInv, Mirrored
<1> QED BY <1>1, StrategyInvariance, PTL

\* AddProcToMemcg leaves out no process that was there at the start or reported since: it is
\* in the memcg of its account, or its report waits, or a step of its own filing failed.
THEOREM ProcessesFiled == StrategySpec => []ProcsFiled
<1>1. StrategyInv => ProcsFiled
  BY DEF StrategyInv
<1> QED BY <1>1, StrategyInvariance, PTL

\* Whatever documents there are to read, the kernel holds for an account the score of its
\* last priority and the ratios of the lowest range that covers it.
THEOREM PrioritiesApplied == StrategySpec => []PriorityApplied
<1>1. StrategyInv => PriorityApplied
  BY DEF StrategyInv, Applied
<1> QED BY <1>1, StrategyInvariance, PTL

-----------------------------------------------------------------------------
(* The types of the memory cgroups.                                        *)

\* A score and ratios the kernel accepts.
Valid(m) == m.score \in 0 .. 1000 /\ m.ratios[1] <= 100 /\ m.ratios[2] <= 100

DirsTyped ==
  /\ Root \in DOMAIN dirs /\ DOMAIN dirs \subseteq Account \cup {Root}
  /\ \A d \in DOMAIN dirs : Valid(dirs[d])

MemcgsTyped ==
  /\ DOMAIN memcgs \subseteq Account
  /\ \A u \in DOMAIN memcgs : memcgs[u].score \in 0 .. 1000

\* No directory is removed while a process is in it.
ProcsTyped == Alive \subseteq Pid /\ \A p \in Alive : cgroup[p] \in DOMAIN dirs

BuffersTyped == kbuffers.min <= kbuffers.avail /\ kbuffers.avail <= kbuffers.high

StrategyTyped ==
  /\ phase \in {"boot", "loaded", "running", "failed"}
  /\ Len(tasks) <= MaxTasks
  /\ DirsTyped /\ MemcgsTyped /\ ProcsTyped /\ BuffersTyped
  /\ faults \in 0 .. MaxFaults

\* The failures of a step are counted.
LEMMA FaultsCounted ==
  ASSUME faults \in 0 .. MaxFaults, NEW steps, IsFiniteSet(steps), NEW bad \in Outcomes(steps),
         Failing(bad)
  PROVE  faults' \in 0 .. MaxFaults
<1>1. Cardinality(bad) \in Nat
  <2>1. bad \in SUBSET steps
    BY DEF Outcomes
  <2>2. IsFiniteSet(bad)
    BY <2>1, FS_Subset
  <2> QED BY <2>2, FS_CardinalityType
<1>2. MaxFaults \in Nat
  BY StrategyAssumption
<1> QED BY <1>1, <1>2 DEF Failing

\* The steps that can fail are finitely many.
LEMMA FewSteps ==
  /\ IsFiniteSet(InitSteps)
  /\ IsFiniteSet({"mkdir", "proc"})
  /\ IsFiniteSet({"score", "ratios", "readback"})
  /\ IsFiniteSet({"rmdir"})
<1>1. ASSUME NEW a, NEW b, NEW c, NEW d PROVE IsFiniteSet({a, b, c, d})
  <2>1. IsFiniteSet({d})
    BY FS_Singleton
  <2>2. IsFiniteSet({d} \cup {c})
    BY <2>1, FS_AddElement
  <2>3. IsFiniteSet(({d} \cup {c}) \cup {b})
    BY <2>2, FS_AddElement
  <2>4. IsFiniteSet((({d} \cup {c}) \cup {b}) \cup {a})
    BY <2>3, FS_AddElement
  <2>5. {a, b, c, d} = (({d} \cup {c}) \cup {b}) \cup {a}
    OBVIOUS
  <2> QED BY <2>4, <2>5
<1>2. {"mkdir", "proc"} = {"mkdir", "proc", "proc", "proc"} /\ {"rmdir"} = {"rmdir", "rmdir", "rmdir", "rmdir"}
      /\ {"score", "ratios", "readback"} = {"score", "ratios", "readback", "readback"}
  OBVIOUS
<1>3. IsFiniteSet(Pid) /\ IsFiniteSet(Account)
  BY StrategyAssumption
<1>4. IsFiniteSet(InitSteps)
  <2>1. IsFiniteSet({"meminfo", "buffers", "score", "ratios"})
    BY <1>1
  <2>2. IsFiniteSet({"meminfo", "buffers", "score", "ratios"} \union {"scan"})
    BY <2>1, FS_AddElement
  <2>3. IsFiniteSet(Pid \union Account)
    BY <1>3, FS_Union
  <2>4. InitSteps = ({"meminfo", "buffers", "score", "ratios"} \union {"scan"}) \union (Pid \union Account)
    BY DEF InitSteps
  <2> QED BY <2>2, <2>3, <2>4, FS_Union
<1> QED BY <1>1, <1>2, <1>4

\* The score of a request is written with percentages.
LEMMA RequestValid ==
  ASSUME config.reclaim \in Seq(Ranges), NEW priority \in Int,
         Covering(GetValidScore(priority)) # {}
  PROVE  /\ GetValidScore(priority) \in 0 .. 1000
         /\ Clamp100(RatiosByScore(GetValidScore(priority)))[1] <= 100
         /\ Clamp100(RatiosByScore(GetValidScore(priority)))[2] <= 100
<1>1. PICK score \in 0 .. 1000 : score = GetValidScore(priority)
  <2>1. GetValidScore(priority) \in 0 .. 1000
    <3>1. GetValidScore(priority) = ScoreOf(priority) /\ ScoreOf(priority) \in 0 .. 1000
      BY ValidScore
    <3> QED BY <3>1
  <2> QED BY <2>1
<1>2. score \in Int
  OBVIOUS
<1>3. PICK i \in Covering(score) : RatiosByScore(score) = config.reclaim[i].ratios
  BY <1>1, <1>2, FirstCovering
<1>4. config.reclaim[i] \in Ranges
  BY <1>3 DEF Covering
<1>5. PICK r \in (0 .. PERCENT_100) \X (0 .. PERCENT_100) \X Int : r = config.reclaim[i].ratios
  BY <1>4 DEF Ranges
<1>6. Clamp100(r) = r
  BY ClampSame
<1>7. r[1] <= 100 /\ r[2] <= 100
  <2>1. r[1] \in 0 .. PERCENT_100 /\ r[2] \in 0 .. PERCENT_100
    OBVIOUS
  <2>2. \A x \in 0 .. PERCENT_100 : x <= 100
    BY DEF PERCENT_100
  <2> QED BY <2>1, <2>2
<1> QED BY <1>1, <1>2, <1>3, <1>5, <1>6, <1>7

\* A new directory's settings and those of the root are valid.
LEMMA GivenValid ==
  Valid(NewDir) /\ Valid([score |-> APP_SCORE, ratios |-> <<40, 0, 0>>]) /\ NewMemcg.score \in 0 .. 1000
BY DEF Valid, NewDir, APP_SCORE, NewMemcg

\* Writing settings keeps the directories, and makes them valid ones.
LEMMA WrittenValid ==
  ASSUME DirsTyped, NEW d, NEW score, NEW ratios, NEW bad, score \in 0 .. 1000,
         ratios[1] <= 100, ratios[2] <= 100
  PROVE  /\ DOMAIN Written(d, score, ratios, bad) = DOMAIN dirs
         /\ \A e \in DOMAIN dirs : Valid(Written(d, score, ratios, bad)[e])
<1>1. CASE d \notin DOMAIN dirs \/ "score" \in bad
  BY <1>1 DEF Written, DirsTyped
<1>2. CASE d \in DOMAIN dirs /\ "score" \notin bad
  <2>1. PICK m : m = [score |-> score, ratios |-> IF "ratios" \in bad THEN dirs[d].ratios ELSE ratios]
    OBVIOUS
  <2>2. Written(d, score, ratios, bad) = [dirs EXCEPT ![d] = m]
    BY <1>2, <2>1 DEF Written
  <2>3. Valid(m)
    BY <1>2, <2>1 DEF DirsTyped, Valid
  <2> QED BY <1>2, <2>2, <2>3 DEF DirsTyped
<1> QED BY <1>1, <1>2

\* The buffers the kernel is given are in order.
LEMMA BuffersInOrder ==
  ASSUME BuffersTyped, NEW zram, NEW bad, InitAvailBuffer(zram, bad)
  PROVE  BuffersTyped'
BY DEF BuffersTyped, InitAvailBuffer, CheckAvailBuffer

\* They hold at the start.
LEMMA StrategyTypedStart == StrategyInit => StrategyTyped
<1> SUFFICES ASSUME StrategyInit PROVE StrategyTyped
  OBVIOUS
<1>1. DirsTyped /\ MemcgsTyped /\ BuffersTyped
  BY GivenValid DEF StrategyInit, DirsTyped, MemcgsTyped, BuffersTyped
<1>2. ProcsTyped
  BY DEF StrategyInit, ProcsTyped, Alive
<1>3. Len(tasks) = 0 /\ MaxTasks \in Nat /\ faults = MaxFaults /\ MaxFaults \in Nat
  BY StrategyAssumption DEF StrategyInit
<1>4. phase = "boot"
  BY DEF StrategyInit
<1> QED BY <1>1, <1>2, <1>3, <1>4 DEF StrategyTyped

\* One failure at a time: every step leaves a number of failures still to come.
LEMMA FaultsStep == StrategyTyped /\ [StrategyNext]_strategyVars => faults' \in 0 .. MaxFaults
<1> SUFFICES ASSUME StrategyTyped, [StrategyNext]_strategyVars PROVE faults' \in 0 .. MaxFaults
  OBVIOUS
<1>1. faults \in 0 .. MaxFaults
  BY DEF StrategyTyped
<1>2. \A bad \in Outcomes(InitSteps) : Failing(bad) => faults' \in 0 .. MaxFaults
  BY <1>1, FewSteps, FaultsCounted
<1>3. \A bad \in Outcomes({"mkdir", "proc"}) : Failing(bad) => faults' \in 0 .. MaxFaults
  BY <1>1, FewSteps, FaultsCounted
<1>4. \A bad \in Outcomes({"score", "ratios", "readback"}) : Failing(bad) => faults' \in 0 .. MaxFaults
  BY <1>1, FewSteps, FaultsCounted
<1>5. \A bad \in Outcomes({"rmdir"}) : Failing(bad) => faults' \in 0 .. MaxFaults
  BY <1>1, FewSteps, FaultsCounted
<1>6. CASE UNCHANGED strategyVars
  BY <1>1, <1>6 DEF strategyVars
<1>7. CASE LoadConfig
  BY <1>1, <1>7 DEF LoadConfig
<1>8. CASE \E bad \in Outcomes(InitSteps), zram \in BOOLEAN : Initialise(bad, zram)
  BY <1>2, <1>8 DEF Initialise, InitFailed, InitDone
<1>9. CASE \E p \in Pid : NotifyProcessCreated(p) \/ RenderProcessStarted(p) \/ ProcessGone(p)
  BY <1>1, <1>9 DEF NotifyProcessCreated, RenderProcessStarted, ProcessGone, Posting
<1>10. CASE \E u \in Account, pr \in Priorities : NotifyAccountPriorityChanged(u, pr)
  BY <1>1, <1>10 DEF NotifyAccountPriorityChanged, Posting
<1>11. CASE \E u \in Account : NotifyAccountDied(u)
  BY <1>1, <1>11 DEF NotifyAccountDied, Posting
<1>12. CASE \E bad \in Outcomes({"mkdir", "proc"}) : HandleProcessCreate(bad)
  BY <1>3, <1>12 DEF HandleProcessCreate
<1>13. CASE \E bad \in Outcomes({"score", "ratios", "readback"}) : HandleAccountPriorityChanged(bad)
  BY <1>4, <1>13 DEF HandleAccountPriorityChanged
<1>14. CASE \E bad \in Outcomes({"rmdir"}) : HandleAccountDied(bad)
  BY <1>5, <1>14 DEF HandleAccountDied
<1> QED BY <1>6, <1>7, <1>8, <1>9, <1>10, <1>11, <1>12, <1>13, <1>14 DEF StrategyNext

\* Init files every process in a directory that exists.
LEMMA InitTyped ==
  ASSUME StrategyInv, StrategyTyped, NEW bad, NEW zram, Initialise(bad, zram)
  PROVE  DirsTyped' /\ MemcgsTyped' /\ ProcsTyped' /\ BuffersTyped'
<1>1. DirsTyped /\ MemcgsTyped /\ ProcsTyped /\ BuffersTyped
  BY DEF StrategyTyped
<1>2. BuffersTyped'
  BY <1>1, BuffersInOrder DEF Initialise, InitFailed, InitDone
<1>3. CASE InitFailed(bad, zram)
  <2>1. /\ dirs' = Written(Root, APP_SCORE, <<40, 0, 0>>, bad)
        /\ memcgs' = memcgs /\ cgroup' = cgroup
    BY <1>3 DEF InitFailed
  <2>2. DOMAIN dirs' = DOMAIN dirs /\ \A d \in DOMAIN dirs : Valid(dirs'[d])
    <3>1. APP_SCORE \in 0 .. 1000 /\ <<40, 0, 0>>[1] <= 100 /\ <<40, 0, 0>>[2] <= 100
      BY DEF APP_SCORE
    <3> QED BY <1>1, <2>1, <3>1, WrittenValid
  <2>3. DirsTyped'
    BY <1>1, <2>2 DEF DirsTyped, Valid
  <2>4. ProcsTyped' /\ MemcgsTyped'
    BY <1>1, <2>1, <2>2 DEF ProcsTyped, MemcgsTyped, Alive
  <2> QED BY <1>2, <2>3, <2>4
<1>4. ASSUME NEW unread, InitDone(bad, unread, zram)
      PROVE  DirsTyped' /\ MemcgsTyped' /\ ProcsTyped' /\ BuffersTyped'
  <2>1. PICK seen : seen = IF "scan" \in bad THEN {} ELSE Alive \ unread
    OBVIOUS
  <2>2. PICK users : users = {OwnerOf[p] : p \in seen}
    OBVIOUS
  <2>3. PICK filed : filed = {p \in seen : p \notin bad /\ OwnerOf[p] \notin bad}
    OBVIOUS
  <2>4. /\ memcgs' = [u \in users |-> NewMemcg]
        /\ dirs' = [d \in DOMAIN dirs \union (users \ bad) |->
                      IF d = Root THEN [score |-> APP_SCORE, ratios |-> <<40, 0, 0>>]
                      ELSE IF d \in DOMAIN dirs THEN dirs[d] ELSE NewDir]
        /\ cgroup' = [p \in Alive |-> IF p \in filed THEN OwnerOf[p] ELSE cgroup[p]]
    BY <1>4, <2>1, <2>2, <2>3 DEF InitDone
  <2>5. users \subseteq Account
    BY <1>1, <2>1, <2>2, StrategyAssumption DEF ProcsTyped
  <2>6. DirsTyped'
    <3>1. \A d \in DOMAIN dirs' : Valid(dirs'[d])
      BY <1>1, <2>4, GivenValid DEF DirsTyped
    <3>2. Root \in DOMAIN dirs' /\ DOMAIN dirs' \subseteq Account \cup {Root}
      BY <1>1, <2>4, <2>5 DEF DirsTyped
    <3> QED BY <3>1, <3>2 DEF DirsTyped, Valid
  <2>7. MemcgsTyped'
    BY <2>4, <2>5, GivenValid DEF MemcgsTyped
  <2>8. ProcsTyped'
    <3>1. \A p \in filed : OwnerOf[p] \in users \ bad
      BY <2>2, <2>3
    <3>2. \A p \in DOMAIN cgroup' : cgroup'[p] \in DOMAIN dirs'
      BY <1>1, <2>4, <3>1 DEF ProcsTyped, Alive
    <3> QED BY <1>1, <2>4, <3>2 DEF ProcsTyped, Alive
  <2> QED BY <1>2, <2>6, <2>7, <2>8
<1> QED BY <1>3, <1>4 DEF Initialise

\* A report files its process in the directory of its account, if that is there.
LEMMA CreateTyped ==
  ASSUME StrategyInv, StrategyTyped, NEW bad, HandleProcessCreate(bad)
  PROVE  DirsTyped' /\ MemcgsTyped' /\ ProcsTyped' /\ BuffersTyped'
<1>1. DirsTyped /\ MemcgsTyped /\ ProcsTyped /\ BuffersTyped
  BY DEF StrategyTyped
<1>2. PICK p : p = Head(tasks).pid
  OBVIOUS
<1>3. PICK u : u = OwnerOf[p]
  OBVIOUS
<1>4. u \in Account
  <2>1. Head(tasks) \in Tasks /\ Head(tasks).kind = "create"
    BY DEF HandleProcessCreate, Taking, StrategyInv, Served
  <2>2. p \in Pid
    BY <1>2, <2>1 DEF Tasks
  <2> QED BY <1>3, <2>2, StrategyAssumption
<1>5. /\ memcgs' = IF u \in DOMAIN memcgs THEN memcgs ELSE Put(memcgs, u, NewMemcg)
      /\ dirs' = IF u \in DOMAIN memcgs THEN dirs ELSE AddUser(u, dirs, bad)
      /\ cgroup' = IF Filed(p, u, dirs', bad) THEN [cgroup EXCEPT ![p] = u] ELSE cgroup
      /\ kbuffers' = kbuffers
  BY <1>2, <1>3 DEF HandleProcessCreate
<1>6. dirs' = dirs \/ dirs' = Put(dirs, u, NewDir)
  BY <1>5 DEF AddUser
<1>7. DirsTyped'
  <2>1. CASE dirs' = dirs
    BY <1>1, <2>1 DEF DirsTyped, Valid
  <2>2. CASE dirs' = Put(dirs, u, NewDir)
    <3>1. /\ DOMAIN dirs' = DOMAIN dirs \cup {u}
          /\ \A d \in DOMAIN dirs' : dirs'[d] = IF d = u THEN NewDir ELSE dirs[d]
      BY <2>2 DEF Put
    <3>2. \A d \in DOMAIN dirs' : Valid(dirs'[d])
      BY <1>1, <3>1, GivenValid DEF DirsTyped
    <3>3. Root \in DOMAIN dirs' /\ DOMAIN dirs' \subseteq Account \cup {Root}
      BY <1>1, <1>4, <3>1 DEF DirsTyped
    <3> QED BY <3>2, <3>3 DEF DirsTyped, Valid
  <2> QED BY <1>6, <2>1, <2>2
<1>8. MemcgsTyped'
  <2>1. CASE u \in DOMAIN memcgs
    BY <1>1, <1>5, <2>1 DEF MemcgsTyped
  <2>2. CASE u \notin DOMAIN memcgs
    <3>1. memcgs' = Put(memcgs, u, NewMemcg)
      BY <1>5, <2>2
    <3>2. DOMAIN memcgs' = DOMAIN memcgs \cup {u} /\ memcgs'[u] = NewMemcg
      BY <3>1 DEF Put
    <3>3. \A v \in DOMAIN memcgs : memcgs'[v] = memcgs[v]
      BY <2>2, <3>1 DEF Put
    <3>4. \A v \in DOMAIN memcgs' : memcgs'[v].score \in 0 .. 1000
      BY <1>1, <3>2, <3>3, GivenValid DEF MemcgsTyped
    <3> QED BY <1>1, <1>4, <3>2, <3>4 DEF MemcgsTyped
  <2> QED BY <2>1, <2>2
<1>9. ProcsTyped'
  <2>1. DOMAIN dirs \subseteq DOMAIN dirs'
    BY <1>6 DEF Put
  <2>2. Filed(p, u, dirs', bad) => u \in DOMAIN dirs'
    BY DEF Filed
  <2> QED BY <1>1, <1>5, <2>1, <2>2 DEF ProcsTyped, Alive
<1>10. BuffersTyped'
  BY <1>1, <1>5 DEF BuffersTyped
<1> QED BY <1>7, <1>8, <1>9, <1>10

\* A priority becomes a score and percentages, and what is read back is no different.
LEMMA PriorityTyped ==
  ASSUME StrategyInv, StrategyTyped, NEW bad, HandleAccountPriorityChanged(bad)
  PROVE  DirsTyped' /\ MemcgsTyped' /\ ProcsTyped' /\ BuffersTyped'
<1>1. DirsTyped /\ MemcgsTyped /\ ProcsTyped /\ BuffersTyped
  BY DEF StrategyTyped
<1>2. PICK u : u = Head(tasks).account
  OBVIOUS
<1>3. Head(tasks).priority \in Int
  <2>1. Head(tasks) \in Tasks /\ Head(tasks).kind = "priority"
    BY DEF HandleAccountPriorityChanged, Taking, StrategyInv, Served
  <2> QED BY <2>1, StrategyAssumption DEF Tasks
<1>4. PICK priority \in Int : priority = Head(tasks).priority
  BY <1>3
<1>5. PICK score : score = GetValidScore(priority)
  OBVIOUS
<1>6. PICK ratios : ratios = Clamp100(RatiosByScore(score))
  OBVIOUS
<1>7. cgroup' = cgroup /\ kbuffers' = kbuffers
  BY DEF HandleAccountPriorityChanged
<1>8. BuffersTyped'
  BY <1>1, <1>7 DEF BuffersTyped
<1>9. CASE ~(Exists(u) /\ Covering(score) # {})
  <2>1. memcgs' = memcgs /\ dirs' = dirs
    BY <1>2, <1>4, <1>5, <1>9 DEF HandleAccountPriorityChanged
  <2> QED BY <1>1, <1>7, <1>8, <2>1 DEF DirsTyped, MemcgsTyped, ProcsTyped, Valid, Alive
<1>10. CASE Exists(u) /\ Covering(score) # {}
  <2>1. /\ memcgs' = Put(memcgs, u, SetScoreAndReclaimRatiosToKernel(u, score, ratios, bad))
        /\ dirs' = Written(u, score, ratios, bad)
    BY <1>2, <1>4, <1>5, <1>6, <1>10 DEF HandleAccountPriorityChanged
  <2>2. score \in 0 .. 1000 /\ ratios[1] <= 100 /\ ratios[2] <= 100
    <3>1. config.reclaim \in Seq(Ranges)
      BY DEF StrategyInv
    <3>2. Covering(GetValidScore(priority)) # {}
      BY <1>5, <1>10
    <3>3. /\ GetValidScore(priority) \in 0 .. 1000
          /\ Clamp100(RatiosByScore(GetValidScore(priority)))[1] <= 100
          /\ Clamp100(RatiosByScore(GetValidScore(priority)))[2] <= 100
      BY <3>1, <3>2, RequestValid
    <3> QED BY <1>5, <1>6, <3>3
  <2>3. DOMAIN dirs' = DOMAIN dirs /\ \A d \in DOMAIN dirs : Valid(dirs'[d])
    BY <1>1, <2>1, <2>2, WrittenValid
  <2>4. DirsTyped'
    BY <1>1, <2>3 DEF DirsTyped, Valid
  <2>5. ProcsTyped'
    BY <1>1, <1>7, <2>3 DEF ProcsTyped, Alive
  <2>6. SetScoreAndReclaimRatiosToKernel(u, score, ratios, bad).score \in 0 .. 1000
    <3>1. CASE CanReadBack(u, bad)
      <4>1. u \in DOMAIN dirs
        BY <3>1 DEF CanReadBack
      <4>2. SetScoreAndReclaimRatiosToKernel(u, score, ratios, bad) = dirs'[u]
        BY <2>1, <3>1 DEF SetScoreAndReclaimRatiosToKernel
      <4> QED BY <2>3, <4>1, <4>2 DEF Valid
    <3>2. CASE ~CanReadBack(u, bad)
      BY <2>2, <3>2 DEF SetScoreAndReclaimRatiosToKernel
    <3> QED BY <3>1, <3>2
  <2>7. MemcgsTyped'
    <3>1. PICK m : m = SetScoreAndReclaimRatiosToKernel(u, score, ratios, bad)
      OBVIOUS
    <3>2. memcgs' = Put(memcgs, u, m) /\ m.score \in 0 .. 1000
      BY <2>1, <2>6, <3>1
    <3>3. DOMAIN memcgs' = DOMAIN memcgs \cup {u}
      BY <3>2 DEF Put
    <3>4. \A v \in DOMAIN memcgs' : memcgs'[v] = IF v = u THEN m ELSE memcgs[v]
      BY <3>2 DEF Put
    <3>5. \A v \in DOMAIN memcgs' : memcgs'[v].score \in 0 .. 1000
      BY <1>1, <3>2, <3>3, <3>4 DEF MemcgsTyped
    <3>6. DOMAIN memcgs' \subseteq Account
      BY <1>1, <1>10, <3>3 DEF MemcgsTyped, Exists
    <3> QED BY <3>5, <3>6 DEF MemcgsTyped
  <2> QED BY <1>8, <2>4, <2>5, <2>7
<1> QED BY <1>9, <1>10

\* Only a directory without processes goes, and never the root's.
LEMMA DiedTyped ==
  ASSUME StrategyInv, StrategyTyped, NEW bad, HandleAccountDied(bad)
  PROVE  DirsTyped' /\ MemcgsTyped' /\ ProcsTyped' /\ BuffersTyped'
<1>1. DirsTyped /\ MemcgsTyped /\ ProcsTyped /\ BuffersTyped
  BY DEF StrategyTyped
<1>2. PICK u : u = Head(tasks).account
  OBVIOUS
<1>3. u # Root
  <2>1. Head(tasks) \in Tasks /\ Head(tasks).kind = "died"
    BY DEF HandleAccountDied, Taking, StrategyInv, Served
  <2>2. u \in Account
    BY <1>2, <2>1 DEF Tasks
  <2> QED BY <2>2, RootAssumption
<1>4. /\ memcgs' = memcgs \/ memcgs' = [v \in DOMAIN memcgs \ {u} |-> memcgs[v]]
      /\ \/ dirs' = dirs
         \/ /\ dirs' = [d \in DOMAIN dirs \ {u} |-> dirs[d]]
            /\ ~\E p \in Alive : cgroup[p] = u
      /\ cgroup' = cgroup /\ kbuffers' = kbuffers
  BY <1>2 DEF HandleAccountDied
<1>5. DirsTyped'
  BY <1>1, <1>3, <1>4 DEF DirsTyped, Valid
<1>6. MemcgsTyped'
  BY <1>1, <1>4 DEF MemcgsTyped
<1>7. ProcsTyped'
  BY <1>1, <1>4 DEF ProcsTyped, Alive
<1>8. BuffersTyped'
  BY <1>1, <1>4 DEF BuffersTyped
<1> QED BY <1>5, <1>6, <1>7, <1>8

\* Every step leaves the kernel's side typed.
LEMMA KernelTypedStep ==
  StrategyInv /\ StrategyTyped /\ [StrategyNext]_strategyVars =>
    DirsTyped' /\ MemcgsTyped' /\ ProcsTyped' /\ BuffersTyped'
<1> SUFFICES ASSUME StrategyInv, StrategyTyped, [StrategyNext]_strategyVars
             PROVE  DirsTyped' /\ MemcgsTyped' /\ ProcsTyped' /\ BuffersTyped'
  OBVIOUS
<1>1. DirsTyped /\ MemcgsTyped /\ ProcsTyped /\ BuffersTyped
  BY DEF StrategyTyped
<1>2. ASSUME UNCHANGED <<memcgs, dirs, kbuffers>>
      PROVE  DirsTyped' /\ MemcgsTyped' /\ BuffersTyped'
  BY <1>1, <1>2 DEF DirsTyped, MemcgsTyped, BuffersTyped, Valid
<1>3. ASSUME UNCHANGED <<cgroup, dirs>> PROVE ProcsTyped'
  BY <1>1, <1>3 DEF ProcsTyped, Alive
<1>4. CASE UNCHANGED strategyVars
  BY <1>2, <1>3, <1>4 DEF strategyVars
<1>5. CASE LoadConfig
  BY <1>2, <1>3, <1>5 DEF LoadConfig, kernelVars
<1>6. CASE \E bad \in Outcomes(InitSteps), zram \in BOOLEAN : Initialise(bad, zram)
  BY <1>6, InitTyped
<1>7. CASE \E p \in Pid : NotifyProcessCreated(p) \/ RenderProcessStarted(p) \/ ProcessGone(p)
  <2>1. PICK p \in Pid : NotifyProcessCreated(p) \/ RenderProcessStarted(p) \/ ProcessGone(p)
    BY <1>7
  <2>2. UNCHANGED <<memcgs, dirs, kbuffers>>
    BY <2>1 DEF NotifyProcessCreated, RenderProcessStarted, ProcessGone, Posting
  <2>3. cgroup' = Put(cgroup, p, Root) \/ cgroup' = [q \in Alive \ {p} |-> cgroup[q]]
    BY <2>1 DEF NotifyProcessCreated, RenderProcessStarted, ProcessGone
  <2>4. Root \in DOMAIN dirs
    BY <1>1 DEF DirsTyped
  <2>5. ProcsTyped'
    <3>1. CASE cgroup' = Put(cgroup, p, Root)
      <4>1. /\ DOMAIN cgroup' = DOMAIN cgroup \cup {p}
            /\ \A q \in DOMAIN cgroup' : cgroup'[q] = IF q = p THEN Root ELSE cgroup[q]
        BY <3>1 DEF Put
      <4> QED BY <1>1, <2>2, <2>4, <4>1 DEF ProcsTyped, Alive
    <3>2. CASE cgroup' = [q \in Alive \ {p} |-> cgroup[q]]
      BY <1>1, <2>2, <3>2 DEF ProcsTyped, Alive
    <3> QED BY <2>3, <3>1, <3>2
  <2> QED BY <1>2, <2>2, <2>5
<1>8. CASE \E u \in Account, pr \in Priorities : NotifyAccountPriorityChanged(u, pr)
  BY <1>2, <1>3, <1>8 DEF NotifyAccountPriorityChanged, Posting, kernelVars
<1>9. CASE \E u \in Account : NotifyAccountDied(u)
  BY <1>2, <1>3, <1>9 DEF NotifyAccountDied, Posting, kernelVars
<1>10. CASE \E bad \in Outcomes({"mkdir", "proc"}) : HandleProcessCreate(bad)
  BY <1>10, CreateTyped
<1>11. CASE \E bad \in Outcomes({"score", "ratios", "readback"}) : HandleAccountPriorityChanged(bad)
  BY <1>11, PriorityTyped
<1>12. CASE \E bad \in Outcomes({"rmdir"}) : HandleAccountDied(bad)
  BY <1>12, DiedTyped
<1> QED BY <1>4, <1>5, <1>6, <1>7, <1>8, <1>9, <1>10, <1>11, <1>12 DEF StrategyNext

\* The queue and the phase stay typed.
LEMMA QueueTypedStep ==
  StrategyInv /\ StrategyTyped /\ [StrategyNext]_strategyVars =>
    phase' \in {"boot", "loaded", "running", "failed"} /\ Len(tasks') <= MaxTasks
<1> SUFFICES ASSUME StrategyInv, StrategyTyped, [StrategyNext]_strategyVars
             PROVE  phase' \in {"boot", "loaded", "running", "failed"} /\ Len(tasks') <= MaxTasks
  OBVIOUS
<1>1. /\ phase \in {"boot", "loaded", "running", "failed"}
      /\ tasks \in Seq(Tasks) /\ Len(tasks) <= MaxTasks /\ MaxTasks \in Nat
  BY StrategyAssumption DEF StrategyTyped, StrategyInv, Served
<1>2. ASSUME UNCHANGED phase, NEW t, Posting, Post(t)
      PROVE  phase' \in {"boot", "loaded", "running", "failed"} /\ Len(tasks') <= MaxTasks
  <2>1. Len(tasks) < MaxTasks /\ (tasks' = tasks \/ tasks' = Append(tasks, t))
    BY <1>2 DEF Posting, Post
  <2>2. Len(Append(tasks, t)) = Len(tasks) + 1 /\ Len(tasks) \in Nat
    BY <1>1
  <2> QED BY <1>1, <1>2, <2>1, <2>2
<1>3. ASSUME UNCHANGED phase, tasks # <<>>, tasks' = Tail(tasks)
      PROVE  phase' \in {"boot", "loaded", "running", "failed"} /\ Len(tasks') <= MaxTasks
  <2>1. Len(tasks') = Len(tasks) - 1 /\ Len(tasks) \in Nat
    BY <1>1, <1>3
  <2> QED BY <1>1, <1>3, <2>1
<1>4. CASE UNCHANGED strategyVars
  BY <1>1, <1>4 DEF strategyVars
<1>5. CASE LoadConfig
  BY <1>1, <1>5 DEF LoadConfig
<1>6. CASE \E bad \in Outcomes(InitSteps), zram \in BOOLEAN : Initialise(bad, zram)
  BY <1>1, <1>6 DEF Initialise, InitFailed, InitDone
<1>7. CASE \E p \in Pid : NotifyProcessCreated(p) \/ RenderProcessStarted(p) \/ ProcessGone(p)
  <2>1. PICK p \in Pid : NotifyProcessCreated(p) \/ RenderProcessStarted(p) \/ ProcessGone(p)
    BY <1>7
  <2>2. CASE NotifyProcessCreated(p)
    <3>1. UNCHANGED phase /\ Posting /\ Post([kind |-> "create", pid |-> p])
      BY <2>2 DEF NotifyProcessCreated, Posting
    <3> QED BY <1>2, <3>1
  <2>3. CASE RenderProcessStarted(p) \/ ProcessGone(p)
    BY <1>1, <2>3 DEF RenderProcessStarted, ProcessGone
  <2> QED BY <2>1, <2>2, <2>3
<1>8. CASE \E u \in Account, pr \in Priorities : NotifyAccountPriorityChanged(u, pr)
  <2>1. PICK t : UNCHANGED phase /\ Posting /\ Post(t)
    BY <1>8 DEF NotifyAccountPriorityChanged, Posting
  <2> QED BY <1>2, <2>1
<1>9. CASE \E u \in Account : NotifyAccountDied(u)
  <2>1. PICK t : UNCHANGED phase /\ Posting /\ Post(t)
    BY <1>9 DEF NotifyAccountDied, Posting
  <2> QED BY <1>2, <2>1
<1>10. CASE \E bad \in Outcomes({"mkdir", "proc"}) : HandleProcessCreate(bad)
  BY <1>3, <1>10 DEF HandleProcessCreate, Taking
<1>11. CASE \E bad \in Outcomes({"score", "ratios", "readback"}) : HandleAccountPriorityChanged(bad)
  BY <1>3, <1>11 DEF HandleAccountPriorityChanged, Taking
<1>12. CASE \E bad \in Outcomes({"rmdir"}) : HandleAccountDied(bad)
  BY <1>3, <1>12 DEF HandleAccountDied, Taking
<1> QED BY <1>4, <1>5, <1>6, <1>7, <1>8, <1>9, <1>10, <1>11, <1>12 DEF StrategyNext

\* The type invariant of the memory cgroups: scores and percentages stay in range, the buffers
\* are in order, and RemoveUserMemcg takes no directory away from under a process.
THEOREM StrategyTypes == StrategySpec => []StrategyTypeOK
<1>1. StrategyInit => StrategyTyped
  BY StrategyTypedStart
<1>2. StrategyInv /\ StrategyTyped /\ [StrategyNext]_strategyVars => StrategyTyped'
  BY FaultsStep, KernelTypedStep, QueueTypedStep DEF StrategyTyped
<1>3. StrategyTyped => StrategyTypeOK
  BY DEF StrategyTyped, StrategyTypeOK, DirsTyped, MemcgsTyped, ProcsTyped, BuffersTyped, Valid,
         RECLAIM_SCORE_MIN, RECLAIM_SCORE_MAX, PERCENT_100
<1> QED BY <1>1, <1>2, <1>3, StrategyInvariance, PTL DEF StrategySpec
=============================================================================
