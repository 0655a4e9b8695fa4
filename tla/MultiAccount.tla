---------------------------- MODULE MultiAccount ----------------------------
(***************************************************************************)
(* The MultiAccountManager: what a switch of os accounts does to the       *)
(* priorities.  The account service activates accounts and reports it; the *)
(* report is handled later, on the thread of the priority manager, against *)
(* the active accounts of that moment.  A hot switch goes through the      *)
(* bundles without totalBundlePrioSetLock_: an ability start, which IPC    *)
(* threads handle under the lock, may fall between any two of its steps.   *)
(* That it also leaves totalBundlePrioSet_ out of order is not modelled.   *)
(***************************************************************************)
EXTENDS Accounts, PriorityScale, Sequences, FiniteSetsExt

CONSTANTS
  Uid,            \* bundle uids
  AccountOf,      \* [Uid -> Account]
  UidOf,          \* [Pid -> Uid]
  Levels,         \* the priorities the status handlers give processes
  SystemUids,     \* killable system bundles: the status handlers skip them
  QueryMayFail,   \* may a query to the account service fail?
  MaxRetry,       \* MAX_RETRY_TIMES
  MaxSwitches     \* bound: account switches in a behaviour

RECLAIM_PRIORITY_KILLABLE_SYSTEM == -800
RECLAIM_PRIORITY_FOREGROUND == 0
HIGH_PRIORITY == -50
LOW_PRIORITY == 50

ASSUME AccountAssumption ==
  /\ AccountOf \in [Uid -> Account]
  /\ UidOf \in [Pid -> Uid]
  /\ IsFiniteSet(Pid)
  /\ \A u \in Uid : \E p \in Pid : UidOf[p] = u
  /\ Levels \subseteq RECLAIM_PRIORITY_FOREGROUND .. RECLAIM_PRIORITY_MAX
  /\ SystemUids \subseteq Uid
  /\ QueryMayFail \in BOOLEAN
  /\ MaxRetry \in Nat \ {0}
  /\ MaxSwitches \in Nat

VARIABLES
  active,       \* account service: the active accounts
  switches,     \* account service: switches so far
  reports,      \* the OnAccountsChanged reports posted and not handled yet, in order
  initialized,  \* initialized_
  retryTimes,   \* retryTimes_; Init is pending while it is below MaxRetry
  oldActive,    \* oldActiveAccountIds_
  accPrio,      \* accountMap_: priority of each account in its domain
  alive,        \* kernel: the processes that live
  prio,         \* priority_ of each process
  bprio,        \* priority_ of each bundle
  visits,       \* hot switch: how often it has still to visit each bundle
  stage,        \* hot switch: what it does next with the bundle in hand, "idle" without one
  hand,         \* hot switch: the bundle in hand, as a set
  oldPriority,  \* hot switch: the priority the bundle in hand had
  delta,        \* hot switch: by how much the processes in left are to be moved
  left,         \* hot switch: the processes of the bundle in hand not moved yet
  failed,       \* history: has a query failed after the accounts were read?
  overtaken     \* history: bundles that an ability start reached while they were in hand

accountVars == <<active, switches, reports, initialized, retryTimes, oldActive, accPrio, alive, failed>>
priorityVars == <<prio, bprio, overtaken>>
switchVars == <<visits, stage, hand, oldPriority, delta, left>>
vars == <<accountVars, priorityVars, switchVars>>

ProcsOf(u) == {p \in Pid : UidOf[p] = u}

TypeOK ==
  /\ active \in SUBSET Account
  /\ switches \in 0 .. MaxSwitches
  /\ Len(reports) <= switches
  /\ initialized \in BOOLEAN
  /\ retryTimes \in 0 .. MaxRetry
  /\ oldActive \in SUBSET Account
  /\ DOMAIN accPrio \subseteq Account
  /\ \A a \in DOMAIN accPrio : accPrio[a] \in {HIGH_PRIORITY, LOW_PRIORITY}
  /\ alive \in SUBSET Pid
  /\ prio \in [Pid -> Int]
  /\ bprio \in [Uid -> RECLAIM_PRIORITY_MIN .. RECLAIM_PRIORITY_MAX]
  /\ visits \in [Uid -> 0 .. 2]
  /\ stage \in {"idle", "write", "delta", "increase"}
  /\ hand \in SUBSET Uid
  /\ oldPriority \in RECLAIM_PRIORITY_MIN .. RECLAIM_PRIORITY_MAX
  /\ delta \in Int
  /\ left \in SUBSET Pid
  /\ failed \in BOOLEAN
  /\ overtaken \in SUBSET Uid

\* One account is active, and every bundle runs with some priority of its own.
Init ==
  /\ \E a \in Account : active = {a}
  /\ switches = 0
  /\ reports = <<>>
  /\ initialized = FALSE
  /\ retryTimes = 0
  /\ oldActive = {}
  /\ accPrio = [a \in {} |-> LOW_PRIORITY]
  /\ alive = Pid
  /\ \E l \in Levels :
       prio = [p \in Pid |-> IF UidOf[p] \in SystemUids THEN RECLAIM_PRIORITY_KILLABLE_SYSTEM
                             ELSE l]
  /\ bprio = [u \in Uid |-> Min({prio[p] : p \in ProcsOf(u)})]
  /\ visits = [u \in Uid |-> 0]
  /\ stage = "idle"
  /\ hand = {}
  /\ oldPriority = RECLAIM_PRIORITY_MAX
  /\ delta = 0
  /\ left = {}
  /\ failed = FALSE
  /\ overtaken = {}

-----------------------------------------------------------------------------
(* The account service.                                                    *)

\* Another account takes over and is reported.
Switch(a) ==
  /\ a \notin active
  /\ switches < MaxSwitches
  /\ switches' = switches + 1
  /\ active' = {a}
  /\ reports' = Append(reports, a)
  /\ UNCHANGED <<initialized, retryTimes, oldActive, accPrio, alive, failed, priorityVars, switchVars>>

-----------------------------------------------------------------------------
(* MultiAccountManager.                                                    *)

\* DefaultMultiAccountStrategy::SetAccountPriority.
AccountPriority(a) == IF a \in active THEN HIGH_PRIORITY ELSE LOW_PRIORITY

(***************************************************************************)
(* UpdateAccountPriorityInfo sets the priority of the accounts in ids, up  *)
(* to the first one whose query fails.  done is what it got through.       *)
(***************************************************************************)
UpdateAccountPriorityInfo(done) ==
  accPrio' = [a \in DOMAIN accPrio \cup done |->
                IF a \in done THEN AccountPriority(a) ELSE accPrio[a]]

\* What may have been done when a query failed: ids in any order, then id.
Partial(ids) == IF QueryMayFail THEN SUBSET ids ELSE {}

\* Init, retried every 3 s up to MaxRetry times.
InitManager ==
  /\ ~initialized
  /\ retryTimes < MaxRetry
  /\ retryTimes' = retryTimes + 1
  /\ \/ /\ QueryMayFail  \* QueryActiveOsAccountIds fails
        /\ oldActive' = {}
        /\ UNCHANGED <<initialized, accPrio, failed>>
     \/ /\ oldActive' = active
        /\ \E done \in Partial(active) \ {active} : UpdateAccountPriorityInfo(done)
        /\ failed' = TRUE
        /\ UNCHANGED initialized
     \/ /\ oldActive' = active
        /\ UpdateAccountPriorityInfo(active)
        /\ initialized' = TRUE
        /\ UNCHANGED failed
  /\ UNCHANGED <<active, switches, reports, alive, priorityVars, switchVars>>

\* Mutant: the active accounts are not remembered for the next switch.
RememberedNever == oldActive

\* oldActiveAccountIds_ = newActiveAccountIds
Remembered == active

\* HandleAccountHotSwitch visits the bundles of the accounts that were left and of the
\* account that was reported; those of an account that is both, twice.  The order between
\* bundles is left open.
HandleAccountHotSwitch(switched, id) ==
  /\ visits' = [u \in Uid |-> Cardinality({i \in {1, 2} :
                                 IF i = 1 THEN AccountOf[u] \in switched ELSE AccountOf[u] = id})]
  /\ UNCHANGED alive

\* HandleAccountColdSwitch kills what runs under the accounts that were left.
HandleAccountColdSwitch(ids) ==
  /\ alive' = {p \in alive : AccountOf[UidOf[p]] \notin ids}
  /\ UNCHANGED visits

\* The thread of the priority manager has no hot switch under way.
Idle == stage = "idle" /\ \A u \in Uid : visits[u] = 0

\* HandleOsAccountsChanged: a query that fails ends it; by then the switched
\* accounts may be forgotten already.
HandleOsAccountsChanged(hot) ==
  LET id       == Head(reports)
      switched == oldActive \ active
  IN  /\ Idle
      /\ reports # <<>>
      /\ reports' = Tail(reports)
      /\ UNCHANGED <<active, switches, initialized, retryTimes, priorityVars>>
      /\ UNCHANGED <<stage, hand, oldPriority, delta, left>>
      /\ \/ /\ ~initialized \/ QueryMayFail
            /\ failed' = (failed \/ initialized)
            /\ UNCHANGED <<oldActive, accPrio, alive, visits>>
         \/ /\ initialized
            /\ oldActive' = Remembered
            /\ \E done \in Partial(switched) : UpdateAccountPriorityInfo(done)
            /\ failed' = TRUE
            /\ UNCHANGED <<alive, visits>>
         \/ /\ initialized
            /\ oldActive' = Remembered
            /\ UpdateAccountPriorityInfo(switched \cup {id})
            /\ UNCHANGED failed
            /\ IF hot THEN HandleAccountHotSwitch(switched, id)
                      ELSE HandleAccountColdSwitch(switched)

-----------------------------------------------------------------------------
(* The steps of a hot switch, for one bundle after the other.              *)

\* The account's offset, added and clamped.
RecalcBundlePriority(a, p) ==
  LET np == accPrio[a] + p
  IN  CASE np > RECLAIM_PRIORITY_MAX -> RECLAIM_PRIORITY_MAX
        [] np < RECLAIM_PRIORITY_FOREGROUND -> RECLAIM_PRIORITY_FOREGROUND
        [] OTHER -> np

\* Mutant: the processes move by the account's offset, not by what is left of
\* it after clamping.
DeltaOfAccount(u) == accPrio[AccountOf[u]]

\* bundleInfo->priority_ - oldPriority, where the priority is read again.
Delta(u) == bprio[u] - oldPriority

\* The priority of the next bundle is read ...
ReadPriority(u) ==
  /\ stage = "idle"
  /\ visits[u] > 0
  /\ visits' = [visits EXCEPT ![u] = @ - 1]
  /\ stage' = "write"
  /\ hand' = {u}
  /\ oldPriority' = bprio[u]
  /\ UNCHANGED <<accountVars, priorityVars, delta, left>>

\* ... recalculated and written ...
WritePriority(u) ==
  /\ stage = "write"
  /\ u \in hand
  /\ stage' = "delta"
  /\ bprio' = [bprio EXCEPT ![u] = RecalcBundlePriority(AccountOf[u], oldPriority)]
  /\ UNCHANGED <<accountVars, prio, overtaken, visits, hand, oldPriority, delta, left>>

\* ... and IncreaseProcsPriority is called with the difference ...
CallIncrease(u) ==
  /\ stage = "delta"
  /\ u \in hand
  /\ stage' = "increase"
  /\ delta' = Delta(u)
  /\ left' = ProcsOf(u)
  /\ UNCHANGED <<accountVars, priorityVars, visits, hand, oldPriority>>

\* ... which it adds to the priority of one process after the other.
IncreaseProcPriority(p) ==
  /\ stage = "increase"
  /\ p \in left
  /\ prio' = [prio EXCEPT ![p] = @ + delta]
  /\ left' = left \ {p}
  /\ UNCHANGED <<accountVars, bprio, overtaken, visits, oldPriority, delta>>
  /\ IF left' = {} THEN stage' = "idle" /\ hand' = {}
                   ELSE UNCHANGED <<stage, hand>>

-----------------------------------------------------------------------------
(* The handlers of ReclaimPriorityManager that hold the lock.              *)

\* UpdatePriority gives bundle u the priority of its most important process, within the
\* range.  It makes up for a start that overtook a hot switch, unless a hot switch has
\* bundle u in hand or has moved its processes out of the range.
UpdatePriority(u) ==
  LET least == Min({prio'[q] : q \in ProcsOf(u)})
  IN  /\ bprio' = [bprio EXCEPT ![u] =
                     CASE least > RECLAIM_PRIORITY_MAX -> RECLAIM_PRIORITY_MAX
                       [] least < RECLAIM_PRIORITY_MIN -> RECLAIM_PRIORITY_MIN
                       [] OTHER -> least]
      /\ overtaken' = IF u \in hand \/ least \notin RECLAIM_PRIORITY_MIN .. RECLAIM_PRIORITY_MAX
                      THEN overtaken \cup {u} ELSE overtaken \ {u}
      /\ UNCHANGED <<accountVars, switchVars>>

\* A status event, on the thread of the priority manager, gives a process of an ordinary
\* bundle another priority.
HandleUpdateProcess(p) ==
  /\ Idle
  /\ p \in alive
  /\ bprio[UidOf[p]] > RECLAIM_PRIORITY_KILLABLE_SYSTEM
  /\ \E l \in Levels \ {prio[p]} : prio' = [prio EXCEPT ![p] = l]
  /\ UpdatePriority(UidOf[p])

\* An ability start, on an IPC thread.  That a process at FOREGROUND starts only again is
\* left out of the guard.
HandleAbilityStart(p) ==
  /\ p \in alive
  /\ prio[p] >= RECLAIM_PRIORITY_FOREGROUND
  /\ prio' = [prio EXCEPT ![p] = RECLAIM_PRIORITY_FOREGROUND]
  /\ UpdatePriority(UidOf[p])

Next ==
  \/ \E a \in Account : Switch(a)
  \/ InitManager
  \/ \E hot \in BOOLEAN : HandleOsAccountsChanged(hot)
  \/ \E u \in Uid : ReadPriority(u) \/ WritePriority(u) \/ CallIncrease(u)
  \/ \E p \in Pid : IncreaseProcPriority(p) \/ HandleUpdateProcess(p) \/ HandleAbilityStart(p)

Spec == Init /\ [][Next]_vars

-----------------------------------------------------------------------------
(* Correctness.                                                            *)

\* Through any mixture of account switches, status events and ability starts, a bundle that
\* no hot switch has in hand has the priority of its most important process.  The exception
\* is a bundle that a start reached while a hot switch had it in hand: the code then adds up
\* values of before and after the start, and nothing is said of the bundle until its
\* priority is computed anew.
BundleIsMin ==
  \A u \in Uid \ (hand \cup overtaken) : bprio[u] = Min({prio[p] : p \in ProcsOf(u)})

\* Unless a query failed: once all reports are handled, every account the manager
\* knows has the priority of its state, however many switches happened before
\* the first report was handled.
AccountsSettled ==
  initialized /\ reports = <<>> /\ ~failed =>
    \A a \in DOMAIN accPrio : accPrio[a] = AccountPriority(a)
=============================================================================
