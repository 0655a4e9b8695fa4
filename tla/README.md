# A TLA+ development of the memory manager (memmgr)

The memory manager is a system service that gives every application process a
*reclaim priority* (its `oom_score_adj`), keeps the list of bundles sorted by it,
and lets a low-memory killer, a reclaim strategy and a purgeable-memory manager
act on that list. Its code is event driven: observers of the app framework, the
account service, the window manager and the kernel post tasks to the event
handlers of singletons, IPC threads call some of the same functions directly, and
timers fire into all of it. What can go wrong is mostly a question of order, which
is what this development is about.

## 1. Inventory

| Component | State | Operations | Talks to |
|---|---|---|---|
| ReclaimPriorityManager | accounts, bundles, processes (flags, bindings, priority), `totalBundlePrioSet_`, killable-system-app list, start and creation timers | create, terminate, status change, bind/unbind extension, suspend, ability start and its timer, creation check, died-process filter, account change, reset | observers (in), kernel `oom_score_adj`, BMS, ReclaimStrategyManager, MultiAccountManager (out) |
| MultiAccountManager | priority per account, old active accounts | recompute bundle priorities on an account switch, kill the processes of an account | ReclaimPriorityManager's map and set, kernel |
| LowMemoryKiller | none of its own; the bundle state WAITING_FOR_KILL | PSI event: compute a threshold, kill bundles until enough is freed | ReclaimPriorityManager, kernel |
| MemoryPressureObserver, KswapdObserver | poll thread, event handler | deliver PSI and kswapd events | LowMemoryKiller, MemoryLevelManager, PurgeableMemManager |
| MemoryLevelManager | PSI level handling, thresholds | compute the memory level and broadcast it | PurgeableMemManager |
| PurgeableMemManager | subscriber list, app list, per-app state | subscribe, unsubscribe, death, app state change, level notification, purge | subscribers over IPC, kernel purgeable interfaces |
| ReclaimStrategyManager, MemcgMgr, AvailBufferManager | user memcgs, app memcgs, buffer settings | account added/died, app state changed, write ratios and watermarks | kernel memcg files |
| NandLifeController | swap-out totals for today and for life, kernel switch | minute check, daily and lifetime limit, open/close swap-out | system parameters, kernel |
| MemMgrEventCenter and its observers | registration state, retry counters | register observers, retry, service death | app framework, account service, SAMgr |
| WindowVisibilityObserver | visible windows per pid, clean-up timer | visibility update, process death, clean-up | ReclaimPriorityManager |
| MemMgrService, stub, client, proxy | IPC glue | dispatch, permission checks, process-state notification | all of the above |
| Configuration (XML), kernel_interface, dump | parsed values | parse, file I/O, formatting | files |

What is hard in it:

* one event-handler thread per component, but ability starts arrive on IPC threads
  with only `totalBundlePrioSetLock_` between them, and one timer task takes no lock;
* ABILITY_START overtakes status events that were posted before it;
* timers that race the event that makes them unnecessary;
* a process may die, and its pid may be reused, before the events about it are handled;
* a sorted set whose key is a mutable field;
* priorities propagate along connections that can form chains and cycles.

## 2. Modules and plan

| Module | Models | Uses |
|---|---|---|
| `ReclaimPriority`, `ReclaimPriority_proofs` | the manager's table, list, kernel values and timers; its invariants for every instance | |
| `KillConfig`, `LowMemoryKiller`, `LowMemoryKiller_proofs` | the waterlines, and the killer's event against a table that changes while it runs | `LowMemoryKiller` extends `KillConfig` |
| `WindowVisibility` | the observer between window manager and priority manager, with the queues on both sides | its theorems are in `EventCenter_proofs` |
| `Accounts`, `PriorityScale` | the accounts and processes of an instance; the ends of the priority scale | extended by the next three modules that need them |
| `MultiAccount`, `MultiAccount_proofs` | what an account switch does to the priorities | |
| `SwapOutQuota`, `NandLife`, `NandLife_proofs` | the account swap-out runs on, and the controller that implements it across failures, crashes and reboots | `NandLife` instantiates `SwapOutQuota` |
| `MemmgrConfig`, `ReclaimStrategy` | the XML file section by section; memory cgroups, scores and ratios of the accounts | `ReclaimStrategy` extends `MemmgrConfig`; its theorems are in `MultiAccount_proofs` |
| `PurgeableSubscribers`, `PurgeableSubscribers_proofs` | subscribers on both sides of the IPC, two mutexes, three kinds of threads, a service that crashes | |
| `MemoryPressure`, `MemoryPressure_proofs` | observers of the kernel, level manager, purge by pressure and by command | |
| `MemMgrIpc`, `MemMgrIpc_proofs` | every transaction from the kit to the service and back | |
| `EventCenter`, `EventCenter_proofs` | registration, retry and death of the observed services | |

`MCx` is the instance of `x` for TLC, `x_proofs` holds the theorems about `x`; `x.cfg` files are named after their runs. `EventCenter`
needs no `MC` module. Two proof modules treat a second component that the first one leads to:
`MultiAccount_proofs` also extends `ReclaimStrategy`, which is told the priorities of the accounts,
and `EventCenter_proofs` also extends `WindowVisibility`, the observer the event center starts.
That is why those two components name their parts `StrategyInit`, `WindowNext` and so on.

What is left for later, in this order:

1. Abstract specifications: a *prioritised process table* that `ReclaimPriority` implements and
   `LowMemoryKiller` uses in place of its own copy; a *visibility register* that
   `WindowVisibility` implements once its queues are empty.
2. `ReclaimPriority` composed with `EventCenter`: events delivered once per registered observer.


## 3. The reclaim priority manager (`ReclaimPriority`)

### State and actions

| Model | Code |
|---|---|
| `known`, `prio`, `status`, `starting`, `toMe`, `fromMe` | the fields of every `ProcessPriorityInfo`; `status` is the set of its flags that are true |
| `bundles`, `bprio`, `accounts` | `osAccountsInfoMap_` and the `BundlePriorityInfo` of each account |
| `prioSet` | the keys under which `totalBundlePrioSet_` files its bundles, so that a key changed in place would show |
| `killList` | `allKillableSystemApps_`, from the XML and extended by answers of BMS |
| `startTimer`, `createCheck` | the pending `CheckAbilityStartCompleted` and `CheckCreateProcPriorityDelay` tasks |
| `overtaken` | history: an insertion into the set was overtaken by an ability start or `Reset` and the order of the set is lost; the set is not tracked from then on |
| `stage`, `todo`, `dirty`, `locked` | where the running handler is, the rest of its `ProcInfoSet`, the bundle `ApplyReclaimPriority` will write, whether it holds `totalBundlePrioSetLock_` |
| `target`, `minimum`, `pending` | what the unlocked handler has in hand: the process whose record it changes, the level or the minimum it has read and not used yet, the priorities it has read and not yet written to the kernel |
| `life`, `oom` | the kernel: which pids live, which events about them are queued, and their `oom_score_adj` |

Each task of the manager's event handler is one action named after the C++ function.
The long ones are split where another thread could get in or where an order matters:
`SetConnectExtensionProcPrio` takes one step per extension, in the order of the key
computed beforehand, and `ApplyReclaimPriority` ends the handler.
`CheckCreateProcPriorityDelay` is the only handler without the lock, and `HandleAbilityStart`
(on an IPC thread) and `Reset` may fall between any two of its accesses to what they write as
well. It is therefore cut at each of them: the level set and then capped by the status
(`CapPriority`), the bundle erased from the set, its minimum read (`ReadMinimum`), the minimum set
and the bundle inserted (`FileOwn`, `FileExtension`), the same for every extension of its loop, and
reading and writing the priorities of the kernel (`ReadUnlocked`, `WriteUnlocked`,
`ReturnUnlocked`). Setting a bundle's priority and inserting the bundle are one step: nothing that
may run in between sees or does anything it would not see or do before or after both.

The environment starts and ends processes at any moment: a process may die before its
creation is handled (`stillborn`), a dead process may keep its record (events of
system bundles are skipped), and its pid may be used again for the same bundle.
A status event that was stamped before the ability start now under way (`before`)
models the overtaking by an IMMEDIATE event: it changes the flags only.

### Runs and bounds

A process table of three pids in two or three bundles is enough: the handlers touch one
process, its bundle and the processes it is connected to, and the longest dependency a
property speaks about is client, extension and extension of the extension. Constants select
which events a run explores, so that each stays exhaustive.

| Run | Instance | What it shows |
|---|---|---|
| `prio_events` | an app of two processes, one of which may die and start abilities, beside a render process; five reasons; ability starts between any two steps of the unlocked check | `TypeOK`, `StartHasTimer`, `PriorityMatchesStatus`, `ListMatchesTable`, `BundleCoversProcs`, `KernelMirrorsTable` |
| `prio_extension` | an important client and two extensions that use each other, in two bundles, one of which the client shares with an extension | `ForegroundClientProtects`, `HandlerNeverHangs` |
| `prio_hang` | two keepAlive apps that use each other's extension, and a client | expected violation of `HandlerNeverHangs` |

Two processes in one bundle are what `BundleCoversProcs` and the set need: the start of one meets the
delayed check of the other. The five reasons of `prio_events` have one flag of each kind (foreground,
background, visible, a transient task) and the suspension; the other flags differ from these in
their level only. In `prio_extension` nobody dies or starts an ability: two interleavings of that
kind beside a graph of connections are beyond the bounds, and are left to the theorems, which
have no bounds.

`PriorityMatchesStatus` says that an idle manager holds every process at the priority its flags
call for. It speaks about `Ordinary` processes: an important one is capped by its configured
priority, an extension takes its priority from its clients, a system bundle is pinned
(`SystemAppsPinned`, which is proved and in no run), and a bundle with an important process configured above FOREGROUND
is not `Plain`: its events are skipped like those of a system bundle. A suspended process has
SUSPEND priority whatever its flags say. `ForegroundClientProtects` leaves out the bundles that are
not `Plain` for the same reason.

`prio_hang` documents a disagreement. `GetConnectedExtensionProc` marks only extension
processes as visited. `UpdateExtensionStatusForCaller` records a connection to a system
app, but `UpdateExtensionStatusForTarget` then returns before flagging it as an
extension. Two system apps connected to each other are therefore an unvisited cycle,
and the first status change of an app connected to one of them loops for ever with the
lock held.

Some properties are weaker than one might expect, and the reason is the code, in which the
unlocked check may overwrite what an ability start wrote:

* `BundleCoversProcs` and `KernelMirrorsTable` leave out the bundle and the process that the
  check has in hand, and processes that are starting an ability: a minimum or a value that was
  read before the start may land after it. The error is undone when the start ends, which is
  why both hold without exception outside of these windows.
* `ListMatchesTable` says nothing of the set once a start or a `Reset` has fallen between the
  check's erasing a bundle and inserting it (`overtaken`): the set may hold the bundle twice, or under a key
  that is not its priority, and the code never repairs it. `FilterDiedProcess` walks
  the set, so it may then miss a bundle or remove a wrong one, and the model lets it.
* `SystemAppsPinned` assumes that BMS answers (`BmsMayFail = FALSE`). A query that
  fails while a keepAlive app is created gives it an app's priority.

No liveness property is stated for this module: nothing in it has to happen that is not
either a timer (`StartHasTimer` states that it is armed) or the return of a handler
(`HandlerNeverHangs` states the only way it can fail to).

### Proofs (`ReclaimPriority_proofs`)

Theorems hold for every set of processes, bundles, accounts, bindings and reasons that
satisfies `ConstantsAssumption` (pids are naturals, each process has one bundle and
each bundle one account, configured priorities lie in -1000..1000). Nothing is assumed
about finiteness.

| Theorem | Property |
|---|---|
| `TypeCorrect` | `TypeOK` |
| `ListCorrect` | `ListMatchesTable` |
| `BundleCorrect` | `BundleCoversProcs` |
| `TimerCorrect` | `StartHasTimer` |
| `KernelCorrect` | `KernelMirrorsTable` |
| `SystemCorrect` | `SystemAppsPinned` |
| `MatchesStatus` | `PriorityMatchesStatus` |
| `NeverHangs` | `HandlerNeverHangs`, if `NoSystemTarget` |
| `ClientsProtect` | `ForegroundClientProtects`, without `APPLICATION_SUSPEND` |

The first six follow from one inductive invariant, `IInv`. None of them is inductive alone:

* `JobInv` ties `stage`, `target`, `dirty`, `locked` and `pending` together; without it a handler
  in the middle of its loop could be taken for one that has finished;
* `CoverInv` and `MinimumInv` strengthen `BundleCoversProcs`: a bundle, or the minimum about to become its
  priority, covers its processes but for one that is starting an ability, and then it is at
  FOREGROUND or below, so that the end of the start is not skipped and files it anew;
* `FileInv` says of a bundle in hand that is in the set nevertheless that a start has filed it,
  with what the check is about to file it with; anything else has set `overtaken`;
* `CapInv` says that the level between its setting and its capping is that of the flags;
* `RecordInv` says that a pid without a record has the default fields, which creation
  relies on, and `TodoInv` that the loop only holds processes of the table that are
  extensions or were removed by `Reset` meanwhile;
* `KernelInv` strengthens `KernelMirrorsTable` by what is known while a handler runs: a
  value read without the lock is that of the table unless a start came between;
* `SystemInv` says that a killable system bundle has only processes of KILLABLE_SYSTEM
  priority or, if BMS may fail, nothing.

`TableAfterUpdate` and `StatusUpdate` carry the argument that is common to the handlers with the
lock (erase, recompute, insert keeps the list equal to the table and the bundle
below its processes), `ReadMinimumStep` and the lemmas around it the one of the handler that
does the same in pieces; then there is one lemma per action, `NextInv` collects them, and
`Invariance` combines them with PTL. `MinPriority` is the one fact about `Min` used.

The other three each need an invariant of their own beside `IInv`:

* `StatusInv` for `MatchesStatus`. `PlainAbove` says that a plain bundle never gets above
  FOREGROUND, so that none of its events is skipped; `MatchInv` is the property, kept through the
  steps of a handler, and with the ability starts and creation checks that are under way.
* `HangInv` for `NeverHangs`. `Acyclic` says that the connections among processes that are not
  marked as extensions have no cycle: every set of them that is not empty has a member without a
  connection into the set. A bind to a process with a record marks the target, and a process with
  a new record has no connections. `NoSystemTarget` is the hypothesis that nobody connects to an extension
  whose bundle is a killable system app or configured at that level; the event that would mark
  such a target is skipped. `prio_hang` is an instance without it, and it hangs; `prio_extension` is one with it.
  What the walk reaches (`Reached`) is a least fixed point, of which the proof uses only that it
  lies in every closed set.
* `ClientInv` for `ClientsProtect`. `BindInv` says that a process without a record has no
  binds and that only an extension has clients; `FgInv` that a foreground process in a plain
  bundle has FOREGROUND or better, outside an ability start; `UsedInv` that the extension such a
  client uses, by the records of both, has 100 or better or is still in the queue of the handler
  that is running. `PlainAbove` says that a plain bundle is never more important than
  FOREGROUND, so that none of its events is skipped. A suspension of the
  extension's bundle sends it to SUSPEND whoever uses it (`HandleApplicationSuspend`), so run and
  theorem are without that reason; every other reason, and any bindings, are covered.

### Not in this module

* a pid reused by another bundle: `UidOf` is a constant of the instance;
* `HandlePreStartedProcs` (the processes found at start-up are created like any other),
  `OS_ACCOUNT_CHANGED` (module `MultiAccount`), dump functions;
* `extensionBindStatus`, which is written and never read, and
  `UpdatePriorityByProcConnector`, which is never called;
* the memory corruption that two unsynchronised threads can cause in a `std::set`:
  the unlocked handler is modelled at the granularity of its accesses to the table, each of
  which is taken to be whole;
* `NotifyAppStateChanged` towards the memcg code, which only exists with
  `USE_HYPERHOLD_MEMORY`.

## 4. The low memory killer (`KillConfig`, `LowMemoryKiller`)

`KillConfig` has no state: it is the parser of the `killConfig` XML (what is skipped, what
is an error, that one error drops everything) and the walk of
`QueryKillMemoryPriorityPair`. Memory is counted in MB. The code converts with
`memoryMB * 1024` in an `unsigned int`, so a level in MB is taken modulo 2^22 (`ToKB`).

`LowMemoryKiller` follows `PsiHandlerInner`. The lock of the list is held in two places
only: while a bundle is copied (`GetOneKillableBundle`) and while it is marked
(`SetBundleState`). These and each call of `KillOneProcessByPid` are actions of their own,
and between them the priority manager creates processes, changes priorities and removes
dead processes; the kernel blocks and wakes processes, lets signalled ones die and changes
the buffer.

| Model | Code |
|---|---|
| `procs`, `bprio`, `waiting` | the `BundlePriorityInfo` of every uid: `procs_`, `priority_`, `state_` |
| `young` | bundles for which `NOT_TO_KILL_DURING` has not passed since `createTime_` |
| `event`, `currKillKb`, `killCnt` | locals of `PsiHandlerInner` |
| `copy`, `toKill`, `freedBuf` | locals of `KillOneBundleByPrio`; `copy` is what the lock protected |
| `killLevel` | `killLevel_`, read by the dump |
| `tried`, `joined`, `moved` | history: what the killer did and what happened behind its back |

`GetSystemCurTime` counts milliseconds, so the 3 of `NOT_TO_KILL_DURING` are 3 ms; the
model only says that the period ends at some time.

| Run | Instance | What it shows |
|---|---|---|
| `lmk_event` | two pids, two bundles, two creations; every XML of up to three nodes | `LeastImportantFirst`, `WaitingMeansTried`, `LevelsMonotone`, `NobodyPassedOver` |

Two bundles suffice for an order, and two creations for a bundle of two processes, for one
that grows after it was copied, and for a pid that comes back after it was killed. An event
may take two bundles (`MaxKillCnt`; the code's limit is 3, which two bundles cannot reach).
The nodes of the XML have levels of 200 and 500 MB and one that wraps to 200, priorities
inside and outside of the range, and comments and unknown tags; most of these
configurations are rejected, and then the built-in table is used. The buffer is between
the waterlines, on the highest one, or unreadable; `LevelsMonotone` reads 0
and every level, whatever the buffer is, and compares which priorities are killed there
(`Killed`; an event whose minimum is no priority kills nothing).

Fairness in `lmk_event`: weak for the killer's steps (a thread that has work runs) and
for `Grow` (time passes); strong for `PsiHandlerInner`, because the kernel raises PSI
events again and again as long as there is pressure, whatever the killer did meanwhile.
Nothing is assumed of the processes: one that was signalled may never die and one in
state D may never wake.

`WaitingMeansTried` excepts bundles that got a process after they were copied. This is the
code: `SetBundleState` looks the bundle up by uid and marks what it finds.

The README of the repository (lines 90 and 91) lists the minimum priorities 800 and 600 for
500 MB and 400 MB; `g_minPrioTable`, and `DefaultTable` here, have 400 and 300, so with 450 MB
left a bundle of priority 400 is killed that the document protects.

### Proofs (`LowMemoryKiller_proofs`)

For any pids, uids, priorities, buffer values, kill limit and any set of XML files whose nodes
have a name, a natural number of MB and an integer priority (`LmkAssumption`); uids are
ints, because `LastOf` compares them.

| Theorem | Property |
|---|---|
| `KillsLeastImportant` | `LeastImportantFirst` |
| `WaitingWereTried` | `WaitingMeansTried` |
| `WaterlinesMonotone` | `LevelsMonotone` |
| `TypeCorrect` | `TypeOK` |

`TInv` is the type invariant with where the killer's locals stand at each point of
`PsiHandlerInner` (`KillerState`: the loop is entered with kills to spare, a copy has processes
until the last is signalled) and with what every map of waterlines in use is (`GoodLevels`: a
finite map whose priorities rise). `LevelsGood` shows that `ParseConfig` yields such a map
whatever the XML is, or the built-in table is used; from it `WaterlinesMonotone` follows, as
`QueryKillMemoryPriorityPair` takes the least level above the buffer. `SInv` adds the two
orders and `CopyCovers`: until another process joins the bundle, each of its processes was
tried or is still on the copy. Without it `WaitingMeansTried` is not inductive, since marking
looks at the uid and not at the processes.

`NobodyPassedOver` is liveness and only checked.

## 5. The window visibility observer (`WindowVisibility`)

Three parties and two queues: the window manager sends updates, the observer handles them
in order and posts VISIBLE and UN_VISIBLE to the priority manager, which also receives
CREATE_PROCESS and PROCESS_TERMINATED from the app framework. `OnProcessDied` runs on the
IPC thread, so it overtakes updates that were sent before the death, and
PROCESS_TERMINATED is posted before it. The clean-up `CheckMapSize` runs on a five-minute
timer and when the map has `MaxMapSize` entries; it forgets entries whose pid is not alive.

| Run | Instance | What it shows |
|---|---|---|
| `wv_windows` | one pid that is used again, two windows, up to three updates or requests in flight, four starts, in two environments | `VisibleAgrees`, `StaleEntryGoes` |

What is outside of the repository is the constant `Environments`, of which a behaviour has one
for good (`env`): whether `/proc` may be unreadable, whether the window manager reports the
windows of a process that died as gone, and the size of the map that starts a clean-up.
`VisibleAgrees` is about environments in which it does report them; a VISIBLE for a process the
priority manager does not know is dropped there but remembered here, so this cannot be left
out. For the same reason the app framework reports a process before it shows a window
(`OnProcessCreated` precedes `ChangeWindows`). `StaleEntryGoes` is about the other one, in
which only the clean-up can help, and needs a `/proc` that can be read: `CheckMapSize` returns
before it sets its next timer otherwise (window_visibility_observer.cpp:145), although the
comment at `SetTimer` says that it is called every `TIMER_PEROID_MIN` minutes.

The entries of two pids do not influence each other except through the size of the map, whose
limit of one entry the first environment reaches. Two windows are what it takes for the first
and the last one to differ, and three starts for a pid used twice with an update in flight.

Fairness of `wv_windows`: both handler threads run, the callbacks of the app framework return and the timer
fires. `CHECK_DEADLOCK FALSE`: the bound on starts may be used up with no timer left.

### Proofs (in `EventCenter_proofs`)

For any finite set of pids, any windows, environments, number of starts and depth of the queues
(`WindowAssumption`).

| Theorem | Property |
|---|---|
| `VisibilityAgrees` | `VisibleAgrees` |
| `WindowTypes` | `WindowTypeOK` |
| `WindowInvariance` | `WindowInv` |

`VisibleAgrees` speaks about moments at which nothing waits, so `WindowInv` has to say what *will* be
held when all that waits has been handled. `ShownAfter(.., k, p, w)` is whether the observer will show
window w once the first k updates are applied, `KnownAfter` and `FlagAfter` whether the priority
manager will have a record of p and hold it for visible after k requests; all three are "set by one
and not taken back by a later one", and the lemmas say what one entry more at the end of a queue
and one less at its front does to that (`ShownOneMore`, `ShownOneLess`, `SetOneLess`, `RequestDone`). The invariant:

* `ShowsThose`: what will be shown is what is on the screen. It is what reporting closed windows
  gives, and what an entry forgotten by `OnProcessDied` or a clean-up does not disturb;
* `KnownLives`: the processes that will be known are those whose death has not been reported;
* `EntryFlagged`: of a live process, what will be held for visible has an entry, and an entry will
  be held for visible or one of the waiting updates empties it (`Cleared`). The second case is the
  hard one: a pid that is used again while the entry of the dead process is still there, whose
  VISIBLE was dropped. Its windows are gone from the screen, so an update that says so is waiting,
  the entry goes with it, and the next window posts VISIBLE anew.

`InPidOrder` is a `CHOOSE`; `OrderExists` shows that there is such a sequence for any finite set of
requests with a pid each. `StaleEntryGoes` is liveness and only checked.

## 6. Account switches (`MultiAccount`)

Switches happen in the account service and are reported in order; `HandleOsAccountsChanged`
handles a report later, on the priority manager's thread, against the accounts that are
active *then*. Its queries and the new priorities of the accounts are one action; a query that fails
ends it at the point it has reached: `Partial` is what may have been updated by then. A cold
switch kills the processes of the accounts that were left. A hot switch visits their bundles, and those
of the reported account, one after the other in four kinds of steps: the bundle's priority is
read, recalculated and written, `IncreaseProcsPriority` is called with the difference, and moves one
process after the other (`ReadPriority`, `WritePriority`, `CallIncrease`, `IncreaseProcPriority`). It
holds no lock, so an ability start, which comes on an IPC thread and takes the lock only for itself, may fall between any
two of these; status events and other reports are handled by the same thread and wait
until it is done (`Idle`). The status handlers and ability starts are there in the form `ReclaimPriority`
establishes: a process changes, and its bundle gets the least priority of its processes.

| Run | Instance | What it shows |
|---|---|---|
| `acct_priority` | three accounts, an app of two processes and a killable system bundle in two of them, failing queries | `BundleIsMin`, `AccountsSettled` |

Three switches are enough to go there and back, to leave two accounts behind before a report
is handled, and to switch before `Init` has succeeded. Priorities 0 and 980 put both ends
of the clamp within the reach of one offset of 50. The two processes of the app are alike (symmetry). The number of switches is bounded, hence
`CHECK_DEADLOCK FALSE`.

What the properties leave out is what the code does:

* a bundle that an ability start reached while the hot switch had it in hand (`overtaken`) ends up with
  values of before and after the start added up. `BundleIsMin` says nothing of it until an event
  computes its priority anew;
* a query that failed after the active accounts were read (`failed`): the accounts that were
  left are then forgotten and keep their priority, which `AccountsSettled` excepts;
* the clamp at 0 lifts a killable system bundle from -800 to 0 on the first hot switch that touches its
  account, and an account that is both left and reported is recalculated twice. No property calls
  these wrong.

The order of `totalBundlePrioSet_` is not modelled here. The header of the priority manager says that a bundle is
removed from and added to the set when its priority changes; `HandleAccountHotSwitch` writes the
priority in place (multi_account_manager.cpp:274) and the set is out of order from then on. The
theorems about `ReclaimPriority` are therefore about executions without a hot switch, and so is
`LeastImportantFirst`, which rests on a sorted list.

### Proofs (`MultiAccount_proofs`)

For any accounts, bundles, levels within 0..1000, number of switches and finite set of processes, with every
bundle having a process (`AccountAssumption`); queries may or may not fail.

| Theorem | Property |
|---|---|
| `BundleFollowsProcesses` | `BundleIsMin` |
| `ReportsSettleAccounts` | `AccountsSettled` |
| `PrioritiesStayKnown`, `TypeCorrect` | `IInv`, `TypeOK` |

`Leads(u)` says that the bundle has the priority of one of its processes and no process is
below it. So that it holds in the middle of a hot switch too, it speaks of the priority each process
will have when the switch is through with it (`Level`) and of the bundle's priority that goes with
those (`BasePriority`, the old one between writing the new and taking the difference). Every bundle that no start
overtook has it; the steps of a switch then change neither, or both by one amount (`LeadsKept`,
`CallIncreaseIInv`). `InHand` says which bundle and processes a switch may still have to move.
A bundle's priority stays in -1000..1000 because `UpdatePriority` and the recalculation clamp it; a process's may leave that range.
`FiniteMin`, that a finite set of priorities has a least one, is shown with a least counterexample.
`Settling` is what makes `AccountsSettled` inductive: the last report in the queue is of
the account that is active now; an account the manager knows and no report speaks of has
the priority of the accounts remembered at the last switch; and the remembered ones are the active
ones when there is no report. The reports are therefore all that the manager needs, in
whatever order switches and their handling overlap.

## 7. The nand life controller (`SwapOutQuota`, `NandLife`)

`SwapOutQuota` is the abstract specification: swap-out runs on an account with a daily and a
total quota. While the account counts (`counting`), everything the kernel writes is charged to it, once
(`Spend`); what is charged is stored by every check unless a fault prevents it (`Settle`). It stops
counting, and forgets what it charged, only in a step that uses up one of the faults (`Forget`), and then falls back
no further than what was stored. Swap-out opens only within the quotas. `NandLife` is the controller: `Init` with
its exits in the order of the code, the periodic `CheckSwapOut`, the four parameters that are
stored one after the other, the permanent mark, and the kernel that goes on counting between
the checks and while the service is down. One step of a check or of an initialisation fails
at a time; `Outcomes` lists the steps that can.

`ChargesAccount` is the refinement: `SwapOutQuota!Spec` with what is counted plus what the next
check will count as the account while the timer runs, and what is stored when it does not. The account counts
while the timer runs and the kernel's counter has not gone back; what the kernel swaps out between a
crash and the next initialisation, or without limits, escapes it (`Escape`), as in the code.

| Run | Instance | What it shows |
|---|---|---|
| `nand_quota` | no limit, both quotas, a total only; days of three checks, six KB, three faults | `QuotaHeld`, `ClosedForGood`, `ReopensLater`, `ChargesAccount` |

A crash, a reboot with another configuration, a counter that is reset and a failed step each
cost one of the three faults, so that a failure, a restart and a failure during the restart
fit into one behaviour. Six KB are more than any quota, so that each can be exceeded between
two checks. `ULLONG_SIZE` is where the unsigned difference of two readings wraps; 64 is larger
than anything the counters reach, which is all that matters of 2^64. Fairness: the timer fires
(`WF(Check)`), which event handlers guarantee.

What the properties leave out is what the code does: with a daily quota of 0 beside a total
one, every new day opens swap-out for one period; a counter that went back closes swap-out at
every check until it has caught up or the service restarts; a failed write to the switch is
not looked at; an `ERANGE` left in `errno` by another call makes `LoadNandLifeParam` fail,
which is one of the ways of the load to fail here.

### Proofs (`NandLife_proofs`)

For any set of configurations, any period and length of a day, any amount swapped out and
number of faults; `ULLONG_SIZE` is more than twice what is ever swapped out, as 2^64 is
(`NandLifeAssumption`).

| Theorem | Property |
|---|---|
| `QuotaAlwaysHeld` | `QuotaHeld` |
| `PermanentClose` | `ClosedForGood` |
| `ImplementsAccount` | `ChargesAccount`, the refinement of `SwapOutQuota` |
| `ChargedInFull` | until the first fault, the account is what the kernel swapped out, neither less nor more |

`IInv` adds to the types that what is counted and what the next check will count stays within
`MaxSwapOut`, that what is stored never runs ahead of what is counted, and that there
is no timer without a service. The first keeps the unsigned difference of two readings from
wrapping where it should not (`MultipleBound`); the second is what a crash between two stores of
`UpdateNandLifeParam` could break. The refinement is shown action by action: each step of the
controller, with each of its failing steps, is a step of the account or none (`StartsAccount`,
`ChecksAccount`, `SwapOutSpends`, `FaultForgets`). `ChargedInFull` follows from the refinement, as only `Forget`
and a failing step use up a fault. `ReopensLater` is liveness and only checked.

## 8. Configuration and reclaim strategy (`MemmgrConfig`, `ReclaimStrategy`)

`MemmgrConfig` is `MemmgrConfigManager` and the parsers of all sections, on trees of nodes with
a name, a kind and at most one readable value. What a section drops, what stops the whole file
(an unknown section does) and which values are clipped or replaced by defaults is as in the
code, the carry-over from one `ZswapdParam` to the next included (`Accumulated`): the values
the first one gives win in all of them, which the sample of README_zh.md:145 does not suppose.
A comment among them repeats the entry before it. `ReclaimStrategy` reads its ranges and
buffers from there.

`ReclaimStrategy` is `ReclaimStrategyManager`, `MemcgMgr`, `Memcg` and `AvailBufferManager`: tasks
posted to one handler; a memcg in the map and its directory in the kernel, which fail and go
separately; processes that start, are reported and die. The kernel refuses to remove a
directory with a process in it. The scan of `/proc` at start-up may fail altogether, fail to read the owner of
a process, to create the directory of an account, or to file a process; a render process that starts
later is never reported, because `HandleCreateProcess` returns before it reports.

| Run | Instance | What it shows |
|---|---|---|
| `strategy_memcg` | two accounts, three processes, two configuration files, two tasks waiting, one failing file operation | `MirrorsKernel`, `ProcsFiled`, `PriorityApplied` |

The two processes of one account are alike (symmetry). One fault anywhere is enough for each
file operation to fail on its own, and two waiting tasks for a switch to be handled before or
after the creation posted with it. -50 and 50 are the priorities `DefaultMultiAccountStrategy`
gives, one clipped at 0 and one where two ranges of a file meet. `CHECK_DEADLOCK FALSE`: with
an initialisation that failed nothing is left to do.

One file has two sections of ranges that meet at 50, a ratio out of range, a comment after a range, which
repeats it, and one in a parameter, which ends the section; the other has buffers in the wrong order and an unknown section before its ranges, which leaves none.

The code drops a priority that comes before the first process of its account, and never tries
a failed `mkdir` again. `PriorityApplied` does not claim otherwise, and `ProcsFiled` excepts the
processes that a failed step or a missing report left out (`missed`). Processes that
start between the scan of `/proc` and the registration of the app observer are not reported at
all. `AvailBufferManager` compares megabytes with `MemTotal` in KB, so that its upper check
(README_zh.md:183) never fires; the model has the comparison as it is.

### Proofs of the strategy (in `MultiAccount_proofs`)

For any accounts, processes, priorities, memory size, numbers of tasks and faults, and any documents
with three levels of children in which the parameters of a `ZswapdParam` are numbers or have no value
(`StrategyAssumption`, `IsDocument`; a value that is no number makes `std::stoi` throw).

| Theorem | Property |
|---|---|
| `KernelMirrored` | `MirrorsKernel` |
| `ProcessesFiled` | `ProcsFiled` |
| `PrioritiesApplied` | `PriorityApplied` |
| `StrategyInvariance` | `StrategyInv` |
| `StrategyTypes` | `StrategyTypeOK` |

`StrategyInv` adds to the three properties what the tasks that wait look like and that accounts have
been updated only when the initialisation is done (`Served`), that what was read back has a
memcg and what was given a priority a directory (`Mirrored`, `Applied`), and what the ranges in the
configuration are: records whose two percentages are at most 100 (`Ranges`). The last one is the
long one, as it holds of whatever a document makes of them:
`ZswapdParamIsRange` shows it of one parameter with what it inherits from those before
(`AccumulatedNumbers`), `ParseReclaimRanges` of a section, `ReadParamRanges` of a document; the inductions
over parameters and sections are arguments about the least place that fails, and existence
of the recursive functions is shown first (`AccumulatedExists`, `ReadsExists`). `PriorityApplied` then
needs `Clamp100` to change nothing (`ClampSame`) and `GetReclaimRatiosByScore_` to find the lowest
covering range (`FirstCovering`).

`StrategyTypes` needs `StrategyTyped` beside it: a directory is only removed when no process is in
it and the root's is never removed, since it has the name of no account (`RootAssumption`); and the number of
failures of a step is a number because the processes and accounts are finitely many.

## 9. Subscribers (`PurgeableSubscribers`)

Both sides of the subscription: the list, the death recipients and the app list of the service
behind `mutexSubscribers_` and `mutexAppList_`; proxy, death recipient and listener of the kit.
Additions, deaths and application states run on the handler, removals on the IPC thread of the
caller with a synchronous `OnDisconnected` under the mutex, the dump command on a third. Every
step that takes a mutex is an action of its own and waits for it. The service may crash at
any point, and comes back empty as a new `instance`; the kit hears of it later.

| Run | Instance | What it shows |
|---|---|---|
| `subs_ipc` | one subscriber beside those of other clients, one app, one crash, one task and one call waiting | `ListedWatched`, `ListedIsConnected`, `NobodyWaitsInCircle`, `SilentAfterUnsubscribe`, `DeadForgotten`, `UnsubscribeReturns` |

`others` stands for the subscribers of other clients: they matter through the limit of the
list only. Apart from the limit the code treats each subscriber alone, and the threads that
compete for the mutexes are the handler, the command and one removal.

Fairness is strong for the threads, because a thread that waits for a `std::mutex` gets it in
the end, and weak for the subscriber's answer to `OnDisconnected`; a subscriber that never
answers, or that unsubscribes inside a callback, would block the service, and the model
supposes that it does neither.

A removal that overtakes the addition it undoes leaves the subscriber listed;
`SilentAfterUnsubscribe` excepts it (`overtaken`). A subscriber that used the proxy of an earlier
instance may be listed by the new one without watching it, and then never gets `OnRemoteDied`,
against the comment in app_state_subscriber.h: `ListedIsConnected` asks for the watch only where
the proxy is of the present instance.

`AddSubscriberInner` may fail to create the death recipient: the subscriber is then listed and never
told that it is connected. A remote object that is dead already may refuse the recipient, and
the result of `AddDeathRecipient` is ignored (purgeable_mem_manager.cpp:99): the subscriber is listed
for good. `unwatched` remembers both; `ListedWatched`, `ListedIsConnected` and `DeadForgotten` except them.

### Proofs (`PurgeableSubscribers_proofs`)

For any set of subscribers, limits of the lists, depths of the queues and number of crashes
(`SubscribersAssumption`: the names of the threads and of nobody are different).

| Theorem | Property |
|---|---|
| `ListIsWatched` | `ListedWatched` |
| `NoDeadlock` | `NobodyWaitsInCircle` |
| `ListedOnesConnected` | `ListedIsConnected` |
| `UnsubscribedIsSilent` | `SilentAfterUnsubscribe`, an action property |
| `TypeCorrect` | `TypeOK` |

`LInv` is about the service. `Locks` says who holds a mutex at which point of its code, so
that the order is visible: who holds `mutexAppList_` waits for nobody and who holds
`mutexSubscribers_` at most for `mutexAppList_`. `Listing` says that list and recipients differ
only by the subscriber whose removal has the mutex, that the list has no duplicates and keeps its
limit. `KInv` is about the kit: a subscriber that has left is neither listed nor about to be
added (`SilentAt`), and a listed one has an `OnConnected` on its way or is in the state that it
or the death of the service left (`ConnectedAt`), unless its recipient could not be created. `ErasedOne` and `WithoutOne` are what the two
ways of erasing do to a list. `TypeCorrect` adds that `appList_` keeps its limit
(`RegisterTyped`, `DeregisterTyped`) and that no proxy or watch is of an instance that was not there yet. The theorems cover any number of subscribers, the run only one.

`DeadForgotten` and `UnsubscribeReturns` are liveness and only checked.

## 10. Pressure (`MemoryPressure`)

The monitors with their registration, reports and hang-ups, the level manager, the purge
handler with one step per memcg and per block, the dump commands on their own thread, and the
applications that allocate, pin and unpin between any two steps. The heap of a memcg is a
number, the ashmem file a fixed sequence of holders and blocks. `work` is the state of the trigger
under way: its target, what each type gave and the blocks that are left.

| Run | Instance | What it shows |
|---|---|---|
| `pressure` | a user's memcg and the root; three blocks, one with an important and an unimportant holder, one outside of the white list; one fault, one change by others | `NoMoreThanNeeded`, `LeastImportantFirst`, `TrimIsLastResort`, `PressureAnswered` |

Every heap and block is one unit and the threshold two, so that a trigger may be short of nothing,
of one unit or of two, get them from heap, ashmem or both, and still fall short. One fault is a read, a purge or a registration
that fails, a hang-up, or a clock that is set back; one change by others is a purge by
command, or a pin or unpin at any point.

Fairness: the kernel goes on reporting while there is pressure (PSI triggers fire once per
window), handler threads run, and time passes. `PsiHandlerInner` has strong fairness only because
the bounded queue may be full for a while.

Not claimed because the code does otherwise: after a hang-up the monitor is
removed for good and `MainLoop` spins with no event to wait for, a failed registration is not repeated, kswapd reports trim at level
LOW whatever the buffer is, the white list looks only at the first holder of a block, and the
command that purges everything stops after a failed heap purge.

### Proofs (`MemoryPressure_proofs`)

For any users, blocks of any sizes, any ashmem file, thresholds and bounds
(`PressureAssumption`: finitely many users and blocks, lines that name known blocks, and
a threshold within the memory).

| Theorem | Property |
|---|---|
| `PurgesNoMoreThanNeeded` | `NoMoreThanNeeded` |
| `PurgesLeastImportantFirst` | `LeastImportantFirst` |
| `TrimsLast` | `TrimIsLastResort` |
| `WorkStaysKnown`, `TypeCorrect` | `IInv`, `TypeOK` |

`IInv` is the typing of observers, queue and kernel (`KInv`) and an invariant of the purge
handler's work (`WInv`): what the trigger is short of is the target of the present type less what
it gave, and more than nothing (`Balanced`); the entries on the list carry the priority of their
most important holder, and no block that was tried is more important (`Ordered`); the blocks of
the scan are tried or on the list (`Complete`). None of it mentions the buffer or what is pinned
now, and that is why applications and the dump command cannot disturb it. `MapScanned` shows that
`GetashmIdToInfoMap`, a loop over any number of lines, gives each block the least priority of
its holders; the induction over the lines is done with a least counterexample (`WFMin`).
`SumType` does the same for the sum over a finite set.

`PressureAnswered` is liveness and only checked.

## 11. Calls (`MemMgrIpc`)

A call goes through four steps: the client looks the service up and marshals, the stub checks
the caller and unmarshals, the service does the work, the reply is read. A parcel is the
sequence of the values written, so that a field written and read in another order shows. The
service may crash between any two of them.

| Run | Instance | What it shows |
|---|---|---|
| `ipc_calls` | a native client with the uid of foundation and of the window manager, and an application with the camera's uid; every transaction between them; two bundles, one crash | `ServedAsAsked`, `ListIsTable`, `SizeIsReal` |

With lists limited to two bundles (`MAX_PARCEL_SIZE`, 1000 in the code) a list that is passed
again grows over the limit: the service adds its table to the list the client sent, so the client gets what it had followed by
the table, and beyond the limit every call with that list fails. Windows are limited to two (100000 in the code),
and a call with three is among those made.

`pressure` is what ZSWAPD_PRESSURE_SHOW says of the buffer: nothing that can be read, which counts as
`MAX_BUFFER_KB`, a negative number, or the largest size. `total` is the cached `totalBuffer_`: -1 until
`/proc/meminfo` has been read, and again after a crash. `GetAvailableMemory` and `GetTotalMemory` refuse what is
negative or `MAX_BUFFER_KB` and above, which is what `SizeIsReal` rests on: the two failure values
are different and each passes one half of the check.

`NotifyProcessStatus` and
`SetCritical` report success when the transaction failed and are excepted from `ServedAsAsked`.
`GetReclaimPriorityByPid` takes a successful read for a failure (mem_mgr_service.cpp:230) and
answers -1 always; the model does the same.

### Proofs (`MemMgrIpc_proofs`)

For any clients, finite set of bundles, limit of a parcel and number of crashes
(`IpcAssumption`).

| Theorem | Property |
|---|---|
| `SuccessMeansServed` | `ServedAsAsked` |
| `ListFromTable` | `ListIsTable` |
| `SizeFromKernel` | `SizeIsReal` |
| `CallsKnown` | `IInv` |
| `CallTypes` | `TypeOK` |

`IInv` says of each call, phase by phase (`Sent`, `Served`, `Answered`), what its parcel holds
and what the service has done for it. The argument is in the lemmas of the round trip
(`CountedRoundTrip`, `ListRoundTrip`, `ArgumentsRoundTrip`): what `MemMgrProxy` writes for a
code is what `MemMgrStub` reads for it, for every value, and a list that is too long is
refused on the side that would read it. `SizeServed` is the argument for sizes: a cached total is
`MemTotal` or -1, and only the former passes. The steps of one client leave the calls of the others alone
(`StepOfOne`), and a crash only turns replies into errors.
`CallTypes` adds that no call is carried out twice, also one that fails (`Bounded`).

## 12. Registration (`EventCenter`)

One handler thread registers the observers, in the order of `RegisterEventObserver`; samgr
announces services and its announcements force the registration of one observer and of all
that are missing; extension and account registrations are retried; services die and forget.

| Run | Instance | What it shows |
|---|---|---|
| `event_center` | pressure, app, extension, account and background-task observers, the app manager not running at first; one death, one refusal | `NoMoreThanAnnounced`, `ClearedOutsideRegistration`, `Observed` |

The kswapd observer is registered like the pressure one and the common-event observer like the
background-task one, so one of each is enough. One death at any point, with the restart that
follows, and one refusal cover a retry that overlaps an announcement.

Fairness: the handler runs, notices are delivered, and delayed tasks get their turn among the
immediate ones (strong). Services need not come back: `Observed` speaks about services that stay
up. `ObituaryFirst` is assumed: the death of the ability manager is reported to the extension
observer before samgr announces its successor. Nothing in the code ensures it; in the other
order the late report clears the new observer and extensions stay unobserved. A refused
registration of the app, common-event or background-task observer is never repeated, and
`regAccountObsRetry_` is never reset, which is why `Observed` excepts refused ones. The code counts it on for
ever; `attempts` stops at `ACCOUNT_MAX_RETRY_TIMES`, from where on it is only compared, so `CenterTypes`
says nothing of the code's counter beyond that.

An app observer is registered once per announcement of the app manager *and* of the ability
manager, so that events arrive several times; `ReclaimPriority` bears that because
`procs_.insert` does not overwrite and its handlers are idempotent.

### Proofs (`EventCenter_proofs`)

For any set of observers with the app observer, any services that boot or die, retry limit and
numbers of deaths and refusals (`CenterAssumption`).

| Theorem | Property |
|---|---|
| `AnnouncedOnly` | `NoMoreThanAnnounced` |
| `ClearingIsSafe` | `ClearedOutsideRegistration` |
| `CenterTypes` | `TypeOK` |

`IInv` is a balance (`Balanced`): the observers of a kind that are registered, in a delayed
retry, in a queued task or being registered by the running one are no more than the
announcements of its service, and one if the pointer is set. Each action moves one unit from
one place to another, or creates one with an announcement or a pointer. `WorkOK` says that only
the first item of the running task may be unconditional, and `ExtOnce` that a death is reported
only of an extension observer of which nothing else is under way. From the balance follows that there is at most one delayed task for
the extension observer and for each monitor (`CenterTypes`). No theorem needs
`ObituaryFirst`; that assumption is for `Observed`, which is liveness and only checked.

## 13. What is proved and what is only checked

Proved for every instance that satisfies the named assumptions: every safety property and action
property of every run, and the refinement of `SwapOutQuota` by `NandLife`. Two theorems have a hypothesis beside
them: `NeverHangs` (`NoSystemTarget`) and `ClientsProtect` (no `APPLICATION_SUSPEND`), see section 3. The proofs
are by SMT, Zenon and, for the temporal steps, LS4. Inductions over data (the lines of the
ashmem file, the list that is erased from, the sums, the sections of a document, the requests put in order) are made as arguments about a least
counterexample, with the library's theorem that the naturals are well founded.

Only model-checked: liveness (`NobodyPassedOver`, `StaleEntryGoes`, `ReopensLater`, `DeadForgotten`,
`UnsubscribeReturns`, `PressureAnswered`, `Observed`), which rests on fairness and is beyond the
prover, and the sections of `MemmgrConfig` other than `reclaimConfig`, which only their
values in `strategy_memcg` exercise.

`SystemAppsPinned` is proved (`SystemCorrect`) and in no run: a killable system bundle beside the unlocked check would
exceed the bounds.

Every module of a component states a type invariant (`TypeOK`; `WindowTypeOK` and `StrategyTypeOK` in the
two that share a module of proofs). All of them are proved; `ReclaimPriority`'s is also checked by a run.

Not modelled: the text of dumps, logging, the reading of files below the parsers, start and
stop of the service ability, and what the observers forward (their events are inputs of
`ReclaimPriority`, `MultiAccount` and `WindowVisibility`). `RemoveEventObserver` does nothing but
`Reset`, which is an action of `ReclaimPriority`.
