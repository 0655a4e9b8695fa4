-------------------------- MODULE ReclaimPriority --------------------------
(***************************************************************************)
(* The ReclaimPriorityManager: the table of accounts, bundles and          *)
(* processes, the sorted bundle list the killer reads, and the             *)
(* oom_score_adj values written to the kernel.                             *)
(*                                                                         *)
(* Every task of the manager's event handler that holds                    *)
(* totalBundlePrioSetLock_ is one action, except that the loop which       *)
(* re-prioritises connected extensions (SetConnectExtensionProcPrio) takes *)
(* one step per iteration and the final ApplyReclaimPriority one more.     *)
(*                                                                         *)
(* CheckCreateProcPriorityDelay takes no lock, and an ability start or a   *)
(* Reset on another thread may fall between any two of its accesses to     *)
(* what they also write:                                                   *)
(*   "cap"      the level of the process is set, not yet capped by status  *)
(*   "min"      the bundle is erased from the set, its minimum not read    *)
(*   "file"     the minimum is read, not yet set and inserted              *)
(*   "set"      between two extensions of the loop                         *)
(*   "extMin"   as "min", for the bundle of the extension just set         *)
(*   "extFile"  as "file"                                                  *)
(*   "write"    the priorities are read, not yet written to the kernel     *)
(* Setting a bundle's priority and inserting it are one step: nothing that *)
(* runs in between sees or does anything else than before or after both.   *)
(* Two threads inside std::set at once are outside the model.              *)
(***************************************************************************)
EXTENDS Integers, FiniteSetsExt

CONSTANTS
  Pid,            \* process ids, a set of naturals: std::map iterates them in order
  Uid,            \* bundle uids
  Account,        \* os account ids
  UidOf,          \* [Pid -> Uid]: the bundle a process belongs to
  AccountOf,      \* [Uid -> Account]: GetOsAccountIdByUid
  Render,         \* the pids that are render processes
  Important,      \* the pids whose process name is in importantBgApps
  ImportantPrio,  \* [Pid -> priority]: the configured priority of these
  XmlKillable,    \* the bundles in the xml list of killable system apps
  KeepAlive,      \* the bundles BMS reports as keepAlive
  BmsMayFail,     \* may a query to BMS fail?
  Mortal,         \* the pids that may exit
  Starters,       \* the pids that may start an ability
  Reasons,        \* the status-change reasons the observers raise
  Binds           \* the <<caller, extension>> pairs that connect

RECLAIM_PRIORITY_MIN             == -1000
RECLAIM_PRIORITY_KILLABLE_SYSTEM == -800
RECLAIM_PRIORITY_FOREGROUND      == 0
RECLAIM_PRIORITY_VISIBLE         == 50
RECLAIM_PRIORITY_BG_SUSPEND_DELAY == 100
RECLAIM_PRIORITY_BG_PERCEIVED    == 200
RECLAIM_PRIORITY_BG_DIST_DEVICE  == 260
RECLAIM_PRIORITY_BACKGROUND      == 400
RECLAIM_PRIORITY_SUSPEND         == 800
RECLAIM_PRIORITY_UNKNOWN         == 1000
RECLAIM_PRIORITY_MAX             == 1000

Priority == RECLAIM_PRIORITY_MIN .. RECLAIM_PRIORITY_MAX

\* The boolean fields of ProcessPriorityInfo, as the set of those that are true.
Flag == {"fg", "visible", "suspendDelay", "bgRunning", "event", "dist", "ui", "extension"}

\* changeProcMapping_: the flags each reason sets and clears.
ChangeProc ==
  [ FOREGROUND               |-> [on |-> {"fg", "ui"},    off |-> {}],
    BACKGROUND               |-> [on |-> {"ui"},          off |-> {"fg"}],
    SUSPEND_DELAY_START      |-> [on |-> {"suspendDelay"}, off |-> {}],
    SUSPEND_DELAY_END        |-> [on |-> {},              off |-> {"suspendDelay"}],
    BACKGROUND_RUNNING_START |-> [on |-> {"bgRunning"},   off |-> {}],
    BACKGROUND_RUNNING_END   |-> [on |-> {},              off |-> {"bgRunning"}],
    EVENT_START              |-> [on |-> {"event"},       off |-> {}],
    EVENT_END                |-> [on |-> {},              off |-> {"event"}],
    DIST_DEVICE_CONNECTED    |-> [on |-> {"dist"},        off |-> {}],
    DIST_DEVICE_DISCONNECTED |-> [on |-> {},              off |-> {"dist"}],
    VISIBLE                  |-> [on |-> {"visible"},     off |-> {}],
    UN_VISIBLE               |-> [on |-> {},              off |-> {"visible"}] ]

ASSUME ConstantsAssumption ==
  /\ Pid \subseteq Nat
  /\ UidOf \in [Pid -> Uid]
  /\ AccountOf \in [Uid -> Account]
  /\ Render \subseteq Pid
  /\ Important \subseteq Pid
  /\ ImportantPrio \in [Pid -> Priority]
  /\ XmlKillable \subseteq Uid
  /\ KeepAlive \subseteq Uid
  /\ BmsMayFail \in BOOLEAN
  /\ Mortal \subseteq Pid
  /\ Starters \subseteq Pid
  /\ Reasons \subseteq DOMAIN ChangeProc \cup {"APPLICATION_SUSPEND"}
  /\ Binds \subseteq Pid \X Pid

VARIABLES
  life,        \* kernel and app framework: what has happened to each pid so far
  oom,         \* kernel: oom_score_adj of each process
  known,       \* the pids with a ProcessPriorityInfo
  prio,        \* priority_ of each known process
  status,      \* its flags
  starting,    \* the processes with isAbilityStarting_
  toMe,        \* procsBindToMe_
  fromMe,      \* procsBindFromMe_
  bundles,     \* the uids with a BundlePriorityInfo in their account
  bprio,       \* priority_ of each bundle
  accounts,    \* keys of osAccountsInfoMap_
  prioSet,     \* totalBundlePrioSet_: the <<priority, uid>> keys in the std::set
  overtaken,   \* is the order of that set lost?  It is not tracked any longer then
  killList,    \* allKillableSystemApps_
  startTimer,  \* pids with a pending CheckAbilityStartCompleted task
  createCheck, \* pids with a pending CheckCreateProcPriorityDelay task
  stage,       \* "idle", "set" (inside a handler), "hang" (GetConnectedExtensionProc
               \* loops), or where the unlocked handler is, see above
  target,      \* the process whose record the unlocked handler has in hand
  minimum,     \* its local: the level it set, or the minimum it read for the bundle
  todo,        \* the rest of the ProcInfoSet: <<calculated priority, pid>>
  dirty,       \* the bundle whose oom_score_adj the running handler still has to write
  pending,     \* <<pid, priority>> read without the lock and not yet written
  locked       \* does the running handler hold totalBundlePrioSetLock_?

procVars   == <<known, prio, status, starting, toMe, fromMe>>
bundleVars == <<bundles, bprio, accounts, prioSet, overtaken>>
timerVars  == <<startTimer, createCheck>>
jobVars    == <<stage, target, minimum, todo, dirty, pending, locked>>
vars == <<life, oom, procVars, bundleVars, killList, timerVars, jobVars>>

(***************************************************************************)
(* A pid is "fresh" when its CREATE_PROCESS is still queued, "stillborn"   *)
(* when it died before that, "live" once it is handled, "dead" until its   *)
(* PROCESS_TERMINATED is handled, and "gone" otherwise.                    *)
(***************************************************************************)
Life == {"gone", "fresh", "stillborn", "live", "dead"}
Alive(p) == life[p] \in {"fresh", "live"}

TypeOK ==
  /\ life \in [Pid -> Life]
  /\ oom \in [Pid -> Priority]
  /\ known \in SUBSET Pid
  /\ prio \in [Pid -> Priority]
  /\ status \in [Pid -> SUBSET Flag]
  /\ starting \in SUBSET Pid
  /\ toMe \in [Pid -> SUBSET Pid]
  /\ fromMe \in [Pid -> SUBSET Pid]
  /\ bundles \in SUBSET Uid
  /\ bprio \in [Uid -> Priority]
  /\ accounts \in SUBSET Account
  /\ prioSet \in SUBSET (Priority \X Uid)
  /\ overtaken \in BOOLEAN
  /\ killList \in SUBSET Uid
  /\ startTimer \in SUBSET Pid
  /\ createCheck \in SUBSET Pid
  /\ stage \in {"idle", "set", "hang", "cap", "min", "file", "extMin", "extFile", "write"}
  /\ target \in SUBSET Pid
  /\ minimum \in Priority
  /\ todo \in SUBSET (Priority \X Pid)
  /\ dirty \in SUBSET Uid
  /\ pending \in SUBSET (Pid \X Priority)
  /\ locked \in BOOLEAN

Init ==
  /\ life = [p \in Pid |-> "gone"]
  /\ oom = [p \in Pid |-> RECLAIM_PRIORITY_UNKNOWN]
  /\ known = {}
  /\ prio = [p \in Pid |-> RECLAIM_PRIORITY_UNKNOWN]
  /\ status = [p \in Pid |-> {}]
  /\ starting = {}
  /\ toMe = [p \in Pid |-> {}]
  /\ fromMe = [p \in Pid |-> {}]
  /\ bundles = {}
  /\ bprio = [u \in Uid |-> RECLAIM_PRIORITY_UNKNOWN]
  /\ accounts = {}
  /\ prioSet = {}
  /\ overtaken = FALSE
  /\ killList = XmlKillable
  /\ startTimer = {}
  /\ createCheck = {}
  /\ stage = "idle"
  /\ target = {}
  /\ minimum = RECLAIM_PRIORITY_UNKNOWN
  /\ todo = {}
  /\ dirty = {}
  /\ pending = {}
  /\ locked = FALSE

-----------------------------------------------------------------------------
(* Helpers of the manager.                                                 *)

Least(a, b) == IF a < b THEN a ELSE b

ProcsOf(u, kn) == {p \in kn : UidOf[p] = u}

\* BundlePriorityInfo::GetMinProcPriority and UpdatePriority.
BundlePriority(u, kn, pr) ==
  LET m == Min({RECLAIM_PRIORITY_UNKNOWN} \cup {pr[p] : p \in ProcsOf(u, kn)})
  IN  IF m <= RECLAIM_PRIORITY_MIN THEN RECLAIM_PRIORITY_MIN ELSE m

\* The keys in the set, while its order is known.
Listed(keys) == IF overtaken' THEN {} ELSE keys

\* Mutant: the bundle is not erased from the set before its key changes.
UpdateBundlePriorityNoErase(u) ==
  LET np == BundlePriority(u, known', prio')
  IN  /\ bprio' = [bprio EXCEPT ![u] = np]
      /\ prioSet' = Listed(prioSet \cup {<<np, u>>})

\* Mutant: the bundle goes back under the priority it had.
UpdateBundlePriorityStale(u) ==
  /\ bprio' = bprio
  /\ prioSet' = Listed(prioSet \cup {<<bprio[u], u>>})

\* Erase the bundle from the set, recompute its priority, insert it again.
UpdateBundlePriority(u) ==
  LET np == BundlePriority(u, known', prio')
  IN  /\ bprio' = [bprio EXCEPT ![u] = np]
      /\ prioSet' = Listed((prioSet \ {<<bprio[u], u>>}) \cup {<<np, u>>})

\* Mutant: the priorities are written before they are updated.
WriteOomScoreAdjToKernelEarly(u) ==
  oom' = [p \in Pid |-> IF p \in ProcsOf(u, known') /\ Alive(p) THEN prio[p] ELSE oom[p]]

\* OomScoreAdjUtils::WriteOomScoreAdjToKernel(bundle); a write for a dead pid fails.
WriteOomScoreAdjToKernel(u) ==
  oom' = [p \in Pid |-> IF p \in ProcsOf(u, known') /\ Alive(p) THEN prio'[p] ELSE oom[p]]

\* The events of such a bundle are skipped.
IsSystemBundle(u) == bprio[u] <= RECLAIM_PRIORITY_KILLABLE_SYSTEM

\* The answers IsKillableSystemApp may give: the list, else BMS, which may be down.
IsKillableSystemApp(u) ==
  IF u \in killList THEN {TRUE}
  ELSE {u \in KeepAlive} \cup (IF BmsMayFail THEN {FALSE} ELSE {})

\* Mutant: a transient task hides that the process is visible.
PriorityByStatusTaskFirst(p, old, st) ==
  CASE "fg" \in st -> RECLAIM_PRIORITY_FOREGROUND
    [] "suspendDelay" \in st -> RECLAIM_PRIORITY_BG_SUSPEND_DELAY
    [] OTHER -> IF "visible" \in st THEN RECLAIM_PRIORITY_VISIBLE ELSE RECLAIM_PRIORITY_BACKGROUND

\* The level of a background process by its tasks; 1000 when it has none.
TaskLevel(st) ==
  CASE "suspendDelay" \in st -> RECLAIM_PRIORITY_BG_SUSPEND_DELAY
    [] "suspendDelay" \notin st /\ {"bgRunning", "event"} \cap st # {}
         -> RECLAIM_PRIORITY_BG_PERCEIVED
    [] {"suspendDelay", "bgRunning", "event"} \cap st = {} /\ "dist" \in st
         -> RECLAIM_PRIORITY_BG_DIST_DEVICE
    [] OTHER -> RECLAIM_PRIORITY_UNKNOWN

VisibleLevel(st) ==
  IF "visible" \in st THEN RECLAIM_PRIORITY_VISIBLE ELSE RECLAIM_PRIORITY_UNKNOWN

\* SetImportantProcPriority caps the priority of an important process.
ImportantLevel(p) ==
  IF p \in Important THEN ImportantPrio[p] ELSE RECLAIM_PRIORITY_UNKNOWN

\* A background process that is no extension falls to BACKGROUND first.
BaseLevel(old, st) ==
  CASE "fg" \in st -> Least(old, RECLAIM_PRIORITY_FOREGROUND)
    [] {"fg", "extension"} \cap st = {} -> RECLAIM_PRIORITY_BACKGROUND
    [] OTHER -> old

\* Level x, unless the flags or the configuration give a more important one.
Capped(p, x, st) ==
  Least(Least(x, VisibleLevel(st)), Least(TaskLevel(st), ImportantLevel(p)))

\* The priority UpdatePriorityByProcStatus gives a process with flags st.
PriorityByStatus(p, old, st) == Capped(p, BaseLevel(old, st), st)

\* GetPriorityByProcStatus: the priority of an extension process seen as an app.
GetPriorityByProcStatus(p, old, st) ==
  CASE p \in Important /\ old >= ImportantPrio[p] -> ImportantPrio[p]
    [] OTHER ->
       CASE "fg" \in st -> RECLAIM_PRIORITY_FOREGROUND
         [] "fg" \notin st /\ "visible" \in st -> RECLAIM_PRIORITY_VISIBLE
         [] {"fg", "visible"} \cap st = {}
              -> Least(TaskLevel(st), IF "ui" \in st THEN RECLAIM_PRIORITY_BACKGROUND
                                                     ELSE RECLAIM_PRIORITY_UNKNOWN)

(***************************************************************************)
(* GetConnectedExtensionProc walks procsBindFromMe_ breadth first from     *)
(* process p.  Only extension processes enter its visited set.             *)
(***************************************************************************)
Closed(S, kn, fm) == \A q \in S : fm[q] \cap kn \subseteq S

Reached(p, kn, fm) ==
  {q \in Pid : \A S \in SUBSET Pid : p \in S /\ Closed(S, kn, fm) => q \in S}

ConnectedExtensions(p, kn, st, fm) ==
  {q \in Reached(p, kn, fm) : "extension" \in st[q]}

\* Mutant: no process is entered into the visited set.
WalkLoopsNoVisitedSet(p, kn, st, fm) ==
  \E S \in SUBSET Reached(p, kn, fm) : S # {} /\ \A q \in S : fm[q] \cap kn \cap S # {}

\* A cycle of known processes that are not extensions is walked for ever.
WalkLoops(p, kn, st, fm) ==
  \E S \in SUBSET {q \in Reached(p, kn, fm) : "extension" \notin st[q]} :
     S # {} /\ \A q \in S : fm[q] \cap kn \cap S # {}

\* CalculateExtensionProcPrio: the sort key.  A connector that is not in the
\* table assigns 0 and forgets the connectors before it.
CalculateExtensionProcPrio(q) ==
  LET missing == toMe'[q] \ known'
      counted == IF missing = {} THEN toMe'[q]
                 ELSE {c \in toMe'[q] : \A m \in missing : m < c}
      first   == IF missing = {} THEN RECLAIM_PRIORITY_BACKGROUND ELSE 0
  IN  Min({first} \cup {prio'[c] : c \in counted})

\* Mutant: the extensions a process is connected to are forgotten.
UpdatePriorityByProcForExtensionForgets(p) ==
  /\ stage' = "set"
  /\ todo' = {}

UpdatePriorityByProcForExtension(p) ==
  LET exts == ConnectedExtensions(p, known', status', fromMe')
  IN  IF WalkLoops(p, known', status', fromMe')
      THEN /\ stage' = "hang"
           /\ todo' = {}
      ELSE /\ stage' = "set"
           /\ todo' = {<<CalculateExtensionProcPrio(q), q>> : q \in exts}

\* The handler goes on to ApplyReclaimPriority with nothing to propagate.
NothingToPropagate ==
  /\ stage' = "set"
  /\ todo' = {}

\* UpdatePriorityByProcStatus; the table fields it reads are already primed.
UpdatePriorityByProcStatus(p) ==
  \/ /\ bprio[UidOf[p]] < RECLAIM_PRIORITY_FOREGROUND
     /\ UNCHANGED <<prio, bprio, prioSet>>
     /\ NothingToPropagate
  \/ /\ bprio[UidOf[p]] >= RECLAIM_PRIORITY_FOREGROUND
     /\ prio' = [prio EXCEPT ![p] = PriorityByStatus(p, prio[p], status'[p])]
     /\ UpdateBundlePriority(UidOf[p])
     /\ UpdatePriorityByProcForExtension(p)

-----------------------------------------------------------------------------
(* The environment: the kernel starts and ends processes.                  *)

Spawn(p) ==
  /\ life[p] = "gone"
  /\ life' = [life EXCEPT ![p] = "fresh"]
  /\ oom' = [oom EXCEPT ![p] = RECLAIM_PRIORITY_UNKNOWN]
  /\ UNCHANGED <<procVars, bundleVars, killList, timerVars, jobVars>>

Exit(p) ==
  /\ Alive(p)
  /\ life' = [life EXCEPT ![p] = IF @ = "fresh" THEN "stillborn" ELSE "dead"]
  /\ oom' = [oom EXCEPT ![p] = RECLAIM_PRIORITY_UNKNOWN]
  /\ UNCHANGED <<procVars, bundleVars, killList, timerVars, jobVars>>

-----------------------------------------------------------------------------
(* Tasks of the handler thread.                                            *)

Idle == stage = "idle"

CreatedLife(p) ==
  /\ life[p] \in {"fresh", "stillborn"}
  /\ life' = [life EXCEPT ![p] = IF @ = "fresh" THEN "live" ELSE "dead"]

\* HandleCreateProcess for a render process only writes oom_score_adj.
HandleCreateRender(p) ==
  /\ Idle
  /\ p \in Render
  /\ CreatedLife(p)
  /\ oom' = IF Alive(p) THEN [oom EXCEPT ![p] = RECLAIM_PRIORITY_FOREGROUND] ELSE oom
  /\ UNCHANGED <<procVars, bundleVars, killList, timerVars, jobVars>>

\* The priority of a new ProcessPriorityInfo.
CreatePriority(p, killable) ==
  LET first == IF p \in Important THEN ImportantPrio[p] ELSE RECLAIM_PRIORITY_FOREGROUND
  IN  IF killable /\ first > RECLAIM_PRIORITY_KILLABLE_SYSTEM
      THEN RECLAIM_PRIORITY_KILLABLE_SYSTEM ELSE first

\* procs_.insert does not overwrite the record of a pid that is already known.
HandleCreateProcess(p) ==
  LET u == UidOf[p]
  IN  /\ Idle
      /\ p \notin Render
      /\ CreatedLife(p)
      /\ accounts' = accounts \cup {AccountOf[u]}
      /\ bundles' = bundles \cup {u}
      /\ \E killable \in IsKillableSystemApp(u) :
           /\ killList' = IF killable THEN killList \cup {u} ELSE killList
           /\ prio' = IF p \in known THEN prio
                      ELSE [prio EXCEPT ![p] = CreatePriority(p, killable)]
      /\ known' = known \cup {p}
      /\ UNCHANGED overtaken
      /\ UpdateBundlePriority(u)
      /\ WriteOomScoreAdjToKernel(u)
      /\ createCheck' = createCheck \cup {p}
      /\ UNCHANGED <<status, starting, toMe, fromMe, startTimer, jobVars>>

\* Forget the records of the processes in gone.
RemoveProcs(gone) ==
  /\ known' = known \ gone
  /\ prio' = [p \in Pid |-> IF p \in gone THEN RECLAIM_PRIORITY_UNKNOWN ELSE prio[p]]
  /\ status' = [p \in Pid |-> IF p \in gone THEN {} ELSE status[p]]
  /\ starting' = starting \ gone

\* Forget the bundles in empty: from the account and from the sorted set.
RemoveBundles(empty) ==
  /\ bundles' = bundles \ empty
  /\ bprio' = [u \in Uid |-> IF u \in empty THEN RECLAIM_PRIORITY_UNKNOWN ELSE bprio[u]]
  /\ prioSet' = Listed(prioSet \ {<<bprio[u], u>> : u \in empty})

HandleTerminateProcess(p) ==
  LET u == UidOf[p]
  IN  /\ RemoveProcs({p})
      /\ toMe' = [toMe EXCEPT ![p] = {}]
      /\ fromMe' = [fromMe EXCEPT ![p] = {}]
      /\ UNCHANGED overtaken
      /\ \/ /\ ProcsOf(u, known') = {}
            /\ RemoveBundles({u})
         \/ /\ ProcsOf(u, known') # {}
            /\ prio[p] <= bprio[u]
            /\ UpdateBundlePriority(u)
            /\ UNCHANGED bundles
         \/ /\ ProcsOf(u, known') # {}
            /\ prio[p] > bprio[u]
            /\ UNCHANGED <<bundles, bprio, prioSet>>
      /\ accounts' = IF \E v \in bundles' : AccountOf[v] = AccountOf[u]
                     THEN accounts ELSE accounts \ {AccountOf[u]}

\* PROCESS_TERMINATED: ignored for an unknown process and for a system bundle.
ProcessTerminated(p) ==
  /\ Idle
  /\ life[p] = "dead"
  /\ life' = [life EXCEPT ![p] = "gone"]
  /\ \/ /\ p \in known
        /\ ~IsSystemBundle(UidOf[p])
        /\ HandleTerminateProcess(p)
     \/ /\ p \in known => IsSystemBundle(UidOf[p])
        /\ UNCHANGED <<procVars, bundleVars>>
  /\ UNCHANGED <<oom, killList, timerVars, jobVars>>

(***************************************************************************)
(* HandleDiedProcessCheck walks the sorted set.  A bundle that keeps a     *)
(* process keeps its priority, an account that loses its last bundle       *)
(* stays.  Once the set holds a bundle twice or one that was forgotten,    *)
(* a listed bundle without processes removes the table's bundle of the     *)
(* same uid (lost), and a bundle may be missing from the walk (unlisted).  *)
(***************************************************************************)
FilterDiedProcess ==
  \E lost, unlisted \in SUBSET (IF overtaken THEN bundles ELSE {}) :
    LET alive == {p \in Pid : Alive(p)}
        gone  == {p \in known : \/ UidOf[p] \in lost
                               \/ ~(p \in alive \/ UidOf[p] \in unlisted)}
        left(p, binds) ==
          IF p \notin known \ gone THEN {}
          ELSE IF UidOf[p] \in unlisted THEN binds ELSE binds \cap alive
    IN  /\ Idle
        /\ RemoveProcs(gone)
        /\ toMe' = [p \in Pid |-> left(p, toMe[p])]
        /\ fromMe' = [p \in Pid |-> left(p, fromMe[p])]
        /\ UNCHANGED <<life, oom, accounts, overtaken, killList, timerVars, jobVars>>
        /\ RemoveBundles({u \in bundles : ProcsOf(u, known') = {}})

\* The handler marks its bundle for ApplyReclaimPriority.
Begin(u, holdsLock) ==
  /\ dirty' = {u}
  /\ locked' = holdsLock
  /\ UNCHANGED <<pending, target, minimum>>

(***************************************************************************)
(* A status change, through HandleUpdateProcess.  before is true when the  *)
(* event was stamped before the ability start that is now under way: it    *)
(* was posted earlier but overtaken by the IMMEDIATE start event.          *)
(***************************************************************************)
HandleUpdateProcess(p, r, before) ==
  LET ends == /\ r \in {"FOREGROUND", "BACKGROUND"}
              /\ p \in starting
              /\ ~before
  IN  /\ Idle
      /\ p \in known
      /\ ~IsSystemBundle(UidOf[p])
      /\ before => p \in starting
      /\ status' = [status EXCEPT ![p] = (@ \cup ChangeProc[r].on) \ ChangeProc[r].off]
      /\ starting' = IF ends THEN starting \ {p} ELSE starting
      /\ startTimer' = IF ends THEN startTimer \ {p} ELSE startTimer
      /\ UNCHANGED <<life, oom, known, toMe, fromMe, bundles, accounts, overtaken, killList,
                     createCheck>>
      /\ \/ /\ before
            /\ UNCHANGED <<prio, bprio, prioSet>>
            /\ NothingToPropagate
         \/ /\ ~before
            /\ UpdatePriorityByProcStatus(p)
      /\ Begin(UidOf[p], TRUE)

\* Mutant: the suspend priority is added to the process's own.
SuspendPriorityAdds(p) == prio[p] + RECLAIM_PRIORITY_SUSPEND

SuspendPriority(p) == RECLAIM_PRIORITY_SUSPEND

\* APPLICATION_SUSPEND: every process of the bundle, whatever its status.
HandleApplicationSuspend(u) ==
  /\ Idle
  /\ u \in bundles
  /\ ~IsSystemBundle(u)
  /\ prio' = [p \in Pid |-> IF p \in ProcsOf(u, known) THEN SuspendPriority(p) ELSE prio[p]]
  /\ UNCHANGED <<known, overtaken>>
  /\ UpdateBundlePriority(u)
  /\ WriteOomScoreAdjToKernel(u)
  /\ UNCHANGED <<life, status, starting, toMe, fromMe, bundles, accounts, killList,
                 timerVars, jobVars>>

\* The caller's side of BIND_EXTENSION and UNBIND_EXTENSION.
UpdateExtensionStatusForCaller(c, t, bind) ==
  fromMe' = IF c \notin known THEN fromMe
            ELSE [fromMe EXCEPT ![c] = IF bind THEN @ \cup {t} ELSE @ \ {t}]

\* The extension's side, when it is a process to re-prioritise.
UpdateExtensionStatusForTarget(c, t, bind, before) ==
  /\ before => t \in starting
  /\ status' = [status EXCEPT ![t] = (@ \ {"fg"}) \cup {"extension"}]
  /\ toMe' = [toMe EXCEPT ![t] = IF bind THEN @ \cup {c} ELSE @ \ {c}]
  /\ \/ /\ before
        /\ UNCHANGED <<prio, bprio, prioSet>>
        /\ NothingToPropagate
     \/ /\ ~before
        /\ UpdatePriorityByProcStatus(t)
  /\ Begin(UidOf[t], TRUE)

HandleExtensionProcess(c, t, bind, before) ==
  LET u       == UidOf[t]
      system  == prio[t] <= RECLAIM_PRIORITY_KILLABLE_SYSTEM
                   \/ IsSystemBundle(u)
      answers == IF t \notin known \/ system THEN {TRUE} ELSE IsKillableSystemApp(u)
  IN  /\ Idle
      /\ UNCHANGED <<life, oom, known, starting, bundles, accounts, overtaken, timerVars>>
      /\ UpdateExtensionStatusForCaller(c, t, bind)
      /\ \E skip \in answers :
           /\ killList' = IF skip /\ t \in known /\ ~system THEN killList \cup {u} ELSE killList
           /\ \/ /\ skip
                 /\ ~before
                 /\ UNCHANGED <<prio, status, toMe, bprio, prioSet, jobVars>>
              \/ /\ ~skip
                 /\ UpdateExtensionStatusForTarget(c, t, bind, before)

\* CheckCreateProcPriorityDelay, 15 s after the creation; takes no lock.  It begins
\* UpdatePriorityByProcStatus as far as the level before the caps.
CheckCreateProcPriorityDelay(p) ==
  /\ Idle
  /\ p \in createCheck
  /\ createCheck' = createCheck \ {p}
  /\ UNCHANGED <<life, oom, known, status, starting, toMe, fromMe, bundleVars, killList,
                 startTimer>>
  /\ \/ /\ p \notin known
        /\ UNCHANGED <<prio, jobVars>>
     \/ /\ p \in known
        /\ bprio[UidOf[p]] < RECLAIM_PRIORITY_FOREGROUND
        /\ UNCHANGED prio
        /\ NothingToPropagate
        /\ Begin(UidOf[p], FALSE)
     \/ /\ p \in known
        /\ bprio[UidOf[p]] >= RECLAIM_PRIORITY_FOREGROUND
        /\ prio' = [prio EXCEPT ![p] = BaseLevel(prio[p], status[p])]
        /\ stage' = "cap"
        /\ target' = {p}
        /\ minimum' = prio'[p]
        /\ dirty' = {UidOf[p]}
        /\ locked' = FALSE
        /\ UNCHANGED <<todo, pending>>

\* CheckAbilityStartCompleted, 10 s after the last ability start.
CheckAbilityStartCompleted(p) ==
  /\ Idle
  /\ p \in startTimer
  /\ startTimer' = startTimer \ {p}
  /\ UNCHANGED <<life, oom, known, status, toMe, fromMe, bundles, accounts, overtaken, killList,
                 createCheck>>
  /\ \/ /\ p \notin known \cap starting
        /\ UNCHANGED <<starting, prio, bprio, prioSet, jobVars>>
     \/ /\ p \in known \cap starting
        /\ starting' = starting \ {p}
        /\ UpdatePriorityByProcStatus(p)
        /\ Begin(UidOf[p], TRUE)

-----------------------------------------------------------------------------
(* The rest of a handler.                                                  *)

\* The order of ProcInfoCmpByPriority.
FirstOf(S, e) == \A f \in S : e[1] < f[1] \/ (e[1] = f[1] /\ e[2] <= f[2])

\* The most important connector of extension q, 400 if it has none.
ConnectorPriority(q) ==
  IF toMe[q] \subseteq known
  THEN Min({RECLAIM_PRIORITY_BACKGROUND}
             \cup {IF prio[c] < 0 THEN 0 ELSE prio[c] : c \in toMe[q]})
  ELSE 0

\* The priority an iteration of SetConnectExtensionProcPrio gives extension q.
ExtensionPriority(q) ==
  LET m == Least(GetPriorityByProcStatus(q, prio[q], status[q]), ConnectorPriority(q) + 100)
  IN  IF q \in Important THEN Least(m, ImportantPrio[q]) ELSE m

\* WriteOomScoreAdjToKernel(pid, priority).
WriteOneOomScoreAdj(q) == oom' = IF Alive(q) THEN [oom EXCEPT ![q] = prio'[q]] ELSE oom

SetConnectExtensionProcPrio ==
  /\ stage = "set"
  /\ pending = {}
  /\ \E e \in todo :
       LET q == e[2]
       IN  /\ FirstOf(todo, e)
           /\ todo' = todo \ {e}
           /\ UNCHANGED <<known, overtaken>>
           /\ \/ /\ q \notin known
                 /\ UNCHANGED <<prio, bprio, prioSet, oom, stage, target>>
              \/ /\ q \in known
                 /\ locked
                 /\ prio' = [prio EXCEPT ![q] = ExtensionPriority(q)]
                 /\ UpdateBundlePriority(UidOf[q])
                 /\ WriteOneOomScoreAdj(q)
                 /\ UNCHANGED <<stage, target>>
              \/ /\ q \in known
                 /\ ~locked
                 /\ prio' = [prio EXCEPT ![q] = ExtensionPriority(q)]
                 /\ prioSet' = Listed(prioSet \ {<<bprio[UidOf[q]], UidOf[q]>>})
                 /\ stage' = "extMin"
                 /\ target' = {q}
                 /\ UNCHANGED <<bprio, oom>>
  /\ UNCHANGED <<life, status, starting, toMe, fromMe, bundles, accounts, killList,
                 timerVars, minimum, dirty, pending, locked>>

\* The handler writes the bundle's oom_score_adj values and returns.
ApplyReclaimPriority ==
  /\ stage = "set"
  /\ todo = {}
  /\ locked
  /\ UNCHANGED <<procVars, bundleVars>>
  /\ \E u \in dirty : WriteOomScoreAdjToKernel(u)
  /\ stage' = "idle"
  /\ dirty' = {}
  /\ locked' = FALSE
  /\ UNCHANGED <<life, killList, timerVars, target, minimum, todo, pending>>

-----------------------------------------------------------------------------
(* The rest of CheckCreateProcPriorityDelay, which other threads may       *)
(* interrupt.  What it writes to the kernel for a process that Reset has   *)
(* forgotten in the meantime is left out.                                  *)

\* The bundle whose record the unlocked handler is about to change.
InHand == {UidOf[p] : p \in target}

\* The status caps the level, and the bundle is erased from the set.  A cap may have
\* read the level that was set before an ability start, and overwrite the start's.
CapPriority ==
  /\ stage = "cap"
  /\ \E p \in target :
       LET u == UidOf[p]
       IN  /\ \E seen \in {prio[p], minimum} :
                /\ seen = prio[p] \/ Capped(p, seen, status[p]) # seen
                /\ prio' = IF p \in known THEN [prio EXCEPT ![p] = Capped(p, seen, status[p])]
                           ELSE prio
           /\ UNCHANGED overtaken
           /\ prioSet' = Listed(prioSet \ {<<bprio[u], u>>})
  /\ stage' = "min"
  /\ minimum' = RECLAIM_PRIORITY_UNKNOWN
  /\ UNCHANGED <<life, oom, known, status, starting, toMe, fromMe, bundles, bprio, accounts,
                 killList, timerVars, target, todo, dirty, pending, locked>>

\* GetMinProcPriority reads the priorities of the bundle's processes ...
ReadMinimum ==
  /\ \/ stage = "min" /\ stage' = "file"
     \/ stage = "extMin" /\ stage' = "extFile"
  /\ \E p \in target : minimum' = BundlePriority(UidOf[p], known, prio)
  /\ UNCHANGED <<life, oom, procVars, bundleVars, killList, timerVars, target, todo, dirty,
                 pending, locked>>

\* ... and their minimum becomes the bundle's priority, whatever it is by now.
FileBundle ==
  /\ bprio' = [u \in Uid |-> IF u \in bundles \cap InHand THEN minimum ELSE bprio[u]]
  /\ UNCHANGED overtaken
  /\ prioSet' = Listed(prioSet \cup {<<minimum, u>> : u \in bundles \cap InHand})
  /\ target' = {}
  /\ minimum' = RECLAIM_PRIORITY_UNKNOWN
  /\ UNCHANGED <<life, oom, procVars, bundles, accounts, killList, timerVars, dirty, locked>>

FileOwn ==
  /\ stage = "file"
  /\ FileBundle
  /\ \E p \in target : UpdatePriorityByProcForExtension(p)
  /\ UNCHANGED pending

FileExtension ==
  /\ stage = "extFile"
  /\ FileBundle
  /\ stage' = "set"
  /\ pending' = {<<p, prio[p]>> : p \in target \cap known}
  /\ UNCHANGED todo

\* The last call of CheckCreateProcPriorityDelay reads the bundle's priorities ...
ReadUnlocked ==
  /\ stage = "set"
  /\ todo = {}
  /\ pending = {}
  /\ ~locked
  /\ stage' = "write"
  /\ pending' = {<<p, prio[p]>> : p \in {q \in known : UidOf[q] \in dirty}}
  /\ UNCHANGED <<life, oom, procVars, bundleVars, killList, timerVars, target, minimum, todo,
                 dirty, locked>>

\* ... and each of them reaches the kernel some time after it was read.
WriteUnlocked ==
  /\ \E w \in pending :
       /\ pending' = pending \ {w}
       /\ oom' = IF Alive(w[1]) THEN [oom EXCEPT ![w[1]] = w[2]] ELSE oom
  /\ UNCHANGED <<life, procVars, bundleVars, killList, timerVars, stage, target, minimum, todo,
                 dirty, locked>>

ReturnUnlocked ==
  /\ stage = "write"
  /\ pending = {}
  /\ stage' = "idle"
  /\ dirty' = {}
  /\ UNCHANGED <<life, oom, procVars, bundleVars, killList, timerVars, target, minimum, todo,
                 pending, locked>>

-----------------------------------------------------------------------------
(* Other threads: they need the lock only.                                 *)

LockFree == ~locked

\* CheckSatifyAbilityStartCondition.
StartsAbility(p) ==
  \/ prio[p] > RECLAIM_PRIORITY_FOREGROUND
  \/ prio[p] = RECLAIM_PRIORITY_FOREGROUND /\ p \in starting

\* Mutant: the new timer is set before the previous one, of the same name, is removed.
RestartTimerSetFirst(p) == startTimer' = (startTimer \cup {p}) \ {p}

RestartTimer(p) == startTimer' = (startTimer \ {p}) \cup {p}

\* An ability start files bundle u between the unlocked handler's read of the minimum and
\* its insertion: if the two differ, the key of an element in the set changes in place.
Overtakes(u) ==
  /\ stage \in {"file", "extFile"}
  /\ u \in InHand
  /\ BundlePriority(u, known', prio') # minimum

\* ABILITY_START, on the handler thread or synchronously on an IPC thread.
HandleAbilityStart(p) ==
  /\ LockFree
  /\ p \in known
  /\ StartsAbility(p)
  /\ prio' = [prio EXCEPT ![p] = RECLAIM_PRIORITY_FOREGROUND]
  /\ starting' = starting \cup {p}
  /\ UNCHANGED known
  /\ overtaken' = (overtaken \/ Overtakes(UidOf[p]))
  /\ UpdateBundlePriority(UidOf[p])
  /\ WriteOomScoreAdjToKernel(UidOf[p])
  /\ RestartTimer(p)
  /\ UNCHANGED <<life, status, toMe, fromMe, bundles, accounts, killList, createCheck, jobVars>>

\* Reset, when the app manager's system ability is removed.  A bundle in hand is then
\* inserted into the emptied set although the table has forgotten it.
Reset ==
  /\ LockFree
  /\ RemoveProcs(known)
  /\ toMe' = [p \in Pid |-> {}]
  /\ fromMe' = [p \in Pid |-> {}]
  /\ bundles' = {}
  /\ bprio' = [u \in Uid |-> RECLAIM_PRIORITY_UNKNOWN]
  /\ accounts' = {}
  /\ prioSet' = {}
  /\ overtaken' = (target # {})
  /\ UNCHANGED <<life, oom, killList, timerVars, jobVars>>

Next ==
  \/ \E p \in Pid :
       \/ Spawn(p)
       \/ p \in Mortal /\ Exit(p)
       \/ HandleCreateRender(p)
       \/ HandleCreateProcess(p)
       \/ ProcessTerminated(p)
       \/ CheckCreateProcPriorityDelay(p)
       \/ CheckAbilityStartCompleted(p)
       \/ p \in Starters /\ HandleAbilityStart(p)
       \/ \E r \in Reasons \ {"APPLICATION_SUSPEND"}, before \in BOOLEAN :
            HandleUpdateProcess(p, r, before)
  \/ \E u \in Uid : "APPLICATION_SUSPEND" \in Reasons /\ HandleApplicationSuspend(u)
  \/ \E b \in Binds, bind \in BOOLEAN, before \in BOOLEAN :
       HandleExtensionProcess(b[1], b[2], bind, before)
  \/ FilterDiedProcess
  \/ SetConnectExtensionProcPrio
  \/ ApplyReclaimPriority
  \/ CapPriority
  \/ ReadMinimum
  \/ FileOwn
  \/ FileExtension
  \/ ReadUnlocked
  \/ WriteUnlocked
  \/ ReturnUnlocked
  \/ Reset

Spec == Init /\ [][Next]_vars

-----------------------------------------------------------------------------
(* Correctness.                                                            *)

\* The sorted set holds exactly one entry per bundle of the account table, filed under
\* the bundle's current priority, also when an ability start comes between the steps of
\* the unlocked handler: only a bundle that this handler has in hand may be missing.  The
\* exception is a start or a Reset that overtakes its insertion; nothing is said of the
\* set from then on.  A bundle is in the table exactly while it has a process, and its
\* account is there too.
ListMatchesTable ==
  /\ bundles = {UidOf[p] : p \in known}
  /\ \A u \in bundles : AccountOf[u] \in accounts
  /\ ~overtaken => /\ prioSet \subseteq {<<bprio[u], u>> : u \in bundles}
                   /\ \A u \in bundles \ InHand : <<bprio[u], u>> \in prioSet

\* The killer goes by the bundle's priority: it is never less important than that of a
\* process in the bundle.  A minimum that the unlocked handler read before an ability
\* start may overwrite the start's: the bundle is wrong only until that start ends.
BundleCoversProcs ==
  \A p \in known \ starting : UidOf[p] \notin InHand => bprio[UidOf[p]] <= prio[p]

\* The kernel's oom_score_adj of every live process is the priority in the table, but for
\* the bundle a handler is still about to write and the process the unlocked handler has
\* in hand.  A value that this handler read without the lock may land after that of an
\* ability start: it is wrong only until that start ends.
KernelMirrorsTable ==
  \A p \in known \ starting :
    life[p] = "live" /\ UidOf[p] \notin dirty /\ p \notin target /\ (\A w \in pending : w[1] # p)
      => oom[p] = prio[p]

\* While BMS answers, no event makes a killable system app less important.
SystemAppsPinned ==
  \A u \in bundles \cap (KeepAlive \cup XmlKillable) :
    BmsMayFail \/ bprio[u] <= RECLAIM_PRIORITY_KILLABLE_SYSTEM

\* A process that is starting an ability has a timer that will end the start.
StartHasTimer == starting \subseteq startTimer

\* The level each flag stands for.
FlagLevel ==
  [ fg           |-> RECLAIM_PRIORITY_FOREGROUND,
    visible      |-> RECLAIM_PRIORITY_VISIBLE,
    suspendDelay |-> RECLAIM_PRIORITY_BG_SUSPEND_DELAY,
    bgRunning    |-> RECLAIM_PRIORITY_BG_PERCEIVED,
    event        |-> RECLAIM_PRIORITY_BG_PERCEIVED,
    dist         |-> RECLAIM_PRIORITY_BG_DIST_DEVICE ]

\* A bundle that every event re-prioritises: no killable system app, and none of
\* its important processes is configured above FOREGROUND.
Plain(u) ==
  /\ u \notin KeepAlive \cup XmlKillable
  /\ \A q \in Important : UidOf[q] = u => ImportantPrio[q] >= RECLAIM_PRIORITY_FOREGROUND

\* A process whose priority comes from its flags alone: it is never an extension
\* that inherits from its clients, and no configuration caps it.
Ordinary(p) ==
  /\ Plain(UidOf[p])
  /\ p \notin Important
  /\ \A b \in Binds : b[2] # p

\* The most important level among those the flags stand for.
LevelOfFlags(st) ==
  Min({RECLAIM_PRIORITY_BACKGROUND} \cup {FlagLevel[f] : f \in st \cap DOMAIN FlagLevel})

\* Once its creation check is over, and while no ability start is under way, an
\* ordinary process that is not suspended has exactly the most important level its
\* flags give it: also the flags of the events that were skipped during an ability start.
PriorityMatchesStatus ==
  stage = "idle" =>
    \A p \in known \ (starting \cup createCheck) :
      Ordinary(p) => prio[p] \in {RECLAIM_PRIORITY_SUSPEND, LevelOfFlags(status[p])}

\* An extension whose client is in the foreground (neither of them in the middle
\* of an ability start, nor in a bundle whose events are skipped) is at least as
\* important as FG_BIND_EXTENSION = 100.
ForegroundClientProtects ==
  stage = "idle" =>
    \A c \in known \ starting : \A e \in fromMe[c] \cap (known \ starting) :
      Plain(UidOf[c]) /\ "fg" \in status[c] /\ Plain(UidOf[e]) /\ c \in toMe[e]
        => prio[e] <= RECLAIM_PRIORITY_BG_SUSPEND_DELAY

\* The handler thread never stays for ever in GetConnectedExtensionProc.
HandlerNeverHangs == stage # "hang"
=============================================================================
