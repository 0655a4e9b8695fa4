--------------------------- MODULE MemoryPressure ---------------------------
(***************************************************************************)
(* What memory pressure sets going: the observers of the kernel's PSI      *)
(* monitor and of kswapd, the MemoryLevelManager that turns the available  *)
(* buffer into a level, and the PurgeableMemManager that answers by        *)
(* purging heap, then ashmem, then by asking the subscribers to trim.  The *)
(* observers, the level manager, the purge handler and the dump command    *)
(* are threads of their own, applications pin, unpin and allocate between  *)
(* any two steps, and reads, writes and registrations may fail.            *)
(*                                                                         *)
(* The heap of a memcg is that of all its processes.  A line of the ashmem *)
(* file names a holder, its priority and a block; which holders there are  *)
(* does not change.  What trimming does to the subscribers is in           *)
(* PurgeableSubscribers.                                                   *)
(***************************************************************************)
EXTENDS Integers, FiniteSetsExt, SequencesExt, Functions

CONSTANTS
  Users,                    \* the user ids that have a memcg
  Lines,                    \* the ashmem file: a sequence of [app, adj, block]
  SizeKB,                   \* block -> size
  Config,                   \* .level: the four thresholds; .purge: the white list
  TRIGGER_INTERVAL_SECOND,  \* seconds between two triggers
  MAX_BUFFER_KB,            \* what a buffer that cannot be read counts as
  MaxHeap,                  \* bound: unpinned heap of a memcg
  MaxQueue,                 \* bound: tasks of a queue
  MaxFaults,                \* bound: faults in a behaviour
  MaxChanges                \* bound: times others purge, pin or unpin in a behaviour

Blocks == DOMAIN SizeKB
Memcgs == Users \union {0}

ASSUME PressureAssumption ==
  /\ Users \subseteq Nat \ {0}
  /\ IsFiniteSet(Users) /\ IsFiniteSet(Blocks)
  /\ SizeKB \in [Blocks -> Nat]
  /\ Lines \in Seq(Range(Lines))
  /\ \A i \in DOMAIN Lines : Lines[i].block \in Blocks /\ Lines[i].adj \in Int
  /\ MAX_BUFFER_KB \in Nat /\ Config.level.purgeable \in 0 .. MAX_BUFFER_KB
  /\ TRIGGER_INTERVAL_SECOND \in Nat \ {0}
  /\ MaxHeap \in Nat /\ MaxQueue \in Nat \ {0} /\ MaxFaults \in Nat /\ MaxChanges \in Nat

NEVER   == -2   \* lastTriggerTime_ = 0
Sources == {"PSI", "KSWAPD", "DUMP"}
Idle    == [phase |-> "idle", target |-> 0, info |-> 0, result |-> 0, users |-> {}, list |-> {},
            short |-> 0, found |-> {}, tried |-> {}]

VARIABLES
  psi,      \* the PSI monitor: "off", "armed" or, after a hang-up, "gone"
  kswapd,   \* the kswapd monitor
  levels,   \* PsiHandlerInner tasks posted to the level manager
  queue,    \* NotifyMemoryLevelInner tasks posted to the purge handler
  since,    \* seconds since lastTriggerTime_, or NEVER; negative after the clock was set back
  work,     \* what the purge handler is at: target, what it has to reclaim; info, the heap there is;
            \* result, what the memcgs or blocks so far gave; users and list, those still to do.  As
            \* history, short: the trigger's target less all it has asked to purge; found: the blocks
            \* of white-list applications its scan found; tried: the blocks it tried to purge
  buffer,   \* kernel: available buffer
  heap,     \* kernel: unpinned purgeable heap of each memcg
  ashm,     \* kernel: the blocks that nobody has pinned and that are not purged
  faults,   \* faults that may still happen
  changes   \* changes by others that may still happen

observers == <<psi, kswapd>>
kernel    == <<buffer, heap, ashm>>
vars == <<psi, kswapd, levels, queue, since, work, buffer, heap, ashm, faults, changes>>

Entries == [block : Blocks, prio : Int, app : {Lines[i].app : i \in DOMAIN Lines}, size : Nat]

TypeOK ==
  /\ psi \in {"off", "armed", "gone"}
  /\ kswapd \in {"off", "armed", "gone"}
  /\ levels \in 0 .. MaxQueue
  /\ queue \in Seq(Sources) /\ Len(queue) <= MaxQueue
  /\ since \in NEVER .. TRIGGER_INTERVAL_SECOND
  /\ work \in [phase : {"idle", "heap", "heapAll", "memcg", "ashm", "block", "trim"},
               target : 0 .. MAX_BUFFER_KB, info : Nat, result : Nat,
               users : SUBSET Users, list : SUBSET Entries,
               short : Int, found : SUBSET Blocks, tried : SUBSET Blocks]
  /\ work.phase # "idle" => work.result < work.target
  /\ buffer \in 0 .. MAX_BUFFER_KB
  /\ heap \in [Memcgs -> 0 .. MaxHeap]
  /\ ashm \subseteq Blocks
  /\ faults \in 0 .. MaxFaults
  /\ changes \in 0 .. MaxChanges

Init ==
  /\ psi = "off" /\ kswapd = "off"
  /\ levels = 0 /\ queue = <<>>
  /\ since = NEVER
  /\ work = Idle
  /\ buffer = MAX_BUFFER_KB
  /\ heap \in [Memcgs -> 0 .. MaxHeap]
  /\ ashm = Blocks
  /\ faults = MaxFaults
  /\ changes = MaxChanges

\* Something that may go wrong: either it works, or one of the faults is used up.
Outcome(ok) == \/ ok = TRUE /\ UNCHANGED faults
               \/ ok = FALSE /\ faults > 0 /\ faults' = faults - 1

-----------------------------------------------------------------------------
(* The observers.  A registration that fails is not tried again.           *)
MonitorLevel ==
  /\ psi = "off"
  /\ \E ok \in BOOLEAN : Outcome(ok) /\ psi' = IF ok THEN "armed" ELSE "gone"
  /\ UNCHANGED <<kswapd, levels, queue, since, work, kernel, changes>>

RegisterKswapdListener ==
  /\ kswapd = "off" /\ psi # "off"
  /\ \E ok \in BOOLEAN : Outcome(ok) /\ kswapd' = IF ok THEN "armed" ELSE "gone"
  /\ UNCHANGED <<psi, levels, queue, since, work, kernel, changes>>

\* EPOLLHUP: the file is taken out of the epoll set and closed.
UnMonitorLevel ==
  /\ psi = "armed" /\ Outcome(FALSE)
  /\ psi' = "gone"
  /\ UNCHANGED <<kswapd, levels, queue, since, work, kernel, changes>>

HandleEventEpollHup ==
  /\ kswapd = "armed" /\ Outcome(FALSE)
  /\ kswapd' = "gone"
  /\ UNCHANGED <<psi, levels, queue, since, work, kernel, changes>>

\* The other half, LowMemoryKiller::PsiHandler, is in LowMemoryKiller.
HandleLevelReport ==
  /\ psi = "armed" /\ levels < MaxQueue
  /\ levels' = levels + 1
  /\ UNCHANGED <<observers, queue, since, work, kernel, faults, changes>>

HandleKswapdReport ==
  /\ kswapd = "armed" /\ Len(queue) < MaxQueue
  /\ queue' = Append(queue, "KSWAPD")
  /\ UNCHANGED <<observers, levels, since, work, kernel, faults, changes>>

-----------------------------------------------------------------------------
(* The MemoryLevelManager.                                                 *)
Buffers(ok) == IF ok THEN buffer ELSE MAX_BUFFER_KB

\* None when the buffer is above all thresholds.
CalcSystemMemoryLevel(current) ==
  CASE current <= Config.level.critical  -> {"CRITICAL"}
    [] current <= Config.level.low       -> {"LOW"}
    [] current <= Config.level.moderate  -> {"MODERATE"}
    [] current <= Config.level.purgeable -> {"PURGEABLE"}
    [] OTHER -> {}

\* The AppMgr and samgr are told as well, unless the level is PURGEABLE.
NotifyMemoryLevel(source) ==
  /\ Len(queue) < MaxQueue
  /\ queue' = Append(queue, source)

PsiHandlerInner ==
  /\ levels > 0
  /\ levels' = levels - 1
  /\ \E ok \in BOOLEAN :
       /\ Outcome(ok)
       /\ LET level == CalcSystemMemoryLevel(Buffers(ok)) IN
          \/ level = {} /\ UNCHANGED queue
          \/ level # {} /\ NotifyMemoryLevel("PSI")
  /\ UNCHANGED <<observers, since, work, kernel, changes>>

\* The dump command, -t
TriggerMemoryLevelByDump ==
  /\ NotifyMemoryLevel("DUMP")
  /\ UNCHANGED <<observers, levels, since, work, kernel, faults, changes>>

-----------------------------------------------------------------------------
(* PurgeableMemUtils.                                                      *)
Freed(kb) == buffer' = Min({buffer + kb, MAX_BUFFER_KB})

GetPurgeableHeapInfo == SumFunction(heap)

\* What the kernel does with a write to one of its purge files
KernelPurgeHeapAll == Freed(SumFunction(heap)) /\ heap' = [m \in Memcgs |-> 0]
KernelPurgeHeapMemcg(m, kb) ==
  LET purged == Min({kb, heap[m]}) IN Freed(purged) /\ heap' = [heap EXCEPT ![m] = @ - purged]
KernelPurgeAshm(blocks) ==
  /\ Freed(SumFunctionOnSet(SizeKB, blocks \intersect ashm))
  /\ ashm' = ashm \ blocks

Entry(line) == [block |-> line.block, prio |-> line.adj, app |-> line.app, size |-> SizeKB[line.block]]

AddLine(map, line) ==
  [b \in DOMAIN map \union {line.block} |-> IF b = line.block THEN Entry(line) ELSE map[b]]

\* Mutant: the block counts with the priority of its first holder.
MergeLineFirst(map, line) == IF line.block \in DOMAIN map THEN map ELSE AddLine(map, line)

\* The holders of a block share one entry: the first gives the name, the most important
\* the priority.
MergeLine(map, line) ==
  IF line.block \in DOMAIN map
  THEN [map EXCEPT ![line.block].prio = Min({@, line.adj})]
  ELSE AddLine(map, line)

\* The lines in the file's order, without those of blocks that are pinned or purged
GetashmIdToInfoMap ==
  LET map[i \in 0 .. Len(Lines)] ==
        IF i = 0 THEN [b \in {} |-> 0]
        ELSE IF Lines[i].block \in ashm THEN MergeLine(map[i - 1], Lines[i]) ELSE map[i - 1]
  IN map[Len(Lines)]

GetPurgeableAshmInfo ==
  LET map == GetashmIdToInfoMap IN {map[b] : b \in {b \in DOMAIN map : map[b].size > 0}}

AshmReclaimPriorityCompare(left, right) ==
  \/ left.prio > right.prio
  \/ left.prio = right.prio /\ left.size > right.size

\* The entries std::sort may put first
First(entries) == {e \in entries : \A f \in entries : ~AshmReclaimPriorityCompare(f, e)}

IsPurgeWhiteApp(app) == app \in Config.purge

-----------------------------------------------------------------------------
(* One trigger of the PurgeableMemManager, on its handler's thread.        *)

\* Mutant: a trigger that comes too early starts the interval again.
TriggerByPsiRestarts ==
  /\ since' = 0
  /\ \E ok \in BOOLEAN :
       LET target == Config.level.purgeable - Buffers(ok)
           early == since # NEVER /\ since < TRIGGER_INTERVAL_SECOND
       IN /\ IF early THEN ok /\ UNCHANGED faults ELSE Outcome(ok)
          /\ IF early \/ target <= 0 THEN UNCHANGED work
             ELSE work' = [Idle EXCEPT !.phase = "heap", !.target = target, !.short = target]

\* The interval starts before anything is known of the target.
TriggerByPsi ==
  \/ /\ since # NEVER /\ since < TRIGGER_INTERVAL_SECOND
     /\ UNCHANGED <<since, work, faults>>
  \/ /\ since = NEVER \/ since >= TRIGGER_INTERVAL_SECOND
     /\ since' = 0
     /\ \E ok \in BOOLEAN :
          /\ Outcome(ok)
          /\ LET target == Config.level.purgeable - Buffers(ok) IN
             IF target <= 0 THEN UNCHANGED work
             ELSE work' = [Idle EXCEPT !.phase = "heap", !.target = target, !.short = target]

\* TriggerByManualDump goes straight to the subscribers.
NotifyMemoryLevelInner ==
  /\ work = Idle /\ queue # <<>>
  /\ queue' = Tail(queue)
  /\ IF Head(queue) = "DUMP" THEN UNCHANGED <<since, work, faults>> ELSE TriggerByPsi
  /\ UNCHANGED <<observers, levels, kernel, changes>>

Phase(name) == [Idle EXCEPT !.phase = name, !.target = work.target, !.short = work.short,
                            !.found = work.found, !.tried = work.tried]

\* Mutant: what one type gave is not taken off the target of the next.
NextTypeSameTarget(reclaimed, short, tried) ==
  work' = IF reclaimed >= work.target THEN Idle
          ELSE [Phase(IF work.phase \in {"heap", "heapAll", "memcg"} THEN "ashm" ELSE "trim")
                  EXCEPT !.short = short, !.tried = tried]

\* After a type has been purged.  PURGEABLE_SUBSCRIBER gives nothing.
NextType(reclaimed, short, tried) ==
  work' = IF reclaimed >= work.target THEN Idle
          ELSE [Phase(IF work.phase \in {"heap", "heapAll", "memcg"} THEN "ashm" ELSE "trim")
                  EXCEPT !.target = @ - reclaimed, !.short = short, !.tried = tried]

OneByOne(users) == [Phase("memcg") EXCEPT !.users = users]

\* GetPurgeableInfo for the heap; without the base directory there are no users.
PurgeHeap ==
  /\ work.phase = "heap"
  /\ \E ok \in BOOLEAN :
       /\ Outcome(ok)
       /\ IF ~ok \/ GetPurgeableHeapInfo <= 0 THEN NextType(0, work.short, {})
          ELSE work' = IF GetPurgeableHeapInfo <= work.target
                       THEN [Phase("heapAll") EXCEPT !.info = GetPurgeableHeapInfo]
                       ELSE OneByOne(Users)
  /\ UNCHANGED <<observers, levels, queue, since, kernel, changes>>

PurgeTypeAll ==
  /\ work.phase = "heapAll"
  /\ \E ok \in BOOLEAN :
       /\ Outcome(ok)
       /\ IF ok THEN KernelPurgeHeapAll /\ NextType(work.info, work.short - work.info, {})
          ELSE work' = OneByOne(Users) /\ UNCHANGED <<buffer, heap>>
  /\ UNCHANGED <<observers, levels, queue, since, ashm, changes>>

\* PurgHeapOneMemcg: what is left to do after the memcg, and what it gave
AfterMemcg(m, kb) ==
  LET result == work.result + kb IN
  IF result >= work.target \/ m = 0 THEN NextType(result, work.short - kb, {})
  ELSE work' = [work EXCEPT !.result = result, !.short = @ - kb, !.users = @ \ {m}]

\* One memcg: its processes may be none or unreadable, the write may fail.
PurgHeapOneMemcg(m) ==
  \E ok \in BOOLEAN :
    LET toReclaim == Min({heap[m], work.target - work.result}) IN
    /\ Outcome(ok)
    /\ IF ok /\ toReclaim > 0
       THEN KernelPurgeHeapMemcg(m, toReclaim) /\ AfterMemcg(m, toReclaim)
       ELSE AfterMemcg(m, 0) /\ UNCHANGED <<buffer, heap>>

\* The users in the order the directory lists them, then the root memcg
PurgHeapMemcgOneByOne ==
  /\ work.phase = "memcg"
  /\ \/ \E m \in work.users : PurgHeapOneMemcg(m)
     \/ work.users = {} /\ PurgHeapOneMemcg(0)
  /\ UNCHANGED <<observers, levels, queue, since, ashm, changes>>

PurgeAshm ==
  /\ work.phase = "ashm"
  /\ \E ok \in BOOLEAN :
       /\ Outcome(ok)
       /\ LET entries == GetPurgeableAshmInfo IN
          IF ~ok \/ entries = {} THEN NextType(0, work.short, {})
          ELSE work' = [Phase("block") EXCEPT
                          !.list = entries,
                          !.found = {e.block : e \in {e \in entries : IsPurgeWhiteApp(e.app)}}]
  /\ UNCHANGED <<observers, levels, queue, since, kernel, changes>>

AfterBlock(entry, kb, tried) ==
  LET result == work.result + kb IN
  IF result >= work.target \/ work.list = {entry} THEN NextType(result, work.short - kb, tried)
  ELSE work' = [work EXCEPT !.result = result, !.short = @ - kb, !.list = @ \ {entry}, !.tried = tried]

\* Mutant: a block that cannot be purged ends the loop.
PurgAshmIdGivesUp ==
  /\ work.phase = "block"
  /\ \E entry \in First(work.list) :
       \/ /\ ~IsPurgeWhiteApp(entry.app)
          /\ AfterBlock(entry, 0, work.tried)
          /\ UNCHANGED <<kernel, faults>>
       \/ \E ok \in BOOLEAN :
            /\ IsPurgeWhiteApp(entry.app)
            /\ Outcome(ok)
            /\ LET tried == work.tried \union {entry.block} IN
               IF ok
               THEN KernelPurgeAshm({entry.block}) /\ AfterBlock(entry, entry.size, tried) /\ UNCHANGED heap
               ELSE NextType(work.result, work.short, tried) /\ UNCHANGED kernel
  /\ UNCHANGED <<observers, levels, queue, since, changes>>

\* A block that was pinned or purged since the scan counts as reclaimed all the same.
PurgAshmIdOneByOne ==
  /\ work.phase = "block"
  /\ \E entry \in First(work.list) :
       \/ /\ ~IsPurgeWhiteApp(entry.app)
          /\ AfterBlock(entry, 0, work.tried)
          /\ UNCHANGED <<kernel, faults>>
       \/ \E ok \in BOOLEAN :
            /\ IsPurgeWhiteApp(entry.app)
            /\ Outcome(ok)
            /\ LET tried == work.tried \union {entry.block} IN
               IF ok
               THEN KernelPurgeAshm({entry.block}) /\ AfterBlock(entry, entry.size, tried) /\ UNCHANGED heap
               ELSE AfterBlock(entry, 0, tried) /\ UNCHANGED kernel
  /\ UNCHANGED <<observers, levels, queue, since, changes>>

\* TrimAllSubscribers
Trim ==
  /\ work.phase = "trim"
  /\ work' = Idle
  /\ UNCHANGED <<observers, levels, queue, since, kernel, faults, changes>>

-----------------------------------------------------------------------------
(* The dump command, -f, runs on a binder thread beside the handler.       *)
ForceReclaimByDump ==
  /\ changes > 0 /\ changes' = changes - 1
  /\ \/ KernelPurgeHeapAll /\ UNCHANGED ashm
     \/ \E m \in Memcgs : KernelPurgeHeapMemcg(m, 1) /\ UNCHANGED ashm
     \/ KernelPurgeAshm(Blocks) /\ UNCHANGED heap
     \/ \E b \in Blocks : KernelPurgeAshm({b}) /\ UNCHANGED heap
     \/ /\ heap' = [m \in Memcgs |-> 0] /\ ashm' = {}
        /\ Freed(SumFunction(heap) + SumFunctionOnSet(SizeKB, ashm))
  /\ UNCHANGED <<observers, levels, queue, since, work, faults>>

-----------------------------------------------------------------------------
(* The applications, the kernel and the clock.                             *)
Allocate ==
  /\ buffer > 0
  /\ buffer' = buffer - 1
  /\ UNCHANGED <<observers, levels, queue, since, work, heap, ashm, faults, changes>>

HeapUnpinned(m) ==
  /\ changes > 0 /\ changes' = changes - 1
  /\ heap[m] < MaxHeap
  /\ heap' = [heap EXCEPT ![m] = @ + 1]
  /\ UNCHANGED <<observers, levels, queue, since, work, buffer, ashm, faults>>

\* A block is pinned, or unpinned, after it was built anew if it had been purged.
BlockChanges(b) ==
  /\ changes > 0 /\ changes' = changes - 1
  /\ ashm' = IF b \in ashm THEN ashm \ {b} ELSE ashm \union {b}
  /\ UNCHANGED <<observers, levels, queue, since, work, buffer, heap, faults>>

Tick ==
  /\ since # NEVER /\ since < TRIGGER_INTERVAL_SECOND
  /\ since' = since + 1
  /\ UNCHANGED <<observers, levels, queue, work, kernel, faults, changes>>

ClockSetBack ==
  /\ since # NEVER /\ Outcome(FALSE)
  /\ since' = -1
  /\ UNCHANGED <<observers, levels, queue, work, kernel, changes>>

Purging == PurgeHeap \/ PurgeTypeAll \/ PurgHeapMemcgOneByOne \/ PurgeAshm \/ PurgAshmIdOneByOne \/ Trim

Next ==
  \/ MonitorLevel \/ RegisterKswapdListener \/ UnMonitorLevel \/ HandleEventEpollHup
  \/ HandleLevelReport \/ HandleKswapdReport
  \/ PsiHandlerInner
  \/ TriggerMemoryLevelByDump
  \/ NotifyMemoryLevelInner
  \/ Purging
  \/ ForceReclaimByDump
  \/ Allocate
  \/ \E m \in Memcgs : HeapUnpinned(m)
  \/ \E b \in Blocks : BlockChanges(b)
  \/ Tick
  \/ ClockSetBack

Spec == Init /\ [][Next]_vars

\* The kernel goes on reporting while there is pressure, the threads of the two handlers
\* run and time passes.  PsiHandlerInner waits only for the bound of the queue.
FairSpec ==
  /\ Spec
  /\ WF_vars(HandleLevelReport) /\ SF_vars(PsiHandlerInner)
  /\ WF_vars(NotifyMemoryLevelInner \/ Purging) /\ WF_vars(Tick)

-----------------------------------------------------------------------------
(* What a trigger is short of bounds what it purges: each purge of heap or *)
(* ashmem is asked for only while the purges before it, of this and of the *)
(* earlier types, do not add up to the target.                             *)
NoMoreThanNeeded == work.phase # "idle" => work.short > 0

(* A block that an important process holds too is not purged while a block *)
(* of the scan that only less important ones hold has not been tried.      *)
Importance(b) == Min({Lines[i].adj : i \in {i \in DOMAIN Lines : Lines[i].block = b}})
LeastImportantFirst ==
  work.phase = "block" =>
    \A e \in work.list : \A b \in work.tried :
      IsPurgeWhiteApp(e.app) => Importance(e.block) <= Importance(b)

(* The subscribers are asked to trim only as a last resort, when no block  *)
(* of a white-list application that the scan found is left untried, though *)
(* purges may have failed.                                                 *)
TrimIsLastResort == work.phase = "trim" => work.found \subseteq work.tried

(* Pressure is answered: while the PSI monitor is armed and the buffer is  *)
(* below the purgeable threshold, a trigger gets past the rate limit.      *)
Pressed == psi = "armed" /\ buffer < Config.level.purgeable
PressureAnswered == Pressed ~> (work.phase = "heap" \/ ~Pressed)
=============================================================================
