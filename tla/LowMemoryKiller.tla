-------------------------- MODULE LowMemoryKiller --------------------------
(***************************************************************************)
(* The low memory killer.  A PSI event runs PsiHandlerInner on the         *)
(* killer's own thread.  It takes totalBundlePrioSetLock_ only to copy one *)
(* bundle and to mark it afterwards: in between, and between two signals,  *)
(* the priority manager goes on changing the table the copy was taken      *)
(* from.  That the list the bundle is taken from is the table is the       *)
(* invariant ListMatchesTable of ReclaimPriority.                          *)
(***************************************************************************)
EXTENDS KillConfig, TLC

INT_MAX == 2147483647

CONSTANTS
  Pid,         \* process ids
  Uid,         \* bundle uids
  Xmls,        \* the kill configurations tried, sequences of xml nodes
  Prios,       \* the priorities bundles take
  Buffers,     \* the values GetCurrentBuffer reads, in MB
  SizeOf,      \* [Pid -> Nat]: the memory of a process, in MB
  MaxKillCnt,  \* MAX_KILL_CNT_PER_EVENT
  MaxBirths    \* bound: how many processes are created in a behaviour

\* A node of the XML, with what XmlHelper reads from it.
Node == [name : STRING, memoryMB : Nat, minPriority : Int]

ASSUME LmkAssumption ==
  /\ Pid \subseteq Nat
  /\ Uid \subseteq 0 .. INT_MAX
  /\ Xmls \subseteq Seq(Node)
  /\ Prios \subseteq RECLAIM_PRIORITY_MIN .. RECLAIM_PRIORITY_MAX
  /\ Buffers \subseteq Int
  /\ SizeOf \in [Pid -> Nat]
  /\ MaxKillCnt \in Nat \ {0}
  /\ MaxBirths \in Nat

VARIABLES
  levels,      \* the waterlines in use
  buffer,      \* kernel: the buffer GetCurrentBuffer would read now
  proc,        \* kernel: state of each process
  procs,       \* the table: the processes of each bundle; {} when there is no bundle
  bprio,       \* the table: priority_ of each bundle
  young,       \* bundles created less than NOT_TO_KILL_DURING ago
  waiting,     \* bundles in STATE_WAITING_FOR_KILL
  births,      \* processes created so far
  stage,       \* where the killer is
  event,       \* PsiHandlerInner's locals: [curBuf, minPrio, target, targetKill]
  currKillKb,  \* memory freed in this event
  killCnt,     \* bundles killed in this event
  copy,        \* the bundle copied: [uid, priority]
  toKill,      \* its processes not signalled yet
  freedBuf,    \* memory freed from it
  killLevel,   \* killLevel_
  tried,       \* history: processes KillOneProcessByPid was called for
  joined,      \* history: bundles that got a process since they were copied last
  moved        \* history: bundles created or re-prioritised since the copy was made

tableVars == <<procs, bprio, young, waiting, births>>
lmkVars   == <<stage, event, currKillKb, killCnt, copy, toKill, freedBuf, killLevel>>
history   == <<tried, joined, moved>>
vars == <<levels, buffer, proc, tableVars, lmkVars, history>>

Bundles == {u \in Uid : procs[u] # {}}

NoEvent == [curBuf |-> 0, minPrio |-> NoPriority, target |-> 0, targetKill |-> 0]
NoCopy  == [uid |-> 0, priority |-> RECLAIM_PRIORITY_UNKNOWN]

TypeOK ==
  /\ buffer \in Buffers
  /\ proc \in [Pid -> {"gone", "runs", "blocked", "dying", "dead"}]
  /\ procs \in [Uid -> SUBSET Pid]
  /\ bprio \in [Uid -> Prios \cup {RECLAIM_PRIORITY_UNKNOWN}]
  /\ young \subseteq Bundles
  /\ waiting \subseteq Bundles
  /\ births \in 0 .. MaxBirths
  /\ stage \in {"idle", "pick", "kill", "mark", "check"}
  /\ event.minPrio \in Int
  /\ event.targetKill \in Nat
  /\ currKillKb \in Nat
  /\ killCnt \in 0 .. MaxKillCnt
  /\ stage \in {"kill", "mark"} => copy.uid \in Uid
  /\ toKill \subseteq Pid
  /\ freedBuf \in Nat
  /\ killLevel \in 0 .. Cardinality(DOMAIN levels)
  /\ tried \subseteq Pid
  /\ joined \subseteq Uid
  /\ moved \subseteq Uid

Init ==
  /\ levels \in {KillLevels(ParseConfig(x)) : x \in Xmls}
  /\ buffer \in Buffers
  /\ proc = [p \in Pid |-> "gone"]
  /\ procs = [u \in Uid |-> {}]
  /\ bprio = [u \in Uid |-> RECLAIM_PRIORITY_UNKNOWN]
  /\ young = {}
  /\ waiting = {}
  /\ births = 0
  /\ stage = "idle"
  /\ event = NoEvent
  /\ currKillKb = 0
  /\ killCnt = 0
  /\ copy = NoCopy
  /\ toKill = {}
  /\ freedBuf = 0
  /\ killLevel = 0
  /\ tried = {}
  /\ joined = {}
  /\ moved = {}

-----------------------------------------------------------------------------
(* The priority manager, seen from the killer: each step holds the lock.   *)

\* A process is created in a bundle, which may be new.
CreateProcess(u, p) ==
  /\ proc[p] = "gone"
  /\ \A v \in Uid : p \notin procs[v]
  /\ births < MaxBirths
  /\ births' = births + 1
  /\ proc' = [proc EXCEPT ![p] = "runs"]
  /\ procs' = [procs EXCEPT ![u] = @ \cup {p}]
  /\ young' = IF u \in Bundles THEN young ELSE young \cup {u}
  /\ \E q \in Prios : bprio' = [bprio EXCEPT ![u] = IF u \in Bundles THEN @ ELSE q]
  /\ tried' = tried \ {p}
  /\ joined' = joined \cup {u}
  /\ moved' = moved \cup {u}
  /\ UNCHANGED <<levels, buffer, waiting, lmkVars>>

\* A handler gives a bundle another priority.
UpdateReclaimPriority(u) ==
  /\ u \in Bundles
  /\ \E q \in Prios \ {bprio[u]} : bprio' = [bprio EXCEPT ![u] = q]
  /\ moved' = moved \cup {u}
  /\ UNCHANGED <<levels, buffer, proc, procs, young, waiting, births, lmkVars, tried, joined>>

\* PROCESS_TERMINATED: the record goes, and the bundle with its last process.
HandleTerminateProcess(p) ==
  LET emptied == {u \in Uid : procs[u] = {p}}
  IN  /\ proc[p] = "dead"
      /\ proc' = [proc EXCEPT ![p] = "gone"]
      /\ procs' = [u \in Uid |-> procs[u] \ {p}]
      /\ bprio' = [u \in Uid |-> IF u \in emptied THEN RECLAIM_PRIORITY_UNKNOWN ELSE bprio[u]]
      /\ young' = young \ emptied
      /\ waiting' = waiting \ emptied
      /\ UNCHANGED <<levels, buffer, births, lmkVars, history>>

(* The kernel and the clock.                                               *)

\* A process blocks uninterruptibly (state D) and wakes up.
Block(p) ==
  /\ \/ proc[p] = "runs" /\ proc' = [proc EXCEPT ![p] = "blocked"]
     \/ proc[p] = "blocked" /\ proc' = [proc EXCEPT ![p] = "runs"]
  /\ UNCHANGED <<levels, buffer, tableVars, lmkVars, history>>

\* A process ends, by itself or because it was signalled.
Exit(p) ==
  /\ proc[p] \in {"runs", "dying"}
  /\ proc' = [proc EXCEPT ![p] = "dead"]
  /\ UNCHANGED <<levels, buffer, tableVars, lmkVars, history>>

ChangeBuffer ==
  /\ \E b \in Buffers \ {buffer} : buffer' = b
  /\ UNCHANGED <<levels, proc, tableVars, lmkVars, history>>

\* NOT_TO_KILL_DURING passes for a bundle.
Grow(u) ==
  /\ u \in young
  /\ young' = young \ {u}
  /\ UNCHANGED <<levels, buffer, proc, procs, bprio, waiting, births, lmkVars, history>>

-----------------------------------------------------------------------------
(* PsiHandlerInner.                                                        *)

\* static_cast<unsigned int>: a negative reading is above every level.
Unsigned(b) == IF b < 0 THEN Max(DOMAIN levels) + 1 ELSE b

\* The event reads the buffer.  A failed read (MAX_BUFFER_KB) ends it at once.
PsiHandlerInner ==
  LET curBuf == Unsigned(buffer)
      q      == QueryKillMemoryPriorityPair(levels, curBuf)
      need   == IF curBuf > 0 /\ q.target > curBuf THEN q.target - curBuf ELSE 0
  IN  /\ stage = "idle"
      /\ killLevel' = q.killLevel
      /\ \/ /\ q.minPrio \notin RECLAIM_PRIORITY_MIN .. RECLAIM_PRIORITY_MAX
            /\ UNCHANGED <<stage, event>>
         \/ /\ q.minPrio \in RECLAIM_PRIORITY_MIN .. RECLAIM_PRIORITY_MAX
            /\ stage' = "pick"
            /\ event' = [curBuf |-> curBuf, minPrio |-> q.minPrio,
                         target |-> q.target, targetKill |-> need]
      /\ UNCHANGED <<levels, buffer, proc, tableVars, currKillKb, killCnt, copy, toKill,
                     freedBuf, history>>

\* goto out: the locals are forgotten.
Out ==
  /\ stage' = "idle"
  /\ event' = NoEvent
  /\ currKillKb' = 0
  /\ killCnt' = 0
  /\ copy' = NoCopy
  /\ toKill' = {}
  /\ freedBuf' = 0

\* The bundles GetOneKillableBundle does not skip.
Killable == {u \in Bundles \ waiting : bprio[u] >= event.minPrio}

\* Mutant: the list is walked from its most important end.
LastOfAscending(S) == CHOOSE u \in S : \A v \in S : bprio[u] <= bprio[v]

\* rbegin() of totalBundlePrioSet_: the least important bundle, the greater uid.
LastOf(S) ==
  CHOOSE u \in S : \A v \in S : bprio[u] > bprio[v] \/ (bprio[u] = bprio[v] /\ u >= v)

(***************************************************************************)
(* KillOneBundleByPrio copies one bundle under the lock.  If there is none *)
(* or it is too young, nothing is freed and the event ends.                *)
(***************************************************************************)
GetOneKillableBundle ==
  LET u == LastOf(Killable)
  IN  /\ stage = "pick"
      /\ \/ /\ Killable # {} => u \in young
            /\ Out
            /\ UNCHANGED <<joined, moved>>
         \/ /\ Killable # {}
            /\ u \notin young
            /\ stage' = "kill"
            /\ copy' = [uid |-> u, priority |-> bprio[u]]
            /\ toKill' = procs[u]
            /\ freedBuf' = 0
            /\ joined' = joined \ {u}
            /\ moved' = {}
            /\ UNCHANGED <<event, currKillKb, killCnt>>
      /\ UNCHANGED <<levels, buffer, proc, tableVars, killLevel, tried>>

\* Mutant: the loop stops at the first process that frees memory.
RemainingStopsEarly(p, freed) == IF freed > 0 THEN {} ELSE toKill \ {p}

\* The loop goes on through every process of the copy.
Remaining(p, freed) == toKill \ {p}

\* KernelInterface::KillOneProcessByPid: nothing is freed from a process that is
\* not there or is in state D; a signalled process dies later.
KillOneProcessByPid ==
  LET p     == Min(toKill)
      freed == IF proc[p] \in {"runs", "dying"} THEN SizeOf[p] ELSE 0
  IN  /\ stage = "kill"
      /\ toKill' = Remaining(p, freed)
      /\ stage' = IF toKill' = {} THEN "mark" ELSE "kill"
      /\ proc' = [proc EXCEPT ![p] = IF @ = "runs" THEN "dying" ELSE @]
      /\ freedBuf' = freedBuf + freed
      /\ tried' = tried \cup {p}
      /\ UNCHANGED <<levels, buffer, tableVars, event, currKillKb, killCnt, copy, killLevel,
                     joined, moved>>

\* Mutant: the bundle is not marked.
MarkedNever(u) == waiting

\* SetBundleState looks the bundle up again by its uid.
Marked(u) == IF u \in Bundles THEN waiting \cup {u} ELSE waiting

SetBundleState ==
  /\ stage = "mark"
  /\ waiting' = Marked(copy.uid)
  /\ \/ /\ freedBuf = 0
        /\ Out
     \/ /\ freedBuf > 0
        /\ stage' = "check"
        /\ currKillKb' = currKillKb + freedBuf
        /\ killCnt' = killCnt + 1
        /\ UNCHANGED <<event, copy, toKill, freedBuf>>
  /\ UNCHANGED <<levels, buffer, proc, procs, bprio, young, births, killLevel, history>>

\* while (currKillKb < targetKillKb && killCnt < MAX_KILL_CNT_PER_EVENT)
GoesOn == currKillKb < event.targetKill /\ killCnt < MaxKillCnt

\* The buffer is read again: it is enough; or the reading fails, or the loop
\* condition is false; or the next bundle is taken.
CheckBuffer ==
  /\ stage = "check"
  /\ \/ /\ buffer >= event.target
        /\ killLevel' = 0
        /\ Out
     \/ /\ UNCHANGED killLevel  \* any reading may fail
        /\ Out
     \/ /\ buffer \in 0 .. event.target - 1
        /\ GoesOn
        /\ stage' = "pick"
        /\ UNCHANGED <<event, currKillKb, killCnt, copy, toKill, freedBuf, killLevel>>
  /\ UNCHANGED <<levels, buffer, proc, tableVars, history>>

KillerStep == GetOneKillableBundle \/ KillOneProcessByPid \/ SetBundleState \/ CheckBuffer

Next ==
  \/ \E u \in Uid, p \in Pid : CreateProcess(u, p)
  \/ \E u \in Uid : UpdateReclaimPriority(u) \/ Grow(u)
  \/ \E p \in Pid : HandleTerminateProcess(p) \/ Block(p) \/ Exit(p)
  \/ ChangeBuffer
  \/ PsiHandlerInner
  \/ KillerStep

Spec == Init /\ [][Next]_vars

(***************************************************************************)
(* Fairness: the killer's thread runs, time passes, and the kernel raises  *)
(* PSI events as long as there is pressure.                                *)
(***************************************************************************)
Fairness ==
  /\ WF_vars(KillerStep)
  /\ \A u \in Uid : WF_vars(Grow(u))
  /\ SF_vars(PsiHandlerInner)

FairSpec == Spec /\ Fairness

-----------------------------------------------------------------------------
(* Correctness.                                                            *)

\* The priorities of the bundles that an event kills when it reads the buffer b.
Killed(b) ==
  LET minPrio == QueryKillMemoryPriorityPair(levels, b).minPrio
  IN  {q \in Prios : minPrio \in RECLAIM_PRIORITY_MIN .. RECLAIM_PRIORITY_MAX /\ q >= minPrio}

\* Whatever the XML says, less memory never makes the killer spare a bundle it would kill with
\* more.  The answer only changes at a level, so it is enough to read 0 and every level.
LevelsMonotone ==
  LET answers == {<<b, Killed(b)>> : b \in DOMAIN levels \cup {0}}
  IN  \A x, y \in answers : x[1] <= y[1] => y[2] \subseteq x[2]

\* While the killer signals the processes of its copy, every other bundle is at
\* least as important, is already waiting for its death, or has been created or
\* re-prioritised behind the killer's back.
LeastImportantFirst ==
  stage \in {"kill", "mark"} =>
    \A v \in Bundles \ (waiting \cup moved \cup {copy.uid}) : bprio[v] <= copy.priority

\* A bundle is skipped as WAITING_FOR_KILL only if the killer has tried each of
\* its processes, unless one was created after the killer copied the bundle.
WaitingMeansTried == \A u \in waiting \ joined : procs[u] \subseteq tried

\* A bundle every event would take: there is pressure, and the bundle is above
\* the waterline whatever level the event finds the buffer at.
Candidate(u) ==
  /\ u \in Bundles \ (waiting \cup young)
  /\ Unsigned(buffer) < Max(DOMAIN levels)
  /\ \A m \in DOMAIN levels : bprio[u] >= levels[m]

\* Under lasting pressure no bundle above the waterlines is passed over for ever,
\* not even behind bundles that are less important but cannot be killed because
\* they are in state D, or were created too recently.
NobodyPassedOver == \A u \in Uid : []<>~Candidate(u)
=============================================================================
