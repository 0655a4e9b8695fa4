-------------------------- MODULE ReclaimStrategy --------------------------
(***************************************************************************)
(* The ReclaimStrategyManager with MemcgMgr, Memcg and AvailBufferManager: *)
(* one memory cgroup for each os account, with a score and the reclaim     *)
(* ratios the configuration gives for that score.  Requests of the         *)
(* priority manager's thread are posted and handled in order; processes    *)
(* start and die meanwhile, a cgroup with a process in it cannot be        *)
(* removed, and any file operation may fail.                               *)
(***************************************************************************)
EXTENDS Accounts, MemmgrConfig

CONSTANTS
  OwnerOf,      \* [Pid -> Account], all accounts at least VALID_USER_ID_MIN
  Documents,    \* the configuration files that can be read
  Priorities,   \* the priorities MultiAccountManager gives accounts
  MemTotal,     \* /proc/meminfo: MemTotal, in the KB of the kernel
  MaxTasks,     \* bound: requests posted and not handled
  MaxFaults     \* bound: file operations that fail

ASSUME StrategyAssumption ==
  /\ IsFiniteSet(Pid) /\ IsFiniteSet(Account) /\ OwnerOf \in [Pid -> Account]
  /\ \A doc \in Documents : IsDocument(doc)
  /\ Priorities \subseteq Int
  /\ MemTotal \in Nat /\ MaxTasks \in Nat /\ MaxFaults \in Nat

APP_SCORE == 300
RECLAIM_SCORE_MIN == 0
RECLAIM_SCORE_MAX == 1000
PERCENT_100 == 100

Root == "root"

\* The directory of an account is named by its number.
ASSUME RootAssumption == Root \notin Account

VARIABLES
  config,      \* MemmgrConfigManager
  phase,       \* "boot", "loaded", "running" (initialized_) or "failed"
  tasks,       \* the handler's queue
  memcgs,      \* userMemcgsMap_: score_ and reclaimRatios_ of the accounts in it
  dirs,        \* kernel: score and ratios of each memcg directory, Root included
  cgroup,      \* kernel: the memcg of each live process
  buffers,     \* availBuffer_, minAvailBuffer_, highAvailBuffer_, swapReserve_
  kbuffers,    \* kernel: memory.avail_buffers
  readBack,    \* history: accounts whose last update could be read back
  applied,     \* history: the last priority an account's memcg was given without a fault
  missed,      \* history: processes that a failure left out, or that nobody reported
  faults       \* faults that may still happen

strategyVars == <<config, phase, tasks, memcgs, dirs, cgroup, buffers, kbuffers, readBack, applied, missed, faults>>
kernelVars == <<dirs, cgroup>>
history == <<readBack, applied, missed>>

Ratios == {<<m, z, r>> : m \in 0 .. PERCENT_100, z \in 0 .. PERCENT_100, r \in Nat}
Alive == DOMAIN cgroup
Put(f, k, v) == [x \in DOMAIN f \union {k} |-> IF x = k THEN v ELSE f[x]]

StrategyTypeOK ==
  /\ phase \in {"boot", "loaded", "running", "failed"}
  /\ Len(tasks) <= MaxTasks
  /\ DOMAIN memcgs \subseteq Account
  /\ \A u \in DOMAIN memcgs : memcgs[u].score \in RECLAIM_SCORE_MIN .. RECLAIM_SCORE_MAX
  /\ \A d \in DOMAIN dirs :
       /\ d \in Account \union {Root}
       /\ dirs[d].score \in RECLAIM_SCORE_MIN .. RECLAIM_SCORE_MAX
       /\ dirs[d].ratios[1] <= PERCENT_100 /\ dirs[d].ratios[2] <= PERCENT_100
  /\ Alive \subseteq Pid
  /\ \A p \in Alive : cgroup[p] \in DOMAIN dirs
  /\ kbuffers.min <= kbuffers.avail /\ kbuffers.avail <= kbuffers.high
  /\ faults \in 0 .. MaxFaults

\* What the kernel gives a new memcg.
NewDir == [score |-> APP_SCORE, ratios |-> <<60, 10, 50>>]

StrategyInit ==
  /\ config = DefaultConfig
  /\ phase = "boot"
  /\ tasks = <<>>
  /\ memcgs = [u \in {} |-> NewDir]
  /\ dirs = [d \in {Root} |-> NewDir]
  /\ \E alive \in SUBSET Pid : cgroup = [p \in alive |-> Root]
  /\ buffers = DefaultAvailBuffer
  /\ kbuffers = [avail |-> 0, min |-> 0, high |-> 0, reserve |-> 0]
  /\ readBack = {}
  /\ applied = [u \in {} |-> 0]
  /\ missed = {}
  /\ faults = MaxFaults

\* Steps of a handler that fail.
Failing(bad) == Cardinality(bad) <= faults /\ faults' = faults - Cardinality(bad)
Outcomes(steps) == {bad \in SUBSET steps : Cardinality(bad) <= MaxFaults}

-----------------------------------------------------------------------------
(* MemmgrConfigManager::Init: a file that cannot be read keeps the         *)
(* defaults.  Writing the ratios of all scores to the kernel is left out:  *)
(* nothing here reads them.                                                *)
LoadConfig ==
  /\ phase = "boot"
  /\ phase' = "loaded"
  /\ \/ config' = DefaultConfig
     \/ \E doc \in Documents : config' = ReadParamFromXml(doc)
  /\ UNCHANGED <<tasks, memcgs, kernelVars, buffers, kbuffers, history, faults>>

(* AvailBufferManager.                                                     *)
CheckAvailBuffer(b, memTotal) ==
  /\ \A f \in {"avail", "min", "high", "reserve"} : b[f] <= memTotal
  /\ b.min <= b.avail
  /\ b.avail <= b.high

\* Init: without zram zswapd gets no buffers at all.  meminfo that cannot be read leaves
\* memTotal_ 0 and zramEnable_ FALSE.
InitAvailBuffer(zram, bad) ==
  LET memTotal == IF "meminfo" \in bad THEN 0 ELSE MemTotal
      wanted == IF zram /\ "meminfo" \notin bad
                THEN config.avail ELSE [avail |-> 0, min |-> 0, high |-> 0, reserve |-> 0]
      ok == CheckAvailBuffer(wanted, memTotal)
  IN /\ buffers' = IF ok THEN wanted ELSE buffers
     /\ kbuffers' = IF ok /\ "buffers" \notin bad THEN wanted ELSE kbuffers

-----------------------------------------------------------------------------
(* Memcg: the score is written first, the ratios only after it; what is    *)
(* then read back from the kernel replaces what was meant.                 *)
Written(d, score, ratios, bad) ==
  LET there == d \in DOMAIN dirs IN
  IF ~there \/ "score" \in bad THEN dirs
  ELSE [dirs EXCEPT ![d] = [score |-> score, ratios |-> IF "ratios" \in bad THEN @.ratios ELSE ratios]]
CanReadBack(d, bad) == d \in DOMAIN dirs /\ "readback" \notin bad

\* Mutant: a write that failed leaves the intended values in memory.
SetToKernelKeeping(d, score, ratios, bad) == [score |-> score, ratios |-> ratios]
SetScoreAndReclaimRatiosToKernel(d, score, ratios, bad) ==
  IF CanReadBack(d, bad) THEN Written(d, score, ratios, bad)[d]
  ELSE [score |-> score, ratios |-> ratios]

Clamp100(ratios) == <<Min({ratios[1], PERCENT_100}), Min({ratios[2], PERCENT_100}), ratios[3]>>

\* AddProcToMemcg in the directories ds: a new account gets a directory, whose creation may
\* fail; a write to a directory that is not there, or for a process that is gone, fails.
AddUser(u, ds, bad) ==
  IF u \in DOMAIN ds \/ "mkdir" \in bad THEN ds ELSE Put(ds, u, NewDir)
NewMemcg == [score |-> 0, ratios |-> <<MEMCG_MEM_2_ZRAM_RATIO, MEMCG_ZRAM_2_UFS_RATIO, MEMCG_REFAULT_THRESHOLD>>]

\* Mutant: the process of a new account is not filed.
FiledOld(p, u, ds, bad) == p \in Alive /\ u \in DOMAIN ds /\ u \in DOMAIN memcgs /\ "proc" \notin bad
Filed(p, u, ds, bad) == p \in Alive /\ u \in DOMAIN ds /\ "proc" \notin bad

-----------------------------------------------------------------------------
(* ReclaimStrategyManager::Init.                                           *)
InitFailed(bad, zram) ==
  /\ phase = "loaded"
  /\ bad \intersect {"score", "ratios"} # {}
  /\ phase' = "failed"
  /\ Failing(bad)
  /\ InitAvailBuffer(zram, bad)
  /\ dirs' = Written(Root, APP_SCORE, <<40, 0, 0>>, bad)
  /\ UNCHANGED <<config, tasks, memcgs, cgroup, history>>

\* InitProcessBeforeMemmgr: every process there is joins the memcg of its account, except
\* those whose owner cannot be read.  An account gets one attempt at its directory; without
\* one, or when the write for it fails, a process stays where it was.
InitDone(bad, unread, zram) ==
  LET seen == IF "scan" \in bad THEN {} ELSE Alive \ unread
      users == {OwnerOf[p] : p \in seen}
      filed == {p \in seen : p \notin bad /\ OwnerOf[p] \notin bad}
  IN
  /\ phase = "loaded"
  /\ bad \intersect {"score", "ratios"} = {}
  /\ phase' = "running"
  /\ Failing(bad)
  /\ InitAvailBuffer(zram, bad)
  /\ memcgs' = [u \in users |-> NewMemcg]
  /\ dirs' = [d \in DOMAIN dirs \union (users \ bad) |->
                IF d = Root THEN [score |-> APP_SCORE, ratios |-> <<40, 0, 0>>]
                ELSE IF d \in DOMAIN dirs THEN dirs[d] ELSE NewDir]
  /\ cgroup' = [p \in Alive |-> IF p \in filed THEN OwnerOf[p] ELSE cgroup[p]]
  /\ missed' = Alive \ filed
  /\ UNCHANGED <<config, tasks, readBack, applied>>

Initialise(bad, zram) ==
  \/ InitFailed(bad, zram)
  \/ \E unread \in SUBSET (bad \intersect Pid) : InitDone(bad, unread, zram)

(* Requests: dropped before Init is done.                                  *)
Post(task) == tasks' = IF phase = "running" THEN Append(tasks, task) ELSE tasks
Posting == Len(tasks) < MaxTasks /\ UNCHANGED <<config, phase, memcgs, buffers, kbuffers, readBack, applied, faults>>

\* A process starts in the root memcg and is reported; other reports about a process are
\* posted as well and change nothing.
NotifyProcessCreated(p) ==
  /\ p \notin Alive
  /\ Posting
  /\ cgroup' = Put(cgroup, p, Root)
  /\ Post([kind |-> "create", pid |-> p])
  /\ UNCHANGED <<dirs, missed>>

\* A render process starts: HandleCreateProcess returns before it reports the process.
RenderProcessStarted(p) ==
  /\ p \notin Alive
  /\ cgroup' = Put(cgroup, p, Root)
  /\ missed' = missed \union {p}
  /\ UNCHANGED <<config, phase, tasks, memcgs, dirs, buffers, kbuffers, readBack, applied, faults>>

NotifyAccountPriorityChanged(u, priority) ==
  /\ phase # "boot"
  /\ Posting
  /\ Post([kind |-> "priority", account |-> u, priority |-> priority])
  /\ UNCHANGED <<kernelVars, missed>>

\* A cold switch: the processes are killed, the request is posted; the killed processes go
\* away when the kernel gets to it (ProcessGone).
NotifyAccountDied(u) ==
  /\ phase # "boot"
  /\ Posting
  /\ Post([kind |-> "died", account |-> u])
  /\ UNCHANGED <<kernelVars, missed>>

ProcessGone(p) ==
  /\ p \in Alive
  /\ cgroup' = [q \in Alive \ {p} |-> cgroup[q]]
  /\ missed' = missed \ {p}
  /\ UNCHANGED <<config, phase, tasks, memcgs, dirs, buffers, kbuffers, readBack, applied, faults>>

-----------------------------------------------------------------------------
(* The handler.                                                            *)
Taking(kind) == tasks # <<>> /\ Head(tasks).kind = kind /\ tasks' = Tail(tasks)

HandleProcessCreate(bad) ==
  LET p == Head(tasks).pid
      u == OwnerOf[p]
      ds == IF u \in DOMAIN memcgs THEN dirs ELSE AddUser(u, dirs, bad)
      filed == Filed(p, u, ds, bad)
  IN
  /\ Taking("create")
  /\ Failing(bad)
  /\ memcgs' = IF u \in DOMAIN memcgs THEN memcgs ELSE Put(memcgs, u, NewMemcg)
  /\ dirs' = ds
  /\ cgroup' = IF filed THEN [cgroup EXCEPT ![p] = u] ELSE cgroup
  /\ missed' = IF p \in Alive /\ ("proc" \in bad \/ u \notin DOMAIN ds)
               THEN missed \union {p} ELSE missed \ {p}
  /\ UNCHANGED <<config, phase, buffers, kbuffers, readBack, applied>>

\* Mutant: the last score of a range is not in it.
CoveringOpen(score) ==
  {i \in DOMAIN config.reclaim :
     config.reclaim[i].minScore <= score /\ score < config.reclaim[i].maxScore}
\* GetReclaimRatiosByScore_: the first entry of the set that covers the score.
Covering(score) ==
  {i \in DOMAIN config.reclaim :
     config.reclaim[i].minScore <= score /\ score <= config.reclaim[i].maxScore}
RatiosByScore(score) ==
  config.reclaim[CHOOSE i \in Covering(score) :
                   \A j \in Covering(score) : j = i \/ RatiosOrder(config.reclaim, i, j)].ratios

GetValidScore(priority) == Max({RECLAIM_SCORE_MIN, Min({priority, RECLAIM_SCORE_MAX})})

Exists(u) == u \in DOMAIN memcgs

HandleAccountPriorityChanged(bad) ==
  LET u == Head(tasks).account
      score == GetValidScore(Head(tasks).priority)
      ratios == Clamp100(RatiosByScore(score))
      clean == bad = {} /\ u \in DOMAIN dirs
  IN
  /\ Taking("priority")
  /\ Failing(bad)
  /\ IF Exists(u) /\ Covering(score) # {}
     THEN /\ memcgs' = Put(memcgs, u, SetScoreAndReclaimRatiosToKernel(u, score, ratios, bad))
          /\ dirs' = Written(u, score, ratios, bad)
          /\ readBack' = IF CanReadBack(u, bad) THEN readBack \union {u} ELSE readBack \ {u}
     ELSE UNCHANGED <<memcgs, dirs, readBack>>
  /\ applied' = IF ~Exists(u) THEN applied
                ELSE IF clean THEN Put(applied, u, Head(tasks).priority)
                ELSE [v \in DOMAIN applied \ {u} |-> applied[v]]
  /\ UNCHANGED <<config, phase, cgroup, buffers, kbuffers, missed>>

\* RemoveUserMemcg: the account leaves the map whatever became of its directory.
HandleAccountDied(bad) ==
  LET u == Head(tasks).account
      busy == \E p \in Alive : cgroup[p] = u
  IN
  /\ Taking("died")
  /\ Failing(bad)
  /\ IF Exists(u)
     THEN /\ memcgs' = [v \in DOMAIN memcgs \ {u} |-> memcgs[v]]
          /\ dirs' = IF busy \/ "rmdir" \in bad THEN dirs ELSE [d \in DOMAIN dirs \ {u} |-> dirs[d]]
          /\ readBack' = readBack \ {u}
          /\ applied' = [v \in DOMAIN applied \ {u} |-> applied[v]]
     ELSE UNCHANGED <<memcgs, dirs, readBack, applied>>
  /\ UNCHANGED <<config, phase, cgroup, buffers, kbuffers, missed>>

\* A process among the failing steps of Init: its owner is not read, or it is not filed; an
\* account: its directory is not created.
InitSteps == {"meminfo", "buffers", "score", "ratios", "scan"} \union Pid \union Account

StrategyNext ==
  \/ LoadConfig
  \/ \E bad \in Outcomes(InitSteps), zram \in BOOLEAN : Initialise(bad, zram)
  \/ \E p \in Pid : NotifyProcessCreated(p) \/ RenderProcessStarted(p) \/ ProcessGone(p)
  \/ \E u \in Account, prio \in Priorities : NotifyAccountPriorityChanged(u, prio)
  \/ \E u \in Account : NotifyAccountDied(u)
  \/ \E bad \in Outcomes({"mkdir", "proc"}) : HandleProcessCreate(bad)
  \/ \E bad \in Outcomes({"score", "ratios", "readback"}) : HandleAccountPriorityChanged(bad)
  \/ \E bad \in Outcomes({"rmdir"}) : HandleAccountDied(bad)

StrategySpec == StrategyInit /\ [][StrategyNext]_strategyVars

-----------------------------------------------------------------------------
\* After an update that could be read back, the score and the ratios kept for an account
\* are the kernel's, whichever of the two writes failed
\* (SetScoreAndReclaimRatiosToKernel, "using kernel values").
MirrorsKernel == \A u \in readBack : u \in DOMAIN dirs /\ memcgs[u] = dirs[u]

\* A process that was there when the service started, or was reported since, is in the memcg
\* of its account, or its report is still to be handled, or a step of its own filing failed:
\* cold switches, directories that are busy or gone and accounts that come back do not leave
\* it elsewhere.  Render processes that start later are never reported and stay where they
\* are.
ProcsFiled ==
  phase = "running" =>
    \A p \in Alive \ missed :
      \/ cgroup[p] = OwnerOf[p]
      \/ \E i \in DOMAIN tasks : tasks[i].kind = "create" /\ tasks[i].pid = p

\* The kernel holds, for every account that has been given a priority without a fault, the
\* score of its last priority and the ratios of the lowest range that covers the score.
PriorityApplied ==
  \A u \in DOMAIN applied :
    LET score == IF applied[u] < 0 THEN 0 ELSE IF applied[u] > 1000 THEN 1000 ELSE applied[u]
        entries == {e \in ToSet(config.reclaim) : score \in e.minScore .. e.maxScore}
    IN entries # {} =>
         /\ dirs[u].score = score
         /\ \E e \in entries : /\ dirs[u].ratios = e.ratios
                                /\ \A f \in entries : e.minScore <= f.minScore
=============================================================================
