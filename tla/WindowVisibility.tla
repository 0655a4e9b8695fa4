-------------------------- MODULE WindowVisibility --------------------------
(***************************************************************************)
(* The WindowVisibilityObserver between the window manager and the reclaim *)
(* priority manager.  It remembers the visible windows of each process and *)
(* posts VISIBLE when the first one appears and UN_VISIBLE when the last   *)
(* one goes; it forgets a process that died, at once (OnProcessDied, on an *)
(* IPC thread) or in its periodic clean-up.  Updates from the window       *)
(* manager may be handled after the process they speak of has died, and a  *)
(* pid may be used again.                                                  *)
(***************************************************************************)
EXTENDS Integers, Sequences, FiniteSetsExt

CONSTANTS
  Pid,            \* process ids, a set of naturals: std::map iterates them in order
  Window,         \* window ids
  Environments,   \* what a behaviour may run in: records [procMayFail, reportsClosed, maxMapSize]
  MaxInfos,       \* bound: windows reported in one update
  MaxQueue,       \* bound: updates and requests waiting when another one is sent
  MaxStarts       \* bound: processes started

ASSUME WindowAssumption ==
  /\ Pid \subseteq Nat /\ IsFiniteSet(Pid)
  /\ Environments \subseteq [procMayFail : BOOLEAN, reportsClosed : BOOLEAN, maxMapSize : Nat \ {0}]
  /\ MaxInfos \in Nat
  /\ MaxQueue \in Nat
  /\ MaxStarts \in Nat

VARIABLES
  env,        \* never changes: may GetAllProcPids fail, does the window manager report the windows
              \* of a dead process as gone, and the size of the map that triggers a clean-up (2048)
  life,       \* "gone", "created" (CREATE_PROCESS posted), "died" (callback not run yet),
              \* "reported" (PROCESS_TERMINATED posted, OnProcessDied still to come)
  starts,     \* processes started so far
  shown,      \* window manager: the visible windows, pairs <<pid, window>>
  updates,    \* window manager to observer, in order: the windows that went on and off
  map,        \* windowVisibleMap_: [visible, windows] of the pids in its domain
  timer,      \* is the periodic CheckMapSize pending?
  sizeCheck,  \* is a CheckMapSize for the size of the map pending?
  requests,   \* observer to priority manager: <<reason, pid>>, in order
  known,      \* priority manager: the processes it has a record of
  flagged     \* priority manager: those with isVisible_

windowVars == <<env, life, starts, shown, updates, map, timer, sizeCheck, requests, known, flagged>>

WindowTypeOK ==
  /\ env \in Environments
  /\ life \in [Pid -> {"gone", "created", "died", "reported"}]
  /\ starts \in 0 .. MaxStarts
  /\ shown \subseteq Pid \X Window
  /\ DOMAIN map \subseteq Pid
  /\ \A p \in DOMAIN map : map[p].windows # {} /\ map[p].visible
  /\ timer \in BOOLEAN
  /\ sizeCheck \in BOOLEAN
  /\ known \subseteq Pid
  /\ flagged \subseteq known

WindowInit ==
  /\ env \in Environments
  /\ life = [p \in Pid |-> "gone"]
  /\ starts = 0
  /\ shown = {}
  /\ updates = <<>>
  /\ map = [p \in {} |-> {}]
  /\ timer = TRUE
  /\ sizeCheck = FALSE
  /\ requests = <<>>
  /\ known = {}
  /\ flagged = {}

-----------------------------------------------------------------------------
(* The app framework and the window manager.                               *)

Alive(p) == life[p] = "created"

Room == Len(updates) + Len(requests) < MaxQueue

\* A process starts; the app framework reports it before it shows a window.
OnProcessCreated(p) ==
  /\ life[p] = "gone"
  /\ starts < MaxStarts
  /\ Room
  /\ starts' = starts + 1
  /\ life' = [life EXCEPT ![p] = "created"]
  /\ requests' = Append(requests, <<"CREATE_PROCESS", p>>)
  /\ UNCHANGED <<env, shown, updates, map, timer, sizeCheck, known, flagged>>

\* Some windows of live processes appear and disappear; one update reports all.
ChangeWindows(changed) ==
  /\ \A c \in changed : Alive(c[1])
  /\ Room
  /\ shown' = (shown \ changed) \cup (changed \ shown)
  /\ updates' = Append(updates, [on |-> changed \ shown, off |-> changed \cap shown])
  /\ UNCHANGED <<env, life, starts, map, timer, sizeCheck, requests, known, flagged>>

WindowsOf(p) == {c \in shown : c[1] = p}

\* A process dies, and its windows with it.
ProcessDies(p) ==
  /\ Alive(p)
  /\ life' = [life EXCEPT ![p] = "died"]
  /\ shown' = shown \ WindowsOf(p)
  /\ updates' = IF WindowsOf(p) = {} \/ ~env.reportsClosed THEN updates
                ELSE Append(updates, [on |-> {}, off |-> WindowsOf(p)])
  /\ UNCHANGED <<env, starts, map, timer, sizeCheck, requests, known, flagged>>

\* AppStateObserver::OnProcessDied posts PROCESS_TERMINATED ...
ReportDeath(p) ==
  /\ life[p] = "died"
  /\ life' = [life EXCEPT ![p] = "reported"]
  /\ requests' = Append(requests, <<"PROCESS_TERMINATED", p>>)
  /\ UNCHANGED <<env, starts, shown, updates, map, timer, sizeCheck, known, flagged>>

Forget(m, gone) == [p \in DOMAIN m \ gone |-> m[p]]

\* ... and then calls WindowVisibilityObserver::OnProcessDied.
OnProcessDied(p) ==
  /\ life[p] = "reported"
  /\ life' = [life EXCEPT ![p] = "gone"]
  /\ map' = Forget(map, {p})
  /\ UNCHANGED <<env, starts, shown, updates, timer, sizeCheck, requests, known, flagged>>

-----------------------------------------------------------------------------
(* Tasks of the observer's handler.                                        *)

\* The visible windows the map holds for a process.
Known(p) == IF p \in DOMAIN map THEN map[p].windows ELSE {}

\* The map after the loop over the update: a process enters it only with a
\* visible window.
Apply(u) ==
  [p \in DOMAIN map \cup {c[1] : c \in u.on} |->
     [ visible |-> p \in DOMAIN map /\ map[p].visible,
       windows |-> {w \in Window : \/ <<p, w>> \in u.on
                                   \/ w \in Known(p) /\ <<p, w>> \notin u.off} ]]

\* Mutant: a process whose windows are all gone is forgotten without a report.
LostSilently(m) == {}

\* The processes whose last window went.
Lost(m) == {p \in DOMAIN m : m[p].windows = {} /\ m[p].visible}

\* The processes whose first window appeared.
Gained(m) == {p \in DOMAIN m : m[p].windows # {} /\ ~m[p].visible}

\* A set of requests, at most one for each pid, in the order of the pids.
InPidOrder(posted) ==
  CHOOSE s \in [1 .. Cardinality(posted) -> posted] :
    /\ \A r \in posted : \E i \in DOMAIN s : s[i] = r
    /\ \A i, j \in DOMAIN s : i < j => s[i][2] < s[j][2]

\* What UpdatePriorityForVisible posts.
UpdatePriorityForVisible(m) ==
  InPidOrder({<<"VISIBLE", p>> : p \in Gained(m)} \cup {<<"UN_VISIBLE", p>> : p \in Lost(m)})

\* The processes UpdatePriorityForVisible does not erase from the map.
Kept(m) == {p \in DOMAIN m : m[p].windows # {}}

\* UpdateWindowVisibilityPriorityInner: update the map, post the changes of
\* visibility, drop the empty entries, ask for a clean-up if the map is full.
UpdateWindowVisibilityPriorityInner ==
  LET m == Apply(Head(updates))
  IN  /\ updates # <<>>
      /\ updates' = Tail(updates)
      /\ requests' = requests \o UpdatePriorityForVisible(m)
      /\ map' = [p \in Kept(m) |-> [m[p] EXCEPT !.visible = TRUE]]
      /\ sizeCheck' = (sizeCheck \/ Cardinality(DOMAIN map') >= env.maxMapSize)
      /\ UNCHANGED <<env, life, starts, shown, timer, known, flagged>>

\* Mutant: the clean-up does not set the timer again.
TimerAgainNever == FALSE

\* SetTimer, at the end of a clean-up that was triggered by time.
TimerAgain == TRUE

DeadEntries == {p \in DOMAIN map : life[p] \in {"gone", "died", "reported"}}

\* CheckMapSize, every five minutes; when /proc cannot be read it returns at once.
CheckMapSizeByTime ==
  /\ timer
  /\ \/ /\ map' = Forget(map, DeadEntries)
        /\ timer' = TimerAgain
     \/ /\ env.procMayFail
        /\ timer' = FALSE
        /\ UNCHANGED map
  /\ UNCHANGED <<env, life, starts, shown, updates, sizeCheck, requests, known, flagged>>

CheckMapSizeBySize ==
  /\ sizeCheck
  /\ sizeCheck' = FALSE
  /\ \/ map' = Forget(map, DeadEntries)
     \/ env.procMayFail /\ UNCHANGED map
  /\ UNCHANGED <<env, life, starts, shown, updates, timer, requests, known, flagged>>

-----------------------------------------------------------------------------
(* The priority manager: requests about unknown processes are dropped.     *)

UpdateReclaimPriorityInner ==
  LET reason == Head(requests)[1]
      p      == Head(requests)[2]
  IN  /\ requests # <<>>
      /\ requests' = Tail(requests)
      /\ known' = CASE reason = "CREATE_PROCESS" -> known \cup {p}
                    [] reason = "PROCESS_TERMINATED" -> known \ {p}
                    [] OTHER -> known
      /\ flagged' = CASE reason = "VISIBLE" /\ p \in known -> flagged \cup {p}
                      [] reason \in {"UN_VISIBLE", "PROCESS_TERMINATED"} -> flagged \ {p}
                      [] OTHER -> flagged
      /\ UNCHANGED <<env, life, starts, shown, updates, map, timer, sizeCheck>>

ObserverStep == UpdateWindowVisibilityPriorityInner \/ CheckMapSizeBySize

WindowNext ==
  \/ \E p \in Pid :
       \/ OnProcessCreated(p)
       \/ ProcessDies(p)
       \/ ReportDeath(p)
       \/ OnProcessDied(p)
  \/ \E k \in 1 .. MaxInfos : \E changed \in kSubset(k, Pid \X Window) : ChangeWindows(changed)
  \/ UpdateWindowVisibilityPriorityInner
  \/ CheckMapSizeByTime
  \/ CheckMapSizeBySize
  \/ UpdateReclaimPriorityInner

WindowSpec == WindowInit /\ [][WindowNext]_windowVars

(***************************************************************************)
(* Fairness: the handler threads run, the callbacks of the app framework   *)
(* return, and time passes.                                                *)
(***************************************************************************)
WindowFairness ==
  /\ WF_windowVars(ObserverStep)
  /\ WF_windowVars(CheckMapSizeByTime)
  /\ WF_windowVars(UpdateReclaimPriorityInner)
  /\ \A p \in Pid : WF_windowVars(ReportDeath(p)) /\ WF_windowVars(OnProcessDied(p))

FairWindowSpec == WindowSpec /\ WindowFairness

-----------------------------------------------------------------------------
(* Correctness.                                                            *)

\* If the window manager reports windows that close with their process: once
\* everything posted is handled, the priority manager holds a process for
\* visible exactly if it shows a window: also a process that got the pid of one
\* that died with windows open.
VisibleAgrees ==
  env.reportsClosed /\ updates = <<>> /\ requests = <<>> =>
    \A p \in known : Alive(p) => (p \in flagged <=> WindowsOf(p) # {})

\* If /proc can be read: an entry of a process that died does not stay in windowVisibleMap_
\* for ever, even if it was added after OnProcessDied and nobody reports the windows gone.
StaleEntryGoes ==
  \A p \in Pid : (~env.procMayFail /\ p \in DOMAIN map /\ ~Alive(p)) ~> (p \notin DOMAIN map \/ Alive(p))
=============================================================================
