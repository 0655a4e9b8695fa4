---------------------------- MODULE EventCenter ----------------------------
(***************************************************************************)
(* MemMgrEventCenter registers the observers of the other services, on its *)
(* handler thread regObsHandler_: all of them at start, those that are     *)
(* missing whenever samgr announces a service, and the one of that service *)
(* in any case.  A failed registration is repeated later for the extension *)
(* connections and, a few times, for the accounts.  The services die and   *)
(* come back, and forget the observers they had; the connection client     *)
(* reports a death to the extension observer.  The report of samgr only    *)
(* resets the priority manager (ReclaimPriority!Reset).                    *)
(***************************************************************************)
EXTENDS Integers, SequencesExt

CONSTANTS
  Kinds,                    \* the observers there are
  Booted,                   \* the services that run when the memory manager starts
  ACCOUNT_MAX_RETRY_TIMES,  \* attempts after which the account observer is not retried
  ObituaryFirst,            \* does the connection client report a death before samgr reports the return?
  Mortal,                   \* the services that may die
  MaxDeaths,                \* bound: deaths of services
  MaxFaults                 \* bound: registrations a running service refuses

\* The order of RegisterEventObserver, and the service each one is registered with.
Order == <<"pressure", "kswapd", "app", "ext", "account", "common", "bgtask">>
Monitors == {"pressure", "kswapd"} \intersect Kinds
ServiceOf(k) == IF k = "ext" THEN "ability" ELSE k
Services == {ServiceOf(k) : k \in Kinds \ Monitors}

ASSUME CenterAssumption ==
  /\ Kinds \subseteq {"pressure", "kswapd", "app", "ext", "account", "common", "bgtask"} /\ "app" \in Kinds
  /\ Booted \subseteq Services /\ Mortal \subseteq Services
  /\ ACCOUNT_MAX_RETRY_TIMES \in Nat
  /\ ObituaryFirst \in BOOLEAN
  /\ MaxDeaths \in Nat /\ MaxFaults \in Nat

VARIABLES
  up,        \* the services that run
  notices,   \* samgr to MemMgrService: the services whose start is to be announced
  obituary,  \* has the connection client a death of the ability manager to report?
  tasks,     \* regObsHandler_: its immediate tasks, "all" or an observer
  work,      \* what is left of the running task: records [kind, ifNull]
  later,     \* regObsHandler_: how many delayed tasks there are for an observer
  held,      \* the observer pointers: "null", "made" or "registered"
  reg,       \* with the services: how many of our observers each kind has; of a monitor: Inits
  attempts,  \* regAccountObsRetry_, not told apart from ACCOUNT_MAX_RETRY_TIMES on; the code counts on
  refused,   \* history: the kinds whose last registration failed although the service ran
  told,      \* history: announcements that forced a registration of a kind
  deaths,    \* deaths that may still happen
  faults     \* refusals that may still happen

vars == <<up, notices, obituary, tasks, work, later, held, reg, attempts, refused, told, deaths, faults>>

TypeOK ==
  /\ up \subseteq Services
  /\ notices \subseteq up
  /\ obituary \in BOOLEAN
  /\ \A i \in DOMAIN tasks : tasks[i] \in Kinds \union {"all"}
  /\ \A k \in Kinds : later[k] \in Nat /\ reg[k] \in Nat /\ told[k] \in Nat
  /\ \A k \in {"pressure", "kswapd", "ext"} \intersect Kinds : later[k] <= 1
  /\ held \in [Kinds -> {"null", "made", "registered"}]
  /\ attempts \in 0 .. ACCOUNT_MAX_RETRY_TIMES
  /\ refused \subseteq Kinds
  /\ deaths \in 0 .. MaxDeaths /\ faults \in 0 .. MaxFaults

\* MemMgrEventCenter::Init posts the first task; the listeners are added afterwards and hear of the
\* services that run already.
Init ==
  /\ up = Booted
  /\ notices = up
  /\ obituary = FALSE
  /\ tasks = <<"all">> /\ work = <<>>
  /\ later = [k \in Kinds |-> 0]
  /\ held = [k \in Kinds |-> "null"]
  /\ reg = [k \in Kinds |-> 0]
  /\ attempts = 0
  /\ refused = {} /\ told = [k \in Kinds |-> 0]
  /\ deaths = MaxDeaths /\ faults = MaxFaults

-----------------------------------------------------------------------------
(* The handler thread.                                                     *)

\* The steps of RegisterEventObserver, each with its look at the pointer.
RegisterEventObserver == [i \in 1 .. Len(Order) |-> [kind |-> Order[i], ifNull |-> TRUE]]

\* What is left to do of ws: a step whose observer is there already is skipped, at once.
Pending(ws, pointers) ==
  LET n == SelectInSeq(ws, LAMBDA w : w.kind \in Kinds /\ (w.ifNull => pointers[w.kind] = "null"))
  IN  IF n = 0 THEN <<>> ELSE SubSeq(ws, n, Len(ws))

\* The step is over.
Done == work' = Pending(Tail(work), held')

\* An immediate task begins.
RunTask ==
  /\ work = <<>> /\ tasks # <<>>
  /\ tasks' = Tail(tasks)
  /\ work' = IF Head(tasks) = "all"
             THEN Pending(RegisterEventObserver, held)
             ELSE <<[kind |-> Head(tasks), ifNull |-> FALSE]>>
  /\ UNCHANGED <<up, notices, obituary, later, held, reg, attempts, refused, told, deaths, faults>>

\* A delayed task begins, of lower priority than the immediate ones: another attempt.
RunDelayed(k) ==
  /\ work = <<>> /\ tasks = <<>> /\ later[k] > 0 /\ k \notin Monitors
  /\ later' = [later EXCEPT ![k] = @ - 1]
  /\ work' = <<[kind |-> k, ifNull |-> FALSE]>>
  /\ UNCHANGED <<up, notices, obituary, tasks, held, reg, attempts, refused, told, deaths, faults>>

\* The delayed Init of a monitor.
InitMonitor(k) ==
  /\ work = <<>> /\ tasks = <<>> /\ later[k] > 0 /\ k \in Monitors
  /\ later' = [later EXCEPT ![k] = @ - 1]
  /\ held' = [held EXCEPT ![k] = "registered"]
  /\ reg' = [reg EXCEPT ![k] = @ + 1]
  /\ UNCHANGED <<up, notices, obituary, tasks, work, attempts, refused, told, deaths, faults>>

Turn(k) == work # <<>> /\ work[1].kind = k

\* RegisterMemoryPressureObserver, RegisterKswapdObserver
RegisterMonitor(k) ==
  /\ Turn(k) /\ k \in Monitors
  /\ held' = [held EXCEPT ![k] = "made"]
  /\ later' = [later EXCEPT ![k] = @ + 1]
  /\ Done
  /\ UNCHANGED <<up, notices, obituary, tasks, reg, attempts, refused, told, deaths, faults>>

\* What the service does with a registration.  Only the background task observer is made once and
\* registered again; of the others the service has one more.
Registered(k) ==
  /\ ServiceOf(k) \in up
  /\ held' = [held EXCEPT ![k] = "registered"]
  /\ reg' = [reg EXCEPT ![k] = IF k = "bgtask" THEN 1 ELSE @ + 1]
  /\ refused' = refused \ {k}
  /\ UNCHANGED faults

Refused(k) ==
  /\ \/ ServiceOf(k) \notin up /\ refused' = refused \ {k} /\ UNCHANGED faults
     \/ /\ ServiceOf(k) \in up /\ faults > 0
        /\ faults' = faults - 1 /\ refused' = refused \union {k}
  /\ held' = [held EXCEPT ![k] = IF @ = "registered" /\ k = "bgtask" THEN @ ELSE "made"]
  /\ UNCHANGED reg

\* RegisterAppStateObserver calls ConnectAppMgrService until it succeeds: without the app manager
\* this step is not taken and the handler does nothing else.
RegisterAppStateObserver ==
  /\ Turn("app") /\ "app" \in up
  /\ Registered("app") \/ Refused("app")
  /\ Done
  /\ UNCHANGED <<up, notices, obituary, tasks, later, attempts, told, deaths>>

\* RegisterExtConnObserver makes the observer ...
MakeExtConnObserver ==
  /\ Turn("ext")
  /\ held' = [held EXCEPT !["ext"] = "made"]
  /\ work' = <<[kind |-> "extMade", ifNull |-> FALSE]>> \o Tail(work)
  /\ UNCHANGED <<up, notices, obituary, tasks, later, reg, attempts, refused, told, deaths, faults>>

\* ... and registers it; a registration that failed is repeated after EXTCONN_RETRY_TIME.
RegisterExtConnObserver ==
  /\ Turn("extMade")
  /\ \/ Registered("ext") /\ UNCHANGED later
     \/ Refused("ext") /\ later' = [later EXCEPT !["ext"] = @ + 1]
  /\ Done
  /\ UNCHANGED <<up, notices, obituary, tasks, attempts, told, deaths>>

\* Mutant: an attempt is repeated although it succeeded.
RegisterAccountAgain(ok, n) == n < ACCOUNT_MAX_RETRY_TIMES

\* Another attempt follows in ACCOUNT_RETRY_DELAY; the counter is never reset.
RegisterAccountLater(ok, n) == ~ok /\ n < ACCOUNT_MAX_RETRY_TIMES

RegisterAccountObserver ==
  LET n == IF attempts < ACCOUNT_MAX_RETRY_TIMES THEN attempts + 1 ELSE attempts
  IN /\ Turn("account")
     /\ attempts' = n
     /\ \E ok \in BOOLEAN :
          /\ IF ok THEN Registered("account") ELSE Refused("account")
          /\ later' = [later EXCEPT !["account"] = IF RegisterAccountLater(ok, n) THEN @ + 1 ELSE @]
     /\ Done
     /\ UNCHANGED <<up, notices, obituary, tasks, told, deaths>>

\* RegisterCommonEventObserver, RegisterBgTaskObserver
RegisterOnce(k) ==
  /\ Turn(k) /\ k \in {"common", "bgtask"}
  /\ Registered(k) \/ Refused(k)
  /\ Done
  /\ UNCHANGED <<up, notices, obituary, tasks, later, attempts, told, deaths>>

\* The running task goes on.
HandlerStep ==
  \/ \E k \in Kinds : RegisterMonitor(k) \/ RegisterOnce(k)
  \/ RegisterAppStateObserver \/ MakeExtConnObserver \/ RegisterExtConnObserver
  \/ RegisterAccountObserver

-----------------------------------------------------------------------------
(* Notices of samgr and of the connection client, on other threads.        *)

\* Mutant: that of the ability manager forces the extension observer, too.
ForcedToo(s) == {k \in Kinds : k = s \/ (s = "ability" /\ k \in {"app", "ext"})}

\* RetryRegisterEventObserver: what the announcement of a service forces.
Forced(s) == {k \in Kinds : k = s \/ (s = "ability" /\ k = "app")}

OnAddSystemAbility(s) ==
  /\ s \in notices
  /\ s = "ability" /\ ObituaryFirst => ~obituary
  /\ notices' = notices \ {s}
  /\ tasks' = tasks \o SetToSeq(Forced(s)) \o <<"all">>
  /\ told' = [k \in Kinds |-> IF k \in Forced(s) THEN told[k] + 1 ELSE told[k]]
  /\ UNCHANGED <<up, obituary, work, later, held, reg, attempts, refused, deaths, faults>>

\* Mutant: the pointer is kept.
OnExtensionServiceDiedKeeps == UNCHANGED held

OnExtensionServiceDied == held' = [held EXCEPT !["ext"] = "null"]

\* ExtensionConnectionObserver::OnServiceDied
OnServiceDied ==
  /\ obituary
  /\ obituary' = FALSE
  /\ OnExtensionServiceDied
  /\ UNCHANGED <<up, notices, tasks, work, later, reg, attempts, refused, told, deaths, faults>>

-----------------------------------------------------------------------------
(* The other services.                                                     *)
Start(s) ==
  /\ s \notin up
  /\ up' = up \union {s}
  /\ notices' = notices \union {s}
  /\ UNCHANGED <<obituary, tasks, work, later, held, reg, attempts, refused, told, deaths, faults>>

\* The observers it had are gone; an announcement not yet made is dropped.
Die(s) ==
  /\ s \in up \intersect Mortal /\ deaths > 0
  /\ deaths' = deaths - 1
  /\ up' = up \ {s}
  /\ notices' = notices \ {s}
  /\ obituary' = (obituary \/ (s = "ability" /\ reg["ext"] > 0))
  /\ reg' = [k \in Kinds |-> IF k \notin Monitors /\ ServiceOf(k) = s THEN 0 ELSE reg[k]]
  /\ held' = [k \in Kinds |-> IF k \notin Monitors /\ ServiceOf(k) = s /\ held[k] = "registered"
                              THEN "made" ELSE held[k]]
  /\ UNCHANGED <<tasks, work, later, attempts, refused, told, faults>>

Next ==
  \/ RunTask \/ HandlerStep
  \/ \E k \in Kinds : RunDelayed(k) \/ InitMonitor(k)
  \/ \E s \in Services : OnAddSystemAbility(s) \/ Start(s) \/ Die(s)
  \/ OnServiceDied

Spec == Init /\ [][Next]_vars

(* The handler thread runs, every task has its turn between the others     *)
(* that keep coming, and the notices are delivered.  Services need not     *)
(* come back.                                                              *)
Fairness ==
  /\ WF_vars(HandlerStep) /\ WF_vars(RunTask)
  /\ \A k \in {"ext", "account"} \intersect Kinds : SF_vars(RunDelayed(k))
  /\ \A k \in Monitors : SF_vars(InitMonitor(k))
  /\ \A s \in Services : WF_vars(OnAddSystemAbility(s))
  /\ WF_vars(OnServiceDied)

FairSpec == Spec /\ Fairness

-----------------------------------------------------------------------------
(* An observer is registered at most once more than samgr announced its    *)
(* service, however registrations fail, are repeated and overlap; the      *)
(* extension, background task and memory observers at most once.           *)
NoMoreThanAnnounced ==
  \A k \in Kinds : reg[k] <= IF k = "bgtask" THEN 1 ELSE 1 + told[k]

(* The report that the ability manager died, which clears extConnObserver_ *)
(* without a lock, never comes while that pointer is made and registered.  *)
ClearedOutsideRegistration == ~(obituary /\ work # <<>> /\ work[1].kind = "extMade")

\* The services an observer depends on; the handler waits for the app manager in any case.
Needed(k) == {"app"} \union (IF k \in Monitors THEN {} ELSE {ServiceOf(k)})

(* Once the app manager and the service of an observer stay up, the        *)
(* service has the observer, unless it refused the last registration; the  *)
(* extension connections are observed even then.                           *)
Observed ==
  \A k \in Kinds :
    <>[](Needed(k) \subseteq up) => <>[](reg[k] > 0 \/ (k \in refused /\ k # "ext"))
=============================================================================
