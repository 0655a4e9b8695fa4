------------------------------ MODULE NandLife ------------------------------
(***************************************************************************)
(* The NandLifeController: every TIMER_PEROID_MIN minutes it reads how     *)
(* much the kernel has swapped out to flash, keeps the daily and the total *)
(* account, in memory and in persistent parameters, and opens or closes    *)
(* the kernel's swap-out.  The kernel goes on swapping out between the     *)
(* checks and while the service is down; reads, writes to the switch and   *)
(* parameter writes may fail, the service may crash, the device reboot and *)
(* the kernel's counter be reset.                                          *)
(*                                                                         *)
(* minsSinceBirth_ is stored but never read for a decision: its value is   *)
(* left out, the write that may fail is kept.                              *)
(***************************************************************************)
EXTENDS Integers, FiniteSetsExt

CONSTANTS
  Quotas,            \* the configurations: records [daily, total], in KB
  TIMER_PEROID_MIN,  \* minutes between two checks
  DAY_MINS,          \* 24 * 60
  MaxSwapOut,        \* bound: the kernel's counter, and the total account
  MaxFaults,         \* bound: faults in a behaviour
  ULLONG_SIZE        \* 2^64, or less: the counters are unsigned

ASSUME NandLifeAssumption ==
  /\ Quotas \subseteq [daily : Nat, total : Nat]
  /\ TIMER_PEROID_MIN \in Nat \ {0}
  /\ DAY_MINS \in Nat \ {0}
  /\ MaxSwapOut \in Nat
  /\ MaxFaults \in Nat
  /\ ULLONG_SIZE \in Nat \ 0 .. 2 * MaxSwapOut

VARIABLES
  quota,       \* config_
  up,          \* the service runs and Init has been called
  timer,       \* is a CheckSwapOut posted?
  minsToday,   \* minsToday_, which stops at DAY_MINS: it is only compared with it
  kbToday,     \* swapOutKBToday_
  kbBirth,     \* swapOutKBSinceBirth_
  last,        \* lastSwapOutKB_
  param,       \* the persistent parameters
  kernel,      \* kernel: KB swapped out since it booted
  enable,      \* kernel: ESWAP_ENABLE_PATH
  echoed,      \* history: did the last write to ESWAP_ENABLE_PATH succeed?
  faults       \* faults that may still happen

vars == <<quota, up, timer, minsToday, kbToday, kbBirth, last, param, kernel, enable, echoed, faults>>
memory == <<minsToday, kbToday, kbBirth, last>>

TypeOK ==
  /\ quota \in Quotas
  /\ up \in BOOLEAN
  /\ timer \in BOOLEAN
  /\ minsToday \in 0 .. DAY_MINS
  /\ kbToday \in Nat
  /\ kbBirth \in 0 .. MaxSwapOut
  /\ last \in 0 .. MaxSwapOut
  /\ param \in [minsToday : 0 .. DAY_MINS, kbToday : Nat, kbBirth : 0 .. MaxSwapOut,
                closed : BOOLEAN]
  /\ kernel \in 0 .. MaxSwapOut
  /\ enable \in BOOLEAN
  /\ echoed \in BOOLEAN
  /\ faults \in 0 .. MaxFaults

\* A new device: memmgr.para sets every parameter to 0.
Init ==
  /\ quota \in Quotas
  /\ up = FALSE
  /\ timer = FALSE
  /\ minsToday = 0
  /\ kbToday = 0
  /\ kbBirth = 0
  /\ last = 0
  /\ param = [minsToday |-> 0, kbToday |-> 0, kbBirth |-> 0, closed |-> FALSE]
  /\ kernel = 0
  /\ enable = FALSE
  /\ echoed = TRUE
  /\ faults = MaxFaults

-----------------------------------------------------------------------------
(* Steps of a handler that may fail: bad is the set of those that do, each *)
(* after its RETRY_TIMES attempts.                                         *)
ParamSteps == {"mins", "kb", "minsBirth", "kbBirth"}
InitSteps  == {"load", "read", "start", "closed"}
CheckSteps == {"read", "daily", "newday", "undo", "total", "closed"} \union ParamSteps

Outcomes(steps) == {bad \in SUBSET steps : Cardinality(bad) <= MaxFaults}
InitOutcomes  == Outcomes(InitSteps)
CheckOutcomes == Outcomes(CheckSteps)

Failing(bad) ==
  /\ Cardinality(bad) <= faults
  /\ faults' = faults - Cardinality(bad)

\* OpenSwapOutTemporarily, CloseSwapOutTemporarily: sw is the switch and the outcome of
\* the last write to it.
Switch(sw, want, step, bad) ==
  IF step \in bad THEN [sw EXCEPT !.ok = FALSE] ELSE [on |-> want, ok |-> TRUE]
Echo(sw) == enable' = sw.on /\ echoed' = sw.ok
Now == [on |-> enable, ok |-> echoed]

UpdateNandLifeParam(mins, today, birth, bad) ==
  LET before(steps) == bad \intersect steps = {} IN
  [param EXCEPT
    !.minsToday = IF before({"mins"}) THEN mins ELSE @,
    !.kbToday   = IF before({"mins", "kb"}) THEN today ELSE @,
    !.kbBirth   = IF before(ParamSteps) THEN birth ELSE @]

\* Mutant: the quota itself may be used up without closing.
ReachedDailyLate(today) == today > quota.daily
ReachedDaily(today) == today >= quota.daily
ReachedTotal(birth) == birth >= quota.total
Unlimited == quota.daily = 0 /\ quota.total = 0

-----------------------------------------------------------------------------
(* Init(), called when the service starts.                                 *)
Starting(bad) == ~up /\ up' = TRUE /\ Failing(bad)

InitUnlimited(bad) ==
  /\ Starting(bad)
  /\ bad \subseteq {"closed", "start"}
  /\ Unlimited
  /\ param' = [param EXCEPT !.closed = @ /\ "closed" \in bad]
  /\ Echo(Switch(Now, TRUE, "start", bad))
  /\ UNCHANGED <<quota, timer, memory, kernel>>

\* LoadNandLifeParam, which also fails when errno still is ERANGE from an earlier call.
Load ==
  /\ minsToday' = param.minsToday
  /\ kbToday' = param.kbToday
  /\ kbBirth' = param.kbBirth

\* Mutant: Init does not look at the permanent close.
RefusedAtInitNever == FALSE
RefusedAtInit == param.closed

InitRefused(bad) ==
  /\ Starting(bad)
  /\ bad \subseteq {"load", "read", "start"}
  /\ ~Unlimited
  /\ bad \intersect {"load", "read"} # {} \/ RefusedAtInit
  /\ Load
  /\ Echo(Switch(Now, FALSE, "start", bad))
  /\ UNCHANGED <<quota, timer, last, param, kernel>>

InitAccepted(bad) ==
  /\ Starting(bad)
  /\ bad \subseteq {"start", "closed"}
  /\ ~Unlimited
  /\ ~RefusedAtInit
  /\ Load
  /\ last' = kernel
  /\ timer' = TRUE
  /\ param' = [param EXCEPT !.closed = @ \/ (ReachedTotal(param.kbBirth) /\ "closed" \notin bad)]
  /\ Echo(Switch(Now, ~(ReachedTotal(param.kbBirth) \/ ReachedDaily(param.kbToday)), "start", bad))
  /\ UNCHANGED <<quota, kernel>>

-----------------------------------------------------------------------------
(* CheckSwapOut(), each time the timer fires.                              *)
Tick(m) == Min({m + TIMER_PEROID_MIN, DAY_MINS})

\* Mutant: an early return forgets the next timer.
EarlyReturnForGood(bad) == Echo(Switch(Now, FALSE, "daily", bad)) /\ timer' = FALSE
EarlyReturn(bad) == Echo(Switch(Now, FALSE, "daily", bad)) /\ timer' = TRUE

CheckClosed(bad) ==
  /\ timer
  /\ Failing(bad)
  /\ bad \subseteq {"daily"}
  /\ param.closed
  /\ EarlyReturn(bad)
  /\ UNCHANGED <<quota, up, memory, param, kernel>>

WentBack == kernel < last

\* The counter cannot be read, or has gone back: closed, and nothing is charged.
CheckUnread(bad) ==
  /\ timer
  /\ Failing(bad)
  /\ bad \subseteq {"read", "daily"}
  /\ ~param.closed
  /\ "read" \in bad \/ WentBack
  /\ minsToday' = Tick(minsToday)
  /\ EarlyReturn(bad)
  /\ UNCHANGED <<quota, up, kbToday, kbBirth, last, param, kernel>>

\* Mutant: the counter of the last check is kept.
RememberNothing == last' = last
Remember == last' = kernel

CheckSwapOut(bad) ==
  LET increased == (kernel - last) % ULLONG_SIZE
      birth  == kbBirth + increased
      today  == kbToday + increased
      mins   == Tick(minsToday)
      newDay == mins = DAY_MINS
      sw1 == IF ReachedDaily(today) THEN Switch(Now, FALSE, "daily", bad) ELSE Now
      sw2 == IF newDay /\ ~ReachedTotal(birth) THEN Switch(sw1, TRUE, "newday", bad) ELSE sw1
      sw3 == IF bad \intersect ParamSteps # {} THEN Switch(sw2, FALSE, "undo", bad) ELSE sw2
      sw4 == IF ReachedTotal(birth) THEN Switch(sw3, FALSE, "total", bad) ELSE sw3
  IN
  /\ timer
  /\ Failing(bad)
  /\ "read" \notin bad
  /\ ~param.closed
  /\ ~WentBack
  /\ Remember
  /\ kbBirth' = birth
  /\ kbToday' = IF newDay THEN 0 ELSE today
  /\ minsToday' = IF newDay THEN 0 ELSE mins
  /\ param' = [UpdateNandLifeParam(minsToday', kbToday', birth, bad)
                EXCEPT !.closed = ReachedTotal(birth) /\ "closed" \notin bad]
  /\ Echo(sw4)
  /\ timer' = TRUE
  /\ UNCHANGED <<quota, up, kernel>>

-----------------------------------------------------------------------------
(* The kernel and the device.                                              *)
Pending == IF timer /\ kernel > last THEN kernel - last ELSE 0

SwapOut ==
  /\ enable
  /\ kernel < MaxSwapOut
  /\ kbBirth + Pending < MaxSwapOut
  /\ kernel' = kernel + 1
  /\ UNCHANGED <<quota, up, timer, memory, param, enable, echoed, faults>>

Fault == faults > 0 /\ faults' = faults - 1

Stopped ==
  /\ up' = FALSE
  /\ timer' = FALSE
  /\ minsToday' = 0
  /\ kbToday' = 0
  /\ kbBirth' = 0
  /\ last' = 0
  /\ UNCHANGED param

Crash ==
  /\ up
  /\ Fault
  /\ Stopped
  /\ UNCHANGED <<quota, kernel, enable, echoed>>

Reboot ==
  /\ Fault
  /\ Stopped
  /\ quota' \in Quotas
  /\ kernel' = 0
  /\ enable' = FALSE
  /\ echoed' = TRUE

ResetCounter ==
  /\ Fault
  /\ kernel' = 0
  /\ UNCHANGED <<quota, up, timer, memory, param, enable, echoed>>

Check == \E bad \in CheckOutcomes : CheckClosed(bad) \/ CheckUnread(bad) \/ CheckSwapOut(bad)
Start == \E bad \in InitOutcomes : InitUnlimited(bad) \/ InitRefused(bad) \/ InitAccepted(bad)

Next == Start \/ Check \/ SwapOut \/ Crash \/ Reboot \/ ResetCounter

Spec == Init /\ [][Next]_vars

\* The handler runs the posted checks.  Nothing else is promised: the kernel need not
\* swap out, and a service that crashed need not come back.
FairSpec == Spec /\ WF_vars(Check)

-----------------------------------------------------------------------------
\* Switched on by a write that arrived, swap-out is within both quotas as counted at the
\* last check (Init, CheckReachedDailyLimit, CheckReachedTotalLimit).  A daily quota of 0
\* beside a total one is left out: every new day opens swap-out for one period.
QuotaHeld ==
  timer /\ enable /\ echoed /\ quota.daily > 0 => kbToday < quota.daily /\ kbBirth < quota.total

\* Closed permanently, swap-out is not opened again by anything short of a configuration
\* without limits: not by a new day, a restart, or parameters that were stored in part.
ClosedForGood ==
  [][param.closed /\ param'.closed /\ ~Unlimited' => (enable' => enable)]_vars

\* While the checks run, a closed swap-out is opened again on a later day unless the total
\* quota is used up: no failed read or write takes the timer away.  A counter that went
\* back is the exception: each check then returns before it looks at the day.
ReopensLater ==
  (timer /\ ~enable) ~> (enable \/ ~up \/ ReachedTotal(kbBirth) \/ WentBack)

\* The account the abstract specification speaks of: counted, and still to be counted.
Spent == IF timer THEN kbBirth + Pending ELSE param.kbBirth
Today == IF timer THEN kbToday + Pending ELSE param.kbToday
Counting == timer /\ ~WentBack

Account == INSTANCE SwapOutQuota WITH
  open     <- enable,
  written  <- kernel,
  counting <- Counting,
  spent    <- Spent,
  today    <- Today,
  stored   <- param.kbBirth

\* The controller implements the account, through crashes and parts of parameters stored.
ChargesAccount == Account!Spec
=============================================================================
