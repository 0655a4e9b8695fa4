-------------------------- MODULE NandLife_proofs ---------------------------
(***************************************************************************)
(* Proofs about NandLife, for every set of configurations and every number *)
(* of faults: the quotas, the permanent close, and that the controller     *)
(* implements the account of SwapOutQuota.                                 *)
(***************************************************************************)
EXTENDS NandLife, FiniteSetTheorems, TLAPS

-----------------------------------------------------------------------------
(* What the operators of the model return.                                 *)

\* The lesser of two numbers.
LEMMA MinOfTwo ==
  ASSUME NEW a \in Int, NEW b \in Int
  PROVE  Min({a, b}) = IF a <= b THEN a ELSE b
<1>1. \E x \in {a, b} : \A y \in {a, b} : x =< y
  OBVIOUS
<1> QED BY <1>1 DEF Min

\* The minutes of a day stop at its end.
LEMMA TickType ==
  ASSUME NEW m \in 0 .. DAY_MINS
  PROVE  Tick(m) \in 0 .. DAY_MINS
<1>1. TIMER_PEROID_MIN \in Nat /\ DAY_MINS \in Nat
  BY NandLifeAssumption
<1>2. Min({m + TIMER_PEROID_MIN, DAY_MINS})
        = IF m + TIMER_PEROID_MIN <= DAY_MINS THEN m + TIMER_PEROID_MIN ELSE DAY_MINS
  BY <1>1, MinOfTwo
<1> QED BY <1>1, <1>2 DEF Tick

\* A handler has finitely many steps.
LEMMA StepsFinite == IsFiniteSet(InitSteps) /\ IsFiniteSet(CheckSteps)
<1>1. IsFiniteSet(InitSteps)
  <2>1. IsFiniteSet({}) /\ InitSteps = ((({} \union {"load"}) \union {"read"}) \union {"start"}) \union {"closed"}
    BY FS_EmptySet DEF InitSteps
  <2> QED BY <2>1, FS_AddElement
<1>2. IsFiniteSet(CheckSteps)
  <2>1. IsFiniteSet({})
    BY FS_EmptySet
  <2>2. CheckSteps = ((((((((({} \union {"read"}) \union {"daily"}) \union {"newday"}) \union {"undo"})
                       \union {"total"}) \union {"closed"}) \union {"mins"}) \union {"kb"})
                       \union {"minsBirth"}) \union {"kbBirth"}
    BY DEF CheckSteps, ParamSteps
  <2> QED BY <2>1, <2>2, FS_AddElement
<1> QED BY <1>1, <1>2

\* So the number of those that fail is a number.
LEMMA OutcomesCount ==
  /\ \A bad \in InitOutcomes : Cardinality(bad) \in Nat
  /\ \A bad \in CheckOutcomes : Cardinality(bad) \in Nat
<1>1. IsFiniteSet(InitSteps) /\ IsFiniteSet(CheckSteps)
  BY StepsFinite
<1>2. ASSUME NEW steps, IsFiniteSet(steps), NEW bad \in Outcomes(steps)
      PROVE  Cardinality(bad) \in Nat
  BY <1>2, FS_Subset, FS_CardinalityType DEF Outcomes
<1> QED BY <1>1, <1>2 DEF InitOutcomes, CheckOutcomes

\* Faults that happened are taken off those that still may.
LEMMA FailingType ==
  ASSUME TypeOK, NEW bad, Cardinality(bad) \in Nat, Failing(bad)
  PROVE  faults' \in 0 .. MaxFaults
BY NandLifeAssumption DEF TypeOK, Failing

\* A multiple of a positive number, by something other than 0, is not close to 0.
LEMMA MultipleBound ==
  ASSUME NEW n \in Nat, NEW q \in Int
  PROVE  /\ q >= 1 => n * q >= n
         /\ q <= -1 => n * q <= -n
<1>1. ASSUME q >= 1 PROVE n * q >= n
  <2>1. n * (q - 1) \in Nat
    BY <1>1
  <2>2. n * q = n * (q - 1) + n
    OBVIOUS
  <2> QED BY <2>1, <2>2
<1>2. ASSUME q <= -1 PROVE n * q <= -n
  <2>1. n * (-1 - q) \in Nat
    BY <1>2
  <2>2. n * (-1 - q) = -n - n * q
    OBVIOUS
  <2> QED BY <2>1, <2>2
<1> QED BY <1>1, <1>2

\* The counters are far below their width: a difference does not wrap.
LEMMA NoWrap ==
  ASSUME NEW a \in Nat, NEW n \in Nat, a < n
  PROVE  a % n = a
<1>1. a % n \in Int /\ a \div n \in Int /\ a = n * (a \div n) + (a % n) /\ 0 <= a % n /\ a % n < n
  OBVIOUS
<1>2. ~(a \div n >= 1) /\ ~(a \div n <= -1)
  BY <1>1, MultipleBound
<1> QED BY <1>1, <1>2

-----------------------------------------------------------------------------
(* The inductive invariant.                                                *)

\* What is still to be counted fits the account, and what is stored never runs ahead of
\* what is counted: UpdateNandLifeParam may stop half-way, and the kernel's counter and
\* the parameters outlive the service.
AccountBounded ==
  /\ ~up => ~timer
  /\ timer => kbBirth + Pending <= MaxSwapOut
  /\ timer => param.kbBirth <= kbBirth

IInv == TypeOK /\ AccountBounded

\* What a check that reads the counter does to the account: it charges the difference, and
\* the switch it leaves on, by a write that arrived, is within both quotas.
LEMMA CheckCharges ==
  ASSUME IInv, NEW bad \in CheckOutcomes, CheckSwapOut(bad)
  PROVE  /\ kernel >= last
         /\ kbBirth' = kbBirth + (kernel - last)
         /\ minsToday' \in 0 .. DAY_MINS
         /\ \/ kbToday' = 0
            \/ /\ kbToday' = kbToday + (kernel - last)
               /\ enable' => enable
         /\ param'.kbBirth \in {param.kbBirth, kbBirth'}
         /\ bad = {} => param'.kbBirth = kbBirth'
         /\ param' \in [minsToday : 0 .. DAY_MINS, kbToday : Nat, kbBirth : Int, closed : BOOLEAN]
         /\ enable' \in BOOLEAN
         /\ echoed' \in BOOLEAN
         /\ enable' => enable \/ kbBirth' < quota.total
         /\ enable' /\ echoed' => kbBirth' < quota.total
         /\ enable' /\ echoed' /\ quota.daily > 0 => kbToday' < quota.daily
<1> DEFINE increased == (kernel - last) % ULLONG_SIZE
           birth  == kbBirth + increased
           today  == kbToday + increased
           mins   == Tick(minsToday)
           newDay == mins = DAY_MINS
           sw1 == IF ReachedDaily(today) THEN Switch(Now, FALSE, "daily", bad) ELSE Now
           sw2 == IF newDay /\ ~ReachedTotal(birth) THEN Switch(sw1, TRUE, "newday", bad) ELSE sw1
           sw3 == IF bad \intersect ParamSteps # {} THEN Switch(sw2, FALSE, "undo", bad) ELSE sw2
           sw4 == IF ReachedTotal(birth) THEN Switch(sw3, FALSE, "total", bad) ELSE sw3
           Sw == [on : BOOLEAN, ok : BOOLEAN]
<1>0. /\ TypeOK
      /\ quota.daily \in Nat /\ quota.total \in Nat
      /\ ULLONG_SIZE \in Nat /\ MaxSwapOut \in Nat /\ MaxSwapOut < ULLONG_SIZE
      /\ DAY_MINS \in Nat
  BY NandLifeAssumption DEF IInv, TypeOK
<1>1. /\ kernel >= last /\ kernel - last \in Nat
      /\ increased = kernel - last
  <2>1. kernel >= last /\ kernel - last \in Nat /\ kernel - last < ULLONG_SIZE
    BY <1>0 DEF CheckSwapOut, WentBack, TypeOK
  <2> QED BY <2>1, <1>0, NoWrap
<1>2. mins \in 0 .. DAY_MINS
  BY <1>0, TickType DEF TypeOK
<1>3. /\ kbBirth' = birth
      /\ kbToday' = IF newDay THEN 0 ELSE today
      /\ minsToday' = IF newDay THEN 0 ELSE mins
      /\ param' = [UpdateNandLifeParam(minsToday', kbToday', birth, bad)
                    EXCEPT !.closed = ReachedTotal(birth) /\ "closed" \notin bad]
      /\ enable' = sw4.on /\ echoed' = sw4.ok
  BY DEF CheckSwapOut, Echo
<1>4. birth \in Nat /\ today \in Nat /\ kbToday' \in Nat /\ minsToday' \in 0 .. DAY_MINS
  <2> HIDE DEF mins, increased
  <2> QED BY <1>0, <1>1, <1>2, <1>3 DEF TypeOK
<1>5. /\ param'.kbBirth \in {param.kbBirth, birth}
      /\ bad = {} => param'.kbBirth = birth
      /\ param' \in [minsToday : 0 .. DAY_MINS, kbToday : Nat, kbBirth : Int, closed : BOOLEAN]
  <2> HIDE DEF birth
  <2>1. birth \in Int /\ (ReachedTotal(birth) /\ "closed" \notin bad) \in BOOLEAN
    BY <1>4 DEF ReachedTotal
  <2>2. param \in [minsToday : 0 .. DAY_MINS, kbToday : Nat, kbBirth : Int, closed : BOOLEAN]
    BY <1>0 DEF TypeOK
  <2> QED BY <1>3, <1>4, <2>1, <2>2 DEF UpdateNandLifeParam
<1>6. Now \in Sw /\ Now.on = enable /\ Now.ok = echoed
  BY <1>0 DEF Now, TypeOK
<1>7. ASSUME NEW sw \in Sw, NEW want \in BOOLEAN, NEW step
      PROVE  /\ Switch(sw, want, step, bad) \in Sw
             /\ Switch(sw, want, step, bad).ok => Switch(sw, want, step, bad).on = want
             /\ Switch(sw, want, step, bad).on = sw.on \/ Switch(sw, want, step, bad).on = want
  BY DEF Switch
<1>8. /\ sw1 \in Sw
      /\ sw1.on => enable
      /\ sw1.on /\ sw1.ok => ~ReachedDaily(today)
  <2> HIDE DEF today
  <2> QED BY <1>6, <1>7
<1>9. /\ sw2 \in Sw
      /\ sw2.on => sw1.on \/ (newDay /\ ~ReachedTotal(birth))
      /\ sw2.on /\ sw2.ok => newDay \/ (sw1.on /\ sw1.ok)
  <2>1. CASE newDay /\ ~ReachedTotal(birth)
    <3>1. sw2 = Switch(sw1, TRUE, "newday", bad)
      BY <2>1
    <3> HIDE DEF sw1, sw2, birth
    <3> QED BY <2>1, <3>1, <1>7, <1>8
  <2>2. CASE ~(newDay /\ ~ReachedTotal(birth))
    <3>1. sw2 = sw1
      BY <2>2
    <3> HIDE DEF sw1, sw2, birth
    <3> QED BY <2>2, <3>1, <1>8
  <2> QED BY <2>1, <2>2
<1>10. /\ sw3 \in Sw
       /\ sw3.on => sw2.on
       /\ sw3.on /\ sw3.ok => sw2.on /\ sw2.ok
  <2> HIDE DEF sw2
  <2> QED BY <1>7, <1>9
<1>11. /\ sw4 \in Sw
       /\ sw4.on => sw3.on
       /\ sw4.on /\ sw4.ok => ~ReachedTotal(birth) /\ sw3.on /\ sw3.ok
  <2> HIDE DEF sw3, birth
  <2> QED BY <1>7, <1>10
<1>12. /\ sw4.on => enable \/ ~ReachedTotal(birth)
       /\ ~newDay => (sw4.on => enable)
       /\ sw4.on /\ sw4.ok => ~ReachedTotal(birth) /\ (newDay \/ ~ReachedDaily(today))
  <2> HIDE DEF sw1, sw2, sw3, sw4, birth, today, newDay
  <2> QED BY <1>8, <1>9, <1>10, <1>11
<1>13. enable' \in BOOLEAN /\ echoed' \in BOOLEAN
  <2> HIDE DEF sw4
  <2> QED BY <1>3, <1>11
<1> HIDE DEF sw1, sw2, sw3, sw4, increased, mins, newDay
<1>14. /\ ~ReachedTotal(birth) => birth < quota.total
       /\ ~ReachedDaily(today) => today < quota.daily
  BY <1>0, <1>4 DEF ReachedTotal, ReachedDaily
<1>15. birth = kbBirth + (kernel - last) /\ today = kbToday + (kernel - last)
  BY <1>1
<1> HIDE DEF birth, today
<1>16. /\ \/ kbToday' = 0
          \/ /\ kbToday' = today
             /\ enable' => enable
       /\ enable' => enable \/ birth < quota.total
       /\ enable' /\ echoed' => birth < quota.total
       /\ enable' /\ echoed' /\ quota.daily > 0 => kbToday' < quota.daily
  BY <1>0, <1>3, <1>12, <1>14
<1> QED BY <1>1, <1>3, <1>4, <1>5, <1>13, <1>15, <1>16

\* A service that is not running has posted no check, and what it counts is what it stored.
LEMMA InitIInv == Init => IInv
<1> SUFFICES ASSUME Init PROVE IInv
  OBVIOUS
<1>1. MaxSwapOut \in Nat /\ MaxFaults \in Nat /\ DAY_MINS \in Nat
  BY NandLifeAssumption
<1>2. param \in [minsToday : 0 .. DAY_MINS, kbToday : Nat, kbBirth : 0 .. MaxSwapOut, closed : BOOLEAN]
  BY <1>1 DEF Init
<1>3. up \in BOOLEAN /\ timer \in BOOLEAN /\ enable \in BOOLEAN /\ echoed \in BOOLEAN
  BY DEF Init
<1>4. /\ minsToday \in 0 .. DAY_MINS
      /\ kbToday \in Nat
      /\ kbBirth \in 0 .. MaxSwapOut
      /\ last \in 0 .. MaxSwapOut
      /\ kernel \in 0 .. MaxSwapOut
      /\ faults \in 0 .. MaxFaults
      /\ quota \in Quotas
  BY <1>1 DEF Init
<1>5. AccountBounded
  <2>1. ~timer
    BY DEF Init
  <2> QED BY <2>1 DEF AccountBounded
<1> QED BY <1>2, <1>3, <1>4, <1>5 DEF IInv, TypeOK

\* Every step keeps the invariant.
LEMMA NextIInv == IInv /\ [Next]_vars => IInv'
<1> SUFFICES ASSUME IInv, [Next]_vars PROVE IInv'
  OBVIOUS
<1>0. /\ TypeOK /\ AccountBounded
      /\ MaxSwapOut \in Nat /\ MaxFaults \in Nat /\ DAY_MINS \in Nat
  BY NandLifeAssumption DEF IInv
<1>1. ASSUME NEW bad \in InitOutcomes, InitUnlimited(bad) PROVE IInv'
  <2>1. faults' \in 0 .. MaxFaults
    BY <1>0, <1>1, OutcomesCount, FailingType DEF InitUnlimited, Starting
  <2>2. enable' \in BOOLEAN /\ echoed' \in BOOLEAN
    BY <1>0, <1>1 DEF InitUnlimited, Echo, Switch, Now, TypeOK
  <2>3. param' \in [minsToday : 0 .. DAY_MINS, kbToday : Nat, kbBirth : 0 .. MaxSwapOut, closed : BOOLEAN]
    <3>1. param' = [param EXCEPT !.closed = param.closed /\ "closed" \in bad]
      BY <1>1 DEF InitUnlimited
    <3>2. (param.closed /\ "closed" \in bad) \in BOOLEAN
      OBVIOUS
    <3> QED BY <1>0, <3>1, <3>2 DEF TypeOK
  <2>4. TypeOK'
    BY <1>0, <1>1, <2>1, <2>2, <2>3 DEF InitUnlimited, Starting, TypeOK, memory
  <2>5. AccountBounded'
    BY <1>0, <1>1 DEF InitUnlimited, Starting, AccountBounded
  <2> QED BY <2>4, <2>5 DEF IInv
<1>2. ASSUME NEW bad \in InitOutcomes, InitRefused(bad) PROVE IInv'
  <2>1. faults' \in 0 .. MaxFaults
    BY <1>0, <1>2, OutcomesCount, FailingType DEF InitRefused, Starting
  <2>2. enable' \in BOOLEAN /\ echoed' \in BOOLEAN
    BY <1>0, <1>2 DEF InitRefused, Echo, Switch, Now, TypeOK
  <2>3. TypeOK'
    BY <1>0, <1>2, <2>1, <2>2 DEF InitRefused, Starting, Load, TypeOK
  <2>4. AccountBounded'
    BY <1>0, <1>2 DEF InitRefused, Starting, AccountBounded
  <2> QED BY <2>3, <2>4 DEF IInv
<1>3. ASSUME NEW bad \in InitOutcomes, InitAccepted(bad) PROVE IInv'
  <2>1. faults' \in 0 .. MaxFaults
    BY <1>0, <1>3, OutcomesCount, FailingType DEF InitAccepted, Starting
  <2>2. enable' \in BOOLEAN /\ echoed' \in BOOLEAN
    BY <1>0, <1>3 DEF InitAccepted, Echo, Switch, Now, TypeOK
  <2>3. /\ param' \in [minsToday : 0 .. DAY_MINS, kbToday : Nat, kbBirth : 0 .. MaxSwapOut, closed : BOOLEAN]
        /\ param'.kbBirth = param.kbBirth
    <3> DEFINE c == param.closed \/ (ReachedTotal(param.kbBirth) /\ "closed" \notin bad)
    <3>1. param' = [param EXCEPT !.closed = c]
      BY <1>3 DEF InitAccepted
    <3>2. c \in BOOLEAN
      OBVIOUS
    <3> HIDE DEF c
    <3> QED BY <1>0, <3>1, <3>2 DEF TypeOK
  <2>4. TypeOK'
    BY <1>0, <1>3, <2>1, <2>2, <2>3 DEF InitAccepted, Starting, Load, TypeOK
  <2>5. AccountBounded'
    BY <1>0, <1>3, <2>3 DEF InitAccepted, Starting, Load, AccountBounded, Pending, TypeOK
  <2> QED BY <2>4, <2>5 DEF IInv
<1>4. ASSUME NEW bad \in CheckOutcomes, CheckClosed(bad) PROVE IInv'
  <2>1. faults' \in 0 .. MaxFaults
    BY <1>0, <1>4, OutcomesCount, FailingType DEF CheckClosed
  <2>2. enable' \in BOOLEAN /\ echoed' \in BOOLEAN
    BY <1>0, <1>4 DEF CheckClosed, EarlyReturn, Echo, Switch, Now, TypeOK
  <2>3. timer /\ timer'
    BY <1>4 DEF CheckClosed, EarlyReturn
  <2> QED BY <1>0, <1>4, <2>1, <2>2, <2>3 DEF CheckClosed, IInv, TypeOK, AccountBounded, Pending, memory
<1>5. ASSUME NEW bad \in CheckOutcomes, CheckUnread(bad) PROVE IInv'
  <2>1. faults' \in 0 .. MaxFaults
    BY <1>0, <1>5, OutcomesCount, FailingType DEF CheckUnread
  <2>2. enable' \in BOOLEAN /\ echoed' \in BOOLEAN
    BY <1>0, <1>5 DEF CheckUnread, EarlyReturn, Echo, Switch, Now, TypeOK
  <2>3. timer /\ timer'
    BY <1>5 DEF CheckUnread, EarlyReturn
  <2>4. minsToday' \in 0 .. DAY_MINS
    BY <1>0, <1>5, TickType DEF CheckUnread, TypeOK
  <2> QED BY <1>0, <1>5, <2>1, <2>2, <2>3, <2>4 DEF CheckUnread, IInv, TypeOK, AccountBounded, Pending
<1>6. ASSUME NEW bad \in CheckOutcomes, CheckSwapOut(bad) PROVE IInv'
  <2>1. faults' \in 0 .. MaxFaults
    BY <1>0, <1>6, OutcomesCount, FailingType DEF CheckSwapOut
  <2>2. timer /\ timer' /\ last' = kernel /\ kernel' = kernel /\ up' = up /\ quota' = quota
    BY <1>6 DEF CheckSwapOut, Remember
  <2>3. /\ kernel >= last
        /\ kbBirth' = kbBirth + (kernel - last)
        /\ minsToday' \in 0 .. DAY_MINS
        /\ kbToday' = 0 \/ kbToday' = kbToday + (kernel - last)
        /\ param'.kbBirth \in {param.kbBirth, kbBirth'}
        /\ param' \in [minsToday : 0 .. DAY_MINS, kbToday : Nat, kbBirth : Int, closed : BOOLEAN]
        /\ enable' \in BOOLEAN
        /\ echoed' \in BOOLEAN
    BY <1>6, CheckCharges
  <2>4. kbBirth' \in 0 .. MaxSwapOut /\ kbToday' \in Nat
    BY <1>0, <2>2, <2>3 DEF AccountBounded, Pending, TypeOK
  <2>5. /\ param'.kbBirth \in 0 .. MaxSwapOut
        /\ param'.kbBirth <= kbBirth'
    BY <1>0, <2>2, <2>3, <2>4 DEF AccountBounded, TypeOK
  <2>6. TypeOK'
    BY <1>0, <2>1, <2>2, <2>3, <2>4, <2>5 DEF TypeOK
  <2>7. AccountBounded'
    <3>1. up'
      BY <1>0, <2>2 DEF AccountBounded, TypeOK
    <3>2. Pending' = 0
      BY <1>0, <2>2 DEF Pending, TypeOK
    <3>3. kbBirth' + Pending' <= MaxSwapOut
      <4>1. kbBirth' \in Int /\ kbBirth' <= MaxSwapOut
        BY <1>0, <2>4
      <4>2. kbBirth' + 0 <= MaxSwapOut
        BY <4>1
      <4> QED BY <4>2, <3>2
    <3> QED BY <3>1, <3>3, <2>5 DEF AccountBounded
  <2> QED BY <2>6, <2>7 DEF IInv
<1>7. CASE SwapOut
  BY <1>0, <1>7 DEF SwapOut, IInv, TypeOK, AccountBounded, Pending, memory
<1>8. ASSUME Crash \/ Reboot PROVE IInv'
  <2>1. Stopped /\ Fault
    BY <1>8 DEF Crash, Reboot
  <2>2. ~timer' /\ up' \in BOOLEAN /\ timer' \in BOOLEAN
    BY <2>1 DEF Stopped
  <2>3. enable' \in BOOLEAN /\ echoed' \in BOOLEAN
    BY <1>0, <1>8 DEF Crash, Reboot, TypeOK
  <2>4. /\ param' = param
        /\ minsToday' \in 0 .. DAY_MINS
        /\ kbToday' \in Nat
        /\ kbBirth' \in 0 .. MaxSwapOut
        /\ last' \in 0 .. MaxSwapOut
        /\ faults' \in 0 .. MaxFaults
    BY <1>0, <2>1 DEF Stopped, Fault, TypeOK
  <2>5. quota' \in Quotas /\ kernel' \in 0 .. MaxSwapOut
    BY <1>0, <1>8 DEF Crash, Reboot, TypeOK
  <2>6. TypeOK'
    BY <1>0, <2>2, <2>3, <2>4, <2>5 DEF TypeOK
  <2> QED BY <2>2, <2>6 DEF IInv, AccountBounded
<1>9. CASE ResetCounter
  BY <1>0, <1>9 DEF ResetCounter, Fault, IInv, TypeOK, AccountBounded, Pending, memory
<1>10. CASE UNCHANGED vars
  BY <1>0, <1>10 DEF vars, IInv, TypeOK, AccountBounded, Pending
<1> QED BY <1>1, <1>2, <1>3, <1>4, <1>5, <1>6, <1>7, <1>8, <1>9, <1>10 DEF Next, Start, Check

\* IInv is invariant.
THEOREM AccountStaysBounded == Spec => []IInv
BY InitIInv, NextIInv, PTL DEF Spec

-----------------------------------------------------------------------------
(* The quotas.                                                             *)

\* However reads, writes to the switch and stores fail, and however often the service or
\* the device restarts, a switch that the last write turned on is within both quotas:
\* CheckSwapOut looks at the daily quota first, may open for a new day, and looks at the
\* total last.
THEOREM QuotaAlwaysHeld == Spec => []QuotaHeld
<1>1. Init => QuotaHeld
  BY DEF Init, QuotaHeld
<1>2. IInv /\ QuotaHeld /\ [Next]_vars => QuotaHeld'
  <2> SUFFICES ASSUME IInv, QuotaHeld, [Next]_vars PROVE QuotaHeld'
    OBVIOUS
  <2>0. TypeOK /\ quota.daily \in Nat /\ quota.total \in Nat
    BY NandLifeAssumption DEF IInv, TypeOK
  <2>1. ASSUME NEW bad \in InitOutcomes, InitUnlimited(bad) PROVE QuotaHeld'
    BY <2>0, <2>1 DEF InitUnlimited, Unlimited, QuotaHeld
  <2>2. ASSUME NEW bad \in InitOutcomes, InitRefused(bad) PROVE QuotaHeld'
    <3>1. ~(enable' /\ echoed')
      BY <2>0, <2>2 DEF InitRefused, Echo, Switch, Now, TypeOK
    <3> QED BY <3>1 DEF QuotaHeld
  <2>3. ASSUME NEW bad \in InitOutcomes, InitAccepted(bad) PROVE QuotaHeld'
    <3>1. enable' /\ echoed' => ~ReachedTotal(param.kbBirth) /\ ~ReachedDaily(param.kbToday)
      BY <2>0, <2>3 DEF InitAccepted, Echo, Switch, Now, TypeOK
    <3>2. kbBirth' = param.kbBirth /\ kbToday' = param.kbToday /\ quota' = quota
      BY <2>3 DEF InitAccepted, Load
    <3> QED BY <2>0, <3>1, <3>2 DEF QuotaHeld, ReachedTotal, ReachedDaily, TypeOK
  <2>4. ASSUME NEW bad \in CheckOutcomes, CheckClosed(bad) \/ CheckUnread(bad) PROVE QuotaHeld'
    <3>1. ~(enable' /\ echoed')
      BY <2>0, <2>4 DEF CheckClosed, CheckUnread, EarlyReturn, Echo, Switch, Now, TypeOK
    <3> QED BY <3>1 DEF QuotaHeld
  <2>5. ASSUME NEW bad \in CheckOutcomes, CheckSwapOut(bad) PROVE QuotaHeld'
    <3>1. quota' = quota
      BY <2>5 DEF CheckSwapOut
    <3>2. /\ enable' /\ echoed' => kbBirth' < quota.total
          /\ enable' /\ echoed' /\ quota.daily > 0 => kbToday' < quota.daily
      BY <2>5, CheckCharges
    <3> QED BY <3>1, <3>2 DEF QuotaHeld
  <2>6. CASE SwapOut
    BY <2>6 DEF SwapOut, QuotaHeld, memory
  <2>7. CASE Crash \/ Reboot
    BY <2>7 DEF Crash, Reboot, Stopped, QuotaHeld
  <2>8. CASE ResetCounter
    BY <2>8 DEF ResetCounter, QuotaHeld, memory
  <2>9. CASE UNCHANGED vars
    BY <2>9 DEF vars, QuotaHeld
  <2> QED BY <2>1, <2>2, <2>3, <2>4, <2>5, <2>6, <2>7, <2>8, <2>9 DEF Next, Start, Check
<1> QED BY <1>1, <1>2, AccountStaysBounded, PTL DEF Spec

\* The permanent close outlives everything but a configuration without limits: Init and
\* CheckSwapOut look at the parameter before they could open the switch.
THEOREM PermanentClose == Spec => ClosedForGood
<1> DEFINE KeptClosed == param.closed /\ param'.closed /\ ~Unlimited' => (enable' => enable)
<1>1. [Next]_vars => [KeptClosed]_vars
  <2> SUFFICES ASSUME Next PROVE KeptClosed
    BY DEF vars
  <2>1. ASSUME NEW bad \in InitOutcomes, InitUnlimited(bad) PROVE KeptClosed
    <3>1. Unlimited'
      BY <2>1 DEF InitUnlimited, Unlimited
    <3> QED BY <3>1
  <2>2. ASSUME NEW bad \in InitOutcomes, InitRefused(bad) PROVE KeptClosed
    BY <2>2 DEF InitRefused, Echo, Switch, Now
  <2>3. ASSUME NEW bad \in InitOutcomes, InitAccepted(bad) PROVE KeptClosed
    BY <2>3 DEF InitAccepted, RefusedAtInit
  <2>4. ASSUME NEW bad \in CheckOutcomes, CheckClosed(bad) \/ CheckUnread(bad) \/ CheckSwapOut(bad)
        PROVE  KeptClosed
    BY <2>4 DEF CheckClosed, CheckUnread, CheckSwapOut, EarlyReturn, Echo, Switch, Now
  <2>5. CASE SwapOut \/ Crash \/ Reboot \/ ResetCounter
    BY <2>5 DEF SwapOut, Crash, Reboot, ResetCounter
  <2> QED BY <2>1, <2>2, <2>3, <2>4, <2>5 DEF Next, Start, Check
<1> QED BY <1>1, PTL DEF Spec, ClosedForGood

-----------------------------------------------------------------------------
(* The controller implements the account.                                  *)

\* The terms the account's variables are mapped to are numbers, and a start or a check that
\* has no fault left cannot fail.
LEMMA AccountTypes ==
  ASSUME IInv
  PROVE  /\ quota.daily \in Nat /\ quota.total \in Nat
         /\ Pending \in Nat
         /\ Spent \in Nat /\ Today \in Nat /\ kernel \in Nat /\ last \in Nat
         /\ param.kbBirth \in Nat /\ param.kbToday \in Nat
         /\ param.kbBirth <= Spent
         /\ faults \in Nat /\ faults <= MaxFaults /\ MaxFaults \in Nat
<1>1. /\ quota.daily \in Nat /\ quota.total \in Nat
      /\ kernel \in Nat /\ last \in Nat /\ kbBirth \in Nat /\ kbToday \in Nat
      /\ param.kbBirth \in Nat /\ param.kbToday \in Nat
      /\ faults \in Nat /\ faults <= MaxFaults /\ MaxFaults \in Nat
      /\ timer \in BOOLEAN
  BY NandLifeAssumption DEF IInv, TypeOK
<1>2. Pending \in Nat
  BY <1>1 DEF Pending
<1>3. Spent \in Nat /\ Today \in Nat /\ param.kbBirth <= Spent
  BY <1>1, <1>2 DEF Spent, Today, IInv, AccountBounded
<1> QED BY <1>1, <1>2, <1>3

\* A handler uses up as many faults as its steps that failed.
LEMMA FailingUses ==
  ASSUME IInv, NEW bad \in InitOutcomes \union CheckOutcomes, Failing(bad)
  PROVE  faults' \in Int /\ faults' <= faults /\ (bad # {} => faults' < faults)
<1>1. Cardinality(bad) \in Nat
  BY OutcomesCount
<1>2. bad # {} => Cardinality(bad) # 0
  <2>1. IsFiniteSet(bad)
    <3>1. IsFiniteSet(InitSteps) /\ IsFiniteSet(CheckSteps)
      BY StepsFinite
    <3> QED BY <3>1, FS_Subset DEF InitOutcomes, CheckOutcomes, Outcomes
  <2> QED BY <2>1, FS_EmptySet
<1>3. faults \in Nat
  BY AccountTypes
<1> QED BY <1>1, <1>2, <1>3 DEF Failing

\* A start leaves the account alone and opens nothing beyond it; what it lets the kernel
\* write under a limit is counted.
LEMMA StartsAccount ==
  ASSUME IInv, NEW bad \in InitOutcomes, InitUnlimited(bad) \/ InitRefused(bad) \/ InitAccepted(bad)
  PROVE  Account!Start
<1>0. /\ TypeOK /\ ~timer /\ quota.daily \in Nat /\ quota.total \in Nat
      /\ param.kbBirth \in Nat /\ param.kbToday \in Nat
      /\ kernel' = kernel /\ quota' = quota
  BY AccountTypes DEF IInv, TypeOK, AccountBounded, InitUnlimited, InitRefused, InitAccepted, Starting
<1>1. faults' <= faults
  BY FailingUses DEF InitUnlimited, InitRefused, InitAccepted, Starting
<1>2. ~Counting /\ Spent = param.kbBirth /\ Today = param.kbToday
  BY <1>0 DEF Counting, Spent, Today
<1>3. CASE InitUnlimited(bad)
  <2>1. /\ ~timer'
        /\ param'.kbBirth = param.kbBirth /\ param'.kbToday = param.kbToday
    BY <1>0, <1>3 DEF InitUnlimited, TypeOK
  <2>2. Unlimited
    BY <1>3 DEF InitUnlimited
  <2>3. Spent' = Spent /\ Today' = Today
    BY <1>2, <2>1 DEF Spent, Today
  <2> QED BY <1>0, <1>1, <1>2, <2>1, <2>2, <2>3 DEF Account!Start, Account!Unlimited, Unlimited
<1>4. CASE InitRefused(bad)
  <2>1. ~timer' /\ param' = param
    BY <1>0, <1>4 DEF InitRefused
  <2>2. enable' => enable
    BY <1>4 DEF InitRefused, Echo, Switch, Now
  <2>3. Spent' = Spent /\ Today' = Today
    BY <1>2, <2>1 DEF Spent, Today
  <2> QED BY <1>0, <1>1, <1>2, <2>1, <2>2, <2>3 DEF Account!Start
<1>5. CASE InitAccepted(bad)
  <2>1. /\ timer' /\ last' = kernel
        /\ kbBirth' = param.kbBirth /\ kbToday' = param.kbToday
        /\ param'.kbBirth = param.kbBirth
    BY <1>0, <1>5 DEF InitAccepted, Load, TypeOK
  <2>2. Pending' = 0
    BY <1>0, <2>1 DEF Pending, TypeOK
  <2>3. Spent' = param.kbBirth /\ Today' = param.kbToday
    BY <1>0, <2>1, <2>2 DEF Spent, Today
  <2>4. Counting'
    BY <1>0, <2>1 DEF Counting, WentBack, TypeOK
  <2>5. enable' => enable \/ (~ReachedTotal(param.kbBirth) /\ ~ReachedDaily(param.kbToday))
    BY <1>5 DEF InitAccepted, Echo, Switch, Now
  <2>6. enable' => enable \/ (Spent < quota.total /\ Today < quota.daily)
    BY <1>0, <1>2, <2>5 DEF ReachedTotal, ReachedDaily
  <2> QED BY <1>0, <1>1, <1>2, <2>1, <2>3, <2>4, <2>6 DEF Account!Start
<1> QED BY <1>3, <1>4, <1>5

\* A check that returns early closes at most; one that counts moves what was pending into
\* the account and stores it, unless a parameter cannot be written.
LEMMA ChecksAccount ==
  ASSUME IInv, NEW bad \in CheckOutcomes, CheckClosed(bad) \/ CheckUnread(bad) \/ CheckSwapOut(bad)
  PROVE  Account!Close \/ Account!SameDay \/ Account!NewDay
<1>0. /\ TypeOK /\ timer /\ timer'
      /\ quota' = quota /\ kernel' = kernel
  BY DEF IInv, CheckClosed, CheckUnread, CheckSwapOut, EarlyReturn
<1>1. faults' <= faults /\ (bad # {} => faults' < faults)
  BY FailingUses DEF CheckClosed, CheckUnread, CheckSwapOut
<1>2. CASE CheckClosed(bad) \/ CheckUnread(bad)
  <2>1. /\ last' = last /\ param' = param
        /\ kbBirth' = kbBirth /\ kbToday' = kbToday
    BY <1>2 DEF CheckClosed, CheckUnread, EarlyReturn, memory
  <2>2. enable' => enable
    BY <1>2 DEF CheckClosed, CheckUnread, EarlyReturn, Echo, Switch, Now
  <2>3. Spent' = Spent /\ Today' = Today /\ Counting' = Counting
    BY <1>0, <2>1 DEF Spent, Today, Pending, Counting, WentBack
  <2> QED BY <1>0, <1>1, <2>1, <2>2, <2>3 DEF Account!Close
<1>3. CASE CheckSwapOut(bad)
  <2>1. last' = kernel
    BY <1>3 DEF CheckSwapOut, Remember
  <2>2. /\ kernel >= last
        /\ kbBirth' = kbBirth + (kernel - last)
        /\ \/ kbToday' = 0
           \/ /\ kbToday' = kbToday + (kernel - last)
              /\ enable' => enable
        /\ enable' => enable \/ kbBirth' < quota.total
        /\ param'.kbBirth \in {param.kbBirth, kbBirth'}
        /\ bad = {} => param'.kbBirth = kbBirth'
    BY <1>3, CheckCharges
  <2>3. kbBirth \in Int /\ kbToday \in Int /\ kernel \in Int /\ last \in Int
    BY <1>0 DEF TypeOK
  <2>4. Pending' = 0 /\ Pending = kernel - last
    BY <1>0, <2>1, <2>2, <2>3 DEF Pending
  <2>5. kbBirth' \in Int /\ kbToday' \in Int
    BY <2>2, <2>3
  <2>6. Spent' = kbBirth' /\ Today' = kbToday'
    <3>1. Spent' = kbBirth' + Pending' /\ Today' = kbToday' + Pending'
      BY <1>0 DEF Spent, Today
    <3>2. \A a \in Int : a + 0 = a
      OBVIOUS
    <3> QED BY <2>4, <2>5, <3>1, <3>2
  <2>7. Spent = kbBirth + (kernel - last) /\ Today = kbToday + (kernel - last)
    BY <1>0, <2>4 DEF Spent, Today
  <2>8. Counting'
    BY <1>0, <2>1, <2>3 DEF Counting, WentBack
  <2>9. param'.kbBirth = Spent \/ (param'.kbBirth = param.kbBirth /\ faults' < faults)
    BY <1>1, <2>2, <2>7
  <2>10. Account!Settle
    BY <1>0, <1>1, <2>2, <2>6, <2>7, <2>8, <2>9 DEF Account!Settle
  <2>11. CASE kbToday' = 0
    BY <2>2, <2>6, <2>7, <2>10, <2>11 DEF Account!NewDay
  <2>12. CASE kbToday' = kbToday + (kernel - last) /\ (enable' => enable)
    BY <2>6, <2>7, <2>10, <2>12 DEF Account!SameDay
  <2> QED BY <2>2, <2>11, <2>12
<1> QED BY <1>2, <1>3

\* The kernel's own swapping is charged, whether a check sees it at once or later; it goes
\* uncounted only below a counter that was reset, or while no check is posted.
LEMMA SwapOutSpends ==
  ASSUME IInv, SwapOut
  PROVE  Account!Spend \/ Account!Escape
<1>0. /\ TypeOK /\ enable
      /\ timer' = timer /\ quota' = quota /\ enable' = enable /\ param' = param
      /\ kbBirth' = kbBirth /\ kbToday' = kbToday /\ last' = last /\ kernel' = kernel + 1
      /\ faults' = faults
  BY DEF IInv, SwapOut, memory
<1>1. kernel \in Int /\ last \in Int /\ kbBirth \in Int /\ kbToday \in Int
  BY <1>0 DEF TypeOK
<1>2. kernel' > kernel
  BY <1>0, <1>1
<1>3. CASE timer /\ kernel >= last
  <2>1. Pending = kernel - last /\ Pending' = kernel + 1 - last
    BY <1>0, <1>1, <1>3 DEF Pending
  <2>2. /\ Spent' = kbBirth + (kernel + 1 - last) /\ Today' = kbToday + (kernel + 1 - last)
        /\ Spent = kbBirth + (kernel - last) /\ Today = kbToday + (kernel - last)
    BY <1>0, <1>3, <2>1 DEF Spent, Today
  <2>3. Spent' - Spent = kernel' - kernel /\ Today' - Today = kernel' - kernel
    BY <1>0, <1>1, <2>2
  <2>4. Counting /\ Counting'
    BY <1>0, <1>1, <1>3 DEF Counting, WentBack
  <2> QED BY <1>0, <1>2, <2>3, <2>4 DEF Account!Spend
<1>4. CASE timer /\ ~(kernel >= last)
  <2>1. Pending' = 0 /\ Pending = 0
    BY <1>0, <1>1, <1>4 DEF Pending
  <2>2. Spent' = Spent /\ Today' = Today
    BY <1>0, <2>1 DEF Spent, Today
  <2>3. ~Counting
    BY <1>1, <1>4 DEF Counting, WentBack
  <2> QED BY <1>0, <1>2, <2>2, <2>3 DEF Account!Escape
<1>5. CASE ~timer
  <2>1. Spent' = Spent /\ Today' = Today /\ ~Counting
    BY <1>0, <1>5 DEF Spent, Today, Counting
  <2> QED BY <1>0, <1>2, <2>1 DEF Account!Escape
<1> QED BY <1>3, <1>4, <1>5

\* A crash falls back to what was stored, which never is more than what was counted; a
\* counter that is reset takes only what was not counted yet.
LEMMA FaultForgets ==
  ASSUME IInv, Crash \/ Reboot \/ ResetCounter
  PROVE  Account!Forget
<1>0. /\ TypeOK /\ AccountBounded
      /\ enable' => enable
      /\ quota' \in [daily : Nat, total : Nat]
      /\ param' = param
  BY NandLifeAssumption DEF IInv, Crash, Reboot, ResetCounter, Stopped, TypeOK
<1>1. faults' < faults /\ kernel' <= kernel
  <2>1. Fault /\ (kernel' = kernel \/ kernel' = 0)
    BY DEF Crash, Reboot, ResetCounter
  <2>2. faults \in Nat /\ kernel \in Nat
    BY AccountTypes
  <2> QED BY <2>1, <2>2 DEF Fault
<1>2. /\ Spent \in Nat /\ Today \in Nat /\ Pending \in Nat
      /\ param.kbBirth \in Nat /\ param.kbToday \in Nat /\ param.kbBirth <= Spent
  BY AccountTypes
<1>3. param.kbBirth <= Spent' /\ Spent' <= Spent /\ Today' \in Nat
  <2>1. CASE Crash \/ Reboot
    <3>1. ~timer'
      BY <2>1 DEF Crash, Reboot, Stopped
    <3>2. Spent' = param.kbBirth /\ Today' = param.kbToday
      BY <1>0, <3>1 DEF Spent, Today
    <3> QED BY <1>2, <3>2
  <2>2. CASE ResetCounter /\ timer
    <3>1. /\ timer' = timer /\ kbBirth' = kbBirth /\ kbToday' = kbToday
          /\ last' = last /\ kernel' = 0
      BY <2>2 DEF ResetCounter, memory
    <3>2. Pending' = 0 /\ kbBirth \in Nat /\ kbToday \in Nat
      BY <1>0, <3>1 DEF Pending, TypeOK
    <3>3. Spent' = kbBirth /\ Today' = kbToday /\ Spent = kbBirth + Pending
      BY <2>2, <3>1, <3>2 DEF Spent, Today
    <3>4. param.kbBirth <= kbBirth
      BY <1>0, <2>2 DEF AccountBounded
    <3> QED BY <1>2, <3>2, <3>3, <3>4
  <2>3. CASE ResetCounter /\ ~timer
    <3>1. Spent' = Spent /\ Today' = Today
      BY <1>0, <2>3 DEF ResetCounter, Spent, Today
    <3> QED BY <1>2, <3>1
  <2> QED BY <2>1, <2>2, <2>3
<1> QED BY <1>0, <1>1, <1>3 DEF Account!Forget

\* Every step of the controller and of the device is one of the account.
LEMMA StepsAccount == IInv /\ [Next]_vars => [Account!Next]_(Account!vars)
<1> SUFFICES ASSUME IInv, [Next]_vars PROVE [Account!Next]_(Account!vars)
  OBVIOUS
<1>1. CASE Start
  BY <1>1, StartsAccount DEF Start, Account!Next
<1>2. CASE Check
  BY <1>2, ChecksAccount DEF Check, Account!Next
<1>3. CASE SwapOut
  BY <1>3, SwapOutSpends DEF Account!Next
<1>4. CASE Crash \/ Reboot \/ ResetCounter
  BY <1>4, FaultForgets DEF Account!Next
<1>5. CASE UNCHANGED vars
  BY <1>5 DEF vars, Account!vars, Pending, Spent, Today, Counting, WentBack
<1> QED BY <1>1, <1>2, <1>3, <1>4, <1>5 DEF Next

\* A new device starts a new account.
LEMMA InitAccount == Init => Account!Init
<1> SUFFICES ASSUME Init PROVE Account!Init
  OBVIOUS
<1>1. ~timer /\ enable = FALSE /\ kernel = 0 /\ param.kbBirth = 0 /\ param.kbToday = 0
  BY DEF Init
<1> QED BY <1>1 DEF Account!Init, Spent, Today, Counting

\* The controller implements the account of SwapOutQuota: through crashes, reboots, counters
\* that are reset and parameters stored in part, what the kernel swaps out while checks run is
\* charged exactly once and forgotten by a fault only, and swap-out is opened only where the
\* account allows it.
THEOREM ImplementsAccount == Spec => ChargesAccount
BY InitAccount, StepsAccount, AccountStaysBounded, PTL DEF Spec, ChargesAccount, Account!Spec

\* Until the first fault, whatever the kernel swapped out under a limit is on the account of
\* the birth of the device, once: CheckSwapOut and Init leave nothing out and count nothing
\* twice.
THEOREM ChargedInFull == Spec => [](faults = MaxFaults /\ ~Unlimited => Spent = kernel)
<1> DEFINE Full == faults = MaxFaults /\ ~Unlimited => Spent = kernel /\ (enable => Counting)
<1>1. Init => Full
  BY DEF Init, Spent
<1>2. IInv /\ Full /\ IInv' /\ [Next]_vars => Full'
  <2> SUFFICES ASSUME IInv, Full, IInv', [Next]_vars PROVE Full'
    OBVIOUS
  <2>1. /\ [Account!Next]_(Account!vars)
        /\ quota.daily \in Nat /\ quota.total \in Nat
        /\ Spent \in Nat /\ kernel \in Nat
        /\ faults \in Nat /\ faults <= MaxFaults /\ MaxFaults \in Nat
    BY StepsAccount, AccountTypes
  <2>2. faults' \in Nat /\ faults' <= MaxFaults /\ kernel' \in Nat /\ Spent' \in Nat
    <3>1. /\ timer' \in BOOLEAN /\ kernel' \in Nat /\ last' \in Nat /\ kbBirth' \in Nat
          /\ param'.kbBirth \in Nat /\ faults' \in Nat /\ faults' <= MaxFaults
      BY NandLifeAssumption DEF IInv, TypeOK
    <3>2. Pending' \in Nat
      <4>1. \A a, b \in Nat : a > b => a - b \in Nat
        OBVIOUS
      <4> QED BY <3>1, <4>1 DEF Pending
    <3>3. kbBirth' + Pending' \in Nat
      <4>1. \A a, b \in Nat : a + b \in Nat
        OBVIOUS
      <4> QED BY <3>1, <3>2, <4>1
    <3> QED BY <3>1, <3>3 DEF Spent
  <2> SUFFICES ASSUME faults' = MaxFaults, ~Unlimited'
               PROVE  Spent' = kernel' /\ (enable' => Counting')
    OBVIOUS
  <2>3. CASE Account!Spend
    <3>1. faults = MaxFaults /\ ~Unlimited
      BY <2>3 DEF Account!Spend, Unlimited
    <3> QED BY <2>1, <2>2, <2>3, <3>1 DEF Account!Spend
  <2>4. CASE Account!Escape
    <3>1. faults = MaxFaults /\ ~Unlimited
      BY <2>4 DEF Account!Escape, Unlimited
    <3> QED BY <2>4, <3>1 DEF Account!Escape
  <2>5. CASE Account!Close \/ Account!SameDay \/ Account!NewDay \/ Account!Start
    <3>1. faults = MaxFaults
      BY <2>1, <2>2, <2>5 DEF Account!Close, Account!SameDay, Account!NewDay, Account!Settle, Account!Start
    <3>2. /\ quota' = quota /\ Spent' = Spent /\ kernel' = kernel
          /\ (enable' /\ ~Counting') => (enable /\ ~Counting) \/ Account!Unlimited
      BY <2>5 DEF Account!Close, Account!SameDay, Account!NewDay, Account!Settle, Account!Start
    <3>3. ~Unlimited /\ ~Account!Unlimited
      BY <3>2 DEF Unlimited, Account!Unlimited
    <3> QED BY <3>1, <3>2, <3>3
  <2>6. CASE Account!Forget
    BY <2>1, <2>2, <2>6 DEF Account!Forget
  <2>7. CASE UNCHANGED Account!vars
    BY <2>7 DEF Account!vars, Unlimited
  <2> QED BY <2>1, <2>3, <2>4, <2>5, <2>6, <2>7 DEF Account!Next
<1>3. Full => (faults = MaxFaults /\ ~Unlimited => Spent = kernel)
  OBVIOUS
<1> QED BY <1>1, <1>2, <1>3, AccountStaysBounded, PTL DEF Spec
=============================================================================
