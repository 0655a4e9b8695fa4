---------------------------- MODULE SwapOutQuota ----------------------------
(***************************************************************************)
(* What the nand life controller promises: swap-out runs on an account.    *)
(* While it counts, every KB the kernel writes is charged to it once, and  *)
(* nothing else is.  It stops counting, and forgets what it charged, only  *)
(* by a fault, and then no further than what was stored; what is charged   *)
(* is stored by every check unless a fault prevents it.  Swap-out is       *)
(* opened only with the account below its quota, on a new day or when the  *)
(* service starts.                                                         *)
(***************************************************************************)
EXTENDS Integers

VARIABLES
  quota,     \* [daily, total]; both 0: no limit
  open,      \* may the kernel swap out?
  written,   \* what the kernel wrote since it booted
  counting,  \* does the account see what the kernel writes?
  spent,     \* charged since the birth of the device
  today,     \* charged since the day began
  stored,    \* of spent, what outlives a crash
  faults     \* faults that may still happen

vars == <<quota, open, written, counting, spent, today, stored, faults>>

Unlimited == quota.daily = 0 /\ quota.total = 0

Init ==
  /\ open = FALSE
  /\ written = 0
  /\ counting = FALSE
  /\ spent = 0
  /\ today = 0
  /\ stored = 0

\* The kernel writes, and the account is charged what it writes.
Spend ==
  /\ open
  /\ counting
  /\ counting'
  /\ written' > written
  /\ spent' - spent = written' - written
  /\ today' - today = written' - written
  /\ UNCHANGED <<quota, open, stored, faults>>

\* The kernel writes while nothing counts.
Escape ==
  /\ open
  /\ ~counting
  /\ written' > written
  /\ UNCHANGED <<quota, open, spent, today, stored, faults>>

\* A check that does not count: it can only close.
Close ==
  /\ open' => open
  /\ faults' <= faults
  /\ UNCHANGED <<quota, written, counting, spent, today, stored>>

\* A check that counts stores what is charged, unless a fault prevents it.
Settle ==
  /\ counting'
  /\ stored' = spent \/ (stored' = stored /\ faults' < faults)
  /\ faults' <= faults
  /\ UNCHANGED <<quota, written, spent>>

SameDay == Settle /\ today' = today /\ (open' => open)

\* The daily account starts again; swap-out may open if the total allows it.
NewDay == Settle /\ today' = 0 /\ (open' => open \/ spent < quota.total)

\* The service starts: it opens swap-out without any limit, or counting and within both.
Start ==
  /\ counting => counting'
  /\ open' => \/ open
              \/ Unlimited
              \/ counting' /\ spent < quota.total /\ today < quota.daily
  /\ faults' <= faults
  /\ UNCHANGED <<quota, written, spent, today, stored>>

\* A fault: a crash, a reboot (with a new configuration, perhaps) or a reset counter.
Forget ==
  /\ faults' < faults
  /\ quota' \in [daily : Nat, total : Nat]
  /\ open' => open
  /\ written' <= written
  /\ stored <= spent' /\ spent' <= spent
  /\ today' \in Nat
  /\ UNCHANGED stored

Next == Spend \/ Escape \/ Close \/ SameDay \/ NewDay \/ Start \/ Forget

Spec == Init /\ [][Next]_vars
=============================================================================
