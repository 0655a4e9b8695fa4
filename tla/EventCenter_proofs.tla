------------------------- MODULE EventCenter_proofs -------------------------
(***************************************************************************)
(* Proofs about EventCenter, for every set of observers, services that     *)
(* die, refusals and retries: registrations are accounted for.             *)
(*                                                                         *)
(* And about WindowVisibility, the observer the event center starts for    *)
(* the window manager, for any processes, windows, clean-ups and bounds:   *)
(* what it holds and what the priority manager holds agree with the        *)
(* screen.  The invariant speaks of what will be held once the waiting     *)
(* updates and requests are handled.                                       *)
(***************************************************************************)
EXTENDS EventCenter, WindowVisibility, FiniteSetTheorems, FunctionTheorems, SequenceTheorems,
        WellFoundedInduction, TLAPS

-----------------------------------------------------------------------------
(* How often an observer is queued.                                        *)

Places(q, k) == {i \in DOMAIN q : q[i] = k}
Queued(q, k) == Cardinality(Places(q, k))

\* A queue is finite, so its places can be counted.
LEMMA QueuedType ==
  ASSUME NEW S, NEW q \in Seq(S), NEW k
  PROVE  IsFiniteSet(Places(q, k)) /\ Queued(q, k) \in Nat
<1>1. Len(q) \in Nat /\ DOMAIN q = 1 .. Len(q)
  OBVIOUS
<1>2. Places(q, k) \in SUBSET Nat /\ \A i \in Places(q, k) : i <= Len(q)
  BY <1>1 DEF Places
<1>3. IsFiniteSet(Places(q, k))
  BY <1>1, <1>2, FS_BoundedSetOfNaturals
<1> QED BY <1>3, FS_CardinalityType DEF Queued

\* An entry at the end counts for its own kind.
LEMMA QueuedAppend ==
  ASSUME NEW S, NEW q \in Seq(S), NEW x \in S, NEW k
  PROVE  Queued(Append(q, x), k) = Queued(q, k) + (IF x = k THEN 1 ELSE 0)
<1> DEFINE r == Append(q, x)
           n == Len(q) + 1
<1>1. Len(q) \in Nat /\ DOMAIN q = 1 .. Len(q) /\ DOMAIN r = 1 .. n
  OBVIOUS
<1>2. (\A i \in 1 .. Len(q) : r[i] = q[i]) /\ r[n] = x
  OBVIOUS
<1> HIDE DEF r
<1>3. IsFiniteSet(Places(q, k)) /\ Queued(q, k) \in Nat /\ n \notin Places(q, k)
  BY <1>1, QueuedType DEF Places
<1>4. CASE x = k
  <2>1. Places(r, k) = Places(q, k) \cup {n}
    BY <1>1, <1>2, <1>4 DEF Places
  <2> QED BY <1>3, <1>4, <2>1, FS_AddElement DEF Queued, r
<1>5. CASE x # k
  <2>1. Places(r, k) = Places(q, k)
    BY <1>1, <1>2, <1>5 DEF Places
  <2> QED BY <1>3, <1>5, <2>1 DEF Queued, r
<1> QED BY <1>4, <1>5

\* The entry that is taken off no longer counts.
LEMMA QueuedTail ==
  ASSUME NEW S, NEW q \in Seq(S), q # <<>>, NEW k
  PROVE  Queued(q, k) = Queued(Tail(q), k) + (IF Head(q) = k THEN 1 ELSE 0)
<1> DEFINE t == Tail(q)
           P == {i \in 2 .. Len(q) : q[i] = k}
           f == [i \in Places(t, k) |-> i + 1]
<1>1. /\ Len(q) \in Nat /\ Len(q) > 0 /\ DOMAIN q = 1 .. Len(q) /\ Head(q) = q[1]
      /\ t \in Seq(S) /\ DOMAIN t = 1 .. Len(q) - 1
      /\ \A i \in 1 .. Len(q) - 1 : t[i] = q[i + 1]
  OBVIOUS
<1> HIDE DEF t
<1>2. IsFiniteSet(Places(t, k)) /\ Queued(t, k) \in Nat
  BY <1>1, QueuedType
<1>3. f \in Bijection(Places(t, k), P)
  <2>1. f \in [Places(t, k) -> P]
    BY <1>1 DEF Places
  <2>2. \A a, b \in Places(t, k) : f[a] = f[b] => a = b
    BY <1>1 DEF Places
  <2>3. ASSUME NEW j \in P PROVE \E i \in Places(t, k) : f[i] = j
    <3>1. j - 1 \in Places(t, k)
      BY <1>1 DEF Places
    <3> QED BY <1>1, <3>1
  <2> HIDE DEF f, P
  <2> QED BY <2>1, <2>2, <2>3, Fun_IsBij
<1>4. IsFiniteSet(P) /\ Cardinality(P) = Queued(t, k)
  <2> HIDE DEF f, P
  <2> QED BY <1>2, <1>3, FS_Bijection DEF ExistsBijection, Queued
<1>5. 1 \notin P
  OBVIOUS
<1>6. CASE Head(q) = k
  <2>1. Places(q, k) = P \cup {1}
    BY <1>1, <1>6 DEF Places
  <2> HIDE DEF P
  <2> QED BY <1>2, <1>4, <1>5, <1>6, <2>1, FS_AddElement DEF Queued, t
<1>7. CASE Head(q) # k
  <2>1. Places(q, k) = P
    BY <1>1, <1>7 DEF Places
  <2> HIDE DEF P
  <2> QED BY <1>2, <1>4, <1>7, <2>1 DEF Queued, t
<1> QED BY <1>6, <1>7

-----------------------------------------------------------------------------
(* What the operators of the model return.                                 *)

\* The announcement of a service forces at most one observer.
LEMMA ForcedQueue ==
  ASSUME NEW s \in Services
  PROVE  \/ Forced(s) = {} /\ SetToSeq(Forced(s)) = <<>>
         \/ \E k \in Kinds : Forced(s) = {k} /\ SetToSeq(Forced(s)) = <<k>>
<1>1. SetToSeq({}) = <<>>
  <2>1. Cardinality({}) = 0
    BY FS_EmptySet
  <2>2. \A f \in [1 .. 0 -> {}] : f = <<>>
    OBVIOUS
  <2>3. <<>> \in [1 .. 0 -> {}] /\ IsInjective(<<>>)
    BY DEF IsInjective
  <2> QED BY <2>1, <2>2, <2>3 DEF SetToSeq
<1>2. ASSUME NEW k PROVE SetToSeq({k}) = <<k>>
  <2>1. Cardinality({k}) = 1
    BY FS_Singleton
  <2>2. \A f \in [1 .. 1 -> {k}] : f = <<k>>
    OBVIOUS
  <2>3. <<k>> \in [1 .. 1 -> {k}] /\ IsInjective(<<k>>)
    BY DEF IsInjective
  <2> QED BY <2>1, <2>2, <2>3 DEF SetToSeq
<1>3. Forced(s) = {} \/ \E k \in Kinds : Forced(s) = {k}
  <2>1. "ability" \notin Kinds
    BY CenterAssumption
  <2>2. CASE s = "ability"
    BY <2>1, <2>2 DEF Forced
  <2>3. CASE s # "ability"
    BY <2>3 DEF Forced
  <2> QED BY <2>2, <2>3
<1> QED BY <1>1, <1>2, <1>3

\* Neither the extension observer nor a monitor is ever forced.
LEMMA NeverForced ==
  ASSUME NEW s \in Services
  PROVE  \A k \in Monitors \cup {"ext"} : k \notin Forced(s)
<1>1. s \notin Monitors \cup {"ext"}
  BY CenterAssumption DEF Services, ServiceOf, Monitors
<1>2. Monitors \subseteq {"pressure", "kswapd"}
  BY DEF Monitors
<1> QED BY <1>1, <1>2 DEF Forced

Steps == {"pressure", "kswapd", "app", "ext", "account", "common", "bgtask", "extMade"}
Item  == [kind : Steps, ifNull : BOOLEAN]

\* What Pending leaves of conditional steps are conditional steps, and the first one is of
\* an observer that is not there.
LEMMA PendingSteps ==
  ASSUME NEW ws \in Seq(Item), \A i \in 1 .. Len(ws) : ws[i].ifNull, NEW pointers
  PROVE  /\ Pending(ws, pointers) \in Seq(Item)
         /\ \A i \in 1 .. Len(Pending(ws, pointers)) : Pending(ws, pointers)[i].ifNull
         /\ Pending(ws, pointers) # <<>> =>
              /\ Pending(ws, pointers)[1].kind \in Kinds
              /\ pointers[Pending(ws, pointers)[1].kind] = "null"
<1> DEFINE ok(w) == w.kind \in Kinds /\ (w.ifNull => pointers[w.kind] = "null")
           I == {i \in 1 .. Len(ws) : ok(ws[i])}
           n == IF I # {} THEN Min(I) ELSE 0
           r == SubSeq(ws, n, Len(ws))
<1>1. Pending(ws, pointers) = IF n = 0 THEN <<>> ELSE r
  BY DEF Pending, SelectInSeq
<1>2. CASE I = {}
  <2>1. Pending(ws, pointers) = <<>>
    BY <1>1, <1>2
  <2> QED BY <2>1
<1>3. CASE I # {}
  <2>1. n \in I
    <3>1. I \subseteq Nat
      OBVIOUS
    <3>2. PICK m \in I : \A j \in I : ~(<<j, m>> \in OpToRel(<, Nat))
      <4> HIDE DEF I
      <4> QED BY <1>3, <3>1, NatLessThanWellFounded, WFMin
    <3>3. \A j \in I : m =< j
      <4> SUFFICES ASSUME NEW j \in I, ~(m =< j) PROVE FALSE
        OBVIOUS
      <4>1. <<j, m>> \in OpToRel(<, Nat)
        BY <3>1 DEF OpToRel
      <4> QED BY <3>2, <4>1
    <3>4. Min(I) \in I
      <4> HIDE DEF I
      <4> QED BY <3>3 DEF Min
    <3> HIDE DEF I
    <3> QED BY <1>3, <3>4
  <2>2. n \in 1 .. Len(ws) /\ ok(ws[n]) /\ n # 0
    <3> HIDE DEF n
    <3> QED BY <2>1
  <2> HIDE DEF n
  <2>3. /\ r \in Seq(Item) /\ Len(r) = Len(ws) - n + 1
        /\ \A i \in 1 .. Len(ws) - n + 1 : r[i] = ws[n + i - 1]
    BY <2>2
  <2> HIDE DEF r
  <2>4. r[1] = ws[n]
    BY <2>2, <2>3
  <2>5. Pending(ws, pointers) = r
    BY <1>1, <2>2
  <2>6. ASSUME NEW i \in 1 .. Len(r) PROVE r[i].ifNull
    <3>1. Len(ws) \in Nat /\ n + i - 1 \in 1 .. Len(ws) /\ i \in 1 .. Len(ws) - n + 1
      BY <2>2, <2>3
    <3> QED BY <2>3, <3>1
  <2> QED BY <2>2, <2>3, <2>4, <2>5, <2>6
<1> QED BY <1>2, <1>3

\* The steps of RegisterEventObserver are conditional steps.
LEMMA AllSteps ==
  RegisterEventObserver \in Seq(Item) /\ \A i \in 1 .. Len(RegisterEventObserver) : RegisterEventObserver[i].ifNull
<1>1. Len(Order) = 7 /\ \A i \in 1 .. 7 : Order[i] \in Steps
  <2>1. \A i \in 1 .. 7 : i = 1 \/ i = 2 \/ i = 3 \/ i = 4 \/ i = 5 \/ i = 6 \/ i = 7
    OBVIOUS
  <2>2. Len(Order) = 7
    BY DEF Order
  <2>3. /\ Order[1] \in Steps /\ Order[2] \in Steps /\ Order[3] \in Steps /\ Order[4] \in Steps
        /\ Order[5] \in Steps /\ Order[6] \in Steps /\ Order[7] \in Steps
    BY DEF Order, Steps
  <2> QED BY <2>1, <2>2, <2>3
<1>2. RegisterEventObserver = [i \in 1 .. 7 |-> [kind |-> Order[i], ifNull |-> TRUE]]
  BY <1>1 DEF RegisterEventObserver
<1>3. \A i \in 1 .. 7 : [kind |-> Order[i], ifNull |-> TRUE] \in Item
  BY <1>1 DEF Item
<1> QED BY <1>2, <1>3

-----------------------------------------------------------------------------
(* The inductive invariant: a balance of registrations.  An observer that  *)
(* is registered, waits for another attempt, is queued, or is the          *)
(* unconditional step being executed, was paid for by an announcement of   *)
(* samgr, or by the pointer that is no longer null.                        *)

Running(k) ==
  IF /\ work # <<>>
     /\ ~work[1].ifNull
     /\ work[1].kind = k \/ (k = "ext" /\ work[1].kind = "extMade")
  THEN 1 ELSE 0
There(k) == IF held[k] = "null" THEN 0 ELSE 1
Owed(k)  == reg[k] + later[k] + Queued(tasks, k) + Running(k)

Pointers == [Kinds -> {"null", "made", "registered"}]

Typing ==
  /\ tasks \in Seq(Kinds \cup {"all"})
  /\ later \in [Kinds -> Nat] /\ reg \in [Kinds -> Nat] /\ told \in [Kinds -> Nat]
  /\ held \in Pointers
  /\ obituary \in BOOLEAN

\* The running task: all steps but the first are conditional, and a conditional step has
\* come first only because its observer is not there.
WorkOK ==
  /\ work \in Seq(Item)
  /\ \A i \in 2 .. Len(work) : work[i].ifNull
  /\ work # <<>> =>
       \/ work[1].kind = "extMade" /\ ~work[1].ifNull /\ "ext" \in Kinds
       \/ work[1].kind \in Kinds /\ (work[1].ifNull => held[work[1].kind] = "null")

Balanced == \A k \in Kinds \ {"bgtask"} : Owed(k) <= told[k] + There(k)

\* The background task observer is registered again, not made again.
OneBgTask == "bgtask" \in Kinds => reg["bgtask"] <= 1

\* The announcements never force these, and a death is reported only of an observer that
\* was registered and of which nothing else is under way.
ExtOnce ==
  /\ \A k \in Kinds \intersect (Monitors \cup {"ext"}) : told[k] = 0
  /\ obituary => "ext" \in Kinds /\ held["ext"] # "null" /\ Owed("ext") = 0

IInv == Typing /\ WorkOK /\ Balanced /\ OneBgTask /\ ExtOnce

\* The terms of the balance are numbers.
LEMMA OwedType ==
  ASSUME Typing, NEW k \in Kinds
  PROVE  /\ reg[k] \in Nat /\ later[k] \in Nat /\ told[k] \in Nat
         /\ Queued(tasks, k) \in Nat /\ Running(k) \in {0, 1} /\ There(k) \in {0, 1}
<1>1. Queued(tasks, k) \in Nat
  BY QueuedType DEF Typing
<1> QED BY <1>1 DEF Typing, Running, There

\* The invariant holds before anything is announced.
LEMMA InitIInv == Init => IInv
<1> SUFFICES ASSUME Init PROVE IInv
  OBVIOUS
<1>1. Typing
  <2>1. tasks \in Seq(Kinds \cup {"all"})
    BY DEF Init
  <2>2. later \in [Kinds -> Nat] /\ reg \in [Kinds -> Nat] /\ told \in [Kinds -> Nat]
    BY DEF Init
  <2>3. held \in Pointers /\ obituary \in BOOLEAN
    BY DEF Init, Pointers
  <2> QED BY <2>1, <2>2, <2>3 DEF Typing
<1>2. WorkOK
  BY DEF Init, WorkOK
<1>3. \A k \in Kinds : Queued(tasks, k) = 0
  <2> SUFFICES ASSUME NEW k \in Kinds PROVE Queued(tasks, k) = 0
    OBVIOUS
  <2>1. tasks = <<"all">> /\ "all" # k
    BY CenterAssumption DEF Init
  <2>2. Places(tasks, k) = {}
    BY <2>1 DEF Places
  <2> QED BY <2>2, FS_EmptySet DEF Queued
<1>4. \A k \in Kinds : Owed(k) = 0 /\ told[k] = 0 /\ There(k) = 0 /\ reg[k] = 0
  <2> SUFFICES ASSUME NEW k \in Kinds PROVE Owed(k) = 0 /\ told[k] = 0 /\ There(k) = 0 /\ reg[k] = 0
    OBVIOUS
  <2>1. reg[k] = 0 /\ later[k] = 0 /\ told[k] = 0 /\ There(k) = 0 /\ Running(k) = 0
    BY DEF Init, There, Running
  <2> QED BY <1>3, <2>1 DEF Owed
<1>5. ~obituary
  BY DEF Init
<1> QED BY <1>1, <1>2, <1>4, <1>5 DEF IInv, Balanced, OneBgTask, ExtOnce

\* A step of the running task that registers, or tries to register, an observer, and is over.
LEMMA StepDone ==
  ASSUME IInv, NEW k \in Kinds, work # <<>>,
         work[1].kind = k \/ (k = "ext" /\ work[1].kind = "extMade"),
         Done, held' \in Pointers, held'[k] # "null",
         \A j \in Kinds \ {k} : held'[j] = held[j] /\ reg'[j] = reg[j] /\ later'[j] = later[j],
         reg' \in [Kinds -> Nat], later' \in [Kinds -> Nat],
         k # "bgtask" => reg'[k] + later'[k] <= reg[k] + later[k] + 1,
         k = "bgtask" => reg'[k] <= 1,
         UNCHANGED <<tasks, told, obituary>>
  PROVE  IInv'
<1>0. Typing /\ WorkOK /\ Balanced /\ OneBgTask /\ ExtOnce
  BY DEF IInv
<1>1. Typing'
  BY <1>0 DEF Typing
<1>2. Tail(work) \in Seq(Item) /\ \A i \in 1 .. Len(Tail(work)) : Tail(work)[i].ifNull
  BY <1>0 DEF WorkOK
<1>3. work' = Pending(Tail(work), held')
  BY DEF Done
<1>4. /\ work' \in Seq(Item)
      /\ \A i \in 1 .. Len(work') : work'[i].ifNull
      /\ work' # <<>> => work'[1].kind \in Kinds /\ held'[work'[1].kind] = "null"
  BY <1>2, <1>3, PendingSteps
<1>5. WorkOK'
  BY <1>4 DEF WorkOK
<1>6. \A j \in Kinds : Running(j)' = 0
  <2>1. work' # <<>> => work'[1].ifNull
    BY <1>4
  <2> QED BY <2>1 DEF Running
<1>7. work[1].kind \in Kinds \/ work[1].kind = "extMade"
  BY <1>0 DEF WorkOK
<1>8. "extMade" \notin Kinds
  BY CenterAssumption
<1>9. ASSUME NEW j \in Kinds \ {"bgtask"} PROVE (Owed(j) <= told[j] + There(j))'
  <2>1. /\ reg[j] \in Nat /\ later[j] \in Nat /\ told[j] \in Nat
        /\ Queued(tasks, j) \in Nat /\ Running(j) \in {0, 1} /\ There(j) \in {0, 1}
    BY <1>0, OwedType
  <2>2. Owed(j)' = reg'[j] + later'[j] + Queued(tasks, j) /\ reg'[j] \in Nat /\ later'[j] \in Nat
    BY <1>1, <1>6, <2>1 DEF Owed, Typing
  <2>3. Owed(j) <= told[j] + There(j)
    BY <1>0 DEF Balanced
  <2>4. CASE j # k
    <3>1. There(j)' = There(j)
      BY <2>4 DEF There
    <3>2. Owed(j)' = reg[j] + later[j] + Queued(tasks, j)
      BY <2>2, <2>4
    <3>3. reg[j] + later[j] + Queued(tasks, j) <= told[j] + There(j)
      BY <2>1, <2>3 DEF Owed
    <3> QED BY <3>1, <3>2, <3>3
  <2>5. CASE j = k
    <3>1. There(j)' = 1
      BY <2>5 DEF There
    <3>2. reg'[j] + later'[j] <= reg[j] + later[j] + 1
      BY <2>5
    <3>3. CASE work[1].ifNull
      <4>1. held[k] = "null"
        BY <1>0, <1>7, <1>8, <3>3 DEF WorkOK
      <4>2. There(j) = 0 /\ Running(j) = 0
        BY <2>5, <3>3, <4>1 DEF There, Running
      <4>3. reg[j] + later[j] + Queued(tasks, j) <= told[j]
        BY <2>1, <2>3, <4>2 DEF Owed
      <4>4. reg'[j] + later'[j] + Queued(tasks, j) <= told[j] + 1
        BY <2>1, <2>2, <3>2, <4>3
      <4> QED BY <2>2, <3>1, <4>4
    <3>4. CASE ~work[1].ifNull
      <4>1. Running(j) = 1
        BY <2>5, <3>4 DEF Running
      <4>2. reg[j] + later[j] + Queued(tasks, j) + 1 <= told[j] + 1
        BY <2>1, <2>3, <4>1 DEF Owed
      <4>3. reg'[j] + later'[j] + Queued(tasks, j) <= told[j] + 1
        BY <2>1, <2>2, <3>2, <4>2
      <4> QED BY <2>2, <3>1, <4>3
    <3> QED BY <3>3, <3>4
  <2> QED BY <2>4, <2>5
<1>10. OneBgTask'
  BY <1>0 DEF OneBgTask
<1>11. ExtOnce'
  <2> SUFFICES ASSUME obituary PROVE "ext" \in Kinds /\ held'["ext"] # "null" /\ Owed("ext")' = 0
    BY <1>0 DEF ExtOnce
  <2>1. "ext" \in Kinds /\ held["ext"] # "null" /\ Owed("ext") = 0
    BY <1>0 DEF ExtOnce
  <2>2. /\ reg["ext"] \in Nat /\ later["ext"] \in Nat
        /\ Queued(tasks, "ext") \in Nat /\ Running("ext") \in {0, 1}
    BY <1>0, <2>1, OwedType
  <2>3. reg["ext"] = 0 /\ later["ext"] = 0 /\ Queued(tasks, "ext") = 0 /\ Running("ext") = 0
    BY <2>1, <2>2 DEF Owed
  <2>4. k # "ext"
    <3> SUFFICES ASSUME k = "ext" PROVE FALSE
      OBVIOUS
    <3>1. ~work[1].ifNull
      BY <1>0, <1>7, <1>8, <2>1 DEF WorkOK
    <3> QED BY <2>3, <3>1 DEF Running
  <2> QED BY <1>6, <2>1, <2>3, <2>4 DEF Owed
<1> QED BY <1>1, <1>5, <1>9, <1>10, <1>11 DEF IInv, Balanced

\* What a service does with a registration, whether it has it or refuses it.
LEMMA RegistrationTypes ==
  ASSUME Typing, NEW k \in Kinds
  PROVE  /\ Registered(k) =>
              /\ held' \in Pointers /\ held'[k] # "null" /\ reg' \in [Kinds -> Nat]
              /\ reg'[k] = IF k = "bgtask" THEN 1 ELSE reg[k] + 1
              /\ \A j \in Kinds \ {k} : held'[j] = held[j] /\ reg'[j] = reg[j]
         /\ Refused(k) =>
              /\ held' \in Pointers /\ held'[k] # "null"
              /\ reg' = reg
              /\ \A j \in Kinds \ {k} : held'[j] = held[j]
<1>1. ASSUME Registered(k)
      PROVE  /\ held' \in Pointers /\ held'[k] # "null" /\ reg' \in [Kinds -> Nat]
             /\ reg'[k] = IF k = "bgtask" THEN 1 ELSE reg[k] + 1
             /\ \A j \in Kinds \ {k} : held'[j] = held[j] /\ reg'[j] = reg[j]
  BY <1>1 DEF Registered, Typing, Pointers
<1>2. ASSUME Refused(k)
      PROVE  /\ held' \in Pointers /\ held'[k] # "null"
             /\ reg' = reg
             /\ \A j \in Kinds \ {k} : held'[j] = held[j]
  BY <1>2 DEF Refused, Typing, Pointers
<1> QED BY <1>1, <1>2

\* Whatever the handler does with a queued, retried or timed registration keeps the invariant.
LEMMA HandlerIInv ==
  ASSUME IInv, HandlerStep
  PROVE  IInv'
<1>0. Typing /\ WorkOK /\ Balanced /\ OneBgTask /\ ExtOnce
  BY DEF IInv
<1>1. ASSUME NEW k \in Kinds, RegisterMonitor(k) PROVE IInv'
  <2>1. /\ work # <<>> /\ work[1].kind = k /\ k # "bgtask"
        /\ Done
        /\ held' \in Pointers /\ held'[k] # "null"
        /\ \A j \in Kinds \ {k} : held'[j] = held[j] /\ reg'[j] = reg[j] /\ later'[j] = later[j]
        /\ reg' \in [Kinds -> Nat] /\ later' \in [Kinds -> Nat]
        /\ reg'[k] = reg[k] /\ later'[k] = later[k] + 1
        /\ UNCHANGED <<tasks, told, obituary>>
    BY <1>0, <1>1 DEF RegisterMonitor, Turn, Monitors, Typing, Pointers
  <2>2. reg'[k] + later'[k] <= reg[k] + later[k] + 1
    BY <1>0, <2>1 DEF Typing
  <2> QED BY <2>1, <2>2, StepDone
<1>2. ASSUME NEW k \in Kinds, RegisterOnce(k) PROVE IInv'
  <2>1. /\ work # <<>> /\ work[1].kind = k
        /\ Done
        /\ Registered(k) \/ Refused(k)
        /\ UNCHANGED <<tasks, told, obituary, later>>
    BY <1>2 DEF RegisterOnce, Turn
  <2>2. /\ held' \in Pointers /\ held'[k] # "null" /\ reg' \in [Kinds -> Nat] /\ later' \in [Kinds -> Nat]
        /\ \A j \in Kinds \ {k} : held'[j] = held[j] /\ reg'[j] = reg[j] /\ later'[j] = later[j]
        /\ k # "bgtask" => reg'[k] \in {reg[k], reg[k] + 1}
        /\ k = "bgtask" => reg'[k] <= 1
    BY <1>0, <2>1, RegistrationTypes DEF Typing, OneBgTask
  <2>3. k # "bgtask" => reg'[k] + later'[k] <= reg[k] + later[k] + 1
    BY <1>0, <2>1, <2>2 DEF Typing
  <2> QED BY <2>1, <2>2, <2>3, StepDone
<1>3. CASE RegisterAppStateObserver
  <2> DEFINE k == "app"
  <2>1. /\ k \in Kinds /\ work # <<>> /\ work[1].kind = k
        /\ Done
        /\ Registered(k) \/ Refused(k)
        /\ UNCHANGED <<tasks, told, obituary, later>>
    BY <1>3, CenterAssumption DEF RegisterAppStateObserver, Turn
  <2>2. /\ held' \in Pointers /\ held'[k] # "null" /\ reg' \in [Kinds -> Nat] /\ later' \in [Kinds -> Nat]
        /\ \A j \in Kinds \ {k} : held'[j] = held[j] /\ reg'[j] = reg[j] /\ later'[j] = later[j]
        /\ reg'[k] \in {reg[k], reg[k] + 1}
    BY <1>0, <2>1, RegistrationTypes DEF Typing
  <2>3. reg'[k] + later'[k] <= reg[k] + later[k] + 1
    BY <1>0, <2>1, <2>2 DEF Typing
  <2>4. k # "bgtask"
    OBVIOUS
  <2> HIDE DEF k
  <2> QED BY <2>1, <2>2, <2>3, <2>4, StepDone
<1>4. CASE RegisterExtConnObserver
  <2> DEFINE k == "ext"
  <2>1. /\ work # <<>> /\ work[1].kind = "extMade"
        /\ Done
        /\ \/ Registered(k) /\ UNCHANGED later
           \/ Refused(k) /\ later' = [later EXCEPT ![k] = later[k] + 1]
        /\ UNCHANGED <<tasks, told, obituary>>
    BY <1>4 DEF RegisterExtConnObserver, Turn
  <2>2. k \in Kinds
    BY <1>0, <2>1, CenterAssumption DEF WorkOK
  <2>3. /\ held' \in Pointers /\ held'[k] # "null" /\ reg' \in [Kinds -> Nat] /\ later' \in [Kinds -> Nat]
        /\ \A j \in Kinds \ {k} : held'[j] = held[j] /\ reg'[j] = reg[j] /\ later'[j] = later[j]
        /\ \/ reg'[k] = reg[k] + 1 /\ later'[k] = later[k]
           \/ reg'[k] = reg[k] /\ later'[k] = later[k] + 1
    <3>1. CASE Registered(k) /\ UNCHANGED later
      BY <1>0, <2>2, <3>1, RegistrationTypes DEF Typing
    <3>2. CASE Refused(k) /\ later' = [later EXCEPT ![k] = later[k] + 1]
      BY <1>0, <2>2, <3>2, RegistrationTypes DEF Typing
    <3> QED BY <2>1, <3>1, <3>2
  <2>4. reg'[k] + later'[k] <= reg[k] + later[k] + 1
    BY <1>0, <2>2, <2>3 DEF Typing
  <2>5. k # "bgtask"
    OBVIOUS
  <2> QED BY <2>1, <2>2, <2>3, <2>4, <2>5, StepDone
<1>5. CASE RegisterAccountObserver
  <2> DEFINE k == "account"
  <2>1. /\ work # <<>> /\ work[1].kind = k
        /\ Done
        /\ \/ Registered(k) /\ later' = [later EXCEPT ![k] = later[k]]
           \/ /\ Refused(k)
              /\ \/ later' = [later EXCEPT ![k] = later[k] + 1]
                 \/ later' = [later EXCEPT ![k] = later[k]]
        /\ UNCHANGED <<tasks, told, obituary>>
    BY <1>5 DEF RegisterAccountObserver, RegisterAccountLater, Turn
  <2>2. k \in Kinds
    BY <1>0, <2>1, CenterAssumption DEF WorkOK
  <2>3. /\ held' \in Pointers /\ held'[k] # "null" /\ reg' \in [Kinds -> Nat] /\ later' \in [Kinds -> Nat]
        /\ \A j \in Kinds \ {k} : held'[j] = held[j] /\ reg'[j] = reg[j] /\ later'[j] = later[j]
        /\ \/ reg'[k] = reg[k] + 1 /\ later'[k] = later[k]
           \/ reg'[k] = reg[k] /\ later'[k] \in {later[k], later[k] + 1}
    <3>1. CASE Registered(k) /\ later' = [later EXCEPT ![k] = later[k]]
      BY <1>0, <2>2, <3>1, RegistrationTypes DEF Typing
    <3>2. CASE /\ Refused(k)
               /\ \/ later' = [later EXCEPT ![k] = later[k] + 1]
                  \/ later' = [later EXCEPT ![k] = later[k]]
      <4>1. /\ held' \in Pointers /\ held'[k] # "null" /\ reg' = reg
            /\ \A j \in Kinds \ {k} : held'[j] = held[j]
        BY <1>0, <2>2, <3>2, RegistrationTypes
      <4>2. /\ later' \in [Kinds -> Nat] /\ later'[k] \in {later[k], later[k] + 1}
            /\ \A j \in Kinds \ {k} : later'[j] = later[j]
        BY <1>0, <2>2, <3>2 DEF Typing
      <4>3. reg \in [Kinds -> Nat]
        BY <1>0 DEF Typing
      <4> QED BY <4>1, <4>2, <4>3
    <3> QED BY <2>1, <3>1, <3>2
  <2>4. reg'[k] + later'[k] <= reg[k] + later[k] + 1
    BY <1>0, <2>2, <2>3 DEF Typing
  <2>5. k # "bgtask"
    OBVIOUS
  <2> QED BY <2>1, <2>2, <2>3, <2>4, <2>5, StepDone
<1>6. CASE MakeExtConnObserver
  <2>1. /\ work # <<>> /\ work[1].kind = "ext"
        /\ held' = [held EXCEPT !["ext"] = "made"]
        /\ work' = <<[kind |-> "extMade", ifNull |-> FALSE]>> \o Tail(work)
        /\ UNCHANGED <<tasks, told, obituary, later, reg>>
    BY <1>6 DEF MakeExtConnObserver, Turn
  <2>2. "ext" \in Kinds
    BY <1>0, <2>1 DEF WorkOK
  <2>3. Typing'
    BY <1>0, <2>1 DEF Typing, Pointers
  <2>4. Tail(work) \in Seq(Item) /\ \A i \in 1 .. Len(Tail(work)) : Tail(work)[i].ifNull
    BY <1>0, <2>1 DEF WorkOK
  <2>5. [kind |-> "extMade", ifNull |-> FALSE] \in Item
    BY DEF Item, Steps
  <2>6. /\ work' \in Seq(Item) /\ work' # <<>> /\ work'[1] = [kind |-> "extMade", ifNull |-> FALSE]
        /\ \A i \in 2 .. Len(work') : work'[i] = Tail(work)[i - 1] /\ i - 1 \in 1 .. Len(Tail(work))
    BY <2>1, <2>4, <2>5
  <2>7. WorkOK'
    <3>1. \A i \in 2 .. Len(work') : work'[i].ifNull
      BY <2>4, <2>6
    <3>2. work'[1].kind = "extMade" /\ ~work'[1].ifNull
      BY <2>6
    <3> QED BY <2>2, <2>6, <3>1, <3>2 DEF WorkOK
  <2>8. ~obituary
    <3> SUFFICES ASSUME obituary PROVE FALSE
      OBVIOUS
    <3>1. held["ext"] # "null" /\ Owed("ext") = 0
      BY <1>0 DEF ExtOnce
    <3>2. ~work[1].ifNull
      BY <1>0, <2>1, <3>1 DEF WorkOK
    <3>3. Running("ext") = 1
      BY <2>1, <3>2 DEF Running
    <3> QED BY <1>0, <2>2, <3>1, <3>3, OwedType DEF Owed
  <2>9. ASSUME NEW j \in Kinds \ {"bgtask"} PROVE (Owed(j) <= told[j] + There(j))'
    <3>1. /\ reg[j] \in Nat /\ later[j] \in Nat /\ told[j] \in Nat
          /\ Queued(tasks, j) \in Nat /\ Running(j) \in {0, 1} /\ There(j) \in {0, 1}
      BY <1>0, OwedType
    <3>2. Owed(j) <= told[j] + There(j)
      BY <1>0 DEF Balanced
    <3>3. CASE j # "ext"
      <4>1. There(j)' = There(j)
        BY <1>0, <2>1, <3>3 DEF There, Typing, Pointers
      <4>2. Running(j)' = 0
        BY <2>6, <3>3, CenterAssumption DEF Running
      <4>3. Owed(j)' = reg[j] + later[j] + Queued(tasks, j) + 0
        BY <2>1, <4>2 DEF Owed
      <4>4. reg[j] + later[j] + Queued(tasks, j) + 0 <= told[j] + There(j)
        BY <3>1, <3>2 DEF Owed
      <4> QED BY <2>1, <4>1, <4>3, <4>4
    <3>4. CASE j = "ext"
      <4>1. There(j)' = 1
        BY <1>0, <2>1, <2>2, <3>4 DEF There, Typing, Pointers
      <4>2. Running(j)' <= 1 /\ Running(j)' \in {0, 1}
        BY DEF Running
      <4>3. reg[j] + later[j] + Queued(tasks, j) <= told[j]
        <5>1. CASE work[1].ifNull
          <6>1. There(j) = 0
            BY <1>0, <2>1, <3>4, <5>1, CenterAssumption DEF There, WorkOK
          <6> QED BY <3>1, <3>2, <6>1 DEF Owed
        <5>2. CASE ~work[1].ifNull
          <6>1. Running(j) = 1
            BY <2>1, <3>4, <5>2 DEF Running
          <6> QED BY <3>1, <3>2, <6>1 DEF Owed
        <5> QED BY <5>1, <5>2
      <4>4. Owed(j)' = reg[j] + later[j] + Queued(tasks, j) + Running(j)'
        BY <2>1 DEF Owed
      <4>5. reg[j] + later[j] + Queued(tasks, j) + Running(j)' <= told[j] + 1
        BY <3>1, <4>2, <4>3
      <4> QED BY <2>1, <4>1, <4>4, <4>5
    <3> QED BY <3>3, <3>4
  <2>10. OneBgTask' /\ ExtOnce'
    BY <1>0, <2>1, <2>8 DEF OneBgTask, ExtOnce
  <2> QED BY <2>3, <2>7, <2>9, <2>10 DEF IInv, Balanced
<1> QED BY <1>1, <1>2, <1>3, <1>4, <1>5, <1>6 DEF HandlerStep

\* A task begins: what it has to do was queued, delayed, or is conditional.
LEMMA TaskIInv ==
  ASSUME IInv
  PROVE  /\ RunTask => IInv'
         /\ \A k \in Kinds : RunDelayed(k) => IInv'
<1>0. Typing /\ WorkOK /\ Balanced /\ OneBgTask /\ ExtOnce
  BY DEF IInv
<1>a. "all" \notin Kinds /\ "extMade" \notin Kinds
  BY CenterAssumption
<1>b. ASSUME NEW k \in Kinds PROVE [kind |-> k, ifNull |-> FALSE] \in Item
  BY CenterAssumption DEF Item, Steps
<1>c. ASSUME work = <<>>, Typing', WorkOK',
             UNCHANGED <<held, reg, told, obituary>>,
             \A j \in Kinds : /\ Running(j)' \in {0, 1}
                              /\ later'[j] + Queued(tasks, j)' + Running(j)' <= later[j] + Queued(tasks, j)
      PROVE  IInv'
  <2>1. ASSUME NEW j \in Kinds PROVE Owed(j)' <= Owed(j) /\ Owed(j)' \in Nat /\ Owed(j) \in Nat
    <3>1. /\ reg[j] \in Nat /\ later[j] \in Nat /\ Queued(tasks, j) \in Nat /\ Running(j) \in {0, 1}
      BY <1>0, OwedType
    <3>2. later'[j] \in Nat /\ Queued(tasks, j)' \in Nat
      BY <1>c, QueuedType DEF Typing
    <3>3. Owed(j)' = reg[j] + later'[j] + Queued(tasks, j)' + Running(j)'
      BY <1>c DEF Owed
    <3>4. /\ reg[j] + later'[j] + Queued(tasks, j)' + Running(j)'
                <= reg[j] + later[j] + Queued(tasks, j) + Running(j)
          /\ reg[j] + later'[j] + Queued(tasks, j)' + Running(j)' \in Nat
      <4>1. Running(j)' \in Nat /\ Running(j) \in Nat
        BY <1>c, <3>1
      <4>2. later'[j] + Queued(tasks, j)' + Running(j)' <= later[j] + Queued(tasks, j)
        BY <1>c
      <4> QED BY <3>1, <3>2, <4>1, <4>2
    <3>5. Owed(j) \in Nat
      BY <3>1 DEF Owed
    <3> QED BY <3>3, <3>4, <3>5 DEF Owed
  <2>2. \A j \in Kinds : There(j)' = There(j) /\ There(j) \in {0, 1} /\ told[j] \in Nat
    BY <1>0, <1>c, OwedType DEF There
  <2>3. ASSUME NEW j \in Kinds \ {"bgtask"} PROVE (Owed(j) <= told[j] + There(j))'
    <3>1. Owed(j) <= told[j] + There(j)
      BY <1>0 DEF Balanced
    <3>2. Owed(j)' <= told[j] + There(j)
      BY <2>1, <2>2, <3>1
    <3> QED BY <1>c, <2>2, <3>2
  <2>4. OneBgTask'
    BY <1>0, <1>c DEF OneBgTask
  <2>5. ExtOnce'
    <3> SUFFICES ASSUME obituary PROVE "ext" \in Kinds /\ held["ext"] # "null" /\ Owed("ext")' = 0
      BY <1>0, <1>c DEF ExtOnce
    <3>1. "ext" \in Kinds /\ held["ext"] # "null" /\ Owed("ext") = 0
      BY <1>0 DEF ExtOnce
    <3> QED BY <2>1, <3>1
  <2> QED BY <1>c, <2>3, <2>4, <2>5 DEF IInv, Balanced
<1>1. ASSUME RunTask PROVE IInv'
  <2>1. /\ work = <<>> /\ tasks # <<>> /\ tasks' = Tail(tasks)
        /\ UNCHANGED <<held, reg, told, obituary, later>>
    BY <1>1 DEF RunTask
  <2>2. tasks \in Seq(Kinds \cup {"all"}) /\ tasks' \in Seq(Kinds \cup {"all"}) /\ Head(tasks) \in Kinds \cup {"all"}
    BY <1>0, <2>1 DEF Typing
  <2>3. Typing'
    BY <1>0, <2>1, <2>2 DEF Typing
  <2>4. \A j \in Kinds : /\ Queued(tasks, j) = Queued(tasks', j) + (IF Head(tasks) = j THEN 1 ELSE 0)
                         /\ Queued(tasks', j) \in Nat
    BY <2>1, <2>2, QueuedTail, QueuedType
  <2>5. CASE Head(tasks) = "all"
    <3>1. work' = Pending(RegisterEventObserver, held)
      BY <1>1, <2>5 DEF RunTask
    <3>2. /\ work' \in Seq(Item)
          /\ \A i \in 1 .. Len(work') : work'[i].ifNull
          /\ work' # <<>> => work'[1].kind \in Kinds /\ held[work'[1].kind] = "null"
      BY <3>1, AllSteps, PendingSteps
    <3>3. WorkOK' /\ \A j \in Kinds : Running(j)' = 0
      <4>1. work' # <<>> => work'[1].ifNull
        BY <3>2
      <4> QED BY <2>1, <3>2, <4>1 DEF WorkOK, Running
    <3>4. \A j \in Kinds : /\ Running(j)' \in {0, 1}
                           /\ later'[j] + Queued(tasks, j)' + Running(j)' <= later[j] + Queued(tasks, j)
      <4> SUFFICES ASSUME NEW j \in Kinds
                   PROVE  later[j] + Queued(tasks', j) + 0 <= later[j] + Queued(tasks, j)
        BY <2>1, <3>3
      <4>1. Head(tasks) # j
        BY <1>a, <2>5
      <4>2. Queued(tasks, j) = Queued(tasks', j) /\ Queued(tasks', j) \in Nat
        BY <2>4, <4>1
      <4>3. later[j] \in Nat
        BY <1>0 DEF Typing
      <4> QED BY <4>2, <4>3
    <3> QED BY <1>c, <2>1, <2>3, <3>3, <3>4
  <2>6. CASE Head(tasks) # "all"
    <3> DEFINE k == Head(tasks)
    <3>1. k \in Kinds /\ work' = <<[kind |-> k, ifNull |-> FALSE]>>
      BY <1>1, <2>2, <2>6 DEF RunTask
    <3> HIDE DEF k
    <3>2. /\ work' \in Seq(Item) /\ work' # <<>> /\ Len(work') = 1
          /\ work'[1].kind = k /\ ~work'[1].ifNull
      BY <1>b, <3>1
    <3>3. WorkOK'
      BY <3>1, <3>2 DEF WorkOK
    <3>4. \A j \in Kinds : Running(j)' = IF j = k THEN 1 ELSE 0
      BY <1>a, <3>1, <3>2 DEF Running
    <3>5. \A j \in Kinds : /\ Running(j)' \in {0, 1}
                           /\ later'[j] + Queued(tasks, j)' + Running(j)' <= later[j] + Queued(tasks, j)
      <4> SUFFICES ASSUME NEW j \in Kinds
                   PROVE  later[j] + Queued(tasks', j) + (IF j = k THEN 1 ELSE 0) <= later[j] + Queued(tasks, j)
        BY <2>1, <3>4
      <4>1. Queued(tasks, j) = Queued(tasks', j) + (IF k = j THEN 1 ELSE 0) /\ Queued(tasks', j) \in Nat
        BY <2>4 DEF k
      <4>2. later[j] \in Nat
        BY <1>0 DEF Typing
      <4> QED BY <4>1, <4>2
    <3> QED BY <1>c, <2>1, <2>3, <3>3, <3>5
  <2> QED BY <2>5, <2>6
<1>2. ASSUME NEW k \in Kinds, RunDelayed(k) PROVE IInv'
  <2>1. /\ work = <<>> /\ later[k] > 0
        /\ later' = [later EXCEPT ![k] = later[k] - 1]
        /\ work' = <<[kind |-> k, ifNull |-> FALSE]>>
        /\ UNCHANGED <<held, reg, told, obituary, tasks>>
    BY <1>2 DEF RunDelayed
  <2>2. Typing'
    BY <1>0, <2>1 DEF Typing
  <2>3. /\ work' \in Seq(Item) /\ work' # <<>> /\ Len(work') = 1
        /\ work'[1].kind = k /\ ~work'[1].ifNull
    BY <1>b, <2>1
  <2>4. WorkOK'
    BY <2>3 DEF WorkOK
  <2>5. \A j \in Kinds : Running(j)' = IF j = k THEN 1 ELSE 0
    BY <1>a, <2>3 DEF Running
  <2>6. \A j \in Kinds : /\ Running(j)' \in {0, 1}
                         /\ later'[j] + Queued(tasks, j)' + Running(j)' <= later[j] + Queued(tasks, j)
    <3> SUFFICES ASSUME NEW j \in Kinds
                 PROVE  later'[j] + Queued(tasks, j) + (IF j = k THEN 1 ELSE 0) <= later[j] + Queued(tasks, j)
      BY <2>1, <2>5
    <3>1. Queued(tasks, j) \in Nat /\ later[j] \in Nat
      BY <1>0, OwedType
    <3> QED BY <1>0, <2>1, <3>1 DEF Typing
  <2> QED BY <1>c, <2>1, <2>2, <2>4, <2>6
<1> QED BY <1>1, <1>2

\* The steps of the others: the delayed Init of a monitor, the notices, and the services.
LEMMA NoticeIInv ==
  ASSUME IInv
  PROVE  /\ \A k \in Kinds : InitMonitor(k) => IInv'
         /\ \A s \in Services : OnAddSystemAbility(s) => IInv'
         /\ OnServiceDied => IInv'
<1>0. Typing /\ WorkOK /\ Balanced /\ OneBgTask /\ ExtOnce
  BY DEF IInv
<1>a. "all" \notin Kinds /\ "extMade" \notin Kinds
  BY CenterAssumption
<1>1. ASSUME NEW k \in Kinds, InitMonitor(k) PROVE IInv'
  <2>1. /\ work = <<>> /\ later[k] > 0 /\ k # "bgtask" /\ k # "ext"
        /\ later' = [later EXCEPT ![k] = later[k] - 1]
        /\ held' = [held EXCEPT ![k] = "registered"]
        /\ reg' = [reg EXCEPT ![k] = reg[k] + 1]
        /\ UNCHANGED <<work, told, obituary, tasks>>
    BY <1>1 DEF InitMonitor, Monitors
  <2>2. Typing'
    BY <1>0, <2>1 DEF Typing, Pointers
  <2>3. WorkOK'
    BY <2>1 DEF WorkOK
  <2>4. \A j \in Kinds : Running(j)' = 0 /\ Running(j) = 0
    BY <2>1 DEF Running
  <2>5. ASSUME NEW j \in Kinds PROVE Owed(j)' = Owed(j) /\ (j # k => There(j)' = There(j)) /\ (j = k => There(j)' = 1)
    <3>1. reg[j] \in Nat /\ later[j] \in Nat /\ Queued(tasks, j) \in Nat
      BY <1>0, OwedType
    <3>2. reg'[j] + later'[j] = reg[j] + later[j]
      BY <1>0, <2>1, <3>1 DEF Typing
    <3>3. reg'[j] \in Nat /\ later'[j] \in Nat
      BY <2>2 DEF Typing
    <3>4. reg'[j] + later'[j] + Queued(tasks, j) + 0 = reg[j] + later[j] + Queued(tasks, j) + 0
      BY <3>1, <3>2, <3>3
    <3>5. Owed(j)' = Owed(j)
      BY <2>1, <2>4, <3>4 DEF Owed
    <3>6. (j # k => There(j)' = There(j)) /\ (j = k => There(j)' = 1)
      BY <1>0, <2>1 DEF There, Typing, Pointers
    <3> QED BY <3>5, <3>6
  <2>6. ASSUME NEW j \in Kinds \ {"bgtask"} PROVE (Owed(j) <= told[j] + There(j))'
    <3>1. Owed(j) <= told[j] + There(j)
      BY <1>0 DEF Balanced
    <3>2. There(j)' \in {0, 1} /\ There(j) \in {0, 1} /\ told[j] \in Nat /\ There(j) <= There(j)' /\ told'[j] = told[j]
      BY <1>0, <2>1, <2>5, OwedType DEF There
    <3>3. Owed(j) \in Nat
      BY <1>0, OwedType DEF Owed
    <3> QED BY <2>5, <3>1, <3>2, <3>3
  <2>7. OneBgTask'
    BY <1>0, <2>1 DEF OneBgTask, Typing
  <2>8. ExtOnce'
    <3>1. "ext" \in Kinds => held'["ext"] = held["ext"] /\ Owed("ext")' = Owed("ext")
      BY <1>0, <2>1, <2>5 DEF Typing, Pointers
    <3> QED BY <1>0, <2>1, <3>1 DEF ExtOnce
  <2> QED BY <2>2, <2>3, <2>6, <2>7, <2>8 DEF IInv, Balanced
<1>2. ASSUME NEW s \in Services, OnAddSystemAbility(s) PROVE IInv'
  <2> DEFINE More(j) == IF j \in Forced(s) THEN 1 ELSE 0
  <2>1. /\ tasks' = tasks \o SetToSeq(Forced(s)) \o <<"all">>
        /\ told' = [j \in Kinds |-> IF j \in Forced(s) THEN told[j] + 1 ELSE told[j]]
        /\ UNCHANGED <<work, held, reg, later, obituary>>
    BY <1>2 DEF OnAddSystemAbility
  <2>2. tasks \in Seq(Kinds \cup {"all"})
    BY <1>0 DEF Typing
  <2>3. ASSUME NEW j \in Kinds
        PROVE  tasks' \in Seq(Kinds \cup {"all"}) /\ Queued(tasks', j) = Queued(tasks, j) + More(j)
    <3>0. Queued(tasks, j) \in Nat
      BY <2>2, QueuedType
    <3>1. CASE Forced(s) = {} /\ SetToSeq(Forced(s)) = <<>>
      <4>1. tasks' = Append(tasks, "all")
        BY <2>1, <2>2, <3>1
      <4>2. Queued(tasks', j) = Queued(tasks, j) + (IF "all" = j THEN 1 ELSE 0)
        BY <2>2, <4>1, QueuedAppend
      <4> QED BY <1>a, <2>2, <3>0, <3>1, <4>1, <4>2
    <3>2. CASE \E k \in Kinds : Forced(s) = {k} /\ SetToSeq(Forced(s)) = <<k>>
      <4>1. PICK k \in Kinds : Forced(s) = {k} /\ SetToSeq(Forced(s)) = <<k>>
        BY <3>2
      <4> DEFINE q == Append(tasks, k)
      <4>2. q \in Seq(Kinds \cup {"all"}) /\ tasks' = Append(q, "all")
        <5>1. q \in Seq(Kinds \cup {"all"}) /\ tasks \o <<k>> = q
          BY <2>2
        <5>2. tasks' = q \o <<"all">>
          BY <2>1, <4>1, <5>1
        <5> HIDE DEF q
        <5> QED BY <5>1, <5>2
      <4>3. Queued(q, j) = Queued(tasks, j) + (IF k = j THEN 1 ELSE 0)
        BY <2>2, QueuedAppend
      <4> HIDE DEF q
      <4>4. Queued(tasks', j) = Queued(q, j) + (IF "all" = j THEN 1 ELSE 0)
        BY <4>2, QueuedAppend
      <4>5. tasks' \in Seq(Kinds \cup {"all"})
        BY <4>2
      <4>6. More(j) = IF k = j THEN 1 ELSE 0
        BY <4>1
      <4> QED BY <1>a, <3>0, <4>3, <4>4, <4>5, <4>6
    <3> QED BY <3>1, <3>2, ForcedQueue
  <2>4. told' \in [Kinds -> Nat] /\ \A j \in Kinds : told'[j] = told[j] + More(j)
    BY <1>0, <2>1 DEF Typing
  <2>5. Typing'
    <3>1. "app" \in Kinds
      BY CenterAssumption
    <3>2. tasks' \in Seq(Kinds \cup {"all"})
      BY <2>3, <3>1
    <3> QED BY <1>0, <2>1, <2>4, <3>2 DEF Typing
  <2>6. WorkOK'
    BY <1>0, <2>1 DEF WorkOK
  <2>7. ASSUME NEW j \in Kinds
        PROVE  Owed(j)' = Owed(j) + More(j) /\ Owed(j) \in Nat /\ There(j)' = There(j)
    <3>1. reg[j] \in Nat /\ later[j] \in Nat /\ Queued(tasks, j) \in Nat /\ Running(j) \in {0, 1}
      BY <1>0, OwedType
    <3>2. Running(j)' = Running(j) /\ There(j)' = There(j)
      BY <2>1 DEF Running, There
    <3>3. Owed(j)' = reg[j] + later[j] + (Queued(tasks, j) + More(j)) + Running(j)
      BY <2>1, <2>3, <3>2 DEF Owed
    <3>4. More(j) \in {0, 1}
      OBVIOUS
    <3> HIDE DEF More
    <3> QED BY <3>1, <3>2, <3>3, <3>4 DEF Owed
  <2>8. ASSUME NEW j \in Kinds \ {"bgtask"} PROVE (Owed(j) <= told[j] + There(j))'
    <3>1. Owed(j) <= told[j] + There(j)
      BY <1>0 DEF Balanced
    <3>2. There(j) \in {0, 1} /\ told[j] \in Nat /\ More(j) \in {0, 1}
      BY <1>0, OwedType
    <3> HIDE DEF More
    <3> QED BY <2>4, <2>7, <3>1, <3>2
  <2>9. OneBgTask'
    BY <1>0, <2>1 DEF OneBgTask
  <2>10. ExtOnce'
    <3>1. \A j \in Kinds \intersect (Monitors \cup {"ext"}) : told'[j] = told[j]
      BY <2>1, NeverForced
    <3>2. "ext" \in Kinds => Owed("ext")' = Owed("ext")
      BY <2>7, NeverForced
    <3> QED BY <1>0, <2>1, <3>1, <3>2 DEF ExtOnce
  <2> QED BY <2>5, <2>6, <2>8, <2>9, <2>10 DEF IInv, Balanced
<1>3. ASSUME OnServiceDied PROVE IInv'
  <2>1. /\ obituary /\ ~obituary' /\ obituary' \in BOOLEAN
        /\ held' = [held EXCEPT !["ext"] = "null"]
        /\ UNCHANGED <<work, told, tasks, reg, later>>
    BY <1>3 DEF OnServiceDied, OnExtensionServiceDied
  <2>2. "ext" \in Kinds /\ Owed("ext") = 0 /\ told["ext"] \in Nat
    BY <1>0, <2>1 DEF ExtOnce, Typing
  <2>3. Typing'
    BY <1>0, <2>1 DEF Typing, Pointers
  <2>4. WorkOK'
    BY <1>0, <2>1, <2>2 DEF WorkOK, Typing, Pointers
  <2>5. \A j \in Kinds : Owed(j)' = Owed(j)
    BY <2>1 DEF Owed, Running
  <2>6. \A j \in Kinds \ {"ext"} : There(j)' = There(j)
    BY <1>0, <2>1 DEF There, Typing, Pointers
  <2>7. There("ext")' \in {0, 1}
    BY DEF There
  <2>8. ASSUME NEW j \in Kinds \ {"bgtask"} PROVE (Owed(j) <= told[j] + There(j))'
    <3>1. CASE j = "ext"
      BY <2>1, <2>2, <2>5, <2>7, <3>1
    <3>2. CASE j # "ext"
      BY <1>0, <2>1, <2>5, <2>6, <3>2 DEF Balanced
    <3> QED BY <3>1, <3>2
  <2> QED BY <1>0, <2>1, <2>3, <2>4, <2>8 DEF IInv, Balanced, OneBgTask, ExtOnce
<1> QED BY <1>1, <1>2, <1>3

\* A service starts, which registers nothing, or dies, and with it the observers it had.
LEMMA ServiceIInv ==
  ASSUME IInv, NEW s \in Services, Start(s) \/ Die(s)
  PROVE  IInv'
<1>0. Typing /\ WorkOK /\ Balanced /\ OneBgTask /\ ExtOnce
  BY DEF IInv
<1>1. CASE Start(s)
  <2>1. UNCHANGED <<obituary, tasks, work, later, held, reg, told>>
    BY <1>1 DEF Start
  <2> QED BY <1>0, <2>1 DEF IInv, Typing, WorkOK, Balanced, OneBgTask, ExtOnce, Owed, Running, There
<1>2. CASE Die(s)
  <2>1. /\ obituary' = (obituary \/ (s = "ability" /\ reg["ext"] > 0))
        /\ reg' = [k \in Kinds |-> IF k \notin Monitors /\ ServiceOf(k) = s THEN 0 ELSE reg[k]]
        /\ held' = [k \in Kinds |-> IF k \notin Monitors /\ ServiceOf(k) = s /\ held[k] = "registered"
                                    THEN "made" ELSE held[k]]
        /\ UNCHANGED <<tasks, work, later, told>>
    BY <1>2 DEF Die
  <2>2. obituary' \in BOOLEAN
    <3>1. obituary \in BOOLEAN
      BY <1>0 DEF Typing
    <3> QED BY <2>1, <3>1
  <2>3. reg' \in [Kinds -> Nat] /\ \A j \in Kinds : reg'[j] <= reg[j]
    BY <1>0, <2>1 DEF Typing
  <2>4. held' \in Pointers /\ \A j \in Kinds : held'[j] = "null" <=> held[j] = "null"
    BY <1>0, <2>1 DEF Typing, Pointers
  <2>5. Typing'
    BY <1>0, <2>1, <2>2, <2>3, <2>4 DEF Typing
  <2>6. WorkOK'
    BY <1>0, <2>1, <2>4 DEF WorkOK
  <2>7. ASSUME NEW j \in Kinds
        PROVE  Owed(j)' <= Owed(j) /\ Owed(j)' \in Nat /\ Owed(j) \in Nat /\ There(j)' = There(j)
    <3>1. reg[j] \in Nat /\ later[j] \in Nat /\ Queued(tasks, j) \in Nat /\ Running(j) \in {0, 1}
      BY <1>0, OwedType
    <3>2. Running(j)' = Running(j) /\ There(j)' = There(j)
      BY <2>1, <2>4 DEF Running, There
    <3>3. Owed(j)' = reg'[j] + later[j] + Queued(tasks, j) + Running(j)
      BY <2>1, <3>2 DEF Owed
    <3>4. reg'[j] \in Nat /\ reg'[j] <= reg[j]
      BY <2>3
    <3> QED BY <3>1, <3>2, <3>3, <3>4 DEF Owed
  <2>8. ASSUME NEW j \in Kinds \ {"bgtask"} PROVE (Owed(j) <= told[j] + There(j))'
    <3>1. Owed(j) <= told[j] + There(j) /\ told[j] \in Nat /\ There(j) \in {0, 1}
      BY <1>0, OwedType DEF Balanced
    <3> QED BY <2>1, <2>7, <3>1
  <2>9. OneBgTask'
    BY <1>0, <2>3 DEF OneBgTask, Typing
  <2>10. ExtOnce'
    <3>1. \A k \in Kinds \intersect (Monitors \cup {"ext"}) : told'[k] = 0
      BY <1>0, <2>1 DEF ExtOnce
    <3>2. CASE obituary
      <4>1. "ext" \in Kinds /\ held["ext"] # "null" /\ Owed("ext") = 0
        BY <1>0, <3>2 DEF ExtOnce
      <4> QED BY <2>4, <2>7, <3>1, <4>1 DEF ExtOnce
    <3>3. CASE ~obituary /\ s = "ability" /\ reg["ext"] > 0
      <4>1. "ext" \in Kinds
        BY <3>3, CenterAssumption DEF Services, ServiceOf
      <4>2. told["ext"] = 0 /\ There("ext") \in {0, 1} /\ Owed("ext") <= told["ext"] + There("ext")
        BY <1>0, <4>1, OwedType DEF ExtOnce, Balanced
      <4>3. /\ reg["ext"] \in Nat /\ later["ext"] \in Nat
            /\ Queued(tasks, "ext") \in Nat /\ Running("ext") \in {0, 1}
        BY <1>0, <4>1, OwedType
      <4>4. /\ There("ext") = 1 /\ later["ext"] = 0
            /\ Queued(tasks, "ext") = 0 /\ Running("ext") = 0
        BY <3>3, <4>2, <4>3 DEF Owed
      <4>5. held'["ext"] # "null"
        BY <2>4, <4>1, <4>4 DEF There
      <4>6. reg'["ext"] = 0
        BY <2>1, <3>3, <4>1 DEF ServiceOf, Monitors
      <4>7. Running("ext")' = Running("ext")
        BY <2>1 DEF Running
      <4>8. Owed("ext")' = 0
        BY <2>1, <4>4, <4>6, <4>7 DEF Owed
      <4> QED BY <3>1, <4>1, <4>5, <4>8 DEF ExtOnce
    <3>4. CASE ~obituary /\ ~(s = "ability" /\ reg["ext"] > 0)
      <4>1. ~obituary'
        BY <2>1, <3>4
      <4> QED BY <3>1, <4>1 DEF ExtOnce
    <3> QED BY <3>2, <3>3, <3>4
  <2> QED BY <2>5, <2>6, <2>8, <2>9, <2>10 DEF IInv, Balanced
<1> QED BY <1>1, <1>2

\* Every step keeps the invariant.
LEMMA NextIInv ==
  ASSUME IInv, [Next]_vars
  PROVE  IInv'
<1>1. CASE UNCHANGED vars
  BY <1>1 DEF vars, IInv, Typing, WorkOK, Balanced, OneBgTask, ExtOnce, Owed, Running, There
<1>2. CASE Next
  BY <1>2, HandlerIInv, TaskIInv, NoticeIInv, ServiceIInv DEF Next
<1> QED BY <1>1, <1>2

-----------------------------------------------------------------------------
(* However the services die, return and refuse registrations, and whatever *)
(* is queued or retried meanwhile: no service has more of the memory       *)
(* manager's observers of a kind than samgr announced it, and one; of the  *)
(* extension, background task and memory observers there is never a        *)
(* second.  (RegisterEventObserver, RetryRegisterEventObserver.)           *)
THEOREM AnnouncedOnly == Spec => []NoMoreThanAnnounced
<1>1. IInv => NoMoreThanAnnounced
  <2> SUFFICES ASSUME IInv, NEW k \in Kinds
               PROVE  reg[k] <= IF k = "bgtask" THEN 1 ELSE 1 + told[k]
    BY DEF NoMoreThanAnnounced
  <2>1. CASE k = "bgtask"
    BY <2>1 DEF IInv, OneBgTask
  <2>2. CASE k # "bgtask"
    <3>1. Owed(k) <= told[k] + There(k)
      BY <2>2 DEF IInv, Balanced
    <3>2. /\ reg[k] \in Nat /\ later[k] \in Nat /\ told[k] \in Nat
          /\ Queued(tasks, k) \in Nat /\ Running(k) \in {0, 1} /\ There(k) \in {0, 1}
      BY OwedType DEF IInv
    <3> QED BY <2>2, <3>1, <3>2 DEF Owed
  <2> QED BY <2>1, <2>2
<1> QED BY <1>1, InitIInv, NextIInv, PTL DEF Spec

(* extConnObserver_ has no lock: the report that the ability manager died  *)
(* clears it on another thread.  It never comes while the handler is       *)
(* between making the observer and registering it, because a death is      *)
(* reported of a registered observer only, and then nothing else of it is  *)
(* under way.  This needs no assumption on the order in which samgr and    *)
(* the connection client report.                                           *)
THEOREM ClearingIsSafe == Spec => []ClearedOutsideRegistration
<1>1. IInv => ClearedOutsideRegistration
  <2> SUFFICES ASSUME IInv, obituary, work # <<>>, work[1].kind = "extMade"
               PROVE  FALSE
    BY DEF ClearedOutsideRegistration
  <2>1. "ext" \in Kinds /\ Owed("ext") = 0
    BY DEF IInv, ExtOnce
  <2>2. ~work[1].ifNull
    BY CenterAssumption DEF IInv, WorkOK
  <2>3. Running("ext") = 1
    BY <2>2 DEF Running
  <2>4. /\ reg["ext"] \in Nat /\ later["ext"] \in Nat /\ Queued(tasks, "ext") \in Nat
    BY <2>1, OwedType DEF IInv
  <2> QED BY <2>1, <2>3, <2>4 DEF Owed
<1> QED BY <1>1, InitIInv, NextIInv, PTL DEF Spec

\* Requests with a pid each, at most one for a pid.
OnePerPid(T) == /\ IsFiniteSet(T) /\ \A x \in T : x[2] \in Nat
                /\ \A x, y \in T : x[2] = y[2] => x = y

\* A sequence of the requests in T in the order of the pids.
Ordered(s, T) == /\ s \in [1 .. Cardinality(T) -> T]
                 /\ \A r \in T : \E i \in DOMAIN s : s[i] = r
                 /\ \A i, j \in DOMAIN s : i < j => s[i][2] < s[j][2]

\* A set of requests that is not empty has one with the least pid.
LEMMA LeastPid ==
  ASSUME NEW T, OnePerPid(T), T # {}
  PROVE  \E x \in T : \A y \in T : y # x => x[2] < y[2]
<1> DEFINE R == {x[2] : x \in T}
<1>1. R \subseteq Nat /\ R # {}
  BY DEF OnePerPid
<1>2. PICK n \in R : \A k \in R : ~(<<k, n>> \in OpToRel(<, Nat))
  <2> HIDE DEF R
  <2> QED BY <1>1, NatLessThanWellFounded, WFMin
<1>3. PICK x \in T : n = x[2]
  OBVIOUS
<1>4. ASSUME NEW y \in T, y # x PROVE x[2] < y[2]
  <2>1. x[2] \in Nat /\ y[2] \in Nat /\ x[2] # y[2] /\ y[2] \in R
    BY <1>4 DEF OnePerPid
  <2>2. ~(y[2] < x[2])
    <3>1. ~(<<y[2], n>> \in OpToRel(<, Nat))
      BY <1>2, <2>1
    <3> QED BY <1>3, <2>1, <3>1 DEF OpToRel
  <2> QED BY <2>1, <2>2
<1> QED BY <1>4

\* A request with a lower pid goes in front.
LEMMA PutInFront ==
  ASSUME NEW T, OnePerPid(T), NEW x \in T, \A y \in T : y # x => x[2] < y[2],
         NEW s, Ordered(s, T \ {x})
  PROVE  \E t : Ordered(t, T)
<1> DEFINE n == Cardinality(T)
           t == [i \in 1 .. n |-> IF i = 1 THEN x ELSE s[i - 1]]
<1>1. n \in Nat /\ n >= 1 /\ Cardinality(T \ {x}) = n - 1
  <2>1. IsFiniteSet(T)
    BY DEF OnePerPid
  <2>2. Cardinality(T \ {x}) = Cardinality(T) - 1 /\ IsFiniteSet(T \ {x})
    BY <2>1, FS_RemoveElement
  <2>3. Cardinality(T) \in Nat /\ Cardinality(T \ {x}) \in Nat
    BY <2>1, <2>2, FS_CardinalityType
  <2> QED BY <2>2, <2>3
<1> HIDE DEF n
<1>2. /\ s \in [1 .. n - 1 -> T \ {x}]
      /\ \A r \in T \ {x} : \E i \in 1 .. n - 1 : s[i] = r
      /\ \A i, j \in 1 .. n - 1 : i < j => s[i][2] < s[j][2]
  BY <1>1 DEF Ordered
<1>3. t \in [1 .. n -> T] /\ t[1] = x /\ \A i \in 2 .. n : t[i] = s[i - 1] /\ i - 1 \in 1 .. n - 1
  BY <1>1, <1>2
<1> HIDE DEF t
<1>4. ASSUME NEW r \in T PROVE \E i \in 1 .. n : t[i] = r
  <2>1. CASE r = x
    BY <1>1, <1>3, <2>1
  <2>2. CASE r # x
    <3>1. PICK i \in 1 .. n - 1 : s[i] = r
      BY <1>2, <2>2
    <3>2. i + 1 \in 2 .. n /\ i + 1 - 1 = i
      BY <1>1
    <3> QED BY <1>3, <3>1, <3>2
  <2> QED BY <2>1, <2>2
<1>5. ASSUME NEW i \in 1 .. n, NEW j \in 1 .. n, i < j PROVE t[i][2] < t[j][2]
  <2>1. j \in 2 .. n /\ t[j] = s[j - 1] /\ j - 1 \in 1 .. n - 1
    BY <1>1, <1>3, <1>5
  <2>2. CASE i = 1
    <3>1. s[j - 1] \in T /\ s[j - 1] # x
      BY <1>2, <2>1
    <3> QED BY <1>3, <2>1, <2>2, <3>1
  <2>3. CASE i # 1
    <3>1. i \in 2 .. n /\ t[i] = s[i - 1] /\ i - 1 \in 1 .. n - 1 /\ i - 1 < j - 1
      BY <1>1, <1>3, <1>5, <2>1, <2>3
    <3> QED BY <1>2, <2>1, <3>1
  <2> QED BY <2>2, <2>3
<1>6. Ordered(t, T)
  <2>1. DOMAIN t = 1 .. n
    BY <1>3
  <2> QED BY <1>3, <1>4, <1>5, <2>1 DEF Ordered, n
<1> QED BY <1>6

\* Requests with a pid each can be put in order.
LEMMA OrderExists ==
  ASSUME NEW T, OnePerPid(T)
  PROVE  \E s : Ordered(s, T)
<1> DEFINE Q(n) == \A S \in SUBSET T : OnePerPid(S) /\ Cardinality(S) = n => \E s : Ordered(s, S)
           Bad == {n \in Nat : ~Q(n)}
<1>1. ASSUME Bad # {} PROVE FALSE
  <2>1. PICK n \in Bad : \A k \in Bad : ~(<<k, n>> \in OpToRel(<, Nat))
    <3>1. Bad \subseteq Nat
      OBVIOUS
    <3> HIDE DEF Bad
    <3> QED BY <1>1, <3>1, NatLessThanWellFounded, WFMin
  <2>2. n \in Nat /\ ~Q(n)
    OBVIOUS
  <2>3. PICK S \in SUBSET T : OnePerPid(S) /\ Cardinality(S) = n /\ ~ \E s : Ordered(s, S)
    BY <2>2
  <2>4. S # {}
    <3> SUFFICES ASSUME S = {} PROVE FALSE
      OBVIOUS
    <3>1. Cardinality(S) = 0
      BY FS_EmptySet
    <3>2. Ordered(<<>>, S)
      BY <3>1 DEF Ordered
    <3> QED BY <2>3, <3>2
  <2>5. PICK x \in S : \A y \in S : y # x => x[2] < y[2]
    BY <2>3, <2>4, LeastPid
  <2>6. IsFiniteSet(S \ {x}) /\ Cardinality(S \ {x}) = n - 1 /\ Cardinality(S \ {x}) \in Nat
    <3>1. IsFiniteSet(S)
      BY <2>3 DEF OnePerPid
    <3>2. IsFiniteSet(S \ {x}) /\ Cardinality(S \ {x}) = n - 1
      BY <2>3, <3>1, FS_RemoveElement
    <3> QED BY <3>2, FS_CardinalityType
  <2>7. OnePerPid(S \ {x})
    BY <2>3, <2>6 DEF OnePerPid
  <2>8. n - 1 \in Nat /\ <<n - 1, n>> \in OpToRel(<, Nat)
    BY <2>2, <2>6 DEF OpToRel
  <2>9. n - 1 \notin Bad
    <3> HIDE DEF Bad
    <3> QED BY <2>1, <2>8
  <2>10. Q(n - 1)
    BY <2>8, <2>9
  <2>11. PICK s : Ordered(s, S \ {x})
    <3>1. S \ {x} \in SUBSET T
      OBVIOUS
    <3> QED BY <2>6, <2>7, <2>10, <3>1
  <2> QED BY <2>3, <2>5, <2>11, PutInFront
<1>2. Cardinality(T) \in Nat
  BY FS_CardinalityType DEF OnePerPid
<1>3. Q(Cardinality(T))
  BY <1>1, <1>2
<1> QED BY <1>3

\* InPidOrder puts every request in its place.
LEMMA OrderKeepsAll ==
  ASSUME NEW T, OnePerPid(T)
  PROVE  /\ InPidOrder(T) \in Seq(T)
         /\ \A r \in T : \E i \in 1 .. Len(InPidOrder(T)) : InPidOrder(T)[i] = r
<1>1. PICK s : s = InPidOrder(T)
  OBVIOUS
<1>2. Ordered(s, T)
  <2>1. \E t : Ordered(t, T)
    BY OrderExists
  <2>2. InPidOrder(T) = CHOOSE t \in [1 .. Cardinality(T) -> T] :
                          /\ \A r \in T : \E i \in DOMAIN t : t[i] = r
                          /\ \A i, j \in DOMAIN t : i < j => t[i][2] < t[j][2]
    BY DEF InPidOrder
  <2> QED BY <1>1, <2>1, <2>2 DEF Ordered
<1>3. Cardinality(T) \in Nat
  BY FS_CardinalityType DEF OnePerPid
<1>4. s \in Seq(T) /\ Len(s) = Cardinality(T) /\ DOMAIN s = 1 .. Cardinality(T)
  BY <1>2, <1>3 DEF Ordered
<1>5. \A r \in T : \E i \in 1 .. Len(s) : s[i] = r
  BY <1>2, <1>4 DEF Ordered
<1> QED BY <1>1, <1>4, <1>5

-----------------------------------------------------------------------------
(* The type invariant.                                                     *)

\* The services and the counters are typed, apart from the balance.
CountersTyped ==
  /\ up \subseteq Services /\ notices \subseteq up
  /\ attempts \in 0 .. ACCOUNT_MAX_RETRY_TIMES
  /\ refused \subseteq Kinds
  /\ deaths \in 0 .. MaxDeaths /\ faults \in 0 .. MaxFaults

\* A registration that succeeds or is refused leaves them typed.
LEMMA RegistrationCounters ==
  ASSUME CountersTyped, NEW k \in Kinds, Registered(k) \/ Refused(k)
  PROVE  refused' \subseteq Kinds /\ faults' \in 0 .. MaxFaults
<1>1. MaxFaults \in Nat
  BY CenterAssumption
<1>2. refused' \subseteq refused \cup {k}
  BY DEF Registered, Refused
<1>3. faults' = faults \/ (faults > 0 /\ faults' = faults - 1)
  BY DEF Registered, Refused
<1> QED BY <1>1, <1>2, <1>3 DEF CountersTyped

\* The handler's own steps leave them typed.
LEMMA HandlerCounters ==
  ASSUME IInv, CountersTyped, HandlerStep
  PROVE  CountersTyped'
<1>1. ASSUME UNCHANGED <<up, notices, attempts, refused, deaths, faults>> PROVE CountersTyped'
  BY <1>1 DEF CountersTyped
<1>2. ASSUME NEW k \in Kinds, Registered(k) \/ Refused(k), UNCHANGED <<up, notices, deaths>>,
             attempts' \in 0 .. ACCOUNT_MAX_RETRY_TIMES
      PROVE  CountersTyped'
  <2>1. refused' \subseteq Kinds /\ faults' \in 0 .. MaxFaults
    BY <1>2, RegistrationCounters
  <2> QED BY <1>2, <2>1 DEF CountersTyped
<1>3. attempts \in 0 .. ACCOUNT_MAX_RETRY_TIMES /\ ACCOUNT_MAX_RETRY_TIMES \in Nat
  BY CenterAssumption DEF CountersTyped
<1>4. \A k : Turn(k) => k \in Kinds \/ (k = "extMade" /\ "ext" \in Kinds)
  BY DEF IInv, WorkOK, Turn
<1>5. ASSUME NEW k \in Kinds, RegisterMonitor(k) PROVE CountersTyped'
  BY <1>1, <1>5 DEF RegisterMonitor
<1>6. ASSUME NEW k \in Kinds, RegisterOnce(k) PROVE CountersTyped'
  BY <1>2, <1>3, <1>6 DEF RegisterOnce
<1>7. CASE RegisterAppStateObserver
  <2>1. "app" \in Kinds
    BY CenterAssumption
  <2> QED BY <1>2, <1>3, <1>7, <2>1 DEF RegisterAppStateObserver
<1>8. CASE MakeExtConnObserver
  BY <1>1, <1>8 DEF MakeExtConnObserver
<1>9. CASE RegisterExtConnObserver
  <2>1. Turn("extMade") /\ (Registered("ext") \/ Refused("ext")) /\ UNCHANGED <<up, notices, deaths, attempts>>
    BY <1>9 DEF RegisterExtConnObserver
  <2>2. "ext" \in Kinds
    <3>1. "extMade" \notin Kinds
      BY CenterAssumption
    <3> QED BY <1>4, <2>1, <3>1
  <2> QED BY <1>2, <1>3, <2>1, <2>2
<1>10. CASE RegisterAccountObserver
  <2>1. /\ Turn("account") /\ (Registered("account") \/ Refused("account"))
        /\ UNCHANGED <<up, notices, deaths>>
        /\ attempts' = IF attempts < ACCOUNT_MAX_RETRY_TIMES THEN attempts + 1 ELSE attempts
    BY <1>10 DEF RegisterAccountObserver
  <2>2. "account" \in Kinds
    BY <1>4, <2>1
  <2>3. attempts' \in 0 .. ACCOUNT_MAX_RETRY_TIMES
    BY <1>3, <2>1
  <2> QED BY <1>2, <2>1, <2>2, <2>3
<1> QED BY <1>5, <1>6, <1>7, <1>8, <1>9, <1>10 DEF HandlerStep

\* So do the other services, and the tasks that begin.
LEMMA CountersStep ==
  ASSUME IInv, CountersTyped, [Next]_vars
  PROVE  CountersTyped'
<1>1. ASSUME UNCHANGED <<up, notices, attempts, refused, deaths, faults>> PROVE CountersTyped'
  BY <1>1 DEF CountersTyped
<1>2. CASE UNCHANGED vars
  BY <1>1, <1>2 DEF vars
<1>3. CASE RunTask
  BY <1>1, <1>3 DEF RunTask
<1>4. CASE HandlerStep
  BY <1>4, HandlerCounters
<1>5. CASE \E k \in Kinds : RunDelayed(k) \/ InitMonitor(k)
  BY <1>1, <1>5 DEF RunDelayed, InitMonitor
<1>6. CASE \E s \in Services : OnAddSystemAbility(s)
  <2>1. /\ notices' \subseteq notices
        /\ UNCHANGED <<up, attempts, refused, deaths, faults>>
    BY <1>6 DEF OnAddSystemAbility
  <2> QED BY <2>1 DEF CountersTyped
<1>7. CASE \E s \in Services : Start(s)
  <2>1. PICK s \in Services : Start(s)
    BY <1>7
  <2>2. /\ up' = up \cup {s} /\ notices' = notices \cup {s}
        /\ UNCHANGED <<attempts, refused, deaths, faults>>
    BY <2>1 DEF Start
  <2> QED BY <2>2 DEF CountersTyped
<1>8. CASE \E s \in Services : Die(s)
  <2>1. PICK s \in Services : Die(s)
    BY <1>8
  <2>2. /\ up' = up \ {s} /\ notices' = notices \ {s} /\ deaths > 0 /\ deaths' = deaths - 1
        /\ UNCHANGED <<attempts, refused, faults>>
    BY <2>1 DEF Die
  <2>3. MaxDeaths \in Nat
    BY CenterAssumption
  <2> QED BY <2>2, <2>3 DEF CountersTyped
<1>9. CASE OnServiceDied
  BY <1>1, <1>9 DEF OnServiceDied
<1> QED BY <1>2, <1>3, <1>4, <1>5, <1>6, <1>7, <1>8, <1>9 DEF Next

\* The type invariant: with it regObsHandler_ never has two delayed tasks for the extension
\* observer or a monitor.
THEOREM CenterTypes == Spec => []TypeOK
<1>1. Init => CountersTyped
  BY CenterAssumption DEF Init, CountersTyped
<1>2. IInv /\ [Next]_vars => IInv'
  BY NextIInv
<1>3. IInv /\ CountersTyped /\ [Next]_vars => CountersTyped'
  BY CountersStep
<1>4. IInv /\ CountersTyped => TypeOK
  <2> SUFFICES ASSUME IInv, CountersTyped PROVE TypeOK
    OBVIOUS
  <2>1. /\ \A i \in DOMAIN tasks : tasks[i] \in Kinds \union {"all"}
        /\ \A k \in Kinds : later[k] \in Nat /\ reg[k] \in Nat /\ told[k] \in Nat
        /\ held \in Pointers /\ obituary \in BOOLEAN
    BY DEF IInv, Typing
  <2>2. ASSUME NEW k \in {"pressure", "kswapd", "ext"} \intersect Kinds PROVE later[k] <= 1
    <3>1. /\ reg[k] \in Nat /\ later[k] \in Nat /\ Queued(tasks, k) \in Nat
          /\ Running(k) \in {0, 1} /\ There(k) \in {0, 1}
      BY OwedType DEF IInv
    <3>2. told[k] = 0
      BY DEF IInv, ExtOnce, Monitors
    <3>3. Owed(k) <= told[k] + There(k)
      BY DEF IInv, Balanced
    <3> QED BY <3>1, <3>2, <3>3 DEF Owed
  <2> QED BY <2>1, <2>2 DEF TypeOK, CountersTyped, Pointers
<1> QED BY <1>1, <1>2, <1>3, <1>4, InitIInv, PTL DEF Spec

-----------------------------------------------------------------------------
(* What the observer will show of a window once the first k of the waiting *)
(* updates are applied.                                                    *)

\* Window w of p is visible after k of the updates ups, had being those shown now.
ShownAfter(ups, had, k, p, w) ==
  \/ \E i \in 1 .. k : <<p, w>> \in ups[i].on /\ \A j \in i + 1 .. k : <<p, w>> \notin ups[j].off
  \/ w \in had /\ \A j \in 1 .. k : <<p, w>> \notin ups[j].off

\* One more update.
LEMMA ShownOneMore ==
  ASSUME NEW U, NEW ups \in Seq(U), NEW u \in U, NEW had, NEW p, NEW w
  PROVE  /\ \A k \in 0 .. Len(ups) :
              ShownAfter(Append(ups, u), had, k, p, w) <=> ShownAfter(ups, had, k, p, w)
         /\ ShownAfter(Append(ups, u), had, Len(ups) + 1, p, w) <=>
              \/ <<p, w>> \in u.on
              \/ ShownAfter(ups, had, Len(ups), p, w) /\ <<p, w>> \notin u.off
<1> DEFINE n == Len(ups)
           t == Append(ups, u)
<1>1. n \in Nat /\ (\A i \in 1 .. n : t[i] = ups[i]) /\ t[n + 1] = u
  OBVIOUS
<1> HIDE DEF n, t
<1>2. ASSUME NEW k \in 0 .. n
      PROVE  ShownAfter(t, had, k, p, w) <=> ShownAfter(ups, had, k, p, w)
  <2>1. \A i \in 1 .. k : t[i] = ups[i]
    BY <1>1
  <2>2. \A i \in 1 .. k : \A j \in i + 1 .. k : t[j] = ups[j]
    BY <2>1
  <2> QED BY <2>1, <2>2 DEF ShownAfter
<1>3. ASSUME ShownAfter(t, had, n + 1, p, w), <<p, w>> \notin u.on
      PROVE  ShownAfter(ups, had, n, p, w) /\ <<p, w>> \notin u.off
  <2>1. CASE \E i \in 1 .. n + 1 :
               <<p, w>> \in t[i].on /\ \A j \in i + 1 .. n + 1 : <<p, w>> \notin t[j].off
    <3>1. PICK i \in 1 .. n + 1 :
               <<p, w>> \in t[i].on /\ \A j \in i + 1 .. n + 1 : <<p, w>> \notin t[j].off
      BY <2>1
    <3>2. i \in 1 .. n
      BY <1>1, <1>3, <3>1
    <3>3. n + 1 \in i + 1 .. n + 1 /\ \A j \in i + 1 .. n : j \in i + 1 .. n + 1 /\ j \in 1 .. n
      BY <1>1, <3>2
    <3>4. <<p, w>> \notin u.off
      BY <1>1, <3>1, <3>3
    <3>5. <<p, w>> \in ups[i].on /\ \A j \in i + 1 .. n : <<p, w>> \notin ups[j].off
      BY <1>1, <3>1, <3>2, <3>3
    <3> QED BY <3>2, <3>4, <3>5 DEF ShownAfter
  <2>2. CASE w \in had /\ \A j \in 1 .. n + 1 : <<p, w>> \notin t[j].off
    <3>1. n + 1 \in 1 .. n + 1 /\ \A j \in 1 .. n : j \in 1 .. n + 1
      BY <1>1
    <3>2. <<p, w>> \notin u.off /\ \A j \in 1 .. n : <<p, w>> \notin ups[j].off
      BY <1>1, <2>2, <3>1
    <3> QED BY <2>2, <3>2 DEF ShownAfter
  <2> QED BY <1>3, <2>1, <2>2 DEF ShownAfter
<1>4. ASSUME <<p, w>> \in u.on PROVE ShownAfter(t, had, n + 1, p, w)
  <2>1. n + 1 \in 1 .. n + 1 /\ \A j \in n + 2 .. n + 1 : FALSE
    BY <1>1
  <2>2. \A j \in (n + 1) + 1 .. n + 1 : <<p, w>> \notin t[j].off
    BY <1>1
  <2> QED BY <1>1, <1>4, <2>1, <2>2 DEF ShownAfter
<1>5. ASSUME ShownAfter(ups, had, n, p, w), <<p, w>> \notin u.off
      PROVE  ShownAfter(t, had, n + 1, p, w)
  <2>1. CASE \E i \in 1 .. n : <<p, w>> \in ups[i].on /\ \A j \in i + 1 .. n : <<p, w>> \notin ups[j].off
    <3>1. PICK i \in 1 .. n : <<p, w>> \in ups[i].on /\ \A j \in i + 1 .. n : <<p, w>> \notin ups[j].off
      BY <2>1
    <3>2. \A j \in i + 1 .. n + 1 : (j \in i + 1 .. n /\ j \in 1 .. n) \/ j = n + 1
      BY <1>1
    <3>3. \A j \in i + 1 .. n + 1 : <<p, w>> \notin t[j].off
      BY <1>1, <1>5, <3>1, <3>2
    <3>4. i \in 1 .. n + 1 /\ <<p, w>> \in t[i].on
      BY <1>1, <3>1
    <3> QED BY <3>3, <3>4 DEF ShownAfter
  <2>2. CASE w \in had /\ \A j \in 1 .. n : <<p, w>> \notin ups[j].off
    <3>1. \A j \in 1 .. n + 1 : j \in 1 .. n \/ j = n + 1
      BY <1>1
    <3>2. \A j \in 1 .. n + 1 : <<p, w>> \notin t[j].off
      BY <1>1, <1>5, <2>2, <3>1
    <3> QED BY <2>2, <3>2 DEF ShownAfter
  <2> QED BY <1>5, <2>1, <2>2 DEF ShownAfter
<1> QED BY <1>2, <1>3, <1>4, <1>5 DEF n, t

\* The first update is applied.
LEMMA ShownOneLess ==
  ASSUME NEW U, NEW ups \in Seq(U), ups # <<>>, NEW had, NEW after, NEW p, NEW w,
         w \in after <=> \/ <<p, w>> \in Head(ups).on
                         \/ w \in had /\ <<p, w>> \notin Head(ups).off,
         NEW k \in 1 .. Len(ups)
  PROVE  ShownAfter(Tail(ups), after, k - 1, p, w) <=> ShownAfter(ups, had, k, p, w)
<1> DEFINE t == Tail(ups)
<1>1. Len(ups) \in Nat /\ Head(ups) = ups[1] /\ \A i \in 1 .. k - 1 : t[i] = ups[i + 1]
  <2>1. /\ Head(ups) = ups[1] /\ Len(t) = Len(ups) - 1
        /\ \A i \in 1 .. Len(t) : t[i] = ups[i + 1]
    BY HeadTailProperties
  <2> HIDE DEF t
  <2>2. \A i \in 1 .. k - 1 : i \in 1 .. Len(t)
    BY <2>1
  <2> QED BY <2>1, <2>2
<1> HIDE DEF t
<1>2. ASSUME ShownAfter(t, after, k - 1, p, w) PROVE ShownAfter(ups, had, k, p, w)
  <2>1. CASE \E i \in 1 .. k - 1 :
               <<p, w>> \in t[i].on /\ \A j \in i + 1 .. k - 1 : <<p, w>> \notin t[j].off
    <3>1. PICK i \in 1 .. k - 1 :
               <<p, w>> \in t[i].on /\ \A j \in i + 1 .. k - 1 : <<p, w>> \notin t[j].off
      BY <2>1
    <3>2. i + 1 \in 1 .. k /\ <<p, w>> \in ups[i + 1].on
      BY <1>1, <3>1
    <3>3. ASSUME NEW j \in (i + 1) + 1 .. k PROVE <<p, w>> \notin ups[j].off
      <4>1. j - 1 \in i + 1 .. k - 1 /\ j - 1 \in 1 .. k - 1 /\ j - 1 + 1 = j
        BY <1>1
      <4> QED BY <1>1, <3>1, <4>1
    <3> QED BY <3>2, <3>3 DEF ShownAfter
  <2>2. CASE w \in after /\ \A j \in 1 .. k - 1 : <<p, w>> \notin t[j].off
    <3>1. ASSUME NEW j \in 2 .. k PROVE <<p, w>> \notin ups[j].off
      <4>1. j - 1 \in 1 .. k - 1 /\ j - 1 + 1 = j
        BY <1>1
      <4> QED BY <1>1, <2>2, <4>1
    <3>2. CASE <<p, w>> \in ups[1].on
      <4>1. \A j \in 1 + 1 .. k : <<p, w>> \notin ups[j].off
        BY <3>1
      <4>2. 1 \in 1 .. k
        OBVIOUS
      <4> QED BY <3>2, <4>1, <4>2 DEF ShownAfter
    <3>3. CASE w \in had /\ <<p, w>> \notin ups[1].off
      <4>1. \A j \in 1 .. k : j = 1 \/ j \in 2 .. k
        OBVIOUS
      <4>2. \A j \in 1 .. k : <<p, w>> \notin ups[j].off
        BY <3>1, <3>3, <4>1
      <4> QED BY <3>3, <4>2 DEF ShownAfter
    <3> QED BY <1>1, <2>2, <3>2, <3>3
  <2> QED BY <1>2, <2>1, <2>2 DEF ShownAfter
<1>3. ASSUME ShownAfter(ups, had, k, p, w) PROVE ShownAfter(t, after, k - 1, p, w)
  <2>1. ASSUME \A j \in 2 .. k : <<p, w>> \notin ups[j].off, w \in after
        PROVE  ShownAfter(t, after, k - 1, p, w)
    <3>1. ASSUME NEW j \in 1 .. k - 1 PROVE <<p, w>> \notin t[j].off
      <4>1. j + 1 \in 2 .. k
        BY <1>1
      <4> QED BY <1>1, <2>1, <4>1
    <3> QED BY <2>1, <3>1 DEF ShownAfter
  <2>2. CASE \E i \in 1 .. k : <<p, w>> \in ups[i].on /\ \A j \in i + 1 .. k : <<p, w>> \notin ups[j].off
    <3>1. PICK i \in 1 .. k : <<p, w>> \in ups[i].on /\ \A j \in i + 1 .. k : <<p, w>> \notin ups[j].off
      BY <2>2
    <3>2. CASE i = 1
      <4>1. \A j \in 2 .. k : <<p, w>> \notin ups[j].off
        BY <3>1, <3>2
      <4> QED BY <1>1, <2>1, <3>1, <3>2, <4>1
    <3>3. CASE i # 1
      <4>1. i - 1 \in 1 .. k - 1 /\ i - 1 + 1 = i
        BY <1>1, <3>3
      <4>2. ASSUME NEW j \in (i - 1) + 1 .. k - 1 PROVE <<p, w>> \notin t[j].off
        <5>1. j + 1 \in i + 1 .. k /\ j \in 1 .. k - 1
          BY <1>1, <3>3
        <5> QED BY <1>1, <3>1, <5>1
      <4>3. <<p, w>> \in t[i - 1].on
        BY <1>1, <3>1, <4>1
      <4> QED BY <4>1, <4>2, <4>3 DEF ShownAfter
    <3> QED BY <3>2, <3>3
  <2>3. CASE w \in had /\ \A j \in 1 .. k : <<p, w>> \notin ups[j].off
    <3>1. <<p, w>> \notin ups[1].off /\ \A j \in 2 .. k : <<p, w>> \notin ups[j].off
      <4>1. 1 \in 1 .. k /\ \A j \in 2 .. k : j \in 1 .. k
        OBVIOUS
      <4> QED BY <2>3, <4>1
    <3> QED BY <1>1, <2>1, <2>3, <3>1
  <2> QED BY <1>3, <2>2, <2>3 DEF ShownAfter
<1> QED BY <1>2, <1>3 DEF t

\* Windows that are no longer held are not shown for it.
LEMMA ShownHeld ==
  ASSUME NEW ups, NEW had, NEW less, less \subseteq had, NEW k, NEW p, NEW w,
         ShownAfter(ups, less, k, p, w)
  PROVE  ShownAfter(ups, had, k, p, w)
BY DEF ShownAfter

-----------------------------------------------------------------------------
(* What the priority manager will hold of a process once the first k of    *)
(* the waiting requests are handled.                                       *)

\* Something that the steps in "on" set and those in "off" take back holds after
\* step k; 0 \in on says that it held before the first step.
SetAfter(on, off, k) == \E i \in 0 .. k : i \in on /\ \A j \in i + 1 .. k : j \notin off

\* The places of request r in the queue rs.
PlacesOf(rs, r) == {i \in 1 .. Len(rs) : rs[i] = r}

\* The places in rs after which the priority manager has a record of p.
Creates(rs, kn, p) == {i \in {0} : p \in kn} \cup PlacesOf(rs, <<"CREATE_PROCESS", p>>)

\* The priority manager has a record of p after k of the requests rs, kn being
\* the processes it has a record of now.
KnownAfter(rs, kn, k, p) == SetAfter(Creates(rs, kn, p), PlacesOf(rs, <<"PROCESS_TERMINATED", p>>), k)

\* The places in rs after which p is held for visible.
Flags(rs, kn, fl, p) ==
  {i \in {0} : p \in fl} \cup {i \in PlacesOf(rs, <<"VISIBLE", p>>) : KnownAfter(rs, kn, i - 1, p)}

\* The places in rs after which it is not.
Unflags(rs, p) == PlacesOf(rs, <<"UN_VISIBLE", p>>) \cup PlacesOf(rs, <<"PROCESS_TERMINATED", p>>)

\* The priority manager holds p for visible after k of the requests rs.
FlagAfter(rs, kn, fl, k, p) == SetAfter(Flags(rs, kn, fl, p), Unflags(rs, p), k)

\* Only the steps up to k matter.
LEMMA SetSame ==
  ASSUME NEW k \in Nat, NEW on, NEW on2, NEW off, NEW off2,
         \A i \in 0 .. k : i \in on2 <=> i \in on,
         \A i \in 1 .. k : i \in off2 <=> i \in off
  PROVE  SetAfter(on2, off2, k) <=> SetAfter(on, off, k)
<1>1. \A i \in 0 .. k : \A j \in i + 1 .. k : j \in 1 .. k
  OBVIOUS
<1> QED BY <1>1 DEF SetAfter

\* Nothing happens between steps n and m.
LEMMA SetStays ==
  ASSUME NEW n \in Nat, NEW m \in Nat, n =< m, NEW on, NEW off,
         \A i \in n + 1 .. m : i \notin on /\ i \notin off
  PROVE  SetAfter(on, off, m) <=> SetAfter(on, off, n)
<1>1. ASSUME SetAfter(on, off, m) PROVE SetAfter(on, off, n)
  <2>1. PICK i \in 0 .. m : i \in on /\ \A j \in i + 1 .. m : j \notin off
    BY <1>1 DEF SetAfter
  <2>2. i \in 0 .. n
    <3>1. i \notin n + 1 .. m
      BY <2>1
    <3> QED BY <3>1
  <2>3. \A j \in i + 1 .. n : j \in i + 1 .. m
    OBVIOUS
  <2> QED BY <2>1, <2>2, <2>3 DEF SetAfter
<1>2. ASSUME SetAfter(on, off, n) PROVE SetAfter(on, off, m)
  <2>1. PICK i \in 0 .. n : i \in on /\ \A j \in i + 1 .. n : j \notin off
    BY <1>2 DEF SetAfter
  <2>2. i \in 0 .. m /\ \A j \in i + 1 .. m : j \in i + 1 .. n \/ j \in n + 1 .. m
    OBVIOUS
  <2> QED BY <2>1, <2>2 DEF SetAfter
<1> QED BY <1>1, <1>2

\* Something is set between steps n and m, and not taken back.
LEMMA SetNow ==
  ASSUME NEW n \in Nat, NEW m \in Nat, n =< m, NEW on, NEW off,
         \A j \in n + 1 .. m : j \notin off,
         NEW i \in n + 1 .. m, i \in on
  PROVE  SetAfter(on, off, m)
<1>1. i \in 0 .. m /\ \A j \in i + 1 .. m : j \in n + 1 .. m
  OBVIOUS
<1> QED BY <1>1 DEF SetAfter

\* Something is taken back between steps n and m, and not set again.
LEMMA SetNoMore ==
  ASSUME NEW n \in Nat, NEW m \in Nat, n =< m, NEW on, NEW off,
         \A i \in n + 1 .. m : i \notin on,
         NEW j \in n + 1 .. m, j \in off
  PROVE  ~SetAfter(on, off, m)
<1> SUFFICES ASSUME SetAfter(on, off, m) PROVE FALSE
  OBVIOUS
<1>1. PICK i \in 0 .. m : i \in on /\ \A l \in i + 1 .. m : l \notin off
  BY DEF SetAfter
<1>2. i \notin n + 1 .. m
  BY <1>1
<1>3. j \in i + 1 .. m
  BY <1>2
<1> QED BY <1>1, <1>3

\* The first step is done: what it did is where the rest starts from.
LEMMA SetOneLess ==
  ASSUME NEW k \in Nat \ {0}, NEW on, NEW off, NEW on2, NEW off2,
         0 \in on2 <=> 1 \in on \/ (0 \in on /\ 1 \notin off),
         \A i \in 1 .. k - 1 : i \in on2 <=> i + 1 \in on,
         \A i \in 1 .. k - 1 : i \in off2 <=> i + 1 \in off
  PROVE  SetAfter(on2, off2, k - 1) <=> SetAfter(on, off, k)
<1>1. ASSUME SetAfter(on2, off2, k - 1) PROVE SetAfter(on, off, k)
  <2>1. PICK i \in 0 .. k - 1 : i \in on2 /\ \A j \in i + 1 .. k - 1 : j \notin off2
    BY <1>1 DEF SetAfter
  <2>2. ASSUME NEW j \in i + 2 .. k PROVE j \notin off
    <3>1. j - 1 \in i + 1 .. k - 1 /\ j - 1 \in 1 .. k - 1 /\ (j - 1) + 1 = j
      OBVIOUS
    <3>2. j - 1 \notin off2
      BY <2>1, <3>1
    <3>3. j - 1 \in off2 <=> (j - 1) + 1 \in off
      BY <3>1
    <3> QED BY <3>1, <3>2, <3>3
  <2>3. CASE i # 0
    <3>1. i + 1 \in on /\ i + 1 \in 0 .. k
      BY <2>1, <2>3
    <3>2. \A j \in (i + 1) + 1 .. k : j \notin off
      BY <2>2
    <3> QED BY <3>1, <3>2 DEF SetAfter
  <2>4. CASE i = 0 /\ 1 \in on
    <3>1. 1 \in 0 .. k /\ \A j \in 1 + 1 .. k : j \notin off
      BY <2>2, <2>4
    <3> QED BY <2>4, <3>1 DEF SetAfter
  <2>5. CASE i = 0 /\ 0 \in on /\ 1 \notin off
    <3>1. \A j \in 0 + 1 .. k : j = 1 \/ j \in i + 2 .. k
      BY <2>5
    <3>2. \A j \in 0 + 1 .. k : j \notin off
      BY <2>2, <2>5, <3>1
    <3> QED BY <2>5, <3>2 DEF SetAfter
  <2> QED BY <2>1, <2>3, <2>4, <2>5
<1>2. ASSUME SetAfter(on, off, k) PROVE SetAfter(on2, off2, k - 1)
  <2>1. PICK i \in 0 .. k : i \in on /\ \A j \in i + 1 .. k : j \notin off
    BY <1>2 DEF SetAfter
  <2>2. ASSUME NEW j \in 1 .. k - 1, j \in i .. k - 1 PROVE j \notin off2
    <3>1. j + 1 \in i + 1 .. k
      BY <2>2
    <3> QED BY <2>1, <3>1
  <2>3. CASE i \in {0, 1}
    <3>1. 0 \in on2
      <4>1. CASE i = 0
        <5>1. 1 \in i + 1 .. k
          BY <4>1
        <5> QED BY <2>1, <4>1, <5>1
      <4>2. CASE i = 1
        BY <2>1, <4>2
      <4> QED BY <2>3, <4>1, <4>2
    <3>2. \A j \in 0 + 1 .. k - 1 : j \in 1 .. k - 1 /\ j \in i .. k - 1
      BY <2>3
    <3>3. \A j \in 0 + 1 .. k - 1 : j \notin off2
      BY <2>2, <3>2
    <3>4. 0 \in 0 .. k - 1
      OBVIOUS
    <3> QED BY <3>1, <3>3, <3>4 DEF SetAfter
  <2>4. CASE i \in 2 .. k
    <3>1. i - 1 \in 1 .. k - 1 /\ (i - 1) + 1 = i
      BY <2>4
    <3>2. i - 1 \in on2
      <4>1. i - 1 \in on2 <=> (i - 1) + 1 \in on
        BY <3>1
      <4> QED BY <2>1, <3>1, <4>1
    <3>3. \A j \in (i - 1) + 1 .. k - 1 : j \in 1 .. k - 1 /\ j \in i .. k - 1
      BY <2>4
    <3>4. \A j \in (i - 1) + 1 .. k - 1 : j \notin off2
      BY <2>2, <3>3
    <3>5. i - 1 \in 0 .. k - 1
      BY <3>1
    <3> QED BY <3>2, <3>4, <3>5 DEF SetAfter
  <2>5. i \in {0, 1} \/ i \in 2 .. k
    OBVIOUS
  <2> QED BY <2>3, <2>4, <2>5
<1> QED BY <1>1, <1>2

\* The queue t begins with the queue rs.
Continues(t, rs) == Len(t) >= Len(rs) /\ \A i \in 1 .. Len(rs) : t[i] = rs[i]

\* What is posted later changes nothing of what earlier requests do.
LEMMA EarlierSame ==
  ASSUME NEW R, NEW rs \in Seq(R), NEW t \in Seq(R), Continues(t, rs), NEW kn, NEW fl, NEW p
  PROVE  \A k \in 0 .. Len(rs) :
           /\ KnownAfter(t, kn, k, p) <=> KnownAfter(rs, kn, k, p)
           /\ FlagAfter(t, kn, fl, k, p) <=> FlagAfter(rs, kn, fl, k, p)
<1>1. Len(rs) \in Nat /\ Len(t) \in Nat /\ Len(t) >= Len(rs)
  BY DEF Continues
<1>2. ASSUME NEW i \in 1 .. Len(rs), NEW r PROVE i \in PlacesOf(t, r) <=> i \in PlacesOf(rs, r)
  BY <1>1 DEF Continues, PlacesOf
<1>3. ASSUME NEW k \in 0 .. Len(rs)
      PROVE  KnownAfter(t, kn, k, p) <=> KnownAfter(rs, kn, k, p)
  <2>1. \A i \in 0 .. k : i \in Creates(t, kn, p) <=> i \in Creates(rs, kn, p)
    <3> TAKE i \in 0 .. k
    <3>1. CASE i = 0
      BY <3>1 DEF Creates, PlacesOf
    <3>2. CASE i # 0
      <4>1. i \in 1 .. Len(rs)
        BY <1>1, <3>2
      <4> QED BY <1>2, <3>2, <4>1 DEF Creates
    <3> QED BY <3>1, <3>2
  <2>2. \A i \in 1 .. k : i \in PlacesOf(t, <<"PROCESS_TERMINATED", p>>)
                            <=> i \in PlacesOf(rs, <<"PROCESS_TERMINATED", p>>)
    BY <1>1, <1>2
  <2>3. k \in Nat
    BY <1>1
  <2> QED BY <2>1, <2>2, <2>3, SetSame DEF KnownAfter
<1>4. ASSUME NEW k \in 0 .. Len(rs)
      PROVE  FlagAfter(t, kn, fl, k, p) <=> FlagAfter(rs, kn, fl, k, p)
  <2>1. \A i \in 0 .. k : i \in Flags(t, kn, fl, p) <=> i \in Flags(rs, kn, fl, p)
    <3> TAKE i \in 0 .. k
    <3>1. CASE i = 0
      BY <3>1 DEF Flags, PlacesOf
    <3>2. CASE i # 0
      <4>1. i \in 1 .. Len(rs) /\ i - 1 \in 0 .. Len(rs)
        BY <1>1, <3>2
      <4>2. KnownAfter(t, kn, i - 1, p) <=> KnownAfter(rs, kn, i - 1, p)
        BY <1>3, <4>1
      <4>3. i \in PlacesOf(t, <<"VISIBLE", p>>) <=> i \in PlacesOf(rs, <<"VISIBLE", p>>)
        BY <1>2, <4>1
      <4> QED BY <3>2, <4>2, <4>3 DEF Flags
    <3> QED BY <3>1, <3>2
  <2>2. \A i \in 1 .. k : i \in Unflags(t, p) <=> i \in Unflags(rs, p)
    <3> TAKE i \in 1 .. k
    <3>1. i \in 1 .. Len(rs)
      BY <1>1
    <3>2. i \in PlacesOf(t, <<"UN_VISIBLE", p>>) <=> i \in PlacesOf(rs, <<"UN_VISIBLE", p>>)
      BY <1>2, <3>1
    <3>3. i \in PlacesOf(t, <<"PROCESS_TERMINATED", p>>)
            <=> i \in PlacesOf(rs, <<"PROCESS_TERMINATED", p>>)
      BY <1>2, <3>1
    <3> QED BY <3>2, <3>3 DEF Unflags
  <2>3. k \in Nat
    BY <1>1
  <2>4. /\ \A i \in 0 .. k : i \in Flags(t, kn, fl, p) <=> i \in Flags(rs, kn, fl, p)
        /\ \A i \in 1 .. k : i \in Unflags(t, p) <=> i \in Unflags(rs, p)
    BY <2>1, <2>2
  <2>5. SetAfter(Flags(t, kn, fl, p), Unflags(t, p), k) <=> SetAfter(Flags(rs, kn, fl, p), Unflags(rs, p), k)
    BY <2>3, <2>4, SetSame
  <2> QED BY <2>5 DEF FlagAfter
<1> QED BY <1>3, <1>4

\* None of the places from n on is in S.
NoneIn(S, n, m) == \A i \in n .. m : i \notin S

\* Requests that neither create nor end p leave it known or not.
LEMMA KnownStays ==
  ASSUME NEW R, NEW rs \in Seq(R), NEW t \in Seq(R), Continues(t, rs), NEW kn, NEW p,
         NoneIn(PlacesOf(t, <<"CREATE_PROCESS", p>>), Len(rs) + 1, Len(t)),
         NoneIn(PlacesOf(t, <<"PROCESS_TERMINATED", p>>), Len(rs) + 1, Len(t))
  PROVE  \A k \in Len(rs) .. Len(t) : KnownAfter(t, kn, k, p) <=> KnownAfter(rs, kn, Len(rs), p)
<1> TAKE k \in Len(rs) .. Len(t)
<1>1. Len(rs) \in Nat /\ k \in Nat /\ Len(rs) =< k /\ Len(rs) \in 0 .. Len(rs)
  OBVIOUS
<1>2. \A i \in Len(rs) + 1 .. k : /\ i \notin Creates(t, kn, p)
                                  /\ i \notin PlacesOf(t, <<"PROCESS_TERMINATED", p>>)
  <2> TAKE i \in Len(rs) + 1 .. k
  <2>1. i \in Len(rs) + 1 .. Len(t) /\ i # 0
    BY <1>1
  <2> QED BY <2>1 DEF NoneIn, Creates
<1>3. KnownAfter(t, kn, k, p) <=> KnownAfter(t, kn, Len(rs), p)
  BY <1>1, <1>2, SetStays DEF KnownAfter
<1> QED BY <1>1, <1>3, EarlierSame

\* Requests that neither show nor hide nor end p leave it visible or not.
LEMMA FlagStays ==
  ASSUME NEW R, NEW rs \in Seq(R), NEW t \in Seq(R), Continues(t, rs), NEW kn, NEW fl, NEW p,
         NoneIn(PlacesOf(t, <<"VISIBLE", p>>), Len(rs) + 1, Len(t)),
         NoneIn(Unflags(t, p), Len(rs) + 1, Len(t))
  PROVE  FlagAfter(t, kn, fl, Len(t), p) <=> FlagAfter(rs, kn, fl, Len(rs), p)
<1>1. Len(rs) \in Nat /\ Len(t) \in Nat /\ Len(rs) =< Len(t) /\ Len(rs) \in 0 .. Len(rs)
  BY DEF Continues
<1>2. \A i \in Len(rs) + 1 .. Len(t) : i \notin Flags(t, kn, fl, p) /\ i \notin Unflags(t, p)
  <2> TAKE i \in Len(rs) + 1 .. Len(t)
  <2>1. i # 0
    BY <1>1
  <2> QED BY <2>1 DEF NoneIn, Flags
<1>3. FlagAfter(t, kn, fl, Len(t), p) <=> FlagAfter(t, kn, fl, Len(rs), p)
  BY <1>1, <1>2, SetStays DEF FlagAfter
<1> QED BY <1>1, <1>3, EarlierSame

\* A process that is known, and shown but not hidden or ended, is visible.
LEMMA FlagNow ==
  ASSUME NEW R, NEW rs \in Seq(R), NEW t \in Seq(R), Continues(t, rs), NEW kn, NEW fl, NEW p,
         NEW i \in Len(rs) + 1 .. Len(t), t[i] = <<"VISIBLE", p>>,
         NoneIn(PlacesOf(t, <<"CREATE_PROCESS", p>>), Len(rs) + 1, Len(t)),
         NoneIn(Unflags(t, p), Len(rs) + 1, Len(t)),
         KnownAfter(rs, kn, Len(rs), p)
  PROVE  FlagAfter(t, kn, fl, Len(t), p)
<1>1. Len(rs) \in Nat /\ Len(t) \in Nat /\ Len(rs) =< Len(t)
  BY DEF Continues
<1>2. NoneIn(PlacesOf(t, <<"PROCESS_TERMINATED", p>>), Len(rs) + 1, Len(t))
  BY DEF NoneIn, Unflags
<1>3. KnownAfter(t, kn, i - 1, p)
  <2>1. i - 1 \in Len(rs) .. Len(t)
    BY <1>1
  <2>2. \A k \in Len(rs) .. Len(t) : KnownAfter(t, kn, k, p) <=> KnownAfter(rs, kn, Len(rs), p)
    BY <1>2, KnownStays
  <2> QED BY <2>1, <2>2
<1>4. i \in Flags(t, kn, fl, p)
  <2>1. i \in PlacesOf(t, <<"VISIBLE", p>>)
    BY <1>1 DEF PlacesOf
  <2> QED BY <1>3, <2>1 DEF Flags
<1>5. \A j \in Len(rs) + 1 .. Len(t) : j \notin Unflags(t, p)
  BY DEF NoneIn
<1> QED BY <1>1, <1>4, <1>5, SetNow DEF FlagAfter

\* A process that is hidden and not shown is not visible.
LEMMA FlagNoMore ==
  ASSUME NEW R, NEW rs \in Seq(R), NEW t \in Seq(R), Continues(t, rs), NEW kn, NEW fl, NEW p,
         NEW i \in Len(rs) + 1 .. Len(t), t[i] = <<"UN_VISIBLE", p>>,
         NoneIn(PlacesOf(t, <<"VISIBLE", p>>), Len(rs) + 1, Len(t))
  PROVE  ~FlagAfter(t, kn, fl, Len(t), p)
<1>1. Len(rs) \in Nat /\ Len(t) \in Nat /\ Len(rs) =< Len(t)
  BY DEF Continues
<1>2. i \in Unflags(t, p)
  BY <1>1 DEF PlacesOf, Unflags
<1>3. \A j \in Len(rs) + 1 .. Len(t) : j \notin Flags(t, kn, fl, p)
  <2> TAKE j \in Len(rs) + 1 .. Len(t)
  <2>1. j # 0
    BY <1>1
  <2> QED BY <2>1 DEF NoneIn, Flags
<1> QED BY <1>1, <1>2, <1>3, SetNoMore DEF FlagAfter

\* Only a process that is known is visible.
LEMMA FlagsKnown ==
  ASSUME NEW R, NEW rs \in Seq(R), NEW kn, NEW fl, fl \subseteq kn, NEW p,
         FlagAfter(rs, kn, fl, Len(rs), p)
  PROVE  KnownAfter(rs, kn, Len(rs), p)
<1> DEFINE n == Len(rs)
           E == PlacesOf(rs, <<"PROCESS_TERMINATED", p>>)
<1>1. n \in Nat
  OBVIOUS
<1>2. PICK i \in 0 .. n : i \in Flags(rs, kn, fl, p) /\ \A j \in i + 1 .. n : j \notin Unflags(rs, p)
  BY DEF FlagAfter, SetAfter
<1>3. \A j \in i + 1 .. n : j \notin E
  BY <1>2 DEF Unflags
<1>4. CASE i = 0
  <2>1. 0 \in Creates(rs, kn, p)
    BY <1>2, <1>4 DEF Flags, Creates, PlacesOf
  <2> QED BY <1>1, <1>3, <1>4, <2>1 DEF KnownAfter, SetAfter
<1>5. CASE i # 0
  <2>1. i \in PlacesOf(rs, <<"VISIBLE", p>>) /\ KnownAfter(rs, kn, i - 1, p)
    BY <1>2, <1>5 DEF Flags
  <2>2. PICK c \in 0 .. i - 1 : c \in Creates(rs, kn, p) /\ \A j \in c + 1 .. i - 1 : j \notin E
    BY <2>1 DEF KnownAfter, SetAfter
  <2>3. i \notin E
    BY <2>1 DEF PlacesOf
  <2>4. c \in 0 .. n /\ \A j \in c + 1 .. n : j \in c + 1 .. i - 1 \/ j = i \/ j \in i + 1 .. n
    BY <1>1, <1>5
  <2>5. \A j \in c + 1 .. n : j \notin E
    BY <1>3, <2>2, <2>3, <2>4
  <2> QED BY <2>2, <2>4, <2>5 DEF KnownAfter, SetAfter
<1> QED BY <1>4, <1>5

\* Before the first request the priority manager knows what it knows.
LEMMA KnownFirst ==
  ASSUME NEW rs, NEW kn, NEW p
  PROVE  KnownAfter(rs, kn, 0, p) <=> p \in kn
<1>1. 0 \in Creates(rs, kn, p) <=> p \in kn
  BY DEF Creates, PlacesOf
<1>2. 0 .. 0 = {0} /\ 0 + 1 .. 0 = {}
  OBVIOUS
<1> QED BY <1>1, <1>2 DEF KnownAfter, SetAfter

\* The first request is handled: what it does is what the rest starts from.
LEMMA RequestDone ==
  ASSUME NEW R, NEW rs \in Seq(R), rs # <<>>, NEW kn, NEW kn2, NEW fl, NEW fl2, NEW p,
         p \in kn2 <=> \/ Head(rs) = <<"CREATE_PROCESS", p>>
                       \/ p \in kn /\ Head(rs) # <<"PROCESS_TERMINATED", p>>,
         p \in fl2 <=> \/ Head(rs) = <<"VISIBLE", p>> /\ p \in kn
                       \/ p \in fl /\ Head(rs) # <<"UN_VISIBLE", p>>
                                   /\ Head(rs) # <<"PROCESS_TERMINATED", p>>
  PROVE  \A k \in 1 .. Len(rs) :
           /\ KnownAfter(Tail(rs), kn2, k - 1, p) <=> KnownAfter(rs, kn, k, p)
           /\ FlagAfter(Tail(rs), kn2, fl2, k - 1, p) <=> FlagAfter(rs, kn, fl, k, p)
<1> DEFINE t == Tail(rs)
<1>1. /\ Len(rs) \in Nat /\ Len(rs) >= 1 /\ Head(rs) = rs[1] /\ Len(t) = Len(rs) - 1
      /\ \A i \in 1 .. Len(t) : t[i] = rs[i + 1]
  BY HeadTailProperties
<1> HIDE DEF t
<1>2. ASSUME NEW r, NEW i \in 1 .. Len(rs) - 1
      PROVE  i \in PlacesOf(t, r) <=> i + 1 \in PlacesOf(rs, r)
  <2>1. i \in 1 .. Len(t) /\ i + 1 \in 1 .. Len(rs) /\ t[i] = rs[i + 1]
    BY <1>1
  <2> QED BY <2>1 DEF PlacesOf
<1>3. ASSUME NEW r PROVE 1 \in PlacesOf(rs, r) <=> Head(rs) = r
  BY <1>1 DEF PlacesOf
<1>4. ASSUME NEW k \in 1 .. Len(rs)
      PROVE  KnownAfter(t, kn2, k - 1, p) <=> KnownAfter(rs, kn, k, p)
  <2> DEFINE on == Creates(rs, kn, p)
             on2 == Creates(t, kn2, p)
             off == PlacesOf(rs, <<"PROCESS_TERMINATED", p>>)
             off2 == PlacesOf(t, <<"PROCESS_TERMINATED", p>>)
  <2>1. 0 \in on2 <=> 1 \in on \/ (0 \in on /\ 1 \notin off)
    <3>1. 1 \in on <=> Head(rs) = <<"CREATE_PROCESS", p>>
      BY <1>3 DEF Creates
    <3>2. 1 \in off <=> Head(rs) = <<"PROCESS_TERMINATED", p>>
      BY <1>3
    <3>3. (0 \in on2 <=> p \in kn2) /\ (0 \in on <=> p \in kn)
      BY DEF Creates, PlacesOf
    <3> QED BY <3>1, <3>2, <3>3
  <2>2. \A i \in 1 .. k - 1 : i \in on2 <=> i + 1 \in on
    <3> TAKE i \in 1 .. k - 1
    <3>1. i \in 1 .. Len(rs) - 1 /\ i # 0 /\ i + 1 # 0
      BY <1>1
    <3>2. i \in PlacesOf(t, <<"CREATE_PROCESS", p>>) <=> i + 1 \in PlacesOf(rs, <<"CREATE_PROCESS", p>>)
      BY <1>2, <3>1
    <3> QED BY <3>1, <3>2 DEF Creates
  <2>3. \A i \in 1 .. k - 1 : i \in off2 <=> i + 1 \in off
    <3> TAKE i \in 1 .. k - 1
    <3>1. i \in 1 .. Len(rs) - 1
      BY <1>1
    <3> QED BY <1>2, <3>1
  <2>4. k \in Nat \ {0}
    BY <1>1
  <2> HIDE DEF on, on2, off, off2
  <2>5. SetAfter(on2, off2, k - 1) <=> SetAfter(on, off, k)
    BY <2>1, <2>2, <2>3, <2>4, SetOneLess
  <2> QED BY <2>5 DEF KnownAfter, on, on2, off, off2
<1>5. ASSUME NEW k \in 1 .. Len(rs)
      PROVE  FlagAfter(t, kn2, fl2, k - 1, p) <=> FlagAfter(rs, kn, fl, k, p)
  <2> DEFINE on == Flags(rs, kn, fl, p)
             on2 == Flags(t, kn2, fl2, p)
             off == Unflags(rs, p)
             off2 == Unflags(t, p)
  <2>1. 0 \in on2 <=> 1 \in on \/ (0 \in on /\ 1 \notin off)
    <3>1. 1 \in on <=> Head(rs) = <<"VISIBLE", p>> /\ p \in kn
      <4>1. KnownAfter(rs, kn, 1 - 1, p) <=> p \in kn
        BY KnownFirst
      <4>2. 1 \in PlacesOf(rs, <<"VISIBLE", p>>) <=> Head(rs) = <<"VISIBLE", p>>
        BY <1>3
      <4> QED BY <4>1, <4>2 DEF Flags
    <3>2. 1 \in off <=> Head(rs) = <<"UN_VISIBLE", p>> \/ Head(rs) = <<"PROCESS_TERMINATED", p>>
      BY <1>3 DEF Unflags
    <3>3. (0 \in on2 <=> p \in fl2) /\ (0 \in on <=> p \in fl)
      BY DEF Flags, PlacesOf
    <3> QED BY <3>1, <3>2, <3>3
  <2>2. \A i \in 1 .. k - 1 : i \in on2 <=> i + 1 \in on
    <3> TAKE i \in 1 .. k - 1
    <3>1. i \in 1 .. Len(rs) - 1 /\ i # 0 /\ i + 1 # 0 /\ i \in 1 .. Len(rs)
      BY <1>1
    <3>2. i \in PlacesOf(t, <<"VISIBLE", p>>) <=> i + 1 \in PlacesOf(rs, <<"VISIBLE", p>>)
      BY <1>2, <3>1
    <3>3. KnownAfter(t, kn2, i - 1, p) <=> KnownAfter(rs, kn, (i + 1) - 1, p)
      <4>1. (i + 1) - 1 = i
        BY <3>1
      <4>2. KnownAfter(t, kn2, i - 1, p) <=> KnownAfter(rs, kn, i, p)
        BY <1>4, <3>1
      <4> QED BY <4>1, <4>2
    <3> QED BY <3>1, <3>2, <3>3 DEF Flags
  <2>3. \A i \in 1 .. k - 1 : i \in off2 <=> i + 1 \in off
    <3> TAKE i \in 1 .. k - 1
    <3>1. i \in 1 .. Len(rs) - 1
      BY <1>1
    <3>2. i \in PlacesOf(t, <<"UN_VISIBLE", p>>) <=> i + 1 \in PlacesOf(rs, <<"UN_VISIBLE", p>>)
      BY <1>2, <3>1
    <3>3. i \in PlacesOf(t, <<"PROCESS_TERMINATED", p>>)
            <=> i + 1 \in PlacesOf(rs, <<"PROCESS_TERMINATED", p>>)
      BY <1>2, <3>1
    <3> QED BY <3>2, <3>3 DEF Unflags
  <2>4. k \in Nat \ {0}
    BY <1>1
  <2> HIDE DEF on, on2, off, off2
  <2>5. SetAfter(on2, off2, k - 1) <=> SetAfter(on, off, k)
    BY <2>1, <2>2, <2>3, <2>4, SetOneLess
  <2> QED BY <2>5 DEF FlagAfter, on, on2, off, off2
<1> QED BY <1>4, <1>5 DEF t

-----------------------------------------------------------------------------
(* The inductive invariant.                                                *)

\* What may be posted to the priority manager, and what the window manager reports.
Requests == {"CREATE_PROCESS", "PROCESS_TERMINATED", "VISIBLE", "UN_VISIBLE"} \X Pid
Updates == [on : SUBSET (Pid \X Window), off : SUBSET (Pid \X Window)]

WindowTyped ==
  /\ env \in Environments
  /\ life \in [Pid -> {"gone", "created", "died", "reported"}]
  /\ shown \subseteq Pid \X Window
  /\ updates \in Seq(Updates)
  /\ requests \in Seq(Requests)
  /\ DOMAIN map \subseteq Pid
  /\ \A p \in DOMAIN map : map[p].windows \subseteq Window /\ map[p].windows # {} /\ map[p].visible = TRUE
  /\ known \subseteq Pid
  /\ flagged \subseteq known

\* Once everything posted is handled, exactly the processes whose death has not
\* been reported are known.
KnownLives ==
  \A p \in Pid : KnownAfter(requests, known, Len(requests), p) <=> life[p] \in {"created", "died"}

\* Only a live process shows windows.
DeadShowNone == \A p \in Pid : \A w \in Window : <<p, w>> \in shown => Alive(p)

\* If closed windows are reported, what the observer will show is what is shown.
ShowsThose ==
  env.reportsClosed =>
    \A p \in Pid : \A w \in Window :
      ShownAfter(updates, Known(p), Len(updates), p, w) <=> <<p, w>> \in shown

\* One of the updates that wait takes the last window of p away.
Cleared(p) == \E k \in 1 .. Len(updates) : \A w \in Window : ~ShownAfter(updates, Known(p), k, p, w)

\* The priority manager will hold p for visible.
WillFlag(p) == FlagAfter(requests, known, flagged, Len(requests), p)

\* If closed windows are reported, of a live process: the observer has an entry of
\* every one that will be held for visible, and an entry of another one will go.
EntryFlagged ==
  env.reportsClosed =>
    \A p \in Pid : Alive(p) =>
      /\ WillFlag(p) => p \in DOMAIN map
      /\ p \in DOMAIN map => WillFlag(p) \/ Cleared(p)

WindowInv == WindowTyped /\ KnownLives /\ DeadShowNone /\ ShowsThose /\ EntryFlagged

\* With no process there is nothing to agree about.
LEMMA WindowInitOK == WindowInit => WindowInv
<1> SUFFICES ASSUME WindowInit PROVE WindowInv
  OBVIOUS
<1>1. /\ env \in Environments /\ life = [p \in Pid |-> "gone"] /\ shown = {} /\ updates = <<>>
      /\ map = [p \in {} |-> {}] /\ requests = <<>> /\ known = {} /\ flagged = {}
  BY DEF WindowInit
<1>2. DOMAIN map = {} /\ Len(requests) = 0 /\ Len(updates) = 0 /\ \A p \in Pid : Known(p) = {}
  BY <1>1 DEF Known
<1>3. WindowTyped
  <2>1. updates \in Seq(Updates) /\ requests \in Seq(Requests)
    BY <1>1
  <2>2. life \in [Pid -> {"gone", "created", "died", "reported"}]
    BY <1>1
  <2>3. /\ DOMAIN map \subseteq Pid
        /\ \A p \in DOMAIN map : map[p].windows \subseteq Window /\ map[p].windows # {} /\ map[p].visible = TRUE
    BY <1>2
  <2> QED BY <1>1, <2>1, <2>2, <2>3 DEF WindowTyped
<1>4. KnownLives
  <2> SUFFICES \A p \in Pid : KnownAfter(requests, known, Len(requests), p)
                               <=> life[p] \in {"created", "died"}
    BY DEF KnownLives
  <2> TAKE p \in Pid
  <2>1. ~KnownAfter(requests, known, 0, p)
    <3>1. KnownAfter(requests, known, 0, p) <=> p \in known
      BY KnownFirst
    <3> QED BY <1>1, <3>1
  <2>2. life[p] = "gone"
    BY <1>1
  <2> QED BY <1>2, <2>1, <2>2
<1>5. DeadShowNone
  BY <1>1 DEF DeadShowNone
<1>6. ShowsThose
  <2>1. \A p \in Pid : \A w \in Window : ~ShownAfter(updates, Known(p), 0, p, w)
    BY <1>2 DEF ShownAfter
  <2> QED BY <1>1, <1>2, <2>1 DEF ShowsThose
<1>7. EntryFlagged
  BY <1>1 DEF EntryFlagged, Alive
<1> QED BY <1>3, <1>4, <1>5, <1>6, <1>7 DEF WindowInv

\* One more request is posted.
LEMMA OneMoreRequest ==
  ASSUME NEW R, NEW rs \in Seq(R), NEW r \in R, NEW t, t = Append(rs, r)
  PROVE  /\ t \in Seq(R) /\ Continues(t, rs) /\ Len(t) = Len(rs) + 1 /\ t[Len(t)] = r
         /\ \A x : x # r => NoneIn(PlacesOf(t, x), Len(rs) + 1, Len(t))
<1>1. t \in Seq(R) /\ Len(t) = Len(rs) + 1 /\ t[Len(rs) + 1] = r /\ Len(rs) \in Nat
      /\ \A i \in 1 .. Len(rs) : t[i] = rs[i]
  OBVIOUS
<1>2. Continues(t, rs)
  BY <1>1 DEF Continues
<1>3. ASSUME NEW x, x # r PROVE NoneIn(PlacesOf(t, x), Len(rs) + 1, Len(t))
  <2>1. \A i \in Len(rs) + 1 .. Len(t) : i = Len(rs) + 1
    BY <1>1
  <2> QED BY <1>1, <1>3, <2>1 DEF NoneIn, PlacesOf
<1> QED BY <1>1, <1>2, <1>3

\* A request about another process, or another one about this, changes nothing.
LEMMA OtherRequest ==
  ASSUME NEW R, NEW rs \in Seq(R), NEW r \in R, NEW t, t = Append(rs, r), NEW kn, NEW fl, NEW p
  PROVE  /\ (r # <<"CREATE_PROCESS", p>> /\ r # <<"PROCESS_TERMINATED", p>>)
              => (KnownAfter(t, kn, Len(t), p) <=> KnownAfter(rs, kn, Len(rs), p))
         /\ (r # <<"VISIBLE", p>> /\ r # <<"UN_VISIBLE", p>> /\ r # <<"PROCESS_TERMINATED", p>>)
              => (FlagAfter(t, kn, fl, Len(t), p) <=> FlagAfter(rs, kn, fl, Len(rs), p))
<1>0. /\ t \in Seq(R) /\ Continues(t, rs) /\ Len(t) = Len(rs) + 1
      /\ \A x : x # r => NoneIn(PlacesOf(t, x), Len(rs) + 1, Len(t))
  BY OneMoreRequest
<1>1. /\ t \in Seq(R) /\ Continues(t, rs) /\ Len(t) = Len(rs) + 1 /\ Len(rs) \in Nat
      /\ \A x : x # r => NoneIn(PlacesOf(t, x), Len(rs) + 1, Len(t))
  BY <1>0
<1>2. ASSUME r # <<"CREATE_PROCESS", p>>, r # <<"PROCESS_TERMINATED", p>>
      PROVE  KnownAfter(t, kn, Len(t), p) <=> KnownAfter(rs, kn, Len(rs), p)
  <2>1. NoneIn(PlacesOf(t, <<"CREATE_PROCESS", p>>), Len(rs) + 1, Len(t))
    BY <1>1, <1>2
  <2>2. NoneIn(PlacesOf(t, <<"PROCESS_TERMINATED", p>>), Len(rs) + 1, Len(t))
    BY <1>1, <1>2
  <2>3. Len(t) \in Len(rs) .. Len(t)
    BY <1>1
  <2> QED BY <1>1, <2>1, <2>2, <2>3, KnownStays
<1>3. ASSUME r # <<"VISIBLE", p>>, r # <<"UN_VISIBLE", p>>, r # <<"PROCESS_TERMINATED", p>>
      PROVE  FlagAfter(t, kn, fl, Len(t), p) <=> FlagAfter(rs, kn, fl, Len(rs), p)
  <2>1. NoneIn(PlacesOf(t, <<"VISIBLE", p>>), Len(rs) + 1, Len(t))
    BY <1>1, <1>3
  <2>2. NoneIn(PlacesOf(t, <<"UN_VISIBLE", p>>), Len(rs) + 1, Len(t))
    BY <1>1, <1>3
  <2>3. NoneIn(PlacesOf(t, <<"PROCESS_TERMINATED", p>>), Len(rs) + 1, Len(t))
    BY <1>1, <1>3
  <2>4. NoneIn(Unflags(t, p), Len(rs) + 1, Len(t))
    BY <2>2, <2>3 DEF NoneIn, Unflags
  <2> QED BY <1>1, <2>1, <2>4, FlagStays
<1> QED BY <1>2, <1>3

\* A process that starts is known; one whose death is reported is not.
LEMMA LifeRequest ==
  ASSUME NEW R, NEW rs \in Seq(R), NEW r \in R, NEW t, t = Append(rs, r), NEW kn, NEW p
  PROVE  /\ r = <<"CREATE_PROCESS", p>> => KnownAfter(t, kn, Len(t), p)
         /\ r = <<"PROCESS_TERMINATED", p>> => ~KnownAfter(t, kn, Len(t), p)
<1>0. /\ t \in Seq(R) /\ Len(t) = Len(rs) + 1
      /\ \A x : x # r => NoneIn(PlacesOf(t, x), Len(rs) + 1, Len(t))
  BY OneMoreRequest
<1>l. t[Len(rs) + 1] = r
  OBVIOUS
<1> PICK n : n = Len(rs)
  OBVIOUS
<1>1. /\ t \in Seq(R) /\ Len(t) = n + 1 /\ t[Len(t)] = r /\ n \in Nat
      /\ \A x : x # r => NoneIn(PlacesOf(t, x), n + 1, Len(t))
  BY <1>0, <1>l
<1>2. n + 1 \in n + 1 .. n + 1 /\ n + 1 \in Nat /\ n =< n + 1
  BY <1>1
<1>3. n + 1 \in PlacesOf(t, r)
  BY <1>1 DEF PlacesOf
<1>4. ASSUME r = <<"CREATE_PROCESS", p>> PROVE KnownAfter(t, kn, Len(t), p)
  <2>1. NoneIn(PlacesOf(t, <<"PROCESS_TERMINATED", p>>), n + 1, n + 1)
    <3>1. <<"PROCESS_TERMINATED", p>> # r
      BY <1>4
    <3> QED BY <1>1, <3>1
  <2>2. n + 1 \in Creates(t, kn, p)
    BY <1>3, <1>4 DEF Creates
  <2>3. \A j \in n + 1 .. n + 1 : j \notin PlacesOf(t, <<"PROCESS_TERMINATED", p>>)
    BY <2>1 DEF NoneIn
  <2> QED BY <1>1, <1>2, <2>2, <2>3, SetNow DEF KnownAfter
<1>5. ASSUME r = <<"PROCESS_TERMINATED", p>> PROVE ~KnownAfter(t, kn, Len(t), p)
  <2>1. NoneIn(PlacesOf(t, <<"CREATE_PROCESS", p>>), n + 1, n + 1)
    <3>1. <<"CREATE_PROCESS", p>> # r
      BY <1>5
    <3> QED BY <1>1, <3>1
  <2>2. \A i \in n + 1 .. n + 1 : i \notin Creates(t, kn, p)
    BY <1>1, <2>1 DEF Creates, NoneIn
  <2>3. n + 1 \in PlacesOf(t, <<"PROCESS_TERMINATED", p>>)
    BY <1>3, <1>5
  <2> QED BY <1>1, <1>2, <2>2, <2>3, SetNoMore DEF KnownAfter
<1> QED BY <1>4, <1>5

\* A process starts.
LEMMA CreatedOK ==
  ASSUME WindowAssumption, WindowInv, NEW p \in Pid, OnProcessCreated(p)
  PROVE  WindowInv'
<1>1. WindowTyped /\ KnownLives /\ DeadShowNone /\ ShowsThose /\ EntryFlagged
  BY DEF WindowInv
<1>2. /\ life[p] = "gone" /\ life' = [life EXCEPT ![p] = "created"]
      /\ requests' = Append(requests, <<"CREATE_PROCESS", p>>)
      /\ env' = env /\ shown' = shown /\ updates' = updates /\ map' = map
      /\ known' = known /\ flagged' = flagged
  BY DEF OnProcessCreated
<1>3. /\ requests \in Seq(Requests) /\ flagged \subseteq known
      /\ life \in [Pid -> {"gone", "created", "died", "reported"}]
  BY <1>1 DEF WindowTyped
<1>4. <<"CREATE_PROCESS", p>> \in Requests
  BY DEF Requests
<1>5. life'[p] = "created" /\ \A q \in Pid : q # p => life'[q] = life[q]
  BY <1>2, <1>3
<1>6. ASSUME NEW q \in Pid
      PROVE  FlagAfter(requests', known, flagged, Len(requests'), q) <=> WillFlag(q)
  <2>1. /\ <<"CREATE_PROCESS", p>> # <<"VISIBLE", q>> /\ <<"CREATE_PROCESS", p>> # <<"UN_VISIBLE", q>>
        /\ <<"CREATE_PROCESS", p>> # <<"PROCESS_TERMINATED", q>>
    OBVIOUS
  <2> QED BY <1>2, <1>3, <1>4, <2>1, OtherRequest DEF WillFlag
<1>7. WindowTyped'
  <2>1. requests' \in Seq(Requests)
    BY <1>2, <1>3, <1>4
  <2>2. life' \in [Pid -> {"gone", "created", "died", "reported"}]
    BY <1>2, <1>3
  <2>3. /\ env' \in Environments /\ shown' \subseteq Pid \X Window /\ updates' \in Seq(Updates)
        /\ DOMAIN map' \subseteq Pid /\ known' \subseteq Pid /\ flagged' \subseteq known'
    BY <1>1, <1>2 DEF WindowTyped
  <2>4. \A q \in DOMAIN map' : /\ map'[q].windows \subseteq Window
                               /\ map'[q].windows # {} /\ map'[q].visible = TRUE
    BY <1>1, <1>2 DEF WindowTyped
  <2> QED BY <2>1, <2>2, <2>3, <2>4 DEF WindowTyped
<1>8. KnownLives'
  <2>1. ASSUME NEW q \in Pid
        PROVE  KnownAfter(requests', known, Len(requests'), q) <=> life'[q] \in {"created", "died"}
    <3>1. CASE q = p
      <4>1. KnownAfter(requests', known, Len(requests'), p)
        BY <1>2, <1>3, <1>4, LifeRequest
      <4> QED BY <1>5, <3>1, <4>1
    <3>2. CASE q # p
      <4>1. /\ <<"CREATE_PROCESS", p>> # <<"CREATE_PROCESS", q>>
            /\ <<"CREATE_PROCESS", p>> # <<"PROCESS_TERMINATED", q>>
        BY <3>2
      <4>2. KnownAfter(requests', known, Len(requests'), q) <=> KnownAfter(requests, known, Len(requests), q)
        BY <1>2, <1>3, <1>4, <4>1, OtherRequest
      <4> QED BY <1>1, <1>5, <3>2, <4>2 DEF KnownLives
    <3> QED BY <3>1, <3>2
  <2> QED BY <1>2, <2>1 DEF KnownLives
<1>9. DeadShowNone'
  BY <1>1, <1>2, <1>5 DEF DeadShowNone, Alive
<1>10. \A q \in Pid : Known(q)' = Known(q)
  BY <1>2 DEF Known
<1>11. ShowsThose'
  BY <1>1, <1>2, <1>10 DEF ShowsThose
<1>12. \A q \in Pid : Cleared(q)' <=> Cleared(q)
  BY <1>2, <1>10 DEF Cleared
<1>13. EntryFlagged'
  <2>1. SUFFICES ASSUME env.reportsClosed, NEW q \in Pid, life'[q] = "created"
        PROVE  /\ WillFlag(q) => q \in DOMAIN map
               /\ q \in DOMAIN map => WillFlag(q) \/ Cleared(q)
    BY <1>2, <1>6, <1>12 DEF EntryFlagged, Alive, WillFlag
  <2>2. CASE q # p
    BY <1>1, <1>5, <2>1, <2>2 DEF EntryFlagged, Alive
  <2>3. CASE q = p
    <3>1. ~WillFlag(p)
      <4>1. ~KnownAfter(requests, known, Len(requests), p)
        BY <1>1, <1>2 DEF KnownLives
      <4> QED BY <1>3, <4>1, FlagsKnown DEF WillFlag
    <3>2. ASSUME p \in DOMAIN map PROVE Cleared(p)
      <4>1. \A w \in Window : ~ShownAfter(updates, Known(p), Len(updates), p, w)
        BY <1>1, <1>2, <2>1 DEF ShowsThose, DeadShowNone, Alive
      <4>2. PICK w \in Window : w \in Known(p)
        BY <1>1, <3>2 DEF WindowTyped, Known
      <4>3. Len(updates) # 0
        <5>1. ShownAfter(updates, Known(p), 0, p, w)
          BY <4>2 DEF ShownAfter
        <5> QED BY <4>1, <5>1
      <4>4. Len(updates) \in Nat
        BY <1>1 DEF WindowTyped
      <4>5. Len(updates) \in 1 .. Len(updates)
        BY <4>3, <4>4
      <4> QED BY <4>1, <4>5 DEF Cleared
    <3> QED BY <2>3, <3>1, <3>2
  <2> QED BY <2>2, <2>3
<1> QED BY <1>7, <1>8, <1>9, <1>11, <1>13 DEF WindowInv

\* Nothing of the queues, the map or the processes changes.
LEMMA QuietOK ==
  ASSUME WindowInv, env' = env, life' = life, shown' = shown, updates' = updates, map' = map,
         requests' = requests, known' = known, flagged' = flagged
  PROVE  WindowInv'
<1>1. WindowTyped' /\ KnownLives' /\ DeadShowNone'
  BY DEF WindowInv, WindowTyped, KnownLives, DeadShowNone, Alive
<1>2. \A q \in Pid : Known(q)' = Known(q)
  BY DEF Known
<1>3. ShowsThose'
  BY <1>2 DEF WindowInv, ShowsThose
<1>4. \A q \in Pid : (Cleared(q)' <=> Cleared(q)) /\ (WillFlag(q)' <=> WillFlag(q))
  BY <1>2 DEF Cleared, WillFlag
<1>5. EntryFlagged'
  BY <1>4 DEF WindowInv, EntryFlagged, Alive
<1> QED BY <1>1, <1>3, <1>5 DEF WindowInv

\* Entries of processes that are not alive are forgotten.
LEMMA ForgetOK ==
  ASSUME WindowInv, NEW gone, \A q \in gone : q \in Pid => ~Alive(q), map' = Forget(map, gone),
         env' = env, shown' = shown, updates' = updates,
         requests' = requests, known' = known, flagged' = flagged,
         life' \in [Pid -> {"gone", "created", "died", "reported"}],
         \A q \in Pid : /\ life'[q] = "created" <=> life[q] = "created"
                        /\ life'[q] = "died" <=> life[q] = "died"
  PROVE  WindowInv'
<1>1. WindowTyped /\ KnownLives /\ DeadShowNone /\ ShowsThose /\ EntryFlagged
  BY DEF WindowInv
<1>2. DOMAIN map' = DOMAIN map \ gone /\ \A q \in DOMAIN map' : map'[q] = map[q]
  BY DEF Forget
<1>3. WindowTyped'
  <2>1. \A q \in DOMAIN map' : /\ map'[q].windows \subseteq Window
                               /\ map'[q].windows # {} /\ map'[q].visible = TRUE
    BY <1>1, <1>2 DEF WindowTyped
  <2>2. /\ env' \in Environments /\ shown' \subseteq Pid \X Window /\ updates' \in Seq(Updates)
        /\ requests' \in Seq(Requests)
        /\ DOMAIN map' \subseteq Pid /\ known' \subseteq Pid /\ flagged' \subseteq known'
    BY <1>1, <1>2 DEF WindowTyped
  <2> QED BY <2>1, <2>2 DEF WindowTyped
<1>4. KnownLives'
  BY <1>1 DEF KnownLives
<1>5. DeadShowNone'
  BY <1>1 DEF DeadShowNone, Alive
<1>6. \A q \in Pid \ gone : Known(q)' = Known(q) /\ (q \in DOMAIN map' <=> q \in DOMAIN map)
  BY <1>2 DEF Known
<1>7. \A q \in Pid \cap gone : Known(q)' = {}
  BY <1>2 DEF Known
<1>8. ShowsThose'
  <2>1. SUFFICES ASSUME env.reportsClosed, NEW q \in Pid, NEW w \in Window
        PROVE  ShownAfter(updates, Known(q)', Len(updates), q, w) <=> <<q, w>> \in shown
    BY DEF ShowsThose
  <2>2. ShownAfter(updates, Known(q), Len(updates), q, w) <=> <<q, w>> \in shown
    BY <1>1, <2>1 DEF ShowsThose
  <2>3. CASE q \notin gone
    BY <1>6, <2>2, <2>3
  <2>4. CASE q \in gone
    <3>1. <<q, w>> \notin shown
      BY <1>1, <2>4 DEF DeadShowNone
    <3>2. Known(q)' \subseteq Known(q)
      BY <1>7, <2>4
    <3>3. ~ShownAfter(updates, Known(q)', Len(updates), q, w)
      <4>1. PICK less : less = Known(q)'
        OBVIOUS
      <4>2. PICK more : more = Known(q)
        OBVIOUS
      <4>3. less \subseteq more
        BY <3>2, <4>1, <4>2
      <4>4. ShownAfter(updates, less, Len(updates), q, w) => ShownAfter(updates, more, Len(updates), q, w)
        BY <4>3, ShownHeld
      <4> QED BY <2>2, <3>1, <4>1, <4>2, <4>4
    <3> QED BY <3>1, <3>3
  <2> QED BY <2>3, <2>4
<1>9. \A q \in Pid : Alive(q)' => Alive(q) /\ q \notin gone
  BY DEF Alive
<1>10. EntryFlagged'
  <2>1. SUFFICES ASSUME env.reportsClosed, NEW q \in Pid, Alive(q)'
        PROVE  /\ WillFlag(q)' => q \in DOMAIN map'
               /\ q \in DOMAIN map' => WillFlag(q)' \/ Cleared(q)'
    BY DEF EntryFlagged
  <2>2. Alive(q) /\ q \in Pid \ gone
    BY <1>9, <2>1
  <2>3. (q \in DOMAIN map' <=> q \in DOMAIN map) /\ Known(q)' = Known(q)
    BY <1>6, <2>2
  <2>4. (WillFlag(q)' <=> WillFlag(q)) /\ (Cleared(q)' <=> Cleared(q))
    BY <2>3 DEF WillFlag, Cleared
  <2> QED BY <1>1, <2>1, <2>2, <2>3, <2>4 DEF EntryFlagged
<1> QED BY <1>3, <1>4, <1>5, <1>8, <1>10 DEF WindowInv

\* OnProcessDied forgets the process.
LEMMA DiedOK ==
  ASSUME WindowInv, NEW p \in Pid, OnProcessDied(p)
  PROVE  WindowInv'
<1>1. /\ life[p] = "reported" /\ life' = [life EXCEPT ![p] = "gone"] /\ map' = Forget(map, {p})
      /\ env' = env /\ shown' = shown /\ updates' = updates
      /\ requests' = requests /\ known' = known /\ flagged' = flagged
  BY DEF OnProcessDied
<1>2. life \in [Pid -> {"gone", "created", "died", "reported"}]
  BY DEF WindowInv, WindowTyped
<1>3. /\ life' \in [Pid -> {"gone", "created", "died", "reported"}]
      /\ \A q \in Pid : /\ life'[q] = "created" <=> life[q] = "created"
                        /\ life'[q] = "died" <=> life[q] = "died"
  BY <1>1, <1>2
<1>4. \A q \in {p} : q \in Pid => ~Alive(q)
  BY <1>1 DEF Alive
<1> QED BY <1>1, <1>3, <1>4, ForgetOK

\* A clean-up forgets the entries of dead processes, or does nothing.
LEMMA CleanUpOK ==
  ASSUME WindowInv, CheckMapSizeByTime \/ CheckMapSizeBySize
  PROVE  WindowInv'
<1>1. /\ env' = env /\ life' = life /\ shown' = shown /\ updates' = updates
      /\ requests' = requests /\ known' = known /\ flagged' = flagged
      /\ map' = Forget(map, DeadEntries) \/ map' = map
  BY DEF CheckMapSizeByTime, CheckMapSizeBySize
<1>2. CASE map' = map
  BY <1>1, <1>2, QuietOK
<1>3. CASE map' = Forget(map, DeadEntries)
  <2>1. \A q \in DeadEntries : q \in Pid => ~Alive(q)
    BY DEF DeadEntries, Alive
  <2>2. life' \in [Pid -> {"gone", "created", "died", "reported"}]
    BY <1>1 DEF WindowInv, WindowTyped
  <2>3. \A q \in Pid : /\ life'[q] = "created" <=> life[q] = "created"
                       /\ life'[q] = "died" <=> life[q] = "died"
    BY <1>1
  <2> QED BY <1>1, <1>3, <2>1, <2>2, <2>3, ForgetOK
<1> QED BY <1>1, <1>2, <1>3

\* The death of a process is reported to the priority manager.
LEMMA ReportOK ==
  ASSUME WindowInv, NEW p \in Pid, ReportDeath(p)
  PROVE  WindowInv'
<1>1. WindowTyped /\ KnownLives /\ DeadShowNone /\ ShowsThose /\ EntryFlagged
  BY DEF WindowInv
<1>2. /\ life[p] = "died" /\ life' = [life EXCEPT ![p] = "reported"]
      /\ requests' = Append(requests, <<"PROCESS_TERMINATED", p>>)
      /\ env' = env /\ shown' = shown /\ updates' = updates /\ map' = map
      /\ known' = known /\ flagged' = flagged
  BY DEF ReportDeath
<1>3. /\ requests \in Seq(Requests) /\ flagged \subseteq known
      /\ life \in [Pid -> {"gone", "created", "died", "reported"}]
  BY <1>1 DEF WindowTyped
<1>4. <<"PROCESS_TERMINATED", p>> \in Requests
  BY DEF Requests
<1>5. /\ life'[p] = "reported" /\ \A q \in Pid : q # p => life'[q] = life[q]
      /\ life' \in [Pid -> {"gone", "created", "died", "reported"}]
  BY <1>2, <1>3
<1>6. WindowTyped'
  <2>1. requests' \in Seq(Requests)
    BY <1>2, <1>3, <1>4
  <2>2. /\ env' \in Environments /\ shown' \subseteq Pid \X Window /\ updates' \in Seq(Updates)
        /\ DOMAIN map' \subseteq Pid /\ known' \subseteq Pid /\ flagged' \subseteq known'
    BY <1>1, <1>2 DEF WindowTyped
  <2>3. \A q \in DOMAIN map' : /\ map'[q].windows \subseteq Window
                               /\ map'[q].windows # {} /\ map'[q].visible = TRUE
    BY <1>1, <1>2 DEF WindowTyped
  <2> QED BY <1>5, <2>1, <2>2, <2>3 DEF WindowTyped
<1>7. KnownLives'
  <2>1. ASSUME NEW q \in Pid
        PROVE  KnownAfter(requests', known, Len(requests'), q) <=> life'[q] \in {"created", "died"}
    <3>1. CASE q = p
      <4>1. ~KnownAfter(requests', known, Len(requests'), p)
        BY <1>2, <1>3, <1>4, LifeRequest
      <4> QED BY <1>5, <3>1, <4>1
    <3>2. CASE q # p
      <4>1. /\ <<"PROCESS_TERMINATED", p>> # <<"CREATE_PROCESS", q>>
            /\ <<"PROCESS_TERMINATED", p>> # <<"PROCESS_TERMINATED", q>>
        BY <3>2
      <4>2. KnownAfter(requests', known, Len(requests'), q) <=> KnownAfter(requests, known, Len(requests), q)
        BY <1>2, <1>3, <1>4, <4>1, OtherRequest
      <4> QED BY <1>1, <1>5, <3>2, <4>2 DEF KnownLives
    <3> QED BY <3>1, <3>2
  <2> QED BY <1>2, <2>1 DEF KnownLives
<1>8. DeadShowNone'
  BY <1>1, <1>2, <1>5 DEF DeadShowNone, Alive
<1>9. \A q \in Pid : Known(q)' = Known(q)
  BY <1>2 DEF Known
<1>10. ShowsThose'
  BY <1>1, <1>2, <1>9 DEF ShowsThose
<1>11. EntryFlagged'
  <2>1. SUFFICES ASSUME env.reportsClosed, NEW q \in Pid, life'[q] = "created"
        PROVE  /\ WillFlag(q)' => q \in DOMAIN map
               /\ q \in DOMAIN map => WillFlag(q)' \/ Cleared(q)'
    BY <1>2 DEF EntryFlagged, Alive
  <2>2. q # p /\ Alive(q)
    BY <1>5, <2>1 DEF Alive
  <2>3. WillFlag(q)' <=> WillFlag(q)
    <3>1. /\ <<"PROCESS_TERMINATED", p>> # <<"VISIBLE", q>>
          /\ <<"PROCESS_TERMINATED", p>> # <<"UN_VISIBLE", q>>
          /\ <<"PROCESS_TERMINATED", p>> # <<"PROCESS_TERMINATED", q>>
      BY <2>2
    <3>2. FlagAfter(requests', known, flagged, Len(requests'), q)
            <=> FlagAfter(requests, known, flagged, Len(requests), q)
      BY <1>2, <1>3, <1>4, <3>1, OtherRequest
    <3> QED BY <1>2, <3>2 DEF WillFlag
  <2>4. Cleared(q)' <=> Cleared(q)
    BY <1>2, <1>9 DEF Cleared
  <2> QED BY <1>1, <2>1, <2>2, <2>3, <2>4 DEF EntryFlagged
<1> QED BY <1>6, <1>7, <1>8, <1>10, <1>11 DEF WindowInv

\* What is shown changes, and an update that says so is sent (or, if closed windows
\* are not reported, perhaps not).
Sends(u) ==
  /\ updates' = Append(updates, u)
  /\ \A q \in Pid : \A w \in Window :
       <<q, w>> \in shown' <=> <<q, w>> \in u.on \/ (<<q, w>> \in shown /\ <<q, w>> \notin u.off)

\* If an update says what changed on the screen, the observer will show it too.
LEMMA SentOK ==
  ASSUME WindowInv, NEW u \in Updates,
         Sends(u) \/ (updates' = updates /\ (env.reportsClosed => shown' = shown)),
         map' = map, env' = env, requests' = requests, known' = known, flagged' = flagged,
         shown' \subseteq Pid \X Window,
         life' \in [Pid -> {"gone", "created", "died", "reported"}],
         \A q \in Pid : life'[q] \in {"created", "died"} <=> life[q] \in {"created", "died"},
         \A q \in Pid : life'[q] = "created" => life[q] = "created",
         DeadShowNone'
  PROVE  WindowInv'
<1>1. WindowTyped /\ KnownLives /\ DeadShowNone /\ ShowsThose /\ EntryFlagged
  BY DEF WindowInv
<1>2. updates \in Seq(Updates) /\ Len(updates) \in Nat
  BY <1>1 DEF WindowTyped
<1>3. WindowTyped'
  <2>1. updates' \in Seq(Updates)
    BY <1>2 DEF Sends
  <2>2. \A q \in DOMAIN map' : /\ map'[q].windows \subseteq Window
                               /\ map'[q].windows # {} /\ map'[q].visible = TRUE
    BY <1>1 DEF WindowTyped
  <2>3. /\ env' \in Environments /\ requests' \in Seq(Requests)
        /\ DOMAIN map' \subseteq Pid /\ known' \subseteq Pid /\ flagged' \subseteq known'
    BY <1>1 DEF WindowTyped
  <2> QED BY <2>1, <2>2, <2>3 DEF WindowTyped
<1>4. KnownLives'
  BY <1>1 DEF KnownLives
<1>5. \A q \in Pid : Known(q)' = Known(q)
  BY DEF Known
<1>6. ASSUME Sends(u), NEW q \in Pid, NEW w \in Window
      PROVE  /\ Len(updates') = Len(updates) + 1
             /\ \A k \in 0 .. Len(updates) :
                  ShownAfter(updates', Known(q), k, q, w) <=> ShownAfter(updates, Known(q), k, q, w)
             /\ ShownAfter(updates', Known(q), Len(updates) + 1, q, w) <=>
                  \/ <<q, w>> \in u.on
                  \/ ShownAfter(updates, Known(q), Len(updates), q, w) /\ <<q, w>> \notin u.off
  <2>1. updates' = Append(updates, u)
    BY <1>6 DEF Sends
  <2>2. Len(updates') = Len(updates) + 1
    BY <1>2, <2>1
  <2>3. PICK h : h = Known(q)
    OBVIOUS
  <2>4. /\ \A k \in 0 .. Len(updates) :
             ShownAfter(updates', h, k, q, w) <=> ShownAfter(updates, h, k, q, w)
        /\ ShownAfter(updates', h, Len(updates) + 1, q, w) <=>
             \/ <<q, w>> \in u.on
             \/ ShownAfter(updates, h, Len(updates), q, w) /\ <<q, w>> \notin u.off
    BY <1>2, <2>1, ShownOneMore
  <2> QED BY <2>2, <2>3, <2>4
<1>7. ShowsThose'
  <2>1. SUFFICES ASSUME env.reportsClosed, NEW q \in Pid, NEW w \in Window
        PROVE  ShownAfter(updates', Known(q), Len(updates'), q, w) <=> <<q, w>> \in shown'
    BY <1>5 DEF ShowsThose
  <2>2. ShownAfter(updates, Known(q), Len(updates), q, w) <=> <<q, w>> \in shown
    BY <1>1, <2>1 DEF ShowsThose
  <2>3. CASE Sends(u)
    <3>1. /\ Len(updates') = Len(updates) + 1
          /\ ShownAfter(updates', Known(q), Len(updates) + 1, q, w) <=>
               \/ <<q, w>> \in u.on
               \/ ShownAfter(updates, Known(q), Len(updates), q, w) /\ <<q, w>> \notin u.off
      BY <1>6, <2>3
    <3>2. <<q, w>> \in shown' <=> <<q, w>> \in u.on \/ (<<q, w>> \in shown /\ <<q, w>> \notin u.off)
      BY <2>3 DEF Sends
    <3> QED BY <2>2, <3>1, <3>2
  <2>4. CASE updates' = updates /\ shown' = shown
    BY <2>2, <2>4
  <2> QED BY <2>1, <2>3, <2>4
<1>8. ASSUME NEW q \in Pid, Cleared(q) PROVE Cleared(q)'
  <2>1. PICK k \in 1 .. Len(updates) : \A w \in Window : ~ShownAfter(updates, Known(q), k, q, w)
    BY <1>8 DEF Cleared
  <2>2. CASE Sends(u)
    <3>1. Len(updates') = Len(updates) + 1
      BY <1>2, <2>2 DEF Sends
    <3>2. k \in 0 .. Len(updates) /\ k \in 1 .. Len(updates')
      BY <1>2, <3>1
    <3>3. \A w \in Window : ~ShownAfter(updates', Known(q), k, q, w)
      BY <1>6, <2>1, <2>2, <3>2
    <3>4. \A w \in Window : ~ShownAfter(updates', Known(q)', k, q, w)
      BY <1>5, <3>3
    <3> QED BY <3>2, <3>4 DEF Cleared
  <2>3. CASE updates' = updates
    <3>1. \A w \in Window : ~ShownAfter(updates', Known(q)', k, q, w)
      BY <1>5, <2>1, <2>3
    <3> QED BY <2>3, <3>1 DEF Cleared
  <2> QED BY <2>2, <2>3
<1>9. EntryFlagged'
  <2>1. SUFFICES ASSUME env.reportsClosed, NEW q \in Pid, Alive(q)'
        PROVE  /\ WillFlag(q)' => q \in DOMAIN map
               /\ q \in DOMAIN map => WillFlag(q)' \/ Cleared(q)'
    BY DEF EntryFlagged
  <2>2. Alive(q)
    BY <2>1 DEF Alive
  <2>3. WillFlag(q)' <=> WillFlag(q)
    BY DEF WillFlag
  <2> QED BY <1>1, <1>8, <2>1, <2>2, <2>3 DEF EntryFlagged
<1> QED BY <1>3, <1>4, <1>7, <1>9 DEF WindowInv

\* Windows appear and disappear.
LEMMA ChangeOK ==
  ASSUME WindowInv, NEW changed, changed \subseteq Pid \X Window, ChangeWindows(changed)
  PROVE  WindowInv'
<1>1. WindowTyped /\ DeadShowNone
  BY DEF WindowInv
<1>2. /\ \A c \in changed : Alive(c[1])
      /\ shown' = (shown \ changed) \cup (changed \ shown)
      /\ updates' = Append(updates, [on |-> changed \ shown, off |-> changed \cap shown])
      /\ map' = map /\ env' = env /\ life' = life
      /\ requests' = requests /\ known' = known /\ flagged' = flagged
  BY DEF ChangeWindows
<1>3. PICK u \in Updates : u = [on |-> changed \ shown, off |-> changed \cap shown]
  BY DEF Updates
<1>4. Sends(u)
  <2>1. updates' = Append(updates, u)
    BY <1>2, <1>3
  <2>2. u.on = changed \ shown /\ u.off = changed \cap shown
    BY <1>3
  <2>3. \A q \in Pid : \A w \in Window :
          <<q, w>> \in shown' <=> <<q, w>> \in u.on \/ (<<q, w>> \in shown /\ <<q, w>> \notin u.off)
    BY <1>2, <2>2
  <2> QED BY <2>1, <2>3 DEF Sends
<1>5. shown' \subseteq Pid \X Window /\ life' \in [Pid -> {"gone", "created", "died", "reported"}]
  BY <1>1, <1>2 DEF WindowTyped
<1>6. DeadShowNone'
  <2>1. SUFFICES ASSUME NEW q \in Pid, NEW w \in Window, <<q, w>> \in shown' PROVE Alive(q)
    BY <1>2 DEF DeadShowNone, Alive
  <2>2. CASE <<q, w>> \in shown
    BY <1>1, <2>2 DEF DeadShowNone
  <2>3. CASE <<q, w>> \in changed
    <3>1. Alive(<<q, w>>[1])
      BY <1>2, <2>3
    <3> QED BY <3>1
  <2> QED BY <1>2, <2>1, <2>2, <2>3
<1> QED BY <1>2, <1>4, <1>5, <1>6, SentOK

\* A process dies with its windows.
LEMMA ProcessDiesOK ==
  ASSUME WindowInv, NEW p \in Pid, ProcessDies(p)
  PROVE  WindowInv'
<1>1. WindowTyped /\ DeadShowNone
  BY DEF WindowInv
<1>2. /\ life[p] = "created" /\ life' = [life EXCEPT ![p] = "died"]
      /\ shown' = shown \ WindowsOf(p)
      /\ updates' = IF WindowsOf(p) = {} \/ ~env.reportsClosed THEN updates
                    ELSE Append(updates, [on |-> {}, off |-> WindowsOf(p)])
      /\ map' = map /\ env' = env
      /\ requests' = requests /\ known' = known /\ flagged' = flagged
  BY DEF ProcessDies, Alive
<1>3. /\ shown' \subseteq Pid \X Window
      /\ life' \in [Pid -> {"gone", "created", "died", "reported"}]
      /\ life'[p] = "died" /\ \A q \in Pid : q # p => life'[q] = life[q]
  BY <1>1, <1>2 DEF WindowTyped
<1>4. PICK u \in Updates : u = [on |-> {}, off |-> WindowsOf(p)]
  BY <1>1 DEF Updates, WindowsOf, WindowTyped
<1>5. Sends(u) \/ (updates' = updates /\ (env.reportsClosed => shown' = shown))
  <2>1. CASE WindowsOf(p) = {} \/ ~env.reportsClosed
    BY <1>2, <2>1
  <2>2. CASE ~(WindowsOf(p) = {} \/ ~env.reportsClosed)
    <3>1. updates' = Append(updates, u)
      BY <1>2, <1>4, <2>2
    <3>2. u.on = {} /\ u.off = WindowsOf(p)
      BY <1>4
    <3>3. \A q \in Pid : \A w \in Window :
            <<q, w>> \in shown' <=> <<q, w>> \in u.on \/ (<<q, w>> \in shown /\ <<q, w>> \notin u.off)
      BY <1>2, <3>2
    <3> QED BY <3>1, <3>3 DEF Sends
  <2> QED BY <2>1, <2>2
<1>6. DeadShowNone'
  <2>1. SUFFICES ASSUME NEW q \in Pid, NEW w \in Window, <<q, w>> \in shown' PROVE life'[q] = "created"
    BY DEF DeadShowNone, Alive
  <2>2. <<q, w>> \in shown /\ <<q, w>> \notin WindowsOf(p)
    BY <1>2, <2>1
  <2>3. q # p
    BY <2>2 DEF WindowsOf
  <2> QED BY <1>1, <1>3, <2>2, <2>3 DEF DeadShowNone, Alive
<1>7. \A q \in Pid : /\ life'[q] \in {"created", "died"} <=> life[q] \in {"created", "died"}
                     /\ life'[q] = "created" => life[q] = "created"
  BY <1>2, <1>3
<1> QED BY <1>2, <1>3, <1>5, <1>6, <1>7, SentOK

-----------------------------------------------------------------------------
(* The observer applies an update.                                         *)

\* The windows of p the observer holds once it has applied update u.
Applied(u, p) == {w \in Window : <<p, w>> \in u.on \/ (w \in Known(p) /\ <<p, w>> \notin u.off)}

\* The entries after the update.
LEMMA ApplyIs ==
  ASSUME WindowTyped, NEW u \in Updates, NEW m, m = Apply(u)
  PROVE  /\ DOMAIN m \subseteq Pid
         /\ \A p \in Pid : p \notin DOMAIN m => p \notin DOMAIN map /\ Applied(u, p) = {}
         /\ \A p \in DOMAIN m : /\ m[p].windows = Applied(u, p)
                                /\ m[p].visible <=> p \in DOMAIN map
                                /\ [m[p] EXCEPT !.visible = TRUE].windows = Applied(u, p)
                                /\ [m[p] EXCEPT !.visible = TRUE].visible = TRUE
<1>1. DOMAIN m = DOMAIN map \cup {c[1] : c \in u.on}
  BY DEF Apply
<1>2. u.on \subseteq Pid \X Window /\ DOMAIN map \subseteq Pid
  BY DEF Updates, WindowTyped
<1>3. DOMAIN m \subseteq Pid
  BY <1>1, <1>2
<1>4. ASSUME NEW p \in Pid, p \notin DOMAIN m
      PROVE  p \notin DOMAIN map /\ Applied(u, p) = {}
  <2>1. p \notin DOMAIN map /\ Known(p) = {}
    BY <1>1, <1>4 DEF Known
  <2>2. \A w \in Window : <<p, w>> \notin u.on
    <3> SUFFICES ASSUME NEW w \in Window, <<p, w>> \in u.on PROVE FALSE
      OBVIOUS
    <3>1. <<p, w>>[1] \in DOMAIN m
      BY <1>1
    <3> QED BY <1>4, <3>1
  <2> QED BY <2>1, <2>2 DEF Applied
<1>5. ASSUME NEW p \in DOMAIN m
      PROVE  /\ m[p].windows = Applied(u, p)
             /\ m[p].visible <=> p \in DOMAIN map
             /\ [m[p] EXCEPT !.visible = TRUE].windows = Applied(u, p)
             /\ [m[p] EXCEPT !.visible = TRUE].visible = TRUE
  <2>1. m[p] = [ visible |-> p \in DOMAIN map /\ map[p].visible, windows |-> Applied(u, p) ]
    BY <1>1 DEF Apply, Applied
  <2>2. p \in DOMAIN map => map[p].visible = TRUE
    BY DEF WindowTyped
  <2>3. PICK W : W = Applied(u, p)
    OBVIOUS
  <2>4. PICK v : v = (p \in DOMAIN map /\ map[p].visible)
    OBVIOUS
  <2>5. m[p] = [visible |-> v, windows |-> W]
    BY <2>1, <2>3, <2>4
  <2>6. m[p].windows = W /\ m[p].visible = v
    BY <2>5
  <2>7. [m[p] EXCEPT !.visible = TRUE].windows = W /\ [m[p] EXCEPT !.visible = TRUE].visible = TRUE
    BY <2>5
  <2>8. v <=> p \in DOMAIN map
    BY <2>2, <2>4
  <2> QED BY <2>3, <2>6, <2>7, <2>8
<1> QED BY <1>3, <1>4, <1>5

\* A request of one kind about each process of a finite set.
LEMMA RequestsFinite ==
  ASSUME NEW S, IsFiniteSet(S), NEW reason
  PROVE  IsFiniteSet({<<reason, p>> : p \in S})
<1> DEFINE f == [p \in S |-> <<reason, p>>]
<1>1. f \in Surjection(S, {<<reason, p>> : p \in S})
  BY DEF Surjection
<1> HIDE DEF f
<1> QED BY <1>1, FS_Surjection

\* The requests an update posts, one at most for a process.
PostedFor(m) == {<<"VISIBLE", p>> : p \in Gained(m)} \cup {<<"UN_VISIBLE", p>> : p \in Lost(m)}

\* They can be put in order.
LEMMA PostedOnce ==
  ASSUME WindowAssumption, NEW m, DOMAIN m \subseteq Pid
  PROVE  OnePerPid(PostedFor(m)) /\ PostedFor(m) \subseteq Requests
<1>1. Gained(m) \subseteq Pid /\ Lost(m) \subseteq Pid /\ Gained(m) \cap Lost(m) = {}
  BY DEF Gained, Lost
<1>2. IsFiniteSet(PostedFor(m))
  <2>1. IsFiniteSet(Gained(m)) /\ IsFiniteSet(Lost(m))
    <3>1. IsFiniteSet(Pid)
      BY DEF WindowAssumption
    <3> QED BY <1>1, <3>1, FS_Subset
  <2> DEFINE G == {<<"VISIBLE", p>> : p \in Gained(m)}
             L == {<<"UN_VISIBLE", p>> : p \in Lost(m)}
  <2>2. IsFiniteSet(G)
    BY <2>1, RequestsFinite
  <2>3. IsFiniteSet(L)
    BY <2>1, RequestsFinite
  <2>4. IsFiniteSet(G \cup L)
    <3> HIDE DEF G, L
    <3> QED BY <2>2, <2>3, FS_Union
  <2> QED BY <2>4 DEF PostedFor
<1>3. \A x \in PostedFor(m) : \/ \E p \in Gained(m) : x = <<"VISIBLE", p>>
                              \/ \E p \in Lost(m) : x = <<"UN_VISIBLE", p>>
  BY DEF PostedFor
<1>4. PostedFor(m) \subseteq Requests
  BY <1>1, <1>3 DEF Requests
<1>5. \A x \in PostedFor(m) : x[2] \in Nat
  <2>1. Pid \subseteq Nat
    BY DEF WindowAssumption
  <2>2. \A x \in PostedFor(m) : x[2] \in Gained(m) \/ x[2] \in Lost(m)
    BY <1>3
  <2> QED BY <1>1, <2>1, <2>2
<1>6. ASSUME NEW x \in PostedFor(m), NEW y \in PostedFor(m), x[2] = y[2]
      PROVE  x = y
  <2>1. CASE \E p \in Gained(m) : x = <<"VISIBLE", p>>
    <3>1. PICK p \in Gained(m) : x = <<"VISIBLE", p>>
      BY <2>1
    <3>2. y[2] = p /\ p \notin Lost(m)
      BY <1>1, <1>6, <3>1
    <3>3. PICK r \in Gained(m) : y = <<"VISIBLE", r>>
      BY <1>3, <3>2
    <3> QED BY <3>1, <3>2, <3>3
  <2>2. CASE \E p \in Lost(m) : x = <<"UN_VISIBLE", p>>
    <3>1. PICK p \in Lost(m) : x = <<"UN_VISIBLE", p>>
      BY <2>2
    <3>2. y[2] = p /\ p \notin Gained(m)
      BY <1>1, <1>6, <3>1
    <3>3. PICK r \in Lost(m) : y = <<"UN_VISIBLE", r>>
      BY <1>3, <3>2
    <3> QED BY <3>1, <3>2, <3>3
  <2> QED BY <1>3, <2>1, <2>2
<1> QED BY <1>2, <1>4, <1>5, <1>6 DEF OnePerPid

\* The queue t is rs and then the requests in T, in some order.
Behind(t, rs, T) == \E q \in Seq(T) : t = rs \o q /\ \A r \in T : \E i \in 1 .. Len(q) : q[i] = r

\* What is posted comes after what waits.
LEMMA PostedBehind ==
  ASSUME NEW R, NEW rs \in Seq(R), NEW T, T \subseteq R, NEW t, Behind(t, rs, T)
  PROVE  /\ t \in Seq(R) /\ Continues(t, rs)
         /\ \A r \in T : \E i \in Len(rs) + 1 .. Len(t) : t[i] = r
         /\ \A x : x \notin T => NoneIn(PlacesOf(t, x), Len(rs) + 1, Len(t))
<1>0. PICK q \in Seq(T) : t = rs \o q /\ \A r \in T : \E i \in 1 .. Len(q) : q[i] = r
  BY DEF Behind
<1>1. q \in Seq(R) /\ Len(rs) \in Nat /\ Len(q) \in Nat
  OBVIOUS
<1>2. /\ t \in Seq(R) /\ Len(t) = Len(rs) + Len(q)
      /\ \A i \in 1 .. Len(rs) : t[i] = rs[i]
      /\ \A i \in 1 .. Len(q) : t[Len(rs) + i] = q[i]
  BY <1>0, <1>1
<1>3. Continues(t, rs)
  BY <1>1, <1>2 DEF Continues
<1>4. ASSUME NEW r \in T PROVE \E i \in Len(rs) + 1 .. Len(t) : t[i] = r
  <2>1. PICK i \in 1 .. Len(q) : q[i] = r
    BY <1>0
  <2>2. Len(rs) + i \in Len(rs) + 1 .. Len(t)
    BY <1>1, <1>2
  <2> QED BY <1>2, <2>1, <2>2
<1>5. ASSUME NEW x, x \notin T, NEW i \in Len(rs) + 1 .. Len(t) PROVE t[i] # x
  <2>1. i - Len(rs) \in 1 .. Len(q) /\ Len(rs) + (i - Len(rs)) = i
    BY <1>1, <1>2
  <2>2. t[i] = q[i - Len(rs)]
    <3>1. t[Len(rs) + (i - Len(rs))] = q[i - Len(rs)]
      BY <1>2, <2>1
    <3> QED BY <2>1, <3>1
  <2>3. q[i - Len(rs)] \in T
    BY <2>1
  <2> QED BY <1>5, <2>2, <2>3
<1>6. \A x : x \notin T => NoneIn(PlacesOf(t, x), Len(rs) + 1, Len(t))
  BY <1>5 DEF NoneIn, PlacesOf
<1> QED BY <1>2, <1>3, <1>4, <1>6

\* An update is applied, and the changes of visibility are posted.
LEMMA UpdateOK ==
  ASSUME WindowAssumption, WindowInv, UpdateWindowVisibilityPriorityInner
  PROVE  WindowInv'
<1>1. WindowTyped /\ KnownLives /\ DeadShowNone /\ ShowsThose /\ EntryFlagged
  BY DEF WindowInv
<1>2. PICK u : u = Head(updates)
  OBVIOUS
<1>3. PICK m : m = Apply(u)
  OBVIOUS
<1>4. /\ updates # <<>> /\ updates' = Tail(updates)
      /\ requests' = requests \o UpdatePriorityForVisible(m)
      /\ map' = [p \in Kept(m) |-> [m[p] EXCEPT !.visible = TRUE]]
      /\ env' = env /\ life' = life /\ shown' = shown /\ known' = known /\ flagged' = flagged
  BY <1>2, <1>3 DEF UpdateWindowVisibilityPriorityInner
<1>5. /\ requests \in Seq(Requests) /\ updates \in Seq(Updates) /\ flagged \subseteq known
      /\ life \in [Pid -> {"gone", "created", "died", "reported"}]
  BY <1>1 DEF WindowTyped
<1>6. u \in Updates /\ Len(updates) \in Nat /\ Len(updates) >= 1 /\ updates' \in Seq(Updates)
      /\ Len(updates') = Len(updates) - 1
  BY <1>2, <1>4, <1>5
<1>7. /\ DOMAIN m \subseteq Pid
      /\ \A p \in Pid : p \notin DOMAIN m => p \notin DOMAIN map /\ Applied(u, p) = {}
      /\ \A p \in DOMAIN m : /\ m[p].windows = Applied(u, p)
                             /\ m[p].visible <=> p \in DOMAIN map
                             /\ [m[p] EXCEPT !.visible = TRUE].windows = Applied(u, p)
                             /\ [m[p] EXCEPT !.visible = TRUE].visible = TRUE
  BY <1>1, <1>3, <1>6, ApplyIs
<1>8. \A p \in Pid : p \in Kept(m) <=> Applied(u, p) # {}
  BY <1>7 DEF Kept
<1>9. DOMAIN map' = Kept(m) /\ Kept(m) \subseteq Pid /\ Kept(m) \subseteq DOMAIN m
  BY <1>4, <1>7 DEF Kept
<1>10. \A p \in DOMAIN map' : map'[p].windows = Applied(u, p) /\ map'[p].visible = TRUE
  BY <1>4, <1>7, <1>9
<1>11. \A p \in Pid : Known(p)' = Applied(u, p)
  BY <1>8, <1>9, <1>10 DEF Known
<1>12. PICK T : T = PostedFor(m)
  OBVIOUS
<1>13. PICK q : q = UpdatePriorityForVisible(m)
  OBVIOUS
<1>14. OnePerPid(T) /\ T \subseteq Requests
  BY <1>7, <1>12, PostedOnce
<1>15. q \in Seq(T) /\ \A r \in T : \E i \in 1 .. Len(q) : q[i] = r
  <2>1. q = InPidOrder(T)
    BY <1>12, <1>13 DEF UpdatePriorityForVisible, PostedFor
  <2> QED BY <1>14, <2>1, OrderKeepsAll
<1>16. /\ requests' \in Seq(Requests) /\ Continues(requests', requests)
       /\ \A r \in T : \E i \in Len(requests) + 1 .. Len(requests') : requests'[i] = r
       /\ \A x : x \notin T => NoneIn(PlacesOf(requests', x), Len(requests) + 1, Len(requests'))
  <2>1. requests' = requests \o q
    BY <1>4, <1>13
  <2>2. Behind(requests', requests, T)
    BY <1>15, <2>1 DEF Behind
  <2> QED BY <1>5, <1>14, <2>2, PostedBehind
<1>17. ASSUME NEW p \in Pid
       PROVE  /\ <<"CREATE_PROCESS", p>> \notin T /\ <<"PROCESS_TERMINATED", p>> \notin T
              /\ <<"VISIBLE", p>> \in T <=> p \notin DOMAIN map /\ Applied(u, p) # {}
              /\ <<"UN_VISIBLE", p>> \in T <=> p \in DOMAIN map /\ Applied(u, p) = {}
  <2>1. <<"CREATE_PROCESS", p>> \notin T /\ <<"PROCESS_TERMINATED", p>> \notin T
    BY <1>12 DEF PostedFor
  <2>2. <<"VISIBLE", p>> \in T <=> p \in Gained(m)
    BY <1>12 DEF PostedFor
  <2>3. <<"UN_VISIBLE", p>> \in T <=> p \in Lost(m)
    BY <1>12 DEF PostedFor
  <2>4. p \in Gained(m) <=> p \notin DOMAIN map /\ Applied(u, p) # {}
    BY <1>7 DEF Gained
  <2>5. p \in Lost(m) <=> p \in DOMAIN map /\ Applied(u, p) = {}
    BY <1>7 DEF Lost
  <2> QED BY <2>1, <2>2, <2>3, <2>4, <2>5
<1>18. WindowTyped'
  <2>1. \A p \in DOMAIN map' : /\ map'[p].windows \subseteq Window
                               /\ map'[p].windows # {} /\ map'[p].visible = TRUE
    BY <1>8, <1>9, <1>10 DEF Applied
  <2>2. /\ env' \in Environments /\ shown' \subseteq Pid \X Window
        /\ known' \subseteq Pid /\ flagged' \subseteq known'
        /\ life' \in [Pid -> {"gone", "created", "died", "reported"}]
    BY <1>1, <1>4 DEF WindowTyped
  <2>3. DOMAIN map' \subseteq Pid
    BY <1>9
  <2> QED BY <1>6, <1>16, <2>1, <2>2, <2>3 DEF WindowTyped
<1>19. ASSUME NEW p \in Pid
       PROVE  /\ NoneIn(PlacesOf(requests', <<"CREATE_PROCESS", p>>), Len(requests) + 1, Len(requests'))
              /\ NoneIn(PlacesOf(requests', <<"PROCESS_TERMINATED", p>>), Len(requests) + 1, Len(requests'))
  BY <1>16, <1>17
<1>20. KnownLives'
  <2>1. ASSUME NEW p \in Pid
        PROVE  KnownAfter(requests', known, Len(requests'), p) <=> KnownAfter(requests, known, Len(requests), p)
    <3>1. \A k \in Len(requests) .. Len(requests') :
            KnownAfter(requests', known, k, p) <=> KnownAfter(requests, known, Len(requests), p)
      BY <1>5, <1>16, <1>19, KnownStays
    <3>2. Len(requests') \in Len(requests) .. Len(requests')
      BY <1>5, <1>16 DEF Continues
    <3> QED BY <3>1, <3>2
  <2> QED BY <1>1, <1>4, <2>1 DEF KnownLives
<1>21. DeadShowNone'
  BY <1>1, <1>4 DEF DeadShowNone, Alive
<1>22. ASSUME NEW p \in Pid, NEW w \in Window, NEW k \in 1 .. Len(updates)
       PROVE  ShownAfter(updates', Known(p)', k - 1, p, w) <=> ShownAfter(updates, Known(p), k, p, w)
  <2>1. PICK h : h = Known(p)
    OBVIOUS
  <2>2. PICK a : a = Known(p)'
    OBVIOUS
  <2>3. w \in a <=> \/ <<p, w>> \in Head(updates).on
                    \/ w \in h /\ <<p, w>> \notin Head(updates).off
    BY <1>2, <1>11, <2>1, <2>2 DEF Applied
  <2>4. ShownAfter(Tail(updates), a, k - 1, p, w) <=> ShownAfter(updates, h, k, p, w)
    BY <1>4, <1>5, <2>3, ShownOneLess
  <2> QED BY <1>4, <2>1, <2>2, <2>4
<1>23. ShowsThose'
  <2>1. SUFFICES ASSUME env.reportsClosed, NEW p \in Pid, NEW w \in Window
        PROVE  ShownAfter(updates', Known(p)', Len(updates'), p, w) <=> <<p, w>> \in shown
    BY <1>4 DEF ShowsThose
  <2>2. ShownAfter(updates, Known(p), Len(updates), p, w) <=> <<p, w>> \in shown
    BY <1>1, <2>1 DEF ShowsThose
  <2>3. Len(updates) \in 1 .. Len(updates)
    BY <1>6
  <2> QED BY <1>6, <1>22, <2>2, <2>3
<1>24. EntryFlagged'
  <2>1. SUFFICES ASSUME env.reportsClosed, NEW p \in Pid, Alive(p)
        PROVE  /\ WillFlag(p)' => p \in DOMAIN map'
               /\ p \in DOMAIN map' => WillFlag(p)' \/ Cleared(p)'
    BY <1>4 DEF EntryFlagged, Alive
  <2>2. (WillFlag(p) => p \in DOMAIN map) /\ (p \in DOMAIN map => WillFlag(p) \/ Cleared(p))
    BY <1>1, <2>1 DEF EntryFlagged
  <2>3. WillFlag(p)' <=> FlagAfter(requests', known, flagged, Len(requests'), p)
    BY <1>4 DEF WillFlag
  <2>4. p \in DOMAIN map' <=> Applied(u, p) # {}
    BY <1>8, <1>9
  <2>5. KnownAfter(requests, known, Len(requests), p)
    BY <1>1, <2>1 DEF KnownLives, Alive
  <2>6. ASSUME <<"UN_VISIBLE", p>> \notin T
        PROVE  NoneIn(Unflags(requests', p), Len(requests) + 1, Len(requests'))
    <3>1. NoneIn(PlacesOf(requests', <<"UN_VISIBLE", p>>), Len(requests) + 1, Len(requests'))
      BY <1>16, <2>6
    <3>2. NoneIn(PlacesOf(requests', <<"PROCESS_TERMINATED", p>>), Len(requests) + 1, Len(requests'))
      BY <1>19
    <3> QED BY <3>1, <3>2 DEF NoneIn, Unflags
  <2>7. ASSUME <<"VISIBLE", p>> \notin T
        PROVE  NoneIn(PlacesOf(requests', <<"VISIBLE", p>>), Len(requests) + 1, Len(requests'))
    BY <1>16, <2>7
  <2>8. CASE p \notin DOMAIN map /\ Applied(u, p) # {}
    <3>1. <<"VISIBLE", p>> \in T /\ <<"UN_VISIBLE", p>> \notin T
      BY <1>17, <2>8
    <3>2. PICK i \in Len(requests) + 1 .. Len(requests') : requests'[i] = <<"VISIBLE", p>>
      BY <1>16, <3>1
    <3>3. FlagAfter(requests', known, flagged, Len(requests'), p)
      BY <1>5, <1>16, <1>19, <2>5, <2>6, <3>1, <3>2, FlagNow
    <3> QED BY <2>3, <2>4, <2>8, <3>3
  <2>9. CASE p \in DOMAIN map /\ Applied(u, p) = {}
    <3>1. <<"UN_VISIBLE", p>> \in T /\ <<"VISIBLE", p>> \notin T
      BY <1>17, <2>9
    <3>2. PICK i \in Len(requests) + 1 .. Len(requests') : requests'[i] = <<"UN_VISIBLE", p>>
      BY <1>16, <3>1
    <3>3. ~FlagAfter(requests', known, flagged, Len(requests'), p)
      BY <1>5, <1>16, <2>7, <3>1, <3>2, FlagNoMore
    <3> QED BY <2>3, <2>4, <2>9, <3>3
  <2>10. CASE p \in DOMAIN map <=> Applied(u, p) # {}
    <3>1. <<"UN_VISIBLE", p>> \notin T /\ <<"VISIBLE", p>> \notin T
      BY <1>17, <2>10
    <3>2. FlagAfter(requests', known, flagged, Len(requests'), p)
            <=> FlagAfter(requests, known, flagged, Len(requests), p)
      BY <1>5, <1>16, <2>6, <2>7, <3>1, FlagStays
    <3>3. WillFlag(p)' <=> WillFlag(p)
      BY <2>3, <3>2 DEF WillFlag
    <3>4. ASSUME Cleared(p), Applied(u, p) # {} PROVE Cleared(p)'
      <4>1. PICK k \in 1 .. Len(updates) : \A w \in Window : ~ShownAfter(updates, Known(p), k, p, w)
        BY <3>4 DEF Cleared
      <4>2. \A w \in Window : ~ShownAfter(updates', Known(p)', k - 1, p, w)
        BY <1>22, <4>1
      <4>3. k # 1
        <5>1. PICK w \in Window : w \in Known(p)'
          BY <1>11, <3>4 DEF Applied
        <5>2. ShownAfter(updates', Known(p)', 0, p, w)
          BY <5>1 DEF ShownAfter
        <5> QED BY <4>2, <5>2
      <4>4. k - 1 \in 1 .. Len(updates')
        BY <1>6, <4>1, <4>3
      <4> QED BY <4>2, <4>4 DEF Cleared
    <3> QED BY <2>2, <2>4, <2>10, <3>3, <3>4
  <2> QED BY <2>8, <2>9, <2>10
<1> QED BY <1>18, <1>20, <1>21, <1>23, <1>24 DEF WindowInv

\* What a request does to the records of the priority manager.
LEMMA HandledIs ==
  ASSUME NEW r \in Requests, known \subseteq Pid, flagged \subseteq known,
         known' = CASE r[1] = "CREATE_PROCESS" -> known \cup {r[2]}
                    [] r[1] = "PROCESS_TERMINATED" -> known \ {r[2]}
                    [] OTHER -> known,
         flagged' = CASE r[1] = "VISIBLE" /\ r[2] \in known -> flagged \cup {r[2]}
                      [] r[1] \in {"UN_VISIBLE", "PROCESS_TERMINATED"} -> flagged \ {r[2]}
                      [] OTHER -> flagged
  PROVE  /\ known' \subseteq Pid /\ flagged' \subseteq known'
         /\ \A q \in Pid : q \in known' <=> \/ r = <<"CREATE_PROCESS", q>>
                                            \/ q \in known /\ r # <<"PROCESS_TERMINATED", q>>
         /\ \A q \in Pid : q \in flagged' <=> \/ r = <<"VISIBLE", q>> /\ q \in known
                                              \/ q \in flagged /\ r # <<"UN_VISIBLE", q>>
                                                               /\ r # <<"PROCESS_TERMINATED", q>>
<1>1. PICK reason \in {"CREATE_PROCESS", "PROCESS_TERMINATED", "VISIBLE", "UN_VISIBLE"}, p \in Pid :
        r = <<reason, p>>
  BY DEF Requests
<1>2. r[1] = reason /\ r[2] = p
  BY <1>1
<1>3. CASE reason = "CREATE_PROCESS"
  <2>1. known' = known \cup {p} /\ flagged' = flagged
    BY <1>2, <1>3
  <2> QED BY <1>1, <1>3, <2>1
<1>4. CASE reason = "PROCESS_TERMINATED"
  <2>1. known' = known \ {p} /\ flagged' = flagged \ {p}
    BY <1>2, <1>4
  <2> QED BY <1>1, <1>4, <2>1
<1>5. CASE reason = "VISIBLE"
  <2>1. known' = known
    BY <1>2, <1>5
  <2>2. CASE p \in known
    <3>1. flagged' = flagged \cup {p}
      BY <1>2, <1>5, <2>2
    <3> QED BY <1>1, <1>5, <2>1, <2>2, <3>1
  <2>3. CASE p \notin known
    <3>1. flagged' = flagged
      BY <1>2, <1>5, <2>3
    <3> QED BY <1>1, <1>5, <2>1, <2>3, <3>1
  <2> QED BY <2>2, <2>3
<1>6. CASE reason = "UN_VISIBLE"
  <2>1. known' = known /\ flagged' = flagged \ {p}
    BY <1>2, <1>6
  <2> QED BY <1>1, <1>6, <2>1
<1> QED BY <1>1, <1>3, <1>4, <1>5, <1>6

\* The priority manager handles a request.
LEMMA RequestOK ==
  ASSUME WindowInv, UpdateReclaimPriorityInner
  PROVE  WindowInv'
<1>1. WindowTyped /\ KnownLives /\ DeadShowNone /\ ShowsThose /\ EntryFlagged
  BY DEF WindowInv
<1>2. PICK r : r = Head(requests)
  OBVIOUS
<1>3. /\ requests # <<>> /\ requests' = Tail(requests)
      /\ env' = env /\ life' = life /\ shown' = shown /\ updates' = updates /\ map' = map
  BY DEF UpdateReclaimPriorityInner
<1>4. requests \in Seq(Requests) /\ known \subseteq Pid /\ flagged \subseteq known
  BY <1>1 DEF WindowTyped
<1>5. /\ r \in Requests /\ Len(requests) \in Nat /\ Len(requests) >= 1
      /\ requests' \in Seq(Requests) /\ Len(requests') = Len(requests) - 1
  BY <1>2, <1>3, <1>4
<1>6. /\ known' \subseteq Pid /\ flagged' \subseteq known'
      /\ \A q \in Pid : q \in known' <=> \/ r = <<"CREATE_PROCESS", q>>
                                         \/ q \in known /\ r # <<"PROCESS_TERMINATED", q>>
      /\ \A q \in Pid : q \in flagged' <=> \/ r = <<"VISIBLE", q>> /\ q \in known
                                           \/ q \in flagged /\ r # <<"UN_VISIBLE", q>>
                                                            /\ r # <<"PROCESS_TERMINATED", q>>
  <2>1. known' = CASE r[1] = "CREATE_PROCESS" -> known \cup {r[2]}
                   [] r[1] = "PROCESS_TERMINATED" -> known \ {r[2]}
                   [] OTHER -> known
    BY <1>2 DEF UpdateReclaimPriorityInner
  <2>2. flagged' = CASE r[1] = "VISIBLE" /\ r[2] \in known -> flagged \cup {r[2]}
                     [] r[1] \in {"UN_VISIBLE", "PROCESS_TERMINATED"} -> flagged \ {r[2]}
                     [] OTHER -> flagged
    BY <1>2 DEF UpdateReclaimPriorityInner
  <2> QED BY <1>4, <1>5, <2>1, <2>2, HandledIs
<1>7. ASSUME NEW q \in Pid
      PROVE  /\ KnownAfter(requests', known', Len(requests'), q) <=> KnownAfter(requests, known, Len(requests), q)
             /\ WillFlag(q)' <=> WillFlag(q)
  <2>1. PICK kn2 : kn2 = known'
    OBVIOUS
  <2>2. PICK fl2 : fl2 = flagged'
    OBVIOUS
  <2>3. q \in kn2 <=> \/ Head(requests) = <<"CREATE_PROCESS", q>>
                      \/ q \in known /\ Head(requests) # <<"PROCESS_TERMINATED", q>>
    BY <1>2, <1>6, <2>1
  <2>4. q \in fl2 <=> \/ Head(requests) = <<"VISIBLE", q>> /\ q \in known
                      \/ q \in flagged /\ Head(requests) # <<"UN_VISIBLE", q>>
                                       /\ Head(requests) # <<"PROCESS_TERMINATED", q>>
    BY <1>2, <1>6, <2>2
  <2>5. \A k \in 1 .. Len(requests) :
          /\ KnownAfter(Tail(requests), kn2, k - 1, q) <=> KnownAfter(requests, known, k, q)
          /\ FlagAfter(Tail(requests), kn2, fl2, k - 1, q) <=> FlagAfter(requests, known, flagged, k, q)
    BY <1>3, <1>4, <2>3, <2>4, RequestDone
  <2>6. Len(requests) \in 1 .. Len(requests)
    BY <1>5
  <2>7. /\ KnownAfter(requests', kn2, Len(requests'), q) <=> KnownAfter(requests, known, Len(requests), q)
        /\ FlagAfter(requests', kn2, fl2, Len(requests'), q)
             <=> FlagAfter(requests, known, flagged, Len(requests), q)
    BY <1>3, <1>5, <2>5, <2>6
  <2> QED BY <2>1, <2>2, <2>7 DEF WillFlag
<1>8. WindowTyped'
  <2>1. \A q \in DOMAIN map' : /\ map'[q].windows \subseteq Window
                               /\ map'[q].windows # {} /\ map'[q].visible = TRUE
    BY <1>1, <1>3 DEF WindowTyped
  <2>2. /\ env' \in Environments /\ shown' \subseteq Pid \X Window /\ updates' \in Seq(Updates)
        /\ DOMAIN map' \subseteq Pid /\ life' \in [Pid -> {"gone", "created", "died", "reported"}]
    BY <1>1, <1>3 DEF WindowTyped
  <2> QED BY <1>5, <1>6, <2>1, <2>2 DEF WindowTyped
<1>9. KnownLives'
  BY <1>1, <1>3, <1>7 DEF KnownLives
<1>10. DeadShowNone'
  BY <1>1, <1>3 DEF DeadShowNone, Alive
<1>11. \A q \in Pid : Known(q)' = Known(q)
  BY <1>3 DEF Known
<1>12. ShowsThose'
  BY <1>1, <1>3, <1>11 DEF ShowsThose
<1>13. EntryFlagged'
  <2>1. \A q \in Pid : Cleared(q)' <=> Cleared(q)
    BY <1>3, <1>11 DEF Cleared
  <2> QED BY <1>1, <1>3, <1>7, <2>1 DEF EntryFlagged, Alive
<1> QED BY <1>8, <1>9, <1>10, <1>12, <1>13 DEF WindowInv

-----------------------------------------------------------------------------
(* The theorem.                                                            *)

\* Every step keeps the invariant.
LEMMA WindowStep ==
  ASSUME WindowAssumption, WindowInv, [WindowNext]_windowVars
  PROVE  WindowInv'
<1>1. ASSUME NEW p \in Pid, OnProcessCreated(p) PROVE WindowInv'
  BY <1>1, CreatedOK
<1>2. ASSUME NEW p \in Pid, ProcessDies(p) PROVE WindowInv'
  BY <1>2, ProcessDiesOK
<1>3. ASSUME NEW p \in Pid, ReportDeath(p) PROVE WindowInv'
  BY <1>3, ReportOK
<1>4. ASSUME NEW p \in Pid, OnProcessDied(p) PROVE WindowInv'
  BY <1>4, DiedOK
<1>5. ASSUME NEW k \in 1 .. MaxInfos, NEW changed \in kSubset(k, Pid \X Window), ChangeWindows(changed)
      PROVE  WindowInv'
  <2>1. changed \subseteq Pid \X Window
    BY DEF kSubset
  <2> QED BY <1>5, <2>1, ChangeOK
<1>6. ASSUME UpdateWindowVisibilityPriorityInner PROVE WindowInv'
  BY <1>6, UpdateOK
<1>7. ASSUME CheckMapSizeByTime \/ CheckMapSizeBySize PROVE WindowInv'
  BY <1>7, CleanUpOK
<1>8. ASSUME UpdateReclaimPriorityInner PROVE WindowInv'
  BY <1>8, RequestOK
<1>9. ASSUME UNCHANGED windowVars PROVE WindowInv'
  <2>1. /\ env' = env /\ life' = life /\ shown' = shown /\ updates' = updates /\ map' = map
        /\ requests' = requests /\ known' = known /\ flagged' = flagged
    BY <1>9 DEF windowVars
  <2> QED BY <2>1, QuietOK
<1> QED BY <1>1, <1>2, <1>3, <1>4, <1>5, <1>6, <1>7, <1>8, <1>9 DEF WindowNext

\* The inductive invariant of the observer holds.
THEOREM WindowInvariance == WindowSpec => []WindowInv
<1>1. WindowInit => WindowInv
  BY WindowInitOK
<1>2. WindowInv /\ [WindowNext]_windowVars => WindowInv'
  BY WindowAssumption, WindowStep
<1> QED BY <1>1, <1>2, PTL DEF WindowSpec

\* With nothing waiting, what will be is what is.
LEMMA NothingWaits ==
  ASSUME WindowInv
  PROVE  VisibleAgrees
<1>1. WindowTyped /\ DeadShowNone /\ ShowsThose /\ EntryFlagged
  BY DEF WindowInv
<1> SUFFICES ASSUME env.reportsClosed, updates = <<>>, requests = <<>>, NEW p \in known, Alive(p)
             PROVE  p \in flagged <=> WindowsOf(p) # {}
  BY DEF VisibleAgrees
<1>2. p \in Pid /\ shown \subseteq Pid \X Window /\ Len(updates) = 0 /\ Len(requests) = 0
  BY <1>1 DEF WindowTyped
<1>3. WillFlag(p) <=> p \in flagged
  <2>1. 0 \in Flags(requests, known, flagged, p) <=> p \in flagged
    BY DEF Flags, PlacesOf
  <2>2. 0 .. 0 = {0} /\ 0 + 1 .. 0 = {}
    OBVIOUS
  <2> QED BY <1>2, <2>1, <2>2 DEF WillFlag, FlagAfter, SetAfter
<1>4. ~Cleared(p)
  BY <1>2 DEF Cleared
<1>5. p \in flagged <=> p \in DOMAIN map
  BY <1>1, <1>2, <1>3, <1>4 DEF EntryFlagged
<1>6. p \in DOMAIN map <=> Known(p) # {}
  BY <1>1 DEF WindowTyped, Known
<1>7. \A w \in Window : w \in Known(p) <=> <<p, w>> \in shown
  <2> TAKE w \in Window
  <2>1. ShownAfter(updates, Known(p), 0, p, w) <=> <<p, w>> \in shown
    BY <1>1, <1>2 DEF ShowsThose
  <2>2. ShownAfter(updates, Known(p), 0, p, w) <=> w \in Known(p)
    BY DEF ShownAfter
  <2> QED BY <2>1, <2>2
<1>8. Known(p) \subseteq Window
  BY <1>1 DEF WindowTyped, Known
<1>9. WindowsOf(p) # {} <=> \E w \in Window : <<p, w>> \in shown
  <2>1. ASSUME NEW c \in WindowsOf(p) PROVE \E w \in Window : <<p, w>> \in shown
    BY <1>2 DEF WindowsOf
  <2>2. ASSUME NEW w \in Window, <<p, w>> \in shown PROVE WindowsOf(p) # {}
    <3>1. <<p, w>> \in WindowsOf(p)
      BY <2>2 DEF WindowsOf
    <3> QED BY <3>1
  <2> QED BY <2>1, <2>2
<1> QED BY <1>5, <1>6, <1>7, <1>8, <1>9

\* When the window manager reports the windows that close, and nothing waits, the
\* priority manager holds a process for visible exactly if it shows a window:
\* however updates, deaths, clean-ups and requests are interleaved.
THEOREM VisibilityAgrees == WindowSpec => []VisibleAgrees
<1>1. WindowInv => VisibleAgrees
  BY NothingWaits
<1> QED BY <1>1, WindowInvariance, PTL

\* The counter of processes and the two pending clean-ups.
WindowCounters == starts \in 0 .. MaxStarts /\ timer \in BOOLEAN /\ sizeCheck \in BOOLEAN

\* Every step keeps them.
LEMMA WindowCountersStep ==
  ASSUME WindowAssumption, WindowCounters, [WindowNext]_windowVars
  PROVE  WindowCounters'
<1>1. starts \in 0 .. MaxStarts /\ timer \in BOOLEAN /\ sizeCheck \in BOOLEAN /\ MaxStarts \in Nat
  BY DEF WindowCounters, WindowAssumption
<1>2. ASSUME NEW p \in Pid, OnProcessCreated(p) PROVE WindowCounters'
  <2>1. starts < MaxStarts /\ starts' = starts + 1 /\ timer' = timer /\ sizeCheck' = sizeCheck
    BY <1>2 DEF OnProcessCreated
  <2> QED BY <1>1, <2>1 DEF WindowCounters
<1>3. ASSUME NEW p \in Pid, ProcessDies(p) \/ ReportDeath(p) \/ OnProcessDied(p) PROVE WindowCounters'
  BY <1>1, <1>3 DEF ProcessDies, ReportDeath, OnProcessDied, WindowCounters
<1>4. ASSUME NEW changed, ChangeWindows(changed) PROVE WindowCounters'
  BY <1>1, <1>4 DEF ChangeWindows, WindowCounters
<1>5. ASSUME UpdateWindowVisibilityPriorityInner PROVE WindowCounters'
  <2>1. /\ sizeCheck' = (sizeCheck \/ Cardinality(DOMAIN map') >= env.maxMapSize)
        /\ starts' = starts /\ timer' = timer
    BY <1>5 DEF UpdateWindowVisibilityPriorityInner
  <2>2. sizeCheck' \in BOOLEAN
    BY <2>1, Zenon
  <2> QED BY <1>1, <2>1, <2>2 DEF WindowCounters
<1>6. ASSUME CheckMapSizeByTime \/ CheckMapSizeBySize PROVE WindowCounters'
  <2>1. /\ timer' \in {timer, TRUE, FALSE} /\ sizeCheck' \in {sizeCheck, FALSE} /\ starts' = starts
    BY <1>6 DEF CheckMapSizeByTime, CheckMapSizeBySize, TimerAgain
  <2> QED BY <1>1, <2>1 DEF WindowCounters
<1>7. ASSUME UpdateReclaimPriorityInner PROVE WindowCounters'
  <2>1. starts' = starts /\ timer' = timer /\ sizeCheck' = sizeCheck
    BY <1>7 DEF UpdateReclaimPriorityInner
  <2> QED BY <1>1, <2>1 DEF WindowCounters
<1>8. ASSUME UNCHANGED windowVars PROVE WindowCounters'
  <2>1. starts' = starts /\ timer' = timer /\ sizeCheck' = sizeCheck
    BY <1>8 DEF windowVars
  <2> QED BY <1>1, <2>1 DEF WindowCounters
<1> QED BY <1>2, <1>3, <1>4, <1>5, <1>6, <1>7, <1>8 DEF WindowNext

\* Every variable of the observer keeps its type; an entry of windowVisibleMap_ is
\* visible and has a window, and only a process with a record is held for visible.
THEOREM WindowTypes == WindowSpec => []WindowTypeOK
<1>1. WindowInit => WindowCounters
  <2>1. MaxStarts \in Nat
    BY WindowAssumption DEF WindowAssumption
  <2> SUFFICES ASSUME WindowInit PROVE WindowCounters
    OBVIOUS
  <2>2. starts = 0 /\ timer = TRUE /\ sizeCheck = FALSE
    BY DEF WindowInit
  <2>3. 0 \in 0 .. MaxStarts
    BY <2>1
  <2> QED BY <2>2, <2>3 DEF WindowCounters
<1>2. WindowCounters /\ [WindowNext]_windowVars => WindowCounters'
  BY WindowAssumption, WindowCountersStep
<1>3. WindowInv /\ WindowCounters => WindowTypeOK
  <2> SUFFICES ASSUME WindowInv, WindowCounters PROVE WindowTypeOK
    OBVIOUS
  <2>1. \A p \in DOMAIN map : map[p].windows # {} /\ map[p].visible
    BY DEF WindowInv, WindowTyped
  <2> QED BY <2>1 DEF WindowInv, WindowTyped, WindowCounters, WindowTypeOK
<1> QED BY <1>1, <1>2, <1>3, WindowInvariance, PTL DEF WindowSpec
=============================================================================
