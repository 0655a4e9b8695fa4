--------------------- MODULE PurgeableSubscribers_proofs ---------------------
(***************************************************************************)
(* Proofs about PurgeableSubscribers, for any number of subscribers, limit *)
(* of the list, depth of the queues and number of crashes of the service.  *)
(***************************************************************************)
EXTENDS PurgeableSubscribers, SequenceTheorems, FiniteSetTheorems,
        WellFoundedInduction, TLAPS

-----------------------------------------------------------------------------
(* Erasing from the list.                                                  *)

\* The sequence s without what stands at place k.
Without(s, k) == SubSeq(s, 1, k - 1) \o SubSeq(s, k + 1, Len(s))

\* A list without duplicates, of which one place is taken out, has all the others and no more.
LEMMA WithoutOne ==
  ASSUME NEW S, NEW s \in Seq(S), IsInjective(s), NEW k \in 1 .. Len(s)
  PROVE  /\ Without(s, k) \in Seq(S) /\ IsInjective(Without(s, k))
         /\ Len(Without(s, k)) = Len(s) - 1
         /\ Range(Without(s, k)) = Range(s) \ {s[k]}
<1> DEFINE r == Without(s, k)
<1>1. Len(s) \in Nat /\ DOMAIN s = 1 .. Len(s)
  OBVIOUS
<1> DEFINE a == SubSeq(s, 1, k - 1)
           b == SubSeq(s, k + 1, Len(s))
<1>a. a \in Seq(S) /\ Len(a) = k - 1 /\ \A i \in 1 .. k - 1 : a[i] = s[i]
  BY <1>1
<1>b. b \in Seq(S) /\ Len(b) = Len(s) - k /\ \A i \in 1 .. Len(s) - k : b[i] = s[k + i]
  <2>1. k + 1 \in Int /\ Len(s) \in Int /\ \A i \in k + 1 .. Len(s) : s[i] \in S
    BY <1>1
  <2>2. /\ b \in Seq(S)
        /\ Len(b) = IF k + 1 <= Len(s) THEN Len(s) - (k + 1) + 1 ELSE 0
        /\ \A i \in 1 .. Len(s) - (k + 1) + 1 : b[i] = s[(k + 1) + i - 1]
    BY <2>1, SubSeqProperties
  <2> HIDE DEF b
  <2>3. Len(b) = Len(s) - k
    BY <1>1, <2>2
  <2>4. ASSUME NEW i \in 1 .. Len(s) - k PROVE b[i] = s[k + i]
    <3>1. i \in 1 .. Len(s) - (k + 1) + 1 /\ (k + 1) + i - 1 = k + i
      BY <1>1
    <3> QED BY <2>2, <3>1
  <2> QED BY <2>2, <2>3, <2>4
<1>c. r = a \o b
  BY DEF Without
<1> HIDE DEF r, a, b
<1>2. r \in Seq(S) /\ Len(r) = Len(s) - 1 /\ DOMAIN r = 1 .. Len(s) - 1
  <2>1. r \in Seq(S) /\ Len(r) = Len(a) + Len(b)
    BY <1>a, <1>b, <1>c, ConcatProperties
  <2>2. Len(r) = Len(s) - 1
    BY <1>1, <1>a, <1>b, <2>1
  <2> QED BY <2>1, <2>2
<1>3. \A i \in 1 .. Len(s) - 1 : r[i] = IF i < k THEN s[i] ELSE s[i + 1]
  <2> SUFFICES ASSUME NEW i \in 1 .. Len(s) - 1 PROVE r[i] = IF i < k THEN s[i] ELSE s[i + 1]
    OBVIOUS
  <2>1. CASE i < k
    BY <1>1, <1>a, <1>b, <1>c, <2>1
  <2>2. CASE ~(i < k)
    <3>1. r[i] = b[i - (k - 1)]
      BY <1>1, <1>a, <1>b, <1>c, <2>2
    <3>2. i - (k - 1) \in 1 .. Len(s) - k /\ k + (i - (k - 1)) = i + 1
      BY <1>1, <2>2
    <3> QED BY <1>b, <2>2, <3>1, <3>2
  <2> QED BY <2>1, <2>2
<1>4. IsInjective(r)
  <2> SUFFICES ASSUME NEW m \in 1 .. Len(s) - 1, NEW n \in 1 .. Len(s) - 1, r[m] = r[n]
               PROVE  m = n
    BY <1>2 DEF IsInjective
  <2>1. \A x, y \in 1 .. Len(s) : s[x] = s[y] => x = y
    BY <1>1 DEF IsInjective
  <2>2. m \in 1 .. Len(s) /\ m + 1 \in 1 .. Len(s) /\ n \in 1 .. Len(s) /\ n + 1 \in 1 .. Len(s)
    BY <1>1
  <2>3. \/ m < k /\ n < k /\ s[m] = s[n]
        \/ m < k /\ ~(n < k) /\ s[m] = s[n + 1]
        \/ ~(m < k) /\ n < k /\ s[m + 1] = s[n]
        \/ ~(m < k) /\ ~(n < k) /\ s[m + 1] = s[n + 1]
    BY <1>3
  <2>4. \/ m < k /\ n < k /\ m = n
        \/ m < k /\ ~(n < k) /\ m = n + 1
        \/ ~(m < k) /\ n < k /\ m + 1 = n
        \/ ~(m < k) /\ ~(n < k) /\ m + 1 = n + 1
    BY <2>1, <2>2, <2>3
  <2> QED BY <1>1, <2>4
<1>5. Range(r) = Range(s) \ {s[k]}
  <2>1. ASSUME NEW i \in 1 .. Len(s) - 1 PROVE r[i] \in Range(s) \ {s[k]}
    <3>1. PICK j \in 1 .. Len(s) : r[i] = s[j] /\ j # k
      <4>1. CASE i < k
        BY <1>1, <1>3, <4>1
      <4>2. CASE ~(i < k)
        <5>1. i + 1 \in 1 .. Len(s) /\ i + 1 # k
          BY <1>1, <4>2
        <5> QED BY <1>3, <4>2, <5>1
      <4> QED BY <4>1, <4>2
    <3> QED BY <1>1, <3>1 DEF Range, IsInjective
  <2>2. ASSUME NEW j \in 1 .. Len(s), s[j] # s[k] PROVE s[j] \in Range(r)
    <3>1. CASE j < k
      <4>1. j \in 1 .. Len(s) - 1 /\ r[j] = s[j]
        BY <1>1, <1>3, <3>1
      <4> QED BY <1>2, <4>1 DEF Range
    <3>2. CASE ~(j < k)
      <4>1. j - 1 \in 1 .. Len(s) - 1 /\ ~(j - 1 < k) /\ (j - 1) + 1 = j
        BY <1>1, <2>2, <3>2
      <4>2. r[j - 1] = s[j]
        BY <1>3, <4>1
      <4> QED BY <1>2, <4>1, <4>2 DEF Range
    <3> QED BY <3>1, <3>2
  <2> QED BY <1>1, <1>2, <2>1, <2>2 DEF Range
<1> QED BY <1>2, <1>4, <1>5 DEF r

\* Among some natural numbers there is a least.
LEMMA LeastOf ==
  ASSUME NEW I, I \subseteq Nat, I # {}
  PROVE  \E m \in I : \A j \in I : m =< j
<1>1. PICK m \in I : \A j \in I : ~(<<j, m>> \in OpToRel(<, Nat))
  BY NatLessThanWellFounded, WFMin
<1>2. \A j \in I : m =< j
  <2> SUFFICES ASSUME NEW j \in I, ~(m =< j) PROVE FALSE
    OBVIOUS
  <2>1. <<j, m>> \in OpToRel(<, Nat)
    BY DEF OpToRel
  <2> QED BY <1>1, <2>1
<1> QED BY <1>2

\* RemoveFirst takes out the only place of its element.
LEMMA RemoveFirstOne ==
  ASSUME NEW S, NEW s \in Seq(S), IsInjective(s), NEW c
  PROVE  /\ c \in Range(s) => \E k \in 1 .. Len(s) : s[k] = c /\ RemoveFirst(s, c) = Without(s, k)
         /\ c \notin Range(s) => RemoveFirst(s, c) = s
<1>1. Len(s) \in Nat /\ DOMAIN s = 1 .. Len(s)
  OBVIOUS
<1>2. CASE c \in Range(s)
  <2>1. PICK k \in 1 .. Len(s) : s[k] = c
    BY <1>1, <1>2 DEF Range
  <2> DEFINE I == {i \in 1 .. Len(s) : s[i] = c}
  <2>2. I = {k}
    BY <1>1, <2>1 DEF IsInjective
  <2>3. Min(I) = k
    <3>1. \A x \in {k} : x = k
      OBVIOUS
    <3>2. k \in {k} /\ \A y \in {k} : k =< y
      BY <1>1
    <3> HIDE DEF I
    <3> QED BY <2>2, <3>1, <3>2 DEF Min
  <2>4. SelectInSeq(s, LAMBDA v : v = c) = IF I # {} THEN Min(I) ELSE 0
    BY DEF SelectInSeq
  <2>5. SelectInSeq(s, LAMBDA v : v = c) = k
    <3> HIDE DEF I
    <3> QED BY <2>2, <2>3, <2>4
  <2>6. RemoveFirst(s, c) = RemoveAt(s, SelectInSeq(s, LAMBDA v : v = c))
    BY <2>1 DEF RemoveFirst
  <2>7. RemoveFirst(s, c) = Without(s, k)
    BY <2>5, <2>6 DEF RemoveAt, Without
  <2> QED BY <1>2, <2>1, <2>7
<1>3. CASE c \notin Range(s)
  BY <1>1, <1>3 DEF Range, RemoveFirst
<1> QED BY <1>2, <1>3

\* One round of the loop of Erased.
Kept(s, c, f) ==
  [i \in 0 .. Len(s) |-> IF i = 0 THEN <<>>
                         ELSE IF s[i] = c THEN f[i - 1] ELSE Append(f[i - 1], s[i])]

\* The loop has one result: what any function has that satisfies its equation.
LEMMA LoopResult ==
  ASSUME NEW S, NEW s \in Seq(S), NEW c, NEW h, h = Kept(s, c, h)
  PROVE  Erased(s, c) = h[Len(s)]
<1> DEFINE f == CHOOSE g : g = Kept(s, c, g)
<1>1. Erased(s, c) = f[Len(s)]
  BY DEF Erased, Kept
<1>2. f = Kept(s, c, f)
  OBVIOUS
<1> HIDE DEF f
<1> DEFINE I == {i \in 0 .. Len(s) : f[i] # h[i]}
<1>3. Len(s) \in Nat
  OBVIOUS
<1>4. \A i \in 0 .. Len(s) :
        /\ f[i] = IF i = 0 THEN <<>> ELSE IF s[i] = c THEN f[i - 1] ELSE Append(f[i - 1], s[i])
        /\ h[i] = IF i = 0 THEN <<>> ELSE IF s[i] = c THEN h[i - 1] ELSE Append(h[i - 1], s[i])
  BY <1>2 DEF Kept
<1>5. CASE I # {}
  <2>1. I \subseteq Nat
    BY <1>3
  <2>2. PICK m \in I : \A j \in I : m =< j
    <3> HIDE DEF I
    <3> QED BY <1>5, <2>1, LeastOf
  <2>3. m \in 0 .. Len(s) /\ f[m] # h[m]
    OBVIOUS
  <2>4. m # 0
    BY <1>3, <1>4, <2>3
  <2>5. m - 1 \in 0 .. Len(s) /\ ~(m =< m - 1)
    BY <1>3, <2>3, <2>4
  <2>6. f[m - 1] = h[m - 1]
    BY <2>2, <2>5
  <2> QED BY <1>4, <2>3, <2>4, <2>6
<1>6. CASE I = {}
  BY <1>1, <1>3, <1>6
<1> QED BY <1>5, <1>6

\* In a list without duplicates the loop takes out the one place of c.
LEMMA ErasedOne ==
  ASSUME NEW S, NEW s \in Seq(S), IsInjective(s), NEW c
  PROVE  /\ c \in Range(s) => \E k \in 1 .. Len(s) : s[k] = c /\ Erased(s, c) = Without(s, k)
         /\ c \notin Range(s) => Erased(s, c) = s
<1>1. Len(s) \in Nat /\ DOMAIN s = 1 .. Len(s)
  OBVIOUS
<1>2. CASE c \notin Range(s)
  <2> DEFINE h == [i \in 0 .. Len(s) |-> SubSeq(s, 1, i)]
  <2>1. \A i \in 1 .. Len(s) : s[i] # c
    BY <1>1, <1>2 DEF Range
  <2>2. ASSUME NEW i \in 0 .. Len(s), i # 0 PROVE h[i] = Append(h[i - 1], s[i])
    <3>1. i - 1 \in 0 .. Len(s) /\ i \in 1 .. Len(s)
      BY <1>1, <2>2
    <3>2. h[i] = SubSeq(s, 1, i) /\ h[i - 1] = SubSeq(s, 1, i - 1)
      BY <3>1
    <3>3. SubSeq(s, 1, i) = Append(SubSeq(s, 1, i - 1), s[i])
      BY <1>1, <3>1
    <3> QED BY <3>2, <3>3
  <2>3. h[0] = <<>>
    BY <1>1
  <2>5. h = Kept(s, c, h)
    <3>1. h = [i \in 0 .. Len(s) |-> h[i]]
      OBVIOUS
    <3> HIDE DEF h
    <3>2. \A i \in 0 .. Len(s) : h[i] = Kept(s, c, h)[i]
      <4> SUFFICES ASSUME NEW i \in 0 .. Len(s) PROVE h[i] = Kept(s, c, h)[i]
        OBVIOUS
      <4>1. CASE i = 0
        BY <2>3, <4>1 DEF Kept
      <4>2. CASE i # 0
        <5>1. s[i] # c
          BY <1>1, <2>1, <4>2
        <5> QED BY <2>2, <4>2, <5>1 DEF Kept
      <4> QED BY <4>1, <4>2
    <3>3. Kept(s, c, h) = [i \in 0 .. Len(s) |-> Kept(s, c, h)[i]]
      BY DEF Kept
    <3> QED BY <3>1, <3>2, <3>3
  <2>6. h[Len(s)] = s
    BY <1>1
  <2> HIDE DEF h
  <2> QED BY <1>2, <2>5, <2>6, LoopResult
<1>3. CASE c \in Range(s)
  <2>1. PICK k \in 1 .. Len(s) : s[k] = c
    BY <1>1, <1>3 DEF Range
  <2>2. \A i \in 1 .. Len(s) : s[i] = c <=> i = k
    BY <1>1, <2>1 DEF IsInjective
  <2> DEFINE h == [i \in 0 .. Len(s) |-> IF i < k THEN SubSeq(s, 1, i)
                                         ELSE SubSeq(s, 1, k - 1) \o SubSeq(s, k + 1, i)]
  <2>3. ASSUME NEW i \in 0 .. Len(s), i # 0
        PROVE  h[i] = IF s[i] = c THEN h[i - 1] ELSE Append(h[i - 1], s[i])
    <3>1. i - 1 \in 0 .. Len(s) /\ i \in 1 .. Len(s)
      BY <1>1, <2>3
    <3>2. CASE i < k
      <4>1. h[i] = SubSeq(s, 1, i) /\ h[i - 1] = SubSeq(s, 1, i - 1) /\ s[i] # c
        BY <1>1, <2>2, <3>1, <3>2
      <4>2. SubSeq(s, 1, i) = Append(SubSeq(s, 1, i - 1), s[i])
        BY <1>1, <3>1
      <4> QED BY <4>1, <4>2
    <3>3. CASE i = k
      <4>1. h[i] = SubSeq(s, 1, k - 1) \o SubSeq(s, k + 1, k) /\ h[i - 1] = SubSeq(s, 1, k - 1) /\ s[i] = c
        BY <1>1, <2>1, <3>1, <3>3
      <4>2. SubSeq(s, 1, k - 1) \o SubSeq(s, k + 1, k) = SubSeq(s, 1, k - 1)
        BY <1>1
      <4> QED BY <4>1, <4>2
    <3>4. CASE i > k
      <4>1. /\ h[i] = SubSeq(s, 1, k - 1) \o SubSeq(s, k + 1, i)
            /\ h[i - 1] = SubSeq(s, 1, k - 1) \o SubSeq(s, k + 1, i - 1) /\ s[i] # c
        BY <1>1, <2>2, <3>1, <3>4
      <4>2. SubSeq(s, k + 1, i) = Append(SubSeq(s, k + 1, i - 1), s[i])
        BY <1>1, <3>1, <3>4
      <4>3. /\ SubSeq(s, 1, k - 1) \in Seq(S) /\ SubSeq(s, k + 1, i - 1) \in Seq(S) /\ s[i] \in S
        BY <1>1, <3>1, <3>4
      <4>4. ASSUME NEW a \in Seq(S), NEW b \in Seq(S), NEW x \in S PROVE a \o Append(b, x) = Append(a \o b, x)
        OBVIOUS
      <4>5. SubSeq(s, 1, k - 1) \o Append(SubSeq(s, k + 1, i - 1), s[i])
              = Append(SubSeq(s, 1, k - 1) \o SubSeq(s, k + 1, i - 1), s[i])
        BY <4>3, <4>4
      <4> HIDE DEF h
      <4> QED BY <4>1, <4>2, <4>5
    <3> QED BY <1>1, <3>2, <3>3, <3>4
  <2>4. h[0] = <<>>
    BY <1>1
  <2>5. h = Kept(s, c, h)
    <3>1. h = [i \in 0 .. Len(s) |-> h[i]]
      OBVIOUS
    <3> HIDE DEF h
    <3>2. \A i \in 0 .. Len(s) : h[i] = Kept(s, c, h)[i]
      BY <1>1, <2>3, <2>4 DEF Kept
    <3>3. Kept(s, c, h) = [i \in 0 .. Len(s) |-> Kept(s, c, h)[i]]
      BY DEF Kept
    <3> QED BY <3>1, <3>2, <3>3
  <2>6. h[Len(s)] = Without(s, k)
    <3>1. Len(s) \in 0 .. Len(s) /\ ~(Len(s) < k)
      BY <1>1
    <3> QED BY <3>1 DEF Without
  <2> HIDE DEF h
  <2> QED BY <1>3, <2>1, <2>5, <2>6, LoopResult
<1> QED BY <1>2, <1>3

-----------------------------------------------------------------------------
(* The invariant of the list and of the two mutexes: who holds which, that *)
(* the recipients are those of the listed subscribers but the one whose    *)
(* removal is under way, and that the service has no list while it is      *)
(* down.                                                                   *)

Places == {"idle", "remove", "calling", "erase"}
Calls == {"OnConnected", "news"}

Typing ==
  /\ subscribers \in Seq(Subs) /\ others \in Nat /\ recipients \subseteq Subs /\ unwatched \subseteq Subs
  /\ queue \in Seq(Tasks)
  /\ callAt \in [Subs -> Places]

Locks ==
  /\ mutexSubscribers \in Subs \cup {"dump", NONE}
  /\ \A c \in Subs : callAt[c] \in {"calling", "erase"} <=> mutexSubscribers = c
  /\ mutexSubscribers = "dump" <=> dumpAt \in {"allSubs", "allBoth"}
  /\ mutexAppList \in {"handler", "dump", NONE}
  /\ mutexAppList = "handler" <=> handlerAt = "app"
  /\ mutexAppList = "dump" <=> dumpAt = "allBoth"

Listing ==
  /\ IsInjective(subscribers) /\ Len(subscribers) + others <= MaxSubs
  /\ recipients \subseteq Range(subscribers) \ {mutexSubscribers}
  /\ Range(subscribers) \ {mutexSubscribers} \subseteq recipients \cup unwatched
  /\ mutexSubscribers \in Subs => Listed(mutexSubscribers)
  /\ ~up => subscribers = <<>> /\ queue = <<>>

LInv == Typing /\ Locks /\ Listing

\* The names of threads and NONE are no subscribers.
LEMMA Names ==
  /\ "dump" \notin Subs /\ "handler" \notin Subs /\ NONE \notin Subs
  /\ NONE # "dump" /\ NONE # "handler" /\ "dump" # "handler"
BY SubscribersAssumption

\* The entries of a list are subscribers.
LEMMA RangeType ==
  ASSUME NEW S, NEW s \in Seq(S)
  PROVE  Range(s) \subseteq S
BY DEF Range

\* An entry more.
LEMMA RangeAppend ==
  ASSUME NEW S, NEW s \in Seq(S), NEW x \in S
  PROVE  /\ Append(s, x) \in Seq(S) /\ Len(Append(s, x)) = Len(s) + 1
         /\ Range(Append(s, x)) = Range(s) \cup {x}
         /\ IsInjective(s) /\ x \notin Range(s) => IsInjective(Append(s, x))
<1> DEFINE r == Append(s, x)
<1>1. /\ Len(s) \in Nat /\ DOMAIN s = 1 .. Len(s)
      /\ r \in Seq(S) /\ Len(r) = Len(s) + 1 /\ DOMAIN r = 1 .. Len(s) + 1
      /\ \A i \in 1 .. Len(s) : r[i] = s[i]
      /\ r[Len(s) + 1] = x
  OBVIOUS
<1> HIDE DEF r
<1>2. Range(r) = Range(s) \cup {x}
  <2>1. \A i \in 1 .. Len(s) + 1 : i \in 1 .. Len(s) \/ i = Len(s) + 1
    BY <1>1
  <2>2. \A i \in 1 .. Len(s) : i \in 1 .. Len(s) + 1
    BY <1>1
  <2>3. Len(s) + 1 \in 1 .. Len(s) + 1
    BY <1>1
  <2> QED BY <1>1, <2>1, <2>2, <2>3 DEF Range
<1>3. ASSUME IsInjective(s), x \notin Range(s) PROVE IsInjective(r)
  <2> SUFFICES ASSUME NEW a \in 1 .. Len(s) + 1, NEW b \in 1 .. Len(s) + 1, r[a] = r[b] PROVE a = b
    BY <1>1 DEF IsInjective
  <2>1. \A i \in 1 .. Len(s) : r[i] # x
    BY <1>1, <1>3 DEF Range
  <2>2. (a \in 1 .. Len(s) \/ a = Len(s) + 1) /\ (b \in 1 .. Len(s) \/ b = Len(s) + 1)
    BY <1>1
  <2>3. CASE a \in 1 .. Len(s) /\ b \in 1 .. Len(s)
    BY <1>1, <1>3, <2>3 DEF IsInjective
  <2>4. CASE a = Len(s) + 1 \/ b = Len(s) + 1
    BY <1>1, <2>1, <2>2, <2>4
  <2> QED BY <2>2, <2>3, <2>4
<1> QED BY <1>1, <1>2, <1>3 DEF r

\* The subscriber of an addition or of a death, and what is left of the queue.
LEMMA HeadTask ==
  ASSUME queue \in Seq(Tasks), queue # <<>>
  PROVE  /\ Tail(queue) \in Seq(Tasks)
         /\ Head(queue).kind \in {"add", "died"} => Head(queue).who \in Subs
         /\ Head(queue).kind = "add" => Head(queue) = Task("add", Head(queue).who, NONE)
<1>1. Head(queue) \in Tasks /\ Tail(queue) \in Seq(Tasks)
  OBVIOUS
<1>2. ASSUME NEW a \in AppCalls PROVE a[1] \notin {"add", "died"}
  BY SubscribersAssumption
<1> QED BY <1>1, <1>2 DEF Tasks, Task

\* The invariant of the list holds when the service starts.
LEMMA InitLInv == Init => LInv
<1> SUFFICES ASSUME Init PROVE LInv
  OBVIOUS
<1>1. Typing
  BY DEF Init, Typing, NoCalls, Places
<1>2. Locks
  BY Names DEF Init, Locks, NoCalls
<1>3. Listing
  <2>1. MaxSubs \in Nat
    BY SubscribersAssumption
  <2>2. Range(<<>>) = {} /\ IsInjective(<<>>) /\ Len(<<>>) = 0
    BY DEF Range, IsInjective
  <2>3. Len(subscribers) + others <= MaxSubs
    BY <2>1, <2>2 DEF Init
  <2> QED BY <2>2, <2>3, Names DEF Init, Listing
<1> QED BY <1>1, <1>2, <1>3 DEF LInv

\* The steps that only post a task, or neither post nor lock nor list.
LEMMA PostLInv ==
  ASSUME LInv,
         \/ RegisterActiveApps \/ DeregisterActiveApps \/ ChangeAppState \/ NotifyMemoryLevel
         \/ Restart \/ OtherClients
         \/ \E c \in Subs : \/ SubscribeAppState(c) \/ SubscriberDies(c) \/ OnListenerDied(c)
                            \/ ServeInbox(c) \/ OnRemoteDied(c)
         \/ UNCHANGED vars
  PROVE  LInv'
<1>0. Typing /\ Locks /\ Listing
  BY DEF LInv
<1>a. ASSUME UNCHANGED <<unwatched, subscribers, recipients, mutexSubscribers, mutexAppList, callAt, dumpAt, handlerAt>>,
             others' \in Nat, Len(subscribers) + others' <= MaxSubs,
             queue' \in Seq(Tasks), ~up' => (~up /\ queue' = queue)
      PROVE  LInv'
  BY <1>0, <1>a DEF LInv, Typing, Locks, Listing, Listed
<1>b. others \in Nat /\ Len(subscribers) + others <= MaxSubs /\ queue \in Seq(Tasks)
  BY <1>0 DEF Typing, Listing
<1>c. \A t \in Tasks : Append(queue, t) \in Seq(Tasks)
  BY <1>b
<1>d. \A c \in Subs : Task("died", c, NONE) \in Tasks /\ Task("add", c, NONE) \in Tasks
  BY DEF Tasks
<1>1. ASSUME NEW t \in Tasks, Post(t) PROVE LInv'
  <2>1. /\ UNCHANGED <<unwatched, subscribers, recipients, mutexSubscribers, mutexAppList, callAt, dumpAt, handlerAt, others, up>>
        /\ up /\ queue' = Append(queue, t)
    BY <1>1 DEF Post, Posted, serviceVars, history
  <2>2. queue' \in Seq(Tasks)
    BY <1>c, <2>1
  <2> QED BY <1>a, <1>b, <2>1, <2>2
<1>2. CASE RegisterActiveApps \/ DeregisterActiveApps \/ ChangeAppState
  <2>1. PICK a \in AppCalls : Post(Task(a[1], a[2], a[3]))
    BY <1>2 DEF RegisterActiveApps, DeregisterActiveApps, ChangeAppState, AppCall
  <2>2. Task(a[1], a[2], a[3]) \in Tasks
    BY DEF Tasks
  <2> QED BY <1>1, <2>1, <2>2
<1>3. CASE NotifyMemoryLevel
  <2>1. Task("trim", NONE, NONE) \in Tasks
    BY DEF Tasks
  <2> QED BY <1>1, <1>3, <2>1 DEF NotifyMemoryLevel
<1>4. CASE Restart
  <2>1. /\ UNCHANGED <<unwatched, subscribers, recipients, mutexSubscribers, mutexAppList, callAt, dumpAt, handlerAt, others, queue>>
        /\ up'
    BY <1>4 DEF Restart, serviceVars, history
  <2> QED BY <1>a, <1>b, <2>1
<1>5. CASE OtherClients
  <2>1. /\ UNCHANGED <<unwatched, subscribers, recipients, mutexSubscribers, mutexAppList, callAt, dumpAt, handlerAt, queue, up>>
        /\ others' \in 0 .. MaxSubs - Len(subscribers)
    BY <1>5 DEF OtherClients, history
  <2>2. Len(subscribers) \in Nat /\ MaxSubs \in Nat
    BY <1>0, SubscribersAssumption DEF Typing
  <2>3. others' \in Nat /\ Len(subscribers) + others' <= MaxSubs
    BY <2>1, <2>2
  <2> QED BY <1>a, <1>b, <2>1, <2>3
<1>6. ASSUME NEW c \in Subs, SubscribeAppState(c) PROVE LInv'
  <2>1. /\ UNCHANGED <<unwatched, subscribers, recipients, mutexSubscribers, mutexAppList, callAt, dumpAt, handlerAt, others, up>>
        /\ up /\ queue' = Append(queue, Task("add", c, NONE))
    BY <1>6 DEF SubscribeAppState, Posted, serviceVars, history
  <2>2. queue' \in Seq(Tasks)
    BY <1>c, <1>d, <2>1
  <2> QED BY <1>a, <1>b, <2>1, <2>2
<1>7. ASSUME NEW c \in Subs, ServeInbox(c) \/ OnListenerDied(c) PROVE LInv'
  <2>1. UNCHANGED <<unwatched, subscribers, recipients, mutexSubscribers, mutexAppList, callAt, dumpAt, handlerAt, others, up, queue>>
    BY <1>7 DEF ServeInbox, OnListenerDied, serviceVars, history
  <2> QED BY <1>a, <1>b, <2>1
<1>8. ASSUME NEW c \in Subs, SubscriberDies(c) \/ OnRemoteDied(c) PROVE LInv'
  <2>1. /\ UNCHANGED <<unwatched, subscribers, recipients, mutexSubscribers, mutexAppList, callAt, dumpAt, handlerAt, others, up>>
        /\ Dies(c) \/ queue' = queue
    BY <1>8 DEF SubscriberDies, OnRemoteDied, serviceVars, history
  <2>2. queue' \in Seq(Tasks)
    BY <1>b, <1>c, <1>d, <2>1 DEF Dies
  <2>3. ~up => queue' = queue
    <3> SUFFICES ASSUME ~up PROVE c \notin recipients
      BY <2>1 DEF Dies
    <3>1. subscribers = <<>>
      BY <1>0 DEF Listing
    <3>2. Range(subscribers) = {}
      BY <3>1 DEF Range
    <3> QED BY <1>0, <3>2 DEF Listing
  <2> QED BY <1>a, <1>b, <2>1, <2>2, <2>3
<1>9. CASE UNCHANGED vars
  <2>1. UNCHANGED <<unwatched, subscribers, recipients, mutexSubscribers, mutexAppList, callAt, dumpAt, handlerAt, others, up, queue>>
    BY <1>9 DEF vars, serviceVars, history
  <2> QED BY <1>a, <1>b, <2>1
<1> QED BY <1>2, <1>3, <1>4, <1>5, <1>6, <1>7, <1>8, <1>9

\* RemoveSubscriber, from the call to its return.
LEMMA RemovalLInv ==
  ASSUME LInv, NEW c \in Subs,
         UnsubscribeAppState(c) \/ Remover(c) \/ OnDisconnected(c)
  PROVE  LInv'
<1>0. Typing /\ Locks /\ Listing
  BY DEF LInv
<1>a. ASSUME UNCHANGED <<unwatched, subscribers, recipients, mutexSubscribers, mutexAppList, dumpAt, handlerAt, others, up, queue>>,
             NEW to \in Places, callAt' = [callAt EXCEPT ![c] = to],
             to \in {"calling", "erase"} <=> mutexSubscribers = c
      PROVE  LInv'
  <2>1. Typing'
    BY <1>0, <1>a DEF Typing
  <2>2. Locks'
    BY <1>0, <1>a DEF Locks, Typing
  <2>3. Listing'
    BY <1>0, <1>a DEF Listing, Listed
  <2> QED BY <2>1, <2>2, <2>3 DEF LInv
<1>1. CASE UnsubscribeAppState(c)
  <2>1. /\ UNCHANGED <<unwatched, subscribers, recipients, mutexSubscribers, mutexAppList, dumpAt, handlerAt, others, up, queue>>
        /\ callAt[c] = "idle" /\ callAt' = [callAt EXCEPT ![c] = "remove"]
    BY <1>1 DEF UnsubscribeAppState, serviceVars, history
  <2>2. mutexSubscribers # c
    BY <1>0, <2>1 DEF Locks
  <2> QED BY <1>a, <2>1, <2>2 DEF Places
<1>2. CASE DisconnectFailed(c) \/ OnDisconnected(c)
  <2>1. /\ UNCHANGED <<unwatched, subscribers, recipients, mutexSubscribers, mutexAppList, dumpAt, handlerAt, others, up, queue>>
        /\ callAt[c] = "calling" /\ callAt' = [callAt EXCEPT ![c] = "erase"]
    BY <1>2 DEF DisconnectFailed, OnDisconnected, serviceVars, history
  <2>2. mutexSubscribers = c
    BY <1>0, <2>1 DEF Locks
  <2> QED BY <1>a, <2>1, <2>2 DEF Places
<1>3. CASE RemoveSubscriberInner(c)
  <2>1. /\ UNCHANGED <<unwatched, subscribers, mutexAppList, dumpAt, handlerAt, others, up, queue>>
        /\ callAt[c] = "remove" /\ mutexSubscribers = NONE
    BY <1>3 DEF RemoveSubscriberInner, Free
  <2>2. CASE ~Listed(c)
    <3>1. callAt' = [callAt EXCEPT ![c] = "idle"] /\ UNCHANGED <<mutexSubscribers, recipients>>
      BY <1>3, <2>2 DEF RemoveSubscriberInner
    <3> QED BY <1>a, <2>1, <3>1, Names DEF Places
  <2>3. CASE Listed(c)
    <3>1. /\ callAt' = [callAt EXCEPT ![c] = "calling"] /\ mutexSubscribers' = c
          /\ recipients' = recipients \ {c}
      BY <1>3, <2>3 DEF RemoveSubscriberInner
    <3>2. Typing'
      BY <1>0, <2>1, <3>1 DEF Typing, Places
    <3>3. Locks'
      <4>1. \A d \in Subs : callAt[d] \notin {"calling", "erase"}
        BY <1>0, <2>1, Names DEF Locks
      <4>2. \A d \in Subs : callAt'[d] \in {"calling", "erase"} <=> d = c
        BY <1>0, <3>1, <4>1 DEF Typing
      <4>3. dumpAt \notin {"allSubs", "allBoth"} /\ c # "dump"
        BY <1>0, <2>1, Names DEF Locks
      <4> QED BY <1>0, <2>1, <3>1, <4>2, <4>3 DEF Locks
    <3>4. Listing'
      <4>1. /\ recipients' \subseteq Range(subscribers) \ {c}
            /\ Range(subscribers) \ {c} \subseteq recipients' \cup unwatched
        BY <1>0, <2>1, <3>1, Names, RangeType DEF Listing, Typing
      <4> QED BY <1>0, <2>1, <2>3, <3>1, <4>1 DEF Listing, Listed
    <3> QED BY <3>2, <3>3, <3>4 DEF LInv
  <2> QED BY <2>2, <2>3
<1>4. CASE EraseSubscriber(c)
  <2>1. /\ UNCHANGED <<unwatched, recipients, mutexAppList, dumpAt, handlerAt, others, up, queue>>
        /\ callAt[c] = "erase" /\ callAt' = [callAt EXCEPT ![c] = "idle"]
        /\ mutexSubscribers' = NONE /\ subscribers' = RemoveFirst(subscribers, c)
    BY <1>4 DEF EraseSubscriber, history
  <2>2. mutexSubscribers = c
    BY <1>0, <2>1 DEF Locks
  <2>3. /\ c \in Range(subscribers) /\ recipients \subseteq Range(subscribers) \ {c}
        /\ Range(subscribers) \ {c} \subseteq recipients \cup unwatched
    BY <1>0, <2>2 DEF Listing, Listed
  <2>4. subscribers \in Seq(Subs) /\ IsInjective(subscribers)
    BY <1>0 DEF Typing, Listing
  <2>5. PICK k \in 1 .. Len(subscribers) : subscribers[k] = c /\ subscribers' = Without(subscribers, k)
    BY <2>1, <2>3, <2>4, RemoveFirstOne
  <2>6. /\ subscribers' \in Seq(Subs) /\ IsInjective(subscribers')
        /\ Len(subscribers') = Len(subscribers) - 1
        /\ Range(subscribers') = Range(subscribers) \ {c}
    BY <2>4, <2>5, WithoutOne
  <2>7. Typing'
    BY <1>0, <2>1, <2>6 DEF Typing, Places
  <2>8. Locks'
    <3>1. \A d \in Subs : callAt'[d] \notin {"calling", "erase"}
      BY <1>0, <2>1, <2>2 DEF Locks, Typing
    <3>2. dumpAt \notin {"allSubs", "allBoth"}
      BY <1>0, <2>2, Names DEF Locks
    <3> QED BY <1>0, <2>1, <3>1, <3>2, Names DEF Locks
  <2>9. Listing'
    <3>1. Len(subscribers) \in Nat /\ others \in Nat /\ MaxSubs \in Nat /\ Len(subscribers) + others <= MaxSubs
      BY <1>0, SubscribersAssumption DEF Typing, Listing
    <3>2. Len(subscribers') + others <= MaxSubs
      BY <2>6, <3>1
    <3>3. /\ recipients' \subseteq Range(subscribers') \ {NONE}
          /\ Range(subscribers') \ {NONE} \subseteq recipients' \cup unwatched'
      BY <2>1, <2>3, <2>6, Names, RangeType
    <3>4. up
      <4>1. subscribers # <<>>
        BY <2>3 DEF Range
      <4> QED BY <1>0, <4>1 DEF Listing
    <3> QED BY <2>1, <2>6, <3>2, <3>3, <3>4, Names DEF Listing
  <2> QED BY <2>7, <2>8, <2>9 DEF LInv
<1> QED BY <1>1, <1>2, <1>3, <1>4 DEF Remover

\* The tasks of the handler.
LEMMA HandlerLInv ==
  ASSUME LInv, Handler
  PROVE  LInv'
<1>0. Typing /\ Locks /\ Listing
  BY DEF LInv
<1>a. ASSUME UNCHANGED <<unwatched, subscribers, recipients, others, up, callAt, dumpAt, mutexSubscribers>>,
             mutexAppList' \in {"handler", "dump", NONE},
             mutexAppList' = "handler" <=> handlerAt' = "app",
             mutexAppList' = "dump" <=> mutexAppList = "dump",
             queue' \in Seq(Tasks), ~up => queue' = queue
      PROVE  LInv'
  BY <1>0, <1>a DEF LInv, Typing, Locks, Listing, Listed
<1>b. queue \in Seq(Tasks) /\ (queue # <<>> => Tail(queue) \in Seq(Tasks))
  BY <1>0 DEF Typing
<1>c. queue # <<>> => up
  BY <1>0 DEF Listing
<1>1. CASE AddSubscriberInner
  <2> DEFINE c == Head(queue).who
             added == ~Listed(c) /\ Len(subscribers) + others < MaxSubs
  <2>1. /\ UNCHANGED <<others, up, callAt, dumpAt, mutexSubscribers, mutexAppList, handlerAt>>
        /\ mutexSubscribers = NONE
        /\ queue # <<>> /\ Head(queue).kind = "add"
    BY <1>1 DEF AddSubscriberInner, Runs, Free
  <2>2. PICK w \in {"told", "none", "refused"} :
          /\ subscribers' = IF added THEN Append(subscribers, c) ELSE subscribers
          /\ recipients' = IF w = "none" THEN recipients ELSE recipients \cup {c}
          /\ queue' = Tail(queue) \/ queue' = Append(Tail(queue), Task("died", c, NONE))
          /\ w # "none" => added
          /\ unwatched' = CASE w = "told" -> unwatched \ {c}
                            [] added /\ w # "told" -> unwatched \cup {c}
                            [] OTHER -> unwatched
    BY <1>1 DEF AddSubscriberInner, Watching
  <2>3. c \in Subs
    BY <1>b, <2>1, HeadTask
  <2> HIDE DEF c
  <2>4. /\ recipients \subseteq Range(subscribers) /\ Range(subscribers) \subseteq recipients \cup unwatched
        /\ subscribers \in Seq(Subs) /\ Len(subscribers) \in Nat
    BY <1>0, <2>1, Names, RangeType DEF Listing, Typing
  <2>6. /\ subscribers' \in Seq(Subs) /\ IsInjective(subscribers')
        /\ Len(subscribers') + others <= MaxSubs
        /\ recipients' \subseteq Range(subscribers')
        /\ Range(subscribers') \subseteq recipients' \cup unwatched'
    <3>1. CASE added
      <4>1. /\ subscribers' = Append(subscribers, c) /\ c \notin Range(subscribers)
            /\ recipients' \subseteq recipients \cup {c}
            /\ recipients \cup unwatched \cup {c} \subseteq recipients' \cup unwatched'
        <5>1. subscribers' = Append(subscribers, c) /\ c \notin Range(subscribers)
          BY <2>2, <3>1 DEF Listed
        <5>2. CASE w = "told"
          BY <2>2, <5>1, <5>2
        <5>3. CASE w # "told"
          <6>1. unwatched' = unwatched \cup {c}
            BY <2>2, <3>1, <5>3
          <6> QED BY <2>2, <5>1, <6>1
        <5> QED BY <5>2, <5>3
      <4>2. /\ subscribers' \in Seq(Subs) /\ IsInjective(subscribers')
            /\ Len(subscribers') = Len(subscribers) + 1
            /\ Range(subscribers') = Range(subscribers) \cup {c}
        <5>1. IsInjective(subscribers)
          BY <1>0 DEF Listing
        <5> HIDE DEF added
        <5> QED BY <2>3, <2>4, <4>1, <5>1, RangeAppend
      <4>3. others \in Nat /\ MaxSubs \in Nat
        BY <1>0, SubscribersAssumption DEF Typing
      <4>4. Len(subscribers') + others <= MaxSubs
        BY <2>4, <3>1, <4>2, <4>3
      <4> QED BY <2>4, <4>1, <4>2, <4>4
    <3>2. CASE ~added
      <4>1. w = "none"
        BY <2>2, <3>2
      <4>2. subscribers' = subscribers /\ recipients' = recipients /\ unwatched' = unwatched
        BY <2>2, <3>2, <4>1
      <4> QED BY <1>0, <2>4, <4>2 DEF Listing
    <3> QED BY <3>1, <3>2
  <2>13. unwatched' \subseteq Subs
    <3>1. unwatched \subseteq Subs
      BY <1>0 DEF Typing
    <3>2. unwatched' \in {unwatched \ {c}, unwatched \cup {c}, unwatched}
      BY <2>2
    <3> QED BY <2>3, <3>1, <3>2
  <2> HIDE DEF added
  <2>7. Task("died", c, NONE) \in Tasks
    BY <2>3 DEF Tasks
  <2>8. queue' \in Seq(Tasks)
    BY <1>b, <2>1, <2>2, <2>7
  <2>9. /\ recipients' \subseteq Subs /\ recipients' \subseteq Range(subscribers') \ {NONE}
        /\ Range(subscribers') \ {NONE} \subseteq recipients' \cup unwatched'
    BY <2>6, RangeType, Names
  <2>10. Typing'
    BY <1>0, <2>1, <2>6, <2>8, <2>9, <2>13 DEF Typing
  <2>11. Locks'
    BY <1>0, <2>1 DEF Locks
  <2>12. Listing'
    BY <1>c, <2>1, <2>6, <2>9, Names DEF Listing
  <2> QED BY <2>10, <2>11, <2>12 DEF LInv
<1>2. CASE OnRemoteSubscriberDiedInner
  <2> DEFINE c == Head(queue).who
  <2>1. /\ UNCHANGED <<unwatched, others, up, callAt, dumpAt, mutexSubscribers, mutexAppList, handlerAt>>
        /\ mutexSubscribers = NONE
        /\ queue # <<>> /\ Head(queue).kind = "died"
        /\ subscribers' = Erased(subscribers, c)
        /\ recipients' = recipients \ {c}
        /\ queue' = Tail(queue)
    BY <1>2 DEF OnRemoteSubscriberDiedInner, Runs, Free, history
  <2> HIDE DEF c
  <2>2. /\ recipients \subseteq Range(subscribers) /\ Range(subscribers) \subseteq recipients \cup unwatched
        /\ subscribers \in Seq(Subs) /\ Len(subscribers) \in Nat
        /\ IsInjective(subscribers)
    BY <1>0, <2>1, Names, RangeType DEF Listing, Typing
  <2>3. /\ subscribers' \in Seq(Subs) /\ IsInjective(subscribers')
        /\ Len(subscribers') <= Len(subscribers) /\ Len(subscribers') \in Nat
        /\ Range(subscribers') = Range(subscribers) \ {c}
    <3>1. CASE c \in Range(subscribers)
      <4>1. PICK k \in 1 .. Len(subscribers) : subscribers[k] = c /\ subscribers' = Without(subscribers, k)
        BY <2>1, <2>2, <3>1, ErasedOne
      <4>2. /\ subscribers' \in Seq(Subs) /\ IsInjective(subscribers')
            /\ Len(subscribers') = Len(subscribers) - 1
            /\ Range(subscribers') = Range(subscribers) \ {c}
        BY <2>2, <4>1, WithoutOne
      <4> QED BY <2>1, <2>2, <4>2
    <3>2. CASE c \notin Range(subscribers)
      <4>1. subscribers' = subscribers
        BY <2>1, <2>2, <3>2, ErasedOne
      <4> QED BY <2>1, <2>2, <3>2, <4>1
    <3> QED BY <3>1, <3>2
  <2>4. Typing'
    BY <1>0, <1>b, <2>1, <2>3 DEF Typing
  <2>5. Locks'
    BY <1>0, <2>1 DEF Locks
  <2>6. Len(subscribers') + others <= MaxSubs
    <3>1. others \in Nat /\ MaxSubs \in Nat /\ Len(subscribers) + others <= MaxSubs
      BY <1>0, SubscribersAssumption DEF Typing, Listing
    <3> QED BY <2>2, <2>3, <3>1
  <2>7. /\ recipients' \subseteq Range(subscribers') \ {NONE}
        /\ Range(subscribers') \ {NONE} \subseteq recipients' \cup unwatched'
    BY <2>1, <2>2, <2>3, RangeType, Names
  <2>8. Listing'
    BY <1>c, <2>1, <2>3, <2>6, <2>7, Names DEF Listing
  <2> QED BY <2>4, <2>5, <2>8 DEF LInv
<1>3. CASE RegisterActiveAppsInner \/ DeregisterActiveAppsInner \/ TrimAllSubscribers
  <2>1. /\ UNCHANGED <<unwatched, subscribers, recipients, others, up, callAt, dumpAt, mutexSubscribers, mutexAppList, handlerAt>>
        /\ queue # <<>> /\ queue' = Tail(queue)
    BY <1>3 DEF RegisterActiveAppsInner, DeregisterActiveAppsInner, TrimAllSubscribers, Runs, serviceVars, history
  <2> QED BY <1>0, <1>a, <1>b, <1>c, <2>1 DEF Locks
<1>4. CASE ChangeAppStateInner
  <2>1. /\ UNCHANGED <<unwatched, subscribers, recipients, others, up, callAt, dumpAt, mutexSubscribers>>
        /\ mutexAppList = NONE /\ handlerAt = "idle"
        /\ queue # <<>> /\ queue' = Tail(queue)
        /\ \/ handlerAt' = "app" /\ mutexAppList' = "handler"
           \/ UNCHANGED <<handlerAt, mutexAppList>>
    BY <1>4 DEF ChangeAppStateInner, Runs, Free, history
  <2> QED BY <1>0, <1>a, <1>b, <1>c, <2>1, Names DEF Locks
<1>5. CASE AppStateChanged
  <2>1. /\ UNCHANGED <<unwatched, subscribers, recipients, others, up, callAt, dumpAt, mutexSubscribers, queue>>
        /\ handlerAt = "app" /\ handlerAt' = "notify" /\ mutexAppList' = NONE
    BY <1>5 DEF AppStateChanged, history
  <2>2. mutexAppList = "handler"
    BY <1>0, <2>1 DEF Locks
  <2> QED BY <1>a, <1>b, <2>1, <2>2, Names
<1>6. CASE NotifySubscribers
  <2>1. /\ UNCHANGED <<unwatched, subscribers, recipients, others, up, callAt, dumpAt, mutexSubscribers, mutexAppList, queue>>
        /\ handlerAt = "notify" /\ handlerAt' = "idle"
    BY <1>6 DEF NotifySubscribers, history
  <2>2. mutexAppList # "handler"
    BY <1>0, <2>1 DEF Locks
  <2> QED BY <1>0, <1>a, <1>b, <2>1, <2>2 DEF Locks
<1> QED BY <1>1, <1>2, <1>3, <1>4, <1>5, <1>6 DEF Handler

\* The dump command, and the crash of the service.
LEMMA DumpLInv ==
  ASSUME LInv, Dump \/ ForceReclaimByDump \/ Crash
  PROVE  LInv'
<1>0. Typing /\ Locks /\ Listing
  BY DEF LInv
<1>1. CASE Crash
  <2>1. /\ subscribers' = <<>> /\ others' = 0 /\ recipients' = {} /\ queue' = <<>>
        /\ callAt' = [c \in Subs |-> "idle"] /\ handlerAt' = "idle" /\ dumpAt' = "idle"
        /\ mutexSubscribers' = NONE /\ mutexAppList' = NONE /\ unwatched' = unwatched
    BY <1>1 DEF Crash, NoCalls, history
  <2>2. Typing'
    BY <1>0, <2>1 DEF Typing, Places
  <2>3. Locks'
    BY <2>1, Names DEF Locks
  <2>4. Listing'
    <3>1. MaxSubs \in Nat
      BY SubscribersAssumption
    <3>2. Range(<<>>) = {} /\ IsInjective(<<>>) /\ Len(<<>>) = 0
      BY DEF Range, IsInjective
    <3>3. Len(subscribers') + others' <= MaxSubs
      BY <2>1, <3>1, <3>2
    <3> QED BY <2>1, <3>2, <3>3, Names DEF Listing
  <2> QED BY <2>2, <2>3, <2>4 DEF LInv
<1>a. ASSUME UNCHANGED <<unwatched, subscribers, recipients, others, up, callAt, queue, handlerAt>>,
             mutexSubscribers \in {"dump", NONE}, mutexSubscribers' \in {"dump", NONE},
             mutexSubscribers' = "dump" <=> dumpAt' \in {"allSubs", "allBoth"},
             mutexAppList' \in {"handler", "dump", NONE},
             mutexAppList' = "handler" <=> mutexAppList = "handler",
             mutexAppList' = "dump" <=> dumpAt' = "allBoth"
      PROVE  LInv'
  <2>1. Typing'
    BY <1>0, <1>a DEF Typing
  <2>2. Locks'
    BY <1>0, <1>a, Names DEF Locks
  <2>3. Listing'
    <3>1. /\ recipients' \subseteq Range(subscribers') \ {mutexSubscribers'}
          /\ Range(subscribers') \ {mutexSubscribers'} \subseteq recipients' \cup unwatched'
      BY <1>0, <1>a, Names, RangeType DEF Listing, Typing
    <3> QED BY <1>0, <1>a, <3>1, Names DEF Listing
  <2> QED BY <2>1, <2>2, <2>3 DEF LInv
<1>2. CASE ForceReclaimByDump \/ ReclaimSubscriberProc
  <2>1. /\ UNCHANGED <<unwatched, subscribers, recipients, others, up, callAt, queue, handlerAt, mutexSubscribers, mutexAppList>>
        /\ dumpAt \in {"idle", "proc"} /\ dumpAt' \in {"all", "proc", "idle"}
    BY <1>2 DEF ForceReclaimByDump, ReclaimSubscriberProc, DumpUnchanged, history
  <2>2. mutexSubscribers # "dump" /\ mutexAppList # "dump" /\ mutexAppList \in {"handler", NONE}
    BY <1>0, <2>1 DEF Locks
  <2>3. dumpAt' \notin {"allSubs", "allBoth"}
    BY <2>1
  <2>4. Typing'
    BY <1>0, <2>1 DEF Typing
  <2>5. Locks'
    BY <1>0, <2>1, <2>2, <2>3 DEF Locks
  <2>6. Listing'
    BY <1>0, <2>1 DEF Listing, Listed
  <2> QED BY <2>4, <2>5, <2>6 DEF LInv
<1>3. CASE ReclaimAllLockSubscribers
  <2>1. /\ UNCHANGED <<unwatched, subscribers, recipients, others, up, callAt, queue, handlerAt, mutexAppList>>
        /\ dumpAt = "all" /\ mutexSubscribers = NONE /\ mutexSubscribers' = "dump" /\ dumpAt' = "allSubs"
    BY <1>3 DEF ReclaimAllLockSubscribers, DumpUnchanged, Free, history
  <2>2. mutexAppList # "dump" /\ mutexAppList \in {"handler", "dump", NONE}
    BY <1>0, <2>1 DEF Locks
  <2> QED BY <1>a, <2>1, <2>2
<1>4. CASE ReclaimAllLockApps
  <2>1. /\ UNCHANGED <<unwatched, subscribers, recipients, others, up, callAt, queue, handlerAt, mutexSubscribers>>
        /\ dumpAt = "allSubs" /\ mutexAppList = NONE /\ mutexAppList' = "dump" /\ dumpAt' = "allBoth"
    BY <1>4 DEF ReclaimAllLockApps, DumpUnchanged, Free, history
  <2>2. mutexSubscribers = "dump"
    BY <1>0, <2>1 DEF Locks
  <2> QED BY <1>a, <2>1, <2>2, Names
<1>5. CASE ReclaimSubscriberAll
  <2>1. /\ UNCHANGED <<unwatched, subscribers, recipients, others, up, callAt, queue, handlerAt>>
        /\ dumpAt = "allBoth" /\ mutexSubscribers' = NONE /\ mutexAppList' = NONE /\ dumpAt' = "idle"
    BY <1>5 DEF ReclaimSubscriberAll, DumpUnchanged, history
  <2>2. mutexSubscribers = "dump" /\ mutexAppList = "dump"
    BY <1>0, <2>1 DEF Locks
  <2> QED BY <1>a, <2>1, <2>2, Names
<1> QED BY <1>1, <1>2, <1>3, <1>4, <1>5 DEF Dump

\* Every step keeps the invariant of the list.
LEMMA NextLInv ==
  ASSUME LInv, [Next]_vars
  PROVE  LInv'
BY PostLInv, RemovalLInv, HandlerLInv, DumpLInv DEF Next, Kit

-----------------------------------------------------------------------------
(* While no removal has the mutex, no death recipient is held for one that *)
(* is not listed, a listed subscriber has one unless AddSubscriberInner    *)
(* could not create it, none is listed twice, and the list is within its   *)
(* limit: for any number of subscribers, whichever of AddSubscriber,       *)
(* RemoveSubscriber, deaths, trims, dumps and crashes overlap.             *)
THEOREM ListIsWatched == Spec => []ListedWatched
<1>1. LInv => ListedWatched
  <2> SUFFICES ASSUME LInv, mutexSubscribers = NONE
               PROVE  /\ recipients \subseteq Range(subscribers)
                      /\ Range(subscribers) \subseteq recipients \cup unwatched
                      /\ IsInjective(subscribers)
                      /\ Len(subscribers) + others <= MaxSubs
    BY DEF ListedWatched, Free
  <2>1. Range(subscribers) \subseteq Subs
    BY RangeType DEF LInv, Typing
  <2> QED BY <2>1, Names DEF LInv, Listing
<1> QED BY <1>1, InitLInv, NextLInv, PTL DEF Spec

(* The handler, the dump command and any number of removals never wait for *)
(* each other in a circle: who holds mutexAppList_ waits for nobody, and   *)
(* who holds mutexSubscribers_ waits for mutexAppList_ at most.            *)
THEOREM NoDeadlock == Spec => []NobodyWaitsInCircle
<1>1. LInv => NobodyWaitsInCircle
  <2> SUFFICES ASSUME LInv, NEW ts \in (SUBSET Threads) \ {{}}
               PROVE  \E t \in ts : WaitsFor(t) \cap ts = {}
    BY DEF NobodyWaitsInCircle
  <2>1. Locks
    BY DEF LInv
  <2>2. \A t : WaitsFor(t) \subseteq {mutexSubscribers, mutexAppList}
    BY DEF WaitsFor
  <2>3. mutexAppList \in {"handler", "dump"} => WaitsFor(mutexAppList) = {}
    <3>1. CASE mutexAppList = "handler"
      <4>1. handlerAt = "app"
        BY <2>1, <3>1 DEF Locks
      <4> QED BY <3>1, <4>1, Names DEF WaitsFor, Runs
    <3>2. CASE mutexAppList = "dump"
      <4>1. dumpAt = "allBoth"
        BY <2>1, <3>2 DEF Locks
      <4> QED BY <3>2, <4>1, Names DEF WaitsFor
    <3> QED BY <3>1, <3>2
  <2>4. mutexSubscribers \in Subs \cup {"dump"} => WaitsFor(mutexSubscribers) \subseteq {mutexAppList}
    <3>1. CASE mutexSubscribers \in Subs
      <4>1. callAt[mutexSubscribers] # "remove"
        BY <2>1, <3>1 DEF Locks
      <4> QED BY <3>1, <4>1, Names DEF WaitsFor
    <3>2. CASE mutexSubscribers = "dump"
      <4>1. dumpAt \in {"allSubs", "allBoth"}
        BY <2>1, <3>2 DEF Locks
      <4> QED BY <3>2, <4>1, Names DEF WaitsFor
    <3> QED BY <3>1, <3>2
  <2>5. CASE mutexAppList \in ts
    <3>1. mutexAppList \in {"handler", "dump"}
      BY <2>1, <2>5, Names DEF Locks, Threads
    <3> QED BY <2>3, <2>5, <3>1
  <2>6. CASE mutexAppList \notin ts /\ mutexSubscribers \in ts
    <3>1. mutexSubscribers \in Subs \cup {"dump"}
      BY <2>1, <2>6, Names DEF Locks, Threads
    <3> QED BY <2>4, <2>6, <3>1
  <2>7. CASE mutexAppList \notin ts /\ mutexSubscribers \notin ts
    <3>1. PICK t \in ts : TRUE
      OBVIOUS
    <3>2. WaitsFor(t) \cap ts = {}
      BY <2>2, <2>7
    <3> QED BY <3>2
  <2> QED BY <2>5, <2>6, <2>7
<1> QED BY <1>1, InitLInv, NextLInv, PTL DEF Spec

-----------------------------------------------------------------------------
(* The invariant of the subscribers' side: a subscriber that has left is   *)
(* neither listed nor about to be; a listed one has OnConnected before it, *)
(* or its kit is in the state OnConnected left or the obituary made of it. *)

KTyping ==
  /\ instance \in 0 .. MaxCrashes /\ (~up => instance < MaxCrashes)
  /\ life \in [Subs -> {"live", "gone", "dead"}]
  /\ inbox \in [Subs -> Seq(Calls)]
  /\ view \in [Subs -> {"none", "connected", "disconnected", "died"}]
  /\ proxy \in [Subs -> 0 .. instance \cup {NONE}]
  /\ watched \in [Subs -> 0 .. instance \cup {NONE}]
  /\ wants \in [Subs -> {"in", "out"}]
  /\ overtaken \in [Subs -> BOOLEAN]

SilentAt(c) ==
  wants[c] = "out" /\ ~overtaken[c] =>
    /\ callAt[c] = "idle" => ~AddQueued(c) /\ ~Listed(c)
    /\ callAt[c] \in {"calling", "erase"} => ~AddQueued(c)

Settled(c) ==
  \/ view[c] = "connected" /\ proxy[c] # NONE /\ (proxy[c] = instance => watched[c] = instance)
  \/ view[c] = "died" /\ proxy[c] = NONE

ConnectedAt(c) ==
  Listed(c) /\ c \notin unwatched /\ life[c] = "live" /\ callAt[c] \notin {"calling", "erase"} =>
    "OnConnected" \in Range(inbox[c]) \/ Settled(c)

KInv == KTyping /\ \A c \in Subs : SilentAt(c) /\ ConnectedAt(c)

\* No call is sent to a subscriber that has left.
Hushed ==
  \A c \in Subs : (wants[c] = "out" /\ callAt[c] = "idle" /\ ~overtaken[c]) =>
    Len(inbox'[c]) <= Len(inbox[c])

\* Tasks other than additions do not queue an addition.
LEMMA QueueSteps ==
  ASSUME queue \in Seq(Tasks), NEW c \in Subs
  PROVE  /\ queue' = queue => (AddQueued(c)' => AddQueued(c))
         /\ queue # <<>> /\ queue' = Tail(queue) => (AddQueued(c)' => AddQueued(c))
         /\ \A t \in Tasks : t # Task("add", c, NONE) /\ queue' = Append(queue, t) => (AddQueued(c)' => AddQueued(c))
         /\ \A t \in Tasks : queue # <<>> /\ t # Task("add", c, NONE) /\ queue' = Append(Tail(queue), t) =>
              (AddQueued(c)' => AddQueued(c))
<1> DEFINE a == Task("add", c, NONE)
           Adds(q) == \E i \in DOMAIN q : q[i] = a
<1> HIDE DEF a
<1>1. ASSUME NEW q \in Seq(Tasks), q # <<>> PROVE Adds(Tail(q)) => Adds(q)
  <2> SUFFICES ASSUME NEW i \in DOMAIN Tail(q), Tail(q)[i] = a PROVE Adds(q)
    OBVIOUS
  <2>1. i + 1 \in DOMAIN q /\ q[i + 1] = Tail(q)[i]
    BY <1>1
  <2> QED BY <2>1
<1>2. ASSUME NEW q \in Seq(Tasks), NEW t \in Tasks, t # a PROVE Adds(Append(q, t)) => Adds(q)
  <2> SUFFICES ASSUME NEW i \in DOMAIN Append(q, t), Append(q, t)[i] = a PROVE Adds(q)
    OBVIOUS
  <2>1. i \in DOMAIN q /\ q[i] = Append(q, t)[i]
    BY <1>2
  <2> QED BY <2>1
<1>3. (AddQueued(c) <=> Adds(queue)) /\ (AddQueued(c)' <=> Adds(queue'))
  BY DEF AddQueued, a
<1>4. queue # <<>> => Tail(queue) \in Seq(Tasks)
  OBVIOUS
<1> HIDE DEF Adds
<1>5. queue' = queue => (AddQueued(c)' => AddQueued(c))
  BY <1>3
<1>6. ASSUME queue # <<>>, queue' = Tail(queue) PROVE AddQueued(c)' => AddQueued(c)
  BY <1>1, <1>3, <1>6
<1>7. ASSUME NEW t \in Tasks, t # a, queue' = Append(queue, t) PROVE AddQueued(c)' => AddQueued(c)
  BY <1>2, <1>3, <1>7
<1>8. ASSUME NEW t \in Tasks, queue # <<>>, t # a, queue' = Append(Tail(queue), t)
      PROVE  AddQueued(c)' => AddQueued(c)
  <2>1. Adds(queue') => Adds(Tail(queue))
    BY <1>2, <1>4, <1>8
  <2> QED BY <1>1, <1>3, <1>8, <2>1
<1> QED BY <1>5, <1>6, <1>7, <1>8 DEF a

\* What leaves the call, the queue and the list of a subscriber alone keeps it silent.
LEMMA SilentFrame ==
  ASSUME NEW c \in Subs, SilentAt(c),
         wants'[c] = wants[c], overtaken'[c] = overtaken[c], callAt'[c] = callAt[c],
         AddQueued(c)' => AddQueued(c), Listed(c)' => Listed(c) \/ AddQueued(c)
  PROVE  SilentAt(c)'
BY DEF SilentAt

\* What leaves the kit alone, and takes nothing from the inbox, keeps it connected.
LEMMA ConnectedFrame ==
  ASSUME NEW c \in Subs, ConnectedAt(c),
         Listed(c)' => Listed(c), life'[c] = "live" => life[c] = "live",
         c \in unwatched => c \in unwatched',
         callAt'[c] \notin {"calling", "erase"} => callAt[c] \notin {"calling", "erase"},
         "OnConnected" \in Range(inbox[c]) => "OnConnected" \in Range(inbox'[c]),
         view'[c] = view[c], proxy'[c] = proxy[c], watched'[c] = watched[c], instance' = instance
  PROVE  ConnectedAt(c)'
BY DEF ConnectedAt, Settled

\* News are only added, and only to subscribers that are told.
LEMMA NewsSent ==
  ASSUME inbox \in [Subs -> Seq(Calls)], NEW to
  PROVE  /\ News(inbox, to) \in [Subs -> Seq(Calls)]
         /\ \A c \in Subs : Range(inbox[c]) \subseteq Range(News(inbox, to)[c])
         /\ \A c \in Subs : c \notin to => News(inbox, to)[c] = inbox[c]
<1>1. ASSUME NEW c \in Subs
      PROVE  /\ News(inbox, to)[c] \in Seq(Calls)
             /\ Range(inbox[c]) \subseteq Range(News(inbox, to)[c])
             /\ c \notin to => News(inbox, to)[c] = inbox[c]
  <2>1. inbox[c] \in Seq(Calls) /\ "news" \in Calls
    BY DEF Calls
  <2>2. News(inbox, to)[c] = inbox[c] \/ (c \in to /\ News(inbox, to)[c] = Append(inbox[c], "news"))
    BY DEF News
  <2>3. /\ Append(inbox[c], "news") \in Seq(Calls)
        /\ Range(Append(inbox[c], "news")) = Range(inbox[c]) \cup {"news"}
    BY <2>1, RangeAppend
  <2> QED BY <2>1, <2>2, <2>3
<1>2. News(inbox, to) = [c \in Subs |-> News(inbox, to)[c]]
  BY DEF News
<1> QED BY <1>1, <1>2

\* The invariant of the kit holds before anyone subscribes.
LEMMA InitKInv == Init => KInv
<1> SUFFICES ASSUME Init PROVE KInv
  OBVIOUS
<1>1. MaxCrashes \in Nat
  BY SubscribersAssumption
<1>2. KTyping
  BY <1>1 DEF Init, KTyping
<1>3. \A c \in Subs : ~AddQueued(c) /\ ~Listed(c)
  BY DEF Init, AddQueued, Listed, Range
<1> QED BY <1>2, <1>3 DEF KInv, SilentAt, ConnectedAt

\* Steps that leave the subscribers' side alone but for news.
LEMMA QuietKInv ==
  ASSUME LInv, KInv, KTyping',
         UNCHANGED <<instance, up, life, view, proxy, watched, wants, overtaken, unwatched>>,
         inbox' = inbox \/ inbox' = News(inbox, Range(subscribers)),
         \A c \in Subs : callAt'[c] = callAt[c],
         \A c \in Subs : AddQueued(c)' => AddQueued(c),
         \A c \in Subs : Listed(c)' => Listed(c)
  PROVE  KInv' /\ Hushed
<1> SUFFICES ASSUME NEW c \in Subs
             PROVE  /\ SilentAt(c)' /\ ConnectedAt(c)'
                    /\ (wants[c] = "out" /\ callAt[c] = "idle" /\ ~overtaken[c]) => Len(inbox'[c]) <= Len(inbox[c])
  BY DEF KInv, Hushed
<1>0. SilentAt(c) /\ ConnectedAt(c) /\ inbox \in [Subs -> Seq(Calls)]
  BY DEF KInv, KTyping
<1>1. SilentAt(c)'
  BY <1>0, SilentFrame
<1>2. Range(inbox[c]) \subseteq Range(inbox'[c]) /\ (~Listed(c) => inbox'[c] = inbox[c])
  BY <1>0, NewsSent DEF Listed
<1>3. ConnectedAt(c)'
  BY <1>0, <1>2, ConnectedFrame
<1>4. ASSUME wants[c] = "out", callAt[c] = "idle", ~overtaken[c] PROVE Len(inbox'[c]) <= Len(inbox[c])
  <2>1. ~Listed(c)
    BY <1>0, <1>4 DEF SilentAt
  <2>2. Len(inbox[c]) \in Nat
    BY <1>0
  <2> QED BY <1>2, <2>1, <2>2
<1> QED BY <1>1, <1>3, <1>4

\* Posting, the other clients, the handler but for additions, and the dump command.
LEMMA ServiceKInv ==
  ASSUME LInv, KInv,
         \/ RegisterActiveApps \/ DeregisterActiveApps \/ ChangeAppState \/ NotifyMemoryLevel
         \/ OtherClients \/ ForceReclaimByDump \/ Dump \/ UNCHANGED vars
         \/ Handler /\ ~AddSubscriberInner
  PROVE  KInv' /\ Hushed
<1>0. /\ KTyping /\ queue \in Seq(Tasks) /\ subscribers \in Seq(Subs) /\ IsInjective(subscribers)
      /\ inbox \in [Subs -> Seq(Calls)]
  BY DEF LInv, KInv, Typing, Listing, KTyping
<1>a. ASSUME UNCHANGED <<instance, up, life, view, proxy, watched, wants, overtaken, unwatched, callAt>>,
             inbox' = inbox \/ inbox' = News(inbox, Range(subscribers)),
             \A c \in Subs : AddQueued(c)' => AddQueued(c),
             \A c \in Subs : Listed(c)' => Listed(c)
      PROVE  KInv' /\ Hushed
  <2>1. inbox' \in [Subs -> Seq(Calls)]
    BY <1>0, <1>a, NewsSent
  <2>2. KTyping'
    BY <1>0, <1>a, <2>1 DEF KTyping
  <2> QED BY <1>a, <2>2, QuietKInv
<1>b. subscribers' = subscribers => \A c \in Subs : Listed(c)' => Listed(c)
  BY DEF Listed
<1>1. ASSUME NEW t \in Tasks, t.kind # "add", Post(t) PROVE KInv' /\ Hushed
  <2>1. /\ UNCHANGED <<instance, up, life, inbox, view, proxy, watched, wants, overtaken, unwatched, callAt, subscribers>>
        /\ queue' = Append(queue, t)
    BY <1>1 DEF Post, Posted, serviceVars, kitVars, history
  <2>2. \A c \in Subs : t # Task("add", c, NONE)
    BY <1>1 DEF Task
  <2>3. \A c \in Subs : AddQueued(c)' => AddQueued(c)
    BY <1>0, <2>1, <2>2, QueueSteps
  <2> QED BY <1>a, <1>b, <2>1, <2>3
<1>2. CASE RegisterActiveApps \/ DeregisterActiveApps \/ ChangeAppState
  <2>1. PICK a \in AppCalls : Post(Task(a[1], a[2], a[3]))
    BY <1>2 DEF RegisterActiveApps, DeregisterActiveApps, ChangeAppState, AppCall
  <2>2. Task(a[1], a[2], a[3]) \in Tasks
    BY DEF Tasks
  <2>3. a[1] # "add"
    BY SubscribersAssumption
  <2>4. Task(a[1], a[2], a[3]).kind # "add"
    BY <2>3 DEF Task
  <2> QED BY <1>1, <2>1, <2>2, <2>4
<1>3. CASE NotifyMemoryLevel
  <2>1. Task("trim", NONE, NONE) \in Tasks /\ Task("trim", NONE, NONE).kind # "add"
    BY DEF Tasks, Task
  <2> QED BY <1>1, <1>3, <2>1 DEF NotifyMemoryLevel
<1>4. CASE OtherClients \/ ForceReclaimByDump \/ Dump \/ UNCHANGED vars \/ AppStateChanged \/ NotifySubscribers
  <2>1. /\ UNCHANGED <<instance, up, life, view, proxy, watched, wants, overtaken, unwatched, callAt, subscribers, queue>>
        /\ inbox' = inbox \/ inbox' = News(inbox, Range(subscribers))
    <3>1. CASE OtherClients
      BY <3>1 DEF OtherClients, kitVars, history
    <3>2. CASE ForceReclaimByDump
      BY <3>2 DEF ForceReclaimByDump, DumpUnchanged, kitVars, history
    <3>3. CASE ReclaimAllLockSubscribers \/ ReclaimAllLockApps
      BY <3>3 DEF ReclaimAllLockSubscribers, ReclaimAllLockApps, DumpUnchanged, kitVars, history
    <3>4. CASE ReclaimSubscriberAll \/ ReclaimSubscriberProc
      BY <3>4 DEF ReclaimSubscriberAll, ReclaimSubscriberProc, DumpUnchanged, kitVars, history
    <3>5. CASE UNCHANGED vars
      BY <3>5 DEF vars, serviceVars, kitVars, history
    <3>6. CASE AppStateChanged \/ NotifySubscribers
      BY <3>6 DEF AppStateChanged, NotifySubscribers, kitVars, history
    <3> QED BY <1>4, <3>1, <3>2, <3>3, <3>4, <3>5, <3>6 DEF Dump
  <2>2. \A c \in Subs : AddQueued(c)' => AddQueued(c)
    BY <1>0, <2>1, QueueSteps
  <2> QED BY <1>a, <1>b, <2>1, <2>2
<1>5. CASE RegisterActiveAppsInner \/ DeregisterActiveAppsInner \/ ChangeAppStateInner \/ TrimAllSubscribers
  <2>1. /\ UNCHANGED <<instance, up, life, view, proxy, watched, wants, overtaken, unwatched, callAt, subscribers>>
        /\ inbox' = inbox \/ inbox' = News(inbox, Range(subscribers))
        /\ queue # <<>> /\ queue' = Tail(queue)
    <3>1. CASE RegisterActiveAppsInner \/ DeregisterActiveAppsInner
      BY <3>1 DEF RegisterActiveAppsInner, DeregisterActiveAppsInner, Runs, kitVars, history
    <3>2. CASE ChangeAppStateInner \/ TrimAllSubscribers
      BY <3>2 DEF ChangeAppStateInner, TrimAllSubscribers, Runs, serviceVars, kitVars, history
    <3> QED BY <1>5, <3>1, <3>2
  <2>2. \A c \in Subs : AddQueued(c)' => AddQueued(c)
    BY <1>0, <2>1, QueueSteps
  <2> QED BY <1>a, <1>b, <2>1, <2>2
<1>6. CASE OnRemoteSubscriberDiedInner
  <2> DEFINE d == Head(queue).who
  <2>1. /\ UNCHANGED <<instance, up, life, view, proxy, watched, wants, overtaken, unwatched, callAt, inbox>>
        /\ queue # <<>> /\ queue' = Tail(queue)
        /\ subscribers' = Erased(subscribers, d)
    BY <1>6 DEF OnRemoteSubscriberDiedInner, Runs, kitVars, history
  <2> HIDE DEF d
  <2>2. \A c \in Subs : AddQueued(c)' => AddQueued(c)
    BY <1>0, <2>1, QueueSteps
  <2>3. Range(subscribers') \subseteq Range(subscribers)
    <3>1. CASE d \in Range(subscribers)
      <4>1. PICK k \in 1 .. Len(subscribers) : subscribers' = Without(subscribers, k)
        BY <1>0, <2>1, <3>1, ErasedOne
      <4> QED BY <1>0, <4>1, WithoutOne
    <3>2. CASE d \notin Range(subscribers)
      BY <1>0, <2>1, <3>2, ErasedOne
    <3> QED BY <3>1, <3>2
  <2>4. \A c \in Subs : Listed(c)' => Listed(c)
    BY <2>3 DEF Listed
  <2> QED BY <1>a, <2>1, <2>2, <2>4
<1> QED BY <1>2, <1>3, <1>4, <1>5, <1>6 DEF Handler

\* An addition tells the subscriber that it is connected.
LEMMA AdditionKInv ==
  ASSUME LInv, KInv, AddSubscriberInner
  PROVE  KInv' /\ Hushed
<1>0. /\ KTyping /\ queue \in Seq(Tasks) /\ subscribers \in Seq(Subs) /\ Listing /\ Locks
      /\ inbox \in [Subs -> Seq(Calls)] /\ \A c \in Subs : SilentAt(c) /\ ConnectedAt(c)
  BY DEF LInv, KInv, Typing, KTyping
<1>1. /\ UNCHANGED <<instance, up, life, view, proxy, watched, wants, overtaken, callAt>>
      /\ mutexSubscribers = NONE
      /\ queue # <<>> /\ Head(queue).kind = "add"
  BY DEF AddSubscriberInner, Runs, Free, kitVars, history
<1>2. PICK d \in Subs : d = Head(queue).who /\ Head(queue) = Task("add", d, NONE)
  BY <1>0, <1>1, HeadTask
<1> DEFINE added == ~Listed(d) /\ Len(subscribers) + others < MaxSubs
<1>3. PICK w \in {"told", "none", "refused"} :
        /\ subscribers' = IF added THEN Append(subscribers, d) ELSE subscribers
        /\ queue' = Tail(queue) \/ queue' = Append(Tail(queue), Task("died", d, NONE))
        /\ IF w = "none" THEN UNCHANGED inbox ELSE SendConnected(d)
        /\ w # "none" => added
        /\ unwatched' = CASE w = "told" -> unwatched \ {d}
                          [] added /\ w # "told" -> unwatched \cup {d}
                          [] OTHER -> unwatched
  BY <1>2 DEF AddSubscriberInner, Watching
<1>4. AddQueued(d)
  <2>1. 1 \in DOMAIN queue /\ queue[1] = Head(queue)
    BY <1>0, <1>1
  <2> QED BY <1>2, <2>1 DEF AddQueued
<1>5. /\ added /\ w = "none" => d \in unwatched'
      /\ \A c \in Subs \ {d} : c \in unwatched => c \in unwatched'
      /\ ~added => unwatched' = unwatched /\ w = "none"
  <2>1. CASE w = "told"
    BY <1>3, <2>1
  <2>2. CASE w # "told" /\ added
    <3>1. unwatched' = unwatched \cup {d}
      BY <1>3, <2>2
    <3> QED BY <2>2, <3>1
  <2>3. CASE w # "told" /\ ~added
    BY <1>3, <2>3
  <2> QED BY <2>1, <2>2, <2>3
<1>6. \A c \in Subs : AddQueued(c)' => AddQueued(c)
  <2>1. Task("died", d, NONE) \in Tasks /\ \A c \in Subs : Task("died", d, NONE) # Task("add", c, NONE)
    BY <1>2 DEF Tasks, Task
  <2>2. queue' = Tail(queue) \/ queue' = Append(Tail(queue), Task("died", d, NONE))
    BY <1>3
  <2> QED BY <1>0, <1>1, <2>1, <2>2, QueueSteps
<1>7. /\ Listed(d)' => Listed(d) \/ added
      /\ \A c \in Subs \ {d} : Listed(c)' => Listed(c)
  <2>1. added => Range(subscribers') = Range(subscribers) \cup {d}
    BY <1>0, <1>3, <1>2, RangeAppend
  <2>2. ~added => Range(subscribers') = Range(subscribers)
    BY <1>3
  <2> QED BY <1>5, <2>1, <2>2 DEF Listed
<1>8. /\ inbox' \in [Subs -> Seq(Calls)]
      /\ \A c \in Subs \ {d} : inbox'[c] = inbox[c]
      /\ Range(inbox[d]) \subseteq Range(inbox'[d])
      /\ w # "none" /\ life[d] = "live" => "OnConnected" \in Range(inbox'[d])
  <2>1. CASE w = "none" \/ life[d] = "dead"
    <3>1. inbox' = inbox
      BY <1>3, <2>1 DEF SendConnected
    <3> QED BY <1>0, <2>1, <3>1
  <2>2. CASE w # "none" /\ life[d] # "dead"
    <3>1. inbox' = [inbox EXCEPT ![d] = Append(inbox[d], "OnConnected")]
      BY <1>3, <2>2 DEF SendConnected
    <3>2. inbox[d] \in Seq(Calls) /\ "OnConnected" \in Calls
      BY <1>0, <1>2 DEF Calls
    <3>3. /\ Append(inbox[d], "OnConnected") \in Seq(Calls)
          /\ Range(Append(inbox[d], "OnConnected")) = Range(inbox[d]) \cup {"OnConnected"}
      BY <3>2, RangeAppend
    <3> QED BY <1>0, <1>2, <3>1, <3>3
  <2> QED BY <2>1, <2>2
<1>9. KTyping'
  BY <1>0, <1>1, <1>8 DEF KTyping
<1> HIDE DEF added
<1>10. ASSUME NEW c \in Subs PROVE SilentAt(c)' /\ ConnectedAt(c)'
  <2>1. SilentAt(c)'
    <3>1. Listed(c)' => Listed(c) \/ AddQueued(c)
      BY <1>4, <1>7
    <3> QED BY <1>0, <1>1, <1>6, <3>1, SilentFrame
  <2>2. CASE c # d \/ ~added
    <3>1. (Listed(c)' => Listed(c)) /\ (c \in unwatched => c \in unwatched')
      BY <1>5, <1>7, <2>2
    <3>2. "OnConnected" \in Range(inbox[c]) => "OnConnected" \in Range(inbox'[c])
      <4>1. CASE c = d
        BY <1>8, <4>1
      <4>2. CASE c # d
        BY <1>8, <4>2
      <4> QED BY <4>1, <4>2
    <3> QED BY <1>0, <1>1, <2>1, <3>1, <3>2, ConnectedFrame
  <2>3. CASE c = d /\ added /\ w # "none"
    BY <1>1, <1>8, <2>1, <2>3 DEF ConnectedAt
  <2>4. CASE c = d /\ added /\ w = "none"
    BY <1>5, <2>1, <2>4 DEF ConnectedAt
  <2> QED BY <2>2, <2>3, <2>4
<1>11. Hushed
  <2> SUFFICES ASSUME NEW c \in Subs, wants[c] = "out", callAt[c] = "idle", ~overtaken[c]
               PROVE  Len(inbox'[c]) <= Len(inbox[c])
    BY DEF Hushed
  <2>1. c # d
    BY <1>0, <1>4 DEF SilentAt
  <2>2. inbox'[c] = inbox[c] /\ Len(inbox[c]) \in Nat
    BY <1>0, <1>8, <2>1
  <2> QED BY <2>2
<1> QED BY <1>9, <1>10, <1>11 DEF KInv

\* Steps about one subscriber leave the others alone.
LEMMA OthersKInv ==
  ASSUME KInv, NEW d \in Subs, KTyping',
         UNCHANGED <<instance, unwatched>>,
         \A c \in Subs \ {d} :
           /\ wants'[c] = wants[c] /\ overtaken'[c] = overtaken[c] /\ callAt'[c] = callAt[c]
           /\ life'[c] = life[c] /\ inbox'[c] = inbox[c]
           /\ view'[c] = view[c] /\ proxy'[c] = proxy[c] /\ watched'[c] = watched[c]
           /\ AddQueued(c)' => AddQueued(c)
           /\ Listed(c)' => Listed(c),
         SilentAt(d)', ConnectedAt(d)', Len(inbox'[d]) <= Len(inbox[d])
  PROVE  KInv' /\ Hushed
<1>1. ASSUME NEW c \in Subs, c # d PROVE SilentAt(c)' /\ ConnectedAt(c)' /\ Len(inbox'[c]) <= Len(inbox[c])
  <2>1. SilentAt(c) /\ ConnectedAt(c) /\ inbox[c] \in Seq(Calls)
    BY DEF KInv, KTyping
  <2>2. SilentAt(c)'
    BY <1>1, <2>1, SilentFrame
  <2>3. ConnectedAt(c)'
    BY <1>1, <2>1, ConnectedFrame
  <2>4. Len(inbox[c]) \in Nat
    BY <2>1
  <2> QED BY <1>1, <2>2, <2>3, <2>4
<1>2. \A c \in Subs : SilentAt(c)' /\ ConnectedAt(c)' /\ Len(inbox'[c]) <= Len(inbox[c])
  BY <1>1
<1> QED BY <1>2 DEF KInv, Hushed

\* The calls of a subscriber.
LEMMA CallKInv ==
  ASSUME LInv, KInv, NEW d \in Subs,
         SubscribeAppState(d) \/ UnsubscribeAppState(d) \/ Remover(d)
  PROVE  KInv' /\ Hushed
<1>0. /\ KTyping /\ queue \in Seq(Tasks) /\ subscribers \in Seq(Subs) /\ Listing /\ Locks
      /\ callAt \in [Subs -> Places]
      /\ inbox[d] \in Seq(Calls) /\ SilentAt(d) /\ ConnectedAt(d) /\ IsInjective(subscribers)
  BY DEF LInv, KInv, Typing, KTyping, Listing
<1>a. Len(inbox[d]) \in Nat
  BY <1>0
<1>1. CASE SubscribeAppState(d)
  <2>1. /\ UNCHANGED <<instance, up, life, inbox, view, proxy, watched, overtaken, unwatched, callAt, subscribers>>
        /\ wants' = [wants EXCEPT ![d] = "in"] /\ queue' = Append(queue, Task("add", d, NONE))
    BY <1>1 DEF SubscribeAppState, Posted, serviceVars, kitVars
  <2>2. KTyping'
    BY <1>0, <2>1 DEF KTyping
  <2>3. wants'[d] = "in" /\ \A c \in Subs \ {d} : wants'[c] = wants[c]
    BY <1>0, <2>1 DEF KTyping
  <2>4. \A c \in Subs \ {d} : AddQueued(c)' => AddQueued(c)
    <3>1. Task("add", d, NONE) \in Tasks /\ \A c \in Subs \ {d} : Task("add", d, NONE) # Task("add", c, NONE)
      BY DEF Tasks, Task
    <3> QED BY <1>0, <2>1, <3>1, QueueSteps
  <2>5. \A c \in Subs : Listed(c)' => Listed(c)
    BY <2>1 DEF Listed
  <2>6. SilentAt(d)'
    BY <2>3 DEF SilentAt
  <2>7. ConnectedAt(d)'
    BY <1>0, <2>1, <2>5, ConnectedFrame
  <2> QED BY <1>a, <2>1, <2>2, <2>3, <2>4, <2>5, <2>6, <2>7, OthersKInv
<1>b. ASSUME UNCHANGED <<instance, up, life, inbox, view, proxy, watched, queue, unwatched>>,
             callAt' \in [Subs -> Places], wants' \in [Subs -> {"in", "out"}], overtaken' \in [Subs -> BOOLEAN],
             \A c \in Subs \ {d} : callAt'[c] = callAt[c] /\ wants'[c] = wants[c] /\ overtaken'[c] = overtaken[c],
             \A c \in Subs : Listed(c)' => Listed(c),
             callAt'[d] \notin {"calling", "erase"} => callAt[d] \notin {"calling", "erase"} \/ ~Listed(d)',
             SilentAt(d)'
      PROVE  KInv' /\ Hushed
  <2>1. KTyping'
    BY <1>0, <1>b DEF KTyping
  <2>2. \A c \in Subs : AddQueued(c)' => AddQueued(c)
    BY <1>b DEF AddQueued
  <2>3. ConnectedAt(d)'
    <3>1. CASE ~Listed(d)'
      BY <3>1 DEF ConnectedAt
    <3>2. CASE Listed(d)'
      BY <1>0, <1>b, <3>2, ConnectedFrame
    <3> QED BY <3>1, <3>2
  <2> QED BY <1>a, <1>b, <2>1, <2>2, <2>3, OthersKInv
<1>2. CASE UnsubscribeAppState(d)
  <2>1. /\ UNCHANGED <<instance, up, life, inbox, view, proxy, watched, overtaken, unwatched, queue, subscribers>>
        /\ wants' = [wants EXCEPT ![d] = "out"] /\ callAt[d] = "idle" /\ callAt' = [callAt EXCEPT ![d] = "remove"]
    BY <1>2 DEF UnsubscribeAppState, serviceVars, kitVars
  <2>2. /\ wants' \in [Subs -> {"in", "out"}] /\ overtaken' \in [Subs -> BOOLEAN] /\ callAt' \in [Subs -> Places]
        /\ callAt'[d] = "remove"
        /\ \A c \in Subs \ {d} : callAt'[c] = callAt[c] /\ wants'[c] = wants[c] /\ overtaken'[c] = overtaken[c]
    BY <1>0, <2>1 DEF KTyping, Places
  <2>3. \A c \in Subs : Listed(c)' => Listed(c)
    BY <2>1 DEF Listed
  <2>4. SilentAt(d)'
    BY <2>2 DEF SilentAt
  <2> QED BY <1>b, <2>1, <2>2, <2>3, <2>4
<1>3. CASE RemoveSubscriberInner(d)
  <2>1. /\ UNCHANGED <<instance, up, life, inbox, view, proxy, watched, wants, unwatched, queue, subscribers>>
        /\ overtaken' = [overtaken EXCEPT ![d] = AddQueued(d)] /\ callAt[d] = "remove"
        /\ \/ callAt' = [callAt EXCEPT ![d] = "calling"]
           \/ ~Listed(d) /\ callAt' = [callAt EXCEPT ![d] = "idle"]
    BY <1>3 DEF RemoveSubscriberInner, kitVars
  <2>2. AddQueued(d) \in BOOLEAN
    BY DEF AddQueued
  <2>3. overtaken' \in [Subs -> BOOLEAN] /\ (overtaken'[d] <=> AddQueued(d))
        /\ \A c \in Subs \ {d} : overtaken'[c] = overtaken[c]
    <3> HIDE DEF AddQueued
    <3> QED BY <1>0, <2>1, <2>2 DEF KTyping
  <2>4. /\ wants' \in [Subs -> {"in", "out"}] /\ callAt' \in [Subs -> Places]
        /\ callAt'[d] = "calling" \/ (~Listed(d) /\ callAt'[d] = "idle")
        /\ \A c \in Subs \ {d} : callAt'[c] = callAt[c] /\ wants'[c] = wants[c]
    BY <1>0, <2>1 DEF KTyping, Places
  <2>5. \A c \in Subs : Listed(c)' <=> Listed(c)
    BY <2>1 DEF Listed
  <2>6. AddQueued(d)' <=> AddQueued(d)
    BY <2>1 DEF AddQueued
  <2>7. SilentAt(d)'
    BY <2>3, <2>4, <2>5, <2>6 DEF SilentAt
  <2> QED BY <1>b, <2>1, <2>3, <2>4, <2>5, <2>7
<1>4. CASE DisconnectFailed(d)
  <2>1. /\ UNCHANGED <<instance, up, life, inbox, view, proxy, watched, wants, overtaken, unwatched, queue, subscribers>>
        /\ callAt[d] = "calling" /\ callAt' = [callAt EXCEPT ![d] = "erase"]
    BY <1>4 DEF DisconnectFailed, serviceVars, kitVars, history
  <2>2. /\ wants' \in [Subs -> {"in", "out"}] /\ overtaken' \in [Subs -> BOOLEAN] /\ callAt' \in [Subs -> Places]
        /\ callAt'[d] = "erase"
        /\ \A c \in Subs \ {d} : callAt'[c] = callAt[c] /\ wants'[c] = wants[c] /\ overtaken'[c] = overtaken[c]
    BY <1>0, <2>1 DEF KTyping, Places
  <2>3. \A c \in Subs : Listed(c)' => Listed(c)
    BY <2>1 DEF Listed
  <2>4. AddQueued(d)' <=> AddQueued(d)
    BY <2>1 DEF AddQueued
  <2>5. SilentAt(d)'
    BY <1>0, <2>1, <2>2, <2>4 DEF SilentAt
  <2> QED BY <1>b, <2>1, <2>2, <2>3, <2>5
<1>5. CASE EraseSubscriber(d)
  <2>1. /\ UNCHANGED <<instance, up, life, inbox, view, proxy, watched, wants, overtaken, unwatched, queue>>
        /\ callAt[d] = "erase" /\ callAt' = [callAt EXCEPT ![d] = "idle"]
        /\ subscribers' = RemoveFirst(subscribers, d)
    BY <1>5 DEF EraseSubscriber, kitVars, history
  <2>2. /\ wants' \in [Subs -> {"in", "out"}] /\ overtaken' \in [Subs -> BOOLEAN] /\ callAt' \in [Subs -> Places]
        /\ callAt'[d] = "idle"
        /\ \A c \in Subs \ {d} : callAt'[c] = callAt[c] /\ wants'[c] = wants[c] /\ overtaken'[c] = overtaken[c]
    BY <1>0, <2>1 DEF KTyping, Places
  <2>3. d \in Range(subscribers)
    BY <1>0, <2>1 DEF Locks, Listing, Listed
  <2>4. PICK k \in 1 .. Len(subscribers) : subscribers[k] = d /\ subscribers' = Without(subscribers, k)
    BY <1>0, <2>1, <2>3, RemoveFirstOne
  <2>5. Range(subscribers') = Range(subscribers) \ {d}
    BY <1>0, <2>4, WithoutOne
  <2>6. ~Listed(d)' /\ \A c \in Subs : Listed(c)' => Listed(c)
    BY <2>5 DEF Listed
  <2>7. AddQueued(d)' <=> AddQueued(d)
    BY <2>1 DEF AddQueued
  <2>8. SilentAt(d)'
    BY <1>0, <2>1, <2>2, <2>6, <2>7 DEF SilentAt
  <2> QED BY <1>b, <2>1, <2>2, <2>6, <2>8
<1> QED BY <1>1, <1>2, <1>3, <1>4, <1>5 DEF Remover

\* The kit of a subscriber, and the end of its listener or of its process.
LEMMA KitKInv ==
  ASSUME LInv, KInv, NEW d \in Subs,
         Kit(d) \/ SubscriberDies(d) \/ OnListenerDied(d)
  PROVE  KInv' /\ Hushed
<1>0. /\ KTyping /\ queue \in Seq(Tasks) /\ Listing /\ callAt \in [Subs -> Places]
      /\ inbox \in [Subs -> Seq(Calls)] /\ SilentAt(d) /\ ConnectedAt(d)
  BY DEF LInv, KInv, Typing, KTyping
<1>a. inbox[d] \in Seq(Calls) /\ Len(inbox[d]) \in Nat
  BY <1>0
<1>b. GetMemMgrProxy(d) \in 0 .. instance \cup {NONE}
  BY <1>0 DEF GetMemMgrProxy, KTyping
<1>c. subscribers' = subscribers => \A c \in Subs : Listed(c)' <=> Listed(c)
  BY DEF Listed
<1>d. queue' = queue => \A c \in Subs : AddQueued(c)' <=> AddQueued(c)
  BY DEF AddQueued
<1>1. CASE ServeInbox(d)
  <2>1. /\ UNCHANGED <<instance, up, life, wants, overtaken, unwatched, queue, subscribers, callAt>>
        /\ inbox[d] # <<>> /\ inbox' = [inbox EXCEPT ![d] = Tail(inbox[d])]
        /\ IF Head(inbox[d]) = "OnConnected" THEN OnConnected(d) ELSE OnNews
    BY <1>1 DEF ServeInbox, serviceVars, history
  <2>2. /\ inbox' \in [Subs -> Seq(Calls)] /\ inbox'[d] = Tail(inbox[d])
        /\ \A c \in Subs \ {d} : inbox'[c] = inbox[c]
    BY <1>0, <1>a, <2>1
  <2>3. Len(inbox'[d]) <= Len(inbox[d])
    BY <1>a, <2>1, <2>2
  <2>4. SilentAt(d)'
    BY <1>0, <1>c, <1>d, <2>1, SilentFrame
  <2>5. CASE Head(inbox[d]) = "OnConnected"
    <3>1. /\ proxy' = [proxy EXCEPT ![d] = GetMemMgrProxy(d)]
          /\ watched' = [watched EXCEPT ![d] = IF up /\ GetMemMgrProxy(d) = instance THEN instance ELSE watched[d]]
          /\ view' = [view EXCEPT ![d] = IF life[d] = "live" THEN "connected" ELSE view[d]]
      BY <2>1, <2>5 DEF OnConnected
    <3>2. /\ proxy' \in [Subs -> 0 .. instance \cup {NONE}] /\ watched' \in [Subs -> 0 .. instance \cup {NONE}]
          /\ view' \in [Subs -> {"none", "connected", "disconnected", "died"}]
          /\ proxy'[d] = GetMemMgrProxy(d)
          /\ watched'[d] = IF up /\ GetMemMgrProxy(d) = instance THEN instance ELSE watched[d]
          /\ life[d] = "live" => view'[d] = "connected"
          /\ \A c \in Subs \ {d} : view'[c] = view[c] /\ proxy'[c] = proxy[c] /\ watched'[c] = watched[c]
      <4> HIDE DEF GetMemMgrProxy
      <4> QED BY <1>0, <1>b, <3>1 DEF KTyping
    <3>3. KTyping'
      BY <1>0, <2>1, <2>2, <3>2 DEF KTyping
    <3>4. ConnectedAt(d)'
      <4> SUFFICES ASSUME Listed(d), life[d] = "live" PROVE Settled(d)'
        BY <1>c, <2>1 DEF ConnectedAt
      <4>1. up
        <5>1. subscribers # <<>>
          BY DEF Listed, Range
        <5> QED BY <1>0, <5>1 DEF Listing
      <4>2. instance # NONE
        BY <1>0, SubscribersAssumption DEF KTyping
      <4>3. proxy'[d] # NONE
        BY <3>2, <4>1, <4>2 DEF GetMemMgrProxy
      <4> QED BY <2>1, <3>2, <4>1, <4>3 DEF Settled
    <3> QED BY <1>c, <1>d, <2>1, <2>2, <2>3, <2>4, <3>2, <3>3, <3>4, OthersKInv
  <2>6. CASE Head(inbox[d]) # "OnConnected"
    <3>1. UNCHANGED <<proxy, watched, view>>
      BY <2>1, <2>6 DEF OnNews
    <3>2. KTyping'
      BY <1>0, <2>1, <2>2, <3>1 DEF KTyping
    <3>3. "OnConnected" \in Range(inbox[d]) => "OnConnected" \in Range(inbox'[d])
      <4> SUFFICES ASSUME NEW i \in DOMAIN inbox[d], inbox[d][i] = "OnConnected"
                   PROVE  "OnConnected" \in Range(inbox'[d])
        BY DEF Range
      <4>1. i # 1
        BY <1>a, <2>1, <2>6
      <4>2. i - 1 \in DOMAIN inbox'[d] /\ inbox'[d][i - 1] = inbox[d][i]
        BY <1>a, <2>1, <2>2, <4>1
      <4> QED BY <4>2 DEF Range
    <3>4. ConnectedAt(d)'
      BY <1>0, <1>c, <2>1, <3>1, <3>3, ConnectedFrame
    <3> QED BY <1>c, <1>d, <2>1, <2>2, <2>3, <2>4, <3>1, <3>2, <3>4, OthersKInv
  <2> QED BY <2>5, <2>6
<1>2. CASE OnDisconnected(d)
  <2>1. /\ UNCHANGED <<instance, up, life, inbox, wants, overtaken, unwatched, queue, subscribers>>
        /\ proxy' = [proxy EXCEPT ![d] = GetMemMgrProxy(d)]
        /\ watched' = [watched EXCEPT ![d] = IF GetMemMgrProxy(d) = watched[d] THEN NONE ELSE watched[d]]
        /\ view' = [view EXCEPT ![d] = IF life[d] = "live" THEN "disconnected" ELSE view[d]]
        /\ callAt[d] = "calling" /\ callAt' = [callAt EXCEPT ![d] = "erase"]
    BY <1>2 DEF OnDisconnected, serviceVars, history
  <2>2. /\ proxy' \in [Subs -> 0 .. instance \cup {NONE}] /\ watched' \in [Subs -> 0 .. instance \cup {NONE}]
        /\ view' \in [Subs -> {"none", "connected", "disconnected", "died"}]
        /\ callAt'[d] = "erase"
        /\ \A c \in Subs \ {d} : /\ view'[c] = view[c] /\ proxy'[c] = proxy[c] /\ watched'[c] = watched[c]
                                 /\ callAt'[c] = callAt[c]
    <3> HIDE DEF GetMemMgrProxy
    <3> QED BY <1>0, <1>b, <2>1 DEF KTyping
  <2>3. KTyping'
    BY <1>0, <2>1, <2>2 DEF KTyping
  <2>4. SilentAt(d)'
    BY <1>0, <1>d, <2>1, <2>2 DEF SilentAt
  <2>5. ConnectedAt(d)'
    BY <2>2 DEF ConnectedAt
  <2> QED BY <1>a, <1>c, <1>d, <2>1, <2>2, <2>3, <2>4, <2>5, OthersKInv
<1>e. ASSUME UNCHANGED <<instance, up, wants, overtaken, unwatched, subscribers, callAt, watched>>, Dies(d),
             proxy' \in [Subs -> 0 .. instance \cup {NONE}],
             view' \in [Subs -> {"none", "connected", "disconnected", "died"}],
             \A c \in Subs \ {d} : proxy'[c] = proxy[c] /\ view'[c] = view[c]
      PROVE  KInv' /\ Hushed
  <2>1. /\ life' = [life EXCEPT ![d] = "dead"] /\ inbox' = [inbox EXCEPT ![d] = <<>>]
        /\ queue' = queue \/ queue' = Append(queue, Task("died", d, NONE))
    BY <1>e DEF Dies
  <2>2. /\ life' \in [Subs -> {"live", "gone", "dead"}] /\ inbox' \in [Subs -> Seq(Calls)]
        /\ life'[d] = "dead" /\ inbox'[d] = <<>>
        /\ \A c \in Subs \ {d} : life'[c] = life[c] /\ inbox'[c] = inbox[c]
    BY <1>0, <2>1 DEF KTyping
  <2>3. KTyping'
    BY <1>0, <1>e, <2>2 DEF KTyping
  <2>4. \A c \in Subs : AddQueued(c)' => AddQueued(c)
    <3>1. Task("died", d, NONE) \in Tasks /\ \A c \in Subs : Task("died", d, NONE) # Task("add", c, NONE)
      BY DEF Tasks, Task
    <3> QED BY <1>0, <2>1, <3>1, QueueSteps
  <2>5. SilentAt(d)'
    BY <1>0, <1>c, <1>e, <2>4, SilentFrame
  <2>6. ConnectedAt(d)'
    BY <2>2 DEF ConnectedAt
  <2>7. Len(inbox'[d]) <= Len(inbox[d])
    BY <1>a, <2>2
  <2> QED BY <1>c, <1>e, <2>2, <2>3, <2>4, <2>5, <2>6, <2>7, OthersKInv
<1>3. CASE SubscriberDies(d)
  <2>1. UNCHANGED <<instance, up, wants, overtaken, unwatched, subscribers, callAt, watched, proxy, view>> /\ Dies(d)
    BY <1>3 DEF SubscriberDies, serviceVars, kitVars, history
  <2> QED BY <1>0, <1>e, <2>1 DEF KTyping
<1>4. CASE OnRemoteDied(d)
  <2>1. /\ UNCHANGED <<instance, up, wants, overtaken, unwatched, subscribers, callAt, watched>>
        /\ proxy' = [proxy EXCEPT ![d] = NONE]
        /\ view' = [view EXCEPT ![d] = IF life[d] = "live" THEN "died" ELSE view[d]]
        /\ UNCHANGED <<life, queue, inbox>> \/ Dies(d)
    BY <1>4 DEF OnRemoteDied, serviceVars, history
  <2>2. /\ proxy' \in [Subs -> 0 .. instance \cup {NONE}]
        /\ view' \in [Subs -> {"none", "connected", "disconnected", "died"}]
        /\ proxy'[d] = NONE /\ (life[d] = "live" => view'[d] = "died")
        /\ \A c \in Subs \ {d} : proxy'[c] = proxy[c] /\ view'[c] = view[c]
    BY <1>0, <2>1 DEF KTyping
  <2>3. CASE Dies(d)
    BY <1>e, <2>1, <2>2, <2>3
  <2>4. CASE UNCHANGED <<life, queue, inbox>>
    <3>1. KTyping'
      BY <1>0, <2>1, <2>2, <2>4 DEF KTyping
    <3>2. SilentAt(d)'
      BY <1>0, <1>c, <1>d, <2>1, <2>4, SilentFrame
    <3>3. ConnectedAt(d)'
      BY <2>2, <2>4 DEF ConnectedAt, Settled
    <3> QED BY <1>a, <1>c, <1>d, <2>1, <2>2, <2>4, <3>1, <3>2, <3>3, OthersKInv
  <2> QED BY <2>1, <2>3, <2>4
<1>5. CASE OnListenerDied(d)
  <2>1. /\ UNCHANGED <<instance, up, wants, overtaken, unwatched, subscribers, callAt, watched, proxy, view, queue, inbox>>
        /\ life' = [life EXCEPT ![d] = "gone"]
    BY <1>5 DEF OnListenerDied, serviceVars, kitVars, history
  <2>2. /\ life' \in [Subs -> {"live", "gone", "dead"}] /\ life'[d] = "gone"
        /\ \A c \in Subs \ {d} : life'[c] = life[c]
    BY <1>0, <2>1 DEF KTyping
  <2>3. KTyping'
    BY <1>0, <2>1, <2>2 DEF KTyping
  <2>4. SilentAt(d)'
    BY <1>0, <1>c, <1>d, <2>1, SilentFrame
  <2>5. ConnectedAt(d)'
    BY <2>2 DEF ConnectedAt
  <2> QED BY <1>a, <1>c, <1>d, <2>1, <2>2, <2>3, <2>4, <2>5, OthersKInv
<1> QED BY <1>1, <1>2, <1>3, <1>4, <1>5 DEF Kit

\* A crash empties the list and the queue, which stay empty until the restart.
LEMMA CrashKInv ==
  ASSUME LInv, KInv, Crash \/ Restart
  PROVE  KInv' /\ Hushed
<1>0. KTyping /\ Listing /\ (\A c \in Subs : inbox[c] \in Seq(Calls)) /\ MaxCrashes \in Nat
  BY SubscribersAssumption DEF LInv, KInv, KTyping
<1>1. /\ UNCHANGED <<life, inbox, view, proxy, wants, overtaken, unwatched>>
      /\ subscribers' = <<>> /\ queue' = <<>>
      /\ \/ ~up' /\ instance' = instance /\ instance < MaxCrashes /\ watched' = [c \in Subs |-> NONE]
         \/ up' /\ instance' = instance + 1 /\ ~up /\ watched' = watched
  <2>1. CASE Crash
    BY <2>1 DEF Crash, history
  <2>2. CASE Restart
    BY <1>0, <2>2 DEF Restart, Listing, serviceVars, kitVars, history
  <2> QED BY <2>1, <2>2
<1>2. instance' \in 0 .. MaxCrashes /\ (~up' => instance' < MaxCrashes)
  <2>1. instance \in 0 .. MaxCrashes /\ (~up => instance < MaxCrashes)
    BY <1>0 DEF KTyping
  <2> QED BY <1>0, <1>1, <2>1
<1>3. KTyping'
  <2>1. 0 .. instance \subseteq 0 .. instance'
    <3>1. instance \in Nat /\ (instance' = instance \/ instance' = instance + 1)
      BY <1>0, <1>1 DEF KTyping
    <3> QED BY <3>1
  <2>2. proxy' \in [Subs -> 0 .. instance' \cup {NONE}]
    BY <1>0, <1>1, <2>1 DEF KTyping
  <2>3. watched' \in [Subs -> 0 .. instance' \cup {NONE}]
    <3>1. watched' = watched \/ watched' = [c \in Subs |-> NONE]
      BY <1>1
    <3> QED BY <1>0, <2>1, <3>1 DEF KTyping
  <2> QED BY <1>0, <1>1, <1>2, <2>2, <2>3 DEF KTyping
<1>4. \A c \in Subs : ~AddQueued(c)' /\ ~Listed(c)'
  BY <1>1 DEF AddQueued, Listed, Range
<1>5. \A c \in Subs : Len(inbox'[c]) <= Len(inbox[c])
  <2>1. \A c \in Subs : Len(inbox[c]) \in Nat
    BY <1>0
  <2> QED BY <1>1, <2>1
<1> QED BY <1>3, <1>4, <1>5 DEF KInv, SilentAt, ConnectedAt, Hushed

\* Every step keeps the invariant of the kit, and sends nothing to who unsubscribed.
LEMMA NextKInv ==
  ASSUME LInv, KInv, [Next]_vars
  PROVE  KInv' /\ Hushed
BY ServiceKInv, AdditionKInv, CallKInv, KitKInv, CrashKInv DEF Next

(* A subscriber the service lists, with nothing under way, was last told   *)
(* that it is connected, or that the service died: whatever crashes,       *)
(* repeated subscriptions and late reports came before.                    *)
THEOREM ListedOnesConnected == Spec => []ListedIsConnected
<1>1. KInv => ListedIsConnected
  <2> SUFFICES ASSUME KInv, NEW c \in Subs, Listed(c), c \notin unwatched, Quiet(c), life[c] = "live" PROVE Settled(c)
    BY DEF ListedIsConnected, Settled
  <2>1. inbox[c] = <<>> /\ callAt[c] = "idle"
    BY DEF Quiet
  <2>2. "OnConnected" \notin Range(inbox[c])
    BY <2>1 DEF Range
  <2> QED BY <2>1, <2>2 DEF KInv, ConnectedAt
<1> QED BY <1>1, InitLInv, NextLInv, InitKInv, NextKInv, PTL DEF Spec

(* After UnsubscribeAppState has returned, unless an addition was queued   *)
(* at its time, the service sends the subscriber nothing more until it     *)
(* subscribes again.                                                       *)
THEOREM UnsubscribedIsSilent == Spec => SilentAfterUnsubscribe
<1>1. LInv /\ KInv /\ [Next]_vars => [Hushed]_vars
  BY NextKInv
<1>2. LInv /\ [Next]_vars => LInv'
  BY NextLInv
<1>3. LInv /\ KInv /\ [Next]_vars => KInv'
  BY NextKInv
<1>4. Spec => [][Hushed]_vars
  BY <1>1, <1>2, <1>3, InitLInv, InitKInv, PTL DEF Spec
<1> QED BY <1>4 DEF SilentAfterUnsubscribe, Hushed

-----------------------------------------------------------------------------
(* The type invariant.                                                     *)

\* appList_ has its limit, and every pid in it a uid.
AppsTyped ==
  /\ DOMAIN appList \subseteq Apps /\ \A p \in DOMAIN appList : appList[p] \in Uids
  /\ IsFiniteSet(DOMAIN appList) /\ Cardinality(DOMAIN appList) <= MaxApps

PlacesTyped ==
  /\ up \in BOOLEAN
  /\ handlerAt \in {"idle", "app", "notify"}
  /\ dumpAt \in {"idle", "all", "allSubs", "allBoth", "proc"}
  /\ obituary \in [Subs -> BOOLEAN]

\* The app of a request.
LEMMA AppTask ==
  ASSUME LInv, queue # <<>>, Head(queue).kind \in {"register", "deregister"}
  PROVE  Head(queue).who \in Apps /\ Head(queue).uid \in Uids
<1>1. Head(queue) \in Tasks
  BY DEF LInv, Typing
<1>2. PICK a \in AppCalls : Head(queue) = Task(a[1], a[2], a[3])
  BY <1>1 DEF Tasks, Task
<1>3. a \in {"register", "deregister", "change"} \X Apps \X Uids
  BY SubscribersAssumption
<1>4. a[2] \in Apps /\ a[3] \in Uids
  BY <1>3
<1> QED BY <1>2, <1>4 DEF Task

\* RegisterActiveAppsInner adds an app while there is room for it.
LEMMA RegisterTyped ==
  ASSUME LInv, AppsTyped, RegisterActiveAppsInner
  PROVE  AppsTyped'
<1>1. PICK p : p = Head(queue).who
  OBVIOUS
<1>2. PICK u : u = Head(queue).uid
  OBVIOUS
<1>3. p \in Apps /\ u \in Uids
  BY <1>1, <1>2, AppTask DEF RegisterActiveAppsInner, Runs
<1>4. CASE appList' = appList
  BY <1>4 DEF AppsTyped
<1>5. CASE /\ appList' = [q \in DOMAIN appList \union {p} |-> IF q = p THEN u ELSE appList[q]]
           /\ Cardinality(DOMAIN appList) < MaxApps /\ p \notin DOMAIN appList
  <2>1. /\ DOMAIN appList' = DOMAIN appList \cup {p}
        /\ \A q \in DOMAIN appList' : appList'[q] = IF q = p THEN u ELSE appList[q]
    BY <1>5
  <2>2. /\ IsFiniteSet(DOMAIN appList \cup {p})
        /\ Cardinality(DOMAIN appList \cup {p}) = Cardinality(DOMAIN appList) + 1
    BY <1>5, FS_AddElement DEF AppsTyped
  <2>3. Cardinality(DOMAIN appList) \in Nat /\ MaxApps \in Nat
    BY FS_CardinalityType, SubscribersAssumption DEF AppsTyped
  <2>4. Cardinality(DOMAIN appList') <= MaxApps
    BY <1>5, <2>1, <2>2, <2>3
  <2> QED BY <1>3, <2>1, <2>2, <2>4 DEF AppsTyped
<1> QED BY <1>1, <1>2, <1>4, <1>5 DEF RegisterActiveAppsInner

\* DeregisterActiveAppsInner takes one away.
LEMMA DeregisterTyped ==
  ASSUME AppsTyped, DeregisterActiveAppsInner
  PROVE  AppsTyped'
<1>1. PICK p : p = Head(queue).who
  OBVIOUS
<1>2. CASE appList' = appList
  BY <1>2 DEF AppsTyped
<1>3. CASE appList' = Restrict(appList, DOMAIN appList \ {p})
  <2>1. /\ DOMAIN appList' = DOMAIN appList \ {p}
        /\ \A q \in DOMAIN appList' : appList'[q] = appList[q]
    BY <1>3 DEF Restrict
  <2>2. IsFiniteSet(DOMAIN appList \ {p}) /\ Cardinality(DOMAIN appList \ {p}) <= Cardinality(DOMAIN appList)
    <3>1. DOMAIN appList \ {p} \in SUBSET DOMAIN appList
      OBVIOUS
    <3> QED BY <3>1, FS_Subset DEF AppsTyped
  <2>3. /\ Cardinality(DOMAIN appList) \in Nat /\ MaxApps \in Nat
        /\ Cardinality(DOMAIN appList \ {p}) \in Nat
    BY <2>2, FS_CardinalityType, SubscribersAssumption DEF AppsTyped
  <2>4. Cardinality(DOMAIN appList') <= MaxApps
    BY <2>1, <2>2, <2>3 DEF AppsTyped
  <2> QED BY <2>1, <2>2, <2>4 DEF AppsTyped
<1> QED BY <1>1, <1>2, <1>3 DEF DeregisterActiveAppsInner

\* No other step adds an app.
LEMMA AppsStep ==
  ASSUME LInv, AppsTyped, [Next]_vars
  PROVE  AppsTyped'
<1>1. ASSUME UNCHANGED appList PROVE AppsTyped'
  BY <1>1 DEF AppsTyped
<1>2. CASE \/ RegisterActiveApps \/ DeregisterActiveApps \/ ChangeAppState \/ NotifyMemoryLevel
           \/ OtherClients \/ ForceReclaimByDump \/ Restart \/ Dump \/ UNCHANGED vars
  BY <1>1, <1>2 DEF RegisterActiveApps, DeregisterActiveApps, ChangeAppState, NotifyMemoryLevel, AppCall, Post,
       OtherClients, ForceReclaimByDump, Restart, Dump, DumpUnchanged, ReclaimAllLockSubscribers,
       ReclaimAllLockApps, ReclaimSubscriberAll, ReclaimSubscriberProc, vars, serviceVars
<1>3. CASE Crash
  <2>1. appList' = NoApps
    BY <1>3 DEF Crash
  <2>2. DOMAIN appList' = {}
    BY <2>1 DEF NoApps
  <2>3. IsFiniteSet({}) /\ Cardinality({}) = 0 /\ MaxApps \in Nat
    BY FS_EmptySet, SubscribersAssumption
  <2> QED BY <2>2, <2>3 DEF AppsTyped
<1>4. CASE Handler
  <2>1. CASE \/ AddSubscriberInner \/ OnRemoteSubscriberDiedInner \/ ChangeAppStateInner
             \/ AppStateChanged \/ NotifySubscribers \/ TrimAllSubscribers
    BY <1>1, <2>1 DEF AddSubscriberInner, OnRemoteSubscriberDiedInner, ChangeAppStateInner,
         AppStateChanged, NotifySubscribers, TrimAllSubscribers, serviceVars
  <2> QED BY <1>4, <2>1, RegisterTyped, DeregisterTyped DEF Handler
<1>5. ASSUME NEW c \in Subs,
             \/ Remover(c) \/ Kit(c) \/ SubscribeAppState(c) \/ UnsubscribeAppState(c)
             \/ SubscriberDies(c) \/ OnListenerDied(c)
      PROVE  AppsTyped'
  BY <1>1, <1>5 DEF Remover, RemoveSubscriberInner, DisconnectFailed, EraseSubscriber, Kit, ServeInbox,
       OnDisconnected, OnRemoteDied, SubscribeAppState, UnsubscribeAppState, SubscriberDies, OnListenerDied,
       serviceVars
<1> QED BY <1>2, <1>3, <1>4, <1>5 DEF Next

\* The places of the threads and the reports stay typed.
LEMMA PlacesStep ==
  ASSUME PlacesTyped, [Next]_vars
  PROVE  PlacesTyped'
<1>1. ASSUME UNCHANGED <<up, handlerAt, dumpAt, obituary>> PROVE PlacesTyped'
  BY <1>1 DEF PlacesTyped
<1>2. CASE \/ RegisterActiveApps \/ DeregisterActiveApps \/ ChangeAppState \/ NotifyMemoryLevel
           \/ OtherClients \/ UNCHANGED vars
  BY <1>1, <1>2 DEF RegisterActiveApps, DeregisterActiveApps, ChangeAppState, NotifyMemoryLevel, AppCall, Post,
       OtherClients, vars, serviceVars, kitVars
<1>3. CASE ForceReclaimByDump \/ Dump
  <2>1. UNCHANGED <<up, handlerAt, obituary>>
    BY <1>3 DEF ForceReclaimByDump, Dump, DumpUnchanged, ReclaimAllLockSubscribers,
         ReclaimAllLockApps, ReclaimSubscriberAll, ReclaimSubscriberProc, kitVars
  <2>2. dumpAt' \in {"idle", "all", "allSubs", "allBoth", "proc"}
    BY <1>3 DEF ForceReclaimByDump, Dump, ReclaimAllLockSubscribers,
         ReclaimAllLockApps, ReclaimSubscriberAll, ReclaimSubscriberProc
  <2> QED BY <2>1, <2>2 DEF PlacesTyped
<1>4. CASE Crash
  BY <1>4 DEF Crash, PlacesTyped
<1>5. CASE Restart
  BY <1>5 DEF Restart, serviceVars, kitVars, PlacesTyped
<1>6. CASE Handler
  <2>1. UNCHANGED <<up, dumpAt, obituary>>
    BY <1>6 DEF Handler, AddSubscriberInner, OnRemoteSubscriberDiedInner, RegisterActiveAppsInner,
         DeregisterActiveAppsInner, ChangeAppStateInner, AppStateChanged, NotifySubscribers,
         TrimAllSubscribers, kitVars
  <2>2. handlerAt' = handlerAt \/ handlerAt' \in {"idle", "app", "notify"}
    BY <1>6 DEF Handler, AddSubscriberInner, OnRemoteSubscriberDiedInner, RegisterActiveAppsInner,
         DeregisterActiveAppsInner, ChangeAppStateInner, AppStateChanged, NotifySubscribers,
         TrimAllSubscribers, serviceVars
  <2> QED BY <2>1, <2>2 DEF PlacesTyped
<1>7. ASSUME NEW c \in Subs, OnRemoteDied(c) PROVE PlacesTyped'
  <2>1. obituary' = [obituary EXCEPT ![c] = FALSE] /\ UNCHANGED <<up, handlerAt, dumpAt>>
    BY <1>7 DEF OnRemoteDied, serviceVars
  <2> QED BY <2>1 DEF PlacesTyped
<1>8. ASSUME NEW c \in Subs,
             \/ Remover(c) \/ ServeInbox(c) \/ OnDisconnected(c) \/ SubscribeAppState(c)
             \/ UnsubscribeAppState(c) \/ SubscriberDies(c) \/ OnListenerDied(c)
      PROVE  PlacesTyped'
  BY <1>1, <1>8 DEF Remover, RemoveSubscriberInner, DisconnectFailed, EraseSubscriber, ServeInbox,
       OnDisconnected, SubscribeAppState, UnsubscribeAppState, SubscriberDies, OnListenerDied,
       serviceVars, kitVars
<1> QED BY <1>2, <1>3, <1>4, <1>5, <1>6, <1>7, <1>8 DEF Next, Kit

(* The type invariant.  Part of it is that neither the list of subscribers *)
(* nor that of the active apps grows over its limit, and that a kit keeps  *)
(* and watches only proxies of instances of the service that have existed. *)
THEOREM TypeCorrect == Spec => []TypeOK
<1>1. Init => AppsTyped /\ PlacesTyped
  <2> SUFFICES ASSUME Init PROVE AppsTyped /\ PlacesTyped
    OBVIOUS
  <2>1. DOMAIN appList = {}
    BY DEF Init, NoApps
  <2>2. IsFiniteSet({}) /\ Cardinality({}) = 0 /\ MaxApps \in Nat
    BY FS_EmptySet, SubscribersAssumption
  <2>3. AppsTyped
    BY <2>1, <2>2 DEF AppsTyped
  <2> QED BY <2>3 DEF Init, PlacesTyped
<1>2. LInv /\ AppsTyped /\ PlacesTyped /\ [Next]_vars => (AppsTyped /\ PlacesTyped)'
  BY AppsStep, PlacesStep
<1>3. LInv /\ [Next]_vars => LInv'
  BY NextLInv
<1>4. LInv /\ KInv /\ [Next]_vars => KInv'
  BY NextKInv
<1>5. LInv /\ KInv /\ AppsTyped /\ PlacesTyped => TypeOK
  <2> SUFFICES ASSUME LInv, KInv, AppsTyped, PlacesTyped PROVE TypeOK
    OBVIOUS
  <2>1. /\ Range(subscribers) \subseteq Subs /\ others \in Nat /\ Len(subscribers) + others <= MaxSubs
        /\ recipients \subseteq Subs /\ Range(queue) \subseteq Tasks
        /\ callAt \in [Subs -> {"idle", "remove", "calling", "erase"}]
    BY RangeType DEF LInv, Typing, Listing, Places
  <2>2. mutexSubscribers \in Threads \union {NONE} /\ mutexAppList \in {"handler", "dump", NONE}
    BY DEF LInv, Locks, Threads
  <2>3. /\ instance \in 0 .. MaxCrashes
        /\ life \in [Subs -> {"live", "gone", "dead"}]
        /\ view \in [Subs -> {"none", "connected", "disconnected", "died"}]
        /\ proxy \in [Subs -> 0 .. instance \union {NONE}]
        /\ watched \in [Subs -> 0 .. instance \union {NONE}]
        /\ wants \in [Subs -> {"in", "out"}]
        /\ overtaken \in [Subs -> BOOLEAN] /\ unwatched \subseteq Subs
    BY DEF LInv, Typing, KInv, KTyping
  <2>4. \A c \in Subs : Range(inbox[c]) \subseteq {"OnConnected", "news"}
    <3>1. \A c \in Subs : inbox[c] \in Seq(Calls)
      BY DEF KInv, KTyping
    <3> QED BY <3>1, RangeType DEF Calls
  <2>5. Range(appList) \subseteq Uids
    BY DEF AppsTyped, Range
  <2> QED BY <2>1, <2>2, <2>3, <2>4, <2>5 DEF TypeOK, AppsTyped, PlacesTyped
<1> QED BY <1>1, <1>2, <1>3, <1>4, <1>5, InitLInv, InitKInv, PTL DEF Spec
=============================================================================
