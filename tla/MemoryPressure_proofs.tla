----------------------- MODULE MemoryPressure_proofs -----------------------
(***************************************************************************)
(* Proofs about MemoryPressure: what a trigger purges adds up to no more   *)
(* than it needs, shared blocks go by their most important holder, and the *)
(* subscribers are asked last, whatever other threads, applications and    *)
(* faults do between two of its steps.                                     *)
(***************************************************************************)
EXTENDS MemoryPressure, FiniteSetTheorems, WellFoundedInduction, TLAPS

-----------------------------------------------------------------------------
(* Sums and least elements.                                                *)

\* Among some natural numbers there is a least.
LEMMA SmallestOf ==
  ASSUME NEW I, I \subseteq Nat, I # {}
  PROVE  \E m \in I : \A j \in I : m =< j
<1>1. PICK m \in I : \A j \in I : ~(<<j, m>> \in OpToRel(<, Nat))
  BY NatLessThanWellFounded, WFMin
<1>2. ASSUME NEW j \in I, ~(m =< j) PROVE FALSE
  <2>1. <<j, m>> \in OpToRel(<, Nat)
    BY <1>2 DEF OpToRel
  <2> QED BY <1>1, <2>1
<1> QED BY <1>2

\* The equation of the sum over the subsets of S.
Pick(s) == CHOOSE x \in s : TRUE
SumStep(f, g, s) == IF s = {} THEN 0 ELSE f[Pick(s)] + g[s \ {Pick(s)}]
SumsTo(f, S, g, k) == \A s \in SUBSET S : Cardinality(s) <= k => g[s] = SumStep(f, g, s)
IsSum(f, S, g) == g = [s \in SUBSET S |-> SumStep(f, g, s)]

\* The community modules' sum over a set is the value of a recursive function at the set.
LEMMA SumIter ==
  ASSUME NEW f, NEW S
  PROVE  SumFunctionOnSet(f, S) = (CHOOSE g : IsSum(f, S, g))[S]
BY DEF SumFunctionOnSet, FoldFunctionOnSet, MapThenFoldSet, IsSum, SumStep, Pick

\* There is such a sum, with natural values, ...
LEMMA SumUpTo ==
  ASSUME NEW S, IsFiniteSet(S), NEW f, \A x \in S : f[x] \in Nat, NEW k \in Nat
  PROVE  \E g \in [SUBSET S -> Nat] : SumsTo(f, S, g, k)
<1> DEFINE I == {n \in Nat : ~\E g \in [SUBSET S -> Nat] : SumsTo(f, S, g, n)}
<1>0. \A s \in SUBSET S : /\ IsFiniteSet(s) /\ Cardinality(s) \in Nat /\ (Cardinality(s) = 0 <=> s = {})
                          /\ s # {} => Pick(s) \in s /\ Cardinality(s \ {Pick(s)}) = Cardinality(s) - 1
  <2> SUFFICES ASSUME NEW s \in SUBSET S
               PROVE  /\ IsFiniteSet(s) /\ Cardinality(s) \in Nat /\ (Cardinality(s) = 0 <=> s = {})
                      /\ s # {} => Pick(s) \in s /\ Cardinality(s \ {Pick(s)}) = Cardinality(s) - 1
    OBVIOUS
  <2>1. IsFiniteSet(s)
    BY FS_Subset
  <2>2. Cardinality(s) \in Nat /\ (Cardinality(s) = 0 <=> s = {})
    BY <2>1, FS_CardinalityType, FS_EmptySet
  <2>3. s # {} => Pick(s) \in s
    BY DEF Pick
  <2>4. s # {} => Cardinality(s \ {Pick(s)}) = Cardinality(s) - 1
    BY <2>1, <2>3, FS_RemoveElement
  <2> QED BY <2>1, <2>2, <2>3, <2>4
<1>1. SUFFICES ASSUME I # {} PROVE FALSE
  OBVIOUS
<1>2. PICK m \in I : \A j \in I : m =< j
  <2>1. I \subseteq Nat
    OBVIOUS
  <2> HIDE DEF I
  <2> QED BY <1>1, <2>1, SmallestOf
<1>3. m # 0
  <2>1. ASSUME m = 0 PROVE FALSE
    <3> DEFINE z == [s \in SUBSET S |-> 0]
    <3>1. z \in [SUBSET S -> Nat]
      OBVIOUS
    <3>2. ASSUME NEW s \in SUBSET S, Cardinality(s) <= 0 PROVE z[s] = SumStep(f, z, s)
      <4>0. Cardinality(s) \in Nat /\ (Cardinality(s) = 0 <=> s = {})
        BY <1>0
      <4>1. s = {}
        <5>1. Cardinality(s) = 0
          BY <3>2, <4>0
        <5> QED BY <4>0, <5>1
      <4>2. z[s] = 0
        OBVIOUS
      <4> HIDE DEF z
      <4> QED BY <4>1, <4>2 DEF SumStep
    <3> HIDE DEF z
    <3>3. SumsTo(f, S, z, m)
      BY <2>1, <3>2 DEF SumsTo
    <3> QED BY <3>1, <3>3
  <2> QED BY <2>1
<1>4. m \in Nat /\ m - 1 \in Nat /\ m - 1 \notin I
  <2>1. m \in Nat
    BY <1>2
  <2>2. m - 1 \in Nat /\ ~(m =< m - 1)
    BY <1>3, <2>1
  <2> HIDE DEF I
  <2> QED BY <1>2, <2>1, <2>2
<1>5. PICK g \in [SUBSET S -> Nat] : SumsTo(f, S, g, m - 1)
  BY <1>4
<1> DEFINE h == [s \in SUBSET S |-> IF Cardinality(s) = m THEN SumStep(f, g, s) ELSE g[s]]
<1>6. h \in [SUBSET S -> Nat]
  <2>1. ASSUME NEW s \in SUBSET S PROVE SumStep(f, g, s) \in Nat
    <3>1. CASE s = {}
      BY <3>1 DEF SumStep
    <3>2. CASE s # {}
      <4>1. Pick(s) \in S /\ s \ {Pick(s)} \in SUBSET S
        BY <1>0, <3>2
      <4>2. f[Pick(s)] \in Nat /\ g[s \ {Pick(s)}] \in Nat
        BY <1>5, <4>1
      <4> QED BY <3>2, <4>2 DEF SumStep
    <3> QED BY <3>1, <3>2
  <2> QED BY <1>5, <2>1
<1>7. ASSUME NEW s \in SUBSET S, Cardinality(s) <= m PROVE h[s] = SumStep(f, h, s)
  <2>1. SumStep(f, h, s) = SumStep(f, g, s)
    <3>1. CASE s = {}
      BY <3>1 DEF SumStep
    <3>2. CASE s # {}
      <4>1. s \ {Pick(s)} \in SUBSET S /\ Cardinality(s \ {Pick(s)}) # m
        BY <1>0, <1>4, <1>7, <3>2
      <4>2. h[s \ {Pick(s)}] = g[s \ {Pick(s)}]
        BY <4>1
      <4> HIDE DEF h
      <4> QED BY <3>2, <4>2 DEF SumStep
    <3> QED BY <3>1, <3>2
  <2>2. CASE Cardinality(s) = m
    BY <2>1, <2>2
  <2>3. CASE Cardinality(s) # m
    <3>0. Cardinality(s) \in Nat
      BY <1>0
    <3>1. Cardinality(s) <= m - 1
      BY <1>4, <1>7, <2>3, <3>0
    <3>2. g[s] = SumStep(f, g, s)
      BY <1>5, <3>1, Zenon DEF SumsTo
    <3> QED BY <2>1, <2>3, <3>2
  <2> QED BY <2>2, <2>3
<1> HIDE DEF h
<1>8. SumsTo(f, S, h, m)
  BY <1>7 DEF SumsTo
<1> QED BY <1>2, <1>6, <1>8

\* ... and every such sum has them.
LEMMA SumType ==
  ASSUME NEW S, IsFiniteSet(S), NEW f, \A x \in S : f[x] \in Nat
  PROVE  SumFunctionOnSet(f, S) \in Nat
<1>1. PICK g \in [SUBSET S -> Nat] : SumsTo(f, S, g, Cardinality(S))
  <2>1. Cardinality(S) \in Nat
    BY FS_CardinalityType
  <2> QED BY <2>1, SumUpTo
<1>2. ASSUME NEW s \in SUBSET S PROVE g[s] = SumStep(f, g, s)
  <2>1. Cardinality(s) <= Cardinality(S)
    BY FS_Subset
  <2> QED BY <1>1, <2>1, Zenon DEF SumsTo
<1>3. g = [s \in SUBSET S |-> SumStep(f, g, s)]
  BY <1>2
<1>4. IsSum(f, S, CHOOSE a : IsSum(f, S, a))
  BY <1>3 DEF IsSum
<1>5. ASSUME NEW a, IsSum(f, S, a) PROVE a[S] \in Nat
  <2> DEFINE I == {Cardinality(s) : s \in {s \in SUBSET S : a[s] \notin Nat}}
  <2>1. I \subseteq Nat
    <3>1. \A s \in SUBSET S : Cardinality(s) \in Nat
      BY FS_Subset, FS_CardinalityType
    <3> QED BY <3>1
  <2>2. SUFFICES ASSUME I # {} PROVE FALSE
    OBVIOUS
  <2>3. PICK m \in I : \A j \in I : m =< j
    <3> HIDE DEF I
    <3> QED BY <2>1, <2>2, SmallestOf
  <2>4. PICK s \in SUBSET S : a[s] \notin Nat /\ m = Cardinality(s)
    BY <2>3
  <2>5. IsFiniteSet(s) /\ m \in Nat
    BY <2>1, <2>3, FS_Subset
  <2>6. a[s] = SumStep(f, a, s)
    BY <1>5 DEF IsSum
  <2>7. s # {}
    BY <2>4, <2>6 DEF SumStep
  <2>8. Pick(s) \in s
    BY <2>7 DEF Pick
  <2>9. Cardinality(s \ {Pick(s)}) = m - 1
    BY <2>4, <2>5, <2>8, FS_RemoveElement
  <2>10. a[s \ {Pick(s)}] \in Nat
    <3>1. ~(m =< m - 1)
      BY <2>5
    <3>2. Cardinality(s \ {Pick(s)}) \notin I
      <4> HIDE DEF I
      <4> QED BY <2>3, <2>9, <3>1
    <3>3. s \ {Pick(s)} \in SUBSET S
      OBVIOUS
    <3> QED BY <3>2, <3>3
  <2>11. f[Pick(s)] \in Nat
    BY <2>8
  <2>12. a[s] = f[Pick(s)] + a[s \ {Pick(s)}]
    BY <2>6, <2>7 DEF SumStep
  <2> QED BY <2>4, <2>10, <2>11, <2>12
<1> QED BY <1>4, <1>5, SumIter

\* Min of two numbers.
LEMMA MinOfTwo ==
  ASSUME NEW a \in Int, NEW b \in Int
  PROVE  Min({a, b}) = IF a <= b THEN a ELSE b
<1>1. CASE a <= b
  <2>1. a \in {a, b} /\ \A y \in {a, b} : a =< y
    BY <1>1
  <2>2. \A x \in {a, b} : (\A y \in {a, b} : x =< y) => x = a
    BY <1>1
  <2> QED BY <1>1, <2>1, <2>2 DEF Min
<1>2. CASE ~(a <= b)
  <2>1. b \in {a, b} /\ \A y \in {a, b} : b =< y
    BY <1>2
  <2>2. \A x \in {a, b} : (\A y \in {a, b} : x =< y) => x = b
    BY <1>2
  <2> QED BY <1>2, <2>1, <2>2 DEF Min
<1> QED BY <1>1, <1>2

\* The least of a set is the one element below all others.
LEMMA MinIs ==
  ASSUME NEW I, I \subseteq Int, NEW p \in I, \A y \in I : p =< y
  PROVE  Min(I) = p
<1>1. \A x \in I : (\A y \in I : x =< y) => x = p
  OBVIOUS
<1> QED BY <1>1 DEF Min

-----------------------------------------------------------------------------
(* The scan of the ashmem file: GetashmIdToInfoMap.                        *)

MapStep(g, i) ==
  IF i = 0 THEN [b \in {} |-> 0]
  ELSE IF Lines[i].block \in ashm THEN MergeLine(g[i - 1], Lines[i]) ELSE g[i - 1]
IsMap(g) == g = [i \in 0 .. Len(Lines) |-> MapStep(g, i)]
MapsTo(g, k) == \A i \in 0 .. Len(Lines) : i <= k => g[i] = MapStep(g, i)

\* The map is the value of the loop after the last line.
LEMMA MapIter == GetashmIdToInfoMap = (CHOOSE g : IsMap(g))[Len(Lines)]
BY DEF GetashmIdToInfoMap, IsMap, MapStep

\* The loop over the lines ends with a map.
LEMMA MapExists == \E g : IsMap(g)
<1> DEFINE N == Len(Lines)
           I == {n \in 0 .. N : ~\E g : g = [i \in 0 .. N |-> g[i]] /\ MapsTo(g, n)}
<1>0. N \in Nat
  BY PressureAssumption
<1>1. ASSUME I # {} PROVE FALSE
  <2>1. I \subseteq Nat
    BY <1>0
  <2>2. PICK m \in I : \A j \in I : m =< j
    <3> HIDE DEF I
    <3> QED BY <1>1, <2>1, SmallestOf
  <2>3. m \in 0 .. N /\ ~\E g : g = [i \in 0 .. N |-> g[i]] /\ MapsTo(g, m)
    BY <2>2
  <2> HIDE DEF N
  <2>4. m # 0
    <3>1. ASSUME m = 0 PROVE FALSE
      <4> DEFINE z == [i \in 0 .. N |-> [b \in {} |-> 0]]
      <4>1. z = [i \in 0 .. N |-> z[i]]
        OBVIOUS
      <4>2. ASSUME NEW i \in 0 .. N, i <= m PROVE z[i] = MapStep(z, i)
        <5>1. i = 0
          BY <1>0, <3>1, <4>2
        <5> QED BY <5>1 DEF MapStep
      <4> HIDE DEF z
      <4>3. MapsTo(z, m)
        BY <4>2 DEF MapsTo, N
      <4> QED BY <2>3, <4>1, <4>3
    <3> QED BY <3>1
  <2>5. m - 1 \in 0 .. N /\ m - 1 \notin I
    <3>1. m - 1 \in 0 .. N /\ ~(m =< m - 1)
      BY <1>0, <2>3, <2>4
    <3> HIDE DEF I
    <3> QED BY <2>2, <3>1
  <2>6. PICK g : g = [i \in 0 .. N |-> g[i]] /\ MapsTo(g, m - 1)
    BY <2>5
  <2> DEFINE h == [i \in 0 .. N |-> IF i = m THEN MapStep(g, i) ELSE g[i]]
  <2>7. h = [i \in 0 .. N |-> h[i]]
    OBVIOUS
  <2>8. ASSUME NEW i \in 0 .. N, i <= m PROVE h[i] = MapStep(h, i)
    <3>1. MapStep(h, i) = MapStep(g, i)
      <4>1. CASE i = 0
        BY <4>1 DEF MapStep
      <4>2. CASE i # 0
        <5>1. i - 1 \in 0 .. N /\ i - 1 # m
          BY <1>0, <2>3, <2>8, <4>2
        <5>2. h[i - 1] = g[i - 1]
          BY <5>1
        <5> HIDE DEF h
        <5> QED BY <5>2 DEF MapStep
      <4> QED BY <4>1, <4>2
    <3>2. CASE i = m
      <4>1. h[i] = MapStep(g, i)
        BY <3>2
      <4> QED BY <3>1, <4>1
    <3>3. CASE i # m
      <4>1. i <= m - 1
        BY <1>0, <2>3, <2>8, <3>3
      <4>2. g[i] = MapStep(g, i)
        BY <2>6, <4>1 DEF MapsTo, N
      <4>3. h[i] = g[i]
        BY <3>3
      <4> QED BY <3>1, <4>2, <4>3
    <3> QED BY <3>2, <3>3
  <2> HIDE DEF h
  <2>9. MapsTo(h, m)
    BY <2>8 DEF MapsTo, N
  <2> QED BY <2>3, <2>7, <2>9
<1>2. N \in 0 .. N /\ N \notin I
  BY <1>0, <1>1
<1>3. PICK g : g = [i \in 0 .. N |-> g[i]] /\ MapsTo(g, N)
  BY <1>2
<1>4. \A i \in 0 .. N : g[i] = MapStep(g, i)
  BY <1>0, <1>3 DEF MapsTo
<1>5. g = [i \in 0 .. N |-> MapStep(g, i)]
  BY <1>3, <1>4
<1> QED BY <1>5 DEF IsMap

\* The priority p is that of the most important holder of b in the first k lines.
Leads(p, b, k) ==
  /\ \E j \in 1 .. k : Lines[j].block = b /\ Lines[j].adj = p
  /\ \A j \in 1 .. k : Lines[j].block = b => p <= Lines[j].adj

\* What the map says after the first k lines.
Scanned(map, k) ==
  /\ \A b \in DOMAIN map : map[b] \in Entries /\ map[b].block = b /\ Leads(map[b].prio, b, k)
  /\ DOMAIN map = {b \in ashm : \E j \in 1 .. k : Lines[j].block = b}

\* What a line of the file says.
LEMMA LineType ==
  /\ Len(Lines) \in Nat /\ DOMAIN Lines = 1 .. Len(Lines)
  /\ \A i \in 1 .. Len(Lines) : /\ Lines[i].block \in Blocks /\ Lines[i].adj \in Int
                                /\ Entry(Lines[i]) \in Entries /\ Entry(Lines[i]).block = Lines[i].block
                                /\ Entry(Lines[i]).prio = Lines[i].adj
<1>1. Len(Lines) \in Nat /\ DOMAIN Lines = 1 .. Len(Lines)
  BY PressureAssumption
<1>2. ASSUME NEW i \in 1 .. Len(Lines)
      PROVE  /\ Lines[i].block \in Blocks /\ Lines[i].adj \in Int
             /\ Entry(Lines[i]) \in Entries /\ Entry(Lines[i]).block = Lines[i].block
             /\ Entry(Lines[i]).prio = Lines[i].adj
  <2>1. Lines[i].block \in Blocks /\ Lines[i].adj \in Int
    BY <1>1, PressureAssumption
  <2>2. SizeKB[Lines[i].block] \in Nat
    BY <2>1, PressureAssumption
  <2>3. Lines[i].app \in {Lines[j].app : j \in DOMAIN Lines}
    BY <1>1
  <2> QED BY <2>1, <2>2, <2>3 DEF Entry, Entries
<1> QED BY <1>1, <1>2

\* One line more.
LEMMA ScanStep ==
  ASSUME NEW k \in 1 .. Len(Lines), NEW map, Scanned(map, k - 1)
  PROVE  /\ Lines[k].block \in ashm => Scanned(MergeLine(map, Lines[k]), k)
         /\ Lines[k].block \notin ashm => Scanned(map, k)
<1> DEFINE line == Lines[k]
           c == line.block
<1>0. /\ k \in Nat /\ k - 1 \in Nat /\ Len(Lines) \in Nat
      /\ \A j \in 1 .. k : j \in 1 .. k - 1 \/ j = k
      /\ \A j \in 1 .. k - 1 : j \in 1 .. k /\ j # k
      /\ \A j \in 1 .. k : j \in 1 .. Len(Lines)
  BY LineType
<1>1. \A j \in 1 .. Len(Lines) : Lines[j].adj \in Int
  BY LineType
<1>2. Entry(line) \in Entries /\ Entry(line).block = c /\ Entry(line).prio = line.adj /\ line.adj \in Int
  BY LineType
<1>3. ASSUME NEW b, b # c, NEW p, Leads(p, b, k - 1) PROVE Leads(p, b, k)
  BY <1>0, <1>3 DEF Leads
<1>4. DOMAIN map = {b \in ashm : \E j \in 1 .. k - 1 : Lines[j].block = b}
  BY DEF Scanned
<1>5. CASE c \notin ashm
  <2>1. ASSUME NEW b \in DOMAIN map PROVE map[b] \in Entries /\ map[b].block = b /\ Leads(map[b].prio, b, k)
    <3>1. b # c
      BY <1>4, <1>5
    <3> QED BY <1>3, <3>1 DEF Scanned
  <2>2. DOMAIN map = {b \in ashm : \E j \in 1 .. k : Lines[j].block = b}
    BY <1>0, <1>4, <1>5
  <2> QED BY <1>5, <2>1, <2>2 DEF Scanned
<1>6. CASE c \in ashm /\ c \notin DOMAIN map
  <2> DEFINE new == AddLine(map, line)
  <2>1. DOMAIN new = DOMAIN map \cup {c} /\ new[c] = Entry(line) /\ \A b \in DOMAIN map : new[b] = map[b]
    BY <1>6 DEF AddLine
  <2>2. new = MergeLine(map, line)
    BY <1>6 DEF MergeLine
  <2> HIDE DEF new
  <2>3. ASSUME NEW b \in DOMAIN map PROVE new[b] \in Entries /\ new[b].block = b /\ Leads(new[b].prio, b, k)
    <3>1. b # c
      BY <1>6
    <3> QED BY <1>3, <2>1, <3>1 DEF Scanned
  <2>4. Leads(line.adj, c, k)
    <3>1. \A j \in 1 .. k - 1 : Lines[j].block # c
      BY <1>4, <1>6
    <3>2. k \in 1 .. k /\ line.adj <= line.adj
      BY <1>0, <1>2
    <3> QED BY <1>0, <3>1, <3>2 DEF Leads
  <2>5. DOMAIN new = {b \in ashm : \E j \in 1 .. k : Lines[j].block = b}
    <3>1. k \in 1 .. k
      BY <1>0
    <3> QED BY <1>0, <1>4, <1>6, <2>1, <3>1
  <2>6. \A b \in DOMAIN new : new[b] \in Entries /\ new[b].block = b /\ Leads(new[b].prio, b, k)
    BY <1>2, <2>1, <2>3, <2>4
  <2>7. Scanned(new, k)
    BY <2>5, <2>6 DEF Scanned
  <2> QED BY <1>6, <2>2, <2>7
<1>7. CASE c \in ashm /\ c \in DOMAIN map
  <2> DEFINE new == [map EXCEPT ![c].prio = Min({map[c].prio, line.adj})]
  <2>0. map[c] \in Entries /\ map[c].block = c /\ Leads(map[c].prio, c, k - 1) /\ map[c].prio \in Int
    BY <1>7 DEF Scanned, Entries
  <2>1. PICK p : p = Min({map[c].prio, line.adj})
    OBVIOUS
  <2>2. p \in Int /\ p = IF map[c].prio <= line.adj THEN map[c].prio ELSE line.adj
    BY <1>2, <2>0, <2>1, MinOfTwo
  <2>3. new = MergeLine(map, line)
    BY <1>7 DEF MergeLine
  <2>4. new = [map EXCEPT ![c].prio = p]
    BY <2>1
  <2> HIDE DEF new
  <2>5. /\ DOMAIN new = DOMAIN map /\ \A b \in DOMAIN map : b # c => new[b] = map[b]
        /\ new[c] = [map[c] EXCEPT !.prio = p]
    BY <1>7, <2>4
  <2>6. new[c] \in Entries /\ new[c].block = c /\ new[c].prio = p
    BY <2>0, <2>2, <2>5 DEF Entries
  <2>7. Leads(p, c, k)
    <3>1. k \in 1 .. k
      BY <1>0
    <3>2. \E j \in 1 .. k : Lines[j].block = c /\ Lines[j].adj = p
      BY <1>0, <2>0, <2>2, <3>1 DEF Leads
    <3>3. ASSUME NEW j \in 1 .. k, Lines[j].block = c PROVE p <= Lines[j].adj
      <4>1. CASE j = k
        BY <1>2, <2>0, <2>2, <4>1
      <4>2. CASE j \in 1 .. k - 1
        <5>1. map[c].prio <= Lines[j].adj /\ Lines[j].adj \in Int
          BY <1>0, <1>1, <2>0, <3>3, <4>2 DEF Leads
        <5> QED BY <1>2, <2>0, <2>2, <5>1
      <4> QED BY <1>0, <4>1, <4>2
    <3> QED BY <3>2, <3>3 DEF Leads
  <2>8. ASSUME NEW b \in DOMAIN map, b # c
        PROVE  new[b] \in Entries /\ new[b].block = b /\ Leads(new[b].prio, b, k)
    BY <1>3, <2>5, <2>8 DEF Scanned
  <2>9. DOMAIN new = {b \in ashm : \E j \in 1 .. k : Lines[j].block = b}
    BY <1>0, <1>4, <1>7, <2>5
  <2>10. Scanned(new, k)
    BY <2>5, <2>6, <2>7, <2>8, <2>9 DEF Scanned
  <2> QED BY <1>7, <2>3, <2>10
<1> QED BY <1>5, <1>6, <1>7

\* The whole file.
LEMMA MapScanned == Scanned(GetashmIdToInfoMap, Len(Lines))
<1> DEFINE N == Len(Lines)
<1>0. N \in Nat
  BY LineType
<1>1. PICK g : IsMap(g) /\ GetashmIdToInfoMap = g[N]
  BY MapExists, MapIter
<1>2. \A i \in 0 .. N : g[i] = MapStep(g, i)
  BY <1>1 DEF IsMap
<1> DEFINE I == {n \in 0 .. N : ~Scanned(g[n], n)}
<1>3. ASSUME I # {} PROVE FALSE
  <2>1. I \subseteq Nat
    BY <1>0
  <2>2. PICK m \in I : \A j \in I : m =< j
    <3> HIDE DEF I
    <3> QED BY <1>3, <2>1, SmallestOf
  <2>3. m \in 0 .. N /\ ~Scanned(g[m], m)
    BY <2>2
  <2>4. m # 0
    <3>1. ASSUME m = 0 PROVE FALSE
      <4>1. g[0] = [b \in {} |-> 0]
        BY <1>0, <1>2 DEF MapStep
      <4>2. DOMAIN g[0] = {}
        BY <4>1
      <4>3. {b \in ashm : \E j \in 1 .. 0 : Lines[j].block = b} = {}
        OBVIOUS
      <4> QED BY <2>3, <3>1, <4>2, <4>3 DEF Scanned
    <3> QED BY <3>1
  <2>5. m - 1 \in 0 .. N /\ ~(m =< m - 1) /\ m \in 1 .. Len(Lines)
    BY <1>0, <2>3, <2>4
  <2>6. Scanned(g[m - 1], m - 1)
    <3>1. m - 1 \notin I
      <4> HIDE DEF I, N
      <4> QED BY <2>2, <2>5
    <3> QED BY <2>5, <3>1
  <2>7. g[m] = IF Lines[m].block \in ashm THEN MergeLine(g[m - 1], Lines[m]) ELSE g[m - 1]
    <3>1. g[m] = MapStep(g, m)
      BY <1>2, <2>3
    <3> QED BY <2>4, <3>1 DEF MapStep
  <2> HIDE DEF I, N
  <2> QED BY <2>3, <2>5, <2>6, <2>7, ScanStep
<1>4. Scanned(g[N], N)
  <2>1. N \in 0 .. N
    BY <1>0
  <2> HIDE DEF N
  <2> QED BY <1>3, <2>1
<1> QED BY <1>1, <1>4

\* A priority that some holder has and none is below is the importance of the block.
LEMMA ImportanceIs ==
  ASSUME NEW p, NEW b, Leads(p, b, Len(Lines))
  PROVE  Importance(b) = p /\ p \in Int
<1> DEFINE I == {Lines[i].adj : i \in {i \in DOMAIN Lines : Lines[i].block = b}}
<1>1. I \subseteq Int /\ p \in I /\ \A y \in I : p =< y
  BY LineType DEF Leads
<1>2. Importance(b) = Min(I)
  BY DEF Importance
<1> HIDE DEF I
<1> QED BY <1>1, <1>2, MinIs

\* What the scan finds.
Ranked(e) == e \in Entries /\ e.prio = Importance(e.block)

\* Every entry of the scan carries the priority of its most important holder.
LEMMA FoundRanked == \A e \in GetPurgeableAshmInfo : Ranked(e)
<1> DEFINE map == GetashmIdToInfoMap
<1>1. ASSUME NEW e \in GetPurgeableAshmInfo PROVE Ranked(e)
  <2>1. PICK b \in DOMAIN map : e = map[b]
    BY <1>1 DEF GetPurgeableAshmInfo
  <2> HIDE DEF map
  <2>2. map[b] \in Entries /\ map[b].block = b /\ Leads(map[b].prio, b, Len(Lines))
    BY MapScanned DEF Scanned, map
  <2>3. Importance(b) = map[b].prio
    BY <2>2, ImportanceIs
  <2> QED BY <2>1, <2>2, <2>3 DEF Ranked
<1> QED BY <1>1

-----------------------------------------------------------------------------
(* The inductive invariant: what is known of the purge handler's work.     *)

PhaseNames == {"idle", "heap", "heapAll", "memcg", "ashm", "block", "trim"}
HeapPhases == {"heap", "heapAll", "memcg"}
WorkRec ==
  [phase : PhaseNames, target : 0 .. MAX_BUFFER_KB, info : Nat, result : Nat,
   users : SUBSET Users, list : SUBSET Entries,
   short : Int, found : SUBSET Blocks, tried : SUBSET Blocks]

\* What is still short is the target less what this type gave, and something is.
Balanced(w) ==
  /\ w.phase # "idle" => w.result < w.target /\ w.short = w.target - w.result
  /\ w.phase \notin {"memcg", "block"} => w.result = 0

\* The blocks to do are not more important than those tried ...
Ordered(w) == \A e \in w.list : Ranked(e) /\ \A b \in w.tried : e.prio <= Importance(b)

\* ... and none that was found is missed.
Complete(w) ==
  /\ w.phase \in HeapPhases \cup {"ashm"} => w.tried = {} /\ w.found = {}
  /\ w.phase = "block" => \A b \in w.found \ w.tried : \E e \in w.list : IsPurgeWhiteApp(e.app) /\ e.block = b
  /\ w.phase = "trim" => w.found \subseteq w.tried

WInv(w) == w \in WorkRec /\ Balanced(w) /\ Ordered(w) /\ Complete(w)

KInv ==
  /\ psi \in {"off", "armed", "gone"} /\ kswapd \in {"off", "armed", "gone"}
  /\ levels \in 0 .. MaxQueue
  /\ queue \in Seq(Sources) /\ Len(queue) <= MaxQueue
  /\ since \in NEVER .. TRIGGER_INTERVAL_SECOND
  /\ buffer \in 0 .. MAX_BUFFER_KB
  /\ heap \in [Memcgs -> 0 .. MaxHeap]
  /\ ashm \subseteq Blocks
  /\ faults \in 0 .. MaxFaults
  /\ changes \in 0 .. MaxChanges

IInv == KInv /\ WInv(work)

\* A handler without work satisfies the invariant of the work.
LEMMA IdleInv == WInv(Idle)
<1>1. Idle \in WorkRec
  BY PressureAssumption DEF Idle, WorkRec, PhaseNames
<1>2. Idle.phase = "idle" /\ Idle.result = 0 /\ Idle.list = {}
  BY DEF Idle
<1>3. Balanced(Idle) /\ Ordered(Idle) /\ Complete(Idle)
  <2> HIDE DEF Idle
  <2> QED BY <1>2 DEF Balanced, Ordered, Complete, HeapPhases
<1> QED BY <1>1, <1>3 DEF WInv

\* The fields of a work that starts or goes on to another phase.
LEMMA PhaseFields ==
  ASSUME work \in WorkRec, NEW name \in PhaseNames
  PROVE  /\ Phase(name) \in WorkRec
         /\ Phase(name).phase = name /\ Phase(name).target = work.target /\ Phase(name).short = work.short
         /\ Phase(name).found = work.found /\ Phase(name).tried = work.tried
         /\ Phase(name).result = 0 /\ Phase(name).list = {}
<1>1. Idle \in WorkRec /\ Idle.result = 0 /\ Idle.list = {}
  BY IdleInv DEF WInv, Idle
<1> HIDE DEF PhaseNames, Idle
<1> QED BY <1>1 DEF Phase, WorkRec

\* So does a trigger that begins with a positive target.
LEMMA TriggerInv ==
  ASSUME NEW target \in 1 .. MAX_BUFFER_KB, NEW w,
         w = [Idle EXCEPT !.phase = "heap", !.target = target, !.short = target]
  PROVE  WInv(w)
<1>0. MAX_BUFFER_KB \in Nat /\ target \in 0 .. MAX_BUFFER_KB /\ target \in Int /\ "heap" \in PhaseNames
  BY PressureAssumption DEF PhaseNames
<1>1. Idle \in WorkRec /\ Idle.result = 0 /\ Idle.list = {} /\ Idle.tried = {} /\ Idle.found = {}
  BY IdleInv DEF WInv, Idle
<1>2. /\ w \in WorkRec /\ w.phase = "heap" /\ w.target = target /\ w.short = target
      /\ w.result = 0 /\ w.list = {} /\ w.tried = {} /\ w.found = {}
  <2> HIDE DEF PhaseNames, Idle
  <2> QED BY <1>0, <1>1 DEF WorkRec
<1>3. Balanced(w)
  BY <1>0, <1>2 DEF Balanced
<1>4. Ordered(w) /\ Complete(w)
  BY <1>2 DEF Ordered, Complete, HeapPhases
<1> QED BY <1>2, <1>3, <1>4 DEF WInv

\* On to the next type, or done.
LEMMA NextTypeInv ==
  ASSUME WInv(work), work.phase \in PhaseNames \ {"idle", "trim"},
         NEW reclaimed \in Nat, NEW short, NEW tried \in SUBSET Blocks,
         short = work.target - reclaimed,
         work.phase \in HeapPhases => tried = {},
         work.phase \notin HeapPhases /\ reclaimed < work.target => work.found \subseteq tried,
         NextType(reclaimed, short, tried)
  PROVE  WInv(work')
<1>0. MAX_BUFFER_KB \in Nat /\ work \in WorkRec /\ work.target \in 0 .. MAX_BUFFER_KB
  BY PressureAssumption DEF WInv, WorkRec
<1>1. CASE reclaimed >= work.target
  BY <1>1, IdleInv DEF NextType
<1>2. CASE ~(reclaimed >= work.target)
  <2> DEFINE name == IF work.phase \in {"heap", "heapAll", "memcg"} THEN "ashm" ELSE "trim"
  <2>1. name \in PhaseNames
    BY DEF PhaseNames
  <2>2. PICK p : p = Phase(name)
    OBVIOUS
  <2>3. /\ p \in WorkRec /\ p.phase = name /\ p.target = work.target /\ p.found = work.found
        /\ p.result = 0 /\ p.list = {}
    BY <1>0, <2>1, <2>2, PhaseFields
  <2>4. work' = [p EXCEPT !.target = p.target - reclaimed, !.short = short, !.tried = tried]
    BY <1>2, <2>2 DEF NextType
  <2>5. /\ work.target - reclaimed \in 0 .. MAX_BUFFER_KB /\ short \in Int /\ 0 < work.target - reclaimed
        /\ reclaimed < work.target
    BY <1>0, <1>2
  <2> HIDE DEF name
  <2>6. /\ work' \in WorkRec /\ work'.phase = name /\ work'.target = work.target - reclaimed /\ work'.short = short
        /\ work'.result = 0 /\ work'.list = {} /\ work'.tried = tried /\ work'.found = work.found
    <3> HIDE DEF PhaseNames
    <3> QED BY <2>3, <2>4, <2>5 DEF WorkRec
  <2>7. work'.result < work'.target /\ work'.short = work'.target - work'.result
    BY <1>0, <2>5, <2>6
  <2>8. Balanced(work')
    BY <2>6, <2>7 DEF Balanced
  <2>9. Complete(work')
    <3>1. CASE work.phase \in HeapPhases
      <4>1. name = "ashm" /\ work.found = {} /\ tried = {}
        BY <3>1 DEF name, HeapPhases, WInv, Complete
      <4> QED BY <2>6, <4>1 DEF Complete
    <3>2. CASE work.phase \notin HeapPhases
      <4>1. name = "trim" /\ work.found \subseteq tried
        BY <2>5, <3>2 DEF name, HeapPhases
      <4> QED BY <2>6, <4>1 DEF Complete, HeapPhases
    <3> QED BY <3>1, <3>2
  <2>10. Ordered(work')
    BY <2>6 DEF Ordered
  <2> QED BY <2>6, <2>8, <2>9, <2>10 DEF WInv
<1> QED BY <1>1, <1>2

\* The heap has more than is needed, or cannot be purged at once: one memcg after the other.
LEMMA OneByOneInv ==
  ASSUME WInv(work), work.phase \in {"heap", "heapAll"}, work' = OneByOne(Users)
  PROVE  WInv(work')
<1>0. work \in WorkRec /\ "memcg" \in PhaseNames /\ work.target \in Int
  BY PressureAssumption DEF WInv, PhaseNames, WorkRec
<1>1. PICK p : p = Phase("memcg")
  OBVIOUS
<1>2. /\ p \in WorkRec /\ p.phase = "memcg" /\ p.target = work.target /\ p.short = work.short
      /\ p.found = work.found /\ p.tried = work.tried /\ p.result = 0 /\ p.list = {}
  BY <1>0, <1>1, PhaseFields
<1>3. work' = [p EXCEPT !.users = Users]
  BY <1>1 DEF OneByOne
<1>4. /\ work' \in WorkRec /\ work'.phase = "memcg" /\ work'.target = work.target /\ work'.short = work.short
      /\ work'.found = work.found /\ work'.tried = work.tried /\ work'.result = 0 /\ work'.list = {}
  <2> HIDE DEF PhaseNames
  <2> QED BY <1>2, <1>3 DEF WorkRec
<1>5. work.result = 0 /\ work.result < work.target /\ work.short = work.target - work.result
  BY DEF WInv, Balanced
<1>6. Balanced(work')
  BY <1>4, <1>5 DEF Balanced
<1>7. Complete(work') /\ Ordered(work')
  BY <1>4 DEF Complete, Ordered, HeapPhases, WInv
<1> QED BY <1>4, <1>6, <1>7 DEF WInv

-----------------------------------------------------------------------------
(* What the kernel does.                                                   *)

\* Sums of sizes are natural.
LEMMA SumsType ==
  ASSUME KInv
  PROVE  /\ SumFunction(heap) \in Nat
         /\ \A s \in SUBSET Blocks : SumFunctionOnSet(SizeKB, s) \in Nat
<1>1. IsFiniteSet(Memcgs) /\ IsFiniteSet(Blocks)
  BY PressureAssumption, FS_AddElement DEF Memcgs
<1>2. DOMAIN heap = Memcgs /\ \A m \in Memcgs : heap[m] \in Nat
  BY PressureAssumption DEF KInv
<1>3. SumFunctionOnSet(heap, Memcgs) \in Nat
  BY <1>1, <1>2, SumType
<1>4. ASSUME NEW s \in SUBSET Blocks PROVE SumFunctionOnSet(SizeKB, s) \in Nat
  <2>1. IsFiniteSet(s)
    BY <1>1, FS_Subset
  <2>2. \A b \in s : SizeKB[b] \in Nat
    BY PressureAssumption
  <2> QED BY <2>1, <2>2, SumType
<1> QED BY <1>2, <1>3, <1>4 DEF SumFunction

\* The buffer never grows past the memory.
LEMMA FreedType ==
  ASSUME KInv, NEW kb \in Nat, Freed(kb)
  PROVE  buffer' \in 0 .. MAX_BUFFER_KB
<1>1. buffer + kb \in Nat /\ MAX_BUFFER_KB \in Nat
  BY PressureAssumption DEF KInv
<1>2. buffer' = IF buffer + kb <= MAX_BUFFER_KB THEN buffer + kb ELSE MAX_BUFFER_KB
  BY <1>1, MinOfTwo DEF Freed
<1> QED BY <1>1, <1>2

\* The kernel purges all heaps.
LEMMA KernelHeapAll ==
  ASSUME KInv, KernelPurgeHeapAll
  PROVE  buffer' \in 0 .. MAX_BUFFER_KB /\ heap' \in [Memcgs -> 0 .. MaxHeap]
<1>1. buffer' \in 0 .. MAX_BUFFER_KB
  BY SumsType, FreedType DEF KernelPurgeHeapAll
<1> QED BY <1>1, PressureAssumption DEF KernelPurgeHeapAll

\* The kernel purges the heap of a memcg.
LEMMA KernelHeapMemcg ==
  ASSUME KInv, NEW m \in Memcgs, NEW kb \in Nat, KernelPurgeHeapMemcg(m, kb)
  PROVE  buffer' \in 0 .. MAX_BUFFER_KB /\ heap' \in [Memcgs -> 0 .. MaxHeap]
<1>1. PICK purged : purged = Min({kb, heap[m]})
  OBVIOUS
<1>2. heap[m] \in 0 .. MaxHeap /\ MaxHeap \in Nat /\ heap[m] \in Nat
  BY PressureAssumption DEF KInv
<1>3. purged = IF kb <= heap[m] THEN kb ELSE heap[m]
  BY <1>1, <1>2, MinOfTwo
<1>4. purged \in Nat /\ heap[m] - purged \in 0 .. MaxHeap
  BY <1>2, <1>3
<1>5. Freed(purged) /\ heap' = [heap EXCEPT ![m] = heap[m] - purged]
  BY <1>1 DEF KernelPurgeHeapMemcg
<1>6. heap' \in [Memcgs -> 0 .. MaxHeap]
  BY <1>4, <1>5 DEF KInv
<1> QED BY <1>4, <1>5, <1>6, FreedType

\* The kernel purges blocks.
LEMMA KernelAshm ==
  ASSUME KInv, NEW blocks, KernelPurgeAshm(blocks)
  PROVE  buffer' \in 0 .. MAX_BUFFER_KB /\ ashm' \subseteq Blocks
<1>1. blocks \intersect ashm \in SUBSET Blocks
  BY DEF KInv
<1>2. buffer' \in 0 .. MAX_BUFFER_KB
  BY <1>1, SumsType, FreedType DEF KernelPurgeAshm
<1> QED BY <1>2 DEF KernelPurgeAshm, KInv

\* Faults are counted up to their bound.
LEMMA OutcomeType ==
  ASSUME KInv, NEW ok, Outcome(ok)
  PROVE  faults' \in 0 .. MaxFaults
BY PressureAssumption DEF Outcome, KInv

-----------------------------------------------------------------------------
(* The steps of a trigger.                                                 *)

\* NotifyMemoryLevelInner takes a task from the queue and may begin a trigger.
LEMMA NotifyInv ==
  ASSUME IInv, NotifyMemoryLevelInner
  PROVE  IInv'
<1>0. KInv /\ WInv(work) /\ TRIGGER_INTERVAL_SECOND \in Nat \ {0} /\ MAX_BUFFER_KB \in Nat
  BY PressureAssumption DEF IInv
<1>1. queue' \in Seq(Sources) /\ Len(queue') <= MaxQueue
  <2>1. queue \in Seq(Sources) /\ queue # <<>> /\ queue' = Tail(queue) /\ Len(queue) <= MaxQueue /\ MaxQueue \in Nat
    BY PressureAssumption DEF NotifyMemoryLevelInner, IInv, KInv
  <2> QED BY <2>1
<1>2. UNCHANGED <<psi, kswapd, levels, buffer, heap, ashm, changes>>
  BY DEF NotifyMemoryLevelInner, observers, kernel
<1>3. faults' \in 0 .. MaxFaults /\ since' \in NEVER .. TRIGGER_INTERVAL_SECOND /\ WInv(work')
  <2>1. CASE Head(queue) = "DUMP"
    BY <1>0, <2>1 DEF NotifyMemoryLevelInner, KInv
  <2>2. CASE Head(queue) # "DUMP"
    <3>0. TriggerByPsi
      BY <2>2 DEF NotifyMemoryLevelInner
    <3>1. CASE UNCHANGED <<since, work, faults>>
      BY <1>0, <3>1 DEF KInv
    <3>2. ASSUME NEW ok \in BOOLEAN, since' = 0, Outcome(ok),
                 LET target == Config.level.purgeable - Buffers(ok) IN
                 IF target <= 0 THEN UNCHANGED work
                 ELSE work' = [Idle EXCEPT !.phase = "heap", !.target = target, !.short = target]
          PROVE  faults' \in 0 .. MaxFaults /\ since' \in NEVER .. TRIGGER_INTERVAL_SECOND /\ WInv(work')
      <4>1. faults' \in 0 .. MaxFaults
        BY <1>0, <3>2, OutcomeType
      <4>2. since' \in NEVER .. TRIGGER_INTERVAL_SECOND
        BY <1>0, <3>2 DEF NEVER
      <4>3. PICK target : target = Config.level.purgeable - Buffers(ok)
        OBVIOUS
      <4>4. target \in Int /\ target <= MAX_BUFFER_KB
        BY <1>0, <4>3, PressureAssumption DEF KInv, Buffers
      <4>5. CASE target <= 0
        BY <1>0, <3>2, <4>1, <4>2, <4>3, <4>5
      <4>6. CASE ~(target <= 0)
        <5>1. target \in 1 .. MAX_BUFFER_KB
          BY <1>0, <4>4, <4>6
        <5>2. work' = [Idle EXCEPT !.phase = "heap", !.target = target, !.short = target]
          BY <3>2, <4>3, <4>6
        <5> QED BY <4>1, <4>2, <5>1, <5>2, TriggerInv
      <4> QED BY <4>5, <4>6
    <3> QED BY <3>0, <3>1, <3>2 DEF TriggerByPsi
  <2> QED BY <2>1, <2>2
<1> QED BY <1>0, <1>1, <1>2, <1>3 DEF IInv, KInv

\* What a trigger's step leaves alone, and what it is at.
LEMMA AtWork ==
  ASSUME IInv
  PROVE  /\ KInv /\ WInv(work) /\ work \in WorkRec /\ MAX_BUFFER_KB \in Nat
         /\ work.target \in Nat /\ work.result \in Nat /\ work.info \in Nat /\ work.short \in Int
         /\ work.tried \subseteq Blocks /\ {} \in SUBSET Blocks
         /\ work.phase # "idle" => work.result < work.target /\ work.short = work.target - work.result
         /\ work.phase \notin {"memcg", "block"} => work.result = 0
BY PressureAssumption DEF IInv, WInv, WorkRec, Balanced

\* The heap type begins: all of it, or memcg by memcg.
LEMMA PurgeHeapInv ==
  ASSUME IInv, PurgeHeap
  PROVE  IInv'
<1>0. work.phase = "heap" /\ work.phase \in PhaseNames \ {"idle", "trim"} /\ work.phase \in HeapPhases
  BY DEF PurgeHeap, PhaseNames, HeapPhases
<1>1. PICK ok \in BOOLEAN :
        /\ Outcome(ok)
        /\ IF ~ok \/ GetPurgeableHeapInfo <= 0 THEN NextType(0, work.short, {})
           ELSE work' = IF GetPurgeableHeapInfo <= work.target
                        THEN [Phase("heapAll") EXCEPT !.info = GetPurgeableHeapInfo]
                        ELSE OneByOne(Users)
  BY DEF PurgeHeap
<1>2. GetPurgeableHeapInfo \in Nat
  BY AtWork, SumsType DEF GetPurgeableHeapInfo
<1>3. KInv'
  <2>1. faults' \in 0 .. MaxFaults
    BY <1>1, AtWork, OutcomeType
  <2>2. UNCHANGED <<psi, kswapd, levels, queue, since, buffer, heap, ashm, changes>>
    BY DEF PurgeHeap, observers, kernel
  <2> QED BY <2>1, <2>2, AtWork DEF KInv
<1>4. WInv(work')
  <2>1. CASE NextType(0, work.short, {})
    <3>1. work.short = work.target - 0 /\ 0 \in Nat
      BY <1>0, AtWork
    <3> QED BY <1>0, <2>1, <3>1, AtWork, NextTypeInv
  <2>2. CASE work' = OneByOne(Users)
    BY <1>0, <2>2, AtWork, OneByOneInv
  <2>3. CASE work' = [Phase("heapAll") EXCEPT !.info = GetPurgeableHeapInfo]
    <3>1. PICK p : p = Phase("heapAll")
      OBVIOUS
    <3>2. /\ p \in WorkRec /\ p.phase = "heapAll" /\ p.target = work.target /\ p.short = work.short
          /\ p.found = work.found /\ p.tried = work.tried /\ p.result = 0 /\ p.list = {}
      <4>1. "heapAll" \in PhaseNames
        BY DEF PhaseNames
      <4> QED BY <3>1, <4>1, AtWork, PhaseFields
    <3>3. work' = [p EXCEPT !.info = GetPurgeableHeapInfo]
      BY <2>3, <3>1
    <3>4. /\ work' \in WorkRec /\ work'.phase = "heapAll" /\ work'.target = work.target /\ work'.short = work.short
          /\ work'.found = work.found /\ work'.tried = work.tried /\ work'.result = 0 /\ work'.list = {}
      <4> HIDE DEF PhaseNames
      <4> QED BY <1>2, <3>2, <3>3 DEF WorkRec
    <3>5. Balanced(work')
      BY <1>0, <3>4, AtWork DEF Balanced
    <3>6. Complete(work') /\ Ordered(work')
      BY <1>0, <3>4, AtWork DEF Complete, Ordered, HeapPhases, WInv
    <3> QED BY <3>4, <3>5, <3>6 DEF WInv
  <2> QED BY <1>1, <2>1, <2>2, <2>3
<1> QED BY <1>3, <1>4 DEF IInv

\* PurgeTypeAll for the heap.
LEMMA PurgeTypeAllInv ==
  ASSUME IInv, PurgeTypeAll
  PROVE  IInv'
<1>0. work.phase = "heapAll" /\ work.phase \in PhaseNames \ {"idle", "trim"} /\ work.phase \in HeapPhases
  BY DEF PurgeTypeAll, PhaseNames, HeapPhases
<1>1. PICK ok \in BOOLEAN :
        /\ Outcome(ok)
        /\ IF ok THEN KernelPurgeHeapAll /\ NextType(work.info, work.short - work.info, {})
           ELSE work' = OneByOne(Users) /\ UNCHANGED <<buffer, heap>>
  BY DEF PurgeTypeAll
<1>2. KInv'
  <2>1. faults' \in 0 .. MaxFaults
    BY <1>1, AtWork, OutcomeType
  <2>2. UNCHANGED <<psi, kswapd, levels, queue, since, ashm, changes>>
    BY DEF PurgeTypeAll, observers
  <2>3. buffer' \in 0 .. MAX_BUFFER_KB /\ heap' \in [Memcgs -> 0 .. MaxHeap]
    BY <1>1, AtWork, KernelHeapAll DEF KInv
  <2> QED BY <2>1, <2>2, <2>3, AtWork DEF KInv
<1>3. WInv(work')
  <2>1. CASE NextType(work.info, work.short - work.info, {})
    <3>1. work.short - work.info = work.target - work.info /\ work.info \in Nat
      BY <1>0, AtWork
    <3> QED BY <1>0, <2>1, <3>1, AtWork, NextTypeInv
  <2>2. CASE work' = OneByOne(Users)
    BY <1>0, <2>2, AtWork, OneByOneInv
  <2> QED BY <1>1, <2>1, <2>2
<1> QED BY <1>2, <1>3 DEF IInv

\* What one memcg gave is added up.
LEMMA AfterMemcgInv ==
  ASSUME IInv, work.phase = "memcg", NEW m, NEW kb \in Nat, AfterMemcg(m, kb)
  PROVE  WInv(work')
<1>0. work.phase \in PhaseNames \ {"idle", "trim"} /\ work.phase \in HeapPhases
  BY DEF PhaseNames, HeapPhases
<1>1. CASE work.result + kb >= work.target \/ m = 0
  <2>1. NextType(work.result + kb, work.short - kb, {})
    BY <1>1 DEF AfterMemcg
  <2>2. work.short - kb = work.target - (work.result + kb) /\ work.result + kb \in Nat
    BY AtWork
  <2> QED BY <1>0, <2>1, <2>2, AtWork, NextTypeInv
<1>2. CASE ~(work.result + kb >= work.target \/ m = 0)
  <2>1. work' = [work EXCEPT !.result = work.result + kb, !.short = work.short - kb, !.users = work.users \ {m}]
    BY <1>2 DEF AfterMemcg
  <2>2. work.result + kb \in Nat /\ work.short - kb \in Int /\ work.users \ {m} \in SUBSET Users
    BY AtWork DEF WorkRec
  <2>3. /\ work' \in WorkRec /\ work'.phase = "memcg" /\ work'.target = work.target /\ work'.short = work.short - kb
        /\ work'.found = work.found /\ work'.tried = work.tried /\ work'.result = work.result + kb
        /\ work'.list = work.list
    <3> HIDE DEF PhaseNames
    <3> QED BY <2>1, <2>2, AtWork DEF WorkRec
  <2>4. Balanced(work')
    BY <1>2, <2>3, AtWork DEF Balanced
  <2>5. Complete(work') /\ Ordered(work')
    BY <2>3, AtWork DEF Complete, Ordered, HeapPhases, WInv
  <2> QED BY <2>3, <2>4, <2>5 DEF WInv
<1> QED BY <1>1, <1>2

\* PurgHeapOneMemcg asks for no more than the rest of the target.
LEMMA OneMemcgInv ==
  ASSUME IInv, work.phase = "memcg", NEW m \in Memcgs, PurgHeapOneMemcg(m),
         UNCHANGED <<observers, levels, queue, since, ashm, changes>>
  PROVE  IInv'
<1>1. PICK toReclaim : toReclaim = Min({heap[m], work.target - work.result})
  OBVIOUS
<1>2. PICK ok \in BOOLEAN :
        /\ Outcome(ok)
        /\ IF ok /\ toReclaim > 0
           THEN KernelPurgeHeapMemcg(m, toReclaim) /\ AfterMemcg(m, toReclaim)
           ELSE AfterMemcg(m, 0) /\ UNCHANGED <<buffer, heap>>
  BY <1>1 DEF PurgHeapOneMemcg
<1>3. toReclaim \in Nat
  <2>1. heap[m] \in Nat /\ work.target - work.result \in Nat
    <3>1. heap \in [Memcgs -> 0 .. MaxHeap] /\ MaxHeap \in Nat
      BY PressureAssumption DEF IInv, KInv
    <3>2. work.result < work.target /\ work.target \in Nat /\ work.result \in Nat
      BY AtWork
    <3> QED BY <3>1, <3>2
  <2> QED BY <1>1, <2>1, MinOfTwo
<1>4. WInv(work')
  BY <1>2, <1>3, AfterMemcgInv
<1>5. faults' \in 0 .. MaxFaults
  BY <1>2, AtWork, OutcomeType
<1>6. buffer' \in 0 .. MAX_BUFFER_KB /\ heap' \in [Memcgs -> 0 .. MaxHeap]
  BY <1>2, <1>3, AtWork, KernelHeapMemcg DEF KInv
<1>7. KInv'
  BY <1>5, <1>6, AtWork DEF KInv, observers
<1> QED BY <1>4, <1>7 DEF IInv

\* PurgHeapMemcgOneByOne goes on or hands over to the next type.
LEMMA MemcgsInv ==
  ASSUME IInv, PurgHeapMemcgOneByOne
  PROVE  IInv'
<1>1. /\ work.phase = "memcg" /\ UNCHANGED <<observers, levels, queue, since, ashm, changes>>
      /\ \E m \in work.users \cup {0} : PurgHeapOneMemcg(m)
  BY DEF PurgHeapMemcgOneByOne
<1>2. work.users \cup {0} \subseteq Memcgs
  BY AtWork DEF WorkRec, Memcgs
<1> QED BY <1>1, <1>2, OneMemcgInv

\* The scan gives the blocks of the trigger.
LEMMA PurgeAshmInv ==
  ASSUME IInv, PurgeAshm
  PROVE  IInv'
<1>0. work.phase = "ashm" /\ work.phase \in PhaseNames \ {"idle", "trim"} /\ work.phase \notin HeapPhases
  BY DEF PurgeAshm, PhaseNames, HeapPhases
<1>1. PICK entries : entries = GetPurgeableAshmInfo
  OBVIOUS
<1> DEFINE found == {e.block : e \in {e \in entries : IsPurgeWhiteApp(e.app)}}
<1>2. PICK ok \in BOOLEAN :
        /\ Outcome(ok)
        /\ IF ~ok \/ entries = {} THEN NextType(0, work.short, {})
           ELSE work' = [Phase("block") EXCEPT !.list = entries, !.found = found]
  BY <1>1 DEF PurgeAshm
<1>3. KInv'
  <2>1. faults' \in 0 .. MaxFaults
    BY <1>2, AtWork, OutcomeType
  <2>2. UNCHANGED <<psi, kswapd, levels, queue, since, buffer, heap, ashm, changes>>
    BY DEF PurgeAshm, observers, kernel
  <2> QED BY <2>1, <2>2, AtWork DEF KInv
<1>4. work.tried = {} /\ work.found = {} /\ work.result < work.target /\ work.short = work.target - 0
  BY <1>0, AtWork DEF WInv, Complete
<1>5. WInv(work')
  <2>1. CASE NextType(0, work.short, {})
    <3>1. work.found \subseteq {} /\ 0 \in Nat /\ {} \in SUBSET Blocks
      BY <1>4
    <3> QED BY <1>0, <1>4, <2>1, <3>1, AtWork, NextTypeInv
  <2>2. CASE work' = [Phase("block") EXCEPT !.list = entries, !.found = found]
    <3>1. PICK p : p = Phase("block")
      OBVIOUS
    <3>2. /\ p \in WorkRec /\ p.phase = "block" /\ p.target = work.target /\ p.short = work.short
          /\ p.tried = work.tried /\ p.result = 0
      <4>1. "block" \in PhaseNames
        BY DEF PhaseNames
      <4> QED BY <3>1, <4>1, AtWork, PhaseFields
    <3>3. \A e \in entries : Ranked(e)
      BY <1>1, FoundRanked
    <3>4. entries \in SUBSET Entries /\ found \in SUBSET Blocks
      <4>1. \A e \in Entries : e.block \in Blocks
        BY DEF Entries
      <4> QED BY <3>3, <4>1 DEF Ranked
    <3>5. \A b \in found : \E e \in entries : IsPurgeWhiteApp(e.app) /\ e.block = b
      OBVIOUS
    <3> HIDE DEF found
    <3>6. work' = [p EXCEPT !.list = entries, !.found = found]
      BY <2>2, <3>1
    <3>7. /\ work' \in WorkRec /\ work'.phase = "block" /\ work'.target = work.target /\ work'.short = work.short
          /\ work'.found = found /\ work'.tried = {} /\ work'.result = 0 /\ work'.list = entries
      <4> HIDE DEF PhaseNames, Entries
      <4> QED BY <1>4, <3>2, <3>4, <3>6 DEF WorkRec
    <3>8. Balanced(work')
      BY <1>0, <3>7, AtWork DEF Balanced
    <3>9. Ordered(work')
      BY <3>3, <3>7 DEF Ordered
    <3>10. Complete(work')
      BY <3>5, <3>7 DEF Complete, HeapPhases
    <3> QED BY <3>7, <3>8, <3>9, <3>10 DEF WInv
  <2> QED BY <1>2, <2>1, <2>2
<1> QED BY <1>3, <1>5 DEF IInv

\* The loop over the blocks: the one that comes first is tried, or is not on the white list.
LEMMA AfterBlockInv ==
  ASSUME IInv, work.phase = "block", NEW entry \in First(work.list), NEW kb \in Nat, NEW tried,
         \/ tried = work.tried /\ ~IsPurgeWhiteApp(entry.app)
         \/ tried = work.tried \cup {entry.block},
         AfterBlock(entry, kb, tried)
  PROVE  WInv(work')
<1>0. work.phase \in PhaseNames \ {"idle", "trim"} /\ work.phase \notin HeapPhases
  BY DEF PhaseNames, HeapPhases
<1>1. entry \in work.list /\ \A f \in work.list : ~AshmReclaimPriorityCompare(f, entry)
  BY DEF First
<1>2. Ordered(work) /\ Complete(work)
  BY AtWork DEF WInv
<1>3. entry \in Entries /\ entry.prio = Importance(entry.block) /\ entry.prio \in Int /\ entry.block \in Blocks
  BY <1>1, <1>2 DEF Ordered, Ranked, Entries
<1>4. tried \in SUBSET Blocks /\ work.tried \subseteq tried
  BY <1>3, AtWork
<1>5. \A b \in work.found \ tried : \E e \in work.list \ {entry} : IsPurgeWhiteApp(e.app) /\ e.block = b
  <2>1. ASSUME NEW b \in work.found \ tried PROVE \E e \in work.list \ {entry} : IsPurgeWhiteApp(e.app) /\ e.block = b
    <3>1. b \in work.found \ work.tried
      BY <1>4
    <3>2. PICK e \in work.list : IsPurgeWhiteApp(e.app) /\ e.block = b
      BY <1>2, <3>1 DEF Complete
    <3>3. e # entry
      BY <2>1, <3>2
    <3> QED BY <3>2, <3>3
  <2> QED BY <2>1
<1>6. CASE work.result + kb >= work.target \/ work.list = {entry}
  <2>1. NextType(work.result + kb, work.short - kb, tried)
    BY <1>6 DEF AfterBlock
  <2>2. work.short - kb = work.target - (work.result + kb) /\ work.result + kb \in Nat
    BY AtWork
  <2>3. work.result + kb < work.target => work.found \subseteq tried
    <3>1. ASSUME work.result + kb < work.target PROVE work.list = {entry}
      BY <1>6, <3>1, AtWork
    <3> QED BY <1>5, <3>1
  <2> QED BY <1>0, <1>4, <2>1, <2>2, <2>3, AtWork, NextTypeInv
<1>7. CASE ~(work.result + kb >= work.target \/ work.list = {entry})
  <2>1. work' = [work EXCEPT !.result = work.result + kb, !.short = work.short - kb,
                             !.list = work.list \ {entry}, !.tried = tried]
    BY <1>7 DEF AfterBlock
  <2>2. work.result + kb \in Nat /\ work.short - kb \in Int /\ work.list \ {entry} \in SUBSET Entries
    BY AtWork DEF WorkRec
  <2>3. /\ work' \in WorkRec /\ work'.phase = "block" /\ work'.target = work.target /\ work'.short = work.short - kb
        /\ work'.found = work.found /\ work'.tried = tried /\ work'.result = work.result + kb
        /\ work'.list = work.list \ {entry}
    <3> HIDE DEF PhaseNames, Entries
    <3> QED BY <1>4, <2>1, <2>2, AtWork DEF WorkRec
  <2>4. Balanced(work')
    BY <1>7, <2>3, AtWork DEF Balanced
  <2>5. ASSUME NEW e \in work.list PROVE Ranked(e) /\ \A b \in tried : e.prio <= Importance(b)
    <3>1. Ranked(e) /\ e.prio \in Int /\ \A b \in work.tried : e.prio <= Importance(b)
      BY <1>2 DEF Ordered, Ranked, Entries
    <3>2. e.prio <= entry.prio
      BY <1>1, <1>3, <3>1 DEF AshmReclaimPriorityCompare
    <3> QED BY <1>3, <3>1, <3>2
  <2>6. Ordered(work')
    BY <2>3, <2>5 DEF Ordered
  <2>7. Complete(work')
    BY <1>5, <2>3 DEF Complete, HeapPhases
  <2> QED BY <2>3, <2>4, <2>6, <2>7 DEF WInv
<1> QED BY <1>6, <1>7

\* PurgAshmIdOneByOne takes one of the least important blocks left.
LEMMA BlocksInv ==
  ASSUME IInv, PurgAshmIdOneByOne
  PROVE  IInv'
<1>1. work.phase = "block" /\ UNCHANGED <<psi, kswapd, levels, queue, since, changes>>
  BY DEF PurgAshmIdOneByOne, observers
<1>2. PICK entry \in First(work.list) :
        \/ ~IsPurgeWhiteApp(entry.app) /\ AfterBlock(entry, 0, work.tried) /\ UNCHANGED <<kernel, faults>>
        \/ \E ok \in BOOLEAN :
             /\ Outcome(ok)
             /\ IF ok
                THEN /\ KernelPurgeAshm({entry.block})
                     /\ AfterBlock(entry, entry.size, work.tried \cup {entry.block}) /\ UNCHANGED heap
                ELSE AfterBlock(entry, 0, work.tried \cup {entry.block}) /\ UNCHANGED kernel
  BY DEF PurgAshmIdOneByOne
<1>3. entry.size \in Nat /\ 0 \in Nat
  BY AtWork DEF First, WorkRec, Entries
<1>4. WInv(work')
  BY <1>1, <1>2, <1>3, AfterBlockInv
<1>5. /\ faults' \in 0 .. MaxFaults /\ buffer' \in 0 .. MAX_BUFFER_KB /\ ashm' \subseteq Blocks
      /\ heap' \in [Memcgs -> 0 .. MaxHeap]
  <2>1. CASE UNCHANGED <<kernel, faults>>
    BY <2>1, AtWork DEF KInv, kernel
  <2>2. ASSUME NEW ok \in BOOLEAN, Outcome(ok),
               UNCHANGED kernel \/ (KernelPurgeAshm({entry.block}) /\ UNCHANGED heap)
        PROVE  /\ faults' \in 0 .. MaxFaults /\ buffer' \in 0 .. MAX_BUFFER_KB /\ ashm' \subseteq Blocks
               /\ heap' \in [Memcgs -> 0 .. MaxHeap]
    <3>1. faults' \in 0 .. MaxFaults
      BY <2>2, AtWork, OutcomeType
    <3>2. CASE UNCHANGED kernel
      BY <3>1, <3>2, AtWork DEF KInv, kernel
    <3>3. CASE KernelPurgeAshm({entry.block}) /\ UNCHANGED heap
      BY <3>1, <3>3, AtWork, KernelAshm DEF KInv
    <3> QED BY <2>2, <3>2, <3>3
  <2> QED BY <1>2, <2>1, <2>2
<1>6. KInv'
  BY <1>1, <1>5, AtWork DEF KInv
<1> QED BY <1>4, <1>6 DEF IInv

\* The trim is the end of the trigger.
LEMMA TrimInv ==
  ASSUME IInv, Trim
  PROVE  IInv'
<1>1. WInv(work')
  BY IdleInv DEF Trim
<1>2. KInv'
  BY AtWork DEF Trim, KInv, observers, kernel
<1> QED BY <1>1, <1>2 DEF IInv

-----------------------------------------------------------------------------
(* The steps of the others leave the work alone.                           *)

\* The observers and the level manager.
LEMMA ObserversInv ==
  ASSUME IInv,
         \/ MonitorLevel \/ RegisterKswapdListener \/ UnMonitorLevel \/ HandleEventEpollHup
         \/ HandleLevelReport \/ HandleKswapdReport \/ PsiHandlerInner \/ TriggerMemoryLevelByDump
  PROVE  IInv'
<1>0. KInv /\ WInv(work) /\ MaxQueue \in Nat /\ MaxFaults \in Nat
  BY AtWork, PressureAssumption
<1>1. UNCHANGED <<since, work, buffer, heap, ashm, changes>>
  BY DEF MonitorLevel, RegisterKswapdListener, UnMonitorLevel, HandleEventEpollHup, HandleLevelReport,
         HandleKswapdReport, PsiHandlerInner, TriggerMemoryLevelByDump, kernel
<1>2. faults' \in 0 .. MaxFaults
  BY <1>0, OutcomeType DEF MonitorLevel, RegisterKswapdListener, UnMonitorLevel, HandleEventEpollHup, HandleLevelReport,
         HandleKswapdReport, PsiHandlerInner, TriggerMemoryLevelByDump, KInv
<1>3. psi' \in {"off", "armed", "gone"} /\ kswapd' \in {"off", "armed", "gone"}
  BY <1>0 DEF MonitorLevel, RegisterKswapdListener, UnMonitorLevel, HandleEventEpollHup, HandleLevelReport,
         HandleKswapdReport, PsiHandlerInner, TriggerMemoryLevelByDump, observers, KInv
<1>4. levels' \in 0 .. MaxQueue
  <2>1. \/ levels' = levels \/ (levels' = levels + 1 /\ levels < MaxQueue)
        \/ (levels' = levels - 1 /\ levels > 0)
    BY DEF MonitorLevel, RegisterKswapdListener, UnMonitorLevel, HandleEventEpollHup, HandleLevelReport,
           HandleKswapdReport, PsiHandlerInner, TriggerMemoryLevelByDump
  <2>2. levels \in 0 .. MaxQueue
    BY <1>0 DEF KInv
  <2> QED BY <1>0, <2>1, <2>2
<1>5. queue' \in Seq(Sources) /\ Len(queue') <= MaxQueue
  <2>1. queue' = queue \/ \E s \in Sources : queue' = Append(queue, s) /\ Len(queue) < MaxQueue
    BY DEF MonitorLevel, RegisterKswapdListener, UnMonitorLevel, HandleEventEpollHup, HandleLevelReport,
           HandleKswapdReport, PsiHandlerInner, TriggerMemoryLevelByDump, NotifyMemoryLevel, Sources
  <2>2. queue \in Seq(Sources) /\ Len(queue) <= MaxQueue
    BY <1>0 DEF KInv
  <2> QED BY <1>0, <2>1, <2>2
<1> QED BY <1>0, <1>1, <1>2, <1>3, <1>4, <1>5 DEF IInv, KInv

\* The dump command, the applications and the clock.
LEMMA OthersInv ==
  ASSUME IInv,
         \/ ForceReclaimByDump \/ Allocate \/ Tick \/ ClockSetBack
         \/ \E m \in Memcgs : HeapUnpinned(m)
         \/ \E b \in Blocks : BlockChanges(b)
  PROVE  IInv'
<1>0. /\ KInv /\ WInv(work) /\ MAX_BUFFER_KB \in Nat /\ MaxHeap \in Nat /\ MaxChanges \in Nat
      /\ TRIGGER_INTERVAL_SECOND \in Nat
  BY AtWork, PressureAssumption
<1>1. UNCHANGED <<psi, kswapd, levels, queue, work>>
  BY DEF ForceReclaimByDump, Allocate, Tick, ClockSetBack, HeapUnpinned, BlockChanges, observers
<1>2. faults' \in 0 .. MaxFaults
  BY <1>0, OutcomeType DEF ForceReclaimByDump, Allocate, Tick, ClockSetBack, HeapUnpinned, BlockChanges, KInv
<1>3. changes' \in 0 .. MaxChanges
  <2>1. changes' = changes \/ (changes' = changes - 1 /\ changes > 0)
    BY DEF ForceReclaimByDump, Allocate, Tick, ClockSetBack, HeapUnpinned, BlockChanges
  <2>2. changes \in 0 .. MaxChanges
    BY <1>0 DEF KInv
  <2> QED BY <1>0, <2>1, <2>2
<1>4. since' \in NEVER .. TRIGGER_INTERVAL_SECOND
  <2>1. since' = since \/ since' = -1 \/ (since' = since + 1 /\ since < TRIGGER_INTERVAL_SECOND)
    BY DEF ForceReclaimByDump, Allocate, Tick, ClockSetBack, HeapUnpinned, BlockChanges
  <2>2. since \in NEVER .. TRIGGER_INTERVAL_SECOND
    BY <1>0 DEF KInv
  <2> QED BY <1>0, <2>1, <2>2 DEF NEVER
<1>5. buffer' \in 0 .. MAX_BUFFER_KB /\ heap' \in [Memcgs -> 0 .. MaxHeap] /\ ashm' \subseteq Blocks
  <2>1. CASE ForceReclaimByDump
    <3>1. CASE KernelPurgeHeapAll /\ UNCHANGED ashm
      BY <1>0, <3>1, KernelHeapAll DEF KInv
    <3>2. CASE \E m \in Memcgs : KernelPurgeHeapMemcg(m, 1) /\ UNCHANGED ashm
      BY <1>0, <3>2, KernelHeapMemcg DEF KInv
    <3>3. CASE (KernelPurgeAshm(Blocks) \/ \E b \in Blocks : KernelPurgeAshm({b})) /\ UNCHANGED heap
      BY <1>0, <3>3, KernelAshm DEF KInv
    <3>4. CASE /\ heap' = [m \in Memcgs |-> 0] /\ ashm' = {}
               /\ Freed(SumFunction(heap) + SumFunctionOnSet(SizeKB, ashm))
      <4>1. SumFunction(heap) \in Nat /\ SumFunctionOnSet(SizeKB, ashm) \in Nat
        BY <1>0, SumsType DEF KInv
      <4>2. SumFunction(heap) + SumFunctionOnSet(SizeKB, ashm) \in Nat
        BY <4>1
      <4>3. buffer' \in 0 .. MAX_BUFFER_KB
        BY <1>0, <3>4, <4>2, FreedType
      <4> QED BY <1>0, <3>4, <4>3
    <3> QED BY <2>1, <3>1, <3>2, <3>3, <3>4 DEF ForceReclaimByDump
  <2>2. CASE Allocate \/ Tick \/ ClockSetBack
    <3>1. heap' = heap /\ ashm' = ashm /\ (buffer' = buffer \/ (buffer' = buffer - 1 /\ buffer > 0))
      BY <2>2 DEF Allocate, Tick, ClockSetBack, kernel
    <3>2. buffer \in 0 .. MAX_BUFFER_KB /\ heap \in [Memcgs -> 0 .. MaxHeap] /\ ashm \subseteq Blocks
      BY <1>0 DEF KInv
    <3> QED BY <1>0, <3>1, <3>2
  <2>3. ASSUME NEW m \in Memcgs, HeapUnpinned(m)
        PROVE  buffer' \in 0 .. MAX_BUFFER_KB /\ heap' \in [Memcgs -> 0 .. MaxHeap] /\ ashm' \subseteq Blocks
    BY <1>0, <2>3 DEF HeapUnpinned, KInv
  <2>4. ASSUME NEW b \in Blocks, BlockChanges(b)
        PROVE  buffer' \in 0 .. MAX_BUFFER_KB /\ heap' \in [Memcgs -> 0 .. MaxHeap] /\ ashm' \subseteq Blocks
    BY <1>0, <2>4 DEF BlockChanges, KInv
  <2> QED BY <2>1, <2>2, <2>3, <2>4
<1> QED BY <1>0, <1>1, <1>2, <1>3, <1>4, <1>5 DEF IInv, KInv

\* The invariant holds when the observers start.
LEMMA InitInv == Init => IInv
<1> SUFFICES ASSUME Init PROVE IInv
  OBVIOUS
<1>1. KInv
  <2>1. queue = <<>> /\ <<>> \in Seq(Sources) /\ Len(<<>>) = 0
    BY DEF Init
  <2> QED BY <2>1, PressureAssumption DEF Init, KInv, NEVER
<1> QED BY <1>1, IdleInv DEF Init, IInv

\* Every step keeps the invariant.
LEMMA NextInv == IInv /\ [Next]_vars => IInv'
<1> SUFFICES ASSUME IInv, [Next]_vars PROVE IInv'
  OBVIOUS
<1>1. CASE UNCHANGED vars
  <2>1. KInv' /\ work' = work
    BY <1>1, AtWork DEF KInv, vars
  <2> QED BY <2>1, AtWork DEF IInv
<1>2. CASE Next
  BY <1>2, NotifyInv, PurgeHeapInv, PurgeTypeAllInv, MemcgsInv, PurgeAshmInv, BlocksInv, TrimInv, ObserversInv,
     OthersInv DEF Next, Purging
<1> QED BY <1>1, <1>2

-----------------------------------------------------------------------------
(* The observers, the level manager, the purge handler and the kernel stay *)
(* in their types, and the purge handler's work is always balanced,        *)
(* ordered and complete: the inductive invariant.                          *)
THEOREM WorkStaysKnown == Spec => []IInv
BY InitInv, NextInv, PTL DEF Spec

(* The type invariant; it includes that what the memcgs or blocks of a     *)
(* type gave stays below its target while the loop goes on.                *)
THEOREM TypeCorrect == Spec => []TypeOK
<1>1. IInv => TypeOK
  BY DEF IInv, KInv, WInv, WorkRec, PhaseNames, Balanced, TypeOK
<1> QED BY <1>1, WorkStaysKnown, PTL

(* Whatever the kernel, the applications and the dump command do between   *)
(* two steps of TriggerByPsi, each purge is asked for only while the ones  *)
(* before it do not add up to the trigger's target.                        *)
THEOREM PurgesNoMoreThanNeeded == Spec => []NoMoreThanNeeded
<1>1. IInv => NoMoreThanNeeded
  BY AtWork DEF NoMoreThanNeeded
<1> QED BY <1>1, WorkStaysKnown, PTL

(* PurgAshmIdOneByOne tries the blocks in the order of their most          *)
(* important holder, for every ashmem file: GetashmIdToInfoMap gives each  *)
(* block the least of its holders' priorities.                             *)
THEOREM PurgesLeastImportantFirst == Spec => []LeastImportantFirst
<1>1. IInv => LeastImportantFirst
  BY DEF IInv, WInv, Ordered, Ranked, LeastImportantFirst
<1> QED BY <1>1, WorkStaysKnown, PTL

(* The subscribers are asked to trim only after every block the scan found *)
(* for a white-list application was tried, also when purges fail.          *)
THEOREM TrimsLast == Spec => []TrimIsLastResort
<1>1. IInv => TrimIsLastResort
  BY DEF IInv, WInv, Complete, TrimIsLastResort
<1> QED BY <1>1, WorkStaysKnown, PTL
=============================================================================
