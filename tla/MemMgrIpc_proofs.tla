-------------------------- MODULE MemMgrIpc_proofs --------------------------
(***************************************************************************)
(* Proofs about MemMgrIpc, for any clients, bundles, sizes of a parcel and *)
(* of the buffer, and number of crashes.                                   *)
(***************************************************************************)
EXTENDS MemMgrIpc, SequenceTheorems, TLAPS

-----------------------------------------------------------------------------
(* What is written is what is read.                                        *)

\* A sequence that was written behind its length is read back.
LEMMA CountedRoundTrip ==
  ASSUME NEW S, NEW s \in Seq(S), NEW n, n = Len(s)
  PROVE  /\ (<<n>> \o s)[1] = n
         /\ SubSeq(<<n>> \o s, 2, (<<n>> \o s)[1] + 1) = s
<1> DEFINE T == S \cup Nat
           p == <<n>> \o s
           r == SubSeq(p, 2, n + 1)
<1>1. Len(s) \in Nat /\ s \in Seq(T) /\ <<n>> \in Seq(T) /\ Len(<<n>>) = 1 /\ <<n>>[1] = n
  <2>1. Len(s) \in Nat /\ \A i \in 1 .. Len(s) : s[i] \in S
    OBVIOUS
  <2> QED BY <2>1
<1> HIDE DEF T
<1>2. /\ p \in Seq(T) /\ Len(p) = 1 + Len(s)
      /\ \A i \in 1 .. 1 + Len(s) : p[i] = IF i <= 1 THEN <<n>>[i] ELSE s[i - 1]
  BY <1>1, ConcatProperties
<1> HIDE DEF p
<1>3. p[1] = n
  BY <1>1, <1>2
<1>4. /\ r \in Seq(T) /\ Len(r) = IF 2 <= n + 1 THEN n + 1 - 2 + 1 ELSE 0
      /\ \A i \in 1 .. n + 1 - 2 + 1 : r[i] = p[2 + i - 1]
  <2>1. \A i \in 2 .. n + 1 : p[i] \in T
    BY <1>1, <1>2
  <2>2. 2 \in Int /\ n + 1 \in Int
    BY <1>1
  <2> QED BY <2>1, <2>2, SubSeqProperties
<1> HIDE DEF r
<1>5. Len(r) = Len(s)
  BY <1>1, <1>4
<1>6. ASSUME NEW i \in 1 .. Len(s) PROVE r[i] = s[i]
  <2>1. i \in 1 .. n + 1 - 2 + 1 /\ 2 + i - 1 = i + 1 /\ i + 1 \in 1 .. 1 + Len(s) /\ ~(i + 1 <= 1) /\ (i + 1) - 1 = i
    BY <1>1
  <2>2. r[i] = p[i + 1]
    BY <1>4, <2>1
  <2>3. p[i + 1] = s[(i + 1) - 1]
    BY <1>2, <2>1
  <2> QED BY <2>1, <2>2, <2>3
<1>7. r = s
  BY <1>1, <1>4, <1>5, <1>6, SeqEqual
<1> QED BY <1>3, <1>7 DEF p, r

\* The list the stub writes with its length is the list the client reads.
LEMMA ListRoundTrip ==
  ASSUME NEW s \in Seq(Bundles), NEW p, p = <<Len(s)>> \o s
  PROVE  ReadList(p) = s
BY CountedRoundTrip DEF ReadList

\* Every call but that for the list reaches the service with the arguments it was made with.
LEMMA ArgumentsRoundTrip ==
  ASSUME NEW c, NEW code \in Codes, code # "GetBundlePriorityList",
         NEW args \in Arguments(c, code), NEW held
  PROVE  Read(code, Write(code, args, held)) = args
<1>1. CASE code = "OnWindowVisibilityChanged"
  <2>1. args \in {<<"w1", "w2">>, <<"w1", "w2", "w3">>}
    BY <1>1 DEF Arguments, Apps, Subs, States
  <2>2. args \in Seq({"w1", "w2", "w3"})
    <3>1. <<"w1", "w2">> \in Seq({"w1", "w2", "w3"}) /\ <<"w1", "w2", "w3">> \in Seq({"w1", "w2", "w3"})
      OBVIOUS
    <3> QED BY <2>1, <3>1
  <2>3. Write(code, args, held) = <<Len(args)>> \o args
    BY <1>1 DEF Write, WriteWindows
  <2>4. Read(code, <<Len(args)>> \o args) = SubSeq(<<Len(args)>> \o args, 2, (<<Len(args)>> \o args)[1] + 1)
    BY <1>1 DEF Read, ReadWindows, States
  <2> QED BY <2>2, <2>3, <2>4, CountedRoundTrip
<1>2. CASE code \in States
  <2>1. args \in {<<1, 2, 5, 6, r>> : r \in {"START_ABILITY", "UNKNOWN"}}
    BY <1>2 DEF Arguments, Apps, Subs, States
  <2>2. Write(code, args, held) = args
    BY <1>2 DEF Write, States
  <2>3. Read(code, args) = [args EXCEPT ![5] = IF args[5] = "START_ABILITY" THEN args[5] ELSE "UNKNOWN"]
    BY <1>2 DEF Read, ReadState, States
  <2>4. args[5] \in {"START_ABILITY", "UNKNOWN"}
    BY <2>1
  <2>5. Read(code, args) = [args EXCEPT ![5] = args[5]]
    BY <2>3, <2>4
  <2>6. [args EXCEPT ![5] = args[5]] = args
    BY <2>1
  <2> QED BY <2>2, <2>5, <2>6
<1>3. CASE code # "OnWindowVisibilityChanged" /\ code \notin States
  BY <1>3 DEF Read, Write
<1> QED BY <1>1, <1>2, <1>3

\* The reply to GetBundlePriorityList.
LEMMA ListReply ==
  ASSUME NEW held \in Seq(Bundles), NEW t \in Seq(Bundles), NEW p,
         p = <<Len(held) + Len(t)>> \o held \o t
  PROVE  /\ ReadList(p) = held \o t /\ held \o t \in Seq(Bundles)
         /\ p[1] = Len(held \o t)
<1>1. /\ held \o t \in Seq(Bundles) /\ Len(held \o t) = Len(held) + Len(t)
  BY ConcatProperties
<1> DEFINE n == Len(held) + Len(t)
<1>2. p = <<n>> \o (held \o t)
  <2>1. n \in Nat
    OBVIOUS
  <2> DEFINE T == Bundles \cup Nat
  <2>2. <<n>> \in Seq(T) /\ held \in Seq(T) /\ t \in Seq(T)
    BY <2>1
  <2> HIDE DEF T, n
  <2> QED BY <2>2, ConcatAssociative DEF n
<1>3. n = Len(held \o t)
  BY <1>1
<1> HIDE DEF n
<1>4. p[1] = n /\ SubSeq(p, 2, p[1] + 1) = held \o t
  BY <1>1, <1>2, <1>3, CountedRoundTrip
<1> QED BY <1>1, <1>3, <1>4 DEF ReadList

-----------------------------------------------------------------------------
(* The inductive invariant: what is known of a call in each of its phases. *)

AllArgs == {<<>>} \cup UNION {Arguments(k[1], k[2]) : k \in Clients \X Codes}
Rets    == {OK, FAIL, "ERR_FLATTEN_OBJECT", "IPC_STUB_ERR", "MEMMGR_SERVICE_ERR", "DEAD"}
Phases  == {"idle", "sent", "served", "done"}
CallRec == [code : Codes \cup {NULL}, args : AllArgs, phase : Phases, ret : Rets, out : Int]
SnapRec == [list : Seq(Bundles), table : Seq(Bundles), pressure : Pressures]

Typing ==
  /\ call \in [Clients -> CallRec] /\ snap \in [Clients -> SnapRec]
  /\ list \in [Clients -> Seq(Bundles)]
  /\ table \in Seq(Bundles) /\ pressure \in Pressures /\ total \in {-1, MemTotal}
  /\ DOMAIN parcel = Clients /\ DOMAIN ran = Clients

\* The service carried out the call of c, once, with its arguments.
CarriedOut(c) ==
  /\ Len(ran[c]) = 1
  /\ ran[c][1].code = call[c].code
  /\ call[c].code # "GetBundlePriorityList" => ran[c][1].args = call[c].args

\* A size of memory that may be given in answer to the call of c.
Real(c, size) ==
  /\ size \in 0 .. MAX_BUFFER_KB - 1
  /\ IF call[c].code = "GetAvailableMemory" THEN snap[c].pressure = <<size>> ELSE size = MemTotal

\* On its way the parcel has the arguments, and the list as the client holds it.
Sent(c) ==
  /\ ran[c] = <<>>
  /\ call[c].code \in Codes /\ call[c].args \in Arguments(c, call[c].code)
  /\ parcel[c] = Write(call[c].code, call[c].args, list[c])
  /\ call[c].code = "GetBundlePriorityList" => snap[c].list = list[c]

\* Carried out and not answered: the reply is what the service had at that moment.
Served(c) ==
  /\ call[c].ret = OK /\ call[c].code \notin OneWay => CarriedOut(c)
  /\ call[c].code = "GetBundlePriorityList" =>
       /\ snap[c].list = list[c]
       /\ call[c].ret = OK =>
            parcel[c] = <<Len(snap[c].list) + Len(snap[c].table)>> \o snap[c].list \o snap[c].table
  /\ call[c].code \in Sizes /\ call[c].ret = OK => Real(c, parcel[c][1])

Answered(c) ==
  /\ call[c].ret = OK /\ call[c].code \notin OneWay => CarriedOut(c)
  /\ call[c].code = "GetBundlePriorityList" =>
       list[c] = IF call[c].ret = OK THEN snap[c].list \o snap[c].table ELSE snap[c].list
  /\ call[c].code \in Sizes /\ call[c].ret = OK => Real(c, call[c].out)

Known(c) ==
  /\ Len(list[c]) <= MAX_PARCEL_SIZE
  /\ call[c].phase = "idle" => ran[c] = <<>>
  /\ call[c].phase = "sent" => Sent(c)
  /\ call[c].phase = "served" => Served(c)
  /\ call[c].phase = "done" => Answered(c)

IInv == Typing /\ \A c \in Clients : Known(c)

\* The codes are told apart.
LEMMA CodesDiffer ==
  /\ "GetBundlePriorityList" \notin OneWay \cup Sizes
  /\ OneWay \intersect Sizes = {}
  /\ OK # FAIL /\ OK \notin {"ERR_FLATTEN_OBJECT", "IPC_STUB_ERR", "MEMMGR_SERVICE_ERR", "DEAD"}
BY DEF OneWay, Sizes, OK, FAIL

\* A record of the type of calls or of snapshots is what its fields are.
LEMMA NothingType == Nothing \in CallRec /\ NoSnap \in SnapRec
<1>1. <<>> \in AllArgs /\ "idle" \in Phases /\ OK \in Rets
  BY DEF AllArgs, Phases, Rets
<1>2. <<>> \in Seq(Bundles) /\ <<>> \in Pressures
  BY DEF Pressures
<1> HIDE DEF AllArgs, Phases, Rets, Pressures
<1> QED BY <1>1, <1>2 DEF Nothing, NoSnap, CallRec, SnapRec

\* No call is made at the start.
LEMMA InitIInv == Init => IInv
<1> SUFFICES ASSUME Init PROVE IInv
  OBVIOUS
<1>1. MAX_PARCEL_SIZE \in Nat /\ MAX_BUFFER_KB \in Nat
  BY IpcAssumption
<1>2. Typing
  BY <1>1, NothingType DEF Init, Typing
<1>3. ASSUME NEW c \in Clients PROVE Known(c)
  <2>1. call[c] = Nothing /\ list[c] = <<>> /\ ran[c] = <<>>
    BY DEF Init
  <2>2. call[c].phase = "idle"
    BY <2>1 DEF Nothing
  <2>3. Len(list[c]) <= MAX_PARCEL_SIZE
    BY <1>1, <2>1
  <2> QED BY <2>1, <2>2, <2>3 DEF Known
<1> QED BY <1>2, <1>3 DEF IInv

\* A step of one client, or of the service alone, leaves what is known of the others.
LEMMA KnownFrame ==
  ASSUME NEW c \in Clients, Known(c),
         call'[c] = call[c], list'[c] = list[c], ran'[c] = ran[c], parcel'[c] = parcel[c], snap'[c] = snap[c]
  PROVE  Known(c)'
BY DEF Known, Sent, Served, Answered, CarriedOut, Real

\* A step of one call leaves the other calls known.
LEMMA StepOfOne ==
  ASSUME IInv, NEW c \in Clients, Typing', Known(c)',
         \A d \in Clients \ {c} : /\ call'[d] = call[d] /\ list'[d] = list[d] /\ ran'[d] = ran[d]
                                  /\ parcel'[d] = parcel[d] /\ snap'[d] = snap[d]
  PROVE  IInv'
<1>1. ASSUME NEW d \in Clients, d # c PROVE Known(d)'
  BY <1>1, KnownFrame DEF IInv
<1> QED BY <1>1 DEF IInv

\* The fields of a call after it was changed.
Becomes(c, phase, ret) == call' = [call EXCEPT ![c].phase = phase, ![c].ret = ret]
Sized(c, out) == call' = [call EXCEPT ![c].phase = "done", ![c].out = out]

\* A call that changes its phase and its result keeps the rest.
LEMMA CallFields ==
  ASSUME NEW c \in Clients, call \in [Clients -> CallRec],
         NEW phase \in Phases, NEW ret \in Rets, Becomes(c, phase, ret)
  PROVE  /\ call' \in [Clients -> CallRec]
         /\ call'[c].phase = phase /\ call'[c].ret = ret
         /\ call'[c].code = call[c].code /\ call'[c].args = call[c].args
         /\ \A d \in Clients \ {c} : call'[d] = call[d]
<1> HIDE DEF Phases, Rets, AllArgs
<1>1. call[c] \in CallRec
  OBVIOUS
<1> QED BY <1>1 DEF CallRec, Becomes

\* A call that is answered with a size keeps the rest.
LEMMA SizeFields ==
  ASSUME NEW c \in Clients, call \in [Clients -> CallRec], NEW out \in Int, Sized(c, out)
  PROVE  /\ call' \in [Clients -> CallRec]
         /\ call'[c].phase = "done" /\ call'[c].ret = call[c].ret /\ call'[c].out = out
         /\ call'[c].code = call[c].code /\ call'[c].args = call[c].args
         /\ \A d \in Clients \ {c} : call'[d] = call[d]
<1>1. call[c] \in CallRec /\ "done" \in Phases
  BY DEF Phases
<1> HIDE DEF Phases, Rets, AllArgs
<1> QED BY <1>1 DEF CallRec, Sized

\* The record of a call that was just made.
IsMade(m, code, args, phase, ret) ==
  \/ m = [[Nothing EXCEPT !.code = code, !.args = args] EXCEPT !.phase = phase, !.ret = ret]
  \/ m = [[Nothing EXCEPT !.code = code, !.args = args] EXCEPT !.phase = phase] /\ ret = OK

\* A call that is made has the code and the arguments of its client.
LEMMA CallMade ==
  ASSUME NEW code \in Codes, NEW args \in AllArgs, NEW phase \in Phases, NEW ret \in Rets, NEW m,
         IsMade(m, code, args, phase, ret)
  PROVE  m \in CallRec /\ m.code = code /\ m.args = args /\ m.phase = phase /\ m.ret = ret
<1> HIDE DEF AllArgs, Phases, Rets
<1>1. Nothing \in CallRec /\ Nothing.ret = OK
  BY NothingType DEF Nothing
<1>2. ASSUME NEW s, s = [Nothing EXCEPT !.code = code, !.args = args]
      PROVE  s \in CallRec /\ s.code = code /\ s.args = args /\ s.ret = OK
  <2> HIDE DEF Nothing
  <2> QED BY <1>1, <1>2 DEF CallRec
<1>3. ASSUME NEW s \in CallRec, s.code = code, s.args = args, s.ret = OK,
             \/ m = [s EXCEPT !.phase = phase, !.ret = ret]
             \/ m = [s EXCEPT !.phase = phase] /\ ret = OK
      PROVE  m \in CallRec /\ m.code = code /\ m.args = args /\ m.phase = phase /\ m.ret = ret
  <2>1. CASE m = [s EXCEPT !.phase = phase, !.ret = ret]
    BY <1>3, <2>1 DEF CallRec
  <2>2. CASE m = [s EXCEPT !.phase = phase] /\ ret = OK
    BY <1>3, <2>2 DEF CallRec
  <2> QED BY <1>3, <2>1, <2>2
<1> DEFINE s == [Nothing EXCEPT !.code = code, !.args = args]
<1>4. s \in CallRec /\ s.code = code /\ s.args = args /\ s.ret = OK
  BY <1>2
<1>5. \/ m = [s EXCEPT !.phase = phase, !.ret = ret]
      \/ m = [s EXCEPT !.phase = phase] /\ ret = OK
  BY DEF IsMade
<1> HIDE DEF s, CallRec
<1> QED BY <1>3, <1>4, <1>5

\* The client calls.
LEMMA CallIInv ==
  ASSUME IInv, NEW c \in Clients, NEW code \in c.calls, NEW args \in Arguments(c, code), Call(c, code, args)
  PROVE  IInv'
<1>0. Typing /\ Known(c) /\ code \in Codes /\ call[c].phase = "idle" /\ ran[c] = <<>>
  BY IpcAssumption DEF IInv, Known, Call
<1>1. args \in AllArgs
  <2>1. <<c, code>> \in Clients \X Codes /\ <<c, code>>[1] = c /\ <<c, code>>[2] = code
    BY <1>0
  <2> QED BY <2>1 DEF AllArgs
<1>2. /\ UNCHANGED <<list, table, pressure, total, ran>>
      /\ snap' = [snap EXCEPT ![c].list = IF code = "GetBundlePriorityList" THEN list[c] ELSE snap[c].list]
  BY DEF Call
<1>3. /\ snap' \in [Clients -> SnapRec] /\ \A d \in Clients \ {c} : snap'[d] = snap[d]
      /\ code = "GetBundlePriorityList" => snap'[c].list = list[c]
  BY <1>0, <1>2 DEF Typing, SnapRec
<1>4. ASSUME NEW m, NEW ret \in {FAIL, "ERR_FLATTEN_OBJECT"}, call' = [call EXCEPT ![c] = m], parcel' = parcel,
             IsMade(m, code, args, "done", ret)
      PROVE  IInv'
  <2>1. m \in CallRec /\ m.phase = "done" /\ m.ret = ret /\ m.code = code /\ ret # OK
    <3>1. "done" \in Phases /\ ret \in Rets /\ ret # OK
      BY <1>4, CodesDiffer DEF Phases, Rets
    <3> QED BY <1>0, <1>1, <1>4, <3>1, CallMade
  <2>2. /\ call' \in [Clients -> CallRec] /\ call'[c] = m
        /\ \A d \in Clients \ {c} : call'[d] = call[d]
    <3> HIDE DEF CallRec
    <3> QED BY <1>0, <1>4, <2>1 DEF Typing
  <2>4. Typing'
    BY <1>0, <1>2, <1>3, <1>4, <2>2 DEF Typing
  <2>5. Known(c)'
    BY <1>0, <1>2, <1>3, <2>1, <2>2 DEF Known, Answered
  <2> QED BY <1>2, <1>3, <1>4, <2>2, <2>4, <2>5, StepOfOne
<1>5. ASSUME NEW m, call' = [call EXCEPT ![c] = m],
             IsMade(m, code, args, "sent", OK),
             parcel' = [parcel EXCEPT ![c] = Write(code, args, list[c])]
      PROVE  IInv'
  <2>1. m \in CallRec /\ m.phase = "sent" /\ m.args = args /\ m.code = code
    <3>1. "sent" \in Phases /\ OK \in Rets
      BY DEF Phases, Rets
    <3> QED BY <1>0, <1>1, <1>5, <3>1, CallMade
  <2>2. /\ call' \in [Clients -> CallRec] /\ call'[c] = m
        /\ \A d \in Clients \ {c} : call'[d] = call[d]
    <3> HIDE DEF CallRec
    <3> QED BY <1>0, <1>5, <2>1 DEF Typing
  <2>4. /\ DOMAIN parcel' = Clients /\ parcel'[c] = Write(code, args, list[c])
        /\ \A d \in Clients \ {c} : parcel'[d] = parcel[d]
    BY <1>0, <1>5 DEF Typing
  <2>5. Typing'
    BY <1>0, <1>2, <1>3, <2>2, <2>4 DEF Typing
  <2>6. Known(c)'
    <3>1. Sent(c)'
      BY <1>0, <1>2, <1>3, <2>1, <2>2, <2>4 DEF Sent
    <3> QED BY <1>0, <1>2, <2>1, <2>2, <3>1 DEF Known
  <2> QED BY <1>2, <1>3, <2>2, <2>4, <2>5, <2>6, StepOfOne
<1>6. \/ \E ret \in {FAIL, "ERR_FLATTEN_OBJECT"} : \E m :
           /\ call' = [call EXCEPT ![c] = m] /\ parcel' = parcel
           /\ IsMade(m, code, args, "done", ret)
      \/ \E m :
           /\ call' = [call EXCEPT ![c] = m] /\ parcel' = [parcel EXCEPT ![c] = Write(code, args, list[c])]
           /\ IsMade(m, code, args, "sent", OK)
  BY DEF Call, IsMade
<1> QED BY <1>4, <1>5, <1>6

\* What the kernel says to a call for a size.
FromKernel(code, size) ==
  /\ size \in 0 .. MAX_BUFFER_KB - 1
  /\ IF code = "GetAvailableMemory" THEN pressure = <<size>> ELSE size = MemTotal

\* A size that passes the checks is one the kernel gave.
LEMMA SizeServed ==
  ASSUME Typing, NEW code \in Sizes, NEW r, NEW b,
         \/ code = "GetAvailableMemory" /\ r = GetMemory(GetCurrentBuffer)
         \/ code = "GetTotalMemory" /\ r = GetMemory(GetTotalBuffer(b))
  PROVE  /\ r.ret \in {OK, FAIL}
         /\ r.ret = OK => FromKernel(code, r.out[1])
         /\ code = "GetTotalMemory" => r.out[1] \in {-1, MemTotal}
<1>1. MAX_BUFFER_KB \in Nat \ {0} /\ MemTotal \in Nat /\ pressure \in Pressures /\ total \in {-1, MemTotal} /\ OK # FAIL
  BY IpcAssumption, CodesDiffer DEF Typing
<1>2. ASSUME NEW size \in Int, r = GetMemory(size)
      PROVE  /\ r.ret \in {OK, FAIL} /\ r.out[1] = size
             /\ r.ret = OK => size \in 0 .. MAX_BUFFER_KB - 1
  <2>1. r.out = <<size>> /\ r.ret = IF size < 0 \/ size >= MAX_BUFFER_KB THEN FAIL ELSE OK
    BY <1>2 DEF GetMemory, Result
  <2> QED BY <1>1, <2>1
<1>3. CASE code = "GetAvailableMemory"
  <2>1. CASE pressure = <<>>
    <3>1. GetCurrentBuffer = MAX_BUFFER_KB /\ MAX_BUFFER_KB \in Int
      BY <1>1, <2>1 DEF GetCurrentBuffer
    <3>2. r.ret \in {OK, FAIL} /\ r.ret # OK
      BY <1>1, <1>2, <1>3, <3>1
    <3> QED BY <1>3, <3>2
  <2>2. CASE pressure # <<>>
    <3>1. pressure = <<pressure[1]>> /\ pressure[1] \in Int
      BY <1>1, <2>2 DEF Pressures
    <3>2. GetCurrentBuffer = pressure[1]
      BY <2>2 DEF GetCurrentBuffer
    <3>3. /\ r.ret \in {OK, FAIL} /\ r.out[1] = pressure[1]
          /\ r.ret = OK => pressure[1] \in 0 .. MAX_BUFFER_KB - 1
      BY <1>2, <1>3, <3>1, <3>2
    <3> QED BY <1>3, <3>1, <3>3 DEF FromKernel
  <2> QED BY <2>1, <2>2
<1>4. CASE code = "GetTotalMemory"
  <2>1. GetTotalBuffer(b) \in {-1, MemTotal}
    BY <1>1 DEF GetTotalBuffer
  <2>2. /\ r.ret \in {OK, FAIL} /\ r.out[1] = GetTotalBuffer(b)
        /\ r.ret = OK => GetTotalBuffer(b) \in 0 .. MAX_BUFFER_KB - 1
    BY <1>1, <1>2, <1>4, <2>1
  <2> QED BY <1>1, <1>4, <2>1, <2>2 DEF FromKernel
<1> QED BY <1>3, <1>4 DEF Sizes

\* The service carries the call out: what it does and answers, code by code.
LEMMA ServeIInv ==
  ASSUME IInv, NEW c \in Clients, Serve(c)
  PROVE  IInv'
<1> DEFINE code == call[c].code
           args == Read(code, parcel[c])
<1>0. /\ Typing /\ Known(c) /\ call[c].phase = "sent" /\ Sent(c) /\ call[c] \in CallRec /\ snap[c] \in SnapRec
      /\ Len(list[c]) <= MAX_PARCEL_SIZE /\ list[c] \in Seq(Bundles)
  BY DEF IInv, Known, Serve, Typing
<1>1. /\ UNCHANGED <<list, table, pressure>>
      /\ snap' = [snap EXCEPT ![c].table = IF code = "GetBundlePriorityList" THEN table ELSE snap[c].table,
                              ![c].pressure = IF code = "GetAvailableMemory" THEN pressure ELSE snap[c].pressure]
  BY DEF Serve
<1>2. /\ snap' \in [Clients -> SnapRec] /\ \A d \in Clients \ {c} : snap'[d] = snap[d]
      /\ snap'[c].list = snap[c].list
      /\ code = "GetBundlePriorityList" => snap'[c].table = table
      /\ code = "GetAvailableMemory" => snap'[c].pressure = pressure
  <2>1. pressure \in Pressures /\ table \in Seq(Bundles) /\ snap \in [Clients -> SnapRec]
    BY <1>0 DEF Typing
  <2> HIDE DEF Pressures, code
  <2> QED BY <1>0, <1>1, <2>1 DEF SnapRec
<1>3. code = "GetBundlePriorityList" => args = list[c] /\ snap[c].list = list[c]
  <2>1. ASSUME code = "GetBundlePriorityList" PROVE args = list[c] /\ snap[c].list = list[c]
    <3>1. parcel[c] = <<Len(list[c])>> \o list[c] /\ snap[c].list = list[c]
      <4>1. parcel[c] = Write(code, call[c].args, list[c]) /\ snap[c].list = list[c]
        BY <1>0, <2>1 DEF Sent
      <4> HIDE DEF code
      <4>2. Write(code, call[c].args, list[c]) = WriteList(list[c])
        <5>1. code # "OnWindowVisibilityChanged"
          BY <2>1
        <5> QED BY <2>1, <5>1 DEF Write
      <4> QED BY <4>1, <4>2 DEF WriteList
    <3>2. args = ReadList(parcel[c])
      <4>1. code # "OnWindowVisibilityChanged" /\ code \notin States
        BY <2>1 DEF States
      <4> HIDE DEF code
      <4> QED BY <2>1, <4>1 DEF Read, args
    <3>3. list[c] \in Seq(Bundles)
      BY <1>0
    <3>4. ReadList(parcel[c]) = list[c]
      BY <3>1, <3>3, ListRoundTrip
    <3> QED BY <3>1, <3>2, <3>4
  <2> QED BY <2>1
<1>4. code # "GetBundlePriorityList" => args = call[c].args
  BY <1>0, ArgumentsRoundTrip DEF Sent
<1>5. ASSUME NEW ret \in Rets, Becomes(c, "served", ret),
             DOMAIN parcel' = Clients, DOMAIN ran' = Clients, total' \in {-1, MemTotal},
             \A d \in Clients \ {c} : parcel'[d] = parcel[d] /\ ran'[d] = ran[d],
             ret = OK =>
               /\ code \notin OneWay => ran'[c] = <<[code |-> code, args |-> args]>>
               /\ code = "GetBundlePriorityList" => parcel'[c] = <<Len(args) + Len(table)>> \o args \o table
               /\ code \in Sizes => FromKernel(code, parcel'[c][1])
      PROVE  IInv'
  <2>1. /\ call' \in [Clients -> CallRec] /\ call'[c].phase = "served" /\ call'[c].ret = ret
        /\ call'[c].code = code /\ call'[c].args = call[c].args
        /\ \A d \in Clients \ {c} : call'[d] = call[d]
    <3>1. "served" \in Phases /\ call \in [Clients -> CallRec]
      BY <1>0 DEF Phases, Typing
    <3> QED BY <1>5, <3>1, CallFields
  <2>2. Typing'
    BY <1>0, <1>1, <1>2, <1>5, <2>1 DEF Typing
  <2>3. ASSUME ret = OK, code \notin OneWay PROVE CarriedOut(c)'
    <3>1. ran'[c] = <<[code |-> code, args |-> args]>>
      BY <1>5, <2>3
    <3>2. Len(ran'[c]) = 1 /\ ran'[c][1] = [code |-> code, args |-> args]
      <4> HIDE DEF code, args
      <4> QED BY <3>1
    <3>3. ran'[c][1].code = code /\ ran'[c][1].args = args
      BY <3>2
    <3> HIDE DEF args
    <3> QED BY <1>4, <2>1, <3>2, <3>3 DEF CarriedOut
  <2>4. Served(c)'
    <3> HIDE DEF args
    <3>1. code = "GetBundlePriorityList" =>
            /\ snap'[c].list = list'[c]
            /\ ret = OK =>
                 parcel'[c] = <<Len(snap'[c].list) + Len(snap'[c].table)>> \o snap'[c].list \o snap'[c].table
      BY <1>1, <1>2, <1>3, <1>5
    <3>2. code \in Sizes /\ ret = OK => Real(c, parcel[c][1])'
      BY <1>2, <1>5, <2>1 DEF Real, FromKernel
    <3> HIDE DEF code
    <3> QED BY <2>1, <2>3, <3>1, <3>2 DEF Served
  <2>5. Known(c)'
    BY <1>0, <1>1, <2>1, <2>4 DEF Known
  <2> QED BY <1>1, <1>2, <1>5, <2>1, <2>2, <2>5, StepOfOne
<1>6. CASE ~Allowed(c, code, parcel[c])
  <2>1. \E ret \in {FAIL, "IPC_STUB_ERR"} :
          /\ Becomes(c, "served", ret)
          /\ parcel' = parcel /\ ran' = ran /\ total' = total
    BY <1>6 DEF Serve, Becomes
  <2>2. PICK ret \in {FAIL, "IPC_STUB_ERR"} :
          /\ Becomes(c, "served", ret)
          /\ parcel' = parcel /\ ran' = ran /\ total' = total
    BY <2>1
  <2>3. ret \in Rets /\ ret # OK
    BY CodesDiffer DEF Rets
  <2> HIDE DEF code, args
  <2> QED BY <1>0, <1>5, <2>2, <2>3 DEF Typing
<1>7. CASE Allowed(c, code, parcel[c])
  <2>1. PICK r \in Results(c, code, args) :
          /\ Becomes(c, "served", r.ret)
          /\ parcel' = [parcel EXCEPT ![c] = r.out]
          /\ total' = IF code = "GetTotalMemory" THEN r.out[1] ELSE total
    BY <1>7 DEF Serve, Becomes
  <2>2. ran' = IF Reaches(c, code, args)
               THEN [ran EXCEPT ![c] = Append(ran[c], [code |-> code, args |-> args])]
               ELSE ran
    BY <1>7 DEF Serve
  <2>3. /\ r.ret \in Rets
        /\ r.ret = OK =>
             /\ code \notin OneWay => Reaches(c, code, args)
             /\ code = "GetBundlePriorityList" => r.out = <<Len(args) + Len(table)>> \o args \o table
             /\ code \in Sizes => FromKernel(code, r.out[1])
        /\ code = "GetTotalMemory" => r.out[1] \in {-1, MemTotal}
    <3> HIDE DEF code, args
    <3>1. CASE code = "GetBundlePriorityList"
      <4>0. /\ code \notin Sizes /\ code # "GetReclaimPriorityByPid" /\ code \notin States
            /\ code # "OnWindowVisibilityChanged"
        BY <3>1 DEF Sizes, States
      <4>5. code # "GetAvailableMemory" /\ code # "GetTotalMemory"
        BY <3>1
      <4>1. r = Result(OK, <<Len(args) + Len(table)>> \o args \o table)
        BY <2>1, <3>1, <4>0, <4>5 DEF Results, GetBundlePriorityList
      <4>2. r.ret = OK /\ r.out = <<Len(args) + Len(table)>> \o args \o table
        BY <4>1 DEF Result
<4> QED BY <3>1, <4>0, <4>2, <4>5 DEF Reaches, Rets
    <3>2. CASE code \in Sizes
      <4>0. /\ code # "GetBundlePriorityList" /\ code # "GetReclaimPriorityByPid" /\ code \notin States
            /\ code # "OnWindowVisibilityChanged"
        BY <3>2 DEF Sizes, States
      <4>1. \E b \in BOOLEAN :
              \/ code = "GetAvailableMemory" /\ r = GetMemory(GetCurrentBuffer)
              \/ code = "GetTotalMemory" /\ r = GetMemory(GetTotalBuffer(b))
        <5>1. CASE code = "GetAvailableMemory"
          BY <2>1, <4>0, <5>1 DEF Results
        <5>2. CASE code = "GetTotalMemory"
          BY <2>1, <4>0, <5>2 DEF Results
        <5> QED BY <3>2, <5>1, <5>2 DEF Sizes
      <4>2. /\ r.ret \in {OK, FAIL}
            /\ r.ret = OK => FromKernel(code, r.out[1])
            /\ code = "GetTotalMemory" => r.out[1] \in {-1, MemTotal}
        BY <1>0, <3>2, <4>1, SizeServed
      <4>3. Reaches(c, code, args)
        BY <3>2 DEF Reaches, Sizes
      <4> QED BY <4>0, <4>2, <4>3 DEF Rets
    <3>3. CASE code = "GetReclaimPriorityByPid"
      <4>0. /\ code # "GetBundlePriorityList" /\ code \notin Sizes /\ code \notin States
            /\ code # "OnWindowVisibilityChanged"
        BY <3>3 DEF Sizes, States
      <4>5. code # "GetAvailableMemory" /\ code # "GetTotalMemory"
        BY <4>0 DEF Sizes
      <4>1. r \in {GetReclaimPriorityByPid(b) : b \in BOOLEAN}
        BY <2>1, <3>3, <4>0, <4>5 DEF Results
      <4>2. r.ret \in {FAIL, OK}
        BY <4>1 DEF Result, GetReclaimPriorityByPid
      <4> QED BY <3>3, <4>0, <4>2, <4>5 DEF Reaches, Rets
    <3>4. CASE code \in States
      <4>0. /\ code # "GetBundlePriorityList" /\ code \notin Sizes /\ code # "GetReclaimPriorityByPid"
            /\ code # "SetCritical" /\ code # "OnWindowVisibilityChanged"
        BY <3>4 DEF Sizes, States
      <4>5. code # "GetAvailableMemory" /\ code # "GetTotalMemory"
        BY <4>0 DEF Sizes
      <4>1. r \in {NotifyProcessStateChanged(args[5], b) : b \in BOOLEAN}
        BY <2>1, <3>4, <4>0, <4>5 DEF Results
      <4>2. r.ret \in {"MEMMGR_SERVICE_ERR", OK}
        BY <4>1 DEF Result, NotifyProcessStateChanged
      <4> QED BY <4>0, <4>2, <4>5 DEF Reaches, Rets
    <3>5. CASE code = "OnWindowVisibilityChanged"
      <4>0. code # "GetBundlePriorityList" /\ code \notin Sizes /\ code # "GetReclaimPriorityByPid" /\ code \notin States
        BY <3>5 DEF Sizes, States
      <4>5. code # "GetAvailableMemory" /\ code # "GetTotalMemory"
        BY <4>0 DEF Sizes
      <4>1. r = Result(IF c.uid = WINDOW_UID THEN OK ELSE FAIL, <<OK>>)
        BY <2>1, <3>5, <4>0, <4>5 DEF Results
      <4>2. r.ret = IF c.uid = WINDOW_UID THEN OK ELSE FAIL
        BY <4>1 DEF Result
      <4> QED BY <3>5, <4>0, <4>2, <4>5, CodesDiffer DEF Reaches, Rets
    <3>6. CASE /\ code # "GetBundlePriorityList" /\ code \notin Sizes /\ code # "GetReclaimPriorityByPid"
               /\ code \notin States /\ code # "OnWindowVisibilityChanged"
      <4>1. r.ret = OK
        <5>1. code # "GetAvailableMemory" /\ code # "GetTotalMemory"
          BY <3>6 DEF Sizes
        <5> QED BY <2>1, <3>6, <5>1 DEF Results, Result
      <4>2. code \notin OneWay => code # "SetCritical"
        BY DEF OneWay
      <4>3. code # "GetTotalMemory"
        BY <3>6 DEF Sizes
      <4> QED BY <3>6, <4>1, <4>2, <4>3 DEF Reaches, Rets
    <3> QED BY <3>1, <3>2, <3>3, <3>4, <3>5, <3>6
  <2>4. ran[c] = <<>> /\ DOMAIN ran = Clients /\ DOMAIN parcel = Clients
    BY <1>0 DEF Sent, Typing
  <2>7. total' \in {-1, MemTotal}
    BY <1>0, <2>1, <2>3 DEF Typing
  <2> HIDE DEF code, args
  <2>5. /\ DOMAIN parcel' = Clients /\ parcel'[c] = r.out
        /\ \A d \in Clients \ {c} : parcel'[d] = parcel[d]
    BY <2>1, <2>4
  <2>6. /\ DOMAIN ran' = Clients /\ \A d \in Clients \ {c} : ran'[d] = ran[d]
        /\ Reaches(c, code, args) => ran'[c] = <<[code |-> code, args |-> args]>>
    <3>1. Append(ran[c], [code |-> code, args |-> args]) = <<[code |-> code, args |-> args]>>
      BY <2>4
    <3> QED BY <2>2, <2>4, <3>1
  <2> QED BY <1>5, <2>1, <2>3, <2>5, <2>6, <2>7
<1> QED BY <1>6, <1>7

\* The proxy takes the reply, or what the transaction failed with.
LEMMA ReturnIInv ==
  ASSUME IInv, NEW c \in Clients, Return(c)
  PROVE  IInv'
<1>0. /\ Typing /\ Known(c) /\ Served(c) /\ call \in [Clients -> CallRec] /\ snap[c] \in SnapRec
      /\ Len(list[c]) <= MAX_PARCEL_SIZE /\ list[c] \in Seq(Bundles) /\ call[c].ret \in Rets
  <2>1. call[c] \in CallRec
    BY DEF IInv, Typing
  <2> QED BY <2>1 DEF IInv, Known, Return, Typing, CallRec
<1>1. /\ UNCHANGED <<table, pressure, total, ran, snap>>
      /\ DOMAIN parcel' = Clients /\ \A d \in Clients \ {c} : parcel'[d] = parcel[d]
  BY <1>0 DEF Return, Typing
<1>2. ASSUME Answered(c)', call'[c].phase = "done", call' \in [Clients -> CallRec],
             \A d \in Clients \ {c} : call'[d] = call[d],
             list' \in [Clients -> Seq(Bundles)], Len(list'[c]) <= MAX_PARCEL_SIZE,
             \A d \in Clients \ {c} : list'[d] = list[d]
      PROVE  IInv'
  <2>1. Typing'
    BY <1>0, <1>1, <1>2 DEF Typing
  <2>2. Known(c)'
    BY <1>2 DEF Known
  <2> QED BY <1>1, <1>2, <2>1, <2>2, StepOfOne
<1>3. ASSUME NEW ret \in Rets, Becomes(c, "done", ret), list' = list,
             ret = OK => call[c].code \in OneWay \/ (call[c].ret = OK /\ call[c].code \notin Sizes \cup {"GetBundlePriorityList"})
      PROVE  IInv'
  <2>1. /\ call' \in [Clients -> CallRec] /\ call'[c].phase = "done" /\ call'[c].ret = ret
        /\ call'[c].code = call[c].code /\ call'[c].args = call[c].args
        /\ \A d \in Clients \ {c} : call'[d] = call[d]
    <3>1. "done" \in Phases
      BY DEF Phases
    <3> QED BY <1>0, <1>3, <3>1, CallFields
  <2>2. ret = OK /\ call[c].code \notin OneWay => CarriedOut(c)'
    BY <1>0, <1>1, <1>3, <2>1 DEF Served, CarriedOut
  <2>3. ret = OK => call[c].code \notin Sizes \cup {"GetBundlePriorityList"}
    BY <1>3, CodesDiffer
  <2>4. call[c].code = "GetBundlePriorityList" => snap[c].list = list[c]
    BY <1>0 DEF Served
  <2>5. Answered(c)'
    BY <1>1, <1>3, <2>1, <2>2, <2>3, <2>4 DEF Answered
  <2> QED BY <1>0, <1>2, <1>3, <2>1, <2>5 DEF Typing
<1>4. CASE call[c].ret = OK /\ call[c].code = "GetBundlePriorityList"
  <2>0. TakeList(c)
    <3>1. call[c].code \notin Sizes /\ TakeReply(c)
      BY <1>4, CodesDiffer DEF Return
    <3> QED BY <1>4, <3>1 DEF TakeReply
  <2> DEFINE held == snap[c].list
             t == snap[c].table
  <2>1. /\ held \in Seq(Bundles) /\ t \in Seq(Bundles) /\ held = list[c]
        /\ parcel[c] = <<Len(held) + Len(t)>> \o held \o t
        /\ CarriedOut(c)
    BY <1>0, <1>4, CodesDiffer DEF Served, SnapRec
  <2>2. ReadList(parcel[c]) = held \o t /\ held \o t \in Seq(Bundles) /\ parcel[c][1] = Len(held \o t)
    <3> HIDE DEF held, t
    <3> QED BY <2>1, ListReply
  <2>3. CASE ~ListReads(parcel[c])
    <3>1. Becomes(c, "done", FAIL) /\ list' = list
      BY <2>0, <2>3 DEF TakeList, Finish, Becomes
    <3>2. FAIL \in Rets /\ FAIL # OK
      BY CodesDiffer DEF Rets
    <3> QED BY <1>3, <3>1, <3>2
  <2>4. CASE ListReads(parcel[c])
    <3>1. Becomes(c, "done", OK) /\ list' = [list EXCEPT ![c] = held \o t]
      BY <2>0, <2>2, <2>4 DEF TakeList, Finish, Becomes
    <3>2. /\ list' \in [Clients -> Seq(Bundles)] /\ list'[c] = held \o t
          /\ \A d \in Clients \ {c} : list'[d] = list[d]
      <4> HIDE DEF held, t
      <4> QED BY <1>0, <2>2, <3>1 DEF Typing
    <3>3. Len(list'[c]) <= MAX_PARCEL_SIZE
      BY <2>2, <2>4, <3>2 DEF ListReads
    <3>4. /\ call' \in [Clients -> CallRec] /\ call'[c].phase = "done" /\ call'[c].ret = OK
          /\ call'[c].code = call[c].code /\ call'[c].args = call[c].args
          /\ \A d \in Clients \ {c} : call'[d] = call[d]
      <4>1. "done" \in Phases /\ OK \in Rets
        BY DEF Phases, Rets
      <4> QED BY <1>0, <3>1, <4>1, CallFields
    <3>5. CarriedOut(c)'
      BY <1>1, <2>1, <3>4 DEF CarriedOut
    <3>6. Answered(c)'
      BY <1>1, <1>4, <3>2, <3>4, <3>5, CodesDiffer DEF Answered
    <3> QED BY <1>2, <3>2, <3>3, <3>4, <3>6
  <2> QED BY <2>3, <2>4
<1>5. CASE call[c].ret = OK /\ call[c].code \in Sizes
  <2>1. call[c].code # "GetBundlePriorityList"
    BY <1>5, CodesDiffer
  <2>2. TakeSize(c)
    BY <1>5, <2>1 DEF Return, TakeReply
  <2>3. Real(c, parcel[c][1]) /\ CarriedOut(c)
    BY <1>0, <1>5, CodesDiffer DEF Served
  <2>4. parcel[c][1] \in Int
    BY <2>3 DEF Real
  <2>6. Sized(c, parcel[c][1]) /\ list' = list
    BY <2>2 DEF TakeSize, Sized
  <2>7. /\ call' \in [Clients -> CallRec]
        /\ call'[c].phase = "done" /\ call'[c].ret = call[c].ret /\ call'[c].out = parcel[c][1]
        /\ call'[c].code = call[c].code /\ call'[c].args = call[c].args
        /\ \A d \in Clients \ {c} : call'[d] = call[d]
    BY <1>0, <2>4, <2>6, SizeFields
  <2>8. CarriedOut(c)'
    BY <1>1, <2>3, <2>7 DEF CarriedOut
  <2>9. Answered(c)'
    <3>1. Real(c, call[c].out)'
      BY <1>1, <2>3, <2>7 DEF Real
    <3> QED BY <1>1, <2>1, <2>7, <2>8, <3>1 DEF Answered
  <2> QED BY <1>0, <1>2, <2>6, <2>7, <2>9 DEF Typing
<1>6. CASE call[c].ret = OK /\ call[c].code \notin Sizes \cup {"GetBundlePriorityList"}
  <2>1. Becomes(c, "done", OK) /\ list' = list
    BY <1>6 DEF Return, TakeReply, Finish, Becomes
  <2>2. OK \in Rets
    BY DEF Rets
  <2> QED BY <1>3, <1>6, <2>1, <2>2
<1>7. CASE call[c].ret # OK
  <2>1. \E ret \in {OK, call[c].ret} :
           Becomes(c, "done", ret) /\ list' = list /\ (ret = OK => call[c].code \in OneWay)
    BY <1>7 DEF Return, Transacted, Finish, Becomes
  <2>2. OK \in Rets
    BY DEF Rets
  <2> QED BY <1>0, <1>3, <2>1, <2>2
<1> QED BY <1>4, <1>5, <1>6, <1>7

\* The service is gone: only the notifications pass for a success.
LEMMA BrokenIInv ==
  ASSUME IInv, NEW c \in Clients, Broken(c)
  PROVE  IInv'
<1>1. /\ Typing /\ Known(c) /\ call \in [Clients -> CallRec] /\ (Sent(c) \/ Served(c))
      /\ Len(list[c]) <= MAX_PARCEL_SIZE
  BY DEF IInv, Known, Broken, Typing
<1>2. /\ UNCHANGED <<list, table, pressure, total, ran, snap>>
      /\ DOMAIN parcel' = Clients /\ \A d \in Clients \ {c} : parcel'[d] = parcel[d]
  BY <1>1 DEF Broken, Typing
<1>3. PICK ret \in {OK, "DEAD"} : Becomes(c, "done", ret) /\ (ret = OK => call[c].code \in OneWay)
  BY CodesDiffer DEF Broken, Transacted, Finish, Becomes
<1>4. ret \in Rets /\ "done" \in Phases
  BY DEF Rets, Phases
<1>5. /\ call' \in [Clients -> CallRec] /\ call'[c].phase = "done" /\ call'[c].ret = ret
      /\ call'[c].code = call[c].code /\ call'[c].args = call[c].args
      /\ \A d \in Clients \ {c} : call'[d] = call[d]
  BY <1>1, <1>3, <1>4, CallFields
<1>6. Typing'
  BY <1>1, <1>2, <1>5 DEF Typing
<1>7. Answered(c)'
  <2>1. call[c].code = "GetBundlePriorityList" => snap[c].list = list[c] /\ ret # OK
    BY <1>1, <1>3, CodesDiffer DEF Sent, Served
  <2>2. call[c].code \in Sizes => ret # OK
    BY <1>3, CodesDiffer
  <2> QED BY <1>2, <1>3, <1>5, <2>1, <2>2 DEF Answered
<1>8. Known(c)'
  BY <1>1, <1>2, <1>5, <1>7 DEF Known
<1> QED BY <1>2, <1>5, <1>6, <1>8, StepOfOne

\* A client that drops its list or makes it anew keeps the invariant.
LEMMA ForgetIInv ==
  ASSUME IInv, NEW c \in Clients, NEW held \in {list[c], <<>>}, Forget(c, held)
  PROVE  IInv'
<1>1. Typing /\ Known(c) /\ MAX_PARCEL_SIZE \in Nat
  BY IpcAssumption DEF IInv
<1>2. held \in Seq(Bundles) /\ Len(held) <= MAX_PARCEL_SIZE
  <2>1. list[c] \in Seq(Bundles) /\ Len(list[c]) <= MAX_PARCEL_SIZE
    BY <1>1 DEF Typing, Known
  <2>2. <<>> \in Seq(Bundles) /\ Len(<<>>) <= MAX_PARCEL_SIZE
    BY <1>1
  <2> QED BY <2>1, <2>2
<1>3. /\ call' = [call EXCEPT ![c] = Nothing] /\ list' = [list EXCEPT ![c] = held]
      /\ ran' = [ran EXCEPT ![c] = <<>>] /\ snap' = [snap EXCEPT ![c] = NoSnap]
      /\ UNCHANGED <<parcel, table, pressure, total>>
  BY DEF Forget
<1>4. Nothing \in CallRec /\ NoSnap \in SnapRec /\ Nothing.phase = "idle"
  BY NothingType DEF Nothing
<1> HIDE DEF Nothing, NoSnap, CallRec, SnapRec
<1>5. /\ call' \in [Clients -> CallRec] /\ snap' \in [Clients -> SnapRec] /\ list' \in [Clients -> Seq(Bundles)]
      /\ DOMAIN ran' = Clients /\ DOMAIN parcel' = Clients
      /\ call'[c] = Nothing /\ list'[c] = held /\ ran'[c] = <<>>
      /\ \A d \in Clients \ {c} : /\ call'[d] = call[d] /\ list'[d] = list[d] /\ ran'[d] = ran[d]
                                  /\ parcel'[d] = parcel[d] /\ snap'[d] = snap[d]
  BY <1>1, <1>2, <1>3, <1>4 DEF Typing
<1>6. Typing'
  BY <1>1, <1>3, <1>5 DEF Typing
<1>7. Known(c)'
  BY <1>2, <1>4, <1>5 DEF Known
<1> QED BY <1>5, <1>6, <1>7, StepOfOne

\* What the service answers from may change under a call that is on its way.
LEMMA ServiceIInv ==
  ASSUME IInv, UNCHANGED <<call, parcel, list, ran, snap>>, table' \in Seq(Bundles), pressure' \in Pressures,
         total' \in {-1, MemTotal}
  PROVE  IInv'
<1>1. Typing'
  BY DEF IInv, Typing
<1>2. \A c \in Clients : Known(c)'
  BY KnownFrame DEF IInv
<1> QED BY <1>1, <1>2 DEF IInv

\* Every step keeps the invariant.
LEMMA NextIInv == IInv /\ [Next]_vars => IInv'
<1> SUFFICES ASSUME IInv, [Next]_vars PROVE IInv'
  OBVIOUS
<1>0. table \in Seq(Bundles) /\ pressure \in Pressures /\ total \in {-1, MemTotal}
  BY DEF IInv, Typing
<1>1. ASSUME NEW c \in Clients,
             \/ \E code \in c.calls : \E args \in Arguments(c, code) : Call(c, code, args)
             \/ Serve(c) \/ Return(c) \/ Broken(c)
             \/ Forget(c, list[c]) \/ Forget(c, <<>>)
      PROVE  IInv'
  BY <1>1, CallIInv, ServeIInv, ReturnIInv, BrokenIInv, ForgetIInv
<1>2. CASE OnStart \/ UNCHANGED vars
  BY <1>0, <1>2, ServiceIInv DEF OnStart, vars
<1>3. CASE Crash
  <2>1. UNCHANGED <<call, parcel, list, pressure, ran, snap>> /\ table' = <<>> /\ total' = -1
    BY <1>3 DEF Crash
  <2>2. table' \in Seq(Bundles)
    BY <2>1
  <2> QED BY <1>0, <2>1, <2>2, ServiceIInv
<1>4. CASE TableChanges
  <2>1. table' \in Seq(Bundles)
    BY <1>0, <1>4 DEF TableChanges
  <2> QED BY <1>0, <1>4, <2>1, ServiceIInv DEF TableChanges
<1>5. CASE PressureChanges
  <2>1. UNCHANGED <<call, parcel, list, table, total, ran, snap>> /\ pressure' \in Pressures
    BY <1>5 DEF PressureChanges
  <2> QED BY <1>0, <2>1, ServiceIInv
<1> QED BY <1>1, <1>2, <1>3, <1>4, <1>5 DEF Next

-----------------------------------------------------------------------------
(* In every state every call is known for what it is: the inductive        *)
(* invariant of the way of a call from MemMgrProxy to MemMgrStub and back. *)
THEOREM CallsKnown == Spec => []IInv
<1> QED BY InitIInv, NextIInv, PTL DEF Spec

(* A client that is told its call succeeded knows that the service carried *)
(* out exactly this call, once and with its arguments, whatever crashes    *)
(* and calls of other clients come between: MemMgrProxy and MemMgrStub     *)
(* agree on what they write and read.                                      *)
THEOREM SuccessMeansServed == Spec => []ServedAsAsked
<1>1. IInv => ServedAsAsked
  BY DEF IInv, Known, Answered, CarriedOut, ServedAsAsked
<1> QED BY <1>1, CallsKnown, PTL

(* GetBundlePriorityList gives what the client passed followed by the      *)
(* table of the moment it was served, or fails and leaves the list alone,  *)
(* also when the table or the service changes before the reply is read.    *)
THEOREM ListFromTable == Spec => []ListIsTable
<1>1. IInv => ListIsTable
  BY DEF IInv, Known, Answered, ListIsTable
<1> QED BY <1>1, CallsKnown, PTL

(* A size of memory that GetAvailableMemory or GetTotalMemory gives is one *)
(* of the kernel: neither the value of GetCurrentBuffer for a file that    *)
(* cannot be read nor the -1 of GetTotalBuffer passes, and a crash between *)
(* two calls, which loses totalBuffer_, does not change MemTotal.          *)
THEOREM SizeFromKernel == Spec => []SizeIsReal
<1>1. IInv => SizeIsReal
  BY DEF IInv, Known, Answered, Real, SizeIsReal
<1> QED BY <1>1, CallsKnown, PTL

-----------------------------------------------------------------------------
(* The type invariant.                                                     *)

\* No call reaches the service's methods twice, and nothing else than a size is a size.
Bounded ==
  /\ up \in BOOLEAN /\ crashes \in 0 .. MaxCrashes
  /\ \A c \in Clients : Len(ran[c]) <= 1

\* A step keeps that.
LEMMA BoundedStep ==
  ASSUME IInv, Bounded, [Next]_vars
  PROVE  Bounded'
<1>1. /\ MaxCrashes \in Nat
      /\ DOMAIN ran = Clients
  BY IpcAssumption DEF IInv, Typing
<1>2. ASSUME UNCHANGED <<up, crashes>>, NEW c \in Clients, Len(ran'[c]) <= 1,
             \A d \in Clients \ {c} : ran'[d] = ran[d]
      PROVE  Bounded'
  BY <1>2 DEF Bounded
<1>3. ASSUME UNCHANGED ran, up' \in BOOLEAN, crashes' \in 0 .. MaxCrashes
      PROVE  Bounded'
  BY <1>3 DEF Bounded
<1>4. ASSUME UNCHANGED ran, UNCHANGED <<up, crashes>> PROVE Bounded'
  BY <1>4 DEF Bounded
<1>5. ASSUME NEW c \in Clients, NEW code, NEW args, Call(c, code, args) PROVE Bounded'
  BY <1>4, <1>5 DEF Call
<1>6. ASSUME NEW c \in Clients, Serve(c) PROVE Bounded'
  <2>1. ran[c] = <<>>
    BY <1>6 DEF IInv, Known, Sent, Serve
  <2>2. PICK x : ran' = ran \/ ran' = [ran EXCEPT ![c] = Append(ran[c], x)]
    <3>1. ASSUME NEW x, x = [code |-> call[c].code, args |-> Read(call[c].code, parcel[c])]
          PROVE  ran' = ran \/ ran' = [ran EXCEPT ![c] = Append(ran[c], x)]
      BY <1>6, <3>1 DEF Serve
    <3> QED BY <3>1
  <2>3. Append(ran[c], x) = <<x>>
    BY <2>1
  <2>4. Len(ran'[c]) <= 1
    <3>1. ran'[c] = <<>> \/ ran'[c] = <<x>>
      BY <1>1, <2>1, <2>2, <2>3
    <3>2. CASE ran'[c] = <<>>
      BY <3>2
    <3>3. CASE ran'[c] = <<x>>
      BY <3>3
    <3> QED BY <3>1, <3>2, <3>3
  <2>6. \A d \in Clients \ {c} : ran'[d] = ran[d]
    BY <1>1, <2>2
  <2>5. UNCHANGED <<up, crashes>>
    BY <1>6 DEF Serve
  <2> QED BY <1>2, <2>4, <2>5, <2>6
<1>7. ASSUME NEW c \in Clients, Return(c) \/ Broken(c) PROVE Bounded'
  BY <1>4, <1>7 DEF Return, Broken
<1>8. ASSUME NEW c \in Clients, NEW had, Forget(c, had) PROVE Bounded'
  <2>1. ran' = [ran EXCEPT ![c] = <<>>] /\ UNCHANGED <<up, crashes>>
    BY <1>8 DEF Forget
  <2>2. Len(ran'[c]) <= 1 /\ \A d \in Clients \ {c} : ran'[d] = ran[d]
    BY <1>1, <2>1
  <2> QED BY <1>2, <2>1, <2>2
<1>9. CASE OnStart
  BY <1>3, <1>9 DEF OnStart, Bounded
<1>10. CASE Crash
  <2>1. UNCHANGED ran /\ up' = FALSE /\ crashes > 0 /\ crashes' = crashes - 1
    BY <1>10 DEF Crash
  <2>2. crashes' \in 0 .. MaxCrashes
    BY <1>1, <2>1 DEF Bounded
  <2> QED BY <1>3, <2>1, <2>2 DEF Bounded
<1>11. CASE TableChanges
  BY <1>4, <1>11 DEF TableChanges
<1>12. CASE PressureChanges
  BY <1>4, <1>12 DEF PressureChanges
<1>13. CASE UNCHANGED vars
  BY <1>4, <1>13 DEF vars
<1> QED BY <1>5, <1>6, <1>7, <1>8, <1>9, <1>10, <1>11, <1>12, <1>13 DEF Next

(* The type invariant.  Part of it is that a call leads to at most one call *)
(* of the service's methods, whether it succeeds, fails or breaks.          *)
THEOREM CallTypes == Spec => []TypeOK
<1>1. Init => Bounded
  <2> SUFFICES ASSUME Init PROVE Bounded
    OBVIOUS
  <2>1. MaxCrashes \in Nat
    BY IpcAssumption
  <2>2. \A c \in Clients : ran[c] = <<>>
    BY DEF Init
  <2>3. \A c \in Clients : Len(ran[c]) <= 1
    BY <2>2
  <2>4. up = FALSE /\ crashes = MaxCrashes
    BY DEF Init
  <2>5. crashes \in 0 .. MaxCrashes
    BY <2>1, <2>4
  <2> QED BY <2>3, <2>4, <2>5 DEF Bounded
<1>2. IInv /\ Bounded /\ [Next]_vars => Bounded'
  BY BoundedStep
<1>3. IInv /\ Bounded => TypeOK
  <2> SUFFICES ASSUME IInv, Bounded PROVE TypeOK
    OBVIOUS
  <2>1. ASSUME NEW c \in Clients
        PROVE  /\ call[c].code \in Codes \union {NULL} /\ call[c].phase \in Phases
               /\ list[c] \in Seq(Bundles) /\ Len(list[c]) <= MAX_PARCEL_SIZE
    <3>1. call[c] \in CallRec /\ list[c] \in Seq(Bundles) /\ Known(c)
      BY DEF IInv, Typing
    <3>2. call[c].code \in Codes \union {NULL} /\ call[c].phase \in Phases
      BY <3>1 DEF CallRec
    <3> QED BY <3>1, <3>2 DEF Known
  <2>2. table \in Seq(Bundles) /\ pressure \in Pressures /\ total \in {-1, MemTotal}
    BY DEF IInv, Typing
  <2> QED BY <2>1, <2>2 DEF TypeOK, Bounded, Phases
<1> QED BY <1>1, <1>2, <1>3, CallsKnown, PTL DEF Spec
=============================================================================
