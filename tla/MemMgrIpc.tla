----------------------------- MODULE MemMgrIpc -----------------------------
(***************************************************************************)
(* The way of a call from a client to the service and back: MemMgrClient   *)
(* looks the service up, MemMgrProxy writes the arguments into a parcel,   *)
(* MemMgrStub checks the caller, reads the parcel and calls MemMgrService, *)
(* and its result goes back as the status of the transaction and in the    *)
(* reply.  Clients call concurrently; the service may crash at any moment, *)
(* also between carrying a call out and answering it.                      *)
(*                                                                         *)
(* A parcel is the sequence of the values written, without the interface   *)
(* token, which every proxy writes and the stub accepts.  What the service *)
(* hands on to its managers is in their modules.                           *)
(***************************************************************************)
EXTENDS Integers, Sequences, FiniteSets

CONSTANTS
  Clients,          \* records [pid, uid, native, calls]: native, a native or a shell token; calls, what it calls
  Bundles,          \* the bundles there may be
  WINDOW_UID,       \* windowManagerUid_
  CAMERA_UID,       \* CAMERA_SERVICE_UID
  FOUNDATION_UID,
  MAX_PARCEL_SIZE,  \* bundles a list may have
  MAX_WINDOWS,      \* windows a call may tell of, the stub's MAX_PARCEL_SIZE
  MAX_BUFFER_KB,    \* what a buffer that cannot be read counts as
  MemTotal,         \* MemTotal of /proc/meminfo, which stays while the machine runs
  MaxCrashes        \* bound: crashes of the service

\* Results of a call
OK   == "ERR_OK"
FAIL == "-1"
Getters == {"GetBundlePriorityList", "GetKillLevelOfLmkd", "GetAvailableMemory", "GetTotalMemory",
            "GetReclaimPriorityByPid"}
Sizes   == {"GetAvailableMemory", "GetTotalMemory"}
Apps    == {"RegisterActiveApps", "DeregisterActiveApps"}
Subs    == {"SubscribeAppState", "UnsubscribeAppState"}
States  == {"NotifyProcessStateChangedSync", "NotifyProcessStateChangedAsync"}
OneWay  == {"NotifyProcessStatus", "SetCritical"}
Codes   == Getters \union Apps \union Subs \union States \union OneWay
           \union {"NotifyDistDevStatus", "OnWindowVisibilityChanged"}

ASSUME IpcAssumption ==
  /\ \A c \in Clients : c.pid \in Nat /\ c.uid \in Nat /\ c.native \in BOOLEAN /\ c.calls \subseteq Codes
  /\ IsFiniteSet(Bundles)
  /\ MAX_PARCEL_SIZE \in Nat /\ MAX_WINDOWS \in Nat
  /\ MAX_BUFFER_KB \in Nat \ {0} /\ MemTotal \in Nat /\ MaxCrashes \in Nat

NULL == "null"

\* The arguments the model calls with; the numbers are only told apart.
Arguments(c, code) ==
  CASE code = "NotifyDistDevStatus"       -> {<<5, 6, "name", TRUE>>}
    [] code \in Apps                      -> {<<5, 6>>}
    [] code \in Subs                      -> {<<"subscriber">>, <<NULL>>}
    [] code = "OnWindowVisibilityChanged" -> {<<"w1", "w2">>, <<"w1", "w2", "w3">>}
    [] code = "GetReclaimPriorityByPid"   -> {<<5>>}
    [] code \in States                    -> {<<1, 2, 5, 6, r>> : r \in {"START_ABILITY", "UNKNOWN"}}
    [] code = "NotifyProcessStatus"       -> {<<5, 1, 0, 9>>}
    [] code = "SetCritical"               -> {<<5, TRUE, 9>>, <<c.pid, TRUE, 9>>}
    [] OTHER                              -> {<<>>}

Nothing == [code |-> NULL, args |-> <<>>, phase |-> "idle", ret |-> OK, out |-> 0]

NoSnap == [list |-> <<>>, table |-> <<>>, pressure |-> <<>>]

\* What ZSWAPD_PRESSURE_SHOW may say of the buffer: nothing that can be read, or a size, which may be no size.
Pressures == {<<>>, <<-1>>, <<MAX_BUFFER_KB - 1>>}

VARIABLES
  up,       \* is the service running and published?
  call,     \* client -> its call: code, arguments, phase, result and, of a getter, the value
  parcel,   \* client -> the parcel on its way, or the reply
  list,     \* client -> the BundlePriorityList it holds and passes again
  table,    \* the service's bundles, in the order of their priorities
  pressure, \* kernel: one of Pressures
  total,    \* totalBuffer_, -1 until it was read
  ran,      \* history: client -> the calls of the service's methods that its call led to
  snap,     \* history: client -> [list, table, pressure] before the call and when it was served
  crashes   \* crashes that may still happen

vars == <<up, call, parcel, list, table, pressure, total, ran, snap, crashes>>

TypeOK ==
  /\ up \in BOOLEAN
  /\ \A c \in Clients : /\ call[c].code \in Codes \union {NULL}
                        /\ call[c].phase \in {"idle", "sent", "served", "done"}
                        /\ list[c] \in Seq(Bundles) /\ Len(list[c]) <= MAX_PARCEL_SIZE
                        /\ Len(ran[c]) <= 1
  /\ table \in Seq(Bundles)
  /\ pressure \in Pressures
  /\ total \in {-1, MemTotal}
  /\ crashes \in 0 .. MaxCrashes

Init ==
  /\ up = FALSE
  /\ call = [c \in Clients |-> Nothing]
  /\ parcel = [c \in Clients |-> <<>>]
  /\ list = [c \in Clients |-> <<>>]
  /\ table = <<>>
  /\ pressure \in Pressures
  /\ total = -1
  /\ ran = [c \in Clients |-> <<>>]
  /\ snap = [c \in Clients |-> NoSnap]
  /\ crashes = MaxCrashes

-----------------------------------------------------------------------------
(* What proxy and stub write and read.                                     *)

WriteList(held)     == <<Len(held)>> \o held
WriteWindows(infos) == <<Len(infos)>> \o infos

\* Mutant: the proxy writes the uid before the pid.
WriteSwapped(code, args, held) ==
  CASE code = "GetBundlePriorityList"     -> WriteList(held)
    [] code = "OnWindowVisibilityChanged" -> WriteWindows(args)
    [] code \in Apps                      -> <<args[2], args[1]>>
    [] OTHER                              -> args

\* MemMgrProxy: the list the client holds goes along; the others write their arguments in order.
Write(code, args, held) ==
  CASE code = "GetBundlePriorityList"     -> WriteList(held)
    [] code = "OnWindowVisibilityChanged" -> WriteWindows(args)
    [] OTHER                              -> args

\* BundlePriorityList::ReadFromParcel fails beyond MAX_PARCEL_SIZE.
ListReads(p) == p[1] <= MAX_PARCEL_SIZE
ReadList(p)  == SubSeq(p, 2, p[1] + 1)

\* The stub refuses more windows than it takes, or than the parcel has.
WindowsRead(p) == p[1] <= MAX_WINDOWS /\ p[1] <= Len(p) - 1
ReadWindows(p) == SubSeq(p, 2, p[1] + 1)
\* A reason other than START_ABILITY is dropped.
ReadState(p) == [p EXCEPT ![5] = IF @ = "START_ABILITY" THEN @ ELSE "UNKNOWN"]

\* MemMgrStub
Read(code, p) ==
  CASE code = "GetBundlePriorityList"     -> ReadList(p)
    [] code = "OnWindowVisibilityChanged" -> ReadWindows(p)
    [] code \in States                    -> ReadState(p)
    [] OTHER                              -> p

\* The checks of the stub and of the service, before they do anything.
Allowed(c, code, p) ==
  /\ code = "GetReclaimPriorityByPid" => c.uid = CAMERA_UID
  /\ code \in States => c.uid = FOUNDATION_UID
  /\ code \in OneWay => c.native
  /\ code = "GetBundlePriorityList" => ListReads(p)
  /\ code = "OnWindowVisibilityChanged" => WindowsRead(p)

-----------------------------------------------------------------------------
(* MemMgrService.  A result is [ret, out]: the status of the transaction,  *)
(* which discards the reply unless it is 0, and the reply.                 *)
Result(ret, out) == [ret |-> ret, out |-> out]

\* Mutant: SetCount is forgotten, the reply has the entries the client sent.
GetBundlePriorityListUncounted(held) == Result(OK, <<Len(held)>> \o held)

\* Adds the table to what the client sent.
GetBundlePriorityList(held) == Result(OK, <<Len(held) + Len(table)>> \o held \o table)

\* KernelInterface::GetCurrentBuffer
GetCurrentBuffer == IF pressure = <<>> THEN MAX_BUFFER_KB ELSE pressure[1]

\* KernelInterface::GetTotalBuffer: the size read before, or else that of /proc/meminfo, if it can be read
GetTotalBuffer(readable) == IF total >= 0 THEN total ELSE IF readable THEN MemTotal ELSE -1

\* Mutant: a size below 0 passes.
GetMemoryUnchecked(size) == Result(IF size >= MAX_BUFFER_KB THEN FAIL ELSE OK, <<size>>)

\* GetAvailableMemory and GetTotalMemory
GetMemory(size) == Result(IF size < 0 \/ size >= MAX_BUFFER_KB THEN FAIL ELSE OK, <<size>>)

\* A file that is read, like an empty one, counts as a failure.
GetReclaimPriorityByPid(readable) ==
  LET empty == ~readable IN Result(IF readable \/ empty THEN FAIL ELSE OK, <<0>>)

\* UpdateReclaimPriority may refuse the request.
NotifyProcessStateChanged(reason, accepted) ==
  Result(IF reason = "START_ABILITY" /\ ~accepted THEN "MEMMGR_SERVICE_ERR" ELSE OK, <<OK>>)

\* A process may only call itself critical; only the window manager tells of windows.
Reaches(c, code, args) ==
  /\ code = "SetCritical" => args[1] = c.pid
  /\ code = "OnWindowVisibilityChanged" => c.uid = WINDOW_UID

Results(c, code, args) ==
  CASE code = "GetBundlePriorityList" -> {GetBundlePriorityList(args)}
    [] code = "GetAvailableMemory" -> {GetMemory(GetCurrentBuffer)}
    [] code = "GetTotalMemory" -> {GetMemory(GetTotalBuffer(b)) : b \in BOOLEAN}
    [] code = "GetReclaimPriorityByPid" -> {GetReclaimPriorityByPid(b) : b \in BOOLEAN}
    [] code \in States -> {NotifyProcessStateChanged(args[5], b) : b \in BOOLEAN}
    [] code = "OnWindowVisibilityChanged" ->
         {Result(IF c.uid = WINDOW_UID THEN OK ELSE FAIL, <<OK>>)}
    [] OTHER -> {Result(OK, <<OK>>)}

-----------------------------------------------------------------------------
(* The steps of a call.                                                    *)
Finish(c, ret) == call' = [call EXCEPT ![c].phase = "done", ![c].ret = ret]

\* samgr knows the service while it is up.
GetMemMgrService == up

\* The client looks the service up; the proxy writes the parcel, which may fail (with ERR_FLATTEN_OBJECT or
\* ERR_INVALID_DATA; the model does not tell them apart).
Call(c, code, args) ==
  LET start == [Nothing EXCEPT !.code = code, !.args = args]
      done(ret) == call' = [call EXCEPT ![c] = [start EXCEPT !.phase = "done", !.ret = ret]]
  IN /\ call[c].phase = "idle"
     /\ \/ ~GetMemMgrService /\ done(FAIL) /\ UNCHANGED parcel
        \/ GetMemMgrService /\ code \in Subs /\ args[1] = NULL /\ done(FAIL) /\ UNCHANGED parcel
        \/ /\ GetMemMgrService /\ ~(code \in Subs /\ args[1] = NULL)
           /\ done("ERR_FLATTEN_OBJECT") /\ UNCHANGED parcel
        \/ /\ GetMemMgrService /\ ~(code \in Subs /\ args[1] = NULL)
           /\ call' = [call EXCEPT ![c] = [start EXCEPT !.phase = "sent"]]
           /\ parcel' = [parcel EXCEPT ![c] = Write(code, args, list[c])]
     /\ snap' = [snap EXCEPT ![c].list = IF code = "GetBundlePriorityList" THEN list[c] ELSE @]
     /\ UNCHANGED <<up, list, table, pressure, total, ran, crashes>>

\* MemMgrStub::OnRemoteRequest on a binder thread of the service
Serve(c) ==
  LET code == call[c].code
      args == Read(code, parcel[c])
  IN /\ up /\ call[c].phase = "sent"
     /\ \/ /\ ~Allowed(c, code, parcel[c])
           /\ call' = [call EXCEPT ![c].phase = "served",
                                   ![c].ret = IF code = "GetBundlePriorityList" THEN FAIL ELSE "IPC_STUB_ERR"]
           /\ UNCHANGED <<parcel, total, ran>>
        \/ /\ Allowed(c, code, parcel[c])
           /\ \E r \in Results(c, code, args) :
                /\ call' = [call EXCEPT ![c].phase = "served", ![c].ret = r.ret]
                /\ parcel' = [parcel EXCEPT ![c] = r.out]
                /\ total' = IF code = "GetTotalMemory" THEN r.out[1] ELSE total
           /\ ran' = IF Reaches(c, code, args)
                     THEN [ran EXCEPT ![c] = Append(@, [code |-> code, args |-> args])]
                     ELSE ran
     /\ snap' = [snap EXCEPT ![c].table = IF code = "GetBundlePriorityList" THEN table ELSE @,
                             ![c].pressure = IF code = "GetAvailableMemory" THEN pressure ELSE @]
     /\ UNCHANGED <<up, list, table, pressure, crashes>>

\* The client's list is replaced by the one in the reply, unless that cannot be read.
TakeList(c) ==
  \/ ListReads(parcel[c]) /\ Finish(c, OK) /\ list' = [list EXCEPT ![c] = ReadList(parcel[c])]
  \/ ~ListReads(parcel[c]) /\ Finish(c, FAIL) /\ UNCHANGED list

TakeSize(c) ==
  /\ call' = [call EXCEPT ![c].phase = "done", ![c].out = parcel[c][1]]
  /\ UNCHANGED list

\* The proxy reads the reply of a transaction that succeeded.
TakeReply(c) ==
  CASE call[c].code = "GetBundlePriorityList" -> TakeList(c)
    [] call[c].code \in Sizes                 -> TakeSize(c)
    [] OTHER                                  -> Finish(c, OK) /\ UNCHANGED list

\* NotifyProcessStatus and SetCritical ignore how the transaction went.
Transacted(c, error) ==
  IF call[c].code \in OneWay THEN Finish(c, OK) ELSE Finish(c, error)

Return(c) ==
  /\ up /\ call[c].phase = "served"
  /\ IF call[c].ret = OK THEN TakeReply(c) ELSE Transacted(c, call[c].ret) /\ UNCHANGED list
  /\ parcel' = [parcel EXCEPT ![c] = <<>>]
  /\ UNCHANGED <<up, table, pressure, total, ran, snap, crashes>>

\* The transaction fails because the service that was looked up is gone.
Broken(c) ==
  /\ ~up /\ call[c].phase \in {"sent", "served"}
  /\ Transacted(c, "DEAD")
  /\ parcel' = [parcel EXCEPT ![c] = <<>>]
  /\ UNCHANGED <<up, list, table, pressure, total, ran, snap, crashes>>

\* The client goes on, with the list it got or with a new one.
Forget(c, held) ==
  /\ call[c].phase = "done"
  /\ call' = [call EXCEPT ![c] = Nothing]
  /\ list' = [list EXCEPT ![c] = held]
  /\ ran' = [ran EXCEPT ![c] = <<>>]
  /\ snap' = [snap EXCEPT ![c] = NoSnap]
  /\ UNCHANGED <<up, parcel, table, pressure, total, crashes>>

-----------------------------------------------------------------------------
(* The service's life, and what it answers from.  A new service comes up   *)
(* only when no call to the old one is under way any more.                 *)
OnStart ==
  /\ ~up /\ \A c \in Clients : call[c].phase \notin {"sent", "served"}
  /\ up' = TRUE
  /\ UNCHANGED <<call, parcel, list, table, pressure, total, ran, snap, crashes>>

Crash ==
  /\ up /\ crashes > 0
  /\ up' = FALSE /\ crashes' = crashes - 1
  /\ table' = <<>> /\ total' = -1
  /\ UNCHANGED <<call, parcel, list, pressure, ran, snap>>

\* What GetBundlePrioSet copies: any bundles in any order.
TableChanges ==
  /\ up
  /\ \/ \E b \in Bundles : /\ \A i \in DOMAIN table : table[i] # b
                           /\ table' = Append(table, b)
     \/ table # <<>> /\ table' = Tail(table)
  /\ UNCHANGED <<up, call, parcel, list, pressure, total, ran, snap, crashes>>

PressureChanges ==
  /\ pressure' \in Pressures \ {pressure}
  /\ UNCHANGED <<up, call, parcel, list, table, total, ran, snap, crashes>>

Next ==
  \/ \E c \in Clients :
       \/ \E code \in c.calls : \E args \in Arguments(c, code) : Call(c, code, args)
       \/ Serve(c) \/ Return(c) \/ Broken(c)
       \/ Forget(c, list[c]) \/ Forget(c, <<>>)
  \/ OnStart \/ Crash
  \/ TableChanges \/ PressureChanges

Spec == Init /\ [][Next]_vars

-----------------------------------------------------------------------------
(* A client that is told its call succeeded knows that the service carried *)
(* out exactly this call, with its arguments, once; the two notifications  *)
(* that report success in any case are excepted.                           *)
ServedAsAsked ==
  \A c \in Clients :
    call[c].phase = "done" /\ call[c].ret = OK /\ call[c].code \notin OneWay =>
      /\ Len(ran[c]) = 1
      /\ ran[c][1].code = call[c].code
      /\ call[c].code # "GetBundlePriorityList" => ran[c][1].args = call[c].args

(* GetBundlePriorityList gives the client what it passed followed by the   *)
(* table of the moment it was served, or fails and leaves its list alone;  *)
(* the list never grows over the size a parcel may have.                   *)
ListIsTable ==
  \A c \in Clients :
    /\ Len(list[c]) <= MAX_PARCEL_SIZE
    /\ call[c].phase = "done" /\ call[c].code = "GetBundlePriorityList" =>
         list[c] = IF call[c].ret = OK THEN snap[c].list \o snap[c].table ELSE snap[c].list

(* A memory size a client gets is a size the kernel gave: the available    *)
(* memory the one of the moment the call was served, the total memory      *)
(* MemTotal, also when it was read long ago; neither the value that stands *)
(* for a failed read nor a negative one ever reaches it.                   *)
SizeIsReal ==
  \A c \in Clients :
    call[c].phase = "done" /\ call[c].ret = OK /\ call[c].code \in Sizes =>
      /\ call[c].out \in 0 .. MAX_BUFFER_KB - 1
      /\ IF call[c].code = "GetAvailableMemory" THEN snap[c].pressure = <<call[c].out>> ELSE call[c].out = MemTotal
=============================================================================
