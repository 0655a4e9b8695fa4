------------------------ MODULE PurgeableSubscribers ------------------------
(***************************************************************************)
(* The subscribers of PurgeableMemManager, on both sides of the IPC: the   *)
(* service keeps the list of subscribers, a death recipient for each, and  *)
(* the active apps, behind two mutexes; the kit (AppStateSubscriberImpl)   *)
(* keeps a proxy of the service and the listener it calls back.            *)
(*                                                                         *)
(* Additions, deaths and app changes are posted to the handler thread;     *)
(* removals run at once on the IPC thread of the caller, and call the      *)
(* subscriber back synchronously with mutexSubscribers_ held; the dump     *)
(* command runs on a thread of its own.  The service may crash and be      *)
(* started again.  Subscribers do not call the service from a callback.    *)
(***************************************************************************)
EXTENDS Naturals, FiniteSets, SequencesExt

CONSTANTS
  Subs,          \* subscriber objects, each in a process of its own
  Apps,          \* pids that can be registered as active apps
  Uids,
  AppCalls,      \* the <<call, pid, uid>> that reach the service about active apps
  MaxSubs,       \* PURGEABLE_SUBSCRIBER_MAX_NUM
  MaxApps,       \* PURGEABLE_APPSTATE_MAX_NUM
  MaxQueue,      \* bound: tasks posted and not run
  MaxInbox,      \* bound: asynchronous calls a subscriber has not served
  MaxCrashes,    \* bound: crashes of the service
  NONE

ASSUME SubscribersAssumption ==
  /\ AppCalls \subseteq {"register", "deregister", "change"} \X Apps \X Uids
  /\ MaxSubs \in Nat \ {0} /\ MaxApps \in Nat \ {0}
  /\ MaxQueue \in Nat /\ MaxInbox \in Nat /\ MaxCrashes \in Nat
  /\ Subs \intersect {"handler", "dump"} = {}
  /\ NONE \notin Subs /\ NONE \notin {"handler", "dump"} /\ NONE \notin 0 .. MaxCrashes

VARIABLES
  instance,      \* which run of the service this is
  up,            \* it is running and published
  subscribers,   \* appStateSubscribers_
  others,        \* how many subscribers of other clients it holds besides
  recipients,    \* the keys of subscriberRecipients_
  appList,       \* appList_: the uid of each registered pid
  queue,         \* tasks of the handler
  handlerAt,     \* "idle", or inside ChangeAppStateInner: "app" or "notify"
  dumpAt,        \* where the dump command is
  callAt,        \* where the UnsubscribeAppState of each subscriber is
  mutexSubscribers, mutexAppList,   \* the thread that holds each, or NONE
  life,          \* "live", "gone" (the listener was destroyed) or "dead" (its process)
  inbox,         \* asynchronous calls sent to each subscriber
  view,          \* the last connection callback the listener saw
  proxy,         \* proxy_: the instance it belongs to, or NONE
  watched,       \* the instance whose death will be reported to recipient_, or NONE
  obituary,      \* that report is on its way
  wants,         \* history: "in" or "out", the last call of the subscriber
  overtaken,     \* history: its last removal ran while an addition was queued
  unwatched      \* history: those whose death nobody will report, since they were added last

serviceVars == <<subscribers, others, recipients, appList, handlerAt, mutexAppList>>
kitVars == <<view, proxy, watched, obituary>>
history == <<wants, overtaken, unwatched>>
vars == <<instance, up, serviceVars, queue, dumpAt, callAt, mutexSubscribers, life, inbox, kitVars, history>>

Threads == Subs \union {"handler", "dump"}
Task(k, x, u) == [kind |-> k, who |-> x, uid |-> u]
Tasks == {Task(k, c, NONE) : k \in {"add", "died"}, c \in Subs}
           \union {Task(a[1], a[2], a[3]) : a \in AppCalls}
           \union {Task("trim", NONE, NONE)}

TypeOK ==
  /\ instance \in 0 .. MaxCrashes /\ up \in BOOLEAN
  /\ Range(subscribers) \subseteq Subs /\ others \in Nat /\ Len(subscribers) + others <= MaxSubs
  /\ recipients \subseteq Subs
  /\ DOMAIN appList \subseteq Apps /\ Range(appList) \subseteq Uids
  /\ Cardinality(DOMAIN appList) <= MaxApps
  /\ Range(queue) \subseteq Tasks
  /\ handlerAt \in {"idle", "app", "notify"}
  /\ dumpAt \in {"idle", "all", "allSubs", "allBoth", "proc"}
  /\ callAt \in [Subs -> {"idle", "remove", "calling", "erase"}]
  /\ mutexSubscribers \in Threads \union {NONE}
  /\ mutexAppList \in {"handler", "dump", NONE}
  /\ life \in [Subs -> {"live", "gone", "dead"}]
  /\ \A c \in Subs : Range(inbox[c]) \subseteq {"OnConnected", "news"}
  /\ view \in [Subs -> {"none", "connected", "disconnected", "died"}]
  /\ proxy \in [Subs -> 0 .. instance \union {NONE}]      \* of an instance that exists or existed
  /\ watched \in [Subs -> 0 .. instance \union {NONE}]
  /\ obituary \in [Subs -> BOOLEAN]
  /\ wants \in [Subs -> {"in", "out"}]
  /\ overtaken \in [Subs -> BOOLEAN]
  /\ unwatched \subseteq Subs

\* What a fresh service has in memory.
NoApps == [p \in {} |-> NONE]
NoCalls == [c \in Subs |-> "idle"]

Init ==
  /\ subscribers = <<>> /\ others = 0 /\ recipients = {} /\ appList = NoApps
  /\ queue = <<>> /\ handlerAt = "idle" /\ dumpAt = "idle" /\ callAt = NoCalls
  /\ mutexSubscribers = NONE /\ mutexAppList = NONE
  /\ instance = 0 /\ up = TRUE
  /\ life = [c \in Subs |-> "live"]
  /\ inbox = [c \in Subs |-> <<>>]
  /\ view = [c \in Subs |-> "none"]
  /\ proxy = [c \in Subs |-> NONE] /\ watched = [c \in Subs |-> NONE]
  /\ obituary = [c \in Subs |-> FALSE]
  /\ wants = [c \in Subs |-> "out"] /\ overtaken = [c \in Subs |-> FALSE] /\ unwatched = {}

Listed(c) == c \in Range(subscribers)
Free(m) == m = NONE
Posted(t) == Len(queue) < MaxQueue /\ queue' = Append(queue, t)

\* An asynchronous call cannot fail for the caller; it is dropped when the process is dead
\* or, for news, when too many are waiting.
News(box, to) == [c \in Subs |-> IF c \in to /\ life[c] # "dead" /\ Len(box[c]) < MaxInbox
                                 THEN Append(box[c], "news") ELSE box[c]]
SendConnected(c) == inbox' = IF life[c] = "dead" THEN inbox
                             ELSE [inbox EXCEPT ![c] = Append(@, "OnConnected")]

-----------------------------------------------------------------------------
(* Calls of the subscribers, through MemMgrClient and the stub: the caller *)
(* has a native token and the manager is initialised.                      *)

SubscribeAppState(c) ==
  /\ up /\ life[c] = "live" /\ callAt[c] = "idle"
  /\ Len(inbox[c]) < MaxInbox                          \* bound
  /\ Posted(Task("add", c, NONE))
  /\ wants' = [wants EXCEPT ![c] = "in"]
  /\ UNCHANGED <<instance, up, serviceVars, dumpAt, callAt, mutexSubscribers, life, inbox, kitVars, overtaken, unwatched>>

UnsubscribeAppState(c) ==
  /\ up /\ life[c] = "live" /\ callAt[c] = "idle"
  /\ callAt' = [callAt EXCEPT ![c] = "remove"]
  /\ wants' = [wants EXCEPT ![c] = "out"]
  /\ UNCHANGED <<instance, up, serviceVars, queue, dumpAt, mutexSubscribers, life, inbox, kitVars, overtaken, unwatched>>

-----------------------------------------------------------------------------
(* RemoveSubscriberInner, on the caller's IPC thread: the mutex is held    *)
(* from the search to the erase, across the synchronous OnDisconnected.    *)

AddQueued(c) == \E i \in DOMAIN queue : queue[i] = Task("add", c, NONE)

\* Mutant: the recipient stays in the map.
RemoveKeepsRecipient(c) ==
  /\ callAt[c] = "remove" /\ Free(mutexSubscribers)
  /\ overtaken' = [overtaken EXCEPT ![c] = AddQueued(c)]
  /\ mutexSubscribers' = IF Listed(c) THEN c ELSE NONE
  /\ callAt' = [callAt EXCEPT ![c] = IF Listed(c) THEN "calling" ELSE "idle"]
  /\ UNCHANGED <<instance, up, serviceVars, queue, dumpAt, life, inbox, kitVars, wants, unwatched>>

\* Mutant: proxies are compared instead of their remote objects, and none is found.
RemoveComparesProxies(c) ==
  /\ callAt[c] = "remove" /\ Free(mutexSubscribers)
  /\ overtaken' = [overtaken EXCEPT ![c] = AddQueued(c)]
  /\ callAt' = [callAt EXCEPT ![c] = "idle"]
  /\ UNCHANGED <<instance, up, serviceVars, queue, dumpAt, mutexSubscribers, life, inbox, kitVars, wants, unwatched>>

RemoveSubscriberInner(c) ==
  /\ callAt[c] = "remove"
  /\ Free(mutexSubscribers)
  /\ overtaken' = [overtaken EXCEPT ![c] = AddQueued(c)]
  /\ IF Listed(c)
     THEN /\ mutexSubscribers' = c
          /\ recipients' = recipients \ {c}
          /\ callAt' = [callAt EXCEPT ![c] = "calling"]
     ELSE /\ callAt' = [callAt EXCEPT ![c] = "idle"]
          /\ UNCHANGED <<mutexSubscribers, recipients>>
  /\ UNCHANGED <<instance, up, subscribers, others, appList, queue, handlerAt, dumpAt, mutexAppList,
                 life, inbox, kitVars, wants, unwatched>>

\* Mutant: the call to a dead process is waited for.
DisconnectHangs(c) == callAt[c] = "calling" /\ life[c] = "gone" /\ UNCHANGED vars

\* The call fails when the process has died.
DisconnectFailed(c) ==
  /\ callAt[c] = "calling" /\ life[c] = "dead"
  /\ callAt' = [callAt EXCEPT ![c] = "erase"]
  /\ UNCHANGED <<instance, up, serviceVars, queue, dumpAt, mutexSubscribers, life, inbox, kitVars, history>>

EraseSubscriber(c) ==
  /\ callAt[c] = "erase"
  /\ subscribers' = RemoveFirst(subscribers, c)
  /\ mutexSubscribers' = NONE
  /\ callAt' = [callAt EXCEPT ![c] = "idle"]
  /\ UNCHANGED <<instance, up, others, recipients, appList, queue, handlerAt, dumpAt, mutexAppList,
                 life, inbox, kitVars, history>>

\* The subscribers of other clients come and go the same way.
OtherClients ==
  /\ up /\ Free(mutexSubscribers)
  /\ others' \in 0 .. MaxSubs - Len(subscribers) /\ others' # others
  /\ UNCHANGED <<instance, up, subscribers, recipients, appList, queue, handlerAt, dumpAt, callAt,
                 mutexSubscribers, mutexAppList, life, inbox, kitVars, history>>

-----------------------------------------------------------------------------
(* Tasks of the handler.                                                   *)

Runs(kind) == handlerAt = "idle" /\ queue # <<>> /\ Head(queue).kind = kind

\* What becomes of the death recipient of c: it is told of the death of c, at once if c is dead
\* already; the remote object, dead, refuses it, which nobody looks at; or it cannot be created.
Watching(c) == {"told", "none"} \union (IF life[c] = "dead" THEN {"refused"} ELSE {})

\* AddSubscriberInner
AddSubscriberInner ==
  /\ Runs("add") /\ Free(mutexSubscribers)
  /\ LET c == Head(queue).who
         added == ~Listed(c) /\ Len(subscribers) + others < MaxSubs
     IN \E w \in IF added /\ c \notin recipients THEN Watching(c) ELSE {"none"} :
          /\ subscribers' = IF added THEN Append(subscribers, c) ELSE subscribers
          /\ recipients' = IF w = "none" THEN recipients ELSE recipients \union {c}
          /\ queue' = IF w = "told" /\ life[c] = "dead"
                      THEN Append(Tail(queue), Task("died", c, NONE)) ELSE Tail(queue)
          /\ IF w = "none" THEN UNCHANGED inbox ELSE SendConnected(c)
          /\ unwatched' = CASE w = "told" -> unwatched \ {c}
                            [] added /\ w # "told" -> unwatched \union {c}
                            [] OTHER -> unwatched
  /\ UNCHANGED <<instance, up, others, appList, handlerAt, dumpAt, callAt, mutexSubscribers, mutexAppList,
                 life, kitVars, wants, overtaken>>

\* The loop of OnRemoteSubscriberDiedInner: every entry but those of c is kept.
Erased(list, c) ==
  LET kept[i \in 0 .. Len(list)] ==
        IF i = 0 THEN <<>>
        ELSE IF list[i] = c THEN kept[i - 1] ELSE Append(kept[i - 1], list[i])
  IN  kept[Len(list)]

\* OnRemoteSubscriberDiedInner.
OnRemoteSubscriberDiedInner ==
  /\ Runs("died") /\ Free(mutexSubscribers)
  /\ LET c == Head(queue).who
     IN /\ subscribers' = Erased(subscribers, c)
        /\ recipients' = recipients \ {c}
  /\ queue' = Tail(queue)
  /\ UNCHANGED <<instance, up, others, appList, handlerAt, dumpAt, callAt, mutexSubscribers, mutexAppList,
                 life, inbox, kitVars, history>>

\* RegisterActiveAppsInner: a full list refuses before it looks whether the pid is known.
RegisterActiveAppsInner ==
  /\ Runs("register") /\ Free(mutexAppList)
  /\ LET p == Head(queue).who
         new == Cardinality(DOMAIN appList) < MaxApps /\ p \notin DOMAIN appList
     IN appList' = IF new
                   THEN [q \in DOMAIN appList \union {p} |-> IF q = p THEN Head(queue).uid ELSE appList[q]]
                   ELSE appList
  /\ queue' = Tail(queue)
  /\ UNCHANGED <<instance, up, subscribers, others, recipients, handlerAt, dumpAt, callAt, mutexSubscribers,
                 mutexAppList, life, inbox, kitVars, history>>

Owned(p, u) == p \in DOMAIN appList /\ appList[p] = u

DeregisterActiveAppsInner ==
  /\ Runs("deregister") /\ Free(mutexAppList)
  /\ LET p == Head(queue).who
     IN appList' = IF Owned(p, Head(queue).uid) THEN Restrict(appList, DOMAIN appList \ {p}) ELSE appList
  /\ queue' = Tail(queue)
  /\ UNCHANGED <<instance, up, subscribers, others, recipients, handlerAt, dumpAt, callAt, mutexSubscribers,
                 mutexAppList, life, inbox, kitVars, history>>

\* ChangeAppStateInner: the app is looked up under mutexAppList_, which is released before
\* mutexSubscribers_ is taken to tell the subscribers.
ChangeAppStateInner ==
  /\ Runs("change") /\ Free(mutexAppList)
  /\ queue' = Tail(queue)
  /\ IF Owned(Head(queue).who, Head(queue).uid)
     THEN handlerAt' = "app" /\ mutexAppList' = "handler"
     ELSE UNCHANGED <<handlerAt, mutexAppList>>
  /\ UNCHANGED <<instance, up, subscribers, others, recipients, appList, dumpAt, callAt, mutexSubscribers,
                 life, inbox, kitVars, history>>

\* Mutant: one scope for both mutexes.
AppStateChangedLocked ==
  /\ handlerAt = "app"
  /\ handlerAt' = "notify"
  /\ UNCHANGED <<instance, up, subscribers, others, recipients, appList, queue, dumpAt, callAt,
                 mutexSubscribers, mutexAppList, life, inbox, kitVars, history>>

AppStateChanged ==
  /\ handlerAt = "app"
  /\ handlerAt' = "notify"
  /\ mutexAppList' = NONE
  /\ UNCHANGED <<instance, up, subscribers, others, recipients, appList, queue, dumpAt, callAt, mutexSubscribers,
                 life, inbox, kitVars, history>>

NotifySubscribers ==
  /\ handlerAt = "notify" /\ Free(mutexSubscribers)
  /\ inbox' = News(inbox, Range(subscribers))
  /\ handlerAt' = "idle"
  /\ UNCHANGED <<instance, up, subscribers, others, recipients, appList, queue, dumpAt, callAt,
                 mutexSubscribers, mutexAppList, life, kitVars, history>>

\* TrimAllSubscribers, from NotifyMemoryLevelInner.
TrimAllSubscribers ==
  /\ Runs("trim") /\ Free(mutexSubscribers)
  /\ inbox' = News(inbox, Range(subscribers))
  /\ queue' = Tail(queue)
  /\ UNCHANGED <<instance, up, serviceVars, dumpAt, callAt, mutexSubscribers, life, kitVars, history>>

\* Calls that only post, from IPC threads, the app state observer and the memory level manager.
Post(t) ==
  /\ up /\ Posted(t)
  /\ UNCHANGED <<instance, up, serviceVars, dumpAt, callAt, mutexSubscribers, life, inbox, kitVars, history>>
AppCall(k) == \E a \in AppCalls : a[1] = k /\ Post(Task(k, a[2], a[3]))

RegisterActiveApps == AppCall("register")
DeregisterActiveApps == AppCall("deregister")
ChangeAppState == AppCall("change")
NotifyMemoryLevel == Post(Task("trim", NONE, NONE))

-----------------------------------------------------------------------------
(* ForceReclaimByDump, on the thread of the dump command.                  *)

DumpUnchanged == UNCHANGED <<instance, up, subscribers, others, recipients, appList, queue, handlerAt, callAt,
                             life, kitVars, history>>

ForceReclaimByDump ==
  /\ up /\ dumpAt = "idle"
  /\ \/ dumpAt' = "all"
     \/ Free(mutexAppList) /\ DOMAIN appList # {} /\ dumpAt' = "proc"
  /\ DumpUnchanged /\ UNCHANGED <<mutexSubscribers, mutexAppList, inbox>>

\* ReclaimSubscriberAll takes mutexSubscribers_ and then mutexAppList_.
ReclaimAllLockSubscribers ==
  /\ dumpAt = "all" /\ Free(mutexSubscribers)
  /\ mutexSubscribers' = "dump" /\ dumpAt' = "allSubs"
  /\ DumpUnchanged /\ UNCHANGED <<mutexAppList, inbox>>

ReclaimAllLockApps ==
  /\ dumpAt = "allSubs" /\ Free(mutexAppList)
  /\ mutexAppList' = "dump" /\ dumpAt' = "allBoth"
  /\ DumpUnchanged /\ UNCHANGED <<mutexSubscribers, inbox>>

ReclaimSubscriberAll ==
  /\ dumpAt = "allBoth"
  /\ inbox' = IF DOMAIN appList = {} THEN inbox ELSE News(inbox, Range(subscribers))
  /\ mutexSubscribers' = NONE /\ mutexAppList' = NONE /\ dumpAt' = "idle"
  /\ DumpUnchanged

\* ReclaimSubscriberProc: the uid was read under mutexAppList_, released before.
ReclaimSubscriberProc ==
  /\ dumpAt = "proc" /\ Free(mutexSubscribers)
  /\ inbox' = News(inbox, Range(subscribers))
  /\ dumpAt' = "idle"
  /\ DumpUnchanged /\ UNCHANGED <<mutexSubscribers, mutexAppList>>

-----------------------------------------------------------------------------
(* The kit, in the process of the subscriber.                              *)

\* GetMemMgrProxy: the proxy kept, or the service samgr knows, or none.
GetMemMgrProxy(c) == IF proxy[c] # NONE THEN proxy[c] ELSE IF up THEN instance ELSE NONE

\* A dead remote object takes no death recipient.
OnConnected(c) ==
  LET p == GetMemMgrProxy(c)
  IN /\ proxy' = [proxy EXCEPT ![c] = p]
     /\ watched' = [watched EXCEPT ![c] = IF up /\ p = instance THEN instance ELSE @]
     /\ view' = [view EXCEPT ![c] = IF life[c] = "live" THEN "connected" ELSE @]

\* OnAppStateChanged, OnTrim and ForceReclaim leave the kit as it is.
OnNews == UNCHANGED <<proxy, watched, view>>

\* AppStateSubscriberStub: asynchronous calls of one object are served in order.
ServeInbox(c) ==
  /\ life[c] # "dead" /\ inbox[c] # <<>>
  /\ inbox' = [inbox EXCEPT ![c] = Tail(@)]
  /\ IF Head(inbox[c]) = "OnConnected" THEN OnConnected(c) ELSE OnNews
  /\ UNCHANGED <<instance, up, serviceVars, queue, dumpAt, callAt, mutexSubscribers, life, obituary, history>>

\* OnDisconnected is synchronous, and so may be served before what the inbox holds.
OnDisconnected(c) ==
  /\ callAt[c] = "calling" /\ life[c] # "dead"
  /\ LET p == GetMemMgrProxy(c)
     IN /\ proxy' = [proxy EXCEPT ![c] = p]
        /\ watched' = [watched EXCEPT ![c] = IF p = @ THEN NONE ELSE @]
  /\ view' = [view EXCEPT ![c] = IF life[c] = "live" THEN "disconnected" ELSE @]
  /\ callAt' = [callAt EXCEPT ![c] = "erase"]
  /\ UNCHANGED <<instance, up, serviceVars, queue, dumpAt, mutexSubscribers, life, inbox, obituary, history>>

\* Mutant: the report is dropped when the handler is busy.
DiesUnseen(c) ==
  /\ life' = [life EXCEPT ![c] = "dead"]
  /\ inbox' = [inbox EXCEPT ![c] = <<>>]
  /\ queue' = IF c \in recipients /\ handlerAt = "idle" THEN Append(queue, Task("died", c, NONE)) ELSE queue

\* The process ends: the binder driver reports it to the recipient of the service, which
\* waits on a thread without locks until the handler has run the task.
Dies(c) ==
  /\ life' = [life EXCEPT ![c] = "dead"]
  /\ inbox' = [inbox EXCEPT ![c] = <<>>]
  /\ queue' = IF c \in recipients THEN Append(queue, Task("died", c, NONE)) ELSE queue

\* Mutant: the proxy of the dead service is kept.
OnRemoteDiedKeepsProxy(c) ==
  /\ obituary[c] /\ life[c] # "dead"
  /\ obituary' = [obituary EXCEPT ![c] = FALSE]
  /\ view' = [view EXCEPT ![c] = IF life[c] = "live" THEN "died" ELSE @]
  /\ UNCHANGED <<instance, up, serviceVars, queue, dumpAt, callAt, mutexSubscribers, life, inbox, proxy,
                 watched, history>>

\* DeathRecipient::OnRemoteDied does not look whether the listener still exists: without one
\* the call goes to a destroyed object, and the process may or may not survive it.
OnRemoteDied(c) ==
  /\ obituary[c] /\ life[c] # "dead"
  /\ obituary' = [obituary EXCEPT ![c] = FALSE]
  /\ proxy' = [proxy EXCEPT ![c] = NONE]
  /\ view' = [view EXCEPT ![c] = IF life[c] = "live" THEN "died" ELSE @]
  /\ \/ UNCHANGED <<life, queue, inbox>>
     \/ life[c] = "gone" /\ Dies(c)
  /\ UNCHANGED <<instance, up, serviceVars, dumpAt, callAt, mutexSubscribers, watched, history>>

SubscriberDies(c) ==
  /\ life[c] # "dead"
  /\ Dies(c)
  /\ UNCHANGED <<instance, up, serviceVars, dumpAt, callAt, mutexSubscribers, kitVars, history>>

\* ~AppStateSubscriber: OnListenerDied silences the callbacks; nothing is unsubscribed.
OnListenerDied(c) ==
  /\ life[c] = "live" /\ callAt[c] = "idle"
  /\ life' = [life EXCEPT ![c] = "gone"]
  /\ UNCHANGED <<instance, up, serviceVars, queue, dumpAt, callAt, mutexSubscribers, inbox, kitVars, history>>

-----------------------------------------------------------------------------
(* The service's process ends, with all it had in memory, and every kit    *)
(* that watches it is told.  samgr starts it again.                        *)

Crash ==
  /\ up /\ instance < MaxCrashes
  /\ up' = FALSE
  /\ subscribers' = <<>> /\ others' = 0 /\ recipients' = {} /\ appList' = NoApps
  /\ queue' = <<>> /\ handlerAt' = "idle" /\ dumpAt' = "idle" /\ callAt' = NoCalls
  /\ mutexSubscribers' = NONE /\ mutexAppList' = NONE
  /\ obituary' = [c \in Subs |-> obituary[c] \/ watched[c] = instance]
  /\ watched' = [c \in Subs |-> NONE]
  /\ UNCHANGED <<instance, life, inbox, view, proxy, history>>

Restart ==
  /\ ~up
  /\ up' = TRUE /\ instance' = instance + 1
  /\ UNCHANGED <<serviceVars, queue, dumpAt, callAt, mutexSubscribers, life, inbox, kitVars, history>>

-----------------------------------------------------------------------------
Handler ==
  \/ AddSubscriberInner \/ OnRemoteSubscriberDiedInner
  \/ RegisterActiveAppsInner \/ DeregisterActiveAppsInner
  \/ ChangeAppStateInner \/ AppStateChanged \/ NotifySubscribers \/ TrimAllSubscribers
Remover(c) == RemoveSubscriberInner(c) \/ DisconnectFailed(c) \/ EraseSubscriber(c)
Dump == ReclaimAllLockSubscribers \/ ReclaimAllLockApps \/ ReclaimSubscriberAll \/ ReclaimSubscriberProc
Kit(c) == ServeInbox(c) \/ OnDisconnected(c) \/ OnRemoteDied(c)

Next ==
  \/ RegisterActiveApps \/ DeregisterActiveApps \/ ChangeAppState \/ NotifyMemoryLevel
  \/ Handler \/ Dump \/ OtherClients \/ ForceReclaimByDump \/ Crash \/ Restart
  \/ \E c \in Subs : \/ Remover(c) \/ Kit(c)
                      \/ SubscribeAppState(c) \/ UnsubscribeAppState(c)
                      \/ SubscriberDies(c) \/ OnListenerDied(c)

Spec == Init /\ [][Next]_vars

\* Threads are scheduled, and std::mutex lets every thread that waits in the end: the
\* handler and the dump command compete with the IPC threads for the mutexes.
FairSpec ==
  /\ Spec
  /\ SF_vars(Handler) /\ SF_vars(Dump)
  /\ \A c \in Subs : SF_vars(Remover(c)) /\ WF_vars(OnDisconnected(c))

-----------------------------------------------------------------------------
(* Properties.                                                             *)

\* Whenever mutexSubscribers_ is free the list, which also holds those of other clients, is
\* within its limit and has no subscriber twice; the service holds no death recipient of one that
\* is not listed, which would make its next addition return before OnConnected, and lacks the
\* recipient of a listed one only if it could not be created.
ListedWatched ==
  Free(mutexSubscribers) => /\ recipients \subseteq Range(subscribers)
                            /\ Range(subscribers) \subseteq recipients \union unwatched
                            /\ IsInjective(subscribers)
                            /\ Len(subscribers) + others <= MaxSubs

\* A listed subscriber for which nothing is under way was told last that it is connected,
\* and watches this instance if its proxy is one of it; or it was told that the service died
\* (the report on an earlier instance came after the new OnConnected), and has no proxy.  One
\* whose death recipient could not be created is never told that it is connected.
Quiet(c) == inbox[c] = <<>> /\ ~obituary[c] /\ callAt[c] = "idle"
ListedIsConnected ==
  \A c \in Subs : (Listed(c) /\ c \notin unwatched /\ Quiet(c) /\ life[c] = "live") =>
    \/ view[c] = "connected" /\ proxy[c] # NONE
         /\ (proxy[c] = instance => watched[c] = instance)
    \/ view[c] = "died" /\ proxy[c] = NONE

\* Once UnsubscribeAppState has returned and no addition was queued at its time, the service
\* calls the subscriber no more until it subscribes again.
SilentAfterUnsubscribe ==
  [][\A c \in Subs : (wants[c] = "out" /\ callAt[c] = "idle" /\ ~overtaken[c]) =>
       Len(inbox'[c]) <= Len(inbox[c])]_vars

\* Threads never wait for each other in a circle: each waits for the holder of the mutex it
\* needs next.
WaitsFor(t) ==
  LET wantsSubs == \/ t = "handler" /\ (Runs("add") \/ Runs("died") \/ Runs("trim") \/ handlerAt = "notify")
                   \/ t = "dump" /\ dumpAt \in {"all", "proc"}
                   \/ t \in Subs /\ callAt[t] = "remove"
      wantsApps == \/ t = "handler" /\ (Runs("register") \/ Runs("deregister") \/ Runs("change"))
                   \/ t = "dump" /\ dumpAt = "allSubs"
  IN (IF wantsSubs THEN {mutexSubscribers} ELSE {}) \union (IF wantsApps THEN {mutexAppList} ELSE {})
NobodyWaitsInCircle ==
  \A ts \in (SUBSET Threads) \ {{}} : \E t \in ts : WaitsFor(t) \cap ts = {}

\* A subscriber whose process died leaves the list, also when it died with its addition or
\* its removal under way, or the service went down first; provided that the recipient of its
\* last addition was created and accepted.
DeadForgotten == \A c \in Subs : (life[c] = "dead" /\ Listed(c) /\ c \notin unwatched) ~> ~Listed(c)

\* UnsubscribeAppState returns, though it waits for the mutex and then for the subscriber.
UnsubscribeReturns == \A c \in Subs : callAt[c] # "idle" ~> callAt[c] = "idle"

=============================================================================
