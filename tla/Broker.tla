------------------------------- MODULE Broker -------------------------------
(***************************************************************************)
(* The message broker of core/src/broker.c, on its default (nanomsg)       *)
(* transport: the modules list and its lock, one SUB socket, one socket    *)
(* lock and one worker thread per attached module, and the calls           *)
(* Broker_AddModule, Broker_RemoveModule, Broker_AddLink,                  *)
(* Broker_RemoveLink and Broker_Publish made by any number of threads.     *)
(* The thread transport of the same file is the subject of ThreadLinks.    *)
(*                                                                         *)
(* A step is a stretch of code between two points where another thread can *)
(* be seen: a call that holds modules_lock from its first to its last      *)
(* access of shared data is one step; Broker_RemoveModule, which blocks    *)
(* twice while holding it, is three.                                       *)
(***************************************************************************)
EXTENDS Naturals, Sequences, FiniteSets

CONSTANTS
    Modules,       \* MODULE_HANDLEs that can be attached
    Callers,       \* threads of the gateway and of the modules that call the broker
    Republishers,  \* modules whose Module_Receive may call Broker_Publish
    Routes,        \* links <<source, sink>> that callers may ask for
    Fds,           \* nanomsg socket numbers
    NoThread,      \* an unlocked lock
    NoFd,          \* no socket
    MaxPublish,    \* bound: messages published in a behaviour
    MaxRemove,     \* bound: calls of Broker_RemoveModule in a behaviour
    RcvBuf,        \* messages a SUB socket can hold before NN_PUB drops
    StrayPublish,  \* may a thread publish for a module that is not attached?
    Faults,        \* may nn_send of the quit message or the decoding of a message fail?
    JoinFails      \* may ThreadAPI_Join fail?

ASSUME ThreadAssumption ==
    /\ Modules \cap Callers = {}
    /\ NoThread \notin Modules \cup Callers
    /\ Republishers \subseteq Modules
    /\ NoFd \notin Fds
    /\ Routes \subseteq Modules \X Modules
ASSUME BoundAssumption ==
    /\ MaxPublish \in Nat /\ MaxRemove \in Nat /\ RcvBuf \in Nat
    /\ StrayPublish \in BOOLEAN /\ Faults \in BOOLEAN /\ JoinFails \in BOOLEAN

Threads == Modules \cup Callers      \* m \in Modules stands for m's module_worker
Kinds   == {"data", "quit"}          \* topic: a MODULE_HANDLE or a quit guid
Msg     == [kind : Kinds, src : Modules, id : Nat]   \* id numbers the data messages

VARIABLES
    modules,      \* BROKER_HANDLE_DATA.modules
    modulesLock,  \* holder of BROKER_HANDLE_DATA.modules_lock
    fd,           \* fd[m]: BROKER_MODULEINFO.receive_socket of m
    socketLock,   \* socketLock[m]: holder of BROKER_MODULEINFO.socket_lock
    sock,         \* sock[f]: state of nanomsg socket f
    subs,         \* subs[f]: topics socket f is subscribed to
    rcvq,         \* rcvq[f]: messages waiting in socket f
    wpc,          \* wpc[m]: where m's worker thread is in module_worker
    cpc, cmod,    \* cpc[c]: where caller c is in a call; cmod[c]: its module argument
    published,    \* number of messages sent by Broker_Publish
    removals,     \* number of calls of Broker_RemoveModule
    last,         \* last[m]: number of the last message handed to m's Module_Receive
    linked        \* links <<source, sink>> added and not removed since, as the callers see them

vars == <<modules, modulesLock, fd, socketLock, sock, subs, rcvq, wpc, cpc, cmod,
          published, removals, last, linked>>

\* "freed": a join that failed left it running on a freed BROKER_MODULEINFO; what it
\* does from there is undefined and not followed.
WorkerStates == {"exited", "lock", "recv", "receive", "publish", "freed"}
CallerStates == {"idle", "stop", "join"}

TypeOK ==
    /\ modules \subseteq Modules
    /\ modulesLock \in Threads \cup {NoThread}
    /\ fd \in [Modules -> Fds \cup {NoFd}]
    /\ \A m \in modules : fd[m] \in Fds
    /\ socketLock \in [Modules -> Threads \cup {NoThread}]
    /\ sock \in [Fds -> {"open", "closed"}]
    /\ subs \in [Fds -> SUBSET (Kinds \X Modules)]
    /\ rcvq \in [Fds -> Seq(Msg)]
    /\ wpc \in [Modules -> WorkerStates]
    /\ cpc \in [Callers -> CallerStates]
    /\ cmod \in [Callers -> Modules \cup {NoThread}]
    /\ published \in Nat /\ removals \in Nat
    /\ last \in [Modules -> Nat]
    /\ linked \subseteq Modules \X Modules

\* Broker_Create: an empty modules list, a free modules_lock, a bound PUB socket.
Init ==
    /\ modules = {} /\ modulesLock = NoThread
    /\ fd = [m \in Modules |-> NoFd]
    /\ socketLock = [m \in Modules |-> NoThread]
    /\ sock = [f \in Fds |-> "closed"]
    /\ subs = [f \in Fds |-> {}]
    /\ rcvq = [f \in Fds |-> <<>>]
    /\ wpc = [m \in Modules |-> "exited"]
    /\ cpc = [c \in Callers |-> "idle"]
    /\ cmod = [c \in Callers |-> NoThread]
    /\ published = 0 /\ removals = 0
    /\ last = [m \in Modules |-> 0]
    /\ linked = {}
-----------------------------------------------------------------------------

Quit(m) == [kind |-> "quit", src |-> m, id |-> 0]
Topic(msg) == <<msg.kind, msg.src>>

\* nn_send on the PUB socket: every connected SUB socket gets the message,
\* unless its buffer is full.  Topics are filtered by the receiving side.
Send(msg) ==
    [f \in Fds |-> IF sock[f] = "open" /\ Len(rcvq[f]) < RcvBuf
                   THEN Append(rcvq[f], msg) ELSE rcvq[f]]

\* The message nn_recv of m looks at, and whether a subscription matches it.
First(m) == Head(rcvq[fd[m]])
Matched(m) == Topic(First(m)) \in subs[fd[m]]
-----------------------------------------------------------------------------
(* Broker_AddModule: init_module builds the private BROKER_MODULEINFO, then, *)
(* under modules_lock, the list gains it and start_module opens and connects *)
(* the socket, subscribes the quit guid and creates the worker.  A failure   *)
(* undoes all of it before the lock is released: a stuttering step.          *)
AddModule(c, m) ==
    /\ cpc[c] = "idle" /\ m \notin modules
    /\ modulesLock = NoThread
    /\ \E f \in Fds :
        /\ sock[f] = "closed"
        /\ fd' = [fd EXCEPT ![m] = f]
        /\ sock' = [sock EXCEPT ![f] = "open"]
        /\ subs' = [subs EXCEPT ![f] = {<<"quit", m>>}]
        /\ rcvq' = [rcvq EXCEPT ![f] = <<>>]
    /\ modules' = modules \cup {m}
    /\ wpc' = [wpc EXCEPT ![m] = "lock"]
    /\ socketLock' = [socketLock EXCEPT ![m] = NoThread]
    /\ UNCHANGED <<modulesLock, cpc, cmod, published, removals, last, linked>>

\* Mutation of AddLink: the source's socket is subscribed to the sink.
AddLinkSwapped(c, s, k) ==
    /\ cpc[c] = "idle"
    /\ modulesLock = NoThread
    /\ {s, k} \subseteq modules
    /\ subs' = [subs EXCEPT ![fd[s]] = @ \cup {<<"data", k>>}]
    /\ linked' = linked \cup {<<s, k>>}
    /\ UNCHANGED <<modules, modulesLock, fd, socketLock, sock, rcvq, wpc, cpc, cmod,
                   published, removals, last>>

\* Broker_AddLink, default message type: NN_SUB_SUBSCRIBE on the sink's socket.
\* An end that is not attached makes it return BROKER_ADD_LINK_ERROR: a stutter.
AddLink(c, s, k) ==
    /\ cpc[c] = "idle"
    /\ modulesLock = NoThread
    /\ {s, k} \subseteq modules
    /\ subs' = [subs EXCEPT ![fd[k]] = @ \cup {<<"data", s>>}]
    /\ linked' = linked \cup {<<s, k>>}
    /\ UNCHANGED <<modules, modulesLock, fd, socketLock, sock, rcvq, wpc, cpc, cmod,
                   published, removals, last>>

\* Broker_RemoveLink without thread links: the NN_SUB_UNSUBSCRIBE is commented
\* out, so nothing but the caller's view of the links changes.
RemoveLink(c, s, k) ==
    /\ cpc[c] = "idle"
    /\ modulesLock = NoThread
    /\ {s, k} \subseteq modules
    /\ <<s, k>> \in linked
    /\ linked' = linked \ {<<s, k>>}
    /\ UNCHANGED <<modules, modulesLock, fd, socketLock, sock, subs, rcvq, wpc, cpc, cmod,
                   published, removals, last>>

\* Messages announced but not sent yet, counted so that the bound never
\* stops a thread inside Broker_Publish.
Announced == Cardinality({m \in Modules : wpc[m] = "publish"})

PublishData(s) ==
    /\ published' = published + 1
    /\ rcvq' = Send([kind |-> "data", src |-> s, id |-> published + 1])

\* Mutation of Publish: the source is not looked up.
PublishUnchecked(c, s) ==
    /\ cpc[c] = "idle"
    /\ modulesLock = NoThread
    /\ published + Announced < MaxPublish
    /\ PublishData(s)
    /\ UNCHANGED <<modules, modulesLock, fd, socketLock, sock, subs, wpc, cpc, cmod,
                   removals, last, linked>>

\* Broker_Publish of a thread other than the workers, source s attached.
Publish(c, s) ==
    /\ cpc[c] = "idle"
    /\ modulesLock = NoThread
    /\ s \in modules
    /\ published + Announced < MaxPublish
    /\ PublishData(s)
    /\ UNCHANGED <<modules, modulesLock, fd, socketLock, sock, subs, wpc, cpc, cmod,
                   removals, last, linked>>

\* Broker_Publish of a source that is not attached: BROKER_ERROR is returned
\* between Lock and Unlock.
PublishUnknown(c, s) ==
    /\ StrayPublish
    /\ cpc[c] = "idle"
    /\ modulesLock = NoThread
    /\ s \notin modules
    /\ modulesLock' = c
    /\ UNCHANGED <<modules, fd, socketLock, sock, subs, rcvq, wpc, cpc, cmod,
                   published, removals, last, linked>>
-----------------------------------------------------------------------------
(* Broker_RemoveModule: Lock(modules_lock), find, stop_module (send the quit *)
(* guid, take socket_lock to close the socket, join the worker),             *)
(* deinit_module, list removal, Unlock.  A module that is not found makes    *)
(* it return BROKER_ERROR: a stutter.                                        *)
RemoveModule(c, m) ==
    /\ removals < MaxRemove /\ removals' = removals + 1
    /\ cpc[c] = "idle"
    /\ modulesLock = NoThread
    /\ m \in modules
    /\ modulesLock' = c
    /\ rcvq' = Send(Quit(m))
    /\ cpc' = [cpc EXCEPT ![c] = "stop"]
    /\ cmod' = [cmod EXCEPT ![c] = m]
    /\ linked' = {l \in linked : l[1] # m /\ l[2] # m}
    /\ UNCHANGED <<modules, fd, socketLock, sock, subs, wpc, published, last>>

Close(f) ==
    /\ sock' = [sock EXCEPT ![f] = "closed"]
    /\ subs' = [subs EXCEPT ![f] = {}]
    /\ rcvq' = [rcvq EXCEPT ![f] = <<>>]

\* nn_send failed: the socket is closed without socket_lock.
RemoveModuleHarshly(c, m) ==
    /\ Faults
    /\ removals < MaxRemove /\ removals' = removals + 1
    /\ cpc[c] = "idle"
    /\ modulesLock = NoThread
    /\ m \in modules
    /\ modulesLock' = c
    /\ Close(fd[m])
    /\ cpc' = [cpc EXCEPT ![c] = "join"]
    /\ cmod' = [cmod EXCEPT ![c] = m]
    /\ linked' = {l \in linked : l[1] # m /\ l[2] # m}
    /\ UNCHANGED <<modules, fd, socketLock, wpc, published, last>>

\* Mutation of SocketLockFree: the socket lock is not taken.
SocketLockIgnored(m) == TRUE

SocketLockFree(m) == socketLock[m] = NoThread

\* Mutation of StopModule: modules_lock is released before the join.
StopModuleUnlocks(c) ==
    LET m == cmod[c] IN
    /\ cpc[c] = "stop"
    /\ SocketLockFree(m)
    /\ Close(fd[m])
    /\ cpc' = [cpc EXCEPT ![c] = "join"]
    /\ modulesLock' = NoThread
    /\ UNCHANGED <<modules, fd, socketLock, wpc, cmod, published, removals, last, linked>>

\* Mutation of StopModule: receive_socket is reset before the join.
StopModuleForgetsSocket(c) ==
    LET m == cmod[c] IN
    /\ cpc[c] = "stop"
    /\ SocketLockFree(m)
    /\ Close(fd[m])
    /\ fd' = [fd EXCEPT ![m] = NoFd]
    /\ cpc' = [cpc EXCEPT ![c] = "join"]
    /\ UNCHANGED <<modules, modulesLock, socketLock, wpc, cmod, published, removals, last, linked>>

\* Lock(socket_lock), nn_close, Unlock(socket_lock)
StopModule(c) ==
    LET m == cmod[c] IN
    /\ cpc[c] = "stop"
    /\ SocketLockFree(m)
    /\ Close(fd[m])
    /\ cpc' = [cpc EXCEPT ![c] = "join"]
    /\ UNCHANGED <<modules, modulesLock, fd, socketLock, wpc, cmod, published, removals, last, linked>>

\* Mutation of Joinable: the worker is not joined.
JoinableAtOnce(m) == TRUE

Joinable(m) == wpc[m] = "exited"

\* Mutation of JoinModule: the final Unlock is forgotten.
JoinModuleKeepsLock(c) ==
    LET m == cmod[c] IN
    /\ cpc[c] = "join"
    /\ Joinable(m)
    /\ modules' = modules \ {m}
    /\ fd' = [fd EXCEPT ![m] = NoFd]
    /\ cpc' = [cpc EXCEPT ![c] = "idle"]
    /\ cmod' = [cmod EXCEPT ![c] = NoThread]
    /\ UNCHANGED <<modulesLock, socketLock, sock, subs, rcvq, wpc, published, removals, last, linked>>

\* ThreadAPI_Join returns; deinit_module, singlylinkedlist_remove, free, Unlock
JoinModule(c) ==
    LET m == cmod[c] IN
    /\ cpc[c] = "join"
    /\ Joinable(m)
    /\ modules' = modules \ {m}
    /\ fd' = [fd EXCEPT ![m] = NoFd]
    /\ modulesLock' = NoThread
    /\ cpc' = [cpc EXCEPT ![c] = "idle"]
    /\ cmod' = [cmod EXCEPT ![c] = NoThread]
    /\ UNCHANGED <<socketLock, sock, subs, rcvq, wpc, published, removals, last, linked>>

\* ThreadAPI_Join fails: deinit_module is left out, but the module leaves the list and
\* its BROKER_MODULEINFO is freed all the same, under a worker that may still run.
JoinModuleFails(c) ==
    LET m == cmod[c] IN
    /\ JoinFails
    /\ cpc[c] = "join"
    /\ modules' = modules \ {m}
    /\ fd' = [fd EXCEPT ![m] = NoFd]
    /\ wpc' = [wpc EXCEPT ![m] = IF Joinable(m) THEN @ ELSE "freed"]
    /\ modulesLock' = NoThread
    /\ cpc' = [cpc EXCEPT ![c] = "idle"]
    /\ cmod' = [cmod EXCEPT ![c] = NoThread]
    /\ UNCHANGED <<socketLock, sock, subs, rcvq, published, removals, last, linked>>
-----------------------------------------------------------------------------
(* module_worker of m: Lock(socket_lock), nn_recv (blocks, holding the lock),*)
(* Unlock, then the message is looked at.                                    *)
WorkerLock(m) ==
    /\ wpc[m] = "lock"
    /\ SocketLockFree(m)
    /\ socketLock' = [socketLock EXCEPT ![m] = m]
    /\ wpc' = [wpc EXCEPT ![m] = "recv"]
    /\ UNCHANGED <<modules, modulesLock, fd, sock, subs, rcvq, cpc, cmod, published, removals, last, linked>>

\* nn_recv looks at the messages in the socket one after the other, for as long as
\* none matches a subscription.
WorkerDiscard(m) ==
    /\ wpc[m] = "recv"
    /\ sock[fd[m]] = "open" /\ rcvq[fd[m]] # <<>>
    /\ ~Matched(m)
    /\ rcvq' = [rcvq EXCEPT ![fd[m]] = Tail(@)]
    /\ UNCHANGED <<modules, modulesLock, fd, socketLock, sock, subs, wpc, cpc, cmod,
                   published, removals, last, linked>>

\* Mutation of Take: the message stays in the socket.
TakePeeks(m) ==
    /\ sock[fd[m]] = "open" /\ rcvq[fd[m]] # <<>>
    /\ Matched(m)
    /\ UNCHANGED rcvq
    /\ socketLock' = [socketLock EXCEPT ![m] = NoThread]
    /\ UNCHANGED <<modules, modulesLock, fd, sock, subs, cpc, cmod, published, removals, linked>>

\* nn_recv returns the first message that matches and the lock is released.
Take(m) ==
    /\ sock[fd[m]] = "open" /\ rcvq[fd[m]] # <<>>
    /\ Matched(m)
    /\ rcvq' = [rcvq EXCEPT ![fd[m]] = Tail(@)]
    /\ socketLock' = [socketLock EXCEPT ![m] = NoThread]
    /\ UNCHANGED <<modules, modulesLock, fd, sock, subs, cpc, cmod, published, removals, linked>>

\* Mutation of IsQuit: every message passes for the quit guid.
IsQuitAlways(m, msg) == TRUE

\* The quit guid of m: the loop ends.
IsQuit(m, msg) == msg = Quit(m)

WorkerQuit(m) ==
    /\ wpc[m] = "recv"
    /\ Take(m)
    /\ IsQuit(m, First(m))
    /\ wpc' = [wpc EXCEPT ![m] = "exited"]
    /\ UNCHANGED last

\* Any other message is decoded and handed to Module_Receive.
WorkerReceive(m) ==
    /\ wpc[m] = "recv"
    /\ Take(m)
    /\ ~IsQuit(m, First(m))
    /\ wpc' = [wpc EXCEPT ![m] = "receive"]
    /\ last' = [last EXCEPT ![m] = First(m).id]

\* Message_CreateFromByteArray returned NULL: the message is skipped.
WorkerSkip(m) ==
    /\ Faults /\ wpc[m] = "recv"
    /\ Take(m)
    /\ ~IsQuit(m, First(m))
    /\ wpc' = [wpc EXCEPT ![m] = "lock"]
    /\ UNCHANGED last

\* Mutation of WorkerError: an error of nn_recv does not end the loop.
WorkerErrorGoesOn(m) ==
    /\ wpc[m] = "recv"
    /\ sock[fd[m]] = "closed"
    /\ socketLock' = [socketLock EXCEPT ![m] = NoThread]
    /\ wpc' = [wpc EXCEPT ![m] = "lock"]
    /\ UNCHANGED <<modules, modulesLock, fd, sock, subs, rcvq, cpc, cmod, published, removals, last, linked>>

\* nn_recv fails on a closed socket: the loop ends.
WorkerError(m) ==
    /\ wpc[m] = "recv"
    /\ sock[fd[m]] = "closed"
    /\ socketLock' = [socketLock EXCEPT ![m] = NoThread]
    /\ wpc' = [wpc EXCEPT ![m] = "exited"]
    /\ UNCHANGED <<modules, modulesLock, fd, sock, subs, rcvq, cpc, cmod, published, removals, last, linked>>

\* Module_Receive calls Broker_Publish ...
WorkerCallPublish(m) ==
    /\ wpc[m] = "receive"
    /\ m \in Republishers
    /\ published + Announced < MaxPublish
    /\ wpc' = [wpc EXCEPT ![m] = "publish"]
    /\ UNCHANGED <<modules, modulesLock, fd, socketLock, sock, subs, rcvq, cpc, cmod,
                   published, removals, last, linked>>

\* ... which waits for modules_lock and sends.
WorkerPublish(m) ==
    /\ wpc[m] = "publish"
    /\ modulesLock = NoThread
    /\ PublishData(m)
    /\ wpc' = [wpc EXCEPT ![m] = "receive"]
    /\ UNCHANGED <<modules, modulesLock, fd, socketLock, sock, subs, cpc, cmod, removals, last, linked>>

\* Module_Receive returns, the message is destroyed, the loop goes on.
WorkerReturn(m) ==
    /\ wpc[m] = "receive"
    /\ wpc' = [wpc EXCEPT ![m] = "lock"]
    /\ UNCHANGED <<modules, modulesLock, fd, socketLock, sock, subs, rcvq, cpc, cmod,
                   published, removals, last, linked>>
-----------------------------------------------------------------------------
CallerStep(c) ==
    \/ \E m \in Modules :
        \/ AddModule(c, m) \/ RemoveModule(c, m) \/ RemoveModuleHarshly(c, m)
        \/ Publish(c, m) \/ PublishUnknown(c, m)
    \/ \E l \in Routes : AddLink(c, l[1], l[2]) \/ RemoveLink(c, l[1], l[2])
    \/ StopModule(c)
    \/ JoinModule(c) \/ JoinModuleFails(c)

WorkerStep(m) ==
    \/ WorkerLock(m) \/ WorkerDiscard(m) \/ WorkerQuit(m) \/ WorkerReceive(m)
    \/ WorkerSkip(m) \/ WorkerError(m)
    \/ WorkerCallPublish(m) \/ WorkerPublish(m) \/ WorkerReturn(m)

Next == (\E c \in Callers : CallerStep(c)) \/ (\E m \in Modules : WorkerStep(m))

Spec == Init /\ [][Next]_vars

\* Threads that can run do run, Module_Receive returns, a call that was begun
\* goes on when its lock or its join lets it; nobody has to call the broker.
\* pthread locks are not fair: a waiter is only served when the lock stays free.
Fairness ==
    /\ \A m \in Modules :
        /\ WF_vars(WorkerLock(m)) /\ WF_vars(WorkerDiscard(m)) /\ WF_vars(WorkerQuit(m))
        /\ WF_vars(WorkerReceive(m)) /\ WF_vars(WorkerError(m))
        /\ WF_vars(WorkerPublish(m)) /\ WF_vars(WorkerReturn(m))
    /\ \A c \in Callers : WF_vars(StopModule(c)) /\ WF_vars(JoinModule(c))

FairSpec == Spec /\ Fairness
-----------------------------------------------------------------------------
Removing(m) == \E c \in Callers : cpc[c] # "idle" /\ cmod[c] = m

\* modules_lock is held only by a thread that is inside a broker call: every
\* call gives it back (Codes_SRS_BROKER_17_023, 13_046, 13_054, 17_033, 17_039).
ModulesLockReleased == modulesLock # NoThread => modulesLock \in Callers /\ cpc[modulesLock] # "idle"

\* A worker never runs on a freed BROKER_MODULEINFO: Broker_RemoveModule frees
\* it (and lets the gateway destroy the module) only after the join.  When the join
\* may fail it does not hold: removal goes on without it.
InfoOutlivesWorker == \A m \in Modules : wpc[m] # "exited" => m \in modules

\* socket numbers are reused by nn_socket; a worker that is about to call
\* nn_recv never finds another module's socket behind its receive_socket.
WorkerOwnsSocket ==
    \A m, n \in Modules :
        wpc[m] # "exited" /\ n \in modules /\ fd[m] = fd[n] => m = n

\* socket_lock keeps nn_close and nn_recv apart (Codes_SRS_BROKER_02_001): a
\* socket is closed only while its worker is outside nn_recv.
NoCloseDuringRecv ==
    [][\A m \in Modules : wpc[m] = "recv" /\ sock[fd[m]] = "open" => sock'[fd[m]] = "open"]_vars

\* A link that was added and not removed is subscribed for as long as both its
\* modules are attached and the sink is not being removed.
LinkedIsSubscribed ==
    \A l \in linked : ~Removing(l[2]) => l[2] \in modules /\ <<"data", l[1]>> \in subs[fd[l[2]]]

\* A message is handed to a module after every earlier one it was handed:
\* whatever threads publish, all sinks see one order and no message twice.
OneOrder ==
    [][\A m \in Modules : wpc[m] = "recv" /\ wpc'[m] = "receive" => last'[m] > last[m]]_vars

\* Broker_RemoveLink "shall unsubscribe" the sink's socket
\* (Codes_SRS_BROKER_17_038): what waits to be received came over a link that
\* is still there.
OnlyLinkedReceived ==
    \A m \in modules : \A i \in DOMAIN rcvq[fd[m]] :
        rcvq[fd[m]][i].kind = "data" /\ Topic(rcvq[fd[m]][i]) \in subs[fd[m]]
            => <<rcvq[fd[m]][i].src, m>> \in linked

\* Broker_Publish "will not publish the message to this module" (broker.h), the
\* source of the message.
NoSelfDelivery ==
    [][\A m \in modules : WorkerReceive(m) => First(m).src # m]_vars

\* Broker_RemoveModule returns ("thread will eventually stop and be joined").
RemovalReturns == \A c \in Callers : cpc[c] # "idle" ~> cpc[c] = "idle"

\* A message that waits in the socket of a linked module is received, unless
\* the module is being removed first or the message cannot be decoded.
Waiting(m, n) ==
    /\ fd[m] # NoFd
    /\ \E i \in DOMAIN rcvq[fd[m]] :
        rcvq[fd[m]][i].id = n /\ Topic(rcvq[fd[m]][i]) \in subs[fd[m]]
EventuallyReceived ==
    \A m \in Modules : \A n \in 1..MaxPublish :
        Waiting(m, n) ~> \/ last[m] >= n \/ (Faults /\ ~Waiting(m, n))
                         \/ Removing(m) \/ m \notin modules
-----------------------------------------------------------------------------
\* Refinement: Broker implements MessageBus.
IsData(msg) == msg.kind = "data"
BusMsg(msg) == [src |-> msg.src, id |-> msg.id]
Live(m)     == m \in modules /\ sock[fd[m]] = "open"
Pending(q)  == {BusMsg(q[i]) : i \in {j \in DOMAIN q : IsData(q[j])}}
BusQueue(m) == IF Live(m) THEN Pending(rcvq[fd[m]]) ELSE {}
BusLinks(m) == IF Live(m) THEN {s \in Modules : <<"data", s>> \in subs[fd[m]]} ELSE {}

Bus == INSTANCE MessageBus WITH
    attached  <- modules,
    closing   <- {m \in modules : ~Live(m)},
    links     <- [m \in Modules |-> BusLinks(m)],
    queue     <- [m \in Modules |-> BusQueue(m)],
    receiving <- {m \in Modules : wpc[m] \in {"receive", "publish"}}

BusSpec == Bus!BusSpec
=============================================================================
