---------------------------- MODULE ThreadLinks -----------------------------
(***************************************************************************)
(* The thread transport of core/src/broker.c: links of message type        *)
(* BROKER_LINK_MESSAGE_TYPE_THREAD between in-process modules.             *)
(*                                                                         *)
(* A source that has such links owns a list of nodes, one per link, each   *)
(* with the messages sent over the link and not taken yet.  A sink owns a  *)
(* receiver: a lock, a condition, a list of its sources and a thread that  *)
(* walks the nodes of those sources, takes what is addressed to it and     *)
(* calls Module_Receive.  Calls of the broker are serialised by            *)
(* modules_lock; the receiver threads run beside them, with the receiver's *)
(* lock but neither modules_lock nor the sources' locks (those are only    *)
(* ever taken under modules_lock, so they are left out here).              *)
(*                                                                         *)
(* The walk is modelled pointer by pointer, because the lists it reads     *)
(* change under it.                                                        *)
(***************************************************************************)
EXTENDS Naturals, Sequences, FiniteSets, SequencesExt

CONSTANTS
    Modules,       \* modules attached at the start
    Callers,       \* threads of the gateway and of the modules that call the broker
    Republishers,  \* modules whose Module_Receive may call Broker_Publish
    InitLinks,     \* sequence of the links <<source, sink>> made before the start
    Routes,        \* links callers may remove and add
    Twice,         \* of them, those the gateway may have twice: as '*' -> k and as s -> k
    Fragile,       \* bound: links of which one call of Broker_AddLink may fail part-way
    Nodes,         \* THREAD_MESSAGE_HANDLING_RECIEVERS_IN_SENDER allocations
    NoNode,        \* NULL
    NoThread,      \* an unlocked lock
    MaxPublish,    \* bound: messages published in a behaviour
    MaxAdd,        \* bound: calls of Broker_AddLink in a behaviour
    MaxRemove      \* bound: calls of Broker_RemoveModule in a behaviour

ASSUME LinkAssumption ==
    /\ Modules \cap Callers = {}
    /\ NoThread \notin Modules \cup Callers
    /\ Republishers \subseteq Modules
    /\ Routes \subseteq Modules \X Modules
    /\ Twice \subseteq Routes /\ Fragile \subseteq Routes
    /\ InitLinks \in Seq(Modules \X Modules) /\ IsInjective(InitLinks)
    /\ DOMAIN InitLinks \subseteq Nodes
    /\ NoNode \notin Nodes
    /\ MaxPublish \in Nat /\ MaxAdd \in Nat /\ MaxRemove \in Nat

VARIABLES
    attached,    \* BROKER_HANDLE_DATA.modules
    call,        \* the broker call in progress: its thread holds modules_lock
    sender,      \* sender[m]: state of BROKER_MODULEINFO.senderThMsg of m
    receivers,   \* receivers[m]: senderThMsg->receivers, a list of nodes
    dst,         \* dst[n]: the module of the receiver node n points to
    sending,     \* sending[n]: sendingMessages of node n
    senders,     \* senders[m]: receiverThMsg->senders, a list of sources
    toContinue,  \* toContinue[m] of m's receiver
    rlock,       \* rlock[m]: holder of the lock of m's receiver
    rpc,         \* rpc[m]: where m's receiver thread is; "none": no receiver
    walk, cur,   \* walk[m]: position in senders[m]; cur[m]: the node being looked at
    lostTail,    \* lostTail[m]: pre_receive_msg became NULL behind a list of messages
    batch,       \* batch[m]: messages taken and not handed to Module_Receive yet
    crashed,     \* a thread went through a NULL, freed or uninitialised pointer
    published,   \* number of messages published
    removals,    \* number of calls of Broker_RemoveModule
    linked,      \* linked[l]: calls of Broker_AddLink for l that returned BROKER_OK, less
                 \* those of Broker_RemoveLink: what the callers take to be there
    adds,        \* number of calls of Broker_AddLink
    doubled,     \* history: links that were added while they were there
    failed       \* history: links of which a call of Broker_AddLink failed part-way

history == <<adds, doubled, failed>>
vars == <<attached, call, sender, receivers, dst, sending, senders, toContinue, rlock, rpc,
          walk, cur, lostTail, batch, crashed, published, removals, linked, history>>
registry == <<attached, sender, receivers, dst, senders, linked, history>>
walker   == <<walk, cur, lostTail, batch>>

\* A message in a list; link is the node it was put on, which no action reads.
Msg    == [link : Nodes, src : Modules, id : Nat]
NoCall == [by |-> NoThread, op |-> "none", src |-> NoThread, sink |-> NoThread, at |-> 0]
Calls  == [by : Modules \cup Callers,
           op : {"sender", "make", "ready", "receiver", "unlink", "free", "publish", "kept", "stop", "join"},
           src : Modules, sink : Modules, at : Nat]
ReceiverStates ==
    {"none", "lock", "walk", "wait", "woken", "batch", "receive", "calling", "exited"}

TypeOK ==
    /\ attached \subseteq Modules
    /\ call \in Calls \cup {NoCall}
    /\ sender \in [Modules -> {"none", "raw", "ready"}]
    /\ receivers \in [Modules -> Seq(Nodes)]
    /\ dst \in [Nodes -> Modules \cup {NoThread}]
    /\ sending \in [Nodes -> Seq(Msg)]
    /\ senders \in [Modules -> Seq(Modules)]
    /\ toContinue \in [Modules -> BOOLEAN]
    /\ rlock \in [Modules -> Modules \cup {NoThread}]
    /\ \A m \in Modules : rlock[m] = m <=> rpc[m] = "walk"
    /\ rpc \in [Modules -> ReceiverStates]
    /\ walk \in [Modules -> Nat]
    /\ cur \in [Modules -> Nodes \cup {NoNode}]
    /\ lostTail \in [Modules -> BOOLEAN]
    /\ batch \in [Modules -> Seq(Msg)]
    /\ crashed \in BOOLEAN
    /\ published \in Nat /\ removals \in Nat /\ adds \in Nat
    /\ linked \in [Modules \X Modules -> Nat]
    /\ doubled \subseteq Modules \X Modules /\ failed \subseteq Modules \X Modules

\* The list q of nodes of InitLinks has the links with module m at end e (1: source,
\* 2: sink), in the order in which they were added.
InitLists == {q \in UNION {[1..n -> DOMAIN InitLinks] : n \in 0..Len(InitLinks)} :
                 \A i, j \in DOMAIN q : i < j => q[i] < q[j]}
HasLinks(q, m, e) == Range(q) = {i \in DOMAIN InitLinks : InitLinks[i][e] = m}

\* Every module is attached and InitLinks have been added, in that order, by
\* calls of Broker_AddLink during which no receiver thread was scheduled.
Init ==
    /\ attached = Modules
    /\ call = NoCall
    /\ receivers \in [Modules -> InitLists] /\ \A m \in Modules : HasLinks(receivers[m], m, 1)
    /\ \E into \in [Modules -> InitLists] :
         /\ \A m \in Modules : HasLinks(into[m], m, 2)
         /\ senders = [m \in Modules |-> [i \in DOMAIN into[m] |-> InitLinks[into[m][i]][1]]]
    /\ sender = [m \in Modules |-> IF receivers[m] = <<>> THEN "none" ELSE "ready"]
    /\ rpc = [m \in Modules |-> IF senders[m] = <<>> THEN "none" ELSE "lock"]
    /\ toContinue = [m \in Modules |-> senders[m] # <<>>]
    /\ dst = [n \in Nodes |-> IF n \in DOMAIN InitLinks THEN InitLinks[n][2] ELSE NoThread]
    /\ sending = [n \in Nodes |-> <<>>]
    /\ rlock = [m \in Modules |-> NoThread]
    /\ walk = [m \in Modules |-> 0]
    /\ cur = [m \in Modules |-> NoNode]
    /\ lostTail = [m \in Modules |-> FALSE]
    /\ batch = [m \in Modules |-> <<>>]
    /\ crashed = FALSE
    /\ published = 0 /\ removals = 0
    /\ linked = [l \in Modules \X Modules |-> IF l \in Range(InitLinks) THEN 1 ELSE 0]
    /\ adds = 0 /\ doubled = {} /\ failed = {}
-----------------------------------------------------------------------------
NodesOf(s) == Range(receivers[s])            \* the nodes of source s
LinkNodes(s, k) == {n \in NodesOf(s) : dst[n] = k}
Linked == {l \in Modules \X Modules : linked[l] > 0}

\* Nodes that malloc does not return, or that a message taken still names.
InUse == (UNION {NodesOf(s) : s \in attached}) \cup Range(cur)
         \cup {batch[x[1]][x[2]].link : x \in UNION {{m} \X DOMAIN batch[m] : m \in Modules}}

\* modules_lock is free: a call can begin ...
Idle == call = NoCall
Begin(t, op, s, k) == call' = [by |-> t, op |-> op, src |-> s, sink |-> k, at |-> 1]
\* ... goes on with another step, holding it, or ends.
GoOn(op) == call' = [call EXCEPT !.op = op]
End == call' = NoCall

\* The lock of k's receiver is only ever held by k's receiver thread between
\* two steps: the calls release it within the step that takes it.
ReceiverLockFree(k) == rlock[k] = NoThread

\* Condition_Post: rpc after it.
Post(k) == [rpc EXCEPT ![k] = IF @ = "wait" THEN "woken" ELSE @]
-----------------------------------------------------------------------------
(* Broker_AddLink, thread type.  It does not take the receiver's lock, so   *)
(* each of its writes is a step.  The gateway refuses a link that it has    *)
(* already (check_if_link_exists), but compares '*' with '*' only: a pair   *)
(* of modules can be linked twice, by '*' -> k and by s -> k.               *)

\* Lock(modules_lock), both modules found.
MayAdd(s, k) ==
    /\ Idle /\ adds < MaxAdd /\ adds' = adds + 1
    /\ s \in attached /\ k \in attached
    /\ linked[<<s, k>>] = 0 \/ (linked[<<s, k>>] = 1 /\ <<s, k>> \in Twice)
    /\ doubled' = doubled \cup ({<<s, k>>} \cap Linked)

\* The sink gets a receiver and its thread if it has none.
AddLink(c, s, k) ==
    /\ MayAdd(s, k)
    /\ Begin(c, "sender", s, k)
    /\ IF rpc[k] = "none"
       THEN /\ rpc' = [rpc EXCEPT ![k] = "lock"]
            /\ toContinue' = [toContinue EXCEPT ![k] = TRUE]
       ELSE UNCHANGED <<rpc, toContinue>>
    /\ UNCHANGED <<attached, sender, receivers, dst, senders, linked, failed, walker, sending, rlock,
                   published, removals, crashed>>

\* An allocation, or the creation of a lock, fails.
Fails(s, k) ==
    /\ <<s, k>> \in Fragile \ failed
    /\ failed' = failed \cup {<<s, k>>}

\* The receiver cannot be made: the call goes on, and through its NULL pointer.
AddLinkNoReceiver(c, s, k) ==
    /\ MayAdd(s, k) /\ rpc[k] = "none" /\ Fails(s, k)
    /\ crashed' = TRUE
    /\ Begin(c, "sender", s, k)
    /\ UNCHANGED <<attached, sender, receivers, dst, senders, linked, walker, sending, toContinue,
                   rlock, rpc, published, removals>>

\* The source is appended to the receiver's senders.
AddLinkSender ==
    LET s == call.src  k == call.sink IN
    /\ call.op = "sender"
    /\ senders' = [senders EXCEPT ![k] = Append(@, s)]
    /\ GoOn(IF sender[s] = "none" THEN "make" ELSE "receiver")
    /\ UNCHANGED <<attached, sender, receivers, dst, linked, history, walker, sending, toContinue,
                   rlock, rpc, published, removals, crashed>>

\* The entry for it cannot be allocated: the link is made without it.
AddLinkNoSender ==
    LET s == call.src  k == call.sink IN
    /\ call.op = "sender" /\ Fails(s, k)
    /\ GoOn(IF sender[s] = "none" THEN "make" ELSE "receiver")
    /\ UNCHANGED <<attached, sender, receivers, dst, senders, linked, adds, doubled, walker, sending,
                   toContinue, rlock, rpc, published, removals, crashed>>

\* senderThMsg is allocated: its receivers pointer is not initialised yet ...
AddLinkMake ==
    /\ call.op = "make"
    /\ sender' = [sender EXCEPT ![call.src] = "raw"]
    /\ GoOn("ready")
    /\ UNCHANGED <<attached, receivers, dst, senders, linked, history, walker, sending, toContinue,
                   rlock, rpc, published, removals, crashed>>

\* ... and now it is.
AddLinkReady ==
    /\ call.op = "ready"
    /\ sender' = [sender EXCEPT ![call.src] = "ready"]
    /\ GoOn("receiver")
    /\ UNCHANGED <<attached, receivers, dst, senders, linked, history, walker, sending, toContinue,
                   rlock, rpc, published, removals, crashed>>

\* It cannot be allocated, or its lock not made and it is freed: an error is
\* returned, the entry at the sink stays.
AddLinkUnmade ==
    /\ call.op \in {"make", "ready"} /\ Fails(call.src, call.sink)
    /\ sender' = [sender EXCEPT ![call.src] = "none"]
    /\ End
    /\ UNCHANGED <<attached, receivers, dst, senders, linked, adds, doubled, walker, sending, toContinue,
                   rlock, rpc, published, removals, crashed>>

\* The node of the link is appended to the source's receivers; Unlock(modules_lock).
\* Which of the free nodes malloc returns makes no difference.
AddLinkReceiver ==
    LET s == call.src  k == call.sink  n == CHOOSE free \in Nodes : free \notin InUse IN
    /\ call.op = "receiver"
    /\ Nodes \ InUse # {}
    /\ receivers' = [receivers EXCEPT ![s] = Append(@, n)]
    /\ dst' = [dst EXCEPT ![n] = k]
    /\ sending' = [sending EXCEPT ![n] = <<>>]
    /\ linked' = [linked EXCEPT ![<<s, k>>] = @ + 1]
    /\ End
    /\ UNCHANGED <<attached, sender, senders, history, walker, toContinue, rlock, rpc, published,
                   removals, crashed>>

\* It cannot be allocated: an error is returned, the entry at the sink stays.
AddLinkNoNode ==
    /\ call.op = "receiver" /\ Fails(call.src, call.sink)
    /\ End
    /\ UNCHANGED <<attached, sender, receivers, dst, senders, linked, adds, doubled, walker, sending,
                   toContinue, rlock, rpc, published, removals, crashed>>
-----------------------------------------------------------------------------
(* Broker_RemoveLink of a thread link.  When there is nothing to remove it  *)
(* leaves all as it is: a stuttering step.                                  *)
RemoveLink(c, s, k) ==
    /\ Idle
    /\ s \in attached /\ k \in attached
    /\ rpc[k] # "none" /\ sender[s] = "ready"
    /\ s \in Range(senders[k]) \/ LinkNodes(s, k) # {}
    /\ Begin(c, "unlink", s, k)
    /\ UNCHANGED <<registry, walker, sending, toContinue, rlock, rpc, published, removals, crashed>>

\* Under the receiver's lock, the first entry of the source leaves the receiver's
\* senders; call.at tells whether there is one ...
RemoveLinkSender ==
    LET s == call.src  k == call.sink IN
    /\ call.op = "unlink"
    /\ ReceiverLockFree(k)
    /\ senders' = [senders EXCEPT ![k] = RemoveFirst(@, s)]
    /\ call' = [call EXCEPT !.op = "free", !.at = IF s \in Range(senders[k]) THEN 1 ELSE 0]
    /\ UNCHANGED <<attached, sender, receivers, dst, linked, history, walker, sending, toContinue,
                   rlock, rpc, published, removals, crashed>>

\* The first node of s that points to the receiver of k.
NodeTo(s, k) ==
    LET i == CHOOSE j \in DOMAIN receivers[s] :
                /\ dst[receivers[s][j]] = k
                /\ \A h \in 1..j - 1 : dst[receivers[s][h]] # k
    IN  receivers[s][i]

\* The callers forget the link, whatever Broker_RemoveLink returns.
Forget(s, k) == linked' = [linked EXCEPT ![<<s, k>>] = IF @ > 0 THEN @ - 1 ELSE 0]

\* ... and the node leaves the source's receivers and is freed with the messages
\* it holds, while other receivers may be walking the same list; Unlock.  Without an
\* entry it is not freed: a walk that is there goes on, as it would have before.
RemoveLinkReceiver ==
    LET s == call.src  k == call.sink  n == NodeTo(s, k) IN
    /\ call.op = "free"
    /\ LinkNodes(s, k) # {}
    /\ call.at = 0 => n \notin Range(cur)
    /\ receivers' = [receivers EXCEPT ![s] = RemoveFirst(@, n)]
    /\ sending' = [sending EXCEPT ![n] = <<>>]
    /\ Forget(s, k)
    /\ End
    /\ UNCHANGED <<attached, sender, dst, senders, history, walker, toContinue, rlock, rpc,
                   published, removals, crashed>>

\* There is no node: the entry is not freed, and an error returned.
RemoveLinkMissing ==
    LET s == call.src  k == call.sink IN
    /\ call.op = "free"
    /\ LinkNodes(s, k) = {}
    /\ Forget(s, k)
    /\ End
    /\ UNCHANGED <<attached, sender, receivers, dst, senders, history, walker, sending, toContinue,
                   rlock, rpc, published, removals, crashed>>
-----------------------------------------------------------------------------
(* Broker_Publish of a source that has a senderThMsg.                       *)
\* Receiver threads that wait in Broker_Publish, counted so that the bound never
\* stops one there.
Announced == Cardinality({m \in Modules : rpc[m] = "calling"})

\* Lock(modules_lock), taken by a caller or by a receiver thread that is inside
\* Module_Receive.
Publish(t, s) ==
    /\ Idle
    /\ s \in attached /\ sender[s] = "ready"
    /\ published' = published + 1
    /\ Begin(t, "publish", s, s)
    /\ UNCHANGED <<registry, walker, sending, toContinue, rlock, rpc, removals, crashed>>

\* A source that is not attached: Broker_Publish returns without Unlock.
PublishUnknown(c, s) ==
    /\ Idle
    /\ s \notin attached
    /\ Begin(c, "kept", s, s)
    /\ UNCHANGED <<registry, walker, sending, toContinue, rlock, rpc, published, removals, crashed>>

\* Mutation of PublishNode: the receiver is not woken.
PublishNodeQuietly ==
    LET s == call.src  n == receivers[s][call.at] IN
    /\ call.op = "publish" /\ call.at <= Len(receivers[s])
    /\ ReceiverLockFree(dst[n])
    /\ sending' = [sending EXCEPT ![n] = Append(@, [link |-> n, src |-> s, id |-> published])]
    /\ call' = [call EXCEPT !.at = @ + 1]
    /\ UNCHANGED <<registry, walker, toContinue, rlock, rpc, published, removals, crashed>>

\* Mutation of PublishNode: the message is put before those that wait.
PublishNodeInFront ==
    LET s == call.src  n == receivers[s][call.at] IN
    /\ call.op = "publish" /\ call.at <= Len(receivers[s])
    /\ ReceiverLockFree(dst[n])
    /\ sending' = [sending EXCEPT ![n] = <<[link |-> n, src |-> s, id |-> published]>> \o @]
    /\ rpc' = Post(dst[n])
    /\ call' = [call EXCEPT !.at = @ + 1]
    /\ UNCHANGED <<registry, walker, toContinue, rlock, published, removals, crashed>>

\* One node: under its receiver's lock the message is appended and the
\* receiver's condition posted.  A copy that cannot be allocated is tried again.
PublishNode ==
    LET s == call.src  n == receivers[s][call.at] IN
    /\ call.op = "publish" /\ call.at <= Len(receivers[s])
    /\ ReceiverLockFree(dst[n])
    /\ sending' = [sending EXCEPT ![n] = Append(@, [link |-> n, src |-> s, id |-> published])]
    /\ rpc' = Post(dst[n])
    /\ call' = [call EXCEPT !.at = @ + 1]
    /\ UNCHANGED <<registry, walker, toContinue, rlock, published, removals, crashed>>

\* The list is through: Unlock(modules_lock).
PublishEnd ==
    /\ call.op = "publish" /\ call.at > Len(receivers[call.src])
    /\ rpc' = IF call.by \in Modules THEN [rpc EXCEPT ![call.by] = "receive"] ELSE rpc
    /\ End
    /\ UNCHANGED <<registry, walker, sending, toContinue, rlock, published, removals, crashed>>
-----------------------------------------------------------------------------
(* Broker_RemoveModule: stop_module joins the nanomsg worker (Broker), then *)
(* deinit_module frees senderThMsg and stops the receiver, all under        *)
(* modules_lock.  The gateway has removed every link of the module that it  *)
(* knows of before (gateway_removemodule_internal).                         *)
RemoveModule(c, m) ==
    /\ Idle
    /\ removals < MaxRemove /\ removals' = removals + 1
    /\ m \in attached
    /\ \A l \in Linked : m # l[1] /\ m # l[2]
    /\ sender' = [sender EXCEPT ![m] = "none"]
    /\ Begin(c, IF rpc[m] = "none" THEN "join" ELSE "stop", m, m)
    /\ UNCHANGED <<attached, receivers, dst, senders, linked, history, walker, sending, toContinue,
                   rlock, rpc, published, crashed>>

\* Mutation of StopReceiver: the condition is not posted.
StopReceiverQuietly ==
    LET m == call.sink IN
    /\ call.op = "stop"
    /\ ReceiverLockFree(m)
    /\ toContinue' = [toContinue EXCEPT ![m] = FALSE]
    /\ GoOn("join")
    /\ UNCHANGED <<registry, walker, sending, rlock, rpc, published, removals, crashed>>

\* Lock(receiver), toContinue = false, Condition_Post, Unlock
StopReceiver ==
    LET m == call.sink IN
    /\ call.op = "stop"
    /\ ReceiverLockFree(m)
    /\ toContinue' = [toContinue EXCEPT ![m] = FALSE]
    /\ rpc' = Post(m)
    /\ GoOn("join")
    /\ UNCHANGED <<registry, walker, sending, rlock, published, removals, crashed>>

\* Mutation of JoinReceiver: the thread is not joined.
JoinReceiverAtOnce ==
    LET m == call.sink IN
    /\ call.op = "join"
    /\ attached' = attached \ {m}
    /\ rpc' = [rpc EXCEPT ![m] = "none"]
    /\ End
    /\ UNCHANGED <<sender, receivers, dst, senders, linked, history, walker, sending, toContinue,
                   rlock, published, removals, crashed>>

\* ThreadAPI_Join of the receiver thread returns; everything is freed; Unlock(modules_lock).
JoinReceiver ==
    LET m == call.sink IN
    /\ call.op = "join"
    /\ rpc[m] \in {"none", "exited"}
    /\ attached' = attached \ {m}
    /\ rpc' = [rpc EXCEPT ![m] = "none"]
    /\ End
    /\ UNCHANGED <<sender, receivers, dst, senders, linked, history, walker, sending, toContinue,
                   rlock, published, removals, crashed>>
-----------------------------------------------------------------------------
(* thread_message_control_receiver_thread_worker of m                       *)
StartWalk(m) ==
    /\ rlock' = [rlock EXCEPT ![m] = m]
    /\ rpc' = [rpc EXCEPT ![m] = "walk"]
    /\ walk' = [walk EXCEPT ![m] = 1]
    /\ cur' = [cur EXCEPT ![m] = NoNode]
    /\ lostTail' = [lostTail EXCEPT ![m] = FALSE]
    /\ UNCHANGED <<registry, call, sending, toContinue, batch, published, removals, crashed>>

\* Lock, and the outer loop tests toContinue.
ReceiverLock(m) ==
    /\ rpc[m] = "lock" /\ ReceiverLockFree(m)
    /\ toContinue[m]
    /\ StartWalk(m)

ReceiverStop(m) ==
    /\ rpc[m] = "lock" /\ ReceiverLockFree(m)
    /\ ~toContinue[m]
    /\ rpc' = [rpc EXCEPT ![m] = "exited"]
    /\ UNCHANGED <<registry, walker, call, sending, toContinue, rlock, published, removals, crashed>>

\* Condition_Wait returned: the lists are walked again whatever toContinue is.
ReceiverWake(m) ==
    /\ rpc[m] = "woken" /\ ReceiverLockFree(m)
    /\ StartWalk(m)

\* Condition_Wait may return without a post.
SpuriousWakeup(m) ==
    /\ rpc[m] = "wait"
    /\ rpc' = [rpc EXCEPT ![m] = "woken"]
    /\ UNCHANGED <<registry, walker, call, sending, toContinue, rlock, published, removals, crashed>>

Walking(m)  == rpc[m] = "walk" /\ walk[m] <= Len(senders[m])
Source(m)   == senders[m][walk[m]]
\* The node after n in the list of s; NULL at its end.
NextNode(s, n) ==
    LET i == CHOOSE j \in DOMAIN receivers[s] : receivers[s][j] = n
    IN  IF i < Len(receivers[s]) THEN receivers[s][i + 1] ELSE NoNode

\* The walk comes to node n of the current source, or at NULL to the next source.
WalkTo(m, n) ==
    /\ cur' = [cur EXCEPT ![m] = n]
    /\ walk' = [walk EXCEPT ![m] = IF n = NoNode THEN @ + 1 ELSE @]

\* sender_module_info->senderThMsg->receivers; an uninitialised pointer may
\* happen to be NULL.
WalkSender(m) ==
    /\ Walking(m) /\ cur[m] = NoNode
    /\ sender[Source(m)] \in {"raw", "ready"}
    /\ WalkTo(m, IF receivers[Source(m)] = <<>> THEN NoNode ELSE Head(receivers[Source(m)]))
    /\ UNCHANGED <<registry, call, sending, toContinue, rlock, rpc, lostTail, batch, published,
                   removals, crashed>>

\* A node of another receiver is passed.
WalkNode(m) ==
    /\ Walking(m) /\ cur[m] \in NodesOf(Source(m)) /\ dst[cur[m]] # m
    /\ WalkTo(m, NextNode(Source(m), cur[m]))
    /\ UNCHANGED <<registry, call, sending, toContinue, rlock, rpc, lostTail, batch, published,
                   removals, crashed>>

\* Mutation of Splice: an empty batch is spliced to as well.
SpliceAlways(m) == TRUE

\* Behind a non-empty batch, an empty list sets pre_receive_msg to NULL; it is
\* dereferenced when one more list is spliced.
Splice(m) == batch[m] # <<>>

\* Mutation of WalkTake: the messages stay in the node.
WalkTakeCopies(m) ==
    /\ Walking(m) /\ cur[m] \in NodesOf(Source(m)) /\ dst[cur[m]] = m
    /\ ~(Splice(m) /\ lostTail[m])
    /\ batch' = [batch EXCEPT ![m] = @ \o sending[cur[m]]]
    /\ lostTail' = [lostTail EXCEPT ![m] = Splice(m) /\ sending[cur[m]] = <<>>]
    /\ WalkTo(m, NoNode)
    /\ UNCHANGED <<registry, call, sending, toContinue, rlock, rpc, published, removals, crashed>>

\* The node of this receiver: its messages are spliced to the batch.
WalkTake(m) ==
    /\ Walking(m) /\ cur[m] \in NodesOf(Source(m)) /\ dst[cur[m]] = m
    /\ ~(Splice(m) /\ lostTail[m])
    /\ batch' = [batch EXCEPT ![m] = @ \o sending[cur[m]]]
    /\ lostTail' = [lostTail EXCEPT ![m] = Splice(m) /\ sending[cur[m]] = <<>>]
    /\ sending' = [sending EXCEPT ![cur[m]] = <<>>]
    /\ WalkTo(m, NoNode)
    /\ UNCHANGED <<registry, call, toContinue, rlock, rpc, published, removals, crashed>>

\* The walk goes through a bad pointer.
Crash(m) ==
    /\ Walking(m)
    /\ \/ cur[m] = NoNode /\ sender[Source(m)] \in {"none", "raw"}
       \/ cur[m] # NoNode /\ cur[m] \notin NodesOf(Source(m))
       \/ cur[m] \in NodesOf(Source(m)) /\ dst[cur[m]] = m /\ Splice(m) /\ lostTail[m]
    /\ crashed' = TRUE
    /\ UNCHANGED <<registry, walker, call, sending, toContinue, rlock, rpc, published, removals>>

\* All sources are through: handle what was taken, wait, or end; all unlock.
WalkEnd(m) ==
    /\ rpc[m] = "walk" /\ walk[m] > Len(senders[m])
    /\ rlock' = [rlock EXCEPT ![m] = NoThread]
    /\ rpc' = [rpc EXCEPT ![m] = IF batch[m] # <<>> THEN "batch"
                                 ELSE IF toContinue[m] THEN "wait" ELSE "exited"]
    /\ UNCHANGED <<registry, walker, call, sending, toContinue, published, removals, crashed>>

\* The next message of the batch is handed to Module_Receive ...
Receive(m) ==
    /\ rpc[m] = "batch" /\ batch[m] # <<>>
    /\ batch' = [batch EXCEPT ![m] = Tail(@)]
    /\ rpc' = [rpc EXCEPT ![m] = "receive"]
    /\ UNCHANGED <<registry, call, sending, toContinue, rlock, walk, cur, lostTail, published,
                   removals, crashed>>

\* ... which may call Broker_Publish and wait for modules_lock ...
CallPublish(m) ==
    /\ rpc[m] = "receive"
    /\ m \in Republishers /\ sender[m] = "ready"
    /\ published + Announced < MaxPublish
    /\ rpc' = [rpc EXCEPT ![m] = "calling"]
    /\ UNCHANGED <<registry, walker, call, sending, toContinue, rlock, published, removals, crashed>>

\* ... and returns.
ReceiveReturn(m) ==
    /\ rpc[m] = "receive"
    /\ rpc' = [rpc EXCEPT ![m] = "batch"]
    /\ UNCHANGED <<registry, walker, call, sending, toContinue, rlock, published, removals, crashed>>

BatchDone(m) ==
    /\ rpc[m] = "batch" /\ batch[m] = <<>>
    /\ rpc' = [rpc EXCEPT ![m] = "lock"]
    /\ UNCHANGED <<registry, walker, call, sending, toContinue, rlock, published, removals, crashed>>
-----------------------------------------------------------------------------
CallerStep(c) ==
    \/ \E l \in Routes : \/ AddLink(c, l[1], l[2]) \/ AddLinkNoReceiver(c, l[1], l[2])
                         \/ RemoveLink(c, l[1], l[2])
    \/ \E m \in Modules : published + Announced < MaxPublish /\ Publish(c, m)
    \/ \E m \in Modules : PublishUnknown(c, m)
    \/ \E m \in Modules : RemoveModule(c, m)

CallStep ==
    \/ AddLinkSender \/ AddLinkMake \/ AddLinkReady \/ AddLinkReceiver
    \/ AddLinkNoSender \/ AddLinkUnmade \/ AddLinkNoNode
    \/ RemoveLinkSender \/ RemoveLinkReceiver \/ RemoveLinkMissing
    \/ PublishNode \/ PublishEnd
    \/ StopReceiver \/ JoinReceiver

Republish(m) == rpc[m] = "calling" /\ Publish(m, m)

ReceiverStep(m) ==
    \/ ReceiverLock(m) \/ ReceiverStop(m) \/ ReceiverWake(m)
    \/ WalkSender(m) \/ WalkNode(m) \/ WalkTake(m) \/ WalkEnd(m) \/ Crash(m)
    \/ Receive(m) \/ ReceiveReturn(m) \/ BatchDone(m) \/ Republish(m)

Next ==
    /\ ~crashed
    /\ \/ CallStep
       \/ \E c \in Callers : CallerStep(c)
       \/ \E m \in Modules : ReceiverStep(m) \/ SpuriousWakeup(m) \/ CallPublish(m)

Spec == Init /\ [][Next]_vars

\* Threads run, a call in progress goes on when the lock it needs is free, and
\* Module_Receive returns.  Nobody has to call the broker.  Condition_Wait does not
\* return for nothing for ever: a receiver that did could keep its lock from a call.
\* Nor do the application's threads add and remove links for ever: they could keep
\* modules_lock from a receiver.
Fairness ==
    /\ <>[][\A m \in Modules : ~SpuriousWakeup(m)]_vars
    /\ <>[][\A c \in Callers : ~CallerStep(c)]_vars
    /\ WF_vars(~crashed /\ CallStep)
    /\ \A m \in Modules : WF_vars(~crashed /\ ReceiverStep(m))

FairSpec == Spec /\ Fairness
-----------------------------------------------------------------------------
\* The broker is "thread safe" (broker.h): no receiver thread ever goes through a
\* NULL, a freed or an uninitialised pointer of the lists that calls change.
NoCrash == ~crashed

\* A crash without a known race takes a link that was made twice or in part.
NoCrashUnless == crashed => (doubled # {} \/ failed # {})

\* Between two calls the lists are what the callers take them to be: as many nodes
\* for a link as were added and not removed, and, unless a call that added it failed
\* part-way, as many entries in the sink's senders.
Entries(s, k) == {i \in DOMAIN senders[k] : senders[k][i] = s}
EndsAgree ==
    Idle => \A s, k \in attached :
        /\ Cardinality(LinkNodes(s, k)) = linked[<<s, k>>]
        /\ <<s, k>> \notin failed => Cardinality(Entries(s, k)) = linked[<<s, k>>]

\* No wake-up is lost: while a receiver waits for its condition, nothing is left for
\* it in the nodes of its senders.  A link made twice is the exception: of its two
\* nodes the walk looks at the first only.
NoLostWakeup ==
    \A k \in Modules : rpc[k] = "wait" =>
        \A s \in Range(senders[k]) : <<s, k>> \notin doubled =>
            \A n \in LinkNodes(s, k) : sending[n] = <<>>

\* The messages of every link are in the order of publication, none of them twice:
\* those its sink has taken come before those that wait in its node.  They are also
\* between the links a source and a sink have had one after the other.
InOrder ==
    \A k \in Modules :
        /\ \A i, j \in DOMAIN batch[k] : LET x == batch[k][i]  y == batch[k][j] IN
              /\ i < j
              /\ x.link = y.link \/ (x.src = y.src /\ <<x.src, k>> \notin doubled)
              => x.id < y.id
        /\ \A s \in Modules : \A n \in LinkNodes(s, k) :
              /\ \A i, j \in DOMAIN sending[n] : i < j => sending[n][i].id < sending[n][j].id
              /\ \A i \in DOMAIN batch[k], j \in DOMAIN sending[n] :
                    batch[k][i].link = n \/ (batch[k][i].src = s /\ <<s, k>> \notin doubled)
                    => batch[k][i].id < sending[n][j].id

\* Broker_RemoveModule joins no receiver thread that sleeps or may sleep again: the
\* wake-up of its stop comes after toContinue is reset.
JoinedIsAwake ==
    call.op = "join" =>
        rpc[call.sink] = "none" \/ (~toContinue[call.sink] /\ rpc[call.sink] # "wait")

\* The lists of links are consistent, and so is what hangs on them.
LinksInv == TypeOK /\ EndsAgree /\ NoLostWakeup /\ InOrder /\ JoinedIsAwake

\* Broker_RemoveModule frees a receiver only when everything its thread took has
\* been handed to Module_Receive.
NothingTakenIsDropped == \A k \in Modules : rpc[k] \in {"none", "exited"} => batch[k] = <<>>

\* Broker_RemoveModule of a module with a receiver ends.
RemovalReturns == call.op \in {"stop", "join"} ~> (Idle \/ crashed)

\* Whoever calls the broker gets its answer, modules_lock is given back, unless a
\* module is removed whose Module_Receive waits in Broker_Publish (deinit_module joins
\* its thread with modules_lock held), or a source that is gone has published.
JoinsPublisher == call.op = "join" /\ rpc[call.sink] = "calling"
LockKept == call.op = "kept"
CallsReturnUnlessKept == ~Idle ~> (Idle \/ crashed \/ JoinsPublisher \/ LockKept)

\* A message sent over a link that was made once and in full is handed to the sink,
\* unless the link is removed or the sink's thread waits for a modules_lock kept as above.
Sent(n, i) == \E j \in DOMAIN sending[n] : sending[n][j].id = i
Handling(k, s, i) == \E j \in DOMAIN batch[k] : batch[k][j].src = s /\ batch[k][j].id = i
Underway(s, k, i) == Handling(k, s, i) \/ \E n \in LinkNodes(s, k) : Sent(n, i)
Stuck(k) == rpc[k] = "calling" /\ (JoinsPublisher \/ LockKept)
EventuallyHandled ==
    \A l \in Range(InitLinks) \cup Routes, i \in 1..MaxPublish :
        Underway(l[1], l[2], i) ~> \/ ~Underway(l[1], l[2], i) \/ l \in doubled \cup failed
                                   \/ crashed \/ Stuck(l[2])
-----------------------------------------------------------------------------
\* Refinement: every link, one made twice included, is a queue of what its sink has
\* taken and not handled yet and of what waits in its node.
Taken(n) == {x.id : x \in {y \in UNION {Range(batch[m]) : m \in Modules} : y.link = n}}
LinkQueue(n) == Taken(n) \cup {sending[n][i].id : i \in DOMAIN sending[n]}
OpenLinks == UNION {{<<n, s, dst[n]>> : n \in NodesOf(s)} : s \in Modules}

\* The links the message being published has not been put on yet.
DueLinks ==
    IF call.op = "publish"
    THEN {receivers[call.src][i] : i \in call.at..Len(receivers[call.src])}
    ELSE {}

Queues == INSTANCE LinkQueues WITH
    Links  <- Nodes,
    open   <- OpenLinks,
    queue  <- [n \in Nodes |-> LinkQueue(n)],
    number <- published,
    due    <- DueLinks

QueueSpec == Queues!QueueSpec
=============================================================================
