----------------------------- MODULE LinkQueues -----------------------------
(***************************************************************************)
(* What the thread transport of the broker promises: every link is a FIFO  *)
(* queue.  A message published by a source is put at the end of the queue  *)
(* of each of its open links, once; the sink takes messages from the head, *)
(* one by one.  Links are not opened or closed in the middle of it.        *)
(* Closing a link discards a tail of its queue: what the sink took charge  *)
(* of before is still handled.  A source and a sink may have two links:    *)
(* two queues.                                                             *)
(* ThreadLinks.tla implements this specification (ThreadLinks!QueueSpec).  *)
(***************************************************************************)
EXTENDS Naturals

CONSTANTS Links, Modules

VARIABLES
    open,      \* links messages can be put on, each with its source and its sink
    queue,     \* queue[l]: numbers of the messages put on l and not handled yet
    number,    \* number of the last message published
    due        \* the links it has not been put on yet

queueVars == <<open, queue, number, due>>

IsOpen(l)  == \E o \in open : o[1] = l
LinksOf(s) == {l \in Links : \E o \in open : o[1] = l /\ o[2] = s}

QueueInit ==
    /\ open \subseteq Links \X Modules \X Modules
    /\ \A o, p \in open : o[1] = p[1] => o = p
    /\ queue = [l \in Links |-> {}]
    /\ number = 0 /\ due = {}

\* A link whose last message was handled, or a new one.
OpenLink(l, s, k) ==
    /\ due = {}
    /\ ~IsOpen(l) /\ queue[l] = {}
    /\ open' = open \cup {<<l, s, k>>}
    /\ UNCHANGED <<queue, number, due>>

\* A new message of source s.
Announce(s) ==
    /\ number' = number + 1
    /\ due = {}
    /\ due' = LinksOf(s)
    /\ UNCHANGED <<open, queue>>

Put(l) ==
    /\ l \in due
    /\ due' = due \ {l}
    /\ queue' = [queue EXCEPT ![l] = @ \cup {number}]
    /\ UNCHANGED <<open, number>>

\* The message published first is handled.
Handle(l) ==
    /\ \E n \in queue[l] :
         /\ \A other \in queue[l] : n <= other
         /\ queue' = [queue EXCEPT ![l] = @ \ {n}]
    /\ UNCHANGED <<open, number, due>>

CloseLink(l) ==
    /\ IsOpen(l)
    /\ due = {}
    /\ open' = {o \in open : o[1] # l}
    /\ \E last \in 0..number : queue' = [queue EXCEPT ![l] = {n \in @ : n <= last}]
    /\ UNCHANGED <<number, due>>

QueueNext ==
    \/ \E l \in Links : Put(l) \/ Handle(l) \/ CloseLink(l)
    \/ \E l \in Links, s, k \in Modules : OpenLink(l, s, k)
    \/ \E s \in Modules : Announce(s)

QueueSpec == QueueInit /\ [][QueueNext]_queueVars
=============================================================================
