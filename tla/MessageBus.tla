----------------------------- MODULE MessageBus -----------------------------
(***************************************************************************)
(* What the message broker promises to the modules of a gateway, without   *)
(* its locks, sockets and threads: each attached module has one queue, a   *)
(* published message reaches the queues of attached modules (or is lost on *)
(* the way to some of them), and a module receives, one at a time and in   *)
(* the order of publication, the messages of the modules it is linked to.  *)
(* A module that is being removed receives nothing more, and it is         *)
(* detached only when its Module_Receive is not running.                   *)
(* Broker.tla implements this specification (Broker!BusSpec).              *)
(***************************************************************************)
EXTENDS Naturals

CONSTANTS Modules      \* the MODULE_HANDLEs

VARIABLES
    attached,          \* modules the broker knows
    closing,           \* attached modules whose removal cut their queue off
    links,             \* links[m]: the sources m receives from
    queue,             \* queue[m]: the messages on their way to m, numbered by publication
    receiving,         \* modules whose Module_Receive is running
    last,              \* last[m]: number of the last message m received
    published          \* number of the last message published

busVars == <<attached, closing, links, queue, receiving, last, published>>

BusInit ==
    /\ attached = {} /\ closing = {} /\ receiving = {}
    /\ links = [m \in Modules |-> {}]
    /\ queue = [m \in Modules |-> {}]
    /\ last = [m \in Modules |-> 0]
    /\ published = 0

BusAttach(m) ==
    /\ m \notin attached
    /\ attached' = attached \cup {m}
    /\ links' = [links EXCEPT ![m] = {}]
    /\ UNCHANGED <<closing, queue, receiving, last, published>>

BusLink(s, m) ==
    /\ {s, m} \subseteq attached
    /\ links' = [links EXCEPT ![m] = @ \cup {s}]
    /\ UNCHANGED <<attached, closing, queue, receiving, last, published>>

\* Broadcast; the pub/sub transport may lose the message for the sinks "lost".
BusPublish(s, lost) ==
    /\ s \in attached
    /\ published' = published + 1
    /\ queue' = [m \in Modules |->
                    IF m \in attached \ (closing \cup lost)
                    THEN queue[m] \cup {[src |-> s, id |-> published + 1]}
                    ELSE queue[m]]
    /\ UNCHANGED <<attached, closing, links, receiving, last>>

\* msg is the next message of m: every other one was published after it.
IsNext(m, msg) == \A other \in queue[m] : msg.id <= other.id

BusDeliver(m) ==
    /\ m \in attached \ (closing \cup receiving)
    /\ \E msg \in queue[m] :
        /\ IsNext(m, msg) /\ msg.src \in links[m]
        /\ queue' = [queue EXCEPT ![m] = @ \ {msg}]
        /\ last' = [last EXCEPT ![m] = msg.id]
    /\ receiving' = receiving \cup {m}
    /\ UNCHANGED <<attached, closing, links, published>>

\* A message from an unlinked module, or one that cannot be decoded, leaves the
\* queue without being received.
BusSkip(m) ==
    /\ \E msg \in queue[m] : IsNext(m, msg) /\ queue' = [queue EXCEPT ![m] = @ \ {msg}]
    /\ UNCHANGED <<attached, closing, links, receiving, last, published>>

BusReturn(m) ==
    /\ m \in receiving
    /\ receiving' = receiving \ {m}
    /\ UNCHANGED <<attached, closing, links, queue, last, published>>

\* The removal of a module deletes its queued messages and its links.
BusClose(m) ==
    /\ m \in attached \ closing
    /\ closing' = closing \cup {m}
    /\ queue' = [queue EXCEPT ![m] = {}]
    /\ links' = [links EXCEPT ![m] = {}]
    /\ UNCHANGED <<attached, receiving, last, published>>

BusDetach(m) ==
    /\ m \in closing \ receiving
    /\ attached' = attached \ {m}
    /\ closing' = closing \ {m}
    /\ UNCHANGED <<links, queue, receiving, last, published>>

BusNext ==
    \E m \in Modules :
        \/ BusAttach(m) \/ BusDeliver(m) \/ BusSkip(m) \/ BusReturn(m)
        \/ BusClose(m) \/ BusDetach(m)
        \/ \E s \in Modules : BusLink(s, m)
        \/ \E lost \in SUBSET Modules : BusPublish(m, lost)

BusSpec == BusInit /\ [][BusNext]_busVars
=============================================================================
