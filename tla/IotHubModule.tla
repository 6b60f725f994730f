---------------------------- MODULE IotHubModule ----------------------------
(***************************************************************************)
(* The IoT Hub module (modules/iothub/src/iothub.c): a client of the hub    *)
(* for each device, made when the first message of the device arrives.      *)
(*                                                                         *)
(* Three kinds of threads share its personalities without a lock: the       *)
(* broker's worker, which runs IotHub_Receive; the threads of the hub's     *)
(* client library, which run the callbacks; and the gateway's, which        *)
(* detaches the module from the broker and runs IotHub_Destroy.             *)
(*                                                                         *)
(* External, as iothub.c uses it: the client library.  A shared transport   *)
(* (HTTP, AMQP) runs the callbacks of its clients one at a time; a client   *)
(* of its own (MQTT) runs its own one at a time; IoTHubClient_Destroy       *)
(* waits for the callback that runs and allows no other.                   *)
(***************************************************************************)
EXTENDS IdentityMap

CONSTANTS
    Transports,     \* those the configuration may name
    MaxPersonalities, \* bound: devices that get a client
    MaxBegun        \* bound: callbacks of the client library, and readings, together

Kinds == {"message", "twin"}   \* the callbacks of the twin and of methods differ in one property only
Junk == "junk"      \* what freed memory may read as: nothing that was configured

ASSUME HubAssumption == MaxPersonalities \in Nat /\ MaxBegun \in Nat

VARIABLES
    transport,   \* transportProvider
    per,         \* PERSONALITYs by position; the one after size is being made
    size,        \* of the vector of personalities
    receiving,   \* the worker in IotHub_Receive: [pc, msg, who]
    callback,    \* for each personality, the callback under way: [kind, pc, device, key]
    begun,       \* callbacks and readings so far
    main,        \* the gateway's thread: [pc, at]
    lock,        \* the broker's modules_lock: "free", or "kept" by a publish that failed
    toHub,       \* messages on their way to this module
    toMapping,   \* messages on their way to the identity map, its callbacks' among them
    refused,     \* devices whose personality could not be made
    crashed      \* "no", or the memory that was used: "unset" or "freed"

hubVars == <<transport, per, size, receiving, callback, begun, main, lock, toHub, toMapping,
              refused, crashed>>

Ids == 1..MaxPersonalities
Idle == [pc |-> "idle", msg |-> Nothing, who |-> 0]

\* IotHub_Create: the configuration's transport, no personality.
HubInit ==
    /\ transport \in Transports
    /\ per = [i \in Ids |-> Nothing] /\ size = 0
    /\ receiving = Idle
    /\ callback = [i \in Ids |-> Nothing] /\ begun = 0
    /\ main = [pc |-> "attached", at |-> 0]
    /\ lock = "free"
    /\ toHub = <<>> /\ toMapping = <<>>
    /\ refused = {} /\ crashed = "no"

-----------------------------------------------------------------------------
(* IotHub_Receive, on the broker's worker. *)

\* Mutation of FindPersonality: it compares the strings' addresses, which never agree.
FindNone(device) == 0

\* lookup_DeviceName: the personality of a device, 0 if it has none.
FindPersonality(device) ==
    LET found == {i \in 1..size : per[i].device = device}
    IN IF found = {} THEN 0 ELSE CHOOSE i \in found : \A j \in found : i <= j

IsForTheHub(msg) == msg.source = "mapping" /\ Nothing \notin {msg.device, msg.key}

\* A message arrives; without a personality for its device, one is made.
Receive ==
    /\ main.pc = "attached" /\ receiving = Idle /\ toHub # <<>>
    /\ toHub' = Tail(toHub)
    /\ LET msg == Head(toHub)
           who == FindPersonality(msg.device)
       IN receiving' = IF ~IsForTheHub(msg) THEN Idle
                       ELSE IF who = 0 THEN [pc |-> "create", msg |-> msg, who |-> size + 1]
                       ELSE [pc |-> "deliver", msg |-> msg, who |-> who]
    /\ UNCHANGED <<transport, per, size, callback, begun, main, lock, toMapping, refused, crashed>>

Making(pc) == receiving.pc = pc
NextPc(pc) == receiving' = [receiving EXCEPT !.pc = pc]
UnchangedByMaking == UNCHANGED <<transport, callback, begun, main, lock, toHub, toMapping,
                                 crashed>>

Refuse == refused' = refused \cup {receiving.msg.device} /\ receiving' = Idle

\* The strings and the client, or NULL.
PersonalityCreate ==
    /\ Making("create") /\ receiving.who \in Ids
    /\ \/ /\ per' = [per EXCEPT ![receiving.who] =
                       [device |-> receiving.msg.device, key |-> receiving.msg.key,
                        strings |-> "live", callbacks |-> {}, context |-> FALSE]]
          /\ NextPc("message") /\ UNCHANGED refused
       \/ Refuse /\ UNCHANGED per
    /\ UNCHANGED size /\ UnchangedByMaking

\* IoTHubClient_SetMessageCallback: messages may come from here on.  A failure gives the
\* personality up; nothing runs on its client yet.
SetMessageCallback ==
    /\ Making("message")
    /\ \/ /\ per' = [per EXCEPT ![receiving.who].callbacks = {"message"}]
          /\ NextPc(IF transport = "MQTT" THEN "twin" ELSE "push") /\ UNCHANGED refused
       \/ per' = [per EXCEPT ![receiving.who] = Nothing] /\ Refuse
    /\ UNCHANGED size /\ UnchangedByMaking

\* Mutation of SetTwinCallbacks: a failure skips what comes next, too.
SetTwinCallbacksOrSkip ==
    /\ Making("twin")
    /\ \/ per' = [per EXCEPT ![receiving.who].callbacks = Kinds] /\ NextPc("context")
       \/ NextPc("push") /\ UNCHANGED per
    /\ UNCHANGED <<size, refused>> /\ UnchangedByMaking

\* Only for MQTT: the twin's callback, then the methods'; a failure is logged and passed over.
SetTwinCallbacks ==
    /\ Making("twin")
    /\ \/ per' = [per EXCEPT ![receiving.who].callbacks = Kinds]
       \/ UNCHANGED per
    /\ NextPc("context")
    /\ UNCHANGED <<size, refused>> /\ UnchangedByMaking

\* broker and module are set last, and only for MQTT.
SetContext ==
    /\ Making("context")
    /\ per' = [per EXCEPT ![receiving.who].context = TRUE]
    /\ NextPc("push")
    /\ UNCHANGED <<size, refused>> /\ UnchangedByMaking

\* VECTOR_push_back; if it fails PERSONALITY_destroy deletes the strings first.
PushBack ==
    /\ Making("push")
    /\ \/ size' = size + 1 /\ NextPc("deliver") /\ UNCHANGED per
       \/ /\ per' = [per EXCEPT ![receiving.who].strings = "deleted"]
          /\ NextPc("undo") /\ UNCHANGED size
    /\ UNCHANGED refused /\ UnchangedByMaking

PersonalityDestroy ==
    /\ Making("undo") /\ callback[receiving.who] = Nothing
    /\ per' = [per EXCEPT ![receiving.who] = Nothing]
    /\ Refuse
    /\ UNCHANGED size /\ UnchangedByMaking

\* A registration ends here.  Any other message is sent, without the device's name and key,
\* through the personality's client, unless the client library refuses it: in either case
\* nothing of the module changes.
Deliver ==
    /\ Making("deliver") /\ receiving' = Idle
    /\ UNCHANGED <<per, size, refused>> /\ UnchangedByMaking

-----------------------------------------------------------------------------
(* The callbacks, on the client library's threads. *)

UnchangedByCallback == UNCHANGED <<transport, per, size, receiving, main, toHub, refused>>

CallbackBegin(id, kind) ==
    /\ per[id] # Nothing /\ kind \in per[id].callbacks
    /\ begun < MaxBegun /\ begun' = begun + 1
    /\ callback[id] = Nothing
    /\ transport # "MQTT" => \A i \in Ids : callback[i] = Nothing
    /\ callback' = [callback EXCEPT ![id] =
                       [kind |-> kind, pc |-> "properties", device |-> Nothing, key |-> Nothing]]
    /\ UnchangedByCallback /\ UNCHANGED <<lock, toMapping, crashed>>

\* The message's properties take the device's name (a twin's or a method's its key too)
\* from the personality, or the callback gives up (unknown content, a property that is
\* there already, no memory).
CallbackProperties(id) ==
    /\ callback[id] # Nothing /\ callback[id].pc = "properties"
    /\ \/ /\ \E device \in {per[id].device} \cup IF per[id].strings = "live" THEN {} ELSE {Junk} :
                callback' = [callback EXCEPT ![id] =
                   [@ EXCEPT !.pc = "publish", !.device = device,
                             !.key = IF callback[id].kind = "message" THEN Nothing ELSE per[id].key]]
          /\ UNCHANGED crashed
       \/ per[id].strings = "deleted" /\ crashed' = "freed" /\ UNCHANGED callback
       \/ callback' = [callback EXCEPT ![id] = Nothing] /\ UNCHANGED crashed
    /\ UnchangedByCallback /\ UNCHANGED <<begun, lock, toMapping>>

\* Mutation of BrokerPublish: the callback tries again until its module is known.
BrokerPublishAgain(msg) ==
    /\ lock = "free" /\ main.pc = "attached"
    /\ toMapping' = Append(toMapping, msg) /\ UNCHANGED lock

\* Broker_Publish of a module that is attached, or no longer: that returns with
\* modules_lock kept.  Every publish needs the lock.
BrokerPublish(msg) ==
    /\ lock = "free"
    /\ IF main.pc = "attached" THEN toMapping' = Append(toMapping, msg) /\ UNCHANGED lock
       ELSE lock' = "kept" /\ UNCHANGED toMapping

\* With a personality whose broker is not set, the value of uninitialised memory decides:
\* NULL is refused, what a personality given up has left works, anything else crashes.
CallbackPublish(id) ==
    LET c == callback[id]
        msg == Message("iothub", Nothing, c.device, c.key, <<c.kind, per[id].device>>)
    IN /\ c # Nothing /\ c.pc = "publish"
       /\ \/ /\ per[id].context \/ (transport = "MQTT" /\ refused # {})
             /\ BrokerPublish(msg) /\ UNCHANGED crashed
          \/ ~per[id].context /\ UNCHANGED <<lock, toMapping, crashed>>
          \/ ~per[id].context /\ crashed' = "unset" /\ UNCHANGED <<lock, toMapping>>
       /\ callback' = [callback EXCEPT ![id] = Nothing]
       /\ UnchangedByCallback /\ UNCHANGED begun

-----------------------------------------------------------------------------
(* The gateway's thread. *)

UnchangedByMain == UNCHANGED <<transport, size, receiving, callback, begun, lock, toMapping,
                                refused, crashed>>

\* Broker_RemoveModule: it waits for the worker, and closes the socket with what is queued.
Detach ==
    /\ main.pc = "attached" /\ receiving = Idle /\ lock = "free"
    /\ main' = [pc |-> "strings", at |-> 1]
    /\ toHub' = <<>>
    /\ UNCHANGED per /\ UnchangedByMain

\* IotHub_Destroy: for each personality its strings, then its client.
DeleteStrings ==
    /\ main.pc = "strings" /\ main.at <= size
    /\ per' = [per EXCEPT ![main.at].strings = "deleted"]
    /\ main' = [main EXCEPT !.pc = "client"]
    /\ UNCHANGED toHub /\ UnchangedByMain

ClientDestroy ==
    /\ main.pc = "client" /\ callback[main.at] = Nothing
    /\ per' = [per EXCEPT ![main.at] = Nothing]
    /\ main' = [pc |-> "strings", at |-> main.at + 1]
    /\ UNCHANGED toHub /\ UnchangedByMain

DestroyReturn ==
    /\ main.pc = "strings" /\ main.at > size
    /\ main' = [main EXCEPT !.pc = "gone"]
    /\ UNCHANGED <<per, toHub>> /\ UnchangedByMain
=============================================================================
