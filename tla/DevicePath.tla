----------------------------- MODULE DevicePath -----------------------------
(***************************************************************************)
(* The path of the samples' gateways between devices and the hub: the       *)
(* identity map (IdentityMap) and the IoT Hub module (IotHubModule), linked *)
(* both ways, the identity map linked both ways with the devices' modules   *)
(* as well.  The hub's module thus receives everything the identity map     *)
(* publishes, what is meant for the devices included.                      *)
(***************************************************************************)
EXTENDS IotHubModule

CONSTANTS
    Configurations,  \* of the identity map: sequences of [mac, device, key]
    TelemetryMacs    \* MAC addresses that messages of the devices' modules carry

ASSUME PathAssumption ==
    \A records \in Configurations :
        /\ records \in Seq(Range(records))
        /\ \A r \in Range(records) :
              r = [mac |-> r.mac, device |-> r.device, key |-> r.key] /\ r.device # Junk
        /\ Nothing \notin [device : {r.device : r \in Range(records)}, key : {r.key : r \in Range(records)},
                           strings : {"live", "deleted"}, callbacks : SUBSET Kinds, context : BOOLEAN]

VARIABLES
    table,      \* the identity map's macToDevIdArray
    startAt     \* IdentityMap_Start: the next mapping to register

vars == <<hubVars, table, startAt>>

\* A configuration IdentityMap_Create refuses leaves no gateway.
Init ==
    /\ \E records \in Configurations : table \in Create(records)
    /\ startAt = 1
    /\ HubInit

UnchangedByMap == UNCHANGED <<transport, per, size, receiving, callback, main, lock, refused,
                              crashed, table>>

\* What reaches the hub's module while it is attached.
PublishToHub(msg) ==
    /\ lock = "free"
    /\ toHub' = IF main.pc = "attached" THEN Append(toHub, msg) ELSE toHub

\* Mutation of Register: the loop ends one mapping early.
RegisterButLast ==
    /\ startAt \in DOMAIN table \ {Len(table)}
    /\ PublishToHub(Registrations(table)[startAt])
    /\ startAt' = startAt + 1
    /\ UnchangedByMap /\ UNCHANGED <<begun, toMapping>>

\* Gateway_Start calls IdentityMap_Start, which publishes the registrations one by one.
Register ==
    /\ startAt \in DOMAIN table
    /\ PublishToHub(Registrations(table)[startAt])
    /\ startAt' = startAt + 1
    /\ UnchangedByMap /\ UNCHANGED <<begun, toMapping>>

\* A module of a device publishes a reading.
Telemetry(mac) ==
    /\ begun < MaxBegun /\ begun' = begun + 1
    /\ lock = "free"
    /\ toMapping' = Append(toMapping, Message("ble", mac, Nothing, Nothing, <<"telemetry", mac>>))
    /\ UnchangedByMap /\ UNCHANGED <<toHub, startAt>>

\* The broker's worker of the identity map calls IdentityMap_Receive.
MapReceive ==
    /\ toMapping # <<>> /\ toMapping' = Tail(toMapping)
    /\ LET out == Republished(table, Head(toMapping))
       IN IF out = {} THEN UNCHANGED toHub ELSE \E msg \in out : PublishToHub(msg)
    /\ UnchangedByMap /\ UNCHANGED <<begun, startAt>>

-----------------------------------------------------------------------------

WorkerStep ==
    \/ Receive \/ PersonalityCreate \/ SetMessageCallback \/ SetTwinCallbacks
    \/ SetContext \/ PushBack \/ PersonalityDestroy \/ Deliver
CallbackStep(id) == CallbackProperties(id) \/ CallbackPublish(id)
DestroyStep == DeleteStrings \/ ClientDestroy \/ DestroyReturn

Running(A) == crashed = "no" /\ A
HubStep(A) == Running(A) /\ UNCHANGED <<table, startAt>>

Next ==
    \/ HubStep(WorkerStep)
    \/ \E id \in Ids, kind \in Kinds : HubStep(CallbackBegin(id, kind))
    \/ \E id \in Ids : HubStep(CallbackStep(id))
    \/ HubStep(Detach)
    \/ HubStep(DestroyStep)
    \/ Running(Register)
    \/ \E mac \in TelemetryMacs : Running(Telemetry(mac))
    \/ Running(MapReceive)

\* Threads go on: the workers, a callback that has begun, Gateway_Start, IotHub_Destroy.
\* Nothing makes a device speak, the hub call back or the application remove the module.
Fairness ==
    /\ WF_vars(HubStep(WorkerStep))
    /\ \A id \in Ids : WF_vars(HubStep(CallbackStep(id)))
    /\ WF_vars(HubStep(DestroyStep))
    /\ WF_vars(Running(Register)) /\ WF_vars(Running(MapReceive))

Spec == Init /\ [][Next]_vars /\ Fairness

-----------------------------------------------------------------------------

TypeOK ==
    /\ transport \in Transports
    /\ \A i \in Ids : per[i] # Nothing =>
          /\ per[i].strings \in {"live", "deleted"} /\ per[i].callbacks \subseteq Kinds
          /\ per[i].context \in BOOLEAN
    /\ size \in 0..MaxPersonalities
    /\ receiving.pc \in {"idle", "create", "message", "twin", "context", "push", "undo", "deliver"}
    /\ \A i \in Ids : callback[i] # Nothing => callback[i].pc \in {"properties", "publish"}
    /\ main.pc \in {"attached", "strings", "client", "gone"} /\ main.at \in 0..(MaxPersonalities + 1)
    /\ lock \in {"free", "kept"} /\ crashed \in {"no", "unset", "freed"}
    /\ startAt \in 1..(Len(table) + 1)

\* Interleaved registrations and readings never make two clients for one device (the hub
\* would end one connection for the other), and every client holds a key configured for
\* its device, also when the configuration names a device twice.
OneClientPerDevice ==
    LET live == {i \in Ids : per[i] # Nothing}
    IN /\ \A i, j \in live : per[i].device = per[j].device => i = j
       /\ \A i \in live : \E t \in Range(table) : t.device = per[i].device /\ t.key = per[i].key

PathInv == TypeOK /\ OneClientPerDevice

\* End to end, over the loop of links: the hub gets readings only, each by a client of a
\* device its MAC address is mapped to, in whatever case it was written; what reaches the
\* devices' modules is what the hub sent to the device at that address, without the
\* device's name and key, and nothing the hub sent comes back to it as an event.
RoutesAgree ==
    LET msg == receiving.msg
    IN /\ (receiving.pc = "deliver" /\ ~msg.registration) =>
             /\ msg.content[1] = "telemetry"
             /\ \E t \in Range(table) : /\ t.mac = ToUpperCase(msg.content[2])
                                       /\ t.device = per[receiving.who].device
       /\ \A m \in Range(toHub) : m.mac # Nothing =>
             /\ m.content[1] \in Kinds /\ {m.device, m.key} = {Nothing}
             /\ \E t \in Range(table) : t.mac = m.mac /\ t.device = m.content[2]

\* A callback uses a broker that is not set only for a transport other than MQTT, or while
\* the personality is being made; it uses freed strings only while IotHub_Destroy, or a
\* failed VECTOR_push_back, waits for it.
OnlyKnownWindows ==
    /\ (crashed = "unset" /\ transport = "MQTT") =>
          receiving.pc \in {"twin", "context"}
    /\ crashed = "freed" => main.pc = "client" \/ receiving.pc = "undo"

\* Once the gateway has been started every configured device gets its client, unless the
\* client library or memory refuses it one, the module is removed, or the process dies.
EventuallyRegistered ==
    \A d \in {t.device : t \in UNION {Range(r) : r \in Configurations}} :
       (\E t \in Range(table) : t.device = d)
          ~> \/ \E i \in 1..size : per[i] # Nothing /\ per[i].device = d
             \/ d \in refused \/ main.pc # "attached" \/ crashed # "no"

\* IotHub_Destroy returns, unless a callback published for the module after it had been
\* detached: then modules_lock stays kept, and the next callback that publishes never
\* ends, nor does IoTHubClient_Destroy, which waits for it.
DestroyReturns ==
    main.pc # "attached" ~> main.pc = "gone" \/ lock = "kept" \/ crashed # "no"

\* What SRS_IOTHUBMODULE_17_018 says (iothub.c:423): the callback publishes with this
\* module's handle and the broker.
PublishesWithBroker ==
    [][\A id \in Ids :
         (callback[id] # Nothing /\ callback[id].pc = "publish" /\ callback'[id] = Nothing)
            => per[id].context]_vars
=============================================================================
