-------------------------- MODULE DevicePath_proofs --------------------------
(***************************************************************************)
(* TLAPS proofs about DevicePath: each device has one client at most,      *)
(* messages reach the device and the hub they are meant for over the loop  *)
(* of links, and the callbacks use memory that is unset or freed in the    *)
(* known windows only.                                                     *)
(***************************************************************************)
EXTENDS DevicePath, NumberLemmas, FiniteSetTheorems, TLAPS

(* The messages of the path. *)
Entries == Range(table)
Macs    == {t.mac : t \in Entries}
Devices == {t.device : t \in Entries}
Keys    == {t.key : t \in Entries}
Contents == {<<"registration">>} \cup ({"telemetry"} \X TelemetryMacs) \cup (Kinds \X Devices)

Msg == [source : {"ble", "iothub", "mapping"}, mac : Macs \cup TelemetryMacs \cup {Nothing},
        device : Devices \cup {Nothing, Junk}, key : Keys \cup {Nothing},
        registration : BOOLEAN, content : Contents]

\* What the identity map publishes: the registration of a device, ...
IsRegistration(m) ==
    /\ m.registration /\ m.mac = Nothing
    /\ \E t \in Entries : t.device = m.device /\ t.key = m.key
\* ... a reading, for the device its address is mapped to, ...
IsReading(m) ==
    /\ ~m.registration /\ m.mac = Nothing /\ m.content[1] = "telemetry"
    /\ \E t \in Entries : t.mac = ToUpperCase(m.content[2]) /\ t.device = m.device /\ t.key = m.key
\* ... and what the hub sent, to the address of the device it was sent to.
IsCommand(m) ==
    /\ ~m.registration /\ m.device = Nothing /\ m.key = Nothing /\ m.content[1] \in Kinds
    /\ \E t \in Entries : t.mac = m.mac /\ t.device = m.content[2]
HubMsg == {m \in Msg : m.source = "mapping" /\ (IsRegistration(m) \/ IsReading(m) \/ IsCommand(m))}

\* What the identity map receives: from a device, or from the hub's module.
FromDevice(m) == m.source = "ble" /\ m.mac \in TelemetryMacs /\ m.content = <<"telemetry", m.mac>>
FromHub(m) == m.source = "iothub" /\ m.content[1] \in Kinds /\ m.device \in {m.content[2], Junk}
MapMsg == {m \in Msg : ~m.registration /\ (FromDevice(m) \/ FromHub(m))}

(* The inductive invariant: typing, ... *)
Personality == {q \in [device : Devices, key : Keys, strings : {"live", "deleted"},
                        callbacks : SUBSET Kinds, context : BOOLEAN] :
                   \E t \in Entries : t.device = q.device /\ t.key = q.key}
Callback == [kind : Kinds, pc : {"properties", "publish"},
             device : Devices \cup {Nothing, Junk}, key : Keys \cup {Nothing}]
Made == {"message", "twin", "context", "push", "undo"}
Receiving == [pc : Made \cup {"create", "deliver"}, msg : {m \in HubMsg : IsForTheHub(m)},
              who : 1..(MaxPersonalities + 1)]

TableInv ==
    /\ table \in Seq(Entries) /\ startAt \in 1..(Len(table) + 1)
    /\ Junk \notin Devices /\ Nothing \notin Personality
HubTypes ==
    /\ transport \in Transports
    /\ per \in [Ids -> Personality \cup {Nothing}] /\ size \in 0..MaxPersonalities
    /\ receiving \in Receiving \cup {Idle}
    /\ callback \in [Ids -> Callback \cup {Nothing}]
    /\ main \in [pc : {"attached", "strings", "client", "gone"}, at : 0..(MaxPersonalities + 1)]
    /\ lock \in {"free", "kept"} /\ crashed \in {"no", "unset", "freed"}
QueueTypes == toHub \in Seq(HubMsg) /\ toMapping \in Seq(MapMsg)

\* ... the personality that is being made, which no other of its device precedes,
UnderWay(i) == receiving.pc \in Made /\ i = receiving.who
MakingInv ==
    /\ receiving.pc # "idle" => main.pc = "attached"
    /\ receiving.pc \in Made \cup {"create"} =>
          receiving.who = size + 1 /\ \A i \in 1..size : per[i].device # receiving.msg.device
    /\ receiving.pc \in Made \cup {"deliver"} =>
          /\ receiving.who \in Ids /\ per[receiving.who] \in Personality
          /\ per[receiving.who].device = receiving.msg.device
    /\ receiving.pc = "message" => per[receiving.who].callbacks = {}
    /\ receiving.pc = "deliver" => receiving.who <= size

\* ... the vector of personalities, which IotHub_Destroy empties from the front,
VectorInv ==
    /\ \A i \in 1..size : main.pc # "gone" /\ main.at <= i => per[i] \in Personality
    /\ \A i \in Ids : i > size /\ ~UnderWay(i) => per[i] = Nothing /\ callback[i] = Nothing
    /\ \A i, j \in Ids :
          per[i] # Nothing /\ per[j] # Nothing /\ per[i].device = per[j].device => i = j
    /\ main.pc = "attached" => main.at = 0
    /\ main.pc \in {"strings", "client"} => main.at >= 1
    /\ main.pc = "client" => main.at <= size
    /\ main.pc = "strings" => main.at <= size + 1

\* ... a callback runs for a personality that is there, of a client that knows it,
CallbackInv ==
    \A i \in Ids : callback[i] # Nothing =>
        /\ per[i] \in Personality /\ callback[i].kind \in per[i].callbacks
        /\ callback[i].pc = "publish" => callback[i].device \in {per[i].device, Junk}

\* ... and the windows: the broker is set before a personality of MQTT is complete, the
\* strings are deleted while the client is being destroyed.
WindowInv ==
    /\ \A i \in Ids : transport = "MQTT" /\ per[i] # Nothing =>
          per[i].context \/ (i = receiving.who /\ receiving.pc \in {"message", "twin", "context"})
    /\ \A i \in Ids : per[i] # Nothing /\ per[i].strings = "deleted" =>
          (main.pc = "client" /\ i = main.at) \/ (receiving.pc = "undo" /\ i = receiving.who)

IInv == /\ TableInv /\ HubTypes /\ QueueTypes /\ MakingInv /\ VectorInv /\ CallbackInv
        /\ WindowInv /\ OnlyKnownWindows
-----------------------------------------------------------------------------
(* Lemmas. *)

\* The tables never change, so the sets of messages do not either.
LEMMA SameTable ==
  ASSUME UNCHANGED table
  PROVE  /\ UNCHANGED <<Entries, Devices, Keys, Contents>>
         /\ UNCHANGED <<Personality, Callback>>
         /\ UNCHANGED <<HubMsg, MapMsg>>
         /\ UNCHANGED Receiving
  <1>1. UNCHANGED <<Entries, Devices, Keys, Macs, Contents>>
    BY DEF Entries, Devices, Keys, Macs, Contents
  <1>2. UNCHANGED <<Personality, Callback, Msg>>
    BY <1>1 DEF Personality, Callback, Msg
  <1>3. UNCHANGED <<HubMsg, MapMsg>>
    BY <1>1, <1>2 DEF HubMsg, MapMsg, IsRegistration, IsReading, IsCommand, FromDevice, FromHub
  <1>4. UNCHANGED Receiving
    BY <1>3 DEF Receiving
  <1> QED
    BY <1>1, <1>2, <1>3, <1>4

\* The fields of a personality are set one by one.
LEMMA PersonalityFields ==
  ASSUME NEW q \in Personality
  PROVE  /\ [q EXCEPT !.callbacks = {"message"}] \in Personality
         /\ [q EXCEPT !.callbacks = {"message"}].device = q.device
         /\ [q EXCEPT !.callbacks = {"message"}].callbacks = {"message"}
         /\ [q EXCEPT !.callbacks = {"message"}].strings = q.strings
         /\ [q EXCEPT !.callbacks = {"message"}].context = q.context
         /\ [q EXCEPT !.callbacks = Kinds] \in Personality
         /\ [q EXCEPT !.callbacks = Kinds].device = q.device
         /\ [q EXCEPT !.callbacks = Kinds].callbacks = Kinds
         /\ [q EXCEPT !.callbacks = Kinds].strings = q.strings
         /\ [q EXCEPT !.context = TRUE] \in Personality
         /\ [q EXCEPT !.context = TRUE].device = q.device
         /\ [q EXCEPT !.context = TRUE].callbacks = q.callbacks
         /\ [q EXCEPT !.context = TRUE].strings = q.strings
         /\ [q EXCEPT !.context = TRUE].context = TRUE
         /\ [q EXCEPT !.strings = "deleted"] \in Personality
         /\ [q EXCEPT !.strings = "deleted"].device = q.device
         /\ [q EXCEPT !.strings = "deleted"].callbacks = q.callbacks
         /\ [q EXCEPT !.strings = "deleted"].context = q.context
  BY DEF Personality, Kinds

\* While the personality is being made IotHub_Destroy has not begun.
LEMMA MakingFacts ==
  ASSUME IInv, receiving.pc \in Made \cup {"create"}
  PROVE  /\ receiving \in Receiving /\ main.pc = "attached" /\ main.at = 0 /\ size \in Nat
         /\ receiving.who = size + 1 /\ MaxPersonalities \in Nat
         /\ \A i \in 1..size : i \in Ids /\ per[i] \in Personality /\ per[i].device # receiving.msg.device
         /\ receiving.pc \in Made => /\ receiving.who \in Ids /\ per[receiving.who] \in Personality
                                     /\ per[receiving.who].device = receiving.msg.device
         /\ receiving.msg.device \in Devices /\ receiving.msg.key \in Keys
         /\ \E t \in Entries : t.device = receiving.msg.device /\ t.key = receiving.msg.key
  <1>1. receiving \in Receiving /\ main.pc = "attached" /\ main.at = 0
    BY DEF IInv, HubTypes, MakingInv, VectorInv, Made, Idle
  <1>2. MaxPersonalities \in Nat /\ size \in 0..MaxPersonalities /\ size \in Nat
    BY HubAssumption DEF IInv, HubTypes
  <1>3. \A i \in 1..size : i \in Ids /\ per[i] \in Personality
    BY <1>1, <1>2 DEF IInv, VectorInv, Ids
  <1>4. receiving.msg \in HubMsg /\ IsForTheHub(receiving.msg)
    BY <1>1 DEF Receiving
  <1>5. /\ receiving.msg.device \in Devices /\ receiving.msg.key \in Keys
        /\ \E t \in Entries : t.device = receiving.msg.device /\ t.key = receiving.msg.key
    BY <1>4 DEF HubMsg, IsForTheHub, IsRegistration, IsReading, IsCommand, Devices, Keys
  <1> QED
    BY <1>1, <1>2, <1>3, <1>5 DEF IInv, MakingInv

\* Up to VECTOR_push_back its strings are live, and from then on the broker is set for MQTT.
LEMMA Live ==
  ASSUME IInv, receiving.pc \in Made, NEW w \in Ids, w = receiving.who
  PROVE  /\ receiving.pc # "undo" => per[w].strings # "deleted"
         /\ receiving.pc \in {"push", "undo"} /\ transport = "MQTT" => per[w].context
  <1>1. main.pc = "attached" /\ per[w] # Nothing
    BY MakingFacts DEF IInv, TableInv
  <1>2. QED
    BY <1>1 DEF IInv, WindowInv

UnchangedElse == UNCHANGED <<transport, callback, main, lock, toHub, toMapping, crashed, table, startAt>>

\* One more field of the personality is set.
LEMMA MakingGoesOn ==
  ASSUME IInv, crashed = "no", UnchangedElse, UNCHANGED size,
         receiving.pc \in Made \cup {"create"}, NEW w \in Ids, w = receiving.who,
         NEW q \in Personality, q.device = receiving.msg.device, per' = [per EXCEPT ![w] = q],
         NEW p \in Made, receiving' = [receiving EXCEPT !.pc = p],
         callback[w] # Nothing => callback[w].kind \in q.callbacks,
         p = "message" => q.callbacks = {},
         q.strings = "deleted" => p = "undo",
         transport = "MQTT" => q.context \/ p \in {"message", "twin", "context"},
         receiving.pc = "create" => callback[w] = Nothing
  PROVE  IInv'
  <1>0. /\ UNCHANGED <<transport, callback, main, lock, toHub, toMapping, crashed, table, startAt, size>>
        /\ UNCHANGED <<Personality, Callback, HubMsg, MapMsg, Receiving, Entries, Devices>>
    BY SameTable DEF UnchangedElse
  <1>1. /\ receiving' \in Receiving /\ receiving'.pc = p /\ receiving'.who = w
        /\ receiving'.msg = receiving.msg /\ p # "idle" /\ p # "deliver" /\ p # "create"
    BY MakingFacts DEF Receiving, Made
  <1>2. /\ per' \in [Ids -> Personality \cup {Nothing}] /\ per'[w] = q
        /\ \A i \in Ids : i # w => per'[i] = per[i]
    BY DEF IInv, HubTypes
  <1>3. w = size + 1 /\ size \in Nat /\ \A i \in 1..size : i # w /\ i \in Ids /\ per'[i] = per[i]
    BY <1>2, MakingFacts
  <1>4. TableInv' /\ QueueTypes'
    BY <1>0 DEF IInv, TableInv, QueueTypes
  <1>5. HubTypes'
    BY <1>0, <1>1, <1>2 DEF IInv, HubTypes
  <1>6. MakingInv'
    <2>1. main.pc = "attached" /\ \A i \in 1..size : per'[i].device # receiving.msg.device
      BY <1>3, MakingFacts
    <2>2. QED
      BY <1>0, <1>1, <1>2, <1>3, <2>1 DEF MakingInv
  <1>7. VectorInv'
    <2>1. \A i \in Ids : i > size /\ i # w => per[i] = Nothing /\ callback[i] = Nothing
      BY DEF IInv, VectorInv, UnderWay
    <2>2. \A i \in Ids : i # w /\ per[i] # Nothing => per[i].device # q.device
      BY <1>3, <2>1, MakingFacts DEF Ids
    <2>3. \A i, j \in Ids :
            per'[i] # Nothing /\ per'[j] # Nothing /\ per'[i].device = per'[j].device => i = j
      BY <1>2, <2>2 DEF IInv, VectorInv
    <2>4. \A i \in Ids : i > size' /\ ~UnderWay(i)' => per'[i] = Nothing /\ callback'[i] = Nothing
      BY <1>0, <1>1, <1>2, <2>1 DEF UnderWay
    <2>5. QED
      BY <1>0, <1>2, <1>3, <2>3, <2>4, MakingFacts DEF VectorInv
  <1>8. CallbackInv'
    <2>1. \A i \in Ids : i # w => per'[i] = per[i]
      BY <1>2
    <2>2. callback[w] # Nothing => per[w].device = q.device
      BY MakingFacts DEF Made
    <2>3. QED
      BY <1>0, <1>2, <2>1, <2>2 DEF IInv, CallbackInv
  <1>9. WindowInv'
    BY <1>0, <1>1, <1>2, MakingFacts DEF IInv, WindowInv
  <1>10. OnlyKnownWindows'
    BY <1>0 DEF OnlyKnownWindows
  <1> QED
    BY <1>4, <1>5, <1>6, <1>7, <1>8, <1>9, <1>10 DEF IInv

\* The personality that is being made is given up.
LEMMA GivenUp ==
  ASSUME IInv, crashed = "no", UnchangedElse, UNCHANGED size,
         receiving.pc \in Made \cup {"create"}, NEW w \in Ids, w = receiving.who,
         callback[w] = Nothing, per' = [per EXCEPT ![w] = Nothing], receiving' = Idle
  PROVE  IInv'
  <1>0. /\ UNCHANGED <<transport, callback, main, lock, toHub, toMapping, crashed, table, startAt, size>>
        /\ UNCHANGED <<Personality, Callback, HubMsg, MapMsg, Receiving, Entries, Devices>>
    BY SameTable DEF UnchangedElse
  <1>1. receiving'.pc = "idle"
    BY DEF Idle
  <1>2. /\ per' \in [Ids -> Personality \cup {Nothing}] /\ per'[w] = Nothing
        /\ \A i \in Ids : i # w => per'[i] = per[i]
    BY DEF IInv, HubTypes
  <1>3. w = size + 1 /\ size \in Nat /\ \A i \in 1..size : i # w /\ i \in Ids /\ per'[i] = per[i]
    BY <1>2, MakingFacts
  <1>4. TableInv' /\ QueueTypes'
    BY <1>0 DEF IInv, TableInv, QueueTypes
  <1>5. HubTypes'
    BY <1>0, <1>2 DEF IInv, HubTypes
  <1>6. MakingInv'
    BY <1>1 DEF MakingInv, Made
  <1>7. VectorInv'
    <2>1. \A i \in Ids : i > size /\ i # w => per[i] = Nothing /\ callback[i] = Nothing
      BY DEF IInv, VectorInv, UnderWay
    <2>2. \A i \in Ids : i > size => per'[i] = Nothing /\ callback'[i] = Nothing
      BY <1>0, <1>2, <2>1
    <2>3. \A i, j \in Ids :
            per'[i] # Nothing /\ per'[j] # Nothing /\ per'[i].device = per'[j].device => i = j
      BY <1>2 DEF IInv, VectorInv
    <2>4. QED
      BY <1>0, <1>3, <2>2, <2>3, MakingFacts DEF VectorInv
  <1>8. CallbackInv'
    BY <1>0, <1>2 DEF IInv, CallbackInv
  <1>9. WindowInv'
    BY <1>0, <1>2, MakingFacts DEF IInv, WindowInv
  <1>10. OnlyKnownWindows'
    BY <1>0 DEF OnlyKnownWindows
  <1> QED
    BY <1>4, <1>5, <1>6, <1>7, <1>8, <1>9, <1>10 DEF IInv

LEMMA PersonalityCreateInv ==
  ASSUME IInv, PersonalityCreate, UNCHANGED <<table, startAt>>, crashed = "no"
  PROVE  IInv'
  <1>1. /\ receiving.pc = "create" /\ receiving.who \in Ids /\ UNCHANGED size /\ UnchangedElse
        /\ receiving.pc \notin Made
    BY DEF PersonalityCreate, Making, UnchangedByMaking, UnchangedElse, Made
  <1>2. PICK w \in Ids : w = receiving.who
    BY <1>1
  <1>3. per[w] = Nothing /\ callback[w] = Nothing
    BY <1>1, <1>2, MakingFacts DEF IInv, VectorInv, UnderWay
  <1> DEFINE q == [device |-> receiving.msg.device, key |-> receiving.msg.key,
                   strings |-> "live", callbacks |-> {}, context |-> FALSE]
  <1>4. CASE per' = [per EXCEPT ![w] = q] /\ NextPc("message")
    <2>1. q \in Personality /\ q.device = receiving.msg.device /\ q.callbacks = {} /\ q.strings = "live"
      BY <1>1, MakingFacts DEF Personality
    <2>2. receiving' = [receiving EXCEPT !.pc = "message"]
      BY <1>4 DEF NextPc
    <2>3. "message" \in Made /\ receiving.pc \in Made \cup {"create"}
      BY <1>1 DEF Made
    <2>4. "message" \in {"message", "twin", "context"} /\ q.strings # "deleted"
      BY <2>1
    <2> HIDE DEF q
    <2>5. QED
      BY <1>1, <1>2, <1>3, <1>4, <2>1, <2>2, <2>3, <2>4, MakingGoesOn
  <1>5. CASE Refuse /\ UNCHANGED per
    <2>1. per' = [per EXCEPT ![w] = Nothing]
      BY <1>3, <1>5 DEF IInv, HubTypes
    <2>2. QED
      BY <1>1, <1>2, <1>3, <1>5, <2>1, GivenUp DEF Refuse
  <1> QED
    BY <1>2, <1>4, <1>5 DEF PersonalityCreate

LEMMA SetMessageCallbackInv ==
  ASSUME IInv, SetMessageCallback, UNCHANGED <<table, startAt>>, crashed = "no"
  PROVE  IInv'
  <1>1. receiving.pc = "message" /\ receiving.pc \in Made /\ UNCHANGED size /\ UnchangedElse
    BY DEF SetMessageCallback, Making, UnchangedByMaking, UnchangedElse, Made
  <1>2. PICK w \in Ids : w = receiving.who
    BY <1>1, MakingFacts
  <1>3. per[w] \in Personality /\ per[w].device = receiving.msg.device /\ callback[w] = Nothing
    BY <1>1, <1>2, MakingFacts DEF IInv, MakingInv, CallbackInv
  <1>4. CASE per' = [per EXCEPT ![w].callbacks = {"message"}]
             /\ NextPc(IF transport = "MQTT" THEN "twin" ELSE "push")
    <2>1. PICK q \in Personality : q = [per[w] EXCEPT !.callbacks = {"message"}]
      BY <1>3, PersonalityFields
    <2>2. per' = [per EXCEPT ![w] = q] /\ q.device = receiving.msg.device /\ q.strings = per[w].strings
      BY <1>3, <1>4, <2>1, PersonalityFields
    <2>3. q.strings # "deleted"
      BY <1>1, <2>2, <1>2, <1>3, MakingFacts, Live
    <2>4. PICK p \in {"twin", "push"} : p = IF transport = "MQTT" THEN "twin" ELSE "push"
      OBVIOUS
    <2>5. receiving' = [receiving EXCEPT !.pc = p] /\ p \in Made /\ p # "message"
      BY <1>4, <2>4 DEF NextPc, Made
    <2>6. transport = "MQTT" => p \in {"message", "twin", "context"}
      BY <2>4
    <2>7. QED
      BY <1>1, <1>2, <1>3, <2>2, <2>3, <2>5, <2>6, MakingGoesOn
  <1>5. CASE per' = [per EXCEPT ![w] = Nothing] /\ Refuse
    BY <1>1, <1>2, <1>3, <1>5, GivenUp DEF Refuse
  <1> QED
    BY <1>2, <1>4, <1>5 DEF SetMessageCallback

LEMMA SetTwinCallbacksInv ==
  ASSUME IInv, SetTwinCallbacks, UNCHANGED <<table, startAt>>, crashed = "no"
  PROVE  IInv'
  <1>1. receiving.pc = "twin" /\ receiving.pc \in Made /\ UNCHANGED size /\ UnchangedElse
    BY DEF SetTwinCallbacks, Making, UnchangedByMaking, UnchangedElse, Made
  <1>2. PICK w \in Ids : w = receiving.who
    BY <1>1, MakingFacts
  <1>3. /\ per[w] \in Personality /\ per[w].device = receiving.msg.device
        /\ callback[w] # Nothing => callback[w].kind \in per[w].callbacks
        /\ per[w].callbacks \subseteq Kinds
    BY <1>1, <1>2, MakingFacts DEF IInv, CallbackInv, Personality
  <1>4. PICK q \in Personality :
            /\ per' = [per EXCEPT ![w] = q] /\ q.device = per[w].device /\ q.strings = per[w].strings
            /\ per[w].callbacks \subseteq q.callbacks
    <2>1. CASE UNCHANGED per
      BY <1>3, <2>1 DEF IInv, HubTypes
    <2>2. CASE per' = [per EXCEPT ![w].callbacks = Kinds]
      <3>1. PICK q \in Personality : q = [per[w] EXCEPT !.callbacks = Kinds]
        BY <1>3, PersonalityFields
      <3>2. QED
        BY <1>3, <2>2, <3>1, PersonalityFields
    <2>3. QED
      BY <1>2, <2>1, <2>2 DEF SetTwinCallbacks
  <1>5. q.strings # "deleted"
    BY <1>1, <1>2, <1>3, <1>4, MakingFacts, Live
  <1>6. receiving' = [receiving EXCEPT !.pc = "context"] /\ "context" \in Made
    BY DEF SetTwinCallbacks, NextPc, Made
  <1>7. "context" \in {"message", "twin", "context"} /\ "context" # "message"
    OBVIOUS
  <1> QED
    BY <1>1, <1>2, <1>3, <1>4, <1>5, <1>6, <1>7, MakingGoesOn

LEMMA SetContextInv ==
  ASSUME IInv, SetContext, UNCHANGED <<table, startAt>>, crashed = "no"
  PROVE  IInv'
  <1>1. receiving.pc = "context" /\ receiving.pc \in Made /\ UNCHANGED size /\ UnchangedElse
    BY DEF SetContext, Making, UnchangedByMaking, UnchangedElse, Made
  <1>2. PICK w \in Ids : w = receiving.who
    BY <1>1, MakingFacts
  <1>3. /\ per[w] \in Personality /\ per[w].device = receiving.msg.device
        /\ callback[w] # Nothing => callback[w].kind \in per[w].callbacks
    BY <1>1, <1>2, MakingFacts DEF IInv, CallbackInv
  <1>4. PICK q \in Personality : q = [per[w] EXCEPT !.context = TRUE]
    BY <1>3, PersonalityFields
  <1>5. per' = [per EXCEPT ![w] = q]
    BY <1>2, <1>4 DEF SetContext
  <1>6. /\ q.device = per[w].device /\ q.strings = per[w].strings /\ q.callbacks = per[w].callbacks
        /\ q.context
    BY <1>3, <1>4, PersonalityFields
  <1>7. q.strings # "deleted"
    BY <1>1, <1>2, <1>3, <1>6, MakingFacts, Live
  <1>8. receiving' = [receiving EXCEPT !.pc = "push"] /\ "push" \in Made /\ "push" # "message"
    BY DEF SetContext, NextPc, Made
  <1> QED
    BY <1>1, <1>2, <1>3, <1>5, <1>6, <1>7, <1>8, MakingGoesOn

LEMMA PushBackInv ==
  ASSUME IInv, PushBack, UNCHANGED <<table, startAt>>, crashed = "no"
  PROVE  IInv'
  <1>1. receiving.pc = "push" /\ receiving.pc \in Made /\ UnchangedElse
    BY DEF PushBack, Making, UnchangedByMaking, UnchangedElse, Made
  <1>2. PICK w \in Ids : w = receiving.who
    BY <1>1, MakingFacts
  <1>3. /\ per[w] \in Personality /\ per[w].device = receiving.msg.device
        /\ callback[w] # Nothing => callback[w].kind \in per[w].callbacks
    BY <1>1, <1>2, MakingFacts DEF IInv, CallbackInv
  <1>4. CASE size' = size + 1 /\ NextPc("deliver") /\ UNCHANGED per
    <2>0. /\ UNCHANGED <<transport, callback, main, lock, toHub, toMapping, crashed, table, startAt, per>>
          /\ UNCHANGED <<Personality, Callback, HubMsg, MapMsg, Receiving, Entries, Devices>>
      BY <1>1, <1>4, SameTable DEF UnchangedElse
    <2>1. /\ receiving' \in Receiving /\ receiving'.pc = "deliver" /\ receiving'.who = w
          /\ receiving'.msg = receiving.msg /\ "deliver" \notin Made
      BY <1>1, <1>2, <1>4, MakingFacts DEF Receiving, Made, NextPc
    <2>2. w = size' /\ size' \in 0..MaxPersonalities /\ size \in Nat /\ main.pc = "attached" /\ main.at = 0
      BY <1>1, <1>2, <1>4, MakingFacts DEF Ids
    <2>3. TableInv' /\ QueueTypes'
      BY <2>0 DEF IInv, TableInv, QueueTypes
    <2>4. HubTypes'
      BY <2>0, <2>1, <2>2 DEF IInv, HubTypes
    <2>5. MakingInv'
      BY <1>3, <2>0, <2>1, <2>2 DEF MakingInv
    <2>6. VectorInv'
      <3>1. \A i \in Ids : i > size' /\ ~UnderWay(i)' => per[i] = Nothing /\ callback[i] = Nothing
        BY <1>2, <1>4, <2>1, <2>2 DEF IInv, VectorInv, UnderWay, Ids
      <3>2. \A i \in 1..size' : i # w => i \in 1..size
        BY <1>4, <2>2
      <3>3. \A i \in 1..size' : main.pc # "gone" /\ main.at <= i => per[i] \in Personality
        BY <1>3, <3>2 DEF IInv, VectorInv
      <3>4. QED
        BY <2>0, <2>2, <3>1, <3>3 DEF IInv, VectorInv
    <2>7. CallbackInv'
      BY <2>0 DEF IInv, CallbackInv
    <2>8. WindowInv'
      BY <1>1, <2>0, <2>1 DEF IInv, WindowInv
    <2>9. OnlyKnownWindows'
      BY <2>0 DEF OnlyKnownWindows
    <2> QED
      BY <2>3, <2>4, <2>5, <2>6, <2>7, <2>8, <2>9 DEF IInv
  <1>5. CASE per' = [per EXCEPT ![w].strings = "deleted"] /\ NextPc("undo") /\ UNCHANGED size
    <2>1. PICK q \in Personality : q = [per[w] EXCEPT !.strings = "deleted"]
      BY <1>3, PersonalityFields
    <2>2. per' = [per EXCEPT ![w] = q]
      BY <1>5, <2>1
    <2>3. q.device = per[w].device /\ q.callbacks = per[w].callbacks /\ q.context = per[w].context
      BY <1>3, <2>1, PersonalityFields
    <2>4. PICK p \in Made : p = "undo" /\ receiving' = [receiving EXCEPT !.pc = p] /\ p # "message"
      BY <1>5 DEF NextPc, Made
    <2>5. transport = "MQTT" => q.context
      BY <1>1, <1>2, <1>3, <2>3, Live
    <2>6. /\ q.device = receiving.msg.device /\ UNCHANGED size
          /\ callback[w] # Nothing => callback[w].kind \in q.callbacks
          /\ receiving.pc \in Made \cup {"create"} /\ receiving.pc # "create"
      BY <1>1, <1>3, <1>5, <2>3
    <2>7. QED
      BY <1>1, <1>2, <2>2, <2>4, <2>5, <2>6, MakingGoesOn
  <1> QED
    BY <1>2, <1>4, <1>5 DEF PushBack

LEMMA PersonalityDestroyInv ==
  ASSUME IInv, PersonalityDestroy, UNCHANGED <<table, startAt>>, crashed = "no"
  PROVE  IInv'
  <1>1. receiving.pc = "undo" /\ receiving.pc \in Made /\ UNCHANGED size /\ UnchangedElse
    BY DEF PersonalityDestroy, Making, UnchangedByMaking, UnchangedElse, Made
  <1>2. PICK w \in Ids : w = receiving.who
    BY <1>1, MakingFacts
  <1> QED
    BY <1>1, <1>2, GivenUp DEF PersonalityDestroy, Refuse

LEMMA DeliverInv ==
  ASSUME IInv, Deliver, UNCHANGED <<table, startAt>>, crashed = "no"
  PROVE  IInv'
  <1>1. TableInv' /\ QueueTypes'
    BY SameTable DEF IInv, TableInv, QueueTypes, Deliver, Making, UnchangedByMaking
  <1>2. HubTypes'
    BY SameTable, HubAssumption DEF IInv, HubTypes, MakingInv, Ids, Personality, Receiving, Made, Idle, Deliver, Making, UnchangedByMaking
  <1>3. MakingInv'
    BY SameTable, HubAssumption DEF IInv, HubTypes, MakingInv, VectorInv, Ids, Personality, Made, Idle, Deliver, Making, UnchangedByMaking
  <1>4. VectorInv'
    BY SameTable, HubAssumption DEF IInv, HubTypes, MakingInv, VectorInv, UnderWay, Ids, Personality, Made, Idle, Deliver, Making, UnchangedByMaking
  <1>5. CallbackInv'
    BY SameTable DEF IInv, HubTypes, MakingInv, CallbackInv, VectorInv, Ids, Personality, Made, Kinds, Deliver, Making, UnchangedByMaking
  <1>6. WindowInv'
    BY DEF IInv, HubTypes, WindowInv, MakingInv, VectorInv, Ids, Personality, Made, Idle, Deliver, Making, UnchangedByMaking
  <1>7. OnlyKnownWindows'
    BY DEF OnlyKnownWindows, Deliver, Making, UnchangedByMaking
  <1> QED
    BY <1>1, <1>2, <1>3, <1>4, <1>5, <1>6, <1>7 DEF IInv

LEMMA DetachInv ==
  ASSUME IInv, Detach, UNCHANGED <<table, startAt>>, crashed = "no"
  PROVE  IInv'
  <1>1. TableInv' /\ QueueTypes'
    BY SameTable DEF IInv, TableInv, QueueTypes, Detach, UnchangedByMain
  <1>2. HubTypes'
    BY SameTable, HubAssumption DEF IInv, HubTypes, MakingInv, Ids, Personality, Receiving, Made, Idle, Detach, UnchangedByMain
  <1>3. MakingInv'
    BY SameTable, HubAssumption DEF IInv, HubTypes, MakingInv, VectorInv, Ids, Personality, Made, Idle, Detach, UnchangedByMain
  <1>4. VectorInv'
    BY SameTable, HubAssumption DEF IInv, HubTypes, MakingInv, VectorInv, UnderWay, Ids, Personality, Made, Idle, Detach, UnchangedByMain
  <1>5. CallbackInv'
    BY SameTable DEF IInv, HubTypes, MakingInv, CallbackInv, VectorInv, Ids, Personality, Made, Kinds, Detach, UnchangedByMain
  <1>6. WindowInv'
    BY DEF IInv, HubTypes, WindowInv, MakingInv, VectorInv, Ids, Personality, Made, Idle, Detach, UnchangedByMain
  <1>7. OnlyKnownWindows'
    BY DEF OnlyKnownWindows, Detach, UnchangedByMain
  <1> QED
    BY <1>1, <1>2, <1>3, <1>4, <1>5, <1>6, <1>7 DEF IInv

LEMMA DestroyReturnInv ==
  ASSUME IInv, DestroyReturn, UNCHANGED <<table, startAt>>, crashed = "no"
  PROVE  IInv'
  <1>1. TableInv' /\ QueueTypes'
    BY SameTable DEF IInv, TableInv, QueueTypes, DestroyReturn, UnchangedByMain
  <1>2. HubTypes'
    BY SameTable, HubAssumption DEF IInv, HubTypes, MakingInv, Ids, Personality, Receiving, Made, Idle, DestroyReturn, UnchangedByMain
  <1>3. MakingInv'
    BY SameTable, HubAssumption DEF IInv, HubTypes, MakingInv, VectorInv, Ids, Personality, Made, Idle, DestroyReturn, UnchangedByMain
  <1>4. VectorInv'
    BY SameTable, HubAssumption DEF IInv, HubTypes, MakingInv, VectorInv, UnderWay, Ids, Personality, Made, Idle, DestroyReturn, UnchangedByMain
  <1>5. CallbackInv'
    BY SameTable DEF IInv, HubTypes, MakingInv, CallbackInv, VectorInv, Ids, Personality, Made, Kinds, DestroyReturn, UnchangedByMain
  <1>6. WindowInv'
    BY DEF IInv, HubTypes, WindowInv, MakingInv, VectorInv, Ids, Personality, Made, Idle, DestroyReturn, UnchangedByMain
  <1>7. OnlyKnownWindows'
    BY DEF OnlyKnownWindows, DestroyReturn, UnchangedByMain
  <1> QED
    BY <1>1, <1>2, <1>3, <1>4, <1>5, <1>6, <1>7 DEF IInv
-----------------------------------------------------------------------------
(* IotHub_Destroy.                                                         *)

LEMMA DeleteStringsInv ==
  ASSUME IInv, DeleteStrings, UNCHANGED <<table, startAt>>, crashed = "no"
  PROVE  IInv'
  <1>0. /\ UNCHANGED <<transport, size, receiving, callback, lock, toHub, toMapping, crashed, table, startAt>>
        /\ UNCHANGED <<Personality, Callback, HubMsg, MapMsg, Receiving, Entries, Devices>>
    BY SameTable DEF DeleteStrings, UnchangedByMain
  <1>1. main.pc = "strings" /\ size \in 0..MaxPersonalities /\ MaxPersonalities \in Nat
    BY HubAssumption DEF DeleteStrings, IInv, HubTypes
  <1>2. PICK w \in 1..size : w = main.at
    BY <1>1 DEF DeleteStrings, IInv, HubTypes, VectorInv
  <1>3. w \in Ids /\ per[w] \in Personality
    BY <1>1, <1>2 DEF IInv, VectorInv, Ids
  <1>4. PICK q \in Personality : q = [per[w] EXCEPT !.strings = "deleted"]
    BY <1>3, PersonalityFields
  <1>5. q.device = per[w].device /\ q.callbacks = per[w].callbacks /\ q.context = per[w].context
    BY <1>3, <1>4, PersonalityFields
  <1>6. /\ per' \in [Ids -> Personality \cup {Nothing}] /\ per'[w] = q
        /\ \A i \in Ids : i # w => per'[i] = per[i]
    BY <1>2, <1>3, <1>4 DEF DeleteStrings, IInv, HubTypes
  <1>7. main'.pc = "client" /\ main'.at = w /\ main' \in [pc : {"client"}, at : {w}]
    BY <1>2 DEF DeleteStrings, IInv, HubTypes
  <1>8. receiving.pc = "idle" /\ Nothing \notin Personality
    BY <1>1 DEF IInv, MakingInv, HubTypes, Receiving, Idle, TableInv
  <1>9. \A i \in 1..size : i \in Ids
    BY <1>1 DEF Ids
  <1>10. TableInv' /\ QueueTypes'
    BY <1>0 DEF IInv, TableInv, QueueTypes
  <1>11. HubTypes'
    BY <1>0, <1>1, <1>2, <1>6, <1>7 DEF IInv, HubTypes
  <1>12. MakingInv'
    BY <1>0, <1>8 DEF MakingInv, Made
  <1>13. VectorInv'
    <2>1. \A i \in 1..size : w <= i => per'[i] \in Personality
      BY <1>1, <1>2, <1>3, <1>6, <1>9 DEF IInv, VectorInv
    <2>2. \A i \in Ids : i > size /\ ~UnderWay(i)' => per'[i] = Nothing /\ callback'[i] = Nothing
      <3>1. \A i \in Ids : i > size => i # w
        BY <1>1, <1>2 DEF Ids
      <3>2. QED
        BY <1>0, <1>6, <3>1 DEF IInv, VectorInv, UnderWay
    <2>3. \A i, j \in Ids :
            per'[i] # Nothing /\ per'[j] # Nothing /\ per'[i].device = per'[j].device => i = j
      BY <1>3, <1>5, <1>6, <1>8 DEF IInv, VectorInv
    <2>4. QED
      BY <1>0, <1>2, <1>7, <2>1, <2>2, <2>3 DEF VectorInv
  <1>14. CallbackInv'
    BY <1>0, <1>3, <1>5, <1>6 DEF IInv, CallbackInv
  <1>15. WindowInv'
    BY <1>0, <1>1, <1>3, <1>5, <1>6, <1>7, <1>8 DEF IInv, WindowInv
  <1>16. OnlyKnownWindows'
    BY <1>0 DEF OnlyKnownWindows
  <1> QED
    BY <1>10, <1>11, <1>12, <1>13, <1>14, <1>15, <1>16 DEF IInv

LEMMA ClientDestroyInv ==
  ASSUME IInv, ClientDestroy, UNCHANGED <<table, startAt>>, crashed = "no"
  PROVE  IInv'
  <1>0. /\ UNCHANGED <<transport, size, receiving, callback, lock, toHub, toMapping, crashed, table, startAt>>
        /\ UNCHANGED <<Personality, Callback, HubMsg, MapMsg, Receiving, Entries, Devices>>
    BY SameTable DEF ClientDestroy, UnchangedByMain
  <1>1. main.pc = "client" /\ size \in 0..MaxPersonalities /\ MaxPersonalities \in Nat
    BY HubAssumption DEF ClientDestroy, IInv, HubTypes
  <1>2. PICK w \in 1..size : w = main.at
    BY <1>1 DEF IInv, HubTypes, VectorInv
  <1>3. w \in Ids /\ callback[w] = Nothing
    BY <1>1, <1>2 DEF ClientDestroy, Ids
  <1>4. /\ per' \in [Ids -> Personality \cup {Nothing}] /\ per'[w] = Nothing
        /\ \A i \in Ids : i # w => per'[i] = per[i]
    BY <1>2, <1>3 DEF ClientDestroy, IInv, HubTypes
  <1>5. main'.pc = "strings" /\ main'.at = w + 1 /\ main' \in [pc : {"strings"}, at : {w + 1}]
    BY <1>2 DEF ClientDestroy
  <1>6. receiving.pc = "idle"
    BY <1>1 DEF IInv, MakingInv, HubTypes, Receiving, Idle
  <1>7. \A i \in 1..size : i \in Ids
    BY <1>1 DEF Ids
  <1>8. TableInv' /\ QueueTypes'
    BY <1>0 DEF IInv, TableInv, QueueTypes
  <1>9. HubTypes'
    BY <1>0, <1>1, <1>2, <1>4, <1>5 DEF IInv, HubTypes
  <1>10. MakingInv'
    BY <1>0, <1>6 DEF MakingInv, Made
  <1>11. VectorInv'
    <2>1. \A i \in 1..size : w + 1 <= i => per'[i] \in Personality
      BY <1>1, <1>2, <1>4, <1>7 DEF IInv, VectorInv
    <2>2. \A i \in Ids : i > size /\ ~UnderWay(i)' => per'[i] = Nothing /\ callback'[i] = Nothing
      BY <1>0, <1>2, <1>4 DEF IInv, VectorInv, UnderWay
    <2>3. \A i, j \in Ids :
            per'[i] # Nothing /\ per'[j] # Nothing /\ per'[i].device = per'[j].device => i = j
      BY <1>4 DEF IInv, VectorInv
    <2>4. QED
      BY <1>0, <1>1, <1>2, <1>5, <2>1, <2>2, <2>3 DEF VectorInv
  <1>12. CallbackInv'
    BY <1>0, <1>3, <1>4 DEF IInv, CallbackInv
  <1>13. WindowInv'
    BY <1>0, <1>1, <1>2, <1>4, <1>5, <1>6 DEF IInv, WindowInv
  <1>14. OnlyKnownWindows'
    BY <1>0 DEF OnlyKnownWindows
  <1> QED
    BY <1>8, <1>9, <1>10, <1>11, <1>12, <1>13, <1>14 DEF IInv
-----------------------------------------------------------------------------
(* IotHub_Receive: which personality is found.                             *)

LEMMA Found ==
  ASSUME size \in Nat, NEW device, NEW who, who = FindPersonality(device)
  PROVE  /\ who \in 0..size
         /\ who = 0 => \A i \in 1..size : per[i].device # device
         /\ who # 0 => per[who].device = device
  <1> DEFINE found == {i \in 1..size : per[i].device = device}
  <1>1. CASE found = {}
    BY <1>1 DEF FindPersonality
  <1>2. CASE found # {}
    <2>1. found \in SUBSET Nat
      OBVIOUS
    <2>2. \E i \in found : \A j \in found : i <= j
      BY <1>2, <2>1, Least
    <2>3. who = CHOOSE i \in found : \A j \in found : i <= j
      BY <1>2 DEF FindPersonality
    <2>4. who \in found
      BY <2>2, <2>3
    <2>5. QED
      BY <2>4
  <1> QED
    BY <1>1, <1>2

LEMMA ReceiveInv ==
  ASSUME IInv, Receive, UNCHANGED <<table, startAt>>, crashed = "no"
  PROVE  IInv'
  <1>0. /\ UNCHANGED <<transport, per, size, callback, main, lock, toMapping, crashed, table, startAt>>
        /\ UNCHANGED <<Personality, Callback, HubMsg, MapMsg, Receiving, Entries, Devices>>
    BY SameTable DEF Receive
  <1>1. /\ main.pc = "attached" /\ main.at = 0 /\ receiving.pc = "idle" /\ MaxPersonalities \in Nat
        /\ size \in 0..MaxPersonalities /\ size \in Nat
    BY HubAssumption DEF Receive, Idle, IInv, HubTypes, VectorInv
  <1>2. PICK msg \in HubMsg : msg = Head(toHub)
    BY DEF Receive, IInv, QueueTypes
  <1>3. PICK who : who = FindPersonality(msg.device)
    OBVIOUS
  <1>4. /\ who \in 0..size
        /\ who = 0 => \A i \in 1..size : per[i].device # msg.device
        /\ who # 0 => per[who].device = msg.device
    BY <1>1, <1>3, Found
  <1>5. receiving' = IF ~IsForTheHub(msg) THEN Idle
                     ELSE IF who = 0 THEN [pc |-> "create", msg |-> msg, who |-> size + 1]
                     ELSE [pc |-> "deliver", msg |-> msg, who |-> who]
    BY <1>2, <1>3 DEF Receive
  <1>6. \A i \in 1..size : i \in Ids /\ per[i] \in Personality
    BY <1>1 DEF IInv, VectorInv, Ids
  <1>7. TableInv' /\ QueueTypes'
    BY <1>0 DEF Receive, IInv, TableInv, QueueTypes
  <1>8. HubTypes'
    <2>1. receiving' \in Receiving \cup {Idle}
      BY <1>1, <1>4, <1>5 DEF Receiving
    <2>2. QED
      BY <1>0, <2>1 DEF IInv, HubTypes
  <1>9. MakingInv'
    <2>1. receiving'.pc \notin Made
      BY <1>5 DEF Made, Idle
    <2>2. receiving'.pc = "create" => receiving' = [pc |-> "create", msg |-> msg, who |-> size + 1] /\ who = 0
      BY <1>5 DEF Idle
    <2>3. receiving'.pc = "deliver" => receiving' = [pc |-> "deliver", msg |-> msg, who |-> who] /\ who # 0
      BY <1>5 DEF Idle
    <2>4. receiving'.pc # "message"
      BY <2>1 DEF Made
    <2>5. receiving'.pc = "create" => receiving'.who = size' + 1
                                        /\ \A i \in 1..size' : per'[i].device # receiving'.msg.device
      BY <1>0, <1>4, <2>2
    <2>6. receiving'.pc = "deliver" => /\ receiving'.who \in Ids /\ per'[receiving'.who] \in Personality'
                                       /\ per'[receiving'.who].device = receiving'.msg.device
                                       /\ receiving'.who <= size'
      BY <1>0, <1>1, <1>4, <1>6, <2>3
    <2>7. QED
      BY <1>0, <1>1, <2>1, <2>4, <2>5, <2>6 DEF MakingInv
  <1>10. VectorInv'
    BY <1>0, <1>1 DEF IInv, VectorInv, UnderWay, Made
  <1>11. CallbackInv'
    BY <1>0 DEF IInv, CallbackInv
  <1>12. WindowInv'
    BY <1>0, <1>1 DEF IInv, WindowInv
  <1>13. OnlyKnownWindows'
    BY <1>0 DEF OnlyKnownWindows
  <1> QED
    BY <1>7, <1>8, <1>9, <1>10, <1>11, <1>12, <1>13 DEF IInv
-----------------------------------------------------------------------------
(* The callbacks.                                                          *)

\* A step of a callback changes its own record, what is published and the crash only.
LEMMA CallbackMoves ==
  ASSUME IInv, UNCHANGED <<table, startAt>>, UnchangedByCallback,
         NEW id \in Ids, NEW c \in Callback \cup {Nothing}, callback' = [callback EXCEPT ![id] = c],
         c # Nothing => /\ per[id] \in Personality /\ per[id] # Nothing /\ c.kind \in per[id].callbacks
                        /\ c.pc = "publish" => c.device \in {per[id].device, Junk},
         lock' \in {"free", "kept"}, crashed' \in {"no", "unset", "freed"},
         toMapping' \in Seq(MapMsg), OnlyKnownWindows'
  PROVE  IInv'
  <1>0. /\ UNCHANGED <<transport, per, size, receiving, main, toHub, refused, table, startAt>>
        /\ UNCHANGED <<Personality, Callback, HubMsg, MapMsg, Receiving, Entries, Devices>>
    BY SameTable DEF UnchangedByCallback
  <1>1. /\ callback' \in [Ids -> Callback \cup {Nothing}] /\ callback'[id] = c
        /\ \A i \in Ids : i # id => callback'[i] = callback[i]
    BY DEF IInv, HubTypes
  <1>2. TableInv' /\ QueueTypes'
    BY <1>0 DEF IInv, TableInv, QueueTypes
  <1>3. HubTypes'
    BY <1>0, <1>1 DEF IInv, HubTypes
  <1>4. MakingInv'
    BY <1>0 DEF IInv, MakingInv
  <1>5. VectorInv'
    <2>1. \A i \in Ids : i > size /\ ~UnderWay(i)' => per'[i] = Nothing /\ callback'[i] = Nothing
      BY <1>0, <1>1 DEF IInv, VectorInv, UnderWay
    <2>2. QED
      BY <1>0, <2>1 DEF IInv, VectorInv
  <1>6. CallbackInv'
    BY <1>0, <1>1 DEF IInv, CallbackInv
  <1>7. WindowInv'
    BY <1>0 DEF IInv, WindowInv
  <1> QED
    BY <1>2, <1>3, <1>4, <1>5, <1>6, <1>7 DEF IInv

LEMMA CallbackBeginInv ==
  ASSUME IInv, UNCHANGED <<table, startAt>>, crashed = "no", NEW id \in Ids, NEW kind \in Kinds,
         CallbackBegin(id, kind)
  PROVE  IInv'
  <1>1. PICK c : c = [kind |-> kind, pc |-> "properties", device |-> Nothing, key |-> Nothing]
    OBVIOUS
  <1>2. c \in Callback /\ c.kind = kind /\ c.pc # "publish" /\ callback' = [callback EXCEPT ![id] = c]
    BY <1>1 DEF Callback, CallbackBegin
  <1>3. per[id] # Nothing /\ per[id] \in Personality /\ kind \in per[id].callbacks
    BY DEF CallbackBegin, IInv, HubTypes
  <1>4. UnchangedByCallback /\ UNCHANGED <<lock, toMapping, crashed>>
    BY DEF CallbackBegin
  <1>5. OnlyKnownWindows'
    BY <1>4 DEF OnlyKnownWindows
  <1>6. /\ lock' \in {"free", "kept"} /\ crashed' \in {"no", "unset", "freed"} /\ toMapping' \in Seq(MapMsg)
    BY <1>4 DEF IInv, HubTypes, QueueTypes
  <1> QED
    BY <1>2, <1>3, <1>4, <1>5, <1>6, CallbackMoves

\* What a callback may rely on.
LEMMA CallbackFacts ==
  ASSUME IInv, NEW id \in Ids, callback[id] # Nothing
  PROVE  /\ callback[id] \in Callback /\ per[id] \in Personality /\ per[id] # Nothing
         /\ callback[id].kind \in per[id].callbacks
         /\ callback[id].pc = "publish" => callback[id].device \in {per[id].device, Junk}
         /\ lock \in {"free", "kept"} /\ crashed \in {"no", "unset", "freed"} /\ toMapping \in Seq(MapMsg)
  BY DEF IInv, HubTypes, QueueTypes, CallbackInv, TableInv

LEMMA CallbackPropertiesInv ==
  ASSUME IInv, UNCHANGED <<table, startAt>>, crashed = "no", NEW id \in Ids, CallbackProperties(id)
  PROVE  IInv'
  <1>1. callback[id] # Nothing /\ UnchangedByCallback /\ UNCHANGED <<lock, toMapping>>
    BY DEF CallbackProperties
  <1>2. CASE UNCHANGED crashed /\ \E device \in {per[id].device} \cup IF per[id].strings = "live" THEN {} ELSE {Junk} :
                callback' = [callback EXCEPT ![id] =
                   [@ EXCEPT !.pc = "publish", !.device = device,
                             !.key = IF callback[id].kind = "message" THEN Nothing ELSE per[id].key]]
    <2>1. PICK device \in {per[id].device, Junk} :
                callback' = [callback EXCEPT ![id] =
                   [@ EXCEPT !.pc = "publish", !.device = device,
                             !.key = IF callback[id].kind = "message" THEN Nothing ELSE per[id].key]]
      BY <1>2
    <2>2. PICK key \in Keys \cup {Nothing} :
                key = IF callback[id].kind = "message" THEN Nothing ELSE per[id].key
      BY <1>1, CallbackFacts DEF Personality
    <2>3. PICK c : c = [callback[id] EXCEPT !.pc = "publish", !.device = device, !.key = key]
      OBVIOUS
    <2>4. device \in Devices \cup {Junk}
      BY <1>1, CallbackFacts DEF Personality
    <2>5. c \in Callback /\ c.kind = callback[id].kind /\ c.device = device
      BY <1>1, <2>3, <2>4, CallbackFacts DEF Callback
    <2>6. callback' = [callback EXCEPT ![id] = c]
      BY <2>1, <2>2, <2>3
    <2>7. OnlyKnownWindows'
      BY <1>2 DEF OnlyKnownWindows
    <2> QED
      BY <1>1, <1>2, <2>1, <2>5, <2>6, <2>7, CallbackFacts, CallbackMoves
  <1>3. CASE per[id].strings = "deleted" /\ crashed' = "freed" /\ UNCHANGED callback
    <2>1. main.pc = "client" \/ receiving.pc = "undo"
      BY <1>1, <1>3, CallbackFacts DEF IInv, WindowInv
    <2>2. OnlyKnownWindows'
      BY <1>1, <1>3, <2>1 DEF OnlyKnownWindows, UnchangedByCallback
    <2>3. callback' = [callback EXCEPT ![id] = callback[id]]
      BY <1>3 DEF IInv, HubTypes
    <2>4. crashed' \in {"no", "unset", "freed"}
      BY <1>3
    <2> QED
      BY <1>1, <2>2, <2>3, <2>4, CallbackFacts, CallbackMoves
  <1>4. CASE callback' = [callback EXCEPT ![id] = Nothing] /\ UNCHANGED crashed
    <2>1. OnlyKnownWindows'
      BY <1>4 DEF OnlyKnownWindows
    <2> QED
      BY <1>1, <1>4, <2>1, CallbackFacts, CallbackMoves
  <1> QED
    BY <1>2, <1>3, <1>4 DEF CallbackProperties

\* What a callback publishes names the personality's device, or nothing configured.
LEMMA PublishedByCallback ==
  ASSUME IInv, NEW id \in Ids, callback[id] # Nothing, callback[id].pc = "publish"
  PROVE  Message("iothub", Nothing, callback[id].device, callback[id].key,
                 <<callback[id].kind, per[id].device>>) \in MapMsg
  <1>1. /\ callback[id].device \in Devices \cup {Nothing, Junk} /\ callback[id].key \in Keys \cup {Nothing}
        /\ callback[id].kind \in Kinds /\ callback[id].device \in {per[id].device, Junk}
    BY CallbackFacts DEF Callback
  <1>2. per[id].device \in Devices
    BY CallbackFacts DEF Personality
  <1>3. <<callback[id].kind, per[id].device>> \in Contents
    BY <1>1, <1>2 DEF Contents
  <1> QED
    BY <1>1, <1>2, <1>3 DEF Message, MapMsg, Msg, FromHub

LEMMA CallbackPublishInv ==
  ASSUME IInv, UNCHANGED <<table, startAt>>, crashed = "no", NEW id \in Ids, CallbackPublish(id)
  PROVE  IInv'
  <1>1. /\ callback[id] # Nothing /\ callback[id].pc = "publish" /\ UnchangedByCallback
        /\ callback' = [callback EXCEPT ![id] = Nothing]
    BY DEF CallbackPublish
  <1>2. PICK msg \in MapMsg : msg = Message("iothub", Nothing, callback[id].device, callback[id].key,
                                            <<callback[id].kind, per[id].device>>)
    BY <1>1, PublishedByCallback
  <1>3. \/ BrokerPublish(msg) /\ UNCHANGED crashed
        \/ ~per[id].context /\ UNCHANGED <<lock, toMapping, crashed>>
        \/ ~per[id].context /\ crashed' = "unset" /\ UNCHANGED <<lock, toMapping>>
    BY <1>2 DEF CallbackPublish
  <1>4. lock' \in {"free", "kept"} /\ toMapping' \in Seq(MapMsg) /\ crashed' \in {"no", "unset", "freed"}
    <2>1. Append(toMapping, msg) \in Seq(MapMsg)
      BY <1>1, CallbackFacts
    <2>2. BrokerPublish(msg) => lock' \in {"free", "kept"} /\ toMapping' \in Seq(MapMsg)
      BY <2>1, <1>1, CallbackFacts DEF BrokerPublish
    <2>3. QED
      BY <1>1, <1>3, <2>2, CallbackFacts
  <1>5. OnlyKnownWindows'
    <2>1. CASE UNCHANGED crashed
      BY <2>1 DEF OnlyKnownWindows
    <2>2. CASE ~per[id].context /\ crashed' = "unset"
      <3>1. transport = "MQTT" => receiving.pc \in {"message", "twin", "context"} /\ id = receiving.who
        BY <1>1, <2>2, CallbackFacts DEF IInv, WindowInv
      <3>2. receiving.pc = "message" /\ id = receiving.who => FALSE
        BY <1>1, CallbackFacts DEF IInv, MakingInv
      <3>3. UNCHANGED <<transport, receiving>>
        BY <1>1 DEF UnchangedByCallback
      <3> QED
        BY <2>2, <3>1, <3>2, <3>3 DEF OnlyKnownWindows
    <2> QED
      BY <1>3, <2>1, <2>2
  <1> QED
    BY <1>1, <1>4, <1>5, CallbackMoves
-----------------------------------------------------------------------------
(* The identity map and the devices' modules.                              *)

\* A step that only publishes keeps all but the queues.
LEMMA QueueMoves ==
  ASSUME IInv, UnchangedByMap, toHub' \in Seq(HubMsg), toMapping' \in Seq(MapMsg),
         startAt' \in 1..(Len(table) + 1)
  PROVE  IInv'
  <1>0. /\ UNCHANGED <<transport, per, size, receiving, callback, main, lock, refused, crashed, table>>
        /\ UNCHANGED <<Personality, Callback, HubMsg, MapMsg, Receiving, Entries, Devices>>
    BY SameTable DEF UnchangedByMap
  <1>1. TableInv' /\ HubTypes' /\ QueueTypes'
    BY <1>0 DEF IInv, TableInv, HubTypes, QueueTypes
  <1>2. MakingInv' /\ CallbackInv' /\ OnlyKnownWindows'
    BY <1>0 DEF IInv, MakingInv, CallbackInv, OnlyKnownWindows
  <1>3. VectorInv'
    BY <1>0 DEF IInv, VectorInv, UnderWay
  <1>4. WindowInv'
    BY <1>0 DEF IInv, WindowInv
  <1> QED
    BY <1>1, <1>2, <1>3, <1>4 DEF IInv

LEMMA PublishedToHub ==
  ASSUME IInv, NEW msg \in HubMsg, PublishToHub(msg)
  PROVE  toHub' \in Seq(HubMsg)
  <1>1. toHub \in Seq(HubMsg) /\ Append(toHub, msg) \in Seq(HubMsg)
    BY DEF IInv, QueueTypes
  <1>2. QED
    BY <1>1 DEF PublishToHub

LEMMA RegisterInv == ASSUME IInv, Register PROVE IInv'
  <1>1. /\ startAt \in DOMAIN table /\ startAt' = startAt + 1 /\ UnchangedByMap /\ UNCHANGED toMapping
        /\ PublishToHub(Registrations(table)[startAt])
    BY DEF Register
  <1>2. table[startAt] \in Entries /\ startAt' \in 1..(Len(table) + 1)
    BY <1>1 DEF IInv, TableInv, Entries, Range
  <1>3. PICK msg : msg = Registrations(table)[startAt]
    OBVIOUS
  <1>4. msg = [source |-> "mapping", mac |-> Nothing, device |-> table[startAt].device,
               key |-> table[startAt].key, registration |-> TRUE, content |-> <<"registration">>]
    BY <1>1, <1>3 DEF Registrations, Message
  <1>5. msg \in HubMsg
    BY <1>2, <1>4 DEF HubMsg, Msg, IsRegistration, Devices, Keys, Contents
  <1>6. toHub' \in Seq(HubMsg)
    BY <1>1, <1>3, <1>5, PublishedToHub
  <1> QED
    BY <1>1, <1>2, <1>6, QueueMoves DEF IInv, QueueTypes

LEMMA TelemetryInv == ASSUME IInv, NEW mac \in TelemetryMacs, Telemetry(mac) PROVE IInv'
  <1>1. PICK msg : msg = Message("ble", mac, Nothing, Nothing, <<"telemetry", mac>>)
    OBVIOUS
  <1>2. msg \in MapMsg
    BY <1>1 DEF Message, MapMsg, Msg, FromDevice, Contents
  <1>3. toMapping' = Append(toMapping, msg) /\ UnchangedByMap /\ UNCHANGED <<toHub, startAt>>
    BY <1>1 DEF Telemetry
  <1>4. toMapping' \in Seq(MapMsg)
    BY <1>2, <1>3 DEF IInv, QueueTypes
  <1> QED
    BY <1>3, <1>4, QueueMoves DEF IInv, QueueTypes, TableInv

\* IdentityMap_Receive turns a reading or a message from the hub into what it should be.
LEMMA RepublishedType ==
  ASSUME IInv, NEW m \in MapMsg, NEW out \in Republished(table, m)
  PROVE  out \in HubMsg
  <1>1. m \in Msg /\ ~m.registration
    BY DEF MapMsg
  <1>2. CASE FromDevice(m)
    <2>1. \E e \in FoundByMac(table, ToUpperCase(m.mac)) : out = RepublishD2C(m, e)
      BY <1>2 DEF FromDevice, Republished, Direction
    <2>2. PICK e \in Entries : e.mac = ToUpperCase(m.mac) /\ out = RepublishD2C(m, e)
      BY <2>1 DEF FoundByMac, Entries
    <2>3. out = [source |-> "mapping", mac |-> Nothing, device |-> e.device, key |-> e.key,
                 registration |-> FALSE, content |-> m.content]
      BY <1>1, <2>2 DEF RepublishD2C, Msg
    <2>4. m.content[1] = "telemetry" /\ m.content[2] = m.mac /\ m.content \in Contents
      BY <1>1, <1>2 DEF FromDevice, Msg
    <2>5. IsReading(out)
      BY <2>2, <2>3, <2>4 DEF IsReading
    <2>6. out \in Msg
      BY <2>2, <2>3, <2>4 DEF Msg, Devices, Keys
    <2> QED
      BY <2>3, <2>5, <2>6 DEF HubMsg
  <1>3. CASE FromHub(m)
    <2>1. \E e \in FoundByDevice(table, m.device) : out = RepublishC2D(m, e)
      BY <1>3 DEF FromHub, Republished, Direction
    <2>2. PICK e \in Entries : e.device = m.device /\ out = RepublishC2D(m, e)
      BY <2>1 DEF FoundByDevice, Entries
    <2>3. out = [source |-> "mapping", mac |-> e.mac, device |-> Nothing, key |-> Nothing,
                 registration |-> FALSE, content |-> m.content]
      BY <1>1, <2>2 DEF RepublishC2D, Msg
    <2>4. m.device # Junk
      BY <2>2 DEF IInv, TableInv, Devices
    <2>5. m.device = m.content[2] /\ m.content[1] \in Kinds /\ m.content \in Contents
      BY <1>1, <1>3, <2>4 DEF FromHub, Msg
    <2>6. IsCommand(out)
      BY <2>2, <2>3, <2>5 DEF IsCommand
    <2>7. out \in Msg
      BY <2>2, <2>3, <2>5 DEF Msg, Macs
    <2> QED
      BY <2>3, <2>6, <2>7 DEF HubMsg
  <1> QED
    BY <1>2, <1>3 DEF MapMsg

LEMMA MapReceiveInv == ASSUME IInv, MapReceive PROVE IInv'
  <1>1. PICK m \in MapMsg : m = Head(toMapping)
    BY DEF MapReceive, IInv, QueueTypes
  <1>2. toMapping' \in Seq(MapMsg) /\ UnchangedByMap /\ UNCHANGED startAt
    BY DEF MapReceive, IInv, QueueTypes
  <1>3. toHub' = toHub \/ \E out \in Republished(table, m) : PublishToHub(out)
    BY <1>1 DEF MapReceive
  <1>4. toHub' \in Seq(HubMsg)
    BY <1>3, RepublishedType, PublishedToHub DEF IInv, QueueTypes
  <1> QED
    BY <1>2, <1>4, QueueMoves DEF IInv, TableInv
-----------------------------------------------------------------------------
(* The invariant.                                                          *)

\* IdentityMap_Create leaves entries that name a configured device and key each.
LEMMA TableOf ==
  ASSUME NEW records \in Configurations, table \in Create(records)
  PROVE  /\ table \in Seq(Entries) /\ Junk \notin Devices /\ Nothing \notin Personality
  <1> DEFINE vector == ParseConfiguration(records)
  <1>1. vector # Nothing /\ table \in SortedByMac(vector)
    BY DEF Create
  <1>2. vector = [i \in DOMAIN records |-> [records[i] EXCEPT !.mac = ToUpperCase(@)]]
    BY <1>1 DEF ParseConfiguration
  <1>3. PICK p \in [DOMAIN vector -> DOMAIN vector] : table = [i \in DOMAIN vector |-> vector[p[i]]]
    BY <1>1 DEF SortedByMac
  <1>4. records \in Seq(Range(records)) /\ DOMAIN vector = 1..Len(records) /\ Len(records) \in Nat
    BY <1>2, PathAssumption
  <1>5. \A i \in DOMAIN table : \E r \in Range(records) :
            table[i].device = r.device /\ table[i].key = r.key
    <2>1. ASSUME NEW i \in DOMAIN table
          PROVE  \E r \in Range(records) : table[i].device = r.device /\ table[i].key = r.key
      <3>1. p[i] \in DOMAIN records /\ table[i] = [records[p[i]] EXCEPT !.mac = ToUpperCase(@)]
        BY <1>2, <1>3
      <3>2. PICK r \in Range(records) : r = records[p[i]]
        BY <3>1 DEF Range
      <3>3. r = [mac |-> r.mac, device |-> r.device, key |-> r.key]
        BY PathAssumption
      <3>4. table[i].device = r.device /\ table[i].key = r.key
        BY <3>1, <3>2, <3>3
      <3> QED
        BY <3>4
    <2> QED
      BY <2>1
  <1>6. table \in Seq(Entries)
    <2>1. \A i \in 1..Len(records) : table[i] \in Entries
      BY <1>3, <1>4 DEF Entries, Range
    <2>2. table = [i \in 1..Len(records) |-> table[i]]
      BY <1>3, <1>4
    <2> QED
      BY <1>4, <2>1, <2>2
  <1>7. /\ Devices \subseteq {r.device : r \in Range(records)}
        /\ Keys \subseteq {r.key : r \in Range(records)}
    BY <1>5 DEF Devices, Keys, Entries, Range
  <1>8. Junk \notin {r.device : r \in Range(records)}
    BY PathAssumption
  <1>9. Nothing \notin Personality
    <2>1. Nothing \notin [device : {r.device : r \in Range(records)}, key : {r.key : r \in Range(records)},
                          strings : {"live", "deleted"}, callbacks : SUBSET Kinds, context : BOOLEAN]
      BY PathAssumption, Zenon
    <2> QED
      BY <1>7, <2>1 DEF Personality
  <1> QED
    BY <1>6, <1>7, <1>8, <1>9

LEMMA InitInv == Init => IInv
  <1> SUFFICES ASSUME Init PROVE IInv
    OBVIOUS
  <1>1. PICK records \in Configurations : table \in Create(records)
    BY DEF Init
  <1>2. TableInv
    <2>1. Len(table) \in Nat
      BY <1>1, TableOf
    <2> QED
      BY <1>1, <2>1, TableOf DEF Init, TableInv
  <1>3. HubTypes /\ QueueTypes
    BY HubAssumption DEF Init, HubInit, HubTypes, QueueTypes
  <1>4. MakingInv /\ VectorInv
    BY HubAssumption DEF Init, HubInit, MakingInv, VectorInv, UnderWay, Idle, Made
  <1>5. CallbackInv /\ WindowInv /\ OnlyKnownWindows
    BY DEF Init, HubInit, CallbackInv, WindowInv, OnlyKnownWindows
  <1> QED
    BY <1>2, <1>3, <1>4, <1>5 DEF IInv

LEMMA StutterInv == ASSUME IInv, UNCHANGED vars PROVE IInv'
  <1>1. /\ UNCHANGED <<transport, per, size, receiving, callback, main, lock, refused, crashed, table>>
        /\ UNCHANGED <<toHub, toMapping, startAt>>
    BY DEF vars, hubVars
  <1>2. UnchangedByMap
    BY <1>1 DEF UnchangedByMap
  <1> QED
    BY <1>1, <1>2, QueueMoves DEF IInv, QueueTypes, TableInv

LEMMA NextInv == IInv /\ [Next]_vars => IInv'
  <1> SUFFICES ASSUME IInv, [Next]_vars PROVE IInv'
    OBVIOUS
  <1> USE DEF HubStep, Running
  <1>1. CASE HubStep(WorkerStep)
    BY <1>1, ReceiveInv, PersonalityCreateInv, SetMessageCallbackInv, SetTwinCallbacksInv,
       SetContextInv, PushBackInv, PersonalityDestroyInv, DeliverInv DEF WorkerStep
  <1>2. CASE \E id \in Ids, kind \in Kinds : HubStep(CallbackBegin(id, kind))
    BY <1>2, CallbackBeginInv
  <1>3. CASE \E id \in Ids : HubStep(CallbackStep(id))
    BY <1>3, CallbackPropertiesInv, CallbackPublishInv DEF CallbackStep
  <1>4. CASE HubStep(Detach)
    BY <1>4, DetachInv
  <1>5. CASE HubStep(DestroyStep)
    BY <1>5, DeleteStringsInv, ClientDestroyInv, DestroyReturnInv DEF DestroyStep
  <1>6. CASE Running(Register)
    BY <1>6, RegisterInv
  <1>7. CASE \E mac \in TelemetryMacs : Running(Telemetry(mac))
    BY <1>7, TelemetryInv
  <1>8. CASE Running(MapReceive)
    BY <1>8, MapReceiveInv
  <1>9. CASE UNCHANGED vars
    BY <1>9, StutterInv
  <1> QED
    BY <1>1, <1>2, <1>3, <1>4, <1>5, <1>6, <1>7, <1>8, <1>9 DEF Next

LEMMA SpecIInv == Spec => []IInv
  BY InitInv, NextInv, PTL DEF Spec
-----------------------------------------------------------------------------
(* The theorems.                                                           *)

\* No two clients are for one device, and each has the key configured for it.
THEOREM ClientsAreOnePerDevice == Spec => []PathInv
  <1>1. IInv => OneClientPerDevice
    <2> SUFFICES ASSUME IInv PROVE OneClientPerDevice
      OBVIOUS
    <2>1. \A i \in Ids : per[i] # Nothing =>
              \E t \in Entries : t.device = per[i].device /\ t.key = per[i].key
      BY DEF IInv, HubTypes, Personality
    <2>2. \A i, j \in Ids :
              per[i] # Nothing /\ per[j] # Nothing /\ per[i].device = per[j].device => i = j
      BY DEF IInv, VectorInv
    <2>3. QED
      BY <2>1, <2>2 DEF OneClientPerDevice, Entries
  <1>2. IInv => TypeOK
    <2> SUFFICES ASSUME IInv PROVE TypeOK
      OBVIOUS
    <2>1. \A i \in Ids : per[i] # Nothing =>
              /\ per[i].strings \in {"live", "deleted"} /\ per[i].callbacks \subseteq Kinds
              /\ per[i].context \in BOOLEAN
      BY DEF IInv, HubTypes, Personality
    <2>2. \A i \in Ids : callback[i] # Nothing => callback[i].pc \in {"properties", "publish"}
      BY DEF IInv, HubTypes, Callback
    <2>3. receiving.pc \in {"idle", "create", "message", "twin", "context", "push", "undo", "deliver"}
      BY DEF IInv, HubTypes, Receiving, Made, Idle
    <2>4. /\ main.pc \in {"attached", "strings", "client", "gone"}
          /\ main.at \in 0..(MaxPersonalities + 1)
      BY DEF IInv, HubTypes
    <2>5. QED
      BY <2>1, <2>2, <2>3, <2>4 DEF IInv, HubTypes, TableInv, TypeOK
  <1>3. IInv => PathInv
    BY <1>1, <1>2 DEF PathInv
  <1> QED
    BY <1>3, SpecIInv, PTL

\* Over the loop of links the hub gets the readings of devices, and the devices what the
\* hub sent them, each by the mapping of its address.
THEOREM MessagesReachTheirDevice == Spec => []RoutesAgree
  <1>1. IInv => RoutesAgree
    <2> SUFFICES ASSUME IInv PROVE RoutesAgree
      OBVIOUS
    <2>1. ASSUME receiving.pc = "deliver", ~receiving.msg.registration
          PROVE  /\ receiving.msg.content[1] = "telemetry"
                 /\ \E t \in Entries : /\ t.mac = ToUpperCase(receiving.msg.content[2])
                                      /\ t.device = per[receiving.who].device
      <3>1. receiving.msg \in HubMsg /\ IsForTheHub(receiving.msg)
        BY <2>1 DEF IInv, HubTypes, Receiving, Idle
      <3>2. IsReading(receiving.msg)
        BY <2>1, <3>1 DEF HubMsg, IsForTheHub, IsRegistration, IsCommand
      <3>3. per[receiving.who].device = receiving.msg.device
        BY <2>1 DEF IInv, MakingInv
      <3> QED
        BY <3>2, <3>3 DEF IsReading
    <2>2. ASSUME NEW m \in Range(toHub), m.mac # Nothing
          PROVE  /\ m.content[1] \in Kinds /\ {m.device, m.key} = {Nothing}
                 /\ \E t \in Entries : t.mac = m.mac /\ t.device = m.content[2]
      <3>1. m \in HubMsg
        BY DEF IInv, QueueTypes, Range
      <3>2. IsCommand(m)
        BY <2>2, <3>1 DEF HubMsg, IsRegistration, IsReading
      <3> QED
        BY <3>2 DEF IsCommand
    <2> QED
      BY <2>1, <2>2 DEF RoutesAgree, Entries
  <1> QED
    BY <1>1, SpecIInv, PTL

\* A broker that is not set, or strings that are freed, are only used in the known windows.
THEOREM WindowsAreKnown == Spec => []OnlyKnownWindows
  <1>1. IInv => OnlyKnownWindows
    BY DEF IInv
  <1> QED
    BY <1>1, SpecIInv, PTL
-----------------------------------------------------------------------------
(* The tables of the identity map.                                           *)
\* The order in which qsort may put n elements with the keys f.
Order(n, f) ==
    {q \in [1..n -> 1..n] :
        /\ \A i, j \in 1..n : q[i] = q[j] => i = j
        /\ \A i, j \in 1..n : i < j => f[q[i]] <= f[q[j]]}

\* Where an element with key v goes among n sorted ones: behind those not above it.
LEMMA PlaceFor ==
  ASSUME NEW n \in Nat, NEW f \in [1..n -> Nat], NEW v \in Nat,
         \A i, j \in 1..n : i < j => f[i] <= f[j]
  PROVE  \E k \in 1..(n + 1) : /\ \A i \in 1..n : i < k => f[i] <= v
                               /\ \A i \in 1..n : i >= k => v <= f[i]
  <1> DEFINE T == {m \in Nat : m <= n =>
                     \E k \in 1..(m + 1) : /\ \A i \in 1..m : i < k => f[i] <= v
                                           /\ \A i \in 1..m : i >= k => v <= f[i]}
  <1>1. 0 \in T
    <2>1. 1 \in 1..(0 + 1) /\ 1..0 = {}
      OBVIOUS
    <2> QED BY <2>1
  <1>2. ASSUME NEW m \in Nat, m \in T PROVE m + 1 \in T
    <2> SUFFICES ASSUME m + 1 <= n
                 PROVE  \E k \in 1..(m + 2) : /\ \A i \in 1..(m + 1) : i < k => f[i] <= v
                                              /\ \A i \in 1..(m + 1) : i >= k => v <= f[i]
      OBVIOUS
    <2>1. PICK k \in 1..(m + 1) : /\ \A i \in 1..m : i < k => f[i] <= v
                                  /\ \A i \in 1..m : i >= k => v <= f[i]
      BY <1>2
    <2>2. CASE v <= f[m + 1]
      <3>1. k \in 1..(m + 2) /\ k <= m + 1
        OBVIOUS
      <3>2. ASSUME NEW i \in 1..(m + 1)
            PROVE  (i < k => f[i] <= v) /\ (i >= k => v <= f[i])
        <4>1. i \in 1..m \/ i = m + 1
          OBVIOUS
        <4>2. ~(m + 1 < k)
          BY <3>1
        <4> QED BY <2>1, <2>2, <4>1, <4>2
      <3> QED BY <3>1, <3>2
    <2>3. CASE ~(v <= f[m + 1])
      <3>1. \A i \in 1..(m + 1) : f[i] <= f[m + 1] /\ f[i] \in Nat
        OBVIOUS
      <3>2. f[m + 1] <= v
        BY <2>3, <3>1
      <3>3. ASSUME NEW i \in 1..(m + 1) PROVE f[i] <= v /\ i < m + 2
        <4>1. i \in 1..m \/ i = m + 1
          OBVIOUS
        <4>2. i \in 1..m => f[i] <= v
          BY <2>1, <2>3, <3>1
        <4> QED BY <3>2, <4>1, <4>2
      <3>4. m + 2 \in 1..(m + 2) /\ \A i \in 1..(m + 1) : ~(i >= m + 2)
        OBVIOUS
      <3> QED BY <3>3, <3>4
    <2> QED BY <2>2, <2>3
  <1>3. n \in T
    <2> HIDE DEF T
    <2> QED BY <1>1, <1>2, InductionOnNat
  <1> QED BY <1>3

LEMMA OrderExists ==
  ASSUME NEW n \in Nat, NEW f \in [1..n -> Nat]
  PROVE  Order(n, f) # {}
  <1> DEFINE T == {m \in Nat : \A g \in [1..m -> Nat] : Order(m, g) # {}}
  <1>1. 0 \in T
    <2>1. ASSUME NEW g \in [1..0 -> Nat] PROVE [i \in 1..0 |-> i] \in Order(0, g)
      BY DEF Order
    <2> QED BY <2>1
  <1>2. ASSUME NEW m \in Nat, m \in T PROVE m + 1 \in T
    <2> SUFFICES ASSUME NEW g \in [1..(m + 1) -> Nat] PROVE Order(m + 1, g) # {}
      OBVIOUS
    <2> DEFINE front == [i \in 1..m |-> g[i]]
               v == g[m + 1]
    <2>1. front \in [1..m -> Nat] /\ v \in Nat
      OBVIOUS
    <2>2. PICK q \in Order(m, front) : TRUE
      BY <1>2, <2>1
    <2> DEFINE sorted == [i \in 1..m |-> front[q[i]]]
    <2>3. /\ q \in [1..m -> 1..m] /\ \A i, j \in 1..m : q[i] = q[j] => i = j
          /\ sorted \in [1..m -> Nat] /\ \A i, j \in 1..m : i < j => sorted[i] <= sorted[j]
      BY <2>1 DEF Order
    <2>4. PICK k \in 1..(m + 1) : /\ \A i \in 1..m : i < k => sorted[i] <= v
                                  /\ \A i \in 1..m : i >= k => v <= sorted[i]
      <3> HIDE DEF sorted, v
      <3> QED BY <2>1, <2>3, PlaceFor
    <2> DEFINE p == [i \in 1..(m + 1) |-> IF i < k THEN q[i] ELSE IF i = k THEN m + 1 ELSE q[i - 1]]
    <2>5. \A i \in 1..(m + 1) :
            /\ i < k => i \in 1..m /\ p[i] = q[i] /\ g[p[i]] = sorted[i]
            /\ i = k => p[i] = m + 1 /\ g[p[i]] = v
            /\ i > k => i - 1 \in 1..m /\ i - 1 >= k /\ p[i] = q[i - 1] /\ g[p[i]] = sorted[i - 1]
      <3> SUFFICES ASSUME NEW i \in 1..(m + 1)
                   PROVE  /\ i < k => i \in 1..m /\ p[i] = q[i] /\ g[p[i]] = sorted[i]
                          /\ i = k => p[i] = m + 1 /\ g[p[i]] = v
                          /\ i > k => /\ i - 1 \in 1..m /\ i - 1 >= k /\ p[i] = q[i - 1]
                                      /\ g[p[i]] = sorted[i - 1]
        OBVIOUS
      <3>1. \A j \in 1..m : g[q[j]] = sorted[j]
        BY <2>3
      <3>2. i < k => i \in 1..m /\ p[i] = q[i]
        OBVIOUS
      <3>3. i = k => p[i] = m + 1
        OBVIOUS
      <3>4. i > k => i - 1 \in 1..m /\ i - 1 >= k /\ p[i] = q[i - 1]
        OBVIOUS
      <3> HIDE DEF p, sorted
      <3> QED BY <3>1, <3>2, <3>3, <3>4
    <2>6. p \in [1..(m + 1) -> 1..(m + 1)]
      BY <2>3
    <2> HIDE DEF p, sorted, v
    <2>7. ASSUME NEW i \in 1..(m + 1), NEW j \in 1..(m + 1), i < j
          PROVE  p[i] # p[j] /\ g[p[i]] <= g[p[j]]
      <3>1. CASE j < k
        <4>1. /\ j \in 1..m /\ p[j] = q[j] /\ g[p[j]] = sorted[j]
              /\ i \in 1..m /\ p[i] = q[i] /\ g[p[i]] = sorted[i] /\ i # j
          BY <2>5, <2>7, <3>1
        <4>2. q[i] # q[j] /\ sorted[i] <= sorted[j]
          BY <2>3, <2>7, <4>1
        <4> QED BY <4>1, <4>2
      <3>2. CASE j = k
        <4>1. p[j] = m + 1 /\ g[p[j]] = v /\ i \in 1..m /\ p[i] = q[i] /\ g[p[i]] = sorted[i]
          BY <2>5, <2>7, <3>2
        <4>2. q[i] \in 1..m /\ sorted[i] <= v
          BY <2>3, <2>4, <2>7, <3>2, <4>1
        <4>3. q[i] # m + 1
          BY <4>2
        <4> QED BY <4>1, <4>2, <4>3
      <3>3. CASE j > k /\ i < k
        <4>1. /\ j - 1 \in 1..m /\ p[j] = q[j - 1] /\ g[p[j]] = sorted[j - 1]
              /\ i \in 1..m /\ p[i] = q[i] /\ g[p[i]] = sorted[i] /\ i < j - 1 /\ i # j - 1
          BY <2>5, <3>3
        <4>2. q[i] # q[j - 1] /\ sorted[i] <= sorted[j - 1]
          BY <2>3, <4>1
        <4> QED BY <4>1, <4>2
      <3>4. CASE j > k /\ i = k
        <4>1. /\ j - 1 \in 1..m /\ j - 1 >= k /\ p[j] = q[j - 1] /\ g[p[j]] = sorted[j - 1]
              /\ p[i] = m + 1 /\ g[p[i]] = v
          BY <2>5, <3>4
        <4>2. q[j - 1] # m + 1 /\ v <= sorted[j - 1]
          BY <2>3, <2>4, <4>1
        <4> QED BY <4>1, <4>2
      <3>5. CASE j > k /\ i > k
        <4>1. /\ j - 1 \in 1..m /\ p[j] = q[j - 1] /\ g[p[j]] = sorted[j - 1]
              /\ i - 1 \in 1..m /\ p[i] = q[i - 1] /\ g[p[i]] = sorted[i - 1] /\ i - 1 < j - 1
          BY <2>5, <2>7, <3>5
        <4>2. q[i - 1] # q[j - 1] /\ sorted[i - 1] <= sorted[j - 1]
          BY <2>3, <4>1
        <4> QED BY <4>1, <4>2
      <3>6. i < k \/ i = k \/ i > k
        OBVIOUS
      <3> QED BY <3>1, <3>2, <3>3, <3>4, <3>5, <3>6
    <2>8. ASSUME NEW i \in 1..(m + 1), NEW j \in 1..(m + 1), p[i] = p[j] PROVE i = j
      BY <2>7, <2>8
    <2> QED BY <2>6, <2>7, <2>8 DEF Order
  <1>3. n \in T
    <2> HIDE DEF T
    <2> QED BY <1>1, <1>2, InductionOnNat
  <1> QED BY <1>3

Lacks(r) == Nothing \in {r.mac, r.device, r.key}
InCapitals(r) == [mac |-> [addr |-> r.mac.addr, upper |-> TRUE], device |-> r.device, key |-> r.key]

\* The entries of a configuration, each of which may lack a string.
IsConfiguration(records, n) ==
    /\ n \in Nat /\ records = [i \in 1..n |-> records[i]]
    /\ \A i \in 1..n :
         /\ records[i] = [mac |-> records[i].mac, device |-> records[i].device, key |-> records[i].key]
         /\ records[i].mac = Nothing \/ records[i].mac \in [addr : Nat, upper : BOOLEAN]
    /\ Nothing # [i \in 1..n |-> InCapitals(records[i])]

LEMMA ParsedConfiguration ==
  ASSUME NEW n, NEW records, IsConfiguration(records, n)
  PROVE  LET vector == [i \in 1..n |-> InCapitals(records[i])]
         IN /\ (\E i \in 1..n : Lacks(records[i])) => ParseConfiguration(records) = Nothing
            /\ (\A i \in 1..n : ~Lacks(records[i])) => ParseConfiguration(records) = vector
  <1>1. DOMAIN records = 1..n
    BY DEF IsConfiguration
  <1>2. ASSUME NEW i \in 1..n PROVE Nothing \in Range(records[i]) <=> Lacks(records[i])
    <2>1. records[i] = [mac |-> records[i].mac, device |-> records[i].device, key |-> records[i].key]
      BY DEF IsConfiguration
    <2>2. DOMAIN records[i] = {"mac", "device", "key"}
      BY <2>1
    <2> QED BY <2>2 DEF Range, Lacks
  <1>3. ASSUME NEW i \in 1..n, ~Lacks(records[i])
        PROVE  [records[i] EXCEPT !.mac = ToUpperCase(@)] = InCapitals(records[i])
    <2>1. records[i] = [mac |-> records[i].mac, device |-> records[i].device, key |-> records[i].key]
      BY DEF IsConfiguration
    <2>2. records[i].mac \in [addr : Nat, upper : BOOLEAN] /\ records[i].mac # Nothing
      BY <1>3 DEF IsConfiguration, Lacks
    <2>3. ToUpperCase(records[i].mac) = [addr |-> records[i].mac.addr, upper |-> TRUE]
      BY <2>2 DEF ToUpperCase
    <2>4. PICK m : m = ToUpperCase(records[i].mac)
      OBVIOUS
    <2>5. [records[i] EXCEPT !.mac = m] = [mac |-> m, device |-> records[i].device, key |-> records[i].key]
      BY <2>1
    <2> QED BY <2>3, <2>4, <2>5 DEF InCapitals
  <1>4. ASSUME NEW i \in 1..n, Lacks(records[i]) PROVE ParseConfiguration(records) = Nothing
    BY <1>1, <1>2, <1>4 DEF ParseConfiguration
  <1>5. ASSUME \A i \in 1..n : ~Lacks(records[i])
        PROVE  ParseConfiguration(records) = [i \in 1..n |-> InCapitals(records[i])]
    <2>1. ParseConfiguration(records) =
            [i \in DOMAIN records |-> [records[i] EXCEPT !.mac = ToUpperCase(@)]]
      BY <1>1, <1>2, <1>5 DEF ParseConfiguration
    <2> QED BY <1>1, <1>3, <1>5, <2>1
  <1> QED BY <1>4, <1>5

\* IdentityMap_Create takes every configuration that has entries, all of them complete and
\* with a MAC address in canonical form, and refuses every other.
THEOREM CreateRefuses ==
  ASSUME NEW n, NEW records, IsConfiguration(records, n)
  PROVE  Create(records) = {} <=> \/ n = 0
                                  \/ \E i \in 1..n : Lacks(records[i]) \/ records[i].mac.addr = 0
  <1> DEFINE vector == [i \in 1..n |-> InCapitals(records[i])]
             f == [i \in 1..n |-> records[i].mac.addr]
  <1>1. CASE \E i \in 1..n : Lacks(records[i])
    BY <1>1, ParsedConfiguration DEF Create
  <1>2. CASE \A i \in 1..n : ~Lacks(records[i])
    <2>1. ParseConfiguration(records) = vector /\ n \in Nat
      <3>1. n \in Nat
        BY DEF IsConfiguration
      <3> QED BY <1>2, <3>1, ParsedConfiguration
    <2>2. f \in [1..n -> Nat]
      BY <1>2 DEF IsConfiguration, Lacks
    <2>3. /\ DOMAIN vector = 1..n /\ \A i \in 1..n : vector[i].mac.addr = f[i]
          /\ \A i \in 1..n : f[i] = records[i].mac.addr
      BY DEF InCapitals
    <2> HIDE DEF vector, f
    <2>4. PICK q \in Order(n, f) : TRUE
      BY <2>1, <2>2, OrderExists
    <2>5. [i \in DOMAIN vector |-> vector[q[i]]] \in SortedByMac(vector)
      <3>1. q \in [1..n -> 1..n] /\ IsInjective(q)
        BY <2>4 DEF Order, IsInjective
      <3>2. \A i, j \in 1..n : i < j => vector[q[i]].mac.addr <= vector[q[j]].mac.addr
        BY <2>3, <2>4, <3>1 DEF Order
      <3> QED BY <2>3, <3>1, <3>2 DEF SortedByMac
    <2>6. vector = <<>> <=> n = 0
      BY <2>1, <2>3
    <2>7. ValidateConfig(vector) <=> n # 0 /\ \A i \in 1..n : records[i].mac.addr # 0
      BY <2>3, <2>6 DEF ValidateConfig, IsCanonicalMAC
    <2>8. vector # Nothing
      BY DEF IsConfiguration, vector
    <2>9. Create(records) = IF ~ValidateConfig(vector) THEN {} ELSE SortedByMac(vector)
      BY <2>1, <2>8 DEF Create
    <2> QED BY <1>2, <2>5, <2>7, <2>9
  <1> QED BY <1>1, <1>2

\* A table of IdentityMap_Create has the entries configured and no other, their MAC addresses
\* in capitals and in canonical form, and is sorted by them, so that bsearch finds them.
THEOREM TablesAreSorted ==
  ASSUME NEW n, NEW records, IsConfiguration(records, n), NEW t \in Create(records)
  PROVE  /\ DOMAIN t = 1..n /\ n > 0
         /\ Range(t) = {InCapitals(records[i]) : i \in 1..n}
         /\ \A i \in 1..n : IsCanonicalMAC(t[i].mac) /\ ToUpperCase(t[i].mac) = t[i].mac
         /\ \A i, j \in 1..n : i < j => t[i].mac.addr <= t[j].mac.addr
  <1> DEFINE vector == [i \in 1..n |-> InCapitals(records[i])]
  <1>1. /\ \A i \in 1..n : ~Lacks(records[i]) /\ records[i].mac.addr # 0
        /\ n \in Nat /\ n > 0
    <2>1. Create(records) # {} /\ n \in Nat
      BY DEF IsConfiguration
    <2>2. n # 0 /\ \A i \in 1..n : ~(Lacks(records[i]) \/ records[i].mac.addr = 0)
      BY <2>1, CreateRefuses
    <2> QED BY <2>1, <2>2
  <1>2. ParseConfiguration(records) = vector
    BY <1>1, ParsedConfiguration
  <1>3. /\ DOMAIN vector = 1..n
        /\ \A i \in 1..n : vector[i] = InCapitals(records[i])
    OBVIOUS
  <1> HIDE DEF vector
  <1>4. t \in SortedByMac(vector)
    BY <1>2 DEF Create
  <1>5. PICK q \in [1..n -> 1..n] :
          /\ t = [i \in 1..n |-> vector[q[i]]] /\ IsInjective(q)
          /\ \A i, j \in 1..n : i < j => vector[q[i]].mac.addr <= vector[q[j]].mac.addr
    BY <1>3, <1>4 DEF SortedByMac
  <1>6. \A j \in 1..n : \E i \in 1..n : q[i] = j
    <2>1. q \in Injection(1..n, 1..n)
      BY <1>5 DEF Injection
    <2>2. IsFiniteSet(1..n)
      BY <1>1, FS_Interval
    <2>3. q \in Surjection(1..n, 1..n)
      BY <2>1, <2>2, FS_Injection
    <2> QED BY <2>3 DEF Surjection
  <1>7. \A i \in 1..n : t[i] = InCapitals(records[q[i]])
    BY <1>3, <1>5
  <1>8. Range(t) = {InCapitals(records[i]) : i \in 1..n}
    <2>1. DOMAIN t = 1..n /\ \A i \in 1..n : q[i] \in 1..n
      BY <1>5
    <2>2. \A i \in 1..n : t[i] \in {InCapitals(records[j]) : j \in 1..n}
      BY <1>7, <2>1
    <2>3. ASSUME NEW j \in 1..n PROVE \E i \in 1..n : t[i] = InCapitals(records[j])
      BY <1>6, <1>7
    <2> QED BY <2>1, <2>2, <2>3 DEF Range
  <1>9. ASSUME NEW i \in 1..n
        PROVE  IsCanonicalMAC(t[i].mac) /\ ToUpperCase(t[i].mac) = t[i].mac
    <2>1. t[i].mac = [addr |-> records[q[i]].mac.addr, upper |-> TRUE] /\ q[i] \in 1..n
      <3>1. q[i] \in 1..n
        BY <1>5
      <3>2. t[i] = InCapitals(records[q[i]])
        BY <1>7
      <3> QED BY <3>1, <3>2 DEF InCapitals
    <2>2. records[q[i]].mac.addr # 0
      BY <1>1, <2>1
    <2>3. PICK mac : mac = t[i].mac
      OBVIOUS
    <2>4. PICK a : a = records[q[i]].mac.addr
      OBVIOUS
    <2>5. mac = [addr |-> a, upper |-> TRUE] /\ a # 0
      BY <2>1, <2>2, <2>3, <2>4
    <2>6. mac.addr # 0 /\ [mac EXCEPT !.upper = TRUE] = mac
      <3>1. mac.addr = a /\ mac.upper = TRUE /\ mac \in [addr : {a}, upper : BOOLEAN]
        BY <2>5
      <3> QED BY <2>5, <3>1, Zenon
    <2> QED BY <2>3, <2>6 DEF IsCanonicalMAC, ToUpperCase
  <1> QED BY <1>1, <1>5, <1>8, <1>9
=============================================================================
