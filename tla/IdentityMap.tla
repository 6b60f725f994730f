----------------------------- MODULE IdentityMap -----------------------------
(***************************************************************************)
(* The identity map module (modules/identitymap/src/identitymap.c): it      *)
(* turns the MAC address of a device into its name and key at the hub, and  *)
(* back.  Its tables never change once IdentityMap_Create has built them,   *)
(* so the module is a set of operators on tables and messages.              *)
(*                                                                         *)
(* A MAC address is [addr, upper]: which one, and whether it is written in  *)
(* capitals; addr 0 is text in no canonical form.  A message is a record of *)
(* the properties the modules of the path look at, Nothing where one is     *)
(* absent, and its content, which tells where the message began.            *)
(***************************************************************************)
EXTENDS Naturals, Sequences, FiniteSets, Functions

CONSTANT Nothing

Mac(addr) == [addr |-> addr, upper |-> TRUE]
ToUpperCase(mac) == IF mac = Nothing THEN Nothing ELSE [mac EXCEPT !.upper = TRUE]
IsCanonicalMAC(mac) == mac.addr # 0

-----------------------------------------------------------------------------
(* Configuration. *)

\* IdentityMap_ParseConfigurationFromJson: an entry that lacks a string fails it, the
\* others are copied, their MAC address in capitals.
ParseConfiguration(records) ==
    IF \E i \in DOMAIN records : Nothing \in Range(records[i]) THEN Nothing
    ELSE [i \in DOMAIN records |-> [records[i] EXCEPT !.mac = ToUpperCase(@)]]

ValidateConfig(vector) ==
    vector # <<>> /\ \A i \in DOMAIN vector : IsCanonicalMAC(vector[i].mac)

\* qsort by MAC address: in which order it leaves entries that compare equal is open.
SortedByMac(vector) ==
    {[i \in DOMAIN vector |-> vector[p[i]]] :
        p \in {q \in [DOMAIN vector -> DOMAIN vector] :
                 /\ IsInjective(q)
                 /\ \A i, j \in DOMAIN vector :
                       i < j => vector[q[i]].mac.addr <= vector[q[j]].mac.addr}}

\* IdentityMap_Create: the tables it may leave, {} when it returns NULL.  The table by
\* device has the same entries, and serves bsearch only.
Create(records) ==
    LET vector == ParseConfiguration(records)
    IN IF vector = Nothing THEN {}
       ELSE IF ~ValidateConfig(vector) THEN {} ELSE SortedByMac(vector)

-----------------------------------------------------------------------------
(* Messages. *)

Message(source, mac, device, key, content) ==
    [source |-> source, mac |-> mac, device |-> device, key |-> key,
     registration |-> FALSE, content |-> content]

\* IdentityMap_Start: one message for each mapping.
Registrations(table) ==
    [i \in DOMAIN table |->
        [Message("mapping", Nothing, table[i].device, table[i].key, <<"registration">>)
            EXCEPT !.registration = TRUE]]

\* bsearch: any of the entries that compare equal.
FoundByMac(table, mac) == {e \in Range(table) : e.mac = mac}
FoundByDevice(table, device) == {e \in Range(table) : e.device = device}

Direction(source) ==
    CASE source \in {Nothing, "mapping"} -> "dropped"
      [] source = "iothub"               -> "C2D"
      [] OTHER                           -> "D2C"

\* publish_with_new_properties clones the content, so it stays what it was.
RepublishD2C(msg, match) ==
    [msg EXCEPT !.device = match.device, !.key = match.key, !.source = "mapping", !.mac = Nothing]

\* Mutation of RepublishC2D: the device's name and key stay.
RepublishC2DNamed(msg, match) == [msg EXCEPT !.mac = match.mac, !.source = "mapping"]

RepublishC2D(msg, match) ==
    [msg EXCEPT !.mac = match.mac, !.source = "mapping", !.device = Nothing, !.key = Nothing]

\* IdentityMap_Receive: the messages it may publish, {} if it publishes none.
Republished(table, msg) ==
    LET mac == ToUpperCase(msg.mac)
    IN CASE Direction(msg.source) = "C2D" /\ msg.device # Nothing ->
              {RepublishC2D(msg, e) : e \in FoundByDevice(table, msg.device)}
         [] /\ Direction(msg.source) = "D2C" /\ mac # Nothing
            /\ Nothing \in {msg.device, msg.key} /\ IsCanonicalMAC(mac) ->
              {RepublishD2C(msg, e) : e \in FoundByMac(table, mac)}
         [] OTHER -> {}
=============================================================================
