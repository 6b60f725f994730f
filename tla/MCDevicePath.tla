---------------------------- MODULE MCDevicePath ----------------------------
(* Two devices, told apart by one MAC address each; then a configuration    *)
(* where an address and a device both occur twice.                          *)
EXTENDS DevicePath

Entry(addr, device, key) == [mac |-> [Mac(addr) EXCEPT !.upper = FALSE], device |-> device, key |-> key]

TwoDevices == <<Entry(2, "d2", "k2"), Entry(1, "d1", "k1")>>
Twice == <<Entry(1, "d1", "k1"), Entry(1, "d2", "k2"), Entry(2, "d1", "k3")>>

MCConfigurations == {TwoDevices, Twice}
MCTelemetryMacs == {Mac(1), [addr |-> 2, upper |-> FALSE], Mac(0)}

\* IdentityMap_Create refuses an empty configuration, one with a MAC address in no
\* canonical form and one that lacks a string, and takes the two above.
ASSUME /\ \A bad \in {<<>>, Append(TwoDevices, Entry(0, "d3", "k4")), <<Entry(1, "d1", Nothing)>>} :
             Create(bad) = {}
       /\ Cardinality(Create(TwoDevices)) = 1 /\ Cardinality(Create(Twice)) = 2
=============================================================================
