------------------------------ MODULE MCBroker ------------------------------
(* Instances of Broker for TLC. *)
EXTENDS Broker, TLC

CONSTANTS A, B                       \* two modules

BothWays == {<<A, B>>, <<B, A>>}     \* A and B linked to each other
OneWay   == {<<A, B>>}
ToItself == {<<A, A>>}               \* a module linked to itself

\* Callers are interchangeable, and so are socket numbers (safety runs only).
Symmetry == Permutations(Callers) \cup Permutations(Fds)
=============================================================================
