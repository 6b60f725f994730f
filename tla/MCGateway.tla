------------------------------ MODULE MCGateway ------------------------------
(***************************************************************************)
(* Instances of Gateway for TLC.                                           *)
(***************************************************************************)
EXTENDS Gateway, TLC

CONSTANTS a, b, c, h1, h2, h3, v1, v2

M(n, v) == [name |-> n, version |-> v]
L(s, k) == [source |-> s, sink |-> k, type |-> "default"]
T(s, k) == [source |-> s, sink |-> k, type |-> "thread"]
Doc(ms, ls) == [modules |-> ms, links |-> ls, deploy |-> TRUE]

Symmetry == Permutations(Handles)

\* A gateway of two linked modules.
Two == {Doc(<<M(a, v1), M(b, v1)>>, <<L(a, b)>>)}

\* Links of every shape between three modules.
DefaultEntries == {L(a, b), L(b, a), L(AnySource, b), L(AnySource, c)}
MixedEntries == {T(a, b), L(a, c), T(AnySource, b), L(AnySource, b)}

\* The gateway alone, and updates of it: new modules with links between them and to the
\* old ones, an old module in a new version, one that is refused.
NoUpdates == {}
UpdateDocs ==
    {Doc(<<M(c, v1)>>, <<L(b, c), L(AnySource, c)>>),
     Doc(<<M(c, v1), M(a, v2)>>, <<L(a, c), L(c, b)>>),
     Doc(<<M(a, v1), M(c, v1)>>, <<L(a, c), L(a, b)>>),
     [Doc(<<M(c, v2)>>, <<L(c, a)>>) EXCEPT !.deploy = FALSE]}
OneUpdateDoc == {Doc(<<M(c, v1), M(a, v2)>>, <<L(a, c), L(AnySource, c)>>)}
UpgradeDocs == {Doc(<<M(a, v1), M(b, v1)>>, <<>>), Doc(<<M(a, v2), M(b, v1)>>, <<>>)}
OneModuleDocs == {Doc(<<M(a, v1)>>, <<>>), Doc(<<M(b, v1), M(a, v2)>>, <<>>)}
NoEntries == {}
=============================================================================
