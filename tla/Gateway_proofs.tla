--------------------------- MODULE Gateway_proofs ---------------------------
(***************************************************************************)
(* TLAPS proofs about Gateway: the registry, the broker and the nodes of   *)
(* thread links agree after any calls and failures, the gateway implements *)
(* GatewayGraph, an update that fails is undone, and default links deliver. *)
(*                                                                         *)
(* A step of the gateway is a sequence of calls, each of which may fail:   *)
(* every lemma about a call takes a gateway g that is Sound(g), and says what *)
(* it returns, so that the lemmas of a step follow the calls it makes.     *)
(***************************************************************************)
EXTENDS Gateway, NumberLemmas, FiniteSetTheorems, TLAPS

(* The gateway between two of its steps, as a predicate of its value: the   *)
(* calls inside a step pass it on from one to the next.                     *)
ModulesUnique(g) ==
    \A m1, m2 \in g.modules : m1.name = m2.name \/ m1.handle = m2.handle => m1 = m2

EndsLive(g) == \A l \in g.links : {l.source, l.sink} \subseteq Live(g) \cup {AnySource}

BrokerKnows(g) == g.attached = Live(g) /\ g.refs = Cardinality(g.modules) + 1

NodesCovered(g) ==
    \A p \in Pairs : /\ g.nodes[p] <= Covers(g, p)
                     /\ g.nodes[p] > 0 => {p[1], p[2]} \subseteq Live(g)

Sound(g) ==
    /\ g \in GatewayData /\ IsFiniteSet(g.modules)
    /\ ModulesUnique(g) /\ EndsLive(g) /\ BrokerKnows(g) /\ NodesCovered(g)
-----------------------------------------------------------------------------
(* What the operators return.                                               *)
LEMMA CountIs == \A b \in BOOLEAN : Count(b) \in {0, 1} /\ (Count(b) = 1 <=> b)
  BY DEF Count

LEMMA ModuleOfIs ==
  ASSUME NEW g, NEW n, Registered(g, n)
  PROVE  ModuleOf(g, n) \in g.modules /\ ModuleOf(g, n).name = n
  BY DEF Registered, ModuleOf

LEMMA LiveIs ==
  ASSUME NEW g \in GatewayData
  PROVE  Live(g) \in SUBSET Handles
  BY DEF GatewayData, ModuleData, Live

LEMMA AddLinksIs ==
  ASSUME NEW g \in GatewayData, NEW P \in SUBSET Pairs, NEW type
  PROVE  LET T == {p \in P : Threaded(g, p, type)}
             r == BrokerAddLinks(g, P, type)
         IN /\ r \in GatewayData
            /\ r.modules = g.modules /\ r.links = g.links /\ r.refs = g.refs
            /\ r.attached = g.attached /\ r.started = g.started
            /\ r.subs = g.subs \cup (P \ T)
            /\ r.nodes = [p \in Pairs |-> g.nodes[p] + Count(p \in T)]
            /\ r.threaded = g.threaded \cup {p[1] : p \in T}
  <1> DEFINE T == {p \in P : Threaded(g, p, type)}
             N == [p \in Pairs |-> g.nodes[p] + Count(p \in T)]
  <1>1. N \in [Pairs -> Nat]
    BY DEF GatewayData, Count
  <1>2. g.subs \cup (P \ T) \in SUBSET Pairs /\ g.threaded \cup {p[1] : p \in T} \in SUBSET Handles
    BY DEF GatewayData, Pairs
  <1> HIDE DEF N, T
  <1>3. BrokerAddLinks(g, P, type) =
           [g EXCEPT !.subs = @ \cup (P \ T), !.nodes = N, !.threaded = @ \cup {p[1] : p \in T}]
    BY DEF BrokerAddLinks, N, T, GatewayData
  <1> QED BY <1>1, <1>2, <1>3 DEF GatewayData, T, N

LEMMA RemoveLinksIs ==
  ASSUME NEW g \in GatewayData, NEW times \in [Pairs -> Nat]
  PROVE  LET r == BrokerRemoveLinks(g, times)
         IN /\ r \in GatewayData
            /\ r.modules = g.modules /\ r.links = g.links /\ r.refs = g.refs
            /\ r.attached = g.attached /\ r.started = g.started
            /\ r.subs = g.subs /\ r.threaded = g.threaded
            /\ r.nodes = [p \in Pairs |-> IF g.nodes[p] > times[p] THEN g.nodes[p] - times[p] ELSE 0]
  <1> DEFINE N == [p \in Pairs |-> IF g.nodes[p] > times[p] THEN g.nodes[p] - times[p] ELSE 0]
  <1>1. N \in [Pairs -> Nat]
    BY DEF GatewayData
  <1> HIDE DEF N
  <1>2. BrokerRemoveLinks(g, times) = [g EXCEPT !.nodes = N]
    BY DEF BrokerRemoveLinks, N, GatewayData
  <1> QED BY <1>1, <1>2 DEF GatewayData, N

LEMMA AddModuleIs ==
  ASSUME NEW g \in GatewayData, NEW n \in Names, NEW h \in Handles,
         disk \in [Names -> Versions \cup {NoVersion}]
  PROVE  LET r == AddModule(g, n, h)
         IN /\ r \in GatewayData
            /\ r.modules = g.modules \cup {[name |-> n, handle |-> h, code |-> disk[n]]}
            /\ r.links = g.links /\ r.refs = g.refs + 1 /\ r.attached = g.attached \cup {h}
            /\ r.subs = g.subs \cup ({h} \X AnySinks(g))
            /\ r.nodes = g.nodes /\ r.threaded = g.threaded /\ r.started = g.started
  <1> DEFINE g1 == [g EXCEPT !.attached = @ \cup {h}]
             P == {h} \X AnySinks(g)
             g2 == BrokerAddLinks(g1, P, "default")
             new == [name |-> n, handle |-> h, code |-> disk[n]]
  <1>1. /\ g1 \in GatewayData
        /\ g1.modules = g.modules /\ g1.links = g.links /\ g1.refs = g.refs
        /\ g1.attached = g.attached \cup {h} /\ g1.subs = g.subs
        /\ g1.nodes = g.nodes /\ g1.threaded = g.threaded /\ g1.started = g.started
    BY DEF GatewayData
  <1>2. P \in SUBSET Pairs
    BY DEF AnySinks, Pairs
  <1> HIDE DEF P, g1
  <1>3. \A p \in P : ~Threaded(g1, p, "default")
    BY DEF Threaded
  <1>4. /\ g2 \in GatewayData
        /\ g2.modules = g.modules /\ g2.links = g.links /\ g2.refs = g.refs
        /\ g2.attached = g.attached \cup {h} /\ g2.started = g.started
        /\ g2.subs = g.subs \cup P
        /\ g2.nodes = [p \in Pairs |-> g.nodes[p] + Count(FALSE)]
        /\ g2.threaded = g.threaded
    <2> DEFINE T == {p \in P : Threaded(g1, p, "default")}
    <2>1. T = {}
      BY <1>3
    <2> HIDE DEF g2
    <2>2. /\ g2 \in GatewayData
          /\ g2.modules = g1.modules /\ g2.links = g1.links /\ g2.refs = g1.refs
          /\ g2.attached = g1.attached /\ g2.started = g1.started
          /\ g2.subs = g1.subs \cup (P \ T)
          /\ g2.nodes = [p \in Pairs |-> g1.nodes[p] + Count(p \in T)]
          /\ g2.threaded = g1.threaded \cup {p[1] : p \in T}
      <3>1. g1 \in GatewayData
        BY <1>1
      <3>2. g2 = BrokerAddLinks(g1, P, "default")
        BY DEF g2
      <3> QED BY ONLY <3>1, <3>2, <1>2, AddLinksIs DEF T
    <2> HIDE DEF T
    <2>3. P \ T = P /\ g1.threaded \cup {p[1] : p \in T} = g1.threaded
      BY <2>1
    <2>4. \A p \in Pairs : (p \in T) = FALSE
      BY <2>1
    <2>5. [p \in Pairs |-> g1.nodes[p] + Count(p \in T)] = [p \in Pairs |-> g.nodes[p] + Count(FALSE)]
      BY <1>1, <2>4
    <2> QED BY <2>2, <2>3, <2>5, <1>1
  <1>5. [p \in Pairs |-> g.nodes[p] + Count(FALSE)] = g.nodes
    BY DEF GatewayData, Count
  <1>6. new \in ModuleData
    BY DEF ModuleData
  <1>7. AddModule(g, n, h) = [g2 EXCEPT !.modules = @ \cup {new}, !.refs = @ + 1]
    BY DEF AddModule, P, g1
  <1> HIDE DEF g2, new
  <1>8. /\ g2 \in GatewayData
        /\ g2.modules = g.modules /\ g2.links = g.links /\ g2.refs = g.refs
        /\ g2.attached = g.attached \cup {h} /\ g2.started = g.started
        /\ g2.subs = g.subs \cup P /\ g2.nodes = g.nodes /\ g2.threaded = g.threaded
    BY <1>4, <1>5
  <1> DEFINE r == [g2 EXCEPT !.modules = @ \cup {new}, !.refs = @ + 1]
  <1>9. r \in GatewayData
    <2>1. g2.modules \cup {new} \in SUBSET ModuleData /\ g2.refs + 1 \in Nat
      BY <1>8, <1>6 DEF GatewayData
    <2> QED BY <1>8, <2>1 DEF GatewayData
  <1>10. /\ r.modules = g2.modules \cup {new} /\ r.refs = g2.refs + 1 /\ r.links = g2.links
         /\ r.attached = g2.attached /\ r.subs = g2.subs /\ r.nodes = g2.nodes
         /\ r.threaded = g2.threaded /\ r.started = g2.started
    BY <1>8 DEF GatewayData
  <1> HIDE DEF r
  <1>11. AddModule(g, n, h) = r
    BY <1>7 DEF r
  <1> QED BY <1>8, <1>9, <1>10, <1>11 DEF P, new

LEMMA WithdrawnIs ==
  ASSUME NEW g \in GatewayData, NEW h \in Handles, AnySource \notin Handles
  PROVE  /\ [p \in Pairs |-> Withdrawn(g, h, p)] \in [Pairs -> Nat]
         /\ \A p \in Pairs : h \in {p[1], p[2]} /\ {p[1], p[2]} \subseteq Live(g)
                                => Covers(g, p) <= Withdrawn(g, h, p)
         /\ \A p \in Pairs : h \notin {p[1], p[2]} => Withdrawn(g, h, p) = 0
  BY DEF Withdrawn, Covers, Count, Pairs

LEMMA RemoveModuleIs ==
  ASSUME NEW g \in GatewayData, NEW m \in g.modules, g.refs > 0, AnySource \notin Handles
  PROVE  LET r == RemoveModule(g, m)
         IN /\ r \in GatewayData
            /\ r.modules = g.modules \ {m}
            /\ r.links = {l \in g.links : m.handle \notin {l.source, l.sink}}
            /\ r.refs = g.refs - 1 /\ r.attached = g.attached \ {m.handle}
            /\ r.subs = {p \in g.subs : p[2] # m.handle}
            /\ r.nodes = [p \in Pairs |-> IF g.nodes[p] > Withdrawn(g, m.handle, p)
                                          THEN g.nodes[p] - Withdrawn(g, m.handle, p) ELSE 0]
            /\ r.threaded = g.threaded \ {m.handle} /\ r.started = g.started \ {m.handle}
  <1> DEFINE h == m.handle
             times == [p \in Pairs |-> Withdrawn(g, h, p)]
             w == BrokerRemoveLinks(g, times)
             x == BrokerRemoveModule(w, h)
  <1>1. h \in Handles
    BY DEF GatewayData, ModuleData
  <1>2. times \in [Pairs -> Nat]
    BY <1>1, WithdrawnIs
  <1>3. \A p \in Pairs : times[p] = Withdrawn(g, h, p)
    OBVIOUS
  <1>4. RemoveModule(g, m) =
            [x EXCEPT !.links = {l \in @ : h \notin {l.source, l.sink}}, !.refs = @ - 1,
                      !.modules = @ \ {m}, !.started = @ \ {h}]
    BY DEF RemoveModule
  <1> HIDE DEF times, h
  <1>5. /\ w \in GatewayData
        /\ w.modules = g.modules /\ w.links = g.links /\ w.refs = g.refs
        /\ w.attached = g.attached /\ w.started = g.started
        /\ w.subs = g.subs /\ w.threaded = g.threaded
        /\ w.nodes = [p \in Pairs |-> IF g.nodes[p] > times[p] THEN g.nodes[p] - times[p] ELSE 0]
    BY <1>2, RemoveLinksIs
  <1> HIDE DEF w
  <1>6. /\ x \in GatewayData
        /\ x.modules = g.modules /\ x.links = g.links /\ x.refs = g.refs
        /\ x.attached = g.attached \ {h} /\ x.started = g.started
        /\ x.subs = {p \in g.subs : p[2] # h} /\ x.threaded = g.threaded \ {h}
        /\ x.nodes = w.nodes
    BY <1>5 DEF BrokerRemoveModule, GatewayData
  <1> HIDE DEF x
  <1>7. w.nodes = [p \in Pairs |-> IF g.nodes[p] > Withdrawn(g, h, p)
                                   THEN g.nodes[p] - Withdrawn(g, h, p) ELSE 0]
    BY <1>5, <1>3
  <1> DEFINE L == {l \in g.links : h \notin {l.source, l.sink}}
             r == [x EXCEPT !.links = L, !.refs = @ - 1, !.modules = @ \ {m}, !.started = @ \ {h}]
  <1>8. RemoveModule(g, m) = r
    BY <1>4, <1>6
  <1>9. L \in SUBSET g.links
    OBVIOUS
  <1> HIDE DEF L
  <1>10. r \in GatewayData
    <2>1. /\ x.refs - 1 \in Nat /\ x.modules \ {m} \in SUBSET ModuleData
          /\ x.started \ {h} \in SUBSET Handles /\ L \in SUBSET LinkData
      BY <1>6, <1>9 DEF GatewayData
    <2> QED BY <1>6, <2>1 DEF GatewayData
  <1>11. /\ r.modules = x.modules \ {m} /\ r.refs = x.refs - 1 /\ r.links = L
         /\ r.attached = x.attached /\ r.subs = x.subs /\ r.nodes = x.nodes
         /\ r.threaded = x.threaded /\ r.started = x.started \ {h}
    BY <1>6 DEF GatewayData
  <1> HIDE DEF r
  <1> QED BY <1>6, <1>7, <1>8, <1>10, <1>11 DEF h, L

LEMMA RoutesAre ==
  ASSUME NEW g \in GatewayData, NEW s \in Live(g) \cup {AnySource}, NEW k \in Live(g),
         AnySource \notin Handles
  PROVE  /\ Routes(g, s, k) \in SUBSET Pairs
         /\ \A p \in Routes(g, s, k) : {p[1], p[2]} \subseteq Live(g)
         /\ s = AnySource => \A p \in Pairs :
               p \in Routes(g, s, k) <=> p[1] \in Live(g) /\ p[1] # k /\ p[2] = k
         /\ s # AnySource => Routes(g, s, k) = {<<s, k>>}
  BY LiveIs DEF Routes, Pairs

LEMMA AddLinkIs ==
  ASSUME NEW g \in GatewayData, NEW e, EndsExist(g, e), AnySource \notin Handles
  PROVE  LET s == SourceOf(g, e)
             k == SinkOf(g, e)
             T == {p \in Routes(g, s, k) : Threaded(g, p, e.type)}
             r == AddLink(g, e)
         IN /\ r \in GatewayData
            /\ r.modules = g.modules /\ r.links = g.links \cup {LinkOf(s, k)} /\ r.refs = g.refs
            /\ r.attached = g.attached /\ r.started = g.started
            /\ r.subs = g.subs \cup (Routes(g, s, k) \ T)
            /\ r.nodes = [p \in Pairs |-> g.nodes[p] + Count(p \in T)]
            /\ r.threaded = g.threaded \cup {p[1] : p \in T}
  <1> DEFINE s == SourceOf(g, e)
             k == SinkOf(g, e)
             R == Routes(g, s, k)
             T == {p \in R : Threaded(g, p, e.type)}
             b == BrokerAddLinks(g, R, e.type)
  <1>1. s \in Live(g) \cup {AnySource} /\ k \in Live(g)
    BY ModuleOfIs DEF EndsExist, SourceOf, SinkOf, HandleOf, Live
  <1>2. AddLink(g, e) = [b EXCEPT !.links = @ \cup {LinkOf(s, k)}]
    BY DEF AddLink
  <1>3. LinkOf(s, k) \in LinkData
    BY <1>1, LiveIs DEF LinkOf, LinkData
  <1> HIDE DEF s, k
  <1>4. R \in SUBSET Pairs
    BY <1>1, RoutesAre
  <1> HIDE DEF R
  <1>5. /\ b \in GatewayData
        /\ b.modules = g.modules /\ b.links = g.links /\ b.refs = g.refs
        /\ b.attached = g.attached /\ b.started = g.started
        /\ b.subs = g.subs \cup (R \ T)
        /\ b.nodes = [p \in Pairs |-> g.nodes[p] + Count(p \in T)]
        /\ b.threaded = g.threaded \cup {p[1] : p \in T}
    BY ONLY <1>4, g \in GatewayData, AddLinksIs, SMTT(30) DEF b, T
  <1> HIDE DEF b, T
  <1> DEFINE new == LinkOf(s, k)
             r == [b EXCEPT !.links = @ \cup {new}]
  <1> HIDE DEF new
  <1>6. r \in GatewayData
    <2>1. b.links \cup {new} \in SUBSET LinkData
      BY <1>5, <1>3 DEF GatewayData, new
    <2> QED BY <1>5, <2>1 DEF GatewayData
  <1>7. /\ r.modules = b.modules /\ r.refs = b.refs /\ r.links = b.links \cup {new}
        /\ r.attached = b.attached /\ r.subs = b.subs /\ r.nodes = b.nodes
        /\ r.threaded = b.threaded /\ r.started = b.started
    BY <1>5 DEF GatewayData
  <1>8. AddLink(g, e) = r
    BY <1>2 DEF new
  <1> HIDE DEF r
  <1> QED BY <1>5, <1>6, <1>7, <1>8 DEF s, k, R, T, new

LEMMA RemoveLinkIs ==
  ASSUME NEW g \in GatewayData, NEW s, NEW k
  PROVE  LET r == RemoveLink(g, s, k)
         IN /\ r \in GatewayData
            /\ r.modules = g.modules /\ r.links = g.links \ {LinkOf(s, k)} /\ r.refs = g.refs
            /\ r.attached = g.attached /\ r.started = g.started
            /\ r.subs = g.subs /\ r.threaded = g.threaded
            /\ \A p \in Pairs : /\ r.nodes[p] \in Nat /\ r.nodes[p] <= g.nodes[p]
                                /\ p \in Routes(g, s, k) => r.nodes[p] = 0 \/ r.nodes[p] < g.nodes[p]
                                /\ p \notin Routes(g, s, k) => r.nodes[p] = g.nodes[p]
  <1> DEFINE times == [p \in Pairs |-> Count(p \in Routes(g, s, k))]
             b == BrokerRemoveLinks(g, times)
             old == LinkOf(s, k)
             r == [b EXCEPT !.links = @ \ {old}]
  <1>1. times \in [Pairs -> Nat] /\ \A p \in Pairs : times[p] = IF p \in Routes(g, s, k) THEN 1 ELSE 0
    BY DEF Count
  <1>2. RemoveLink(g, s, k) = r
    BY DEF RemoveLink
  <1> HIDE DEF times, old
  <1>3. /\ b \in GatewayData
        /\ b.modules = g.modules /\ b.links = g.links /\ b.refs = g.refs
        /\ b.attached = g.attached /\ b.started = g.started
        /\ b.subs = g.subs /\ b.threaded = g.threaded
        /\ b.nodes = [p \in Pairs |-> IF g.nodes[p] > times[p] THEN g.nodes[p] - times[p] ELSE 0]
    BY <1>1, RemoveLinksIs
  <1> HIDE DEF b
  <1>4. g.nodes \in [Pairs -> Nat]
    BY DEF GatewayData
  <1>5. \A p \in Pairs : /\ b.nodes[p] \in Nat /\ b.nodes[p] <= g.nodes[p]
                         /\ p \in Routes(g, s, k) => b.nodes[p] = 0 \/ b.nodes[p] < g.nodes[p]
                         /\ p \notin Routes(g, s, k) => b.nodes[p] = g.nodes[p]
    BY <1>1, <1>3, <1>4
  <1>6. r \in GatewayData
    <2>1. b.links \ {old} \in SUBSET LinkData
      BY <1>3 DEF GatewayData
    <2> QED BY <1>3, <2>1 DEF GatewayData
  <1>7. /\ r.modules = b.modules /\ r.refs = b.refs /\ r.links = b.links \ {old}
        /\ r.attached = b.attached /\ r.subs = b.subs /\ r.nodes = b.nodes
        /\ r.threaded = b.threaded /\ r.started = b.started
    BY <1>3 DEF GatewayData
  <1> HIDE DEF r
  <1> QED BY <1>2, <1>3, <1>5, <1>6, <1>7 DEF old

-----------------------------------------------------------------------------
(* Every change of the gateway leaves it sound.                             *)
LEMMA CoversIs ==
  ASSUME NEW g, NEW r, NEW p \in Pairs,
         LinkOf(p[1], p[2]) \in g.links => LinkOf(p[1], p[2]) \in r.links,
         p[2] \in AnySinks(g) => p[2] \in AnySinks(r)
  PROVE  Covers(g, p) \in Nat /\ Covers(r, p) \in Nat /\ Covers(g, p) <= Covers(r, p)
  BY DEF Covers, Count

LEMMA SoundWithFewerNodes ==
  ASSUME NEW g, Sound(g), NEW r \in GatewayData,
         r.modules = g.modules, r.links = g.links, r.refs = g.refs, r.attached = g.attached,
         \A p \in Pairs : r.nodes[p] <= g.nodes[p]
  PROVE  Sound(r)
  <1>1. Live(r) = Live(g) /\ \A p \in Pairs : Covers(r, p) = Covers(g, p) /\ Covers(g, p) \in Nat
    BY DEF Live, Covers, AnySinks, Count
  <1>2. \A p \in Pairs : r.nodes[p] \in Nat /\ g.nodes[p] \in Nat
    BY DEF Sound, GatewayData
  <1> QED BY <1>1, <1>2 DEF Sound, ModulesUnique, EndsLive, BrokerKnows, NodesCovered

LEMMA SoundAddModule ==
  ASSUME NEW g, Sound(g), NEW n \in Names, NEW h \in Handles \ Live(g), ~Registered(g, n),
         disk \in [Names -> Versions \cup {NoVersion}], AnySource \notin Handles
  PROVE  Sound(AddModule(g, n, h))
  <1> DEFINE r == AddModule(g, n, h)
             new == [name |-> n, handle |-> h, code |-> disk[n]]
  <1>1. g \in GatewayData /\ IsFiniteSet(g.modules)
    BY DEF Sound
  <1>2. /\ r \in GatewayData
        /\ r.modules = g.modules \cup {new} /\ r.links = g.links /\ r.refs = g.refs + 1
        /\ r.attached = g.attached \cup {h} /\ r.nodes = g.nodes
    BY <1>1, AddModuleIs
  <1> HIDE DEF r
  <1>3. new.name = n /\ new.handle = h
    OBVIOUS
  <1> HIDE DEF new
  <1>4. new \notin g.modules
    BY <1>3 DEF Registered
  <1>5. Live(r) = Live(g) \cup {h}
    BY <1>2, <1>3 DEF Live
  <1>6. IsFiniteSet(r.modules) /\ Cardinality(r.modules) = Cardinality(g.modules) + 1
    <2>1. IsFiniteSet(g.modules)
      BY <1>1
    <2>2. /\ IsFiniteSet(g.modules \cup {new})
          /\ Cardinality(g.modules \cup {new}) = Cardinality(g.modules) + 1
      BY <2>1, <1>4, FS_AddElement
    <2> QED BY <1>2, <2>2
  <1>7. ModulesUnique(r)
    BY <1>2, <1>3 DEF Sound, ModulesUnique, Registered, Live
  <1>8. EndsLive(r)
    BY <1>2, <1>5 DEF Sound, EndsLive
  <1>9. BrokerKnows(r)
    BY <1>2, <1>5, <1>6 DEF Sound, BrokerKnows
  <1>10. NodesCovered(r)
    <2>1. \A p \in Pairs : Covers(r, p) = Covers(g, p)
      BY <1>2 DEF Covers, AnySinks
    <2> QED BY <1>2, <1>5, <2>1 DEF Sound, NodesCovered
  <1> QED BY <1>2, <1>6, <1>7, <1>8, <1>9, <1>10 DEF Sound, r

LEMMA SoundRemoveModule ==
  ASSUME NEW g, Sound(g), NEW m \in g.modules, AnySource \notin Handles
  PROVE  Sound(RemoveModule(g, m))
  <1> DEFINE r == RemoveModule(g, m)
             h == m.handle
  <1>1. g \in GatewayData /\ IsFiniteSet(g.modules) /\ h \in Handles
    BY DEF Sound, GatewayData, ModuleData
  <1>2. /\ IsFiniteSet(g.modules \ {m}) /\ Cardinality(g.modules \ {m}) = Cardinality(g.modules) - 1
        /\ Cardinality(g.modules) \in Nat
    BY <1>1, FS_RemoveElement, FS_CardinalityType
  <1>3. g.refs > 0 /\ g.refs - 1 = Cardinality(g.modules \ {m}) + 1
    BY <1>2 DEF Sound, BrokerKnows
  <1>4. /\ r \in GatewayData
        /\ r.modules = g.modules \ {m}
        /\ r.links = {l \in g.links : h \notin {l.source, l.sink}}
        /\ r.refs = g.refs - 1 /\ r.attached = g.attached \ {h}
        /\ r.nodes = [p \in Pairs |-> IF g.nodes[p] > Withdrawn(g, h, p)
                                      THEN g.nodes[p] - Withdrawn(g, h, p) ELSE 0]
    BY <1>1, <1>3, RemoveModuleIs
  <1> HIDE DEF r, h
  <1>5. Live(r) = Live(g) \ {h}
    BY <1>4 DEF Live, Sound, ModulesUnique, h
  <1>6. ModulesUnique(r)
    BY <1>4 DEF Sound, ModulesUnique
  <1>7. EndsLive(r)
    BY <1>4, <1>5 DEF Sound, EndsLive
  <1>8. BrokerKnows(r)
    BY <1>3, <1>4, <1>5 DEF Sound, BrokerKnows
  <1>9. NodesCovered(r)
    <2> SUFFICES ASSUME NEW p \in Pairs
                 PROVE  r.nodes[p] <= Covers(r, p) /\ (r.nodes[p] > 0 => {p[1], p[2]} \subseteq Live(r))
      BY DEF NodesCovered
    <2>1. /\ g.nodes[p] \in Nat /\ g.nodes[p] <= Covers(g, p)
          /\ g.nodes[p] > 0 => {p[1], p[2]} \subseteq Live(g)
      BY <1>1 DEF Sound, NodesCovered, GatewayData
    <2>2. Covers(g, p) \in Nat /\ Covers(r, p) \in Nat
      BY DEF Covers, Count
    <2>3. Withdrawn(g, h, p) \in Nat
      BY DEF Withdrawn, Count
    <2>4. CASE h \in {p[1], p[2]}
      <3>1. {p[1], p[2]} \subseteq Live(g) => Covers(g, p) <= Withdrawn(g, h, p)
        BY <1>1, <2>4, WithdrawnIs
      <3>2. r.nodes[p] = 0
        BY <1>4, <2>1, <2>2, <2>3, <3>1
      <3> QED BY <2>2, <3>2
    <2>5. CASE h \notin {p[1], p[2]}
      <3>1. Withdrawn(g, h, p) = 0
        BY <1>1, <2>5, WithdrawnIs
      <3>2. r.nodes[p] = g.nodes[p]
        BY <1>4, <2>1, <3>1
      <3>3. \A l \in g.links : h \notin {l.source, l.sink} => l \in r.links
        BY <1>4
      <3>4. LinkOf(p[1], p[2]) \in g.links => LinkOf(p[1], p[2]) \in r.links
        BY <2>5, <3>3 DEF LinkOf
      <3>5. p[2] \in AnySinks(g) => p[2] \in AnySinks(r)
        BY <1>1, <2>5, <3>3 DEF LinkOf, AnySinks
      <3>6. Covers(g, p) <= Covers(r, p)
        BY <3>4, <3>5, CoversIs
      <3> QED BY <1>5, <2>1, <2>2, <2>5, <3>2, <3>6
    <2> QED BY <2>4, <2>5
  <1> QED BY <1>2, <1>4, <1>6, <1>7, <1>8, <1>9 DEF Sound, r

LEMMA SoundAddLink ==
  ASSUME NEW g, Sound(g), NEW e, EndsExist(g, e), ~LinkExists(g, e), AnySource \notin Handles
  PROVE  Sound(AddLink(g, e))
  <1> DEFINE s == SourceOf(g, e)
             k == SinkOf(g, e)
             R == Routes(g, s, k)
             T == {p \in R : Threaded(g, p, e.type)}
             r == AddLink(g, e)
  <1>1. g \in GatewayData
    BY DEF Sound
  <1>2. s \in Live(g) \cup {AnySource} /\ k \in Live(g) /\ LinkOf(s, k) \notin g.links
    BY ModuleOfIs DEF EndsExist, LinkExists, SourceOf, SinkOf, HandleOf, Live
  <1>3. /\ r \in GatewayData
        /\ r.modules = g.modules /\ r.links = g.links \cup {LinkOf(s, k)} /\ r.refs = g.refs
        /\ r.attached = g.attached
        /\ r.nodes = [p \in Pairs |-> g.nodes[p] + Count(p \in T)]
    BY <1>1, AddLinkIs
  <1> HIDE DEF r, s, k
  <1>4. /\ R \in SUBSET Pairs /\ \A p \in R : {p[1], p[2]} \subseteq Live(g)
        /\ s = AnySource => \A p \in Pairs : p \in R <=> p[1] \in Live(g) /\ p[1] # k /\ p[2] = k
        /\ s # AnySource => R = {<<s, k>>}
    BY <1>1, <1>2, RoutesAre
  <1> HIDE DEF R
  <1>5. Live(r) = Live(g) /\ Live(g) \subseteq Handles
    BY <1>1, <1>3, LiveIs DEF Live
  <1>6. ModulesUnique(r)
    BY <1>3 DEF Sound, ModulesUnique
  <1>7. EndsLive(r)
    BY <1>2, <1>3, <1>5 DEF Sound, EndsLive, LinkOf
  <1>8. BrokerKnows(r)
    BY <1>3, <1>5 DEF Sound, BrokerKnows
  <1>9. NodesCovered(r)
    <2> SUFFICES ASSUME NEW p \in Pairs
                 PROVE  r.nodes[p] <= Covers(r, p) /\ (r.nodes[p] > 0 => {p[1], p[2]} \subseteq Live(r))
      BY DEF NodesCovered
    <2>1. /\ g.nodes[p] \in Nat /\ g.nodes[p] <= Covers(g, p)
          /\ g.nodes[p] > 0 => {p[1], p[2]} \subseteq Live(g)
      BY <1>1 DEF Sound, NodesCovered, GatewayData
    <2>2. Covers(g, p) \in Nat /\ Covers(r, p) \in Nat /\ Covers(g, p) <= Covers(r, p)
      BY <1>3, CoversIs DEF AnySinks
    <2>3. CASE p \in T
      <3>1. r.nodes[p] = g.nodes[p] + 1
        BY <1>3, <2>3 DEF Count
      <3>2. Covers(r, p) = Covers(g, p) + 1
        <4>1. CASE s = AnySource
          <5>1. p[1] \in Live(g) /\ p[1] # k /\ p[2] = k
            BY <2>3, <1>4, <4>1
          <5>2. p[1] # AnySource /\ LinkOf(p[1], p[2]) # LinkOf(s, k)
            BY <5>1, <4>1, <1>5 DEF LinkOf
          <5>3. LinkOf(p[1], p[2]) \in r.links <=> LinkOf(p[1], p[2]) \in g.links
            BY <5>2, <1>3
          <5>4. k \notin AnySinks(g) /\ k \in AnySinks(r)
            BY <1>2, <1>3, <1>5, <4>1 DEF AnySinks
          <5> QED BY <5>1, <5>3, <5>4 DEF Covers, Count
        <4>2. CASE s # AnySource
          <5>1. p[1] = s /\ p[2] = k
            BY <2>3, <1>4, <4>2
          <5>2. LinkOf(AnySource, k) # LinkOf(s, k)
            BY <4>2 DEF LinkOf
          <5>3. k \in AnySinks(r) <=> k \in AnySinks(g)
            BY <5>2, <1>3 DEF AnySinks
          <5> QED BY <5>1, <5>3, <1>2, <1>3 DEF Covers, Count
        <4> QED BY <4>1, <4>2
      <3> QED BY <1>4, <1>5, <2>1, <2>2, <2>3, <3>1, <3>2
    <2>4. CASE p \notin T
      <3>1. r.nodes[p] = g.nodes[p]
        BY <1>3, <2>1, <2>4 DEF Count
      <3> QED BY <1>5, <2>1, <2>2, <3>1
    <2> QED BY <2>3, <2>4
  <1> QED BY <1>3, <1>6, <1>7, <1>8, <1>9 DEF Sound, r

LEMMA SoundRemoveLink ==
  ASSUME NEW g, Sound(g), NEW s, NEW k, LinkOf(s, k) \in g.links, AnySource \notin Handles
  PROVE  Sound(RemoveLink(g, s, k))
  <1> DEFINE r == RemoveLink(g, s, k)
  <1>1. g \in GatewayData
    BY DEF Sound
  <1>2. s \in Live(g) \cup {AnySource} /\ k \in Live(g) /\ Live(g) \subseteq Handles
    <2>1. LinkOf(s, k) \in LinkData
      BY <1>1 DEF GatewayData
    <2>2. k \in Handles
      BY <2>1 DEF LinkOf, LinkData
    <2> QED BY <1>1, <2>2, LiveIs DEF Sound, EndsLive, LinkOf
  <1>3. /\ r \in GatewayData
        /\ r.modules = g.modules /\ r.links = g.links \ {LinkOf(s, k)} /\ r.refs = g.refs
        /\ r.attached = g.attached /\ r.started = g.started
        /\ r.subs = g.subs /\ r.threaded = g.threaded
        /\ \A p \in Pairs : /\ r.nodes[p] \in Nat /\ r.nodes[p] <= g.nodes[p]
                            /\ p \in Routes(g, s, k) => r.nodes[p] = 0 \/ r.nodes[p] < g.nodes[p]
    BY ONLY <1>1, RemoveLinkIs DEF r
  <1> HIDE DEF r
  <1>7. \A p \in Pairs : r.nodes[p] \in Nat /\ r.nodes[p] <= g.nodes[p]
    BY ONLY <1>3
  <1>8. \A p \in Pairs : p \in Routes(g, s, k) => r.nodes[p] = 0 \/ r.nodes[p] < g.nodes[p]
    BY ONLY <1>3
  <1>4. Live(r) = Live(g)
    BY <1>3 DEF Live
  <1>5. ModulesUnique(r) /\ EndsLive(r) /\ BrokerKnows(r)
    BY <1>3, <1>4 DEF Sound, ModulesUnique, EndsLive, BrokerKnows
  <1>6. NodesCovered(r)
    <2> SUFFICES ASSUME NEW p \in Pairs
                 PROVE  r.nodes[p] <= Covers(r, p) /\ (r.nodes[p] > 0 => {p[1], p[2]} \subseteq Live(r))
      BY DEF NodesCovered
    <2>1. /\ g.nodes[p] \in Nat /\ g.nodes[p] <= Covers(g, p)
          /\ g.nodes[p] > 0 => {p[1], p[2]} \subseteq Live(g)
      BY <1>1 DEF Sound, NodesCovered, GatewayData
    <2>2. Covers(g, p) \in Nat /\ Covers(r, p) \in Nat
      BY DEF Covers, Count
    <2>3. r.nodes[p] \in Nat /\ r.nodes[p] <= g.nodes[p]
      BY <1>7
    <2>4. r.nodes[p] > 0 => {p[1], p[2]} \subseteq Live(r)
      BY <1>4, <2>1, <2>3
    <2>5. CASE r.nodes[p] = 0
      BY <2>2, <2>5
    <2>6. CASE r.nodes[p] > 0 /\ p \in Routes(g, s, k)
      <3>1. r.nodes[p] < g.nodes[p]
        <4>1. r.nodes[p] = 0 \/ r.nodes[p] < g.nodes[p]
          BY <1>8, <2>6
        <4> QED BY <2>3, <2>6, <4>1
      <3>2. Covers(g, p) <= Covers(r, p) + 1
        <4>1. CASE s = AnySource
          <5>1. p[1] \in Live(g)
            BY <1>2, <2>6, <4>1 DEF Routes
          <5>2. LinkOf(p[1], p[2]) # LinkOf(s, k)
            BY <1>2, <4>1, <5>1 DEF LinkOf
          <5> QED BY <1>3, <5>2 DEF Covers, Count
        <4>2. CASE s # AnySource
          <5>1. \A x : LinkOf(AnySource, x) # LinkOf(s, k)
            BY <4>2 DEF LinkOf
          <5> QED BY <1>3, <5>1 DEF Covers, Count, AnySinks
        <4> QED BY <4>1, <4>2
      <3> QED BY <2>1, <2>2, <2>3, <2>4, <3>1, <3>2
    <2>7. CASE r.nodes[p] > 0 /\ p \notin Routes(g, s, k)
      <3>1. p[1] \in Live(g) /\ p[2] \in Live(g)
        BY <2>1, <2>3, <2>7
      <3>2. Covers(g, p) = Covers(r, p)
        <4>1. CASE s = AnySource
          <5>1. p[1] = k \/ p[2] # k
            BY <2>7, <3>1, <4>1 DEF Routes, Pairs
          <5>2. LinkOf(p[1], p[2]) # LinkOf(s, k)
            BY <1>2, <4>1, <3>1 DEF LinkOf
          <5>3. p[1] # p[2] => LinkOf(AnySource, p[2]) # LinkOf(s, k)
            BY <5>1 DEF LinkOf
          <5> QED BY <1>3, <5>2, <5>3 DEF Covers, Count, AnySinks
        <4>2. CASE s # AnySource
          <5>1. p # <<s, k>>
            BY <2>7, <4>2 DEF Routes
          <5>2. LinkOf(p[1], p[2]) # LinkOf(s, k) /\ LinkOf(AnySource, p[2]) # LinkOf(s, k)
            BY <5>1, <4>2 DEF LinkOf, Pairs
          <5> QED BY <1>3, <5>2 DEF Covers, Count, AnySinks
        <4> QED BY <4>1, <4>2
      <3> QED BY <2>1, <2>2, <2>3, <2>4, <3>2
    <2> QED BY <2>3, <2>5, <2>6, <2>7
  <1> QED BY <1>3, <1>5, <1>6 DEF Sound, r

LEMMA SoundAddLinkFails ==
  ASSUME NEW g, Sound(g), NEW e, EndsExist(g, e), AnySource \notin Handles,
         NEW made \in SUBSET Routes(g, SourceOf(g, e), SinkOf(g, e))
  PROVE  /\ Sound(AddLinkFails(g, e, made))
         /\ AddLinkFails(g, e, made).modules = g.modules
         /\ AddLinkFails(g, e, made).links = g.links
         /\ g.subs \subseteq AddLinkFails(g, e, made).subs
         /\ AddLinkFails(g, e, made).threaded =
               g.threaded \cup {p[1] : p \in {x \in made : Threaded(g, x, e.type)}}
         /\ \A p \in Pairs \ Routes(g, SourceOf(g, e), SinkOf(g, e)) :
               AddLinkFails(g, e, made).nodes[p] = g.nodes[p]
  <1> DEFINE s == SourceOf(g, e)
             k == SinkOf(g, e)
             R == Routes(g, s, k)
             M == made
             T == {p \in M : Threaded(g, p, e.type)}
             b == BrokerAddLinks(g, M, e.type)
             times == [p \in Pairs |-> Count(p \in R)]
             r == BrokerRemoveLinks(b, times)
  <1>1. g \in GatewayData
    BY DEF Sound
  <1>2. s \in Live(g) \cup {AnySource} /\ k \in Live(g)
    BY ModuleOfIs DEF EndsExist, SourceOf, SinkOf, HandleOf, Live
  <1>3. AddLinkFails(g, e, made) = r
    BY DEF AddLinkFails
  <1>4. M \in SUBSET R
    OBVIOUS
  <1> HIDE DEF s, k
  <1>5. R \in SUBSET Pairs
    BY <1>1, <1>2, RoutesAre
  <1> HIDE DEF R
  <1> HIDE DEF M
  <1>6. M \in SUBSET Pairs
    BY <1>4, <1>5
  <1>7. /\ b \in GatewayData
        /\ b.modules = g.modules /\ b.links = g.links /\ b.refs = g.refs
        /\ b.attached = g.attached /\ b.started = g.started
        /\ b.subs = g.subs \cup (M \ T)
        /\ b.nodes = [p \in Pairs |-> g.nodes[p] + Count(p \in T)]
        /\ b.threaded = g.threaded \cup {p[1] : p \in T}
    BY ONLY <1>6, <1>1, AddLinksIs DEF b, T
  <1>8. times \in [Pairs -> Nat] /\ \A p \in Pairs : times[p] = IF p \in R THEN 1 ELSE 0
    BY DEF Count
  <1>9. T \subseteq R
    BY <1>4
  <1> HIDE DEF b, T, times
  <1>10. /\ r \in GatewayData
         /\ r.modules = b.modules /\ r.links = b.links /\ r.refs = b.refs
         /\ r.attached = b.attached /\ r.subs = b.subs /\ r.threaded = b.threaded
         /\ r.nodes = [p \in Pairs |-> IF b.nodes[p] > times[p] THEN b.nodes[p] - times[p] ELSE 0]
    BY <1>7, <1>8, RemoveLinksIs
  <1> HIDE DEF r
  <1>11. \A p \in Pairs : r.nodes[p] <= g.nodes[p]
    <2> SUFFICES ASSUME NEW p \in Pairs PROVE r.nodes[p] <= g.nodes[p]
      OBVIOUS
    <2>1. g.nodes[p] \in Nat /\ times[p] \in Nat
      BY <1>1, <1>8 DEF GatewayData
    <2>2. CASE p \in T
      <3>1. times[p] = 1 /\ b.nodes[p] = g.nodes[p] + 1
        BY <1>7, <1>8, <1>9, <2>2 DEF Count
      <3> QED BY <1>10, <2>1, <3>1
    <2>3. CASE p \notin T
      <3>1. b.nodes[p] = g.nodes[p]
        BY <1>7, <2>1, <2>3 DEF Count
      <3> QED BY <1>10, <2>1, <3>1
    <2> QED BY <2>2, <2>3
  <1>12. Sound(r)
    BY <1>7, <1>10, <1>11, SoundWithFewerNodes
  <1>13. \A p \in Pairs \ R : r.nodes[p] = g.nodes[p]
    <2> SUFFICES ASSUME NEW p \in Pairs \ R PROVE r.nodes[p] = g.nodes[p]
      OBVIOUS
    <2>1. g.nodes[p] \in Nat /\ times[p] = 0 /\ p \notin T
      BY <1>1, <1>8, <1>9 DEF GatewayData
    <2>2. b.nodes[p] = g.nodes[p]
      BY <1>7, <2>1 DEF Count
    <2> QED BY <1>10, <2>1, <2>2
  <1> QED BY <1>3, <1>7, <1>10, <1>12, <1>13 DEF s, k, R, T, M

\* A failed call of Broker_AddLink changes at most which modules have a senderThMsg.
LEMMA BrokerAddFailsIs ==
  ASSUME NEW g \in GatewayData, NEW P \in SUBSET Pairs, NEW type,
         NEW r \in BrokerAddFails(g, P, type)
  PROVE  /\ r \in GatewayData
         /\ r.modules = g.modules /\ r.links = g.links /\ r.refs = g.refs
         /\ r.attached = g.attached /\ r.subs = g.subs /\ r.nodes = g.nodes
         /\ r.started = g.started /\ g.threaded \subseteq r.threaded
         /\ r.threaded \subseteq g.threaded \cup {p[1] : p \in {x \in P : Threaded(g, x, type)}}
  <1>1. PICK T \in {{}} \cup {{p} : p \in {x \in P : Threaded(g, x, type)}} :
           r = [g EXCEPT !.threaded = @ \cup {p[1] : p \in T}]
    BY DEF BrokerAddFails
  <1>2. T \subseteq {x \in P : Threaded(g, x, type)}
    OBVIOUS
  <1>3. PICK N : N = g.threaded \cup {p[1] : p \in T}
    OBVIOUS
  <1>4. N \in SUBSET Handles
    BY <1>2, <1>3 DEF GatewayData, Pairs
  <1>5. r = [g EXCEPT !.threaded = N]
    BY <1>1, <1>3 DEF GatewayData
  <1>6. /\ r \in GatewayData
        /\ r.modules = g.modules /\ r.links = g.links /\ r.refs = g.refs
        /\ r.attached = g.attached /\ r.subs = g.subs /\ r.nodes = g.nodes
        /\ r.started = g.started /\ r.threaded = N
    BY ONLY <1>4, <1>5, g \in GatewayData DEF GatewayData
  <1>7. N \subseteq g.threaded \cup {p[1] : p \in {x \in P : Threaded(g, x, type)}}
    BY <1>2, <1>3
  <1> QED BY <1>3, <1>6, <1>7

\* ... so that the gateway stays sound.
LEMMA SoundBrokerAddFails ==
  ASSUME NEW g, Sound(g), NEW P \in SUBSET Pairs, NEW type, NEW r \in BrokerAddFails(g, P, type)
  PROVE  Sound(r) /\ r.modules = g.modules /\ r.links = g.links
  <1>1. g \in GatewayData
    BY DEF Sound
  <1>2. /\ r \in GatewayData
        /\ r.modules = g.modules /\ r.links = g.links /\ r.refs = g.refs
        /\ r.attached = g.attached /\ r.nodes = g.nodes
    BY <1>1, BrokerAddFailsIs
  <1>3. \A p \in Pairs : r.nodes[p] <= g.nodes[p]
    BY <1>1, <1>2 DEF GatewayData
  <1> QED BY <1>2, <1>3, SoundWithFewerNodes

\* The pairs of a link that is to be added.
LEMMA LinkRoutes ==
  ASSUME NEW g, Sound(g), NEW e, EndsExist(g, e), AnySource \notin Handles
  PROVE  Routes(g, SourceOf(g, e), SinkOf(g, e)) \in SUBSET Pairs
  <1>1. SourceOf(g, e) \in Live(g) \cup {AnySource} /\ SinkOf(g, e) \in Live(g)
    BY ModuleOfIs DEF EndsExist, SourceOf, SinkOf, HandleOf, Live
  <1> QED BY <1>1, RoutesAre DEF Sound

-----------------------------------------------------------------------------
(* The gateway as a graph of names.                                         *)
Ends == Names \cup {AnySource}
Ident(g, n) == IF n = AnySource THEN AnySource ELSE HandleOf(g, n)

LEMMA NamesAre ==
  ASSUME NEW g \in GatewayData, NEW n
  PROVE  n \in NamesOf(g) <=> Registered(g, n)
  BY DEF NamesOf, Registered

LEMMA NamedByIs ==
  ASSUME NEW g, Sound(g), NEW x, NEW n \in Ends, AnySource \notin Names \cup Handles
  PROVE  NamedBy(g, x, n) <=> (n = AnySource \/ Registered(g, n)) /\ x = Ident(g, n)
  <1>1. CASE n = AnySource
    BY <1>1 DEF NamedBy, Ident, Ends, Sound, GatewayData, ModuleData
  <1>2. CASE n # AnySource
    <2>1. NamedBy(g, x, n) <=> \E m \in g.modules : m.handle = x /\ m.name = n
      BY <1>2 DEF NamedBy
    <2>2. Registered(g, n) => ModuleOf(g, n) \in g.modules /\ ModuleOf(g, n).name = n
      BY ModuleOfIs
    <2>3. \A m \in g.modules : m.name = n => m = ModuleOf(g, n)
      BY <2>2 DEF Sound, ModulesUnique, Registered
    <2> QED BY <1>2, <2>1, <2>2, <2>3 DEF Ident, HandleOf, Registered
  <1> QED BY <1>1, <1>2

\* An edge is a link between the two modules it names.
LEMMA EdgesAre ==
  ASSUME NEW g, Sound(g), NEW s \in Ends, NEW k \in Names, AnySource \notin Names \cup Handles
  PROVE  <<s, k>> \in EdgesOf(g) <=>
            /\ s = AnySource \/ Registered(g, s)
            /\ Registered(g, k)
            /\ LinkOf(Ident(g, s), Ident(g, k)) \in g.links
  <1> DEFINE a == Ident(g, s)
             b == Ident(g, k)
  <1>1. \A x : NamedBy(g, x, s) <=> (s = AnySource \/ Registered(g, s)) /\ x = a
    BY NamedByIs
  <1>2. \A x : NamedBy(g, x, k) <=> Registered(g, k) /\ x = b
    BY NamedByIs DEF Ends
  <1>3. <<s, k>> \in EdgesOf(g) <=> \E l \in g.links : NamedBy(g, l.source, s) /\ NamedBy(g, l.sink, k)
    BY DEF EdgesOf, Ends
  <1>4. \A l \in g.links : l = LinkOf(l.source, l.sink)
    BY DEF Sound, GatewayData, LinkData, LinkOf
  <1>5. LinkOf(a, b).source = a /\ LinkOf(a, b).sink = b
    BY DEF LinkOf
  <1> HIDE DEF a, b
  <1> QED BY <1>1, <1>2, <1>3, <1>4, <1>5 DEF a, b

LEMMA LinkExistsIs ==
  ASSUME NEW g, Sound(g), NEW e \in LinkEntry, AnySource \notin Names \cup Handles
  PROVE  LinkExists(g, e) <=> <<e.source, e.sink>> \in EdgesOf(g)
  <1>1. e.source \in Ends /\ e.sink \in Names /\ e.sink # AnySource
    BY DEF LinkEntry, Ends
  <1>2. SourceOf(g, e) = Ident(g, e.source) /\ SinkOf(g, e) = Ident(g, e.sink)
    BY <1>1 DEF SourceOf, SinkOf, Ident
  <1>3. <<e.source, e.sink>> \in EdgesOf(g) <=>
            /\ e.source = AnySource \/ Registered(g, e.source)
            /\ Registered(g, e.sink)
            /\ LinkOf(Ident(g, e.source), Ident(g, e.sink)) \in g.links
    BY <1>1, EdgesAre
  <1> QED BY <1>2, <1>3 DEF LinkExists, EndsExist

LEMMA EdgesInNames ==
  ASSUME NEW g, Sound(g), AnySource \notin Names \cup Handles, NEW e \in EdgesOf(g)
  PROVE  e \in Ends \X Names /\ e[1] \in NamesOf(g) \cup {AnySource} /\ e[2] \in NamesOf(g)
  BY DEF EdgesOf, NamesOf, NamedBy, Ends

LEMMA SameGraph ==
  ASSUME NEW g, NEW r, r.modules = g.modules, r.links = g.links
  PROVE  NamesOf(r) = NamesOf(g) /\ EdgesOf(r) = EdgesOf(g)
  BY DEF NamesOf, EdgesOf, NamedBy

LEMMA GraphAddModule ==
  ASSUME NEW g, Sound(g), NEW n \in Names, NEW h \in Handles \ Live(g), ~Registered(g, n),
         disk \in [Names -> Versions \cup {NoVersion}], AnySource \notin Names \cup Handles
  PROVE  /\ NamesOf(AddModule(g, n, h)) = NamesOf(g) \cup {n}
         /\ EdgesOf(AddModule(g, n, h)) = EdgesOf(g)
  <1> DEFINE r == AddModule(g, n, h)
             new == [name |-> n, handle |-> h, code |-> disk[n]]
  <1>1. r.modules = g.modules \cup {new} /\ r.links = g.links
    BY AddModuleIs DEF Sound
  <1>2. new.name = n /\ new.handle = h
    OBVIOUS
  <1> HIDE DEF r, new
  <1>3. NamesOf(r) = NamesOf(g) \cup {n}
    BY <1>1, <1>2 DEF NamesOf
  <1>4. \A l \in g.links : l.source # h /\ l.sink # h
    BY DEF Sound, EndsLive, Live
  <1>5. \A l \in g.links : \A x : /\ NamedBy(r, l.source, x) <=> NamedBy(g, l.source, x)
                                  /\ NamedBy(r, l.sink, x) <=> NamedBy(g, l.sink, x)
    BY <1>1, <1>2, <1>4 DEF NamedBy
  <1>6. EdgesOf(r) = EdgesOf(g)
    BY <1>1, <1>5 DEF EdgesOf
  <1> QED BY <1>3, <1>6 DEF r

LEMMA GraphRemoveModule ==
  ASSUME NEW g, Sound(g), NEW m \in g.modules, AnySource \notin Names \cup Handles
  PROVE  /\ NamesOf(RemoveModule(g, m)) = NamesOf(g) \ {m.name}
         /\ EdgesOf(RemoveModule(g, m)) = {e \in EdgesOf(g) : e[1] # m.name /\ e[2] # m.name}
  <1> DEFINE r == RemoveModule(g, m)
  <1>1. g.refs > 0
    BY FS_CardinalityType DEF Sound, BrokerKnows
  <1>2. /\ r.modules = g.modules \ {m}
        /\ r.links = {l \in g.links : m.handle \notin {l.source, l.sink}}
    BY <1>1, RemoveModuleIs DEF Sound
  <1> HIDE DEF r
  <1>3. m.name \in Names /\ m.handle \in Handles
    BY DEF Sound, GatewayData, ModuleData
  <1>4. NamesOf(r) = NamesOf(g) \ {m.name}
    BY <1>2 DEF NamesOf, Sound, ModulesUnique
  <1>5. \A x, n : NamedBy(g, x, n) => (n = m.name <=> x = m.handle)
    BY <1>3 DEF NamedBy, Sound, ModulesUnique
  <1>6. \A x, n : NamedBy(r, x, n) <=> NamedBy(g, x, n) /\ x # m.handle
    BY <1>2, <1>3 DEF NamedBy, Sound, ModulesUnique
  <1>7. EdgesOf(r) = {e \in EdgesOf(g) : e[1] # m.name /\ e[2] # m.name}
    <2>1. \A e \in (Names \cup {AnySource}) \X Names, l \in g.links :
             NamedBy(g, l.source, e[1]) /\ NamedBy(g, l.sink, e[2]) =>
                (l \in r.links <=> e[1] # m.name /\ e[2] # m.name)
      BY <1>2, <1>5
    <2>2. \A e : \A l \in r.links : NamedBy(r, l.source, e[1]) /\ NamedBy(r, l.sink, e[2]) <=>
             NamedBy(g, l.source, e[1]) /\ NamedBy(g, l.sink, e[2])
      BY <1>2, <1>6
    <2>3. r.links \subseteq g.links
      BY <1>2
    <2>4. ASSUME NEW e \in EdgesOf(r)
          PROVE  e \in EdgesOf(g) /\ e[1] # m.name /\ e[2] # m.name
      <3>1. PICK l \in r.links : NamedBy(r, l.source, e[1]) /\ NamedBy(r, l.sink, e[2])
        BY DEF EdgesOf
      <3>2. NamedBy(g, l.source, e[1]) /\ NamedBy(g, l.sink, e[2])
        BY <2>2, <3>1
      <3> QED BY <2>1, <2>3, <3>2 DEF EdgesOf
    <2>5. ASSUME NEW e \in EdgesOf(g), e[1] # m.name, e[2] # m.name
          PROVE  e \in EdgesOf(r)
      <3>1. PICK l \in g.links : NamedBy(g, l.source, e[1]) /\ NamedBy(g, l.sink, e[2])
        BY DEF EdgesOf
      <3>2. l \in r.links
        BY <2>1, <2>5, <3>1 DEF EdgesOf
      <3> QED BY <2>2, <3>1, <3>2 DEF EdgesOf
    <2> QED BY <2>4, <2>5
  <1> QED BY <1>4, <1>7 DEF r

LEMMA GraphAddLink ==
  ASSUME NEW g, Sound(g), NEW e \in LinkEntry, EndsExist(g, e), AnySource \notin Names \cup Handles
  PROVE  /\ NamesOf(AddLink(g, e)) = NamesOf(g)
         /\ EdgesOf(AddLink(g, e)) = EdgesOf(g) \cup {<<e.source, e.sink>>}
  <1> DEFINE r == AddLink(g, e)
             new == LinkOf(SourceOf(g, e), SinkOf(g, e))
  <1>1. r.modules = g.modules /\ r.links = g.links \cup {new}
    BY AddLinkIs DEF Sound
  <1> HIDE DEF r
  <1>2. NamesOf(r) = NamesOf(g) /\ \A x, n : NamedBy(r, x, n) <=> NamedBy(g, x, n)
    BY <1>1 DEF NamesOf, NamedBy
  <1>3. e.source \in Ends /\ e.sink \in Names /\ e.sink # AnySource
    BY DEF LinkEntry, Ends
  <1>4. new.source = Ident(g, e.source) /\ new.sink = Ident(g, e.sink)
    BY <1>3 DEF SourceOf, SinkOf, Ident, LinkOf
  <1> HIDE DEF new
  <1>5. NamedBy(g, new.source, e.source) /\ NamedBy(g, new.sink, e.sink)
    BY <1>3, <1>4, NamedByIs DEF EndsExist, Ends
  <1>6. \A n \in Ends : NamedBy(g, new.source, n) => n = e.source
    BY <1>5 DEF NamedBy, Sound, ModulesUnique, GatewayData, ModuleData
  <1>7. \A n \in Ends : NamedBy(g, new.sink, n) => n = e.sink
    BY <1>5 DEF NamedBy, Sound, ModulesUnique, GatewayData, ModuleData
  <1>8. EdgesOf(r) = EdgesOf(g) \cup {<<e.source, e.sink>>}
    <2>1. \A d \in Ends \X Names : NamedBy(g, new.source, d[1]) /\ NamedBy(g, new.sink, d[2]) <=>
             d = <<e.source, e.sink>>
      BY <1>3, <1>5, <1>6, <1>7 DEF Ends
    <2>2. <<e.source, e.sink>> \in Ends \X Names
      BY <1>3
    <2> QED BY <1>1, <1>2, <2>1, <2>2 DEF EdgesOf, Ends
  <1> QED BY <1>2, <1>8 DEF r

LEMMA GraphRemoveLink ==
  ASSUME NEW g, Sound(g), NEW e \in LinkEntry, LinkExists(g, e), AnySource \notin Names \cup Handles
  PROVE  LET r == RemoveLink(g, SourceOf(g, e), SinkOf(g, e))
         IN NamesOf(r) = NamesOf(g) /\ EdgesOf(r) = EdgesOf(g) \ {<<e.source, e.sink>>}
  <1> DEFINE r == RemoveLink(g, SourceOf(g, e), SinkOf(g, e))
             old == LinkOf(SourceOf(g, e), SinkOf(g, e))
  <1>1. r.modules = g.modules /\ r.links = g.links \ {old}
    BY RemoveLinkIs DEF Sound
  <1> HIDE DEF r
  <1>2. NamesOf(r) = NamesOf(g) /\ \A x, n : NamedBy(r, x, n) <=> NamedBy(g, x, n)
    BY <1>1 DEF NamesOf, NamedBy
  <1>3. e.source \in Ends /\ e.sink \in Names /\ e.sink # AnySource
    BY DEF LinkEntry, Ends
  <1>4. old.source = Ident(g, e.source) /\ old.sink = Ident(g, e.sink)
    BY <1>3 DEF SourceOf, SinkOf, Ident, LinkOf
  <1>5. \A l \in g.links : l.source = old.source /\ l.sink = old.sink => l = old
    BY DEF Sound, GatewayData, LinkData, LinkOf
  <1> HIDE DEF old
  <1>6. NamedBy(g, old.source, e.source) /\ NamedBy(g, old.sink, e.sink)
    BY <1>3, <1>4, NamedByIs DEF LinkExists, EndsExist, Ends
  <1>7. \A n \in Ends : NamedBy(g, old.source, n) => n = e.source
    BY <1>6 DEF NamedBy, Sound, ModulesUnique, GatewayData, ModuleData
  <1>8. \A n \in Ends : NamedBy(g, old.sink, n) => n = e.sink
    BY <1>6 DEF NamedBy, Sound, ModulesUnique, GatewayData, ModuleData
  <1>9. \A x : /\ NamedBy(g, x, e.source) => x = old.source
               /\ NamedBy(g, x, e.sink) => x = old.sink
    BY <1>3, <1>4, NamedByIs DEF Ends
  <1>10. EdgesOf(r) = EdgesOf(g) \ {<<e.source, e.sink>>}
    <2>1. \A d \in Ends \X Names, l \in g.links :
             NamedBy(g, l.source, d[1]) /\ NamedBy(g, l.sink, d[2]) =>
                (l = old <=> d = <<e.source, e.sink>>)
      <3> SUFFICES ASSUME NEW d \in Ends \X Names, NEW l \in g.links,
                          NamedBy(g, l.source, d[1]), NamedBy(g, l.sink, d[2])
                   PROVE  l = old <=> d = <<e.source, e.sink>>
        OBVIOUS
      <3>1. d[1] \in Ends /\ d[2] \in Ends /\ d = <<d[1], d[2]>>
        BY DEF Ends
      <3>2. l = old => d[1] = e.source /\ d[2] = e.sink
        BY <1>7, <1>8, <3>1
      <3>3. d[1] = e.source /\ d[2] = e.sink => l = old
        BY <1>5, <1>9
      <3> QED BY <3>1, <3>2, <3>3
    <2> QED BY <1>1, <1>2, <2>1 DEF EdgesOf, Ends
  <1> QED BY <1>2, <1>10 DEF r

-----------------------------------------------------------------------------
(* The calls inside a step.                                                 *)
Without(E, n) == {e \in E : e[1] # n /\ e[2] # n}
EdgeOf(e) == <<e.source, e.sink>>

LEMMA RemoveByNameIs ==
  ASSUME NEW g, Sound(g), NEW n \in Names, AnySource \notin Names \cup Handles
  PROVE  LET r == RemoveByName(g, n)
         IN /\ Sound(r) /\ ~Registered(r, n)
            /\ NamesOf(r) = NamesOf(g) \ {n} /\ EdgesOf(r) = Without(EdgesOf(g), n)
  <1>1. CASE Registered(g, n)
    <2> DEFINE m == ModuleOf(g, n)
               r == RemoveModule(g, m)
    <2>1. m \in g.modules /\ m.name = n
      BY <1>1, ModuleOfIs
    <2>2. RemoveByName(g, n) = r
      BY <1>1 DEF RemoveByName
    <2> HIDE DEF m
    <2>3. Sound(r)
      BY <2>1, SoundRemoveModule
    <2>4. NamesOf(r) = NamesOf(g) \ {n} /\ EdgesOf(r) = Without(EdgesOf(g), n)
      BY <2>1, GraphRemoveModule DEF Without
    <2> HIDE DEF r
    <2>5. ~Registered(r, n)
      BY <2>3, <2>4, NamesAre DEF Sound
    <2> QED BY <2>2, <2>3, <2>4, <2>5
  <1>2. CASE ~Registered(g, n)
    <2>1. RemoveByName(g, n) = g /\ n \notin NamesOf(g)
      BY <1>2, NamesAre DEF RemoveByName, Sound
    <2>2. n # AnySource
      OBVIOUS
    <2>3. EdgesOf(g) = Without(EdgesOf(g), n)
      BY <2>1, <2>2, EdgesInNames DEF Without
    <2> QED BY <1>2, <2>1, <2>3
  <1> QED BY <1>1, <1>2

LEMMA ClearedIs ==
  ASSUME Sound(gw), NEW n \in Names, AnySource \notin Names \cup Handles
  PROVE  /\ Sound(Cleared(n)) /\ ~Registered(Cleared(n), n)
         /\ NamesOf(Cleared(n)) = NamesOf(gw) \ {n}
         /\ EdgesOf(Cleared(n)) = Without(EdgesOf(gw), n)
  <1>1. Cleared(n) = RemoveByName(gw, n)
    BY DEF Cleared, RemoveByName
  <1> QED BY <1>1, RemoveByNameIs

LEMMA RemoveByEntryIs ==
  ASSUME NEW g, Sound(g), NEW e \in LinkEntry, AnySource \notin Names \cup Handles
  PROVE  LET r == RemoveByEntry(g, e)
         IN Sound(r) /\ NamesOf(r) = NamesOf(g) /\ EdgesOf(r) = EdgesOf(g) \ {EdgeOf(e)}
  <1>1. CASE LinkExists(g, e)
    <2>1. RemoveByEntry(g, e) = RemoveLink(g, SourceOf(g, e), SinkOf(g, e))
      BY <1>1 DEF RemoveByEntry
    <2>2. LinkOf(SourceOf(g, e), SinkOf(g, e)) \in g.links
      BY <1>1 DEF LinkExists
    <2> QED BY <1>1, <2>1, <2>2, SoundRemoveLink, GraphRemoveLink DEF EdgeOf
  <1>2. CASE ~LinkExists(g, e)
    <2>1. RemoveByEntry(g, e) = g
      BY <1>2 DEF RemoveByEntry
    <2>2. EdgeOf(e) \notin EdgesOf(g)
      BY <1>2, LinkExistsIs DEF EdgeOf
    <2> QED BY <2>1, <2>2
  <1> QED BY <1>1, <1>2

LEMMA AddClearedIs ==
  ASSUME Sound(gw), NEW n \in Names, AnySource \notin Names \cup Handles,
         disk \in [Names -> Versions \cup {NoVersion}],
         NEW h \in Handles \ Live(Cleared(n))
  PROVE  LET r == AddModule(Cleared(n), n, h)
         IN /\ Sound(r)
            /\ NamesOf(r) = NamesOf(gw) \cup {n} /\ EdgesOf(r) = Without(EdgesOf(gw), n)
  <1> DEFINE c == Cleared(n)
  <1>1. /\ Sound(c) /\ ~Registered(c, n)
        /\ NamesOf(c) = NamesOf(gw) \ {n} /\ EdgesOf(c) = Without(EdgesOf(gw), n)
    BY ClearedIs
  <1>2. h \in Handles \ Live(c)
    OBVIOUS
  <1> HIDE DEF c
  <1>3. Sound(AddModule(c, n, h))
    BY <1>1, <1>2, SoundAddModule
  <1>4. NamesOf(AddModule(c, n, h)) = NamesOf(c) \cup {n} /\ EdgesOf(AddModule(c, n, h)) = EdgesOf(c)
    BY <1>1, <1>2, GraphAddModule
  <1> QED BY <1>1, <1>3, <1>4 DEF c

LEMMA ModuleAddedIs ==
  ASSUME Sound(gw), NEW n \in Names, NEW v, AnySource \notin Names \cup Handles,
         disk \in [Names -> Versions \cup {NoVersion}], ModuleAdded(n, v)
  PROVE  /\ Sound(gw') /\ ~Duplicate(n, v)
         /\ NamesOf(gw') = NamesOf(gw) \cup {n} /\ EdgesOf(gw') = Without(EdgesOf(gw), n)
  <1>1. PICK h \in Handles \ Live(Cleared(n)) : gw' = AddModule(Cleared(n), n, h)
    BY DEF ModuleAdded
  <1>2. ~Duplicate(n, v)
    BY DEF ModuleAdded
  <1> QED BY <1>1, <1>2, AddClearedIs

LEMMA ModuleNotAddedIs ==
  ASSUME Sound(gw), NEW n \in Names, NEW v, AnySource \notin Names \cup Handles,
         ModuleNotAdded(n, v)
  PROVE  /\ Sound(gw')
         /\ Duplicate(n, v) => gw' = gw
         /\ ~Duplicate(n, v) =>
              NamesOf(gw') = NamesOf(gw) \ {n} /\ EdgesOf(gw') = Without(EdgesOf(gw), n)
  <1>1. CASE Duplicate(n, v)
    BY <1>1 DEF ModuleNotAdded
  <1>2. CASE ~Duplicate(n, v)
    <2> DEFINE c == Cleared(n)
    <2>1. PICK h \in Handles \ Live(c), made \in SUBSET AnySinks(c) :
             gw' = [c EXCEPT !.subs = @ \cup ({h} \X made)]
      BY <1>2 DEF ModuleNotAdded
    <2>2. /\ Sound(c)
          /\ NamesOf(c) = NamesOf(gw) \ {n} /\ EdgesOf(c) = Without(EdgesOf(gw), n)
      BY ClearedIs
    <2> DEFINE new == {h} \X made
    <2>3. new \in SUBSET Pairs
      BY DEF Pairs, AnySinks
    <2> HIDE DEF c, new
    <2>4. PICK r : r = [c EXCEPT !.subs = @ \cup new]
      OBVIOUS
    <2>5. /\ r \in GatewayData
          /\ r.modules = c.modules /\ r.links = c.links /\ r.refs = c.refs
          /\ r.attached = c.attached /\ r.nodes = c.nodes
      BY <2>2, <2>3, <2>4 DEF Sound, GatewayData
    <2>6. \A p \in Pairs : r.nodes[p] <= c.nodes[p]
      BY <2>2, <2>5 DEF Sound, GatewayData
    <2>7. Sound(r)
      BY <2>2, <2>5, <2>6, SoundWithFewerNodes
    <2>8. NamesOf(r) = NamesOf(c) /\ EdgesOf(r) = EdgesOf(c)
      BY <2>5, SameGraph
    <2>9. gw' = r
      BY <2>1, <2>4 DEF new
    <2> QED BY <1>2, <2>2, <2>7, <2>8, <2>9
  <1> QED BY <1>1, <1>2

LEMMA AddableIs ==
  ASSUME Sound(gw), NEW e \in LinkEntry, AnySource \notin Names \cup Handles, Addable(e)
  PROVE  LET r == AddLink(gw, e)
         IN /\ Sound(r) /\ EdgeOf(e) \notin EdgesOf(gw)
            /\ NamesOf(r) = NamesOf(gw) /\ EdgesOf(r) = EdgesOf(gw) \cup {EdgeOf(e)}
  <1>1. EndsExist(gw, e) /\ ~LinkExists(gw, e)
    BY DEF Addable
  <1>2. EdgeOf(e) \notin EdgesOf(gw)
    BY <1>1, LinkExistsIs DEF EdgeOf
  <1> QED BY <1>1, <1>2, SoundAddLink, GraphAddLink DEF EdgeOf

LEMMA LinkNotAddedIs ==
  ASSUME Sound(gw), NEW e \in LinkEntry, AnySource \notin Names \cup Handles, LinkNotAdded(e)
  PROVE  Sound(gw') /\ NamesOf(gw') = NamesOf(gw) /\ EdgesOf(gw') = EdgesOf(gw)
  <1> DEFINE routes == Routes(gw, SourceOf(gw, e), SinkOf(gw, e))
  <1>1. CASE ~Addable(e)
    BY <1>1 DEF LinkNotAdded
  <1>2. CASE Addable(e)
    <2>1. EndsExist(gw, e)
      BY <1>2 DEF Addable
    <2>2. routes \in SUBSET Pairs
      BY <2>1, LinkRoutes
    <2>3. \/ gw' \in BrokerAddFails(gw, routes, e.type)
          \/ \E made \in SUBSET routes :
                gw' \in BrokerAddFails(AddLinkFails(gw, e, made), routes \ made, e.type)
      BY <1>2 DEF LinkNotAdded
    <2>4. CASE gw' \in BrokerAddFails(gw, routes, e.type)
      <3>1. Sound(gw') /\ gw'.modules = gw.modules /\ gw'.links = gw.links
        BY <2>2, <2>4, SoundBrokerAddFails
      <3> QED BY <3>1, SameGraph
    <2>5. ASSUME NEW made \in SUBSET routes,
                 gw' \in BrokerAddFails(AddLinkFails(gw, e, made), routes \ made, e.type)
          PROVE  Sound(gw') /\ NamesOf(gw') = NamesOf(gw) /\ EdgesOf(gw') = EdgesOf(gw)
      <3>1. PICK g : g = AddLinkFails(gw, e, made)
        OBVIOUS
      <3>2. Sound(g) /\ g.modules = gw.modules /\ g.links = gw.links
        BY <2>1, <3>1, SoundAddLinkFails
      <3>3. routes \ made \in SUBSET Pairs
        BY <2>2
      <3>4. Sound(gw') /\ gw'.modules = g.modules /\ gw'.links = g.links
        BY <2>5, <3>1, <3>2, <3>3, SoundBrokerAddFails
      <3> QED BY <3>2, <3>4, SameGraph
    <2> QED BY <2>3, <2>4, <2>5
  <1> QED BY <1>1, <1>2

-----------------------------------------------------------------------------
(* The inductive invariant, and how a step changes the graph.               *)
NoGatewayYet == status \in {"none", "destroyed"}

WorkData ==
    [op : {"none", "create", "update"}, modules : Seq(ModuleEntry), links : Seq(LinkEntry),
     added : Seq(Names), linked : Seq(LinkEntry), failed : BOOLEAN, config : Config,
     names : SUBSET Names, edges : SUBSET (Ends \X Names), touched : SUBSET Names]

FilesInv ==
    /\ recorded \in [Names -> Versions \cup {NoVersion}]
    /\ disk \in [Names -> Versions \cup {NoVersion}]
    /\ deploy \in {"null", "live", "freed"} /\ misread \in BOOLEAN /\ updates \in Nat

WorkInv ==
    /\ work \in WorkData
    /\ status \in {"none", "initializing", "running", "updating", "updated", "destroyed"}
    /\ work.op = "update" <=> status = "updating"
    /\ work.op = "create" => status = "initializing"

\* A gateway that is there is sound, whatever the update in progress has come to.
GatewayInv == IF NoGatewayYet THEN gw = NoGateway ELSE Sound(gw)

IInv == FilesInv /\ WorkInv /\ GatewayInv

\* What a step may do to the graph; the disjuncts are the steps of GatewayGraph.
GraphMove ==
    \/ NamesOf(gw') = NamesOf(gw) /\ EdgesOf(gw') = EdgesOf(gw)
    \/ \E n \in Names : /\ NamesOf(gw') \in {NamesOf(gw) \cup {n}, NamesOf(gw) \ {n}}
                        /\ EdgesOf(gw') = Without(EdgesOf(gw), n)
    \/ \E e \in LinkEntry :
          /\ e.source = AnySource \/ e.source \in NamesOf(gw)
          /\ e.sink \in NamesOf(gw) /\ EdgeOf(e) \notin EdgesOf(gw)
          /\ NamesOf(gw') = NamesOf(gw) /\ EdgesOf(gw') = EdgesOf(gw) \cup {EdgeOf(e)}
    \/ \E e \in LinkEntry :
          NamesOf(gw') = NamesOf(gw) /\ EdgesOf(gw') = EdgesOf(gw) \ {EdgeOf(e)}
    \/ gw' = NoGateway

LEMMA NoGatewayIs ==
  /\ NoGateway \in GatewayData
  /\ NoGateway.modules = {} /\ NoGateway.links = {} /\ NoGateway.refs = 0
  /\ NoGateway.attached = {} /\ NoGateway.threaded = {} /\ NoGateway.subs = {}
  /\ NoGateway.started = {} /\ NoGateway.nodes = [p \in Pairs |-> 0]
  /\ NamesOf(NoGateway) = {} /\ EdgesOf(NoGateway) = {}
  BY DEF NoGateway, GatewayData, NamesOf, EdgesOf

LEMMA DestroyedIs ==
  ASSUME NEW g, Sound(g)
  PROVE  Destroyed(g) = NoGateway
  <1> DEFINE times == [p \in Pairs |-> Covers(g, p)]
             b == BrokerRemoveLinks(g, times)
  <1>1. times \in [Pairs -> Nat]
    BY DEF Covers, Count
  <1> HIDE DEF times
  <1>2. b.nodes = [p \in Pairs |-> IF g.nodes[p] > times[p] THEN g.nodes[p] - times[p] ELSE 0]
    BY <1>1, RemoveLinksIs DEF Sound
  <1> HIDE DEF b
  <1>3. \A p \in Pairs : g.nodes[p] <= times[p] /\ g.nodes[p] \in Nat /\ times[p] \in Nat
    BY <1>1 DEF Sound, NodesCovered, GatewayData, times
  <1>4. b.nodes = [p \in Pairs |-> 0]
    BY <1>2, <1>3
  <1>5. g.attached \ Live(g) = {}
    BY DEF Sound, BrokerKnows
  <1>6. g.refs - Cardinality(g.modules) - 1 = 0
    BY FS_CardinalityType DEF Sound, BrokerKnows
  <1>7. Destroyed(g) = [NoGateway EXCEPT !.nodes = b.nodes, !.attached = g.attached \ Live(g),
                                         !.refs = g.refs - Cardinality(g.modules) - 1]
    BY DEF Destroyed, b, times
  <1> QED BY <1>4, <1>5, <1>6, <1>7 DEF NoGateway

LEMMA NewGatewayIs ==
  LET g == [NoGateway EXCEPT !.refs = 1]
  IN Sound(g) /\ NamesOf(g) = NamesOf(NoGateway) /\ EdgesOf(g) = EdgesOf(NoGateway)
  <1> DEFINE g == [NoGateway EXCEPT !.refs = 1]
  <1>1. /\ g \in GatewayData
        /\ g.modules = {} /\ g.links = {} /\ g.refs = 1 /\ g.attached = {}
        /\ g.nodes = [p \in Pairs |-> 0]
    BY DEF NoGateway, GatewayData
  <1> HIDE DEF g
  <1>2. Live(g) = {}
    BY <1>1 DEF Live
  <1>3. \A p \in Pairs : Covers(g, p) \in Nat
    BY DEF Covers, Count
  <1>4. NodesCovered(g)
    BY <1>1, <1>3 DEF NodesCovered
  <1>5. IsFiniteSet(g.modules) /\ BrokerKnows(g)
    BY <1>1, <1>2, FS_EmptySet DEF BrokerKnows
  <1>6. Sound(g)
    BY <1>1, <1>4, <1>5 DEF Sound, ModulesUnique, EndsLive
  <1>7. NamesOf(g) = NamesOf(NoGateway) /\ EdgesOf(g) = EdgesOf(NoGateway)
    BY <1>1, NoGatewayIs, SameGraph
  <1> QED BY <1>6, <1>7 DEF g

LEMMA StartedIs ==
  ASSUME NEW g, Sound(g), NEW S \in SUBSET Handles
  PROVE  LET r == [g EXCEPT !.started = S]
         IN Sound(r) /\ NamesOf(r) = NamesOf(g) /\ EdgesOf(r) = EdgesOf(g)
  <1> DEFINE r == [g EXCEPT !.started = S]
  <1>1. /\ r \in GatewayData
        /\ r.modules = g.modules /\ r.links = g.links /\ r.refs = g.refs
        /\ r.attached = g.attached /\ r.nodes = g.nodes
    BY DEF Sound, GatewayData
  <1> HIDE DEF r
  <1>2. \A p \in Pairs : r.nodes[p] <= g.nodes[p]
    BY <1>1 DEF GatewayData
  <1> QED BY <1>1, <1>2, SoundWithFewerNodes, SameGraph DEF r

LEMMA GraphIsTyped ==
  ASSUME NEW g \in GatewayData
  PROVE  NamesOf(g) \in SUBSET Names /\ EdgesOf(g) \in SUBSET (Ends \X Names)
  BY DEF GatewayData, ModuleData, NamesOf, EdgesOf, Ends

LEMMA AnyIsNoName == AnySource \notin Names \cup Handles /\ AnySource \notin Handles
  BY GatewayAssumption

-----------------------------------------------------------------------------
(* Each action.  Some leave the gateway as it is.                           *)
LEMMA CreateInv ==
  ASSUME IInv, NEW cfg \in Creations, Create(cfg)
  PROVE  IInv' /\ GraphMove
  <1>1. status = "none" /\ gw = NoGateway
    BY DEF Create, IInv, GatewayInv, NoGatewayYet
  <1>2. gw' = [NoGateway EXCEPT !.refs = 1]
    BY <1>1 DEF Create
  <1>3. Sound(gw') /\ GraphMove
    BY <1>1, <1>2, NewGatewayIs DEF GraphMove
  <1>4. work' \in WorkData /\ work'.op = "create"
    <2>1. cfg \in Config
      BY GatewayAssumption
    <2>2. NamesOf(gw) \in SUBSET Names /\ EdgesOf(gw) \in SUBSET (Ends \X Names)
      BY <1>1, NoGatewayIs
    <2>3. work' = [op |-> "create", modules |-> cfg.modules, links |-> cfg.links, added |-> <<>>,
                   linked |-> <<>>, failed |-> FALSE, config |-> cfg,
                   names |-> NamesOf(gw), edges |-> EdgesOf(gw), touched |-> {}]
      BY DEF Create, Begin
    <2> QED BY <2>1, <2>2, <2>3 DEF WorkData, Config
  <1>5. FilesInv'
    BY DEF IInv, FilesInv, Create, Parse
  <1> QED BY <1>3, <1>4, <1>5 DEF Create, IInv, WorkInv, GatewayInv, NoGatewayYet

LEMMA UpdateInv ==
  ASSUME IInv, NEW cfg \in Updates, Update(cfg)
  PROVE  IInv' /\ GraphMove
  <1>1. Sound(gw) /\ gw' = gw /\ status' = "updating"
    BY DEF Update, IInv, GatewayInv, NoGatewayYet
  <1>2. work' \in WorkData /\ work'.op = "update"
    <2>1. cfg \in Config
      BY GatewayAssumption
    <2>2. NamesOf(gw) \in SUBSET Names /\ EdgesOf(gw) \in SUBSET (Ends \X Names)
      BY <1>1, GraphIsTyped DEF Sound
    <2>3. work' = [op |-> "update", modules |-> cfg.modules, links |-> cfg.links, added |-> <<>>,
                   linked |-> <<>>, failed |-> FALSE, config |-> cfg,
                   names |-> NamesOf(gw), edges |-> EdgesOf(gw), touched |-> {}]
      BY DEF Update, Begin
    <2> QED BY <2>1, <2>2, <2>3 DEF WorkData, Config
  <1>3. FilesInv'
    BY DEF IInv, FilesInv, Update, Parse
  <1> QED BY <1>1, <1>2, <1>3 DEF IInv, WorkInv, GatewayInv, NoGatewayYet, GraphMove

LEMMA UpdateRejectedInv ==
  ASSUME IInv, NEW cfg \in Updates, UpdateRejected(cfg)
  PROVE  IInv' /\ GraphMove
  <1>1. Sound(gw) /\ gw' = gw /\ status' = "updated" /\ work' = work /\ work.op = "none"
    BY DEF UpdateRejected, Idle, IInv, GatewayInv, NoGatewayYet
  <1>2. FilesInv'
    BY DEF IInv, FilesInv, UpdateRejected, Parse
  <1> QED BY <1>1, <1>2 DEF IInv, WorkInv, GatewayInv, NoGatewayYet, GraphMove

LEMMA StartInv ==
  ASSUME IInv, Start
  PROVE  IInv' /\ GraphMove
  <1>1. Sound(gw) /\ work.op = "none" /\ status' = "running" /\ work' = work
    BY DEF Start, Idle, IInv, GatewayInv, NoGatewayYet
  <1>2. gw' = [gw EXCEPT !.started = Live(gw)]
    BY DEF Start
  <1>3. Live(gw) \in SUBSET Handles
    BY <1>1, LiveIs DEF Sound
  <1>4. Sound(gw') /\ GraphMove
    BY <1>1, <1>2, <1>3, StartedIs DEF GraphMove
  <1> QED BY <1>1, <1>4 DEF Start, IInv, FilesInv, WorkInv, GatewayInv, NoGatewayYet

LEMMA DestroyInv ==
  ASSUME IInv, Destroy
  PROVE  IInv' /\ GraphMove
  <1>1. Sound(gw) /\ work.op = "none" /\ status' = "destroyed" /\ work' = work
    BY DEF Destroy, Idle, IInv, GatewayInv, NoGatewayYet
  <1>2. gw' = NoGateway
    BY <1>1, DestroyedIs DEF Destroy
  <1> QED BY <1>1, <1>2 DEF Destroy, IInv, FilesInv, WorkInv, GatewayInv, NoGatewayYet, GraphMove

\* A call of the API changes gw only.
LEMMA IdleInv ==
  ASSUME IInv, Idle, Sound(gw'), misread' \in BOOLEAN,
         UNCHANGED <<status, work, recorded, disk, deploy, updates>>
  PROVE  IInv'
  BY DEF Idle, IInv, FilesInv, WorkInv, GatewayInv, NoGatewayYet

LEMMA ApiInv ==
  ASSUME IInv, ApiCall
  PROVE  IInv' /\ GraphMove
  <1>1. Idle
    BY DEF ApiCall, ApiAddModule, ApiRemoveModule, StartModule, ApiAddLink, ApiRemoveLink
  <1>2. Sound(gw) /\ disk \in [Names -> Versions \cup {NoVersion}] /\ misread \in BOOLEAN
    BY <1>1 DEF Idle, IInv, FilesInv, GatewayInv, NoGatewayYet
  <1>3. /\ UNCHANGED <<status, work, recorded, disk, deploy, updates>>
        /\ misread' \in BOOLEAN
    BY <1>2 DEF ApiCall, ApiAddModule, ApiRemoveModule, StartModule, ApiAddLink, ApiRemoveLink
  <1>4. Sound(gw') /\ GraphMove
    <2>1. CASE gw' = gw
      BY <1>2, <2>1 DEF GraphMove
    <2>2. ASSUME NEW n \in Names, ModuleAdded(n, NoVersion)
          PROVE  Sound(gw') /\ GraphMove
      BY <1>2, <2>2, AnyIsNoName, ModuleAddedIs DEF GraphMove
    <2>3. ASSUME NEW n \in Names, ModuleNotAdded(n, NoVersion)
          PROVE  Sound(gw') /\ GraphMove
      BY <1>2, <2>3, AnyIsNoName, ModuleNotAddedIs DEF GraphMove
    <2>4. ASSUME NEW n \in Names, ApiRemoveModule(n)
          PROVE  Sound(gw') /\ GraphMove
      <3>1. gw' = RemoveByName(gw, n)
        BY <2>4 DEF ApiRemoveModule
      <3> QED BY <1>2, <3>1, AnyIsNoName, RemoveByNameIs DEF GraphMove
    <2>5. ASSUME NEW n \in Names, StartModule(n)
          PROVE  Sound(gw') /\ GraphMove
      <3>1. gw' = [gw EXCEPT !.started = @ \cup {HandleOf(gw, n)}] /\ Registered(gw, n)
        BY <2>5 DEF StartModule
      <3>2. gw.started \cup {HandleOf(gw, n)} \in SUBSET Handles
        BY <1>2, <3>1, ModuleOfIs DEF Sound, GatewayData, ModuleData, HandleOf
      <3>3. gw' = [gw EXCEPT !.started = gw.started \cup {HandleOf(gw, n)}]
        BY <3>1, <1>2 DEF Sound, GatewayData
      <3> QED BY <1>2, <3>2, <3>3, StartedIs DEF GraphMove
    <2>6. ASSUME NEW e \in LinkEntries, ApiAddLink(e)
          PROVE  Sound(gw') /\ GraphMove
      <3>1. e \in LinkEntry
        BY GatewayAssumption
      <3>2. CASE LinkAdded(e)
        <4>1. Addable(e) /\ gw' = AddLink(gw, e)
          BY <3>2 DEF LinkAdded
        <4>2. (e.source = AnySource \/ e.source \in NamesOf(gw)) /\ e.sink \in NamesOf(gw)
          BY <1>2, <4>1, NamesAre DEF Addable, EndsExist, Sound
        <4> QED BY <1>2, <3>1, <4>1, <4>2, AnyIsNoName, AddableIs DEF GraphMove
      <3>3. CASE LinkNotAdded(e)
        BY <1>2, <3>1, <3>3, AnyIsNoName, LinkNotAddedIs DEF GraphMove
      <3> QED BY <2>6, <3>2, <3>3 DEF ApiAddLink
    <2>7. ASSUME NEW e \in LinkEntries, ApiRemoveLink(e)
          PROVE  Sound(gw') /\ GraphMove
      <3>1. e \in LinkEntry
        BY GatewayAssumption
      <3>2. gw' = RemoveByEntry(gw, e)
        BY <2>7 DEF ApiRemoveLink
      <3> QED BY <1>2, <3>1, <3>2, AnyIsNoName, RemoveByEntryIs DEF GraphMove
    <2>8. ASSUME NEW n \in Names, ApiAddModule(n)
          PROVE  Sound(gw') /\ GraphMove
      BY <2>1, <2>2, <2>3, <2>8 DEF ApiAddModule
    <2> QED BY <2>4, <2>5, <2>6, <2>7, <2>8 DEF ApiCall
  <1> QED BY <1>1, <1>3, <1>4, IdleInv

-----------------------------------------------------------------------------
(* The steps of a creation or an update.                                    *)
LEMMA SeqAppend ==
  ASSUME NEW S, NEW q \in Seq(S), NEW x \in S
  PROVE  /\ Append(q, x) \in Seq(S) /\ Len(Append(q, x)) = Len(q) + 1 /\ Len(q) \in Nat
         /\ \A i \in 1..Len(q) : Append(q, x)[i] = q[i]
         /\ Append(q, x)[Len(q) + 1] = x
  OBVIOUS

LEMMA SeqTail ==
  ASSUME NEW S, NEW q \in Seq(S), q # <<>>
  PROVE  /\ Head(q) \in S /\ Head(q) = q[1] /\ Tail(q) \in Seq(S)
         /\ Len(Tail(q)) = Len(q) - 1 /\ Len(q) \in Nat /\ Len(q) > 0
         /\ \A i \in 1..Len(q) - 1 : Tail(q)[i] = q[i + 1]
  OBVIOUS

\* The gateway is there while it is worked on.
LEMMA WorkIs ==
  ASSUME IInv, work.op # "none"
  PROVE  /\ Sound(gw) /\ work \in WorkData
         /\ disk \in [Names -> Versions \cup {NoVersion}]
         /\ status \in {"initializing", "updating"}
  BY DEF IInv, FilesInv, WorkInv, GatewayInv, NoGatewayYet, WorkData

LEMMA RecordedTyped ==
  ASSUME IInv, NEW n \in Names, NEW v \in Versions, RecordVersion(n, v)
  PROVE  recorded' \in [Names -> Versions \cup {NoVersion}]
  BY DEF RecordVersion, IInv, FilesInv

\* A step of the work changes gw, work and perhaps recorded.
LEMMA WorkStepInv ==
  ASSUME IInv, work.op # "none", Sound(gw'), work' \in WorkData, work'.op = work.op,
         recorded' \in [Names -> Versions \cup {NoVersion}],
         UNCHANGED <<status, disk, deploy, misread, updates>>
  PROVE  IInv'
  <1>1. FilesInv'
    BY DEF IInv, FilesInv
  <1>2. WorkInv'
    BY DEF IInv, WorkInv
  <1>3. GatewayInv'
    BY WorkIs DEF GatewayInv, NoGatewayYet
  <1> QED BY <1>1, <1>2, <1>3 DEF IInv

LEMMA NextModuleIs ==
  ASSUME IInv, work.op # "none", work.modules # <<>>
  PROVE  /\ NextModule \in ModuleEntry /\ NextModule.name \in Names /\ NextModule.version \in Versions
         /\ Tail(work.modules) \in Seq(ModuleEntry)
         /\ Append(work.added, NextModule.name) \in Seq(Names)
         /\ Touch(NextModule.name) \in SUBSET Names
  <1>1. work \in WorkData
    BY WorkIs
  <1>2. work.modules \in Seq(ModuleEntry) /\ work.added \in Seq(Names) /\ work.touched \in SUBSET Names
    BY <1>1 DEF WorkData
  <1>3. NextModule \in ModuleEntry /\ Tail(work.modules) \in Seq(ModuleEntry)
    BY <1>2, SeqTail DEF NextModule
  <1>4. NextModule.name \in Names /\ NextModule.version \in Versions
    BY <1>3 DEF ModuleEntry
  <1>5. Append(work.added, NextModule.name) \in Seq(Names)
    BY <1>2, <1>4, SeqAppend
  <1> QED BY <1>2, <1>3, <1>4, <1>5 DEF Touch

LEMMA NextLinkIs ==
  ASSUME IInv, work.op # "none", work.links # <<>>
  PROVE  /\ NextLink \in LinkEntry /\ Tail(work.links) \in Seq(LinkEntry)
         /\ Append(work.linked, NextLink) \in Seq(LinkEntry)
  <1>1. work.links \in Seq(LinkEntry) /\ work.linked \in Seq(LinkEntry)
    BY WorkIs DEF WorkData
  <1>2. NextLink \in LinkEntry /\ Tail(work.links) \in Seq(LinkEntry)
    BY <1>1, SeqTail DEF NextLink
  <1> QED BY <1>1, <1>2, SeqAppend

LEMMA AddModuleEntryIs ==
  ASSUME IInv, AddModuleEntry
  PROVE  /\ IInv' /\ work.op # "none" /\ work.modules # <<>> /\ NextModule.name \in Names
         /\ NamesOf(gw') = NamesOf(gw) \cup {NextModule.name}
         /\ EdgesOf(gw') = Without(EdgesOf(gw), NextModule.name)
         /\ work'.added = Append(work.added, NextModule.name)
         /\ work'.touched = work.touched \cup {NextModule.name}
         /\ work'.op = work.op /\ work'.failed = work.failed /\ work'.linked = work.linked
         /\ work'.names = work.names /\ work'.edges = work.edges
  <1> DEFINE n == NextModule.name
             v == NextModule.version
  <1>1. work.op # "none" /\ work.modules # <<>> /\ ModuleAdded(n, v) /\ RecordVersion(n, v)
    BY DEF AddModuleEntry, Adding
  <1>2. work' = [work EXCEPT !.modules = Tail(@), !.added = Append(@, n), !.touched = Touch(n)]
    BY DEF AddModuleEntry
  <1>3. UNCHANGED <<status, disk, deploy, misread, updates>>
    BY DEF AddModuleEntry
  <1>4. /\ n \in Names /\ v \in Versions
        /\ Tail(work.modules) \in Seq(ModuleEntry) /\ Append(work.added, n) \in Seq(Names)
        /\ Touch(n) \in SUBSET Names
    BY <1>1, NextModuleIs
  <1>5. Touch(n) = IF Duplicate(n, v) THEN work.touched ELSE work.touched \cup {n}
    BY DEF Touch
  <1> HIDE DEF n, v
  <1>6. Sound(gw) /\ work \in WorkData /\ disk \in [Names -> Versions \cup {NoVersion}]
    BY <1>1, WorkIs
  <1>7. /\ Sound(gw') /\ ~Duplicate(n, v)
        /\ NamesOf(gw') = NamesOf(gw) \cup {n} /\ EdgesOf(gw') = Without(EdgesOf(gw), n)
    BY <1>1, <1>4, <1>6, AnyIsNoName, ModuleAddedIs
  <1>8. /\ work' \in WorkData
        /\ work'.added = Append(work.added, n) /\ work'.touched = Touch(n)
        /\ work'.op = work.op /\ work'.failed = work.failed /\ work'.linked = work.linked
        /\ work'.names = work.names /\ work'.edges = work.edges
    BY <1>2, <1>4, <1>6 DEF WorkData
  <1>9. recorded' \in [Names -> Versions \cup {NoVersion}]
    BY <1>1, <1>4, RecordedTyped
  <1>10. IInv'
    BY <1>1, <1>3, <1>7, <1>8, <1>9, WorkStepInv
  <1> QED BY <1>1, <1>4, <1>5, <1>7, <1>8, <1>10 DEF n

LEMMA ModuleEntryFailsIs ==
  ASSUME IInv, ModuleEntryFails
  PROVE  /\ IInv' /\ work.op # "none" /\ work.modules # <<>> /\ NextModule.name \in Names
         /\ \/ gw' = gw /\ work'.touched = work.touched
            \/ /\ NamesOf(gw') = NamesOf(gw) \ {NextModule.name}
               /\ EdgesOf(gw') = Without(EdgesOf(gw), NextModule.name)
               /\ work'.touched = work.touched \cup {NextModule.name}
         /\ work'.op = work.op /\ work'.failed /\ work'.linked = work.linked
         /\ work'.added = work.added /\ work'.names = work.names /\ work'.edges = work.edges
  <1> DEFINE n == NextModule.name
             v == NextModule.version
  <1>1. work.op # "none" /\ work.modules # <<>> /\ RecordVersion(n, v)
    BY DEF ModuleEntryFails, Adding
  <1>2. work' = [work EXCEPT !.failed = TRUE, !.touched = Touch(n)]
    BY DEF ModuleEntryFails
  <1>3. UNCHANGED <<status, disk, deploy, misread, updates>>
    BY DEF ModuleEntryFails
  <1>4. n \in Names /\ v \in Versions /\ Touch(n) \in SUBSET Names
    BY <1>1, NextModuleIs
  <1>5. Touch(n) = IF Duplicate(n, v) THEN work.touched ELSE work.touched \cup {n}
    BY DEF Touch
  <1>6. \/ ModuleNotAdded(n, v)
        \/ /\ ~Duplicate(n, v)
           /\ \E h \in Handles \ Live(Cleared(n)) : gw' = RemoveByName(AddModule(Cleared(n), n, h), n)
    BY DEF ModuleEntryFails
  <1> HIDE DEF n, v
  <1>7. Sound(gw) /\ work \in WorkData /\ disk \in [Names -> Versions \cup {NoVersion}]
    BY <1>1, WorkIs
  <1>8. /\ Sound(gw')
        /\ \/ gw' = gw /\ Duplicate(n, v)
           \/ /\ NamesOf(gw') = NamesOf(gw) \ {n} /\ EdgesOf(gw') = Without(EdgesOf(gw), n)
              /\ ~Duplicate(n, v)
    <2>1. CASE ModuleNotAdded(n, v)
      BY <2>1, <1>4, <1>7, AnyIsNoName, ModuleNotAddedIs
    <2>2. ASSUME ~Duplicate(n, v), NEW h \in Handles \ Live(Cleared(n)),
                 gw' = RemoveByName(AddModule(Cleared(n), n, h), n)
          PROVE  /\ Sound(gw')
                 /\ NamesOf(gw') = NamesOf(gw) \ {n} /\ EdgesOf(gw') = Without(EdgesOf(gw), n)
      <3> DEFINE r == AddModule(Cleared(n), n, h)
      <3>1. /\ Sound(r)
            /\ NamesOf(r) = NamesOf(gw) \cup {n} /\ EdgesOf(r) = Without(EdgesOf(gw), n)
        BY <1>4, <1>7, AnyIsNoName, AddClearedIs
      <3>2. gw' = RemoveByName(r, n)
        BY <2>2
      <3> HIDE DEF r
      <3>3. /\ Sound(gw') /\ NamesOf(gw') = NamesOf(r) \ {n}
            /\ EdgesOf(gw') = Without(EdgesOf(r), n)
        BY <1>4, <3>1, <3>2, AnyIsNoName, RemoveByNameIs
      <3> QED BY <3>1, <3>3 DEF Without
    <2> QED BY <1>6, <2>1, <2>2
  <1>9. /\ work' \in WorkData
        /\ work'.touched = Touch(n) /\ work'.failed
        /\ work'.op = work.op /\ work'.linked = work.linked /\ work'.added = work.added
        /\ work'.names = work.names /\ work'.edges = work.edges
    BY <1>2, <1>4, <1>7 DEF WorkData
  <1>10. recorded' \in [Names -> Versions \cup {NoVersion}]
    BY <1>1, <1>4, RecordedTyped
  <1>11. IInv'
    BY <1>1, <1>3, <1>8, <1>9, <1>10, WorkStepInv
  <1> QED BY <1>1, <1>4, <1>5, <1>8, <1>9, <1>11 DEF n

LEMMA ModuleEntryRefusedIs ==
  ASSUME IInv, ModuleEntryRefused
  PROVE  /\ IInv' /\ work.op # "none" /\ gw' = gw
         /\ work' = [work EXCEPT !.failed = TRUE]
  <1>1. work.op # "none" /\ gw' = gw /\ work' = [work EXCEPT !.failed = TRUE]
    BY DEF ModuleEntryRefused, Adding
  <1>2. Sound(gw) /\ work \in WorkData
    BY <1>1, WorkIs
  <1>3. work' \in WorkData /\ work'.op = work.op
    BY <1>1, <1>2 DEF WorkData
  <1>4. UNCHANGED <<status, recorded, disk, deploy, misread, updates>>
    BY DEF ModuleEntryRefused
  <1>5. recorded' \in [Names -> Versions \cup {NoVersion}]
    BY <1>4 DEF IInv, FilesInv
  <1> QED BY <1>1, <1>2, <1>3, <1>4, <1>5, WorkStepInv

LEMMA AddLinkEntryIs ==
  ASSUME IInv, AddLinkEntry
  PROVE  /\ IInv' /\ work.op # "none" /\ work.modules = <<>>
         /\ NextLink \in LinkEntry /\ EdgeOf(NextLink) \notin EdgesOf(gw)
         /\ NextLink.source = AnySource \/ NextLink.source \in NamesOf(gw)
         /\ NextLink.sink \in NamesOf(gw)
         /\ NamesOf(gw') = NamesOf(gw) /\ EdgesOf(gw') = EdgesOf(gw) \cup {EdgeOf(NextLink)}
         /\ work'.linked = Append(work.linked, NextLink)
         /\ work'.modules = work.modules /\ work'.touched = work.touched
         /\ work'.op = work.op /\ work'.failed = work.failed
         /\ work'.added = work.added /\ work'.names = work.names /\ work'.edges = work.edges
  <1> DEFINE e == NextLink
  <1>1. work.op # "none" /\ work.modules = <<>> /\ work.links # <<>> /\ LinkAdded(e)
    BY DEF AddLinkEntry, Adding
  <1>2. work' = [work EXCEPT !.links = Tail(@), !.linked = Append(@, e)]
    BY DEF AddLinkEntry
  <1>3. UNCHANGED <<status, recorded, disk, deploy, misread, updates>>
    BY DEF AddLinkEntry
  <1>4. /\ e \in LinkEntry /\ Tail(work.links) \in Seq(LinkEntry)
        /\ Append(work.linked, e) \in Seq(LinkEntry)
    BY <1>1, NextLinkIs
  <1> HIDE DEF e
  <1>5. Sound(gw) /\ work \in WorkData
    BY <1>1, WorkIs
  <1>6. Addable(e) /\ gw' = AddLink(gw, e)
    BY <1>1 DEF LinkAdded
  <1>7. /\ Sound(gw') /\ EdgeOf(e) \notin EdgesOf(gw)
        /\ NamesOf(gw') = NamesOf(gw) /\ EdgesOf(gw') = EdgesOf(gw) \cup {EdgeOf(e)}
    BY <1>4, <1>5, <1>6, AnyIsNoName, AddableIs
  <1>8. (e.source = AnySource \/ e.source \in NamesOf(gw)) /\ e.sink \in NamesOf(gw)
    BY <1>5, <1>6, NamesAre DEF Addable, EndsExist, Sound
  <1>9. /\ work' \in WorkData /\ work'.linked = Append(work.linked, e)
        /\ work'.modules = work.modules /\ work'.touched = work.touched
        /\ work'.op = work.op /\ work'.failed = work.failed
        /\ work'.added = work.added /\ work'.names = work.names /\ work'.edges = work.edges
    BY <1>2, <1>4, <1>5 DEF WorkData
  <1>10. IInv'
    BY <1>1, <1>3, <1>7, <1>9, WorkStepInv DEF IInv, FilesInv
  <1> QED BY <1>1, <1>4, <1>7, <1>8, <1>9, <1>10 DEF e

LEMMA LinkEntryFailsIs ==
  ASSUME IInv, LinkEntryFails
  PROVE  /\ IInv' /\ work.op # "none" /\ work.modules = <<>>
         /\ NamesOf(gw') = NamesOf(gw) /\ EdgesOf(gw') = EdgesOf(gw)
         /\ work' = [work EXCEPT !.failed = TRUE]
  <1> DEFINE e == NextLink
  <1>1. work.op # "none" /\ work.modules = <<>> /\ work.links # <<>>
    BY DEF LinkEntryFails, Adding
  <1>2. work' = [work EXCEPT !.failed = TRUE]
    BY DEF LinkEntryFails
  <1>3. UNCHANGED <<status, recorded, disk, deploy, misread, updates>>
    BY DEF LinkEntryFails
  <1>4. LinkNotAdded(e) \/ (Addable(e) /\ gw' = RemoveByEntry(AddLink(gw, e), e))
    BY DEF LinkEntryFails
  <1>5. e \in LinkEntry
    BY <1>1, NextLinkIs
  <1> HIDE DEF e
  <1>6. Sound(gw) /\ work \in WorkData
    BY <1>1, WorkIs
  <1>7. Sound(gw') /\ NamesOf(gw') = NamesOf(gw) /\ EdgesOf(gw') = EdgesOf(gw)
    <2>1. CASE LinkNotAdded(e)
      BY <1>5, <1>6, <2>1, AnyIsNoName, LinkNotAddedIs
    <2>2. CASE Addable(e) /\ gw' = RemoveByEntry(AddLink(gw, e), e)
      <3> DEFINE r == AddLink(gw, e)
      <3>1. /\ Sound(r) /\ EdgeOf(e) \notin EdgesOf(gw)
            /\ NamesOf(r) = NamesOf(gw) /\ EdgesOf(r) = EdgesOf(gw) \cup {EdgeOf(e)}
        BY <1>5, <1>6, <2>2, AnyIsNoName, AddableIs
      <3>2. gw' = RemoveByEntry(r, e)
        BY <2>2
      <3> HIDE DEF r
      <3>3. Sound(gw') /\ NamesOf(gw') = NamesOf(r) /\ EdgesOf(gw') = EdgesOf(r) \ {EdgeOf(e)}
        BY <1>5, <3>1, <3>2, AnyIsNoName, RemoveByEntryIs
      <3> QED BY <3>1, <3>3
    <2> QED BY <1>4, <2>1, <2>2
  <1>8. work' \in WorkData /\ work'.op = work.op
    BY <1>2, <1>6 DEF WorkData
  <1>9. IInv'
    BY <1>1, <1>3, <1>7, <1>8, WorkStepInv DEF IInv, FilesInv
  <1> QED BY <1>1, <1>2, <1>7, <1>9

LEMMA CreateFailsIs ==
  ASSUME IInv, CreateFails
  PROVE  IInv' /\ gw' = NoGateway /\ work'.op = "none"
  <1>1. Sound(gw) /\ work.op # "none"
    BY WorkIs DEF CreateFails
  <1>2. gw' = NoGateway /\ status' = "destroyed" /\ work' = NoWork
    BY <1>1, DestroyedIs DEF CreateFails
  <1>3. NoWork \in WorkData /\ NoWork.op = "none"
    BY DEF NoWork, WorkData, NoConfig, Config
  <1> QED BY <1>2, <1>3 DEF CreateFails, IInv, FilesInv, WorkInv, GatewayInv, NoGatewayYet

LEMMA UndoLinkIs ==
  ASSUME IInv, UndoLink
  PROVE  /\ IInv' /\ Undoing /\ work.linked # <<>> /\ Head(work.linked) \in LinkEntry
         /\ NamesOf(gw') = NamesOf(gw)
         /\ EdgesOf(gw') = EdgesOf(gw) \ {EdgeOf(Head(work.linked))}
         /\ work' = [work EXCEPT !.linked = Tail(@)]
  <1>1. Undoing /\ work.linked # <<>> /\ gw' = RemoveByEntry(gw, Head(work.linked))
    BY DEF UndoLink
  <1>2. work' = [work EXCEPT !.linked = Tail(@)] /\ UNCHANGED <<status, recorded, disk, deploy, misread, updates>>
    BY DEF UndoLink
  <1>3. Sound(gw) /\ work \in WorkData /\ work.op # "none"
    BY <1>1, WorkIs DEF Undoing
  <1>4. Head(work.linked) \in LinkEntry /\ Tail(work.linked) \in Seq(LinkEntry)
    BY <1>1, <1>3, SeqTail DEF WorkData
  <1>5. /\ Sound(gw') /\ NamesOf(gw') = NamesOf(gw)
        /\ EdgesOf(gw') = EdgesOf(gw) \ {EdgeOf(Head(work.linked))}
    BY <1>1, <1>3, <1>4, AnyIsNoName, RemoveByEntryIs
  <1>6. work' \in WorkData /\ work'.op = work.op
    BY <1>2, <1>3, <1>4 DEF WorkData
  <1>7. IInv'
    BY <1>2, <1>3, <1>5, <1>6, WorkStepInv DEF IInv, FilesInv
  <1> QED BY <1>1, <1>2, <1>4, <1>5, <1>7

LEMMA UndoModuleIs ==
  ASSUME IInv, UndoModule
  PROVE  /\ IInv' /\ Undoing /\ work.linked = <<>> /\ work.added # <<>> /\ Head(work.added) \in Names
         /\ NamesOf(gw') = NamesOf(gw) \ {Head(work.added)}
         /\ EdgesOf(gw') = Without(EdgesOf(gw), Head(work.added))
         /\ work' = [work EXCEPT !.added = Tail(@)]
  <1>1. /\ Undoing /\ work.linked = <<>> /\ work.added # <<>>
        /\ gw' = RemoveByName(gw, Head(work.added))
    BY DEF UndoModule
  <1>2. work' = [work EXCEPT !.added = Tail(@)] /\ UNCHANGED <<status, recorded, disk, deploy, misread, updates>>
    BY DEF UndoModule
  <1>3. Sound(gw) /\ work \in WorkData /\ work.op # "none"
    BY <1>1, WorkIs DEF Undoing
  <1>4. Head(work.added) \in Names /\ Tail(work.added) \in Seq(Names)
    BY <1>1, <1>3, SeqTail DEF WorkData
  <1>5. /\ Sound(gw') /\ NamesOf(gw') = NamesOf(gw) \ {Head(work.added)}
        /\ EdgesOf(gw') = Without(EdgesOf(gw), Head(work.added))
    BY <1>1, <1>3, <1>4, AnyIsNoName, RemoveByNameIs
  <1>6. work' \in WorkData /\ work'.op = work.op
    BY <1>2, <1>3, <1>4 DEF WorkData
  <1>7. IInv'
    BY <1>2, <1>3, <1>5, <1>6, WorkStepInv DEF IInv, FilesInv
  <1> QED BY <1>1, <1>2, <1>4, <1>5, <1>7

LEMMA CreatedInv ==
  ASSUME IInv, Created
  PROVE  IInv' /\ gw' = gw /\ work'.op = "none"
  <1>1. NoWork \in WorkData /\ NoWork.op = "none"
    BY DEF NoWork, WorkData, NoConfig, Config
  <1> QED BY <1>1 DEF Created, IInv, FilesInv, WorkInv, GatewayInv, NoGatewayYet

LEMMA EndUpdateInv ==
  ASSUME IInv, work.op = "update", EndUpdate
  PROVE  IInv' /\ gw' = gw /\ work'.op = "none"
  <1>1. NoWork \in WorkData /\ NoWork.op = "none"
    BY DEF NoWork, WorkData, NoConfig, Config
  <1> QED BY <1>1 DEF EndUpdate, IInv, FilesInv, WorkInv, GatewayInv, NoGatewayYet

LEMMA WorkStepPreserves ==
  ASSUME IInv, WorkStep
  PROVE  IInv' /\ GraphMove
  <1>1. CASE AddModuleEntry
    BY <1>1, AddModuleEntryIs DEF GraphMove
  <1>2. CASE ModuleEntryFails
    BY <1>2, ModuleEntryFailsIs DEF GraphMove
  <1>3. CASE AddLinkEntry
    BY <1>3, AddLinkEntryIs DEF GraphMove
  <1>4. CASE LinkEntryFails
    BY <1>4, LinkEntryFailsIs DEF GraphMove
  <1>5. CASE CreateFails
    BY <1>5, CreateFailsIs DEF GraphMove
  <1>6. CASE UndoLink
    BY <1>6, UndoLinkIs DEF GraphMove
  <1>7. CASE UndoModule
    BY <1>7, UndoModuleIs DEF GraphMove
  <1>8. CASE Created
    BY <1>8, CreatedInv DEF GraphMove
  <1>9. CASE Updated
    BY <1>9, EndUpdateInv DEF GraphMove, Updated
  <1>10. CASE UpdateUndone
    BY <1>10, EndUpdateInv DEF GraphMove, UpdateUndone, Undoing
  <1>11. CASE ModuleEntryRefused
    BY <1>11, ModuleEntryRefusedIs DEF GraphMove
  <1> QED BY <1>1, <1>2, <1>3, <1>4, <1>5, <1>6, <1>7, <1>8, <1>9, <1>10, <1>11 DEF WorkStep

LEMMA InitInv == Init => IInv
  <1> SUFFICES ASSUME Init PROVE IInv
    OBVIOUS
  <1>1. NoWork \in WorkData /\ NoWork.op = "none"
    BY DEF NoWork, WorkData, NoConfig, Config
  <1> QED BY <1>1 DEF Init, IInv, FilesInv, WorkInv, GatewayInv, NoGatewayYet

LEMMA NextInv == IInv /\ [Next]_vars => IInv' /\ (GraphMove \/ UNCHANGED vars)
  <1> SUFFICES ASSUME IInv, [Next]_vars PROVE IInv' /\ (GraphMove \/ UNCHANGED vars)
    OBVIOUS
  <1>1. ASSUME NEW cfg \in Creations, Create(cfg) PROVE IInv' /\ GraphMove
    BY <1>1, CreateInv
  <1>2. ASSUME NEW cfg \in Updates, Update(cfg) PROVE IInv' /\ GraphMove
    BY <1>2, UpdateInv
  <1>3. ASSUME NEW cfg \in Updates, UpdateRejected(cfg) PROVE IInv' /\ GraphMove
    BY <1>3, UpdateRejectedInv
  <1>4. CASE Start
    BY <1>4, StartInv
  <1>5. CASE Destroy
    BY <1>5, DestroyInv
  <1>6. CASE WorkStep
    BY <1>6, WorkStepPreserves
  <1>7. CASE ApiCall
    BY <1>7, ApiInv
  <1>8. CASE UNCHANGED vars
    BY <1>8 DEF vars, IInv, FilesInv, WorkInv, GatewayInv, NoGatewayYet
  <1> QED BY <1>1, <1>2, <1>3, <1>4, <1>5, <1>6, <1>7, <1>8 DEF Next

LEMMA Invariance == Spec => []IInv
  <1>1. IInv /\ [Next]_vars => IInv'
    BY NextInv
  <1> QED BY InitInv, <1>1, PTL DEF Spec

-----------------------------------------------------------------------------
\* The registry stays consistent whatever calls are made and wherever they and an update
\* fail: a name and a handle stand for one module, links end at registered modules, and
\* the broker has the gateway's modules and a reference for each.
THEOREM RegistryConsistent == Spec => []RegistryInv
  <1>1. IInv => RegistryInv
    <2> SUFFICES ASSUME IInv PROVE RegistryInv
      OBVIOUS
    <2>1. gw \in GatewayData
      BY NoGatewayIs DEF IInv, GatewayInv, Sound
    <2>2. TypeOK
      BY <2>1 DEF IInv, FilesInv, WorkInv, WorkData, TypeOK
    <2>3. CASE NoGatewayYet
      <3>1. gw = NoGateway /\ Live(gw) = {}
        BY <2>3, NoGatewayIs DEF IInv, GatewayInv, Live
      <3> QED BY <2>2, <2>3, <3>1, NoGatewayIs, FS_EmptySet
              DEF RegistryInv, UniqueNames, LinkEndsRegistered, BrokerAgrees, NoGatewayYet, Count
    <2>4. CASE ~NoGatewayYet
      <3>1. Sound(gw)
        BY <2>4 DEF IInv, GatewayInv
      <3> QED BY <2>2, <2>4, <3>1
              DEF RegistryInv, UniqueNames, LinkEndsRegistered, BrokerAgrees, NoGatewayYet, Count,
                  Sound, ModulesUnique, EndsLive, BrokerKnows
    <2> QED BY <2>3, <2>4
  <1> QED BY <1>1, Invariance, PTL

\* Removing a module leaves no list of the broker with a node that points to it, and no
\* thread link outlives the gateway's link, for all documents, transports and failures.
THEOREM NodesFollowLinks == Spec => []NodesInv
  <1>1. IInv => NodesInv
    <2> SUFFICES ASSUME IInv PROVE NodesInv
      OBVIOUS
    <2>1. CASE NoGatewayYet
      <3>1. gw = NoGateway
        BY <2>1 DEF IInv, GatewayInv
      <3> QED BY <3>1, NoGatewayIs DEF NodesInv, NodesAccounted, NoDanglingNode, Covers, Count
    <2>2. CASE ~NoGatewayYet
      BY <2>2 DEF IInv, GatewayInv, Sound, NodesCovered, BrokerKnows, NodesInv, NodesAccounted,
                  NoDanglingNode
    <2> QED BY <2>1, <2>2
  <1> QED BY <1>1, Invariance, PTL

\* Seen as a graph of names, every step of the gateway, including those of an update and
\* of its undoing, is one that gateway.h promises, or changes nothing.
THEOREM ImplementsGraph == Spec => GraphSpec
  <1>1. Init => Graph!GraphInit
    BY NoGatewayIs DEF Init, Graph!GraphInit
  <1>2. IInv /\ [Next]_vars => [Graph!GraphNext]_(Graph!gvars)
    <2> SUFFICES ASSUME IInv, [Next]_vars PROVE [Graph!GraphNext]_(Graph!gvars)
      OBVIOUS
    <2> DEFINE N == NamesOf(gw)
               E == EdgesOf(gw)
    <2>1. NamesOf(gw)' = NamesOf(gw') /\ EdgesOf(gw)' = EdgesOf(gw')
      BY DEF NamesOf, EdgesOf, NamedBy
    <2>2. gw \in GatewayData
      BY NoGatewayIs DEF IInv, GatewayInv, Sound
    <2>3. N \in SUBSET Names /\ E \in SUBSET (Ends \X Names)
      BY <2>2, GraphIsTyped
    <2>4. \A e \in E : e[1] \in N \cup {AnySource} /\ e[2] \in N
      BY NoGatewayIs, EdgesInNames, AnyIsNoName DEF IInv, GatewayInv
    <2> HIDE DEF N, E
    <2>5. CASE UNCHANGED vars
      BY <2>1, <2>5 DEF vars, Graph!gvars
    <2>6. CASE NamesOf(gw') = N /\ EdgesOf(gw') = E
      BY <2>1, <2>6 DEF Graph!gvars, N, E
    <2>7. ASSUME NEW n \in Names, NamesOf(gw') = N \cup {n}, EdgesOf(gw') = Without(E, n)
          PROVE  Graph!GraphNext
      <3>1. CASE n \in N
        BY <2>1, <2>7, <3>1 DEF Graph!GraphNext, Graph!Replace, Graph!Without, Without, N, E
      <3>2. CASE n \notin N
        <4>1. Without(E, n) = E
          BY <2>4, <3>2, AnyIsNoName DEF Without
        <4> QED BY <2>1, <2>7, <3>2, <4>1 DEF Graph!GraphNext, Graph!Add, N, E
      <3> QED BY <3>1, <3>2
    <2>8. ASSUME NEW n \in Names, NamesOf(gw') = N \ {n}, EdgesOf(gw') = Without(E, n)
          PROVE  [Graph!GraphNext]_(Graph!gvars)
      <3>1. CASE n \in N
        BY <2>1, <2>8, <3>1 DEF Graph!GraphNext, Graph!Remove, Graph!Without, Without, N, E
      <3>2. CASE n \notin N
        <4>1. Without(E, n) = E /\ N \ {n} = N
          BY <2>4, <3>2, AnyIsNoName DEF Without
        <4> QED BY <2>1, <2>8, <4>1 DEF Graph!gvars, N, E
      <3> QED BY <3>1, <3>2
    <2>9. ASSUME NEW e \in LinkEntry, e.source = AnySource \/ e.source \in N, e.sink \in N,
                 EdgeOf(e) \notin E, NamesOf(gw') = N, EdgesOf(gw') = E \cup {EdgeOf(e)}
          PROVE  Graph!GraphNext
      <3>1. /\ EdgeOf(e) \in (Names \cup {AnySource}) \X Names
            /\ EdgeOf(e)[1] = e.source /\ EdgeOf(e)[2] = e.sink
        BY DEF EdgeOf, LinkEntry
      <3>2. Graph!Link(EdgeOf(e))
        BY <2>1, <2>9, <3>1 DEF Graph!Link, N, E
      <3> QED BY <3>1, <3>2 DEF Graph!GraphNext
    <2>10. ASSUME NEW e \in LinkEntry, NamesOf(gw') = N, EdgesOf(gw') = E \ {EdgeOf(e)}
           PROVE  [Graph!GraphNext]_(Graph!gvars)
      <3>1. EdgeOf(e) \in (Names \cup {AnySource}) \X Names
        BY DEF EdgeOf, LinkEntry
      <3>2. CASE EdgeOf(e) \in E
        <4>1. Graph!Unlink(EdgeOf(e))
          BY <2>1, <2>10, <3>2 DEF Graph!Unlink, N, E
        <4> QED BY <3>1, <4>1 DEF Graph!GraphNext
      <3>3. CASE EdgeOf(e) \notin E
        BY <2>1, <2>10, <3>3 DEF Graph!gvars, N, E
      <3> QED BY <3>2, <3>3
    <2>11. CASE gw' = NoGateway
      BY <2>1, <2>11, NoGatewayIs DEF Graph!GraphNext, Graph!Destroy
    <2>12. GraphMove \/ UNCHANGED vars
      BY NextInv
    <2> QED BY <2>5, <2>6, <2>7, <2>8, <2>9, <2>10, <2>11, <2>12 DEF GraphMove, N, E
  <1> QED BY <1>1, <1>2, Invariance, PTL DEF Spec, GraphSpec, Graph!GraphSpec

-----------------------------------------------------------------------------
(* The undoing of an update.                                                *)
BaseNames == work.names \ work.touched
BaseEdges == {e \in work.edges : {e[1], e[2]} \cap work.touched = {}}

\* During an update the graph is what it was but for the names touched, and what the
\* update has added and has not undone yet.
RollInv ==
    work.op = "update" =>
      /\ BaseNames \subseteq NamesOf(gw)
      /\ \A n \in NamesOf(gw) : n \in BaseNames \/ \E i \in 1..Len(work.added) : work.added[i] = n
      /\ \A i \in 1..Len(work.added) : work.added[i] \in work.touched
      /\ BaseEdges \subseteq EdgesOf(gw)
      /\ \A e \in EdgesOf(gw) :
            e \in BaseEdges \/ \E i \in 1..Len(work.linked) : EdgeOf(work.linked[i]) = e
      /\ \A i \in 1..Len(work.linked) :
            /\ EdgeOf(work.linked[i]) \in EdgesOf(gw) \ BaseEdges
            /\ \A j \in 1..Len(work.linked) :
                  EdgeOf(work.linked[i]) = EdgeOf(work.linked[j]) => i = j
      /\ work.modules # <<>> => work.linked = <<>>

LEMMA GraphPrimes ==
  NamesOf(gw)' = NamesOf(gw') /\ EdgesOf(gw)' = EdgesOf(gw')
  BY DEF NamesOf, EdgesOf, NamedBy

LEMMA WorkSeqs ==
  ASSUME work \in WorkData
  PROVE  /\ work.modules \in Seq(ModuleEntry) /\ work.added \in Seq(Names)
         /\ work.linked \in Seq(LinkEntry) /\ Len(work.added) \in Nat /\ Len(work.linked) \in Nat
  BY DEF WorkData

LEMMA UpdateRoll ==
  ASSUME IInv, NEW cfg, Update(cfg)
  PROVE  RollInv'
  <1>1. /\ work'.names = NamesOf(gw) /\ work'.edges = EdgesOf(gw) /\ work'.touched = {}
        /\ work'.added = <<>> /\ work'.linked = <<>> /\ gw' = gw
    BY DEF Update, Begin
  <1> QED BY <1>1, GraphPrimes DEF RollInv, BaseNames, BaseEdges

LEMMA AddModuleEntryRoll ==
  ASSUME IInv, RollInv, AddModuleEntry, work.op = "update"
  PROVE  RollInv'
  <1> DEFINE n == NextModule.name
  <1>1. /\ work.modules # <<>> /\ n \in Names
        /\ NamesOf(gw') = NamesOf(gw) \cup {n} /\ EdgesOf(gw') = Without(EdgesOf(gw), n)
        /\ work'.added = Append(work.added, n) /\ work'.touched = work.touched \cup {n}
        /\ work'.linked = work.linked /\ work'.names = work.names /\ work'.edges = work.edges
    BY AddModuleEntryIs
  <1> HIDE DEF n
  <1>2. work.added \in Seq(Names) /\ Len(work.added) \in Nat
    BY WorkIs, WorkSeqs
  <1>3. /\ Len(work'.added) = Len(work.added) + 1
        /\ \A i \in 1..Len(work.added) : work'.added[i] = work.added[i]
        /\ work'.added[Len(work.added) + 1] = n
    BY <1>1, <1>2, SeqAppend
  <1>4. work.linked = <<>> /\ Len(work.linked) = 0
    BY <1>1 DEF RollInv
  <1>5. EdgesOf(gw) = BaseEdges
    BY <1>4 DEF RollInv
  <1>6. BaseNames' = BaseNames \ {n} /\ BaseEdges' = Without(BaseEdges, n)
    BY <1>1 DEF BaseNames, BaseEdges, Without
  <1>7. \A m \in NamesOf(gw') : m \in BaseNames' \/ \E i \in 1..Len(work'.added) : work'.added[i] = m
    <2> SUFFICES ASSUME NEW m \in NamesOf(gw'), m \notin BaseNames'
                 PROVE  \E i \in 1..Len(work'.added) : work'.added[i] = m
      OBVIOUS
    <2>1. CASE m = n
      BY <1>2, <1>3, <2>1
    <2>2. CASE m # n
      <3>1. PICK i \in 1..Len(work.added) : work.added[i] = m
        BY <1>1, <1>6, <2>2 DEF RollInv
      <3> QED BY <1>2, <1>3, <3>1
    <2> QED BY <2>1, <2>2
  <1>8. \A i \in 1..Len(work'.added) : work'.added[i] \in work'.touched
    BY <1>1, <1>2, <1>3 DEF RollInv
  <1>9. BaseNames' \subseteq NamesOf(gw')
    BY <1>1, <1>6 DEF RollInv
  <1> QED BY <1>1, <1>4, <1>5, <1>6, <1>7, <1>8, <1>9, GraphPrimes DEF RollInv

LEMMA ModuleEntryFailsRoll ==
  ASSUME IInv, RollInv, ModuleEntryFails, work.op = "update"
  PROVE  RollInv'
  <1> DEFINE n == NextModule.name
  <1>1. /\ work.modules # <<>> /\ n \in Names
        /\ \/ gw' = gw /\ work'.touched = work.touched
           \/ /\ NamesOf(gw') = NamesOf(gw) \ {n} /\ EdgesOf(gw') = Without(EdgesOf(gw), n)
              /\ work'.touched = work.touched \cup {n}
        /\ work'.linked = work.linked /\ work'.added = work.added
        /\ work'.names = work.names /\ work'.edges = work.edges
    BY ModuleEntryFailsIs
  <1> HIDE DEF n
  <1>2. work.linked = <<>> /\ Len(work.linked) = 0
    BY <1>1 DEF RollInv
  <1>3. EdgesOf(gw) = BaseEdges
    BY <1>2 DEF RollInv
  <1>4. CASE gw' = gw /\ work'.touched = work.touched
    <2>1. BaseNames' = BaseNames /\ BaseEdges' = BaseEdges
      BY <1>1, <1>4 DEF BaseNames, BaseEdges
    <2> QED BY <1>1, <1>2, <1>3, <1>4, <2>1, GraphPrimes DEF RollInv
  <1>5. CASE /\ NamesOf(gw') = NamesOf(gw) \ {n} /\ EdgesOf(gw') = Without(EdgesOf(gw), n)
             /\ work'.touched = work.touched \cup {n}
    <2>1. BaseNames' = BaseNames \ {n} /\ BaseEdges' = Without(BaseEdges, n)
      BY <1>1, <1>5 DEF BaseNames, BaseEdges, Without
    <2>2. \A m \in NamesOf(gw') : m \in BaseNames' \/ \E i \in 1..Len(work'.added) : work'.added[i] = m
      BY <1>1, <1>5, <2>1 DEF RollInv
    <2>3. \A i \in 1..Len(work'.added) : work'.added[i] \in work'.touched
      BY <1>1, <1>5 DEF RollInv
    <2>4. BaseNames' \subseteq NamesOf(gw')
      BY <1>5, <2>1 DEF RollInv
    <2> QED BY <1>1, <1>2, <1>3, <1>5, <2>1, <2>2, <2>3, <2>4, GraphPrimes DEF RollInv
  <1> QED BY <1>1, <1>4, <1>5

LEMMA AddLinkEntryRoll ==
  ASSUME IInv, RollInv, AddLinkEntry, work.op = "update"
  PROVE  RollInv'
  <1> DEFINE e == NextLink
             k == Len(work.linked) + 1
  <1>1. /\ work.modules = <<>> /\ e \in LinkEntry /\ EdgeOf(e) \notin EdgesOf(gw)
        /\ NamesOf(gw') = NamesOf(gw) /\ EdgesOf(gw') = EdgesOf(gw) \cup {EdgeOf(e)}
        /\ work'.linked = Append(work.linked, e)
        /\ work'.modules = work.modules /\ work'.touched = work.touched
        /\ work'.added = work.added /\ work'.names = work.names /\ work'.edges = work.edges
    BY AddLinkEntryIs
  <1> HIDE DEF e
  <1>2. work.linked \in Seq(LinkEntry) /\ Len(work.linked) \in Nat
    BY WorkIs, WorkSeqs
  <1>3. /\ Len(work'.linked) = k /\ work'.linked[k] = e
        /\ \A i \in 1..Len(work.linked) : work'.linked[i] = work.linked[i]
    BY <1>1, <1>2, SeqAppend
  <1>4. BaseNames' = BaseNames /\ BaseEdges' = BaseEdges
    BY <1>1 DEF BaseNames, BaseEdges
  <1>5. \A i \in 1..k : i = k \/ i \in 1..Len(work.linked)
    BY <1>2
  <1>6. \A i \in 1..Len(work.linked) : i \in 1..k /\ i # k
    BY <1>2
  <1>7. k \in 1..k
    BY <1>2
  <1> HIDE DEF k
  <1>8. \A d \in EdgesOf(gw') : d \in BaseEdges \/ \E i \in 1..k : EdgeOf(work'.linked[i]) = d
    <2> SUFFICES ASSUME NEW d \in EdgesOf(gw'), d \notin BaseEdges
                 PROVE  \E i \in 1..k : EdgeOf(work'.linked[i]) = d
      OBVIOUS
    <2>1. CASE d = EdgeOf(e)
      BY <1>3, <1>7, <2>1
    <2>2. CASE d # EdgeOf(e)
      <3>1. PICK i \in 1..Len(work.linked) : EdgeOf(work.linked[i]) = d
        BY <1>1, <2>2 DEF RollInv
      <3> QED BY <1>3, <1>6, <3>1
    <2> QED BY <2>1, <2>2
  <1>9. ASSUME NEW i \in 1..k
        PROVE  /\ EdgeOf(work'.linked[i]) \in EdgesOf(gw') \ BaseEdges
               /\ \A j \in 1..k : EdgeOf(work'.linked[i]) = EdgeOf(work'.linked[j]) => i = j
    <2>1. EdgeOf(e) \notin BaseEdges
      BY <1>1 DEF RollInv
    <2>2. \A j \in 1..Len(work.linked) : /\ EdgeOf(work'.linked[j]) \in EdgesOf(gw) \ BaseEdges
                                         /\ EdgeOf(work'.linked[j]) # EdgeOf(e)
      BY <1>1, <1>3 DEF RollInv
    <2>3. EdgeOf(work'.linked[i]) \in EdgesOf(gw') \ BaseEdges
      BY <1>1, <1>3, <1>5, <2>1, <2>2
    <2>4. ASSUME NEW j \in 1..k, EdgeOf(work'.linked[i]) = EdgeOf(work'.linked[j])
          PROVE  i = j
      <3>1. CASE i = k \/ j = k
        BY <1>3, <1>5, <2>2, <2>4, <3>1
      <3>2. CASE i # k /\ j # k
        <4>1. i \in 1..Len(work.linked) /\ j \in 1..Len(work.linked)
          BY <1>5, <3>2
        <4> QED BY <1>3, <2>4, <4>1 DEF RollInv
      <3> QED BY <3>1, <3>2
    <2> QED BY <2>3, <2>4
  <1>10. BaseNames' \subseteq NamesOf(gw') /\ BaseEdges' \subseteq EdgesOf(gw')
    BY <1>1, <1>4 DEF RollInv
  <1>11. /\ \A n \in NamesOf(gw') :
               n \in BaseNames' \/ \E i \in 1..Len(work'.added) : work'.added[i] = n
         /\ \A i \in 1..Len(work'.added) : work'.added[i] \in work'.touched
    BY <1>1, <1>4 DEF RollInv
  <1> QED BY <1>1, <1>3, <1>4, <1>8, <1>9, <1>10, <1>11, GraphPrimes DEF RollInv

\* An entry that fails without a change of the graph.
LEMMA EntryFailsRoll ==
  ASSUME IInv, RollInv, LinkEntryFails \/ ModuleEntryRefused, work.op = "update"
  PROVE  RollInv'
  <1>1. /\ NamesOf(gw') = NamesOf(gw) /\ EdgesOf(gw') = EdgesOf(gw)
        /\ work' = [work EXCEPT !.failed = TRUE]
    BY LinkEntryFailsIs, ModuleEntryRefusedIs
  <1>2. work \in WorkData
    BY WorkIs
  <1>3. /\ work'.added = work.added /\ work'.linked = work.linked /\ work'.touched = work.touched
        /\ work'.names = work.names /\ work'.edges = work.edges /\ work'.modules = work.modules
    BY <1>1, <1>2 DEF WorkData
  <1>4. BaseNames' = BaseNames /\ BaseEdges' = BaseEdges
    BY <1>3 DEF BaseNames, BaseEdges
  <1> QED BY <1>1, <1>3, <1>4, GraphPrimes DEF RollInv

LEMMA UndoLinkRoll ==
  ASSUME IInv, RollInv, UndoLink
  PROVE  RollInv'
  <1> DEFINE d == EdgeOf(Head(work.linked))
             k == Len(work.linked)
  <1>1. /\ Undoing /\ work.linked # <<>>
        /\ NamesOf(gw') = NamesOf(gw) /\ EdgesOf(gw') = EdgesOf(gw) \ {d}
        /\ work' = [work EXCEPT !.linked = Tail(@)]
    BY UndoLinkIs
  <1>2. work \in WorkData /\ work.op = "update"
    BY <1>1, WorkIs DEF Undoing
  <1>3. work.linked \in Seq(LinkEntry)
    BY <1>2, WorkSeqs
  <1>4. /\ work'.linked = Tail(work.linked)
        /\ work'.added = work.added /\ work'.touched = work.touched
        /\ work'.names = work.names /\ work'.edges = work.edges /\ work'.modules = work.modules
    BY <1>1, <1>2 DEF WorkData
  <1>5. /\ d = EdgeOf(work.linked[1]) /\ k \in Nat /\ k > 0
        /\ Len(work'.linked) = k - 1
        /\ \A i \in 1..k - 1 : work'.linked[i] = work.linked[i + 1]
    BY <1>1, <1>3, <1>4, SeqTail
  <1>6. BaseNames' = BaseNames /\ BaseEdges' = BaseEdges
    BY <1>4 DEF BaseNames, BaseEdges
  <1>7. /\ \A i \in 1..k - 1 : i + 1 \in 1..k /\ i + 1 # 1
        /\ \A i \in 1..k : i = 1 \/ (i - 1 \in 1..k - 1 /\ (i - 1) + 1 = i)
        /\ 1 \in 1..k
    BY <1>5
  <1>8. work.modules = <<>>
    BY <1>1, <1>2 DEF RollInv
  <1> HIDE DEF d
  <1>9. d \notin BaseEdges
    BY <1>2, <1>5, <1>7 DEF RollInv
  <1>10. BaseEdges' \subseteq EdgesOf(gw') /\ BaseNames' \subseteq NamesOf(gw')
    BY <1>1, <1>2, <1>6, <1>9 DEF RollInv
  <1>11. \A e \in EdgesOf(gw') : e \in BaseEdges \/ \E i \in 1..k - 1 : EdgeOf(work'.linked[i]) = e
    <2> SUFFICES ASSUME NEW e \in EdgesOf(gw'), e \notin BaseEdges
                 PROVE  \E i \in 1..k - 1 : EdgeOf(work'.linked[i]) = e
      OBVIOUS
    <2>1. PICK i \in 1..k : EdgeOf(work.linked[i]) = e
      BY <1>1, <1>2 DEF RollInv
    <2>2. i # 1
      BY <1>1, <1>5, <2>1
    <2>3. i - 1 \in 1..k - 1 /\ work'.linked[i - 1] = work.linked[i]
      BY <1>5, <1>7, <2>2
    <2> QED BY <2>1, <2>3
  <1>12. ASSUME NEW i \in 1..k - 1
         PROVE  /\ EdgeOf(work'.linked[i]) \in EdgesOf(gw') \ BaseEdges
                /\ \A j \in 1..k - 1 : EdgeOf(work'.linked[i]) = EdgeOf(work'.linked[j]) => i = j
    <2>1. \A x, y \in 1..k : EdgeOf(work.linked[x]) = EdgeOf(work.linked[y]) => x = y
      BY <1>2 DEF RollInv
    <2>2. i + 1 \in 1..k /\ i + 1 # 1 /\ work'.linked[i] = work.linked[i + 1]
      BY <1>5, <1>7
    <2>3. EdgeOf(work.linked[i + 1]) # d
      BY <1>5, <1>7, <2>1, <2>2
    <2>4. EdgeOf(work'.linked[i]) \in EdgesOf(gw') \ BaseEdges
      BY <1>1, <1>2, <2>2, <2>3 DEF RollInv
    <2>5. ASSUME NEW j \in 1..k - 1, EdgeOf(work'.linked[i]) = EdgeOf(work'.linked[j])
          PROVE  i = j
      <3>1. j + 1 \in 1..k /\ work'.linked[j] = work.linked[j + 1]
        BY <1>5, <1>7
      <3>2. i + 1 = j + 1
        BY <2>1, <2>2, <2>5, <3>1
      <3> QED BY <1>5, <3>2
    <2> QED BY <2>4, <2>5
  <1>13. /\ \A n \in NamesOf(gw') :
               n \in BaseNames' \/ \E i \in 1..Len(work'.added) : work'.added[i] = n
         /\ \A i \in 1..Len(work'.added) : work'.added[i] \in work'.touched
    BY <1>1, <1>2, <1>4, <1>6 DEF RollInv
  <1> QED BY <1>4, <1>5, <1>6, <1>8, <1>10, <1>11, <1>12, <1>13, GraphPrimes DEF RollInv

LEMMA UndoModuleRoll ==
  ASSUME IInv, RollInv, UndoModule
  PROVE  RollInv'
  <1> DEFINE n == Head(work.added)
             k == Len(work.added)
  <1>1. /\ Undoing /\ work.linked = <<>> /\ work.added # <<>>
        /\ NamesOf(gw') = NamesOf(gw) \ {n} /\ EdgesOf(gw') = Without(EdgesOf(gw), n)
        /\ work' = [work EXCEPT !.added = Tail(@)]
    BY UndoModuleIs
  <1>2. work \in WorkData /\ work.op = "update"
    BY <1>1, WorkIs DEF Undoing
  <1>3. work.added \in Seq(Names)
    BY <1>2, WorkSeqs
  <1>4. /\ work'.added = Tail(work.added)
        /\ work'.linked = work.linked /\ work'.touched = work.touched
        /\ work'.names = work.names /\ work'.edges = work.edges
    BY <1>1, <1>2 DEF WorkData
  <1>5. /\ n = work.added[1] /\ k \in Nat /\ k > 0
        /\ Len(work'.added) = k - 1
        /\ \A i \in 1..k - 1 : work'.added[i] = work.added[i + 1]
    BY <1>1, <1>3, <1>4, SeqTail
  <1>6. BaseNames' = BaseNames /\ BaseEdges' = BaseEdges
    BY <1>4 DEF BaseNames, BaseEdges
  <1>7. /\ \A i \in 1..k - 1 : i + 1 \in 1..k
        /\ \A i \in 1..k : i = 1 \/ (i - 1 \in 1..k - 1 /\ (i - 1) + 1 = i)
        /\ 1 \in 1..k
    BY <1>5
  <1> HIDE DEF n
  <1>8. n \in work.touched
    BY <1>2, <1>5, <1>7 DEF RollInv
  <1>9. Len(work.linked) = 0 /\ EdgesOf(gw) = BaseEdges
    <2>1. Len(work.linked) = 0 /\ \A i : i \notin 1..Len(work.linked)
      BY <1>1
    <2>2. /\ BaseEdges \subseteq EdgesOf(gw)
          /\ \A e \in EdgesOf(gw) :
                e \in BaseEdges \/ \E i \in 1..Len(work.linked) : EdgeOf(work.linked[i]) = e
      BY <1>2 DEF RollInv
    <2>3. \A e \in EdgesOf(gw) : e \in BaseEdges
      BY <2>1, <2>2
    <2> QED BY <2>1, <2>2, <2>3
  <1>10. EdgesOf(gw') = BaseEdges
    BY <1>1, <1>8, <1>9 DEF BaseEdges, Without
  <1>11. BaseNames' \subseteq NamesOf(gw')
    BY <1>1, <1>2, <1>6, <1>8 DEF RollInv, BaseNames
  <1>12. \A m \in NamesOf(gw') : m \in BaseNames \/ \E i \in 1..k - 1 : work'.added[i] = m
    <2> SUFFICES ASSUME NEW m \in NamesOf(gw'), m \notin BaseNames
                 PROVE  \E i \in 1..k - 1 : work'.added[i] = m
      OBVIOUS
    <2>1. PICK i \in 1..k : work.added[i] = m
      BY <1>1, <1>2 DEF RollInv
    <2>2. i # 1
      BY <1>1, <1>5, <2>1
    <2>3. i - 1 \in 1..k - 1 /\ work'.added[i - 1] = work.added[i]
      BY <1>5, <1>7, <2>2
    <2> QED BY <2>1, <2>3
  <1>13. \A i \in 1..k - 1 : work'.added[i] \in work'.touched
    BY <1>2, <1>4, <1>5, <1>7 DEF RollInv
  <1> QED BY <1>1, <1>4, <1>5, <1>6, <1>9, <1>10, <1>11, <1>12, <1>13, GraphPrimes DEF RollInv

LEMMA RollNext == IInv /\ RollInv /\ [Next]_vars => RollInv'
  <1> SUFFICES ASSUME IInv, RollInv, [Next]_vars PROVE RollInv'
    OBVIOUS
  <1>1. CASE UNCHANGED vars
    BY <1>1 DEF vars, RollInv, BaseNames, BaseEdges
  <1>2. ASSUME NEW cfg \in Updates, Update(cfg) PROVE RollInv'
    BY <1>2, UpdateRoll
  <1>3. CASE work'.op # "update"
    BY <1>3 DEF RollInv
  <1>4. CASE work'.op = "update" /\ WorkStep
    <2>1. CASE AddModuleEntry
      <3>1. work.op = "update"
        BY <1>4, <2>1, AddModuleEntryIs
      <3> QED BY <2>1, <3>1, AddModuleEntryRoll
    <2>2. CASE ModuleEntryFails
      <3>1. work.op = "update"
        BY <1>4, <2>2, ModuleEntryFailsIs
      <3> QED BY <2>2, <3>1, ModuleEntryFailsRoll
    <2>3. CASE AddLinkEntry
      <3>1. work.op = "update"
        BY <1>4, <2>3, AddLinkEntryIs
      <3> QED BY <2>3, <3>1, AddLinkEntryRoll
    <2>4. CASE LinkEntryFails
      <3>1. work.op = "update"
        BY <1>4, <2>4, LinkEntryFailsIs, WorkIs DEF WorkData
      <3> QED BY <2>4, <3>1, EntryFailsRoll
    <2>5. CASE UndoLink
      BY <2>5, UndoLinkRoll
    <2>6. CASE UndoModule
      BY <2>6, UndoModuleRoll
    <2>7. CASE ModuleEntryRefused
      <3>1. work.op = "update"
        BY <1>4, <2>7, ModuleEntryRefusedIs, WorkIs DEF WorkData
      <3> QED BY <2>7, <3>1, EntryFailsRoll
    <2> QED BY <1>4, <2>1, <2>2, <2>3, <2>4, <2>5, <2>6, <2>7, CreateFailsIs, CreatedInv, EndUpdateInv
            DEF WorkStep, Updated, UpdateUndone, Undoing
  <1>5. ASSUME NEW cfg \in Creations, Create(cfg) PROVE work'.op # "update"
    BY <1>5 DEF Create, Begin
  <1>6. ASSUME NEW cfg \in Updates, UpdateRejected(cfg) PROVE work'.op # "update"
    BY <1>6 DEF UpdateRejected, Idle
  <1>7. CASE Start \/ Destroy
    BY <1>7, <1>3 DEF Start, Destroy, Idle
  <1>8. CASE ApiCall
    BY <1>8, <1>3 DEF ApiCall, ApiAddModule, ApiRemoveModule, StartModule, ApiAddLink, ApiRemoveLink, Idle
  <1> QED BY <1>1, <1>2, <1>3, <1>4, <1>5, <1>6, <1>7, <1>8 DEF Next

\* An update that fails, at whatever entry and whatever it had replaced, removed and
\* linked by then, leaves the names and links it found but for those of the modules it
\* had touched, and nothing that it added.
THEOREM FailedUpdateUndone == Spec => RollsBackTheRest
  <1>1. Init => RollInv
    BY DEF Init, RollInv, NoWork
  <1>2. IInv /\ RollInv /\ [Next]_vars => RollInv'
    BY RollNext
  <1>3. IInv /\ RollInv /\ [Next]_vars =>
          [UpdateUndone =>
             /\ NamesOf(gw) = work.names \ work.touched
             /\ EdgesOf(gw) = {e \in work.edges : {e[1], e[2]} \cap work.touched = {}}]_vars
    <2> SUFFICES ASSUME RollInv, UpdateUndone
                 PROVE  /\ NamesOf(gw) = work.names \ work.touched
                        /\ EdgesOf(gw) = {e \in work.edges : {e[1], e[2]} \cap work.touched = {}}
      OBVIOUS
    <2>1. work.op = "update" /\ work.linked = <<>> /\ work.added = <<>>
      BY DEF UpdateUndone, Undoing
    <2> QED BY <2>1 DEF RollInv, BaseNames, BaseEdges
  <1> QED BY <1>1, <1>2, <1>3, Invariance, PTL DEF Spec, RollsBackTheRest

-----------------------------------------------------------------------------
(* What is published on a link reaches its sink, if the kinds are not mixed. *)

\* What is asked of the link entries: the modules of S are the sources of thread links
\* alone, and between modules in the process; the others, of links of the default type, as
\* those of a module out of the process are whatever their type; and a link from "*" is of
\* the default type, as the routes added to it for later modules are, and there are such
\* links only if S is empty.
Unmixed(S, e) ==
    IF e.source \in S
    THEN e.type = "thread" /\ {e.source, e.sink} \cap OutProcess = {}
    ELSE /\ e.type = "default" \/ (e.source # AnySource /\ {e.source, e.sink} \cap OutProcess # {})
         /\ e.source = AnySource => S = {}

AllUnmixed(S, links) == \A i \in 1..Len(links) : Unmixed(S, links[i])

UnmixedLinks(S) ==
    /\ S \subseteq Names
    /\ \A cfg \in Creations \cup Updates : AllUnmixed(S, cfg.links)
    /\ \A e \in LinkEntries : Unmixed(S, e)

\* The handles of the modules of S.
SourcesOf(g, S) == {m.handle : m \in {x \in g.modules : x.name \in S}}

Delivers(g, S) ==
    /\ g.threaded \subseteq SourcesOf(g, S)
    /\ \A l \in g.links :
          IF l.source \in SourcesOf(g, S)
          THEN l.source \in g.threaded /\ g.nodes[<<l.source, l.sink>>] > 0
          ELSE Routes(g, l.source, l.sink) \subseteq g.subs
    /\ S # {} => \A l \in g.links : l.source # AnySource

DeliverInv(S) == Delivers(gw, S) /\ AllUnmixed(S, work.links)

LEMMA DeliversWithFewerLinks ==
  ASSUME NEW g, NEW S, Delivers(g, S), NEW r,
         r.modules = g.modules, r.links \subseteq g.links, g.subs \subseteq r.subs,
         g.threaded \subseteq r.threaded, r.threaded \subseteq SourcesOf(g, S),
         \A l \in r.links : l.source \in SourcesOf(g, S) =>
                               r.nodes[<<l.source, l.sink>>] = g.nodes[<<l.source, l.sink>>]
  PROVE  Delivers(r, S)
  <1>1. \A s, k : Routes(r, s, k) = Routes(g, s, k)
    BY DEF Routes, Live
  <1>2. SourcesOf(r, S) = SourcesOf(g, S)
    BY DEF SourcesOf
  <1>3. ASSUME NEW l \in r.links
        PROVE  IF l.source \in SourcesOf(r, S)
               THEN l.source \in r.threaded /\ r.nodes[<<l.source, l.sink>>] > 0
               ELSE Routes(r, l.source, l.sink) \subseteq r.subs
    BY <1>1, <1>2 DEF Delivers
  <1>4. S # {} => \A l \in r.links : l.source # AnySource
    BY DEF Delivers
  <1> QED BY <1>2, <1>3, <1>4 DEF Delivers

LEMMA SourcesAre ==
  ASSUME NEW g, Sound(g), NEW S
  PROVE  /\ SourcesOf(g, S) \subseteq Live(g) /\ SourcesOf(g, S) \subseteq Handles
         /\ \A m \in g.modules : m.handle \in SourcesOf(g, S) <=> m.name \in S
         /\ S = {} => SourcesOf(g, S) = {}
  BY DEF Sound, ModulesUnique, SourcesOf, Live, GatewayData, ModuleData

LEMMA DeliversRemoveModule ==
  ASSUME NEW g, Sound(g), NEW S, Delivers(g, S), NEW m \in g.modules, AnySource \notin Handles
  PROVE  Delivers(RemoveModule(g, m), S)
  <1> DEFINE r == RemoveModule(g, m)
             h == m.handle
  <1>1. g \in GatewayData /\ g.refs > 0
    BY FS_CardinalityType DEF Sound, BrokerKnows
  <1>2. /\ r.modules = g.modules \ {m}
        /\ r.links = {l \in g.links : h \notin {l.source, l.sink}}
        /\ r.subs = {p \in g.subs : p[2] # h}
        /\ r.nodes = [p \in Pairs |-> IF g.nodes[p] > Withdrawn(g, h, p)
                                      THEN g.nodes[p] - Withdrawn(g, h, p) ELSE 0]
        /\ r.threaded = g.threaded \ {h}
    <2> HIDE DEF r
    <2>1. r = RemoveModule(g, m)
      BY DEF r
    <2> QED BY <1>1, <2>1, RemoveModuleIs
  <1> HIDE DEF r
  <1>3. Live(r) \subseteq Live(g)
    BY <1>2 DEF Live
  <1>4. SourcesOf(r, S) = SourcesOf(g, S) \ {h}
    BY <1>2 DEF SourcesOf, Sound, ModulesUnique
  <1>5. h \in Handles
    BY <1>1 DEF GatewayData, ModuleData
  <1>6. ASSUME NEW l \in r.links
        PROVE  IF l.source \in SourcesOf(r, S)
               THEN l.source \in r.threaded /\ r.nodes[<<l.source, l.sink>>] > 0
               ELSE Routes(r, l.source, l.sink) \subseteq r.subs
    <2>1. l \in g.links /\ l.source # h /\ l.sink # h
      BY <1>2
    <2>2. l.source \in SourcesOf(r, S) <=> l.source \in SourcesOf(g, S)
      BY <1>4, <2>1
    <2>3. CASE l.source \in SourcesOf(g, S)
      <3> DEFINE p == <<l.source, l.sink>>
      <3>1. l.source \in g.threaded /\ g.nodes[p] > 0
        BY <2>1, <2>3 DEF Delivers
      <3>2. p \in Pairs /\ p[1] = l.source /\ p[2] = l.sink
        BY <1>1, <2>1, <2>3, SourcesAre DEF Pairs, GatewayData, LinkData
      <3> HIDE DEF p, h
      <3>3. Withdrawn(g, h, p) = 0
        BY <1>1, <1>5, <2>1, <3>2, WithdrawnIs
      <3>4. r.nodes[p] = g.nodes[p]
        BY <1>1, <1>2, <3>1, <3>2, <3>3 DEF GatewayData
      <3> QED BY <1>2, <2>1, <2>2, <2>3, <3>1, <3>4 DEF p
    <2>4. CASE l.source \notin SourcesOf(g, S)
      <3>1. \A p \in Routes(r, l.source, l.sink) : p \in Routes(g, l.source, l.sink) /\ p[2] = l.sink
        BY <1>3 DEF Routes
      <3>2. Routes(g, l.source, l.sink) \subseteq g.subs
        BY <2>1, <2>4 DEF Delivers
      <3> QED BY <1>2, <2>1, <2>2, <2>4, <3>1, <3>2
    <2> QED BY <2>3, <2>4
  <1>7. r.threaded \subseteq SourcesOf(r, S)
    BY <1>2, <1>4 DEF Delivers
  <1>8. S # {} => \A l \in r.links : l.source # AnySource
    BY <1>2 DEF Delivers
  <1> QED BY <1>6, <1>7, <1>8 DEF Delivers, r

LEMMA DeliversRemoveByName ==
  ASSUME NEW g, Sound(g), NEW S, Delivers(g, S), NEW n
  PROVE  Delivers(RemoveByName(g, n), S)
  BY ModuleOfIs, DeliversRemoveModule, AnyIsNoName DEF RemoveByName

\* The new module is subscribed to by the sink of every "*" link.
LEMMA DeliversAddModule ==
  ASSUME NEW g, Sound(g), NEW S, Delivers(g, S), NEW n \in Names, NEW h \in Handles \ Live(g),
         disk \in [Names -> Versions \cup {NoVersion}]
  PROVE  Delivers(AddModule(g, n, h), S)
  <1> DEFINE r == AddModule(g, n, h)
             new == [name |-> n, handle |-> h, code |-> disk[n]]
  <1>1. g \in GatewayData
    BY DEF Sound
  <1>2. /\ r.modules = g.modules \cup {new} /\ r.links = g.links
        /\ r.subs = g.subs \cup ({h} \X AnySinks(g)) /\ r.threaded = g.threaded
        /\ r.nodes = g.nodes
    BY <1>1, AddModuleIs
  <1>3. new.handle = h
    OBVIOUS
  <1> HIDE DEF r, new
  <1>4. Live(r) = Live(g) \cup {h}
    BY <1>2, <1>3 DEF Live
  <1>5. SourcesOf(g, S) \subseteq SourcesOf(r, S) /\ SourcesOf(r, S) \subseteq SourcesOf(g, S) \cup {h}
    BY <1>2, <1>3 DEF SourcesOf
  <1>6. ASSUME NEW l \in r.links
        PROVE  IF l.source \in SourcesOf(r, S)
               THEN l.source \in r.threaded /\ r.nodes[<<l.source, l.sink>>] > 0
               ELSE Routes(r, l.source, l.sink) \subseteq r.subs
    <2>1. l \in g.links /\ l.source # h
      BY <1>2, AnyIsNoName DEF Sound, EndsLive
    <2>2. CASE l.source \in SourcesOf(r, S)
      BY <1>2, <1>5, <2>1, <2>2 DEF Delivers
    <2>3. CASE l.source \notin SourcesOf(r, S)
      <3>1. Routes(g, l.source, l.sink) \subseteq g.subs
        BY <1>5, <2>1, <2>3 DEF Delivers
      <3>2. ASSUME NEW p \in Routes(r, l.source, l.sink), p \notin Routes(g, l.source, l.sink)
            PROVE  p \in r.subs
        <4>1. l.source = AnySource /\ p = <<h, l.sink>>
          BY <1>4, <3>2 DEF Routes
        <4>2. l \in LinkData /\ l.sink \in Handles
          BY <1>1, <2>1 DEF GatewayData, LinkData
        <4>3. l = LinkOf(AnySource, l.sink)
          BY <4>1, <4>2 DEF LinkData, LinkOf
        <4>4. l.sink \in AnySinks(g)
          BY <2>1, <4>2, <4>3 DEF AnySinks
        <4> QED BY <1>2, <4>1, <4>4
      <3> QED BY <1>2, <2>3, <3>1, <3>2
    <2> QED BY <2>2, <2>3
  <1>7. S # {} => \A l \in r.links : l.source # AnySource
    BY <1>2 DEF Delivers
  <1>8. r.threaded \subseteq SourcesOf(r, S)
    BY <1>2, <1>5 DEF Delivers
  <1> QED BY <1>6, <1>7, <1>8 DEF Delivers, r

\* The routes of an entry are thread links if its source is one of S, and else none is.
LEMMA UnmixedIs ==
  ASSUME NEW g, Sound(g), NEW S \in SUBSET Names, NEW e, EndsExist(g, e), Unmixed(S, e)
  PROVE  LET s == SourceOf(g, e)
             k == SinkOf(g, e)
         IN /\ s = AnySource => S = {}
            /\ s # AnySource => Routes(g, s, k) = {<<s, k>>}
            /\ s \in SourcesOf(g, S) => s # AnySource /\ Threaded(g, <<s, k>>, e.type)
            /\ s \notin SourcesOf(g, S) => \A p \in Routes(g, s, k) : ~Threaded(g, p, e.type)
  <1> DEFINE s == SourceOf(g, e)
             k == SinkOf(g, e)
  <1>1. PICK mk \in g.modules : mk.name = e.sink /\ mk.handle = k
    BY ModuleOfIs DEF EndsExist, SinkOf, HandleOf
  <1>2. CASE e.source = AnySource
    <2>1. s = AnySource /\ e.source \notin S
      BY <1>2, AnyIsNoName DEF SourceOf
    <2>2. e.type = "default" /\ S = {}
      BY <1>2, <2>1 DEF Unmixed
    <2>3. \A p : ~Threaded(g, p, e.type)
      BY <2>2 DEF Threaded
    <2>4. s \notin SourcesOf(g, S)
      BY <2>2, SourcesAre
    <2> QED BY <2>1, <2>2, <2>3, <2>4
  <1>3. CASE e.source # AnySource
    <2>1. PICK ms \in g.modules : ms.name = e.source /\ ms.handle = s
      BY <1>3, ModuleOfIs DEF EndsExist, SourceOf, HandleOf
    <2> HIDE DEF s, k
    <2>2. s # AnySource
      BY <2>1, AnyIsNoName DEF Sound, GatewayData, ModuleData
    <2>3. Routes(g, s, k) = {<<s, k>>}
      BY <2>2 DEF Routes
    <2>4. s \in SourcesOf(g, S) <=> e.source \in S
      BY <2>1, SourcesAre
    <2>5. \A m \in g.modules : m.handle \in {s, k} => m = ms \/ m = mk
      BY <1>1, <2>1 DEF Sound, ModulesUnique
    <2>6. ASSUME e.source \in S PROVE Threaded(g, <<s, k>>, e.type)
      BY <1>1, <2>1, <2>5, <2>6 DEF Unmixed, Threaded
    <2>7. ASSUME e.source \notin S PROVE ~Threaded(g, <<s, k>>, e.type)
      <3>1. e.type = "default" \/ e.source \in OutProcess \/ e.sink \in OutProcess
        BY <2>7 DEF Unmixed
      <3> QED BY <1>1, <2>1, <3>1 DEF Threaded
    <2> QED BY <2>2, <2>3, <2>4, <2>6, <2>7 DEF s, k
  <1> QED BY <1>2, <1>3

LEMMA DeliversAddLink ==
  ASSUME NEW g, Sound(g), NEW S \in SUBSET Names, Delivers(g, S), NEW e, EndsExist(g, e),
         Unmixed(S, e)
  PROVE  Delivers(AddLink(g, e), S)
  <1> DEFINE s == SourceOf(g, e)
             k == SinkOf(g, e)
             r == AddLink(g, e)
             T == {p \in Routes(g, s, k) : Threaded(g, p, e.type)}
  <1>1. /\ r.modules = g.modules /\ r.links = g.links \cup {LinkOf(s, k)}
        /\ r.subs = g.subs \cup (Routes(g, s, k) \ T)
        /\ r.nodes = [p \in Pairs |-> g.nodes[p] + Count(p \in T)]
        /\ r.threaded = g.threaded \cup {p[1] : p \in T}
    BY AddLinkIs, AnyIsNoName DEF Sound
  <1>2. /\ s = AnySource => S = {}
        /\ s \in SourcesOf(g, S) => T = {<<s, k>>}
        /\ s \notin SourcesOf(g, S) => T = {}
    <2>1. /\ s = AnySource => S = {}
          /\ s # AnySource => Routes(g, s, k) = {<<s, k>>}
          /\ s \in SourcesOf(g, S) => s # AnySource /\ Threaded(g, <<s, k>>, e.type)
          /\ s \notin SourcesOf(g, S) => \A p \in Routes(g, s, k) : ~Threaded(g, p, e.type)
      BY UnmixedIs
    <2> HIDE DEF s, k
    <2>2. CASE s \in SourcesOf(g, S)
      BY <2>1, <2>2
    <2>3. CASE s \notin SourcesOf(g, S)
      BY <2>1, <2>3
    <2> QED BY <2>1, <2>2, <2>3
  <1>3. k \in Live(g)
    BY ModuleOfIs DEF EndsExist, SinkOf, HandleOf, Live
  <1> HIDE DEF s, k, r, T
  <1>4. g \in GatewayData /\ g.nodes \in [Pairs -> Nat] /\ k \in Handles
    BY <1>3, LiveIs DEF Sound, GatewayData
  <1>5. \A p \in Pairs : r.nodes[p] >= g.nodes[p] /\ (p \in T => r.nodes[p] > 0)
    BY <1>1, <1>4 DEF Count
  <1>6. \A x, y : Routes(r, x, y) = Routes(g, x, y)
    BY <1>1 DEF Routes, Live
  <1>7. SourcesOf(r, S) = SourcesOf(g, S)
    BY <1>1 DEF SourcesOf
  <1>8. LinkOf(s, k).source = s /\ LinkOf(s, k).sink = k
    BY DEF LinkOf
  <1>9. ASSUME NEW l \in r.links
        PROVE  IF l.source \in SourcesOf(r, S)
               THEN l.source \in r.threaded /\ r.nodes[<<l.source, l.sink>>] > 0
               ELSE Routes(r, l.source, l.sink) \subseteq r.subs
    <2>1. CASE l \in g.links /\ l.source \in SourcesOf(g, S)
      <3>1. <<l.source, l.sink>> \in Pairs
        BY <1>4, <2>1, SourcesAre DEF Pairs, GatewayData, LinkData
      <3>2. l.source \in g.threaded /\ g.nodes[<<l.source, l.sink>>] > 0
        BY <2>1 DEF Delivers
      <3>3. r.nodes[<<l.source, l.sink>>] > 0
        BY <1>4, <1>5, <3>1, <3>2, <1>1 DEF Count
      <3> QED BY <1>1, <1>7, <2>1, <3>2, <3>3
    <2>2. CASE l \in g.links /\ l.source \notin SourcesOf(g, S)
      <3>1. Routes(g, l.source, l.sink) \subseteq g.subs
        BY <2>2 DEF Delivers
      <3> QED BY <1>1, <1>6, <1>7, <2>2, <3>1
    <2>3. CASE l = LinkOf(s, k) /\ s \in SourcesOf(g, S)
      <3>1. <<s, k>> \in Pairs /\ <<s, k>> \in T
        BY <1>2, <1>4, <2>3, SourcesAre DEF Pairs
      <3> QED BY <1>1, <1>5, <1>7, <1>8, <2>3, <3>1
    <2>4. CASE l = LinkOf(s, k) /\ s \notin SourcesOf(g, S)
      BY <1>1, <1>2, <1>6, <1>7, <1>8, <2>4
    <2> QED BY <1>1, <2>1, <2>2, <2>3, <2>4
  <1>10. r.threaded \subseteq SourcesOf(r, S)
    BY <1>1, <1>2, <1>7 DEF Delivers
  <1>11. S # {} => \A l \in r.links : l.source # AnySource
    BY <1>1, <1>2, <1>8 DEF Delivers
  <1> QED BY <1>9, <1>10, <1>11 DEF Delivers, r

\* What a failure takes back touches no link that is there.
LEMMA DeliversAddLinkFails ==
  ASSUME NEW g, Sound(g), NEW S \in SUBSET Names, Delivers(g, S), NEW e, EndsExist(g, e),
         ~LinkExists(g, e), Unmixed(S, e), NEW made \in SUBSET Routes(g, SourceOf(g, e), SinkOf(g, e))
  PROVE  Delivers(AddLinkFails(g, e, made), S)
  <1> DEFINE s == SourceOf(g, e)
             k == SinkOf(g, e)
             R == Routes(g, s, k)
             T == {p \in made : Threaded(g, p, e.type)}
             r == AddLinkFails(g, e, made)
  <1>1. /\ r.modules = g.modules /\ r.links = g.links /\ g.subs \subseteq r.subs
        /\ r.threaded = g.threaded \cup {p[1] : p \in T}
        /\ \A p \in Pairs \ R : r.nodes[p] = g.nodes[p]
    BY SoundAddLinkFails, AnyIsNoName
  <1>2. /\ s = AnySource => S = {}
        /\ s # AnySource => R = {<<s, k>>}
        /\ s \in SourcesOf(g, S) => s # AnySource
        /\ s \notin SourcesOf(g, S) => T = {}
    BY UnmixedIs
  <1>3. LinkOf(s, k) \notin g.links /\ made \subseteq R
    BY DEF LinkExists
  <1>4. T \subseteq made
    OBVIOUS
  <1> HIDE DEF s, k, R, T, r
  <1>5. r.threaded \subseteq SourcesOf(g, S)
    BY <1>1, <1>2, <1>3, <1>4 DEF Delivers
  <1>6. ASSUME NEW l \in r.links, l.source \in SourcesOf(g, S)
        PROVE  r.nodes[<<l.source, l.sink>>] = g.nodes[<<l.source, l.sink>>]
    <2>1. S # {} /\ l.source \in Handles
      BY <1>6, SourcesAre
    <2>2. R = {<<s, k>>}
      BY <1>2, <2>1
    <2>3. l \in LinkData /\ <<l.source, l.sink>> \in Pairs
      BY <1>1, <1>6, <2>1 DEF Sound, GatewayData, LinkData, Pairs
    <2>4. l # LinkOf(s, k)
      BY <1>1, <1>3, <1>6
    <2>5. <<l.source, l.sink>> # <<s, k>>
      BY <2>3, <2>4 DEF LinkData, LinkOf
    <2> QED BY <1>1, <2>2, <2>3, <2>5
  <1>7. r.links \subseteq g.links /\ g.threaded \subseteq r.threaded
    BY <1>1
  <1>8. Delivers(r, S)
    BY <1>1, <1>5, <1>6, <1>7, DeliversWithFewerLinks
  <1> QED BY <1>8 DEF r

\* A failed call gives a senderThMsg only to a source of thread links.
LEMMA DeliversBrokerAddFails ==
  ASSUME Sound(gw), NEW g, Sound(g), g.modules = gw.modules, NEW S \in SUBSET Names,
         Delivers(g, S), NEW e, EndsExist(gw, e), Unmixed(S, e),
         Routes(gw, SourceOf(gw, e), SinkOf(gw, e)) \in SUBSET Pairs,
         NEW P \in SUBSET Routes(gw, SourceOf(gw, e), SinkOf(gw, e)),
         NEW r \in BrokerAddFails(g, P, e.type)
  PROVE  Delivers(r, S)
  <1> DEFINE s == SourceOf(gw, e)
             R == Routes(gw, s, SinkOf(gw, e))
             T == {p[1] : p \in {x \in P : Threaded(g, x, e.type)}}
  <1>1. /\ r.modules = g.modules /\ r.links = g.links /\ r.subs = g.subs /\ r.nodes = g.nodes
        /\ g.threaded \subseteq r.threaded /\ r.threaded \subseteq g.threaded \cup T
    <2>1. P \in SUBSET Pairs /\ g \in GatewayData
      BY DEF Sound
    <2>2. PICK type : type = e.type
      OBVIOUS
    <2>3. r \in BrokerAddFails(g, P, type)
      BY <2>2
    <2>4. /\ r.modules = g.modules /\ r.links = g.links /\ r.subs = g.subs /\ r.nodes = g.nodes
          /\ g.threaded \subseteq r.threaded
          /\ r.threaded \subseteq g.threaded \cup {p[1] : p \in {x \in P : Threaded(g, x, type)}}
      BY ONLY <2>1, <2>3, BrokerAddFailsIs
    <2> QED BY <2>2, <2>4
  <1>2. SourcesOf(g, S) = SourcesOf(gw, S) /\ \A p : Threaded(g, p, e.type) <=> Threaded(gw, p, e.type)
    BY DEF SourcesOf, Threaded
  <1>3. /\ s = AnySource => S = {}
        /\ s # AnySource => R = {<<s, SinkOf(gw, e)>>}
        /\ s \in SourcesOf(gw, S) => s # AnySource
        /\ s \notin SourcesOf(gw, S) => \A p \in R : ~Threaded(gw, p, e.type)
    BY UnmixedIs
  <1>4. T \subseteq SourcesOf(gw, S)
    <2>1. CASE s \in SourcesOf(gw, S)
      <3>1. \A p \in P : p[1] = s
        BY <1>3, <2>1
      <3> QED BY <2>1, <3>1
    <2>2. CASE s \notin SourcesOf(gw, S)
      BY <1>2, <1>3, <2>2
    <2> QED BY <2>1, <2>2
  <1>5. g.threaded \subseteq SourcesOf(g, S)
    BY DEF Delivers
  <1> HIDE DEF T, R, s
  <1> QED BY <1>1, <1>2, <1>4, <1>5, DeliversWithFewerLinks

LEMMA DeliversRemoveByEntry ==
  ASSUME NEW g, Sound(g), NEW S, Delivers(g, S), NEW e
  PROVE  Delivers(RemoveByEntry(g, e), S)
  <1>1. CASE LinkExists(g, e)
    <2> DEFINE s == SourceOf(g, e)
               k == SinkOf(g, e)
               r == RemoveLink(g, s, k)
    <2>1. /\ r.modules = g.modules /\ r.links = g.links \ {LinkOf(s, k)}
          /\ r.subs = g.subs /\ r.threaded = g.threaded
          /\ \A p \in Pairs \ Routes(g, s, k) : r.nodes[p] = g.nodes[p]
      BY RemoveLinkIs DEF Sound
    <2>2. RemoveByEntry(g, e) = r /\ LinkOf(s, k) \in g.links
      BY <1>1 DEF RemoveByEntry, LinkExists
    <2> HIDE DEF r, s, k
    <2>3. ASSUME NEW l \in r.links, l.source \in SourcesOf(g, S)
          PROVE  r.nodes[<<l.source, l.sink>>] = g.nodes[<<l.source, l.sink>>]
      <3>1. S # {} /\ l.source \in Handles
        BY <2>3, SourcesAre
      <3>2. LinkOf(s, k).source = s
        BY DEF LinkOf
      <3>3. Routes(g, s, k) = {<<s, k>>}
        BY <2>2, <3>1, <3>2 DEF Delivers, Routes
      <3>4. l \in LinkData /\ <<l.source, l.sink>> \in Pairs /\ l # LinkOf(s, k)
        BY <2>1, <2>3, <3>1 DEF Sound, GatewayData, LinkData, Pairs
      <3>5. <<l.source, l.sink>> # <<s, k>>
        BY <3>4 DEF LinkData, LinkOf
      <3> QED BY <2>1, <3>3, <3>4, <3>5
    <2>4. r.links \subseteq g.links /\ r.threaded \subseteq SourcesOf(g, S)
      BY <2>1 DEF Delivers
    <2>5. Delivers(r, S)
      BY <2>1, <2>3, <2>4, DeliversWithFewerLinks
    <2> QED BY <2>2, <2>5
  <1>2. CASE ~LinkExists(g, e)
    BY <1>2 DEF RemoveByEntry
  <1> QED BY <1>1, <1>2

LEMMA NoGatewayDelivers == \A S : Delivers(NoGateway, S)
  BY NoGatewayIs DEF Delivers

-----------------------------------------------------------------------------
(* The same of the steps.                                                    *)
LEMMA ClearedDelivers ==
  ASSUME Sound(gw), NEW S, Delivers(gw, S), NEW n \in Names
  PROVE  Delivers(Cleared(n), S) /\ Sound(Cleared(n))
  <1>1. Cleared(n) = RemoveByName(gw, n)
    BY DEF Cleared, RemoveByName
  <1> QED BY <1>1, DeliversRemoveByName, ClearedIs, AnyIsNoName

LEMMA ModuleAddedDelivers ==
  ASSUME Sound(gw), NEW S, Delivers(gw, S), NEW n \in Names, NEW v,
         disk \in [Names -> Versions \cup {NoVersion}], ModuleAdded(n, v)
  PROVE  Delivers(gw', S)
  <1>1. PICK h \in Handles \ Live(Cleared(n)) : gw' = AddModule(Cleared(n), n, h)
    BY DEF ModuleAdded
  <1> QED BY <1>1, ClearedDelivers, DeliversAddModule

LEMMA ModuleNotAddedDelivers ==
  ASSUME Sound(gw), NEW S, Delivers(gw, S), NEW n \in Names, NEW v, ModuleNotAdded(n, v)
  PROVE  Delivers(gw', S)
  <1>1. CASE Duplicate(n, v)
    BY <1>1 DEF ModuleNotAdded
  <1>2. CASE ~Duplicate(n, v)
    <2> DEFINE c == Cleared(n)
    <2>1. PICK h \in Handles \ Live(c), made \in SUBSET AnySinks(c) :
             gw' = [c EXCEPT !.subs = @ \cup ({h} \X made)]
      BY <1>2 DEF ModuleNotAdded
    <2>2. c \in GatewayData /\ Delivers(c, S)
      BY ClearedDelivers DEF Sound
    <2> HIDE DEF c
    <2>3. PICK r : r = gw'
      OBVIOUS
    <2>4. /\ r.modules = c.modules /\ r.links = c.links /\ r.threaded = c.threaded
          /\ r.nodes = c.nodes /\ c.subs \subseteq r.subs
      BY <2>1, <2>2, <2>3 DEF GatewayData
    <2>5. r.threaded \subseteq SourcesOf(c, S)
      BY <2>2, <2>4 DEF Delivers
    <2>6. Delivers(r, S)
      BY <2>2, <2>4, <2>5, DeliversWithFewerLinks
    <2> QED BY <2>3, <2>6
  <1> QED BY <1>1, <1>2

LEMMA LinkNotAddedDelivers ==
  ASSUME Sound(gw), NEW S \in SUBSET Names, Delivers(gw, S), NEW e, Unmixed(S, e), LinkNotAdded(e)
  PROVE  Delivers(gw', S)
  <1> DEFINE routes == Routes(gw, SourceOf(gw, e), SinkOf(gw, e))
  <1>1. CASE ~Addable(e)
    BY <1>1 DEF LinkNotAdded
  <1>2. CASE Addable(e)
    <2>1. EndsExist(gw, e) /\ ~LinkExists(gw, e)
      BY <1>2 DEF Addable
    <2>2. routes \in SUBSET Pairs
      BY <2>1, LinkRoutes, AnyIsNoName
    <2>3. \/ gw' \in BrokerAddFails(gw, routes, e.type)
          \/ \E made \in SUBSET routes :
                gw' \in BrokerAddFails(AddLinkFails(gw, e, made), routes \ made, e.type)
      BY <1>2 DEF LinkNotAdded
    <2>4. CASE gw' \in BrokerAddFails(gw, routes, e.type)
      BY <2>1, <2>2, <2>4, DeliversBrokerAddFails
    <2>5. ASSUME NEW made \in SUBSET routes,
                 gw' \in BrokerAddFails(AddLinkFails(gw, e, made), routes \ made, e.type)
          PROVE  Delivers(gw', S)
      <3>1. PICK g : g = AddLinkFails(gw, e, made)
        OBVIOUS
      <3>2. Sound(g) /\ g.modules = gw.modules
        BY <2>1, <3>1, SoundAddLinkFails, AnyIsNoName
      <3>3. Delivers(g, S)
        BY <2>1, <3>1, DeliversAddLinkFails
      <3>4. gw' \in BrokerAddFails(g, routes \ made, e.type) /\ routes \ made \in SUBSET routes
        BY <2>5, <3>1
      <3> QED BY <2>1, <2>2, <3>2, <3>3, <3>4, DeliversBrokerAddFails
    <2> QED BY <2>3, <2>4, <2>5
  <1> QED BY <1>1, <1>2

LEMMA StartedDelivers ==
  ASSUME Sound(gw), NEW S, Delivers(gw, S), NEW started, gw' = [gw EXCEPT !.started = started]
  PROVE  Delivers(gw', S)
  <1>1. PICK r : r = gw'
    OBVIOUS
  <1>2. /\ r.modules = gw.modules /\ r.links = gw.links /\ r.threaded = gw.threaded
        /\ r.subs = gw.subs /\ r.nodes = gw.nodes
    BY <1>1 DEF Sound, GatewayData
  <1>3. r.threaded \subseteq SourcesOf(gw, S)
    BY <1>2 DEF Delivers
  <1>4. Delivers(r, S)
    BY <1>2, <1>3, DeliversWithFewerLinks
  <1> QED BY <1>1, <1>4

LEMMA BeginDelivers ==
  ASSUME NEW op, NEW cfg, NEW S, AllUnmixed(S, cfg.links), Begin(op, cfg)
  PROVE  AllUnmixed(S, work'.links)
  BY DEF Begin, AllUnmixed

LEMMA DeliverPrime ==
  ASSUME NEW S, Delivers(gw', S), AllUnmixed(S, work'.links)
  PROVE  DeliverInv(S)'
  BY DEF DeliverInv, Delivers, SourcesOf, Routes, Live, AllUnmixed, Unmixed

LEMMA ApiDelivers ==
  ASSUME NEW S, UnmixedLinks(S), IInv, DeliverInv(S), ApiCall
  PROVE  DeliverInv(S)'
  <1>1. /\ Sound(gw) /\ disk \in [Names -> Versions \cup {NoVersion}] /\ Delivers(gw, S)
        /\ work' = work
    BY DEF ApiCall, ApiAddModule, ApiRemoveModule, StartModule, ApiAddLink, ApiRemoveLink, Idle,
           IInv, FilesInv, GatewayInv, NoGatewayYet, DeliverInv
  <1>2. S \in SUBSET Names
    BY DEF UnmixedLinks
  <1>3. Delivers(gw', S)
    <2>1. ASSUME NEW n \in Names, ApiAddModule(n) PROVE Delivers(gw', S)
      BY <1>1, <2>1, ModuleAddedDelivers, ModuleNotAddedDelivers DEF ApiAddModule
    <2>2. ASSUME NEW n \in Names, ApiRemoveModule(n) PROVE Delivers(gw', S)
      BY <1>1, <2>2, DeliversRemoveByName DEF ApiRemoveModule
    <2>3. ASSUME NEW n \in Names, StartModule(n) PROVE Delivers(gw', S)
      <3>1. PICK started : gw' = [gw EXCEPT !.started = started]
        BY <2>3 DEF StartModule
      <3> QED BY <1>1, <3>1, StartedDelivers
    <2>4. ASSUME NEW e \in LinkEntries, ApiAddLink(e) PROVE Delivers(gw', S)
      <3>1. Unmixed(S, e)
        BY DEF UnmixedLinks
      <3>2. CASE LinkAdded(e)
        BY <1>1, <1>2, <3>1, <3>2, DeliversAddLink DEF LinkAdded, Addable
      <3>3. CASE LinkNotAdded(e)
        BY <1>1, <1>2, <3>1, <3>3, LinkNotAddedDelivers
      <3> QED BY <2>4, <3>2, <3>3 DEF ApiAddLink
    <2>5. ASSUME NEW e \in LinkEntries, ApiRemoveLink(e) PROVE Delivers(gw', S)
      BY <1>1, <2>5, DeliversRemoveByEntry DEF ApiRemoveLink
    <2> QED BY <2>1, <2>2, <2>3, <2>4, <2>5 DEF ApiCall
  <1>4. AllUnmixed(S, work'.links)
    BY <1>1 DEF DeliverInv
  <1> QED BY <1>3, <1>4, DeliverPrime

LEMMA NextLinkIsUnmixed ==
  ASSUME work \in WorkData, NEW S, AllUnmixed(S, work.links), work.links # <<>>
  PROVE  Unmixed(S, NextLink) /\ AllUnmixed(S, Tail(work.links))
  <1>1. work.links \in Seq(LinkEntry)
    BY DEF WorkData
  <1>2. /\ NextLink = work.links[1] /\ Len(Tail(work.links)) = Len(work.links) - 1
        /\ Len(work.links) \in Nat /\ Len(work.links) > 0
        /\ \A i \in 1..Len(work.links) - 1 : Tail(work.links)[i] = work.links[i + 1]
    BY <1>1, SeqTail DEF NextLink
  <1>3. 1 \in 1..Len(work.links) /\ \A i \in 1..Len(work.links) - 1 : i + 1 \in 1..Len(work.links)
    BY <1>2
  <1> QED BY <1>2, <1>3 DEF AllUnmixed

LEMMA WorkStepDelivers ==
  ASSUME IInv, NEW S \in SUBSET Names, DeliverInv(S), WorkStep
  PROVE  DeliverInv(S)'
  <1>1. work.op # "none"
    BY DEF WorkStep, AddModuleEntry, ModuleEntryFails, ModuleEntryRefused, AddLinkEntry, LinkEntryFails, CreateFails,
           UndoLink, UndoModule, Created, Updated, UpdateUndone, Adding, Undoing
  <1>2. /\ Sound(gw) /\ work \in WorkData /\ disk \in [Names -> Versions \cup {NoVersion}]
        /\ Delivers(gw, S) /\ AllUnmixed(S, work.links)
    BY <1>1, WorkIs DEF DeliverInv
  <1>3. work.links # <<>> => Unmixed(S, NextLink) /\ AllUnmixed(S, Tail(work.links))
    BY <1>2, NextLinkIsUnmixed
  <1>4. AllUnmixed(S, <<>>)
    BY DEF AllUnmixed
  <1>5. AllUnmixed(S, work'.links)
    <2>1. CASE AddModuleEntry
      <3>1. work'.links = work.links
        BY <1>2, <2>1 DEF AddModuleEntry, WorkData
      <3> QED BY <1>2, <3>1
    <2>2. CASE ModuleEntryFails
      <3>1. work'.links = work.links
        BY <1>2, <2>2 DEF ModuleEntryFails, WorkData
      <3> QED BY <1>2, <3>1
    <2>3. CASE AddLinkEntry
      <3>1. work.links # <<>> /\ work'.links = Tail(work.links)
        BY <1>2, <2>3 DEF AddLinkEntry, WorkData
      <3> QED BY <1>3, <3>1
    <2>4. CASE ModuleEntryRefused \/ LinkEntryFails \/ UndoLink \/ UndoModule
      <3>1. work'.links = work.links
        BY <1>2, <2>4 DEF ModuleEntryRefused, LinkEntryFails, UndoLink, UndoModule, WorkData
      <3> QED BY <1>2, <3>1
    <2>5. CASE CreateFails \/ Created \/ Updated \/ UpdateUndone
      <3>1. work'.links = <<>>
        BY <2>5 DEF CreateFails, Created, Updated, UpdateUndone, EndUpdate, NoWork
      <3> QED BY <1>4, <3>1
    <2> QED BY <2>1, <2>2, <2>3, <2>4, <2>5 DEF WorkStep
  <1>6. Delivers(gw', S)
    <2> DEFINE n == NextModule.name
    <2>1. work.modules # <<>> => n \in Names
      BY <1>1, NextModuleIs
    <2>2. CASE AddModuleEntry
      BY <1>2, <2>1, <2>2, ModuleAddedDelivers DEF AddModuleEntry
    <2>3. CASE ModuleEntryFails
      <3>1. n \in Names
        BY <2>1, <2>3 DEF ModuleEntryFails
      <3>2. CASE ModuleNotAdded(n, NextModule.version)
        BY <1>2, <3>1, <3>2, ModuleNotAddedDelivers
      <3>3. ASSUME NEW h \in Handles \ Live(Cleared(n)),
                   gw' = RemoveByName(AddModule(Cleared(n), n, h), n)
            PROVE  Delivers(gw', S)
        <4>1. Sound(AddModule(Cleared(n), n, h))
          BY <1>2, <3>1, AddClearedIs, AnyIsNoName
        <4>2. Delivers(AddModule(Cleared(n), n, h), S)
          BY <1>2, <3>1, ClearedDelivers, DeliversAddModule
        <4> QED BY <3>3, <4>1, <4>2, DeliversRemoveByName
      <3> QED BY <2>3, <3>2, <3>3 DEF ModuleEntryFails
    <2>4. CASE AddLinkEntry
      BY <1>2, <1>3, <2>4, DeliversAddLink DEF AddLinkEntry, LinkAdded, Addable
    <2>5. CASE LinkEntryFails
      <3>1. Unmixed(S, NextLink) /\ NextLink \in LinkEntry
        BY <1>1, <1>3, <2>5, NextLinkIs DEF LinkEntryFails
      <3>2. CASE LinkNotAdded(NextLink)
        BY <1>2, <3>1, <3>2, LinkNotAddedDelivers
      <3>3. CASE /\ Addable(NextLink)
                 /\ gw' = RemoveByEntry(AddLink(gw, NextLink), NextLink)
        <4>1. Sound(AddLink(gw, NextLink))
          BY <1>2, <3>1, <3>3, AddableIs, AnyIsNoName
        <4>2. Delivers(AddLink(gw, NextLink), S)
          BY <1>2, <3>1, <3>3, DeliversAddLink DEF Addable
        <4> QED BY <3>3, <4>1, <4>2, DeliversRemoveByEntry
      <3> QED BY <2>5, <3>2, <3>3 DEF LinkEntryFails
    <2>6. CASE CreateFails
      BY <2>6, CreateFailsIs, NoGatewayDelivers
    <2>7. CASE UndoLink
      BY <1>2, <2>7, DeliversRemoveByEntry DEF UndoLink
    <2>8. CASE UndoModule
      BY <1>2, <2>8, DeliversRemoveByName DEF UndoModule
    <2>9. CASE ModuleEntryRefused \/ Created \/ Updated \/ UpdateUndone
      BY <1>2, <2>9 DEF ModuleEntryRefused, Created, Updated, UpdateUndone, EndUpdate
    <2> QED BY <2>2, <2>3, <2>4, <2>5, <2>6, <2>7, <2>8, <2>9 DEF WorkStep
  <1> QED BY <1>5, <1>6, DeliverPrime

LEMMA DeliverNext ==
  ASSUME NEW S, UnmixedLinks(S), IInv, DeliverInv(S), [Next]_vars
  PROVE  DeliverInv(S)'
  <1>1. Delivers(gw, S) /\ AllUnmixed(S, work.links) /\ S \in SUBSET Names
    BY DEF DeliverInv, UnmixedLinks
  <1>2. ASSUME NEW cfg \in Creations, Create(cfg) PROVE DeliverInv(S)'
    <2>1. AllUnmixed(S, work'.links)
      BY <1>2, BeginDelivers DEF UnmixedLinks, Create
    <2>2. gw = NoGateway
      BY <1>2 DEF Create, IInv, GatewayInv, NoGatewayYet
    <2>3. PICK r : r = gw'
      OBVIOUS
    <2>4. r.modules = {} /\ r.links = {} /\ r.threaded = {}
      BY <1>2, <2>2, <2>3 DEF Create, NoGateway
    <2>5. Delivers(r, S)
      BY <2>4 DEF Delivers
    <2> QED BY <2>1, <2>3, <2>5, DeliverPrime
  <1>3. ASSUME NEW cfg \in Updates, Update(cfg) PROVE DeliverInv(S)'
    <2>1. AllUnmixed(S, work'.links)
      BY <1>3, BeginDelivers DEF UnmixedLinks, Update
    <2> QED BY <1>1, <1>3, <2>1, DeliverPrime DEF Update
  <1>4. ASSUME NEW cfg \in Updates, UpdateRejected(cfg) PROVE DeliverInv(S)'
    BY <1>1, <1>4, DeliverPrime DEF UpdateRejected
  <1>5. CASE Start
    <2>1. Sound(gw)
      BY <1>5 DEF Start, Idle, IInv, GatewayInv, NoGatewayYet
    <2>2. Delivers(gw', S)
      BY <1>1, <1>5, <2>1, StartedDelivers DEF Start
    <2> QED BY <1>1, <1>5, <2>2, DeliverPrime DEF Start
  <1>6. CASE Destroy
    <2>1. Sound(gw)
      BY <1>6 DEF Destroy, Idle, IInv, GatewayInv, NoGatewayYet
    <2>2. gw' = NoGateway
      BY <1>6, <2>1, DestroyedIs DEF Destroy
    <2>3. Delivers(gw', S)
      BY <2>2, NoGatewayDelivers
    <2> QED BY <1>1, <1>6, <2>3, DeliverPrime DEF Destroy
  <1>7. CASE WorkStep
    BY <1>1, <1>7, WorkStepDelivers
  <1>8. CASE ApiCall
    BY <1>8, ApiDelivers
  <1>9. CASE UNCHANGED vars
    BY <1>1, <1>9, DeliverPrime DEF vars
  <1> QED BY <1>2, <1>3, <1>4, <1>5, <1>6, <1>7, <1>8, <1>9 DEF Next

\* As long as each module is the source of links of one kind only, every link of the
\* gateway, "*" links to modules of later updates included, has all its routes in the
\* broker, whatever failed before.
THEOREM UnmixedLinksDeliver ==
  ASSUME NEW S, UnmixedLinks(S)
  PROVE  Spec => []LinksDeliver
  <1>1. Init => DeliverInv(S)
    BY NoGatewayDelivers DEF Init, DeliverInv, AllUnmixed, NoWork
  <1>2. IInv /\ DeliverInv(S) /\ [Next]_vars => DeliverInv(S)'
    BY DeliverNext
  <1>3. IInv /\ DeliverInv(S) => LinksDeliver
    <2> SUFFICES ASSUME IInv, Delivers(gw, S), NEW l \in gw.links, NEW p \in Routes(gw, l.source, l.sink)
                 PROVE  Routed(p[1], p[2])
      BY DEF DeliverInv, LinksDeliver
    <2>1. p = <<p[1], p[2]>> /\ p[2] = l.sink
      BY DEF Routes
    <2>2. CASE l.source \in SourcesOf(gw, S)
      <3>1. S # {}
        BY <2>2 DEF SourcesOf
      <3>2. p = <<l.source, l.sink>>
        BY <3>1 DEF Delivers, Routes
      <3> QED BY <2>2, <3>2 DEF Delivers, Routed
    <2>3. CASE l.source \notin SourcesOf(gw, S)
      <3>1. p \in gw.subs
        BY <2>3 DEF Delivers
      <3>2. p[1] \notin gw.threaded
        <4>1. CASE l.source = AnySource
          <5>1. SourcesOf(gw, S) = {}
            BY <4>1 DEF Delivers, SourcesOf
          <5> QED BY <5>1 DEF Delivers
        <4>2. CASE l.source # AnySource
          <5>1. p[1] = l.source
            BY <4>2 DEF Routes
          <5> QED BY <2>3, <5>1 DEF Delivers
        <4> QED BY <4>1, <4>2
      <3> QED BY <2>1, <3>1, <3>2 DEF Routed
    <2> QED BY <2>2, <2>3
  <1> QED BY <1>1, <1>2, <1>3, Invariance, PTL DEF Spec

-----------------------------------------------------------------------------
(* What Gateway_GetModuleList shows.                                          *)
\* What Listed has made of the links of walk at the places s.
FoldOf(walk, s) ==
    LET sources == {walk[i].source : i \in s} IN
    IF AnySource \notin sources THEN sources
    ELSE IF \E i, j \in s : i < j /\ walk[i].source = AnySource /\ walk[j].source # AnySource
         THEN ListFails ELSE NoVector

LEMMA FoldListedStep ==
  ASSUME NEW n \in Nat, NEW walk, NEW s \in SUBSET (1..n), s # {},
         \A i \in 1..n : walk[i].source \in Handles \cup {AnySource}
  PROVE  FoldOf(walk, s) = Listed(FoldOf(walk, s \ {Max(s)}), walk[Max(s)])
  <1> DEFINE m == Max(s)
             r == s \ {m}
             S(t) == {walk[i].source : i \in t}
             Bad(t) == \E i, j \in t : i < j /\ walk[i].source = AnySource /\ walk[j].source # AnySource
  <1>1. m \in s /\ m \in Nat /\ \A i \in r : i \in Nat /\ i < m
    <2>1. m \in s /\ \A i \in s : i <= m
      BY MaxIs
    <2>2. \A i \in s : i \in Nat
      OBVIOUS
    <2> HIDE DEF m
    <2> QED BY <2>1, <2>2
  <1>2. \A t : FoldOf(walk, t) = IF AnySource \notin S(t) THEN S(t)
                                 ELSE IF Bad(t) THEN ListFails ELSE NoVector
    BY DEF FoldOf
  <1>3. \A t \in SUBSET s : AnySource \notin S(t) => S(t) # ListFails /\ S(t) # NoVector
    BY GatewayAssumption DEF ListFails, NoVector
  <1>4. ListFails # NoVector
    BY DEF ListFails, NoVector
  <1>5. s = r \cup {m} /\ S(s) = S(r) \cup {walk[m].source}
    BY <1>1
  <1>6. Bad(s) <=> Bad(r) \/ (AnySource \in S(r) /\ walk[m].source # AnySource)
    <2>1. m \in Nat /\ (\A i \in r : i \in Nat) /\ ~(m < m) /\ \A i \in r : ~(m < i)
      BY <1>1
    <2> HIDE DEF m, r
    <2>2. ASSUME Bad(s) PROVE Bad(r) \/ (AnySource \in S(r) /\ walk[m].source # AnySource)
      <3>1. PICK i \in s, j \in s : i < j /\ walk[i].source = AnySource /\ walk[j].source # AnySource
        BY <2>2
      <3>2. i \in r
        BY <1>5, <2>1, <3>1
      <3> QED BY <1>5, <3>1, <3>2
    <2>3. ASSUME AnySource \in S(r), walk[m].source # AnySource PROVE Bad(s)
      <3>1. PICK i \in r : walk[i].source = AnySource
        BY <2>3
      <3> QED BY <1>1, <1>5, <2>3, <3>1
    <2> QED BY <1>5, <2>2, <2>3
  <1>7. Bad(r) => AnySource \in S(r)
    OBVIOUS
  <1> HIDE DEF m, r, S, Bad
  <1>8. r \in SUBSET s /\ s \in SUBSET s
    BY <1>5
  <1> SUFFICES FoldOf(walk, s) = Listed(FoldOf(walk, r), walk[m])
    BY DEF m, r
  <1>9. CASE AnySource \notin S(r)
    BY <1>2, <1>3, <1>4, <1>5, <1>6, <1>7, <1>8, <1>9 DEF Listed
  <1>10. CASE AnySource \in S(r)
    BY <1>2, <1>3, <1>4, <1>5, <1>6, <1>7, <1>8, <1>10 DEF Listed
  <1> QED BY <1>9, <1>10

LEMMA FoldListed ==
  ASSUME NEW n \in Nat, NEW walk \in [1..n -> LinkData]
  PROVE  FoldLeft(Listed, {}, walk) = FoldOf(walk, 1..n)
  <1> DEFINE Step(it) == [s \in SUBSET (1..n) |->
                            IF s = {} THEN {} ELSE Listed(it[s \ {Max(s)}], walk[Max(s)])]
             iter == CHOOSE it : it = Step(it)
             fold == [s \in SUBSET (1..n) |-> FoldOf(walk, s)]
  <1>1. DOMAIN walk = 1..n
    OBVIOUS
  <1>2. FoldLeft(Listed, {}, walk) = iter[1..n]
    BY <1>1 DEF FoldLeft, MapThenFoldSet
  <1>3. fold = Step(fold)
    <2>1. ASSUME NEW s \in SUBSET (1..n)
          PROVE  fold[s] = IF s = {} THEN {} ELSE Listed(fold[s \ {Max(s)}], walk[Max(s)])
      <3>1. CASE s = {}
        BY <3>1 DEF FoldOf
      <3>2. CASE s # {}
        <4>1. \A i \in 1..n : walk[i].source \in Handles \cup {AnySource}
          BY DEF LinkData
        <4>2. s \ {Max(s)} \in SUBSET (1..n)
          OBVIOUS
        <4> QED BY <3>2, <4>1, <4>2, FoldListedStep
      <3> QED BY <3>1, <3>2
    <2> QED BY <2>1
  <1>4. iter = Step(iter)
    <2> HIDE DEF fold, Step
    <2> QED BY <1>3
  <1>5. ASSUME NEW j \in Nat, j + 1 <= n, iter[1..j] = fold[1..j]
        PROVE  iter[1..(j + 1)] = fold[1..(j + 1)]
    <2> DEFINE s == 1..(j + 1)
    <2>1. s \in SUBSET (1..n) /\ s # {} /\ 1..j \in SUBSET (1..n)
      BY <1>5
    <2>2. Max(s) = j + 1
      <3>1. Max(s) \in s /\ \A i \in s : i <= Max(s)
        BY <2>1, MaxIs
      <3> QED BY <3>1
    <2>3. s \ {Max(s)} = 1..j
      BY <2>2
    <2> HIDE DEF iter, fold, s
    <2>4. iter[s] = Listed(iter[1..j], walk[Max(s)])
      BY <1>4, <2>1, <2>3
    <2>5. fold[s] = Listed(fold[1..j], walk[Max(s)])
      BY <1>3, <2>1, <2>3
    <2> QED BY <1>5, <2>4, <2>5 DEF s
  <1>6. iter[1..0] = fold[1..0]
    <2>1. 1..0 = {} /\ {} \in SUBSET (1..n)
      OBVIOUS
    <2> HIDE DEF iter, fold
    <2> QED BY <1>3, <1>4, <2>1
  <1>7. iter[1..n] = fold[1..n]
    <2> DEFINE T == {j \in Nat : j <= n => iter[1..j] = fold[1..j]}
    <2> HIDE DEF iter, fold
    <2>1. 0 \in T
      BY <1>6
    <2>2. ASSUME NEW j \in Nat, j \in T PROVE j + 1 \in T
      BY <1>5, <2>2
    <2>3. n \in T
      <3> HIDE DEF T
      <3> QED BY <2>1, <2>2, InductionOnNat
    <2> QED BY <2>3
  <1> QED BY <1>2, <1>7

\* A walk over the links comes by each of them.
LEMMA WalkIs ==
  ASSUME NEW L, IsFiniteSet(L), NEW walk \in SetToSeqs(L)
  PROVE  /\ Cardinality(L) \in Nat /\ walk \in [1..Cardinality(L) -> L]
         /\ \A l \in L : \E i \in 1..Cardinality(L) : walk[i] = l
  <1> DEFINE n == Cardinality(L)
  <1>1. n \in Nat /\ IsFiniteSet(1..n) /\ Cardinality(1..n) = n
    BY FS_CardinalityType, FS_Interval
  <1>2. walk \in [1..n -> L] /\ \A i, j \in 1..n : i # j => walk[i] # walk[j]
    BY DEF SetToSeqs
  <1> HIDE DEF n
  <1>3. walk \in Injection(1..n, L)
    BY <1>2 DEF Injection, IsInjective
  <1>4. walk \in Surjection(1..n, L)
    BY <1>1, <1>3, FS_Injection DEF n
  <1> QED BY <1>1, <1>2, <1>4 DEF Surjection, n

LEMMA LinksFinite ==
  ASSUME NEW g, Sound(g)
  PROVE  IsFiniteSet(g.links)
  <1> DEFINE f == [m \in g.modules |-> m.handle]
             ends == Live(g) \cup {AnySource}
             h == [p \in ends \X ends |-> LinkOf(p[1], p[2])]
             all == {h[p] : p \in ends \X ends}
  <1>1. f \in Surjection(g.modules, Live(g))
    BY DEF Surjection, Live
  <1>2. IsFiniteSet(ends)
    <2>1. IsFiniteSet(Live(g))
      BY <1>1, FS_Surjection DEF Sound
    <2> QED BY <2>1, FS_AddElement
  <1>3. IsFiniteSet(all)
    <2>1. h \in Surjection(ends \X ends, all)
      BY DEF Surjection
    <2>2. IsFiniteSet(ends \X ends)
      <3> HIDE DEF ends
      <3> QED BY <1>2, FS_Product
    <2> HIDE DEF ends, h, all
    <2> QED BY <2>1, <2>2, FS_Surjection
  <1>4. g.links \subseteq all
    <2>1. ASSUME NEW l \in g.links PROVE l \in all
      <3>1. l.source \in ends /\ l.sink \in ends
        BY DEF Sound, EndsLive
      <3>2. l = LinkOf(l.source, l.sink)
        BY DEF Sound, GatewayData, LinkData, LinkOf
      <3>3. l = h[<<l.source, l.sink>>] /\ <<l.source, l.sink>> \in ends \X ends
        BY <3>1, <3>2
      <3> QED BY <3>3
    <2> QED BY <2>1
  <1> QED BY <1>3, <1>4, FS_Subset

\* Gateway_GetModuleList shows the graph: a module without "*" links gets the handles of
\* exactly its sources, and one with "*" gets NULL or fails the call, in whatever order the
\* links are walked (gateway_getmodulelist_internal's loop).
THEOREM ListsShowGraph == Spec => []ListShowsGraph
  <1>1. ASSUME NEW g, Sound(g), NEW m \in g.modules, NEW list \in ListedSources(g, m.handle)
        PROVE  LET sources == {l.source : l \in {x \in g.links : x.sink = m.handle}}
               IN  CASE AnySource \notin sources  -> list = sources
                   [] sources = {AnySource}      -> list = NoVector
                   [] OTHER                      -> list \in {NoVector, ListFails}
    <2> DEFINE L == {l \in g.links : l.sink = m.handle}
               sources == {l.source : l \in L}
               n == Cardinality(L)
    <2>1. PICK walk \in SetToSeqs(L) : list = FoldLeft(Listed, {}, walk)
      BY <1>1 DEF ListedSources
    <2>2. IsFiniteSet(L) /\ L \subseteq LinkData
      BY <1>1, LinksFinite, FS_Subset DEF Sound, GatewayData
    <2> HIDE DEF L
    <2>3. /\ n \in Nat /\ walk \in [1..n -> L]
          /\ \A l \in L : \E i \in 1..n : walk[i] = l
      BY <2>2, WalkIs
    <2>4. sources = {walk[i].source : i \in 1..n}
      BY <2>3
    <2>5. list = FoldOf(walk, 1..n)
      <3>1. walk \in [1..n -> LinkData]
        BY <2>2, <2>3
      <3> QED BY <2>1, <2>3, <3>1, FoldListed
    <2>6. \A i \in 1..n : sources = {AnySource} => walk[i].source = AnySource
      BY <2>4
    <2> HIDE DEF sources, n
    <2> QED BY <2>4, <2>5, <2>6 DEF FoldOf, sources, L
  <1>2. IInv => ListShowsGraph
    <2>1. CASE NoGatewayYet
      BY <2>1 DEF IInv, GatewayInv, NoGateway, ListShowsGraph
    <2>2. CASE ~NoGatewayYet
      BY <1>1, <2>2 DEF IInv, GatewayInv, ListShowsGraph
    <2> QED BY <2>1, <2>2
  <1> QED BY <1>2, Invariance, PTL
=============================================================================
