------------------------- MODULE ThreadLinks_proofs -------------------------
(***************************************************************************)
(* Proofs about ThreadLinks, for any modules, links, threads and bounds.   *)
(*                                                                         *)
(* IInv adds to the properties what they rest on: a source has as many     *)
(* nodes for a link as calls have made (ListsInv) and, when none of them   *)
(* failed part-way, a sink as many entries but for the one of the call in  *)
(* progress (EntriesInv, CallInv), a walk has emptied what it has passed   *)
(* (WalkInv), what is not put yet is younger than all that is under way    *)
(* (NumbersInv, DueInv), and a receiver that sleeps or has ended has       *)
(* nothing in hand (BatchInv).                                             *)
(*                                                                         *)
(* The code does crash: SafeTopology names the links for which it cannot   *)
(* unless a link is made twice or in part, and SafeInv is the invariant    *)
(* that shows it.                                                          *)
(***************************************************************************)
EXTENDS ThreadLinks, FiniteSetTheorems, NumberLemmas, TLAPS

(* Sequences.                                                               *)
LEMMA SeqAppend ==
  ASSUME NEW S, NEW q \in Seq(S), NEW x \in S
  PROVE  /\ Append(q, x) \in Seq(S) /\ Len(Append(q, x)) = Len(q) + 1 /\ Len(q) \in Nat
         /\ DOMAIN q = 1..Len(q) /\ DOMAIN Append(q, x) = 1..Len(q) + 1
         /\ \A i \in 1..Len(q) : Append(q, x)[i] = q[i]
         /\ Append(q, x)[Len(q) + 1] = x
  OBVIOUS

LEMMA RangeAppend ==
  ASSUME NEW S, NEW q \in Seq(S), NEW x \in S
  PROVE  /\ Range(Append(q, x)) = Range(q) \cup {x}
         /\ IsInjective(q) /\ x \notin Range(q) => IsInjective(Append(q, x))
  <1> DEFINE r == Append(q, x)
  <1>1. /\ DOMAIN q = 1..Len(q) /\ DOMAIN r = 1..Len(q) + 1 /\ Len(q) \in Nat
        /\ \A i \in 1..Len(q) : r[i] = q[i]
        /\ r[Len(q) + 1] = x
    BY SeqAppend
  <1> HIDE DEF r
  <1>2. Range(r) = Range(q) \cup {x}
    BY <1>1 DEF Range
  <1>3. ASSUME IsInjective(q), x \notin Range(q) PROVE IsInjective(r)
    BY <1>1, <1>3 DEF IsInjective, Range
  <1> QED BY <1>2, <1>3 DEF r

LEMMA SeqTail ==
  ASSUME NEW S, NEW q \in Seq(S), q # <<>>
  PROVE  /\ Head(q) \in S /\ Head(q) = q[1] /\ Tail(q) \in Seq(S)
         /\ Len(Tail(q)) = Len(q) - 1 /\ Len(q) \in Nat /\ Len(q) > 0
         /\ DOMAIN q = 1..Len(q) /\ DOMAIN Tail(q) = 1..Len(q) - 1
         /\ \A i \in 1..Len(q) - 1 : Tail(q)[i] = q[i + 1]
  OBVIOUS

LEMMA SeqConcat ==
  ASSUME NEW S, NEW q \in Seq(S), NEW r \in Seq(S)
  PROVE  /\ q \o r \in Seq(S) /\ Len(q) \in Nat /\ Len(r) \in Nat
         /\ Len(q \o r) = Len(q) + Len(r)
         /\ DOMAIN q = 1..Len(q) /\ DOMAIN r = 1..Len(r)
         /\ DOMAIN (q \o r) = 1..Len(q) + Len(r)
         /\ \A i \in 1..Len(q) : (q \o r)[i] = q[i]
         /\ \A i \in 1..Len(r) : (q \o r)[Len(q) + i] = r[i]
  OBVIOUS

\* Removing the first occurrence of an element: the others stay, in their order.
LEMMA RemoveFirstIs ==
  ASSUME NEW S, NEW q \in Seq(S), NEW e \in Range(q)
  PROVE  LET r == RemoveFirst(q, e)
         IN /\ r \in Seq(S)
            /\ \E i \in 1..Len(q) :
                 /\ q[i] = e
                 /\ Len(r) = Len(q) - 1
                 /\ \A j \in 1..i - 1 : r[j] = q[j]
                 /\ \A j \in i..Len(q) - 1 : r[j] = q[j + 1]
  <1> DEFINE I == {i \in 1..Len(q) : q[i] = e}
             r == RemoveFirst(q, e)
             i == Min(I)
  <1>1. /\ \E j \in 1..Len(q) : q[j] = e
        /\ I \in SUBSET Nat /\ I # {}
    BY DEF Range
  <1>2. i \in I
    <2> HIDE DEF I
    <2>1. \E n \in I : \A m \in I : n <= m
      BY <1>1, Least
    <2> QED BY <2>1 DEF Min
  <1>3. SelectInSeq(q, LAMBDA v : v = e) = i
    BY <1>1 DEF SelectInSeq
  <1>4. i \in 1..Len(q) /\ q[i] = e
    BY <1>2
  <1>5. r = SubSeq(q, 1, i - 1) \o SubSeq(q, i + 1, Len(q))
    BY <1>1, <1>3 DEF RemoveFirst, RemoveAt
  <1> HIDE DEF i, I, r
  <1> DEFINE a == SubSeq(q, 1, i - 1)
             b == SubSeq(q, i + 1, Len(q))
  <1>6. /\ a \in Seq(S) /\ Len(a) = i - 1 /\ \A j \in 1..i - 1 : a[j] = q[j]
    BY <1>4
  <1>7. /\ b \in Seq(S) /\ Len(b) = Len(q) - i /\ \A j \in 1..Len(q) - i : b[j] = q[i + j]
    BY <1>4
  <1> HIDE DEF a, b
  <1>8. /\ a \o b \in Seq(S) /\ Len(a \o b) = Len(q) - 1
        /\ \A j \in 1..i - 1 : (a \o b)[j] = q[j]
        /\ \A j \in i..Len(q) - 1 : (a \o b)[j] = q[j + 1]
    <2>1. Len(q) \in Nat
      OBVIOUS
    <2>2. a \o b \in Seq(S) /\ Len(a \o b) = Len(q) - 1
      <3>1. a \o b \in Seq(S) /\ Len(a \o b) = Len(a) + Len(b)
        BY <1>6, <1>7, SeqConcat
      <3>2. Len(a) + Len(b) = Len(q) - 1
        BY <1>4, <1>6, <1>7, <2>1
      <3> QED BY <3>1, <3>2
    <2>3. \A j \in 1..i - 1 : (a \o b)[j] = q[j]
      BY <1>4, <1>6, <1>7, <2>1
    <2>4. ASSUME NEW j \in i..Len(q) - 1 PROVE (a \o b)[j] = q[j + 1]
      <3>1. j - (i - 1) \in 1..Len(q) - i
        BY <1>4, <2>1
      <3>2. (a \o b)[j] = b[j - (i - 1)]
        BY <1>4, <1>6, <1>7, <2>1
      <3>3. b[j - (i - 1)] = q[i + (j - (i - 1))]
        BY <1>7, <3>1
      <3>4. i + (j - (i - 1)) = j + 1
        BY <1>4, <2>1
      <3> QED BY <3>2, <3>3, <3>4
    <2> QED BY <2>2, <2>3, <2>4
  <1>9. r = a \o b
    BY <1>5 DEF a, b
  <1> QED BY <1>4, <1>8, <1>9 DEF r

\* Where the elements of a list are that is left of another: all but place d.
RestOf(r, q, d) ==
  \E at \in [DOMAIN r -> DOMAIN q \ {d}] :
     /\ \A j \in DOMAIN r : r[j] = q[at[j]]
     /\ \A i, j \in DOMAIN r : (i < j => at[i] < at[j]) /\ (at[i] = at[j] => i = j)
     /\ \A x \in DOMAIN q \ {d} : \E j \in DOMAIN r : at[j] = x

LEMMA RemoveFirstRest ==
  ASSUME NEW S, NEW q \in Seq(S), NEW e \in Range(q)
  PROVE  /\ RemoveFirst(q, e) \in Seq(S)
         /\ \E d \in DOMAIN q : q[d] = e /\ RestOf(RemoveFirst(q, e), q, d)
  <1> DEFINE r == RemoveFirst(q, e)
  <1>1. r \in Seq(S)
    BY RemoveFirstIs
  <1>2. PICK d \in 1..Len(q) : /\ q[d] = e
                               /\ Len(r) = Len(q) - 1
                               /\ \A j \in 1..d - 1 : r[j] = q[j]
                               /\ \A j \in d..Len(q) - 1 : r[j] = q[j + 1]
    BY RemoveFirstIs
  <1> HIDE DEF r
  <1>3. DOMAIN r = 1..Len(q) - 1 /\ DOMAIN q = 1..Len(q) /\ Len(q) \in Nat
    BY <1>1, <1>2
  <1> DEFINE at == [j \in DOMAIN r |-> IF j < d THEN j ELSE j + 1]
  <1>4. \A j \in DOMAIN r : at[j] \in DOMAIN q \ {d} /\ r[j] = q[at[j]]
    BY <1>2, <1>3
  <1>5. \A i, j \in DOMAIN r : (i < j => at[i] < at[j]) /\ (at[i] = at[j] => i = j)
    BY <1>2, <1>3
  <1>6. \A x \in DOMAIN q \ {d} : \E j \in DOMAIN r : at[j] = x
    <2> SUFFICES ASSUME NEW x \in DOMAIN q, x # d PROVE \E j \in DOMAIN r : at[j] = x
      OBVIOUS
    <2>1. CASE x < d
      BY <1>2, <1>3, <2>1
    <2>2. CASE x > d
      <3>1. x - 1 \in DOMAIN r /\ at[x - 1] = x
        BY <1>2, <1>3, <2>2
      <3> QED BY <3>1
    <2> QED BY <1>2, <1>3, <2>1, <2>2
  <1>7. at \in [DOMAIN r -> DOMAIN q \ {d}]
    BY <1>4
  <1> HIDE DEF at
  <1>8. RestOf(r, q, d)
    BY <1>4, <1>5, <1>6, <1>7 DEF RestOf
  <1> QED BY <1>1, <1>2, <1>3, <1>8 DEF r

LEMMA RemoveFirstAny ==
  ASSUME NEW S, NEW q \in Seq(S), NEW e
  PROVE  RemoveFirst(q, e) \in Seq(S)
  <1>1. CASE e \in Range(q)
    BY <1>1, RemoveFirstIs
  <1>2. CASE e \notin Range(q)
    <2>1. \A i \in 1..Len(q) : q[i] # e
      BY <1>2 DEF Range
    <2> QED BY <2>1 DEF RemoveFirst
  <1> QED BY <1>1, <1>2

\* Removing an element of a list without repetitions.
LEMMA RemoveFirstRange ==
  ASSUME NEW S, NEW q \in Seq(S), NEW e \in Range(q), IsInjective(q)
  PROVE  LET r == RemoveFirst(q, e)
         IN /\ r \in Seq(S) /\ IsInjective(r) /\ Range(r) = Range(q) \ {e}
            /\ \A i, j \in DOMAIN r : i < j =>
                 \E x, y \in DOMAIN q : x < y /\ q[x] = r[i] /\ q[y] = r[j]
  <1> DEFINE r == RemoveFirst(q, e)
  <1>1. r \in Seq(S)
    BY RemoveFirstRest
  <1>2. PICK d \in DOMAIN q : q[d] = e /\ RestOf(r, q, d)
    BY RemoveFirstRest
  <1> HIDE DEF r
  <1>3. PICK at \in [DOMAIN r -> DOMAIN q \ {d}] :
           /\ \A j \in DOMAIN r : r[j] = q[at[j]]
           /\ \A i, j \in DOMAIN r : (i < j => at[i] < at[j]) /\ (at[i] = at[j] => i = j)
           /\ \A x \in DOMAIN q \ {d} : \E j \in DOMAIN r : at[j] = x
    BY <1>2 DEF RestOf
  <1>4. \A j \in DOMAIN r : at[j] \in DOMAIN q /\ at[j] # d
    BY <1>3
  <1>7. IsInjective(r)
    BY <1>3, <1>4 DEF IsInjective
  <1>8. Range(r) = Range(q) \ {e}
    <2>1. ASSUME NEW x \in Range(r) PROVE x \in Range(q) \ {e}
      <3>1. PICK j \in DOMAIN r : x = r[j]
        BY DEF Range
      <3>2. x = q[at[j]] /\ at[j] \in DOMAIN q /\ at[j] # d
        BY <1>3, <1>4, <3>1
      <3>3. x # q[d]
        BY <3>2 DEF IsInjective
      <3> QED BY <1>2, <3>2, <3>3 DEF Range
    <2>2. ASSUME NEW x \in Range(q) \ {e} PROVE x \in Range(r)
      <3>1. PICK y \in DOMAIN q : x = q[y]
        BY DEF Range
      <3>2. y # d
        BY <1>2, <3>1
      <3>3. PICK j \in DOMAIN r : at[j] = y
        BY <1>3, <3>2
      <3> QED BY <1>3, <3>1, <3>3 DEF Range
    <2> QED BY <2>1, <2>2
  <1>9. ASSUME NEW i \in DOMAIN r, NEW j \in DOMAIN r, i < j
        PROVE  \E x, y \in DOMAIN q : x < y /\ q[x] = r[i] /\ q[y] = r[j]
    BY <1>3, <1>4, <1>9
  <1> QED BY <1>1, <1>7, <1>8, <1>9 DEF r

(* How often something is in a list.                                        *)
Places(q, x) == {i \in DOMAIN q : q[i] = x}
One(b) == IF b THEN 1 ELSE 0

LEMMA PlacesFinite ==
  ASSUME NEW S, NEW q \in Seq(S), NEW x
  PROVE  IsFiniteSet(Places(q, x)) /\ Cardinality(Places(q, x)) \in Nat
         /\ (Cardinality(Places(q, x)) = 0 <=> x \notin Range(q))
  <1>1. DOMAIN q = 1..Len(q) /\ Len(q) \in Nat
    OBVIOUS
  <1>2. IsFiniteSet(DOMAIN q)
    BY <1>1, FS_Interval
  <1>3. Places(q, x) \in SUBSET DOMAIN q
    BY DEF Places
  <1>4. IsFiniteSet(Places(q, x))
    BY <1>2, <1>3, FS_Subset
  <1>5. Places(q, x) = {} <=> x \notin Range(q)
    BY DEF Places, Range
  <1> QED BY <1>4, <1>5, FS_CardinalityType, FS_EmptySet

LEMMA CountAppend ==
  ASSUME NEW S, NEW q \in Seq(S), NEW y \in S, NEW x
  PROVE  Cardinality(Places(Append(q, y), x)) = Cardinality(Places(q, x)) + One(x = y)
  <1> DEFINE r == Append(q, y)
  <1>1. /\ DOMAIN q = 1..Len(q) /\ DOMAIN r = 1..Len(q) + 1 /\ Len(q) \in Nat
        /\ \A i \in 1..Len(q) : r[i] = q[i]
        /\ r[Len(q) + 1] = y
    BY SeqAppend
  <1>2. IsFiniteSet(Places(q, x)) /\ Cardinality(Places(q, x)) \in Nat
    BY PlacesFinite
  <1> HIDE DEF r
  <1>3. CASE x = y
    <2>1. Places(r, x) = Places(q, x) \cup {Len(q) + 1}
      BY <1>1, <1>3 DEF Places
    <2>2. Len(q) + 1 \notin Places(q, x)
      BY <1>1 DEF Places
    <2>3. Cardinality(Places(r, x)) = Cardinality(Places(q, x)) + 1
      BY <1>2, <2>1, <2>2, FS_AddElement
    <2> QED BY <1>3, <2>3 DEF One, r
  <1>4. CASE x # y
    <2>1. Places(r, x) = Places(q, x)
      BY <1>1, <1>4 DEF Places
    <2> QED BY <1>2, <1>4, <2>1 DEF One, r
  <1> QED BY <1>3, <1>4

LEMMA CountRemove ==
  ASSUME NEW S, NEW q \in Seq(S), NEW e \in Range(q), NEW x
  PROVE  Cardinality(Places(RemoveFirst(q, e), x)) + One(x = e) = Cardinality(Places(q, x))
  <1> DEFINE r == RemoveFirst(q, e)
  <1>1. r \in Seq(S)
    BY RemoveFirstRest
  <1>2. PICK d \in DOMAIN q : q[d] = e /\ RestOf(r, q, d)
    BY RemoveFirstRest
  <1>3. IsFiniteSet(Places(q, x)) /\ Cardinality(Places(q, x)) \in Nat
        /\ IsFiniteSet(Places(r, x)) /\ Cardinality(Places(r, x)) \in Nat
    BY <1>1, PlacesFinite
  <1> HIDE DEF r
  <1>4. PICK at \in [DOMAIN r -> DOMAIN q \ {d}] :
           /\ \A j \in DOMAIN r : r[j] = q[at[j]]
           /\ \A i, j \in DOMAIN r : (i < j => at[i] < at[j]) /\ (at[i] = at[j] => i = j)
           /\ \A y \in DOMAIN q \ {d} : \E j \in DOMAIN r : at[j] = y
    BY <1>2 DEF RestOf
  <1> DEFINE P == Places(r, x)
             Q == Places(q, x) \ {d}
             f == [j \in P |-> at[j]]
  <1>5. f \in Bijection(P, Q)
    <2>1. \A j \in P : j \in DOMAIN r /\ f[j] = at[j] /\ at[j] \in DOMAIN q /\ at[j] # d /\ q[at[j]] = x
      BY <1>4 DEF Places
    <2>2. f \in [P -> Q]
      BY <2>1 DEF Places
    <2>3. \A i, j \in P : f[i] = f[j] => i = j
      BY <1>4, <2>1
    <2>4. ASSUME NEW y \in Q PROVE \E j \in P : f[j] = y
      <3>1. y \in DOMAIN q \ {d} /\ q[y] = x
        BY DEF Places
      <3>2. PICK j \in DOMAIN r : at[j] = y
        BY <1>4, <3>1
      <3>3. r[j] = x
        BY <1>4, <3>1, <3>2
      <3>4. j \in P
        BY <3>3 DEF Places
      <3> QED BY <3>2, <3>4
    <2> HIDE DEF f, P, Q
    <2> QED BY <2>2, <2>3, <2>4 DEF Bijection, Injection, Surjection, IsInjective
  <1>6. Cardinality(Q) = Cardinality(P)
    <2>1. ExistsBijection(P, Q)
      BY <1>5 DEF ExistsBijection
    <2> QED BY <1>3, <2>1, FS_Bijection
  <1>7. d \in Places(q, x) <=> x = e
    BY <1>2 DEF Places
  <1>8. Cardinality(Q) = IF x = e THEN Cardinality(Places(q, x)) - 1 ELSE Cardinality(Places(q, x))
    BY <1>3, <1>7, FS_RemoveElement
  <1>9. x = e \/ x # e
    OBVIOUS
  <1> QED BY <1>3, <1>6, <1>8, <1>9 DEF One, r

-----------------------------------------------------------------------------
(* The inductive invariant.                                                  *)

\* The link <<s, k>> has its entry in the sink's list and no node yet, or its node
\* and no entry any more.
Adding(s, k)  == call.op \in {"make", "ready", "receiver"} /\ call.src = s /\ call.sink = k
Leaving(s, k) == call.op = "free" /\ call.src = s /\ call.sink = k

CallInv ==
  /\ ~Idle /\ call.op # "kept" => call.src \in attached /\ call.sink \in attached
  /\ call.op \in {"sender", "make", "ready", "receiver"} =>
        linked[<<call.src, call.sink>>] = 0 \/ <<call.src, call.sink>> \in doubled
  /\ call.op \in {"unlink", "free"} =>
        linked[<<call.src, call.sink>>] > 0 \/ <<call.src, call.sink>> \in failed
  /\ call.op \in {"stop", "join"} => \A l \in Linked : call.sink # l[1] /\ call.sink # l[2]
  /\ call.op = "publish" => call.at \in Nat \ {0} /\ published > 0
  /\ call.by \in Modules => call.op = "publish" /\ rpc[call.by] = "calling"

\* A source has as many nodes for a link as calls have made, each of its own.
ListsInv ==
  /\ Linked \subseteq attached \X attached
  /\ \A m \in Modules : IsInjective(receivers[m])
  /\ \A s, k \in Modules : Cardinality(LinkNodes(s, k)) = linked[<<s, k>>]
  /\ \A s, k \in Modules : <<s, k>> \notin doubled => linked[<<s, k>>] <= 1
  /\ \A s \in Modules : \A n \in NodesOf(s) : dst[n] \in Modules
  /\ \A s, t \in Modules : \A n \in NodesOf(s) : n \in NodesOf(t) => s = t

\* The sink has as many entries, but for the link of the call in progress.
EntriesInv ==
  \A s, k \in Modules : <<s, k>> \notin failed =>
     Cardinality(Places(senders[k], s)) + One(Leaving(s, k)) = linked[<<s, k>>] + One(Adding(s, k))

\* Nothing is left for k in the node of s.
Emptied(s, k) ==
  <<s, k>> \notin doubled => \A n \in NodesOf(s) : dst[n] = k => sending[n] = <<>>

\* Where a receiver's walk has come to: it has emptied the sources before the
\* current one, and the nodes before the current one are not its own.
PassedNodes(s, k, n) ==
  \A i, j \in DOMAIN receivers[s] : i < j /\ receivers[s][j] = n => dst[receivers[s][i]] # k
HasWalked(k) ==
  /\ walk[k] > 0
  /\ cur[k] # NoNode => walk[k] \in DOMAIN senders[k]
  /\ \A i \in DOMAIN senders[k] : i < walk[k] => Emptied(senders[k][i], k)
  /\ walk[k] \in DOMAIN senders[k] => PassedNodes(Source(k), k, cur[k])
WalkInv == \A k \in Modules : rpc[k] = "walk" => HasWalked(k)

BatchInv == \A k \in Modules : rpc[k] \in {"none", "lock", "wait", "woken", "exited"} => batch[k] = <<>>

\* What is under way is in a node of its source, or was, and has the number of a
\* published message ...
NumbersInv ==
  /\ \A n \in Nodes : sending[n] # <<>> => \E s \in Modules : n \in NodesOf(s)
  /\ \A s \in Modules : \A n \in NodesOf(s) : \A i \in DOMAIN sending[n] :
        sending[n][i].src = s /\ sending[n][i].link = n /\ sending[n][i].id \in 1..published
  /\ \A k \in Modules : \A i \in DOMAIN batch[k] :
        batch[k][i].id \in 1..published /\ dst[batch[k][i].link] = k

\* ... and on the links the message being published has not been put on, of an earlier one.
SameLink(x, n, s, k) == x.link = n \/ (x.src = s /\ <<s, k>> \notin doubled)
DueInv ==
  call.op = "publish" =>
        \A h \in DOMAIN receivers[call.src] : h >= call.at =>
          LET n == receivers[call.src][h] IN
            /\ \A i \in DOMAIN sending[n] : sending[n][i].id < published
            /\ \A i \in DOMAIN batch[dst[n]] :
                 SameLink(batch[dst[n]][i], n, call.src, dst[n]) => batch[dst[n]][i].id < published

IInv == TypeOK /\ CallInv /\ ListsInv /\ EntriesInv /\ WalkInv /\ NoLostWakeup /\ BatchInv
        /\ NumbersInv /\ DueInv /\ InOrder

\* Links that never meet the known races while every call makes its link once and in
\* full: the source of a link that may be added or removed has no other sink, every
\* source had a link from the start, and no sink has three sources.
MayLink(s, k) == <<s, k>> \in Routes \cup Range(InitLinks)
SafeTopology ==
  /\ \A s, k, l \in Modules : <<s, k>> \in Routes /\ MayLink(s, l) => k = l
  /\ \A s, t, r, k \in Modules : MayLink(s, k) /\ MayLink(t, k) /\ MayLink(r, k) => s = t \/ t = r \/ s = r
  /\ \A s, k \in Modules : MayLink(s, k) => \E l \in Modules : <<s, l>> \in Range(InitLinks)

\* Then a walk is at a node of its source, and nothing is taken behind a lost tail.
SafeWalk(k) ==
  /\ cur[k] # NoNode => cur[k] \in NodesOf(Source(k))
  /\ lostTail[k] => walk[k] > 2
  /\ walk[k] = 1 => batch[k] = <<>>
SafeInv ==
  /\ ~crashed
  /\ \A l \in Linked : MayLink(l[1], l[2])
  /\ call.op \in {"sender", "make", "ready", "receiver"} => MayLink(call.src, call.sink)
  /\ call.op \in {"unlink", "free"} => <<call.src, call.sink>> \in Routes
  /\ call.op \notin {"make", "ready"}
  /\ \A s \in attached, k \in Modules :
        <<s, k>> \in Range(InitLinks) /\ ~(call.op \in {"stop", "join"} /\ call.src = s) => sender[s] = "ready"
  /\ call.op \in {"stop", "join"} => call.src = call.sink
  /\ \A k \in Modules : rpc[k] = "walk" => SafeWalk(k)
Clean == doubled = {} /\ failed = {}
-----------------------------------------------------------------------------
(* Types.                                                                    *)
LEMMA PostIs ==
  ASSUME TypeOK, NEW k, rpc' = Post(k)
  PROVE  /\ rpc' \in [Modules -> ReceiverStates]
         /\ \A m \in Modules : rpc'[m] = IF m = k /\ rpc[m] = "wait" THEN "woken" ELSE rpc[m]
  BY DEF TypeOK, Post, ReceiverStates

LEMMA NextNodeIs ==
  ASSUME NEW s, NEW i \in DOMAIN receivers[s], IsInjective(receivers[s])
  PROVE  NextNode(s, receivers[s][i]) =
            IF i < Len(receivers[s]) THEN receivers[s][i + 1] ELSE NoNode
  BY DEF NextNode, IsInjective

LEMMA NextNodeTyped ==
  ASSUME TypeOK, NEW s \in Modules, NEW n \in NodesOf(s)
  PROVE  NextNode(s, n) \in Nodes \cup {NoNode}
  <1> DEFINE i == CHOOSE j \in DOMAIN receivers[s] : receivers[s][j] = n
  <1>1. i \in DOMAIN receivers[s] /\ receivers[s] \in Seq(Nodes)
    BY DEF NodesOf, Range, TypeOK
  <1> HIDE DEF i
  <1>2. i < Len(receivers[s]) => receivers[s][i + 1] \in Nodes
    BY <1>1
  <1> QED BY <1>2 DEF NextNode, i

LEMMA SourceTyped ==
  ASSUME TypeOK, NEW k \in Modules, Walking(k), walk[k] > 0
  PROVE  walk[k] \in DOMAIN senders[k] /\ Source(k) \in Modules
  <1>1. senders[k] \in Seq(Modules) /\ walk[k] \in Nat
    BY DEF TypeOK
  <1> QED BY <1>1 DEF Walking, Source

LEMMA ListsTyped ==
  ASSUME TypeOK
  PROVE  /\ \A k \in Modules :
              /\ DOMAIN senders[k] = 1..Len(senders[k]) /\ Len(senders[k]) \in Nat
              /\ \A i \in DOMAIN senders[k] : senders[k][i] \in Modules /\ i \in Nat
         /\ \A s \in Modules :
              /\ DOMAIN receivers[s] = 1..Len(receivers[s]) /\ Len(receivers[s]) \in Nat
              /\ \A i \in DOMAIN receivers[s] : receivers[s][i] \in NodesOf(s) /\ i \in Nat
              /\ \A n \in NodesOf(s) : n \in Nodes
         /\ \A n \in Nodes :
              /\ DOMAIN sending[n] = 1..Len(sending[n]) /\ Len(sending[n]) \in Nat
              /\ \A i \in DOMAIN sending[n] : sending[n][i].src \in Modules /\ sending[n][i].id \in Nat
         /\ \A k \in Modules :
              /\ DOMAIN batch[k] = 1..Len(batch[k]) /\ Len(batch[k]) \in Nat
              /\ \A i \in DOMAIN batch[k] : /\ batch[k][i].src \in Modules /\ batch[k][i].id \in Nat
                                            /\ batch[k][i].link \in Nodes
  <1>1. ASSUME NEW S, NEW q \in Seq(S)
        PROVE  /\ DOMAIN q = 1..Len(q) /\ Len(q) \in Nat
               /\ \A i \in DOMAIN q : q[i] \in S /\ i \in Nat
    OBVIOUS
  <1>2. /\ \A k \in Modules : senders[k] \in Seq(Modules) /\ batch[k] \in Seq(Msg) /\ receivers[k] \in Seq(Nodes)
        /\ \A n \in Nodes : sending[n] \in Seq(Msg)
    BY DEF TypeOK
  <1>3. \A x \in Msg : x.src \in Modules /\ x.id \in Nat /\ x.link \in Nodes
    BY DEF Msg
  <1>4. ASSUME NEW s \in Modules
        PROVE  /\ \A i \in DOMAIN receivers[s] : receivers[s][i] \in NodesOf(s)
               /\ \A n \in NodesOf(s) : n \in Nodes
    BY <1>1, <1>2 DEF NodesOf, Range
  <1> QED BY <1>1, <1>2, <1>3, <1>4

LEMMA InitType == Init => TypeOK
  <1> SUFFICES ASSUME Init PROVE TypeOK
    OBVIOUS
  <1> USE LinkAssumption
  <1>1. Len(InitLinks) \in Nat /\ DOMAIN InitLinks = 1..Len(InitLinks) /\ DOMAIN InitLinks \subseteq Nodes
    OBVIOUS
  <1>2. ASSUME NEW q \in InitLists PROVE q \in Seq(DOMAIN InitLinks) /\ q \in Seq(Nodes)
    <2>1. PICK n \in 0..Len(InitLinks) : q \in [1..n -> DOMAIN InitLinks]
      BY DEF InitLists
    <2> HIDE LinkAssumption
    <2>2. n \in Nat /\ q \in [1..n -> Nodes]
      BY <1>1, <2>1
    <2> QED BY <2>1, <2>2
  <1>3. \A i \in DOMAIN InitLinks : InitLinks[i][1] \in Modules /\ InitLinks[i][2] \in Modules
    BY <1>1
  <1>4. receivers \in [Modules -> Seq(Nodes)]
    <2>1. receivers \in [Modules -> InitLists]
      BY DEF Init
    <2> QED BY <1>2, <2>1
  <1>5. senders \in [Modules -> Seq(Modules)]
    <2>1. PICK into \in [Modules -> InitLists] :
             senders = [m \in Modules |-> [i \in DOMAIN into[m] |-> InitLinks[into[m][i]][1]]]
      BY DEF Init
    <2>2. ASSUME NEW m \in Modules PROVE senders[m] \in Seq(Modules)
      <3>1. into[m] \in Seq(DOMAIN InitLinks)
        BY <1>2
      <3>2. \A i \in DOMAIN into[m] : InitLinks[into[m][i]][1] \in Modules
        BY <1>3, <3>1
      <3>3. DOMAIN into[m] = 1..Len(into[m]) /\ Len(into[m]) \in Nat
        BY <3>1
      <3>4. senders[m] = [i \in 1..Len(into[m]) |-> InitLinks[into[m][i]][1]]
        BY <2>1, <3>3
      <3> QED BY <3>2, <3>3, <3>4
    <2> QED BY <2>1, <2>2
  <1>6. dst \in [Nodes -> Modules \cup {NoThread}]
    BY <1>3 DEF Init
  <1>7. /\ linked \in [Modules \X Modules -> Nat] /\ adds \in Nat
        /\ doubled \subseteq Modules \X Modules /\ failed \subseteq Modules \X Modules
    BY DEF Init
  <1>8. sending \in [Nodes -> Seq(Msg)] /\ batch \in [Modules -> Seq(Msg)]
    BY DEF Init
  <1>9. rpc \in [Modules -> ReceiverStates] /\ \A m \in Modules : rlock[m] = m <=> rpc[m] = "walk"
    BY DEF Init, ReceiverStates
  <1> QED BY <1>4, <1>5, <1>6, <1>7, <1>8, <1>9 DEF Init, TypeOK

-----------------------------------------------------------------------------
(* The nodes of a link.                                                      *)
LEMMA NodesFinite ==
  ASSUME TypeOK, NEW s \in Modules, NEW k
  PROVE  /\ IsFiniteSet(LinkNodes(s, k)) /\ Cardinality(LinkNodes(s, k)) \in Nat
         /\ Cardinality(LinkNodes(s, k)) = 0 <=> LinkNodes(s, k) = {}
  <1> DEFINE q == receivers[s]
  <1>1. q \in Seq(Nodes)
    BY DEF TypeOK
  <1> HIDE DEF q
  <1>2. DOMAIN q = 1..Len(q) /\ Len(q) \in Nat
    BY <1>1
  <1>3. IsFiniteSet(DOMAIN q)
    BY <1>2, FS_Interval
  <1>4. q \in Surjection(DOMAIN q, Range(q))
    <2>1. q \in [DOMAIN q -> Range(q)]
      BY <1>1 DEF Range
    <2> QED BY <2>1 DEF Surjection, Range
  <1>5. IsFiniteSet(Range(q))
    BY <1>3, <1>4, FS_Surjection
  <1>6. LinkNodes(s, k) \in SUBSET Range(q)
    BY DEF LinkNodes, NodesOf, q
  <1>7. IsFiniteSet(LinkNodes(s, k))
    BY <1>5, <1>6, FS_Subset
  <1> QED BY <1>7, FS_CardinalityType, FS_EmptySet

LEMMA HasNode ==
  ASSUME TypeOK, ListsInv, NEW s \in Modules, NEW k \in Modules
  PROVE  /\ linked[<<s, k>>] \in Nat
         /\ linked[<<s, k>>] > 0 <=> LinkNodes(s, k) # {}
         /\ linked[<<s, k>>] > 0 <=> <<s, k>> \in Linked
         /\ linked[<<s, k>>] > 0 <=> \E n \in NodesOf(s) : dst[n] = k
  <1>1. linked[<<s, k>>] \in Nat /\ <<s, k>> \in Modules \X Modules
    BY DEF TypeOK
  <1>2. Cardinality(LinkNodes(s, k)) = linked[<<s, k>>]
    BY DEF ListsInv
  <1>3. linked[<<s, k>>] = 0 <=> LinkNodes(s, k) = {}
    BY <1>2, NodesFinite
  <1>4. linked[<<s, k>>] > 0 <=> <<s, k>> \in Linked
    BY <1>1 DEF Linked
  <1> QED BY <1>1, <1>3, <1>4 DEF LinkNodes

\* A link made once has one node.
LEMMA Alone ==
  ASSUME TypeOK, ListsInv, NEW s \in Modules, NEW k \in Modules, <<s, k>> \notin doubled,
         NEW n \in NodesOf(s), NEW o \in NodesOf(s), dst[n] = k, dst[o] = k
  PROVE  n = o
  <1>1. n \in LinkNodes(s, k) /\ o \in LinkNodes(s, k)
    BY DEF LinkNodes
  <1>2. Cardinality(LinkNodes(s, k)) <= 1 /\ Cardinality(LinkNodes(s, k)) \in Nat
    BY NodesFinite DEF ListsInv
  <1>3. Cardinality(LinkNodes(s, k)) = 1
    BY <1>1, <1>2, NodesFinite
  <1>4. \E x : LinkNodes(s, k) = {x}
    BY <1>3, NodesFinite, FS_Singleton
  <1> QED BY <1>1, <1>4

\* A source that is gone has no nodes, and a message taken names none malloc returns.
LEMMA FreeNode ==
  ASSUME TypeOK, ListsInv, NEW n \in Nodes, n \notin InUse
  PROVE  /\ \A s \in Modules : n \notin NodesOf(s)
         /\ \A k \in Modules : cur[k] # n
         /\ \A k \in Modules : \A i \in DOMAIN batch[k] : batch[k][i].link # n
  <1>1. ASSUME NEW s \in Modules, n \in NodesOf(s) PROVE FALSE
    <2>1. dst[n] \in Modules
      BY <1>1 DEF ListsInv
    <2>2. <<s, dst[n]>> \in Linked
      BY <1>1, <2>1, HasNode
    <2>3. s \in attached
      BY <2>2 DEF ListsInv
    <2> QED BY <1>1, <2>3 DEF InUse
  <1>2. ASSUME NEW k \in Modules PROVE cur[k] # n
    BY DEF InUse, Range, TypeOK
  <1>3. ASSUME NEW k \in Modules, NEW i \in DOMAIN batch[k] PROVE batch[k][i].link # n
    <2>1. <<k, i>> \in UNION {{m} \X DOMAIN batch[m] : m \in Modules}
      OBVIOUS
    <2>2. batch[<<k, i>>[1]][<<k, i>>[2]].link \in InUse
      BY <2>1 DEF InUse
    <2> QED BY <2>2
  <1> QED BY <1>1, <1>2, <1>3

-----------------------------------------------------------------------------
(* The call in progress.                                                     *)
Ops == {"sender", "make", "ready", "receiver", "unlink", "free", "publish", "kept", "stop", "join"}

LEMMA CallIs ==
  ASSUME TypeOK, ~Idle
  PROVE  /\ call.by \in Modules \cup Callers /\ call.op \in Ops
         /\ call.src \in Modules /\ call.sink \in Modules /\ call.at \in Nat
  BY DEF TypeOK, Idle, Calls, Ops

LEMMA NoCallIs ==
  ASSUME Idle
  PROVE  call.op = "none" /\ call.by = NoThread
  BY DEF Idle, NoCall

LEMMA BeginIs ==
  ASSUME NEW t \in Modules \cup Callers, NEW op \in Ops, NEW s \in Modules, NEW k \in Modules,
         Begin(t, op, s, k)
  PROVE  /\ call' \in Calls /\ ~Idle'
         /\ call'.by = t /\ call'.op = op /\ call'.src = s /\ call'.sink = k /\ call'.at = 1
  <1>1. call' = [by |-> t, op |-> op, src |-> s, sink |-> k, at |-> 1]
    BY DEF Begin
  <1>2. call' \in Calls
    BY <1>1 DEF Calls, Ops
  <1>3. call'.op # "none"
    BY <1>1 DEF Ops
  <1>4. call' # NoCall
    BY <1>3 DEF NoCall
  <1> QED BY <1>1, <1>2, <1>4 DEF Idle

LEMMA GoOnIs ==
  ASSUME TypeOK, ~Idle, NEW op \in Ops, GoOn(op)
  PROVE  /\ call' \in Calls /\ ~Idle' /\ call'.op = op
         /\ call'.by = call.by /\ call'.src = call.src /\ call'.sink = call.sink /\ call'.at = call.at
  <1>1. call \in Calls
    BY DEF TypeOK, Idle
  <1>2. call' = [call EXCEPT !.op = op]
    BY DEF GoOn
  <1>3. call' \in Calls
    BY <1>1, <1>2 DEF Calls, Ops
  <1>4. call'.op = op
    BY <1>1, <1>2 DEF Calls
  <1>5. call' # NoCall
    BY <1>4 DEF NoCall, Ops
  <1> QED BY <1>1, <1>2, <1>3, <1>4, <1>5 DEF Calls, Idle

LEMMA UnlinkIs ==
  ASSUME TypeOK, ~Idle, NEW i \in Nat, call' = [call EXCEPT !.op = "free", !.at = i]
  PROVE  /\ call' \in Calls /\ ~Idle' /\ call'.op = "free"
         /\ call'.by = call.by /\ call'.src = call.src /\ call'.sink = call.sink
  <1>1. call \in Calls
    BY DEF TypeOK, Idle
  <1>2. call' \in Calls
    BY <1>1 DEF Calls
  <1>3. call'.op = "free"
    BY <1>1 DEF Calls
  <1>4. call' # NoCall
    BY <1>3 DEF NoCall
  <1> QED BY <1>1, <1>2, <1>3, <1>4 DEF Calls, Idle

LEMMA AdvanceIs ==
  ASSUME TypeOK, ~Idle, call' = [call EXCEPT !.at = @ + 1]
  PROVE  /\ call' \in Calls /\ ~Idle' /\ call'.op = call.op
         /\ call'.by = call.by /\ call'.src = call.src /\ call'.sink = call.sink
         /\ call'.at = call.at + 1
  <1>1. call \in Calls
    BY DEF TypeOK, Idle
  <1>2. call' \in Calls
    BY <1>1 DEF Calls
  <1>3. call'.op = call.op /\ call.op \in Ops
    BY <1>1 DEF Calls, Ops
  <1>4. call' # NoCall
    BY <1>3 DEF NoCall, Ops
  <1> QED BY <1>1, <1>2, <1>3, <1>4 DEF Calls, Idle

LEMMA EndIs ==
  ASSUME End
  PROVE  Idle' /\ call'.op = "none" /\ call'.by = NoThread
  BY DEF End, Idle, NoCall

\* The node RemoveLinkReceiver takes.
LEMMA NodeToIs ==
  ASSUME TypeOK, NEW s \in Modules, NEW k, LinkNodes(s, k) # {}
  PROVE  NodeTo(s, k) \in NodesOf(s) /\ dst[NodeTo(s, k)] = k
  <1> DEFINE P == {j \in DOMAIN receivers[s] : dst[receivers[s][j]] = k}
             First(j) == /\ dst[receivers[s][j]] = k
                         /\ \A h \in 1..j - 1 : dst[receivers[s][h]] # k
             i == CHOOSE j \in DOMAIN receivers[s] : First(j)
  <1>1. receivers[s] \in Seq(Nodes)
    BY DEF TypeOK
  <1>2. DOMAIN receivers[s] = 1..Len(receivers[s]) /\ Len(receivers[s]) \in Nat
    BY <1>1
  <1>3. P \in SUBSET Nat /\ P # {}
    BY <1>2 DEF LinkNodes, NodesOf, Range
  <1>4. PICK j \in P : \A h \in P : j <= h
    <2> HIDE DEF P
    <2> QED BY <1>3, Least
  <1>5. First(j)
    BY <1>2, <1>4
  <1>6. NodeTo(s, k) = receivers[s][i]
    BY DEF NodeTo
  <1> HIDE DEF First
  <1>7. i \in DOMAIN receivers[s] /\ First(i)
    BY <1>4, <1>5
  <1>8. dst[receivers[s][i]] = k
    BY <1>7 DEF First
  <1> HIDE DEF i
  <1> QED BY <1>6, <1>7, <1>8 DEF NodesOf, Range

(* Types are kept.                                                           *)
HistoryTyped ==
  adds \in Nat /\ doubled \subseteq Modules \X Modules /\ failed \subseteq Modules \X Modules

LEMMA HistoryKept ==
  ASSUME TypeOK
  PROVE  HistoryTyped /\ (UNCHANGED history => HistoryTyped')
  BY DEF HistoryTyped, TypeOK, history

LEMMA TypeBegin ==
  ASSUME TypeOK, call' \in Calls \cup {NoCall},
         UNCHANGED <<receivers, dst, senders, linked, walk, cur, lostTail, batch, sending, rlock>>,
         attached' \subseteq Modules, sender' \in [Modules -> {"none", "raw", "ready"}],
         toContinue' \in [Modules -> BOOLEAN],
         rpc' \in [Modules -> ReceiverStates], \A m \in Modules : rpc'[m] = "walk" <=> rpc[m] = "walk",
         published' \in Nat, removals' \in Nat, crashed' \in BOOLEAN, HistoryTyped'
  PROVE  TypeOK'
  BY DEF TypeOK, HistoryTyped

LEMMA TypeLists ==
  ASSUME TypeOK, call' \in Calls \cup {NoCall},
         receivers' \in [Modules -> Seq(Nodes)], dst' \in [Nodes -> Modules \cup {NoThread}],
         sending' \in [Nodes -> Seq(Msg)], senders' \in [Modules -> Seq(Modules)],
         linked' \in [Modules \X Modules -> Nat], HistoryTyped',
         sender' \in [Modules -> {"none", "raw", "ready"}],
         UNCHANGED <<attached, walk, cur, lostTail, batch, toContinue, rlock, rpc, published, removals, crashed>>
  PROVE  TypeOK'
  BY DEF TypeOK, HistoryTyped

LEMMA TypeReceiver ==
  ASSUME TypeOK, UNCHANGED <<attached, sender, receivers, dst, senders, linked, history, call, toContinue,
                             published, removals>>,
         rpc' \in [Modules -> ReceiverStates], rlock' \in [Modules -> Modules \cup {NoThread}],
         \A m \in Modules : rlock'[m] = m <=> rpc'[m] = "walk",
         walk' \in [Modules -> Nat], cur' \in [Modules -> Nodes \cup {NoNode}],
         lostTail' \in [Modules -> BOOLEAN], batch' \in [Modules -> Seq(Msg)],
         sending' \in [Nodes -> Seq(Msg)], crashed' \in BOOLEAN
  PROVE  TypeOK'
  BY DEF TypeOK, history

LEMMA FailsTyped ==
  ASSUME TypeOK, NEW s, NEW k, Fails(s, k), adds' \in Nat, doubled' \subseteq Modules \X Modules
  PROVE  HistoryTyped' /\ failed' = failed \cup {<<s, k>>}
  BY LinkAssumption DEF Fails, HistoryTyped, TypeOK

\* What the callers count.
LEMMA OneMore ==
  ASSUME TypeOK, NEW s \in Modules, NEW k \in Modules, linked' = [linked EXCEPT ![<<s, k>>] = @ + 1]
  PROVE  /\ linked' \in [Modules \X Modules -> Nat] /\ linked[<<s, k>>] \in Nat
         /\ linked'[<<s, k>>] = linked[<<s, k>>] + 1
         /\ \A l \in Modules \X Modules : l # <<s, k>> => linked'[l] = linked[l]
  <1>1. linked \in [Modules \X Modules -> Nat] /\ <<s, k>> \in Modules \X Modules
    BY DEF TypeOK
  <1>2. linked[<<s, k>>] \in Nat /\ linked[<<s, k>>] + 1 \in Nat
    BY <1>1
  <1> QED BY <1>1, <1>2

LEMMA OneLess ==
  ASSUME TypeOK, NEW s \in Modules, NEW k \in Modules, Forget(s, k)
  PROVE  /\ linked' \in [Modules \X Modules -> Nat] /\ linked[<<s, k>>] \in Nat
         /\ linked'[<<s, k>>] = IF linked[<<s, k>>] > 0 THEN linked[<<s, k>>] - 1 ELSE 0
         /\ \A l \in Modules \X Modules : l # <<s, k>> => linked'[l] = linked[l]
  <1> DEFINE x == IF linked[<<s, k>>] > 0 THEN linked[<<s, k>>] - 1 ELSE 0
  <1>1. linked \in [Modules \X Modules -> Nat] /\ <<s, k>> \in Modules \X Modules
    BY DEF TypeOK
  <1>2. linked[<<s, k>>] \in Nat /\ x \in Nat
    BY <1>1
  <1>3. linked' = [linked EXCEPT ![<<s, k>>] = x]
    BY DEF Forget
  <1> HIDE DEF x
  <1>4. linked' \in [Modules \X Modules -> Nat] /\ linked'[<<s, k>>] = x
    BY <1>1, <1>2, <1>3
  <1>5. \A l \in Modules \X Modules : l # <<s, k>> => linked'[l] = linked[l]
    BY <1>1, <1>3
  <1> QED BY <1>2, <1>4, <1>5 DEF x

LEMMA TypeCall ==
  ASSUME TypeOK, CallInv, CallStep
  PROVE  TypeOK'
  <1>1. ~Idle
    BY NoCallIs DEF CallStep, AddLinkSender, AddLinkNoSender, AddLinkMake, AddLinkReady, AddLinkUnmade,
                    AddLinkReceiver, AddLinkNoNode, RemoveLinkSender, RemoveLinkReceiver,
                    RemoveLinkMissing, PublishNode, PublishEnd, StopReceiver, JoinReceiver
  <1>2. call.src \in Modules /\ call.sink \in Modules /\ call.by \in Modules \cup Callers
    BY <1>1, CallIs
  <1>3. CASE AddLinkSender
    <2>1. Append(senders[call.sink], call.src) \in Seq(Modules)
      BY <1>2 DEF TypeOK
    <2>2. senders' = [senders EXCEPT ![call.sink] = Append(@, call.src)]
      BY <1>3 DEF AddLinkSender
    <2>3. senders' \in [Modules -> Seq(Modules)]
      BY <2>1, <2>2 DEF TypeOK
    <2>4. call' \in Calls
      BY <1>1, <1>3, GoOnIs DEF AddLinkSender, Ops
    <2> QED BY <1>3, <2>3, <2>4, TypeLists, HistoryKept DEF AddLinkSender, TypeOK, walker
  <1>4. CASE AddLinkMake
    <2>1. call' \in Calls
      BY <1>1, <1>4, GoOnIs DEF AddLinkMake, Ops
    <2>2. sender' \in [Modules -> {"none", "raw", "ready"}]
      BY <1>4 DEF AddLinkMake, TypeOK
    <2> QED BY <1>4, <2>1, <2>2, TypeLists, HistoryKept DEF AddLinkMake, TypeOK, walker
  <1>5. CASE AddLinkReady
    <2>1. call' \in Calls
      BY <1>1, <1>5, GoOnIs DEF AddLinkReady, Ops
    <2>2. sender' \in [Modules -> {"none", "raw", "ready"}]
      BY <1>5 DEF AddLinkReady, TypeOK
    <2> QED BY <1>5, <2>1, <2>2, TypeLists, HistoryKept DEF AddLinkReady, TypeOK, walker
  <1>13. CASE AddLinkNoSender \/ AddLinkUnmade \/ AddLinkNoNode
    <2>1. HistoryTyped'
      BY <1>13, FailsTyped, HistoryKept DEF AddLinkNoSender, AddLinkUnmade, AddLinkNoNode, HistoryTyped
    <2>2. call' \in Calls \cup {NoCall}
      BY <1>1, <1>13, GoOnIs DEF AddLinkNoSender, AddLinkUnmade, AddLinkNoNode, Ops, End
    <2>3. sender' \in [Modules -> {"none", "raw", "ready"}]
      BY <1>13 DEF AddLinkNoSender, AddLinkUnmade, AddLinkNoNode, TypeOK
    <2>4. UNCHANGED <<attached, receivers, dst, senders, linked, walker, sending, toContinue, rlock, rpc,
                      published, removals, crashed>>
      BY <1>13 DEF AddLinkNoSender, AddLinkUnmade, AddLinkNoNode
    <2> QED BY <2>1, <2>2, <2>3, <2>4, TypeLists DEF TypeOK, walker
  <1>6. CASE AddLinkReceiver
    <2> DEFINE n == CHOOSE free \in Nodes : free \notin InUse
    <2>0. n \in Nodes
      BY <1>6 DEF AddLinkReceiver
    <2>1. /\ receivers' = [receivers EXCEPT ![call.src] = Append(@, n)]
          /\ dst' = [dst EXCEPT ![n] = call.sink]
          /\ sending' = [sending EXCEPT ![n] = <<>>]
          /\ linked' = [linked EXCEPT ![<<call.src, call.sink>>] = @ + 1]
      BY <1>6 DEF AddLinkReceiver
    <2> HIDE DEF n
    <2>2. Append(receivers[call.src], n) \in Seq(Nodes)
      BY <1>2, <2>0 DEF TypeOK
    <2>3. receivers' \in [Modules -> Seq(Nodes)]
      BY <2>1, <2>2 DEF TypeOK
    <2>4. dst' \in [Nodes -> Modules \cup {NoThread}]
      BY <1>2, <2>1 DEF TypeOK
    <2>5. sending' \in [Nodes -> Seq(Msg)]
      <3>1. <<>> \in Seq(Msg)
        OBVIOUS
      <3> QED BY <2>1, <3>1 DEF TypeOK
    <2>6. linked' \in [Modules \X Modules -> Nat]
      BY <1>2, <2>1, OneMore
    <2> QED BY <1>6, <2>3, <2>4, <2>5, <2>6, TypeLists, HistoryKept DEF AddLinkReceiver, TypeOK, walker, End
  <1>7. CASE RemoveLinkSender
    <2>1. RemoveFirst(senders[call.sink], call.src) \in Seq(Modules)
      BY <1>2, RemoveFirstAny DEF TypeOK
    <2>2. senders' = [senders EXCEPT ![call.sink] = RemoveFirst(@, call.src)]
      BY <1>7 DEF RemoveLinkSender
    <2>3. senders' \in [Modules -> Seq(Modules)]
      BY <2>1, <2>2 DEF TypeOK
    <2>4. call' \in Calls
      BY <1>1, <1>7, UnlinkIs DEF RemoveLinkSender
    <2> QED BY <1>7, <2>3, <2>4, TypeLists, HistoryKept DEF RemoveLinkSender, TypeOK, walker
  <1>14. ASSUME Forget(call.src, call.sink) PROVE linked' \in [Modules \X Modules -> Nat]
    BY <1>2, <1>14, OneLess
  <1>8. CASE RemoveLinkReceiver
    <2> DEFINE n == NodeTo(call.src, call.sink)
    <2>2. n \in NodesOf(call.src)
      BY <1>2, <1>8, NodeToIs DEF RemoveLinkReceiver
    <2>4. /\ receivers' = [receivers EXCEPT ![call.src] = RemoveFirst(@, n)]
          /\ sending' = [sending EXCEPT ![n] = <<>>]
      BY <1>8 DEF RemoveLinkReceiver
    <2> HIDE DEF n
    <2>3. RemoveFirst(receivers[call.src], n) \in Seq(Nodes)
      BY <1>2, RemoveFirstAny DEF TypeOK
    <2>5. receivers' \in [Modules -> Seq(Nodes)]
      BY <2>3, <2>4 DEF TypeOK
    <2>7. sending' \in [Nodes -> Seq(Msg)]
      <3>1. <<>> \in Seq(Msg)
        OBVIOUS
      <3> QED BY <2>4, <3>1 DEF TypeOK
    <2> QED BY <1>8, <1>14, <2>5, <2>7, TypeLists, HistoryKept DEF RemoveLinkReceiver, TypeOK, walker, End
  <1>15. CASE RemoveLinkMissing
    BY <1>14, <1>15, TypeLists, HistoryKept DEF RemoveLinkMissing, TypeOK, walker, End
  <1>9. CASE PublishNode
    <2> DEFINE n == receivers[call.src][call.at]
               x == [link |-> n, src |-> call.src, id |-> published]
    <2>1. /\ rpc' = Post(dst[n])
          /\ sending' = [sending EXCEPT ![n] = Append(@, x)]
      BY <1>9 DEF PublishNode
    <2>2. call' \in Calls
      BY <1>1, <1>9, AdvanceIs DEF PublishNode
    <2>6. n \in Nodes
      <3>1. receivers[call.src] \in Seq(Nodes) /\ call.at \in Nat \ {0}
        BY <1>2, <1>9 DEF TypeOK, CallInv, PublishNode
      <3> QED BY <1>9, <3>1 DEF PublishNode
    <2>4. x \in Msg
      BY <1>2, <2>6 DEF TypeOK, Msg
    <2> HIDE DEF n, x
    <2>3. rpc' \in [Modules -> ReceiverStates] /\ \A m \in Modules : rpc'[m] = "walk" <=> rpc[m] = "walk"
      BY <2>1, PostIs
    <2>5. sending' \in [Nodes -> Seq(Msg)]
      <3>1. Append(sending[n], x) \in Seq(Msg)
        BY <2>4, <2>6 DEF TypeOK
      <3> QED BY <2>1, <3>1 DEF TypeOK
    <2> QED BY <1>9, <2>2, <2>3, <2>5 DEF PublishNode, TypeOK, registry, history, walker
  <1>10. CASE PublishEnd
    <2>1. rpc' \in [Modules -> ReceiverStates] /\ \A m \in Modules : rpc'[m] = "walk" <=> rpc[m] = "walk"
      BY <1>10 DEF PublishEnd, TypeOK, ReceiverStates, CallInv
    <2> QED BY <1>10, <2>1, TypeBegin, HistoryKept DEF PublishEnd, TypeOK, registry, walker, End
  <1>11. CASE StopReceiver
    <2>1. rpc' \in [Modules -> ReceiverStates] /\ \A m \in Modules : rpc'[m] = "walk" <=> rpc[m] = "walk"
      BY <1>11, PostIs DEF StopReceiver
    <2>2. call' \in Calls
      BY <1>1, <1>11, GoOnIs DEF StopReceiver, Ops
    <2>3. toContinue' \in [Modules -> BOOLEAN]
      BY <1>11 DEF StopReceiver, TypeOK
    <2> QED BY <1>11, <2>1, <2>2, <2>3, TypeBegin, HistoryKept DEF StopReceiver, TypeOK, registry, walker
  <1>12. CASE JoinReceiver
    <2>1. rpc' \in [Modules -> ReceiverStates] /\ \A m \in Modules : rpc'[m] = "walk" <=> rpc[m] = "walk"
      BY <1>12 DEF JoinReceiver, TypeOK, ReceiverStates
    <2> QED BY <1>12, <2>1, TypeBegin, HistoryKept DEF JoinReceiver, TypeOK, walker, End
  <1> QED BY <1>3, <1>4, <1>5, <1>6, <1>7, <1>8, <1>9, <1>10, <1>11, <1>12, <1>13, <1>15 DEF CallStep

\* What begins a call.
CallersStep ==
  \/ \E c \in Callers, s, k \in Modules : AddLink(c, s, k) \/ AddLinkNoReceiver(c, s, k) \/ RemoveLink(c, s, k)
  \/ \E t \in Modules \cup Callers, s \in Modules : Publish(t, s) /\ (t \in Modules => rpc[t] = "calling")
  \/ \E c \in Callers, s \in Modules : PublishUnknown(c, s)
  \/ \E c \in Callers, m \in Modules : RemoveModule(c, m)

LEMMA TypeCaller ==
  ASSUME TypeOK, CallersStep
  PROVE  TypeOK'
  <1>0. ASSUME NEW s \in Modules, NEW k \in Modules, MayAdd(s, k)
        PROVE  adds' \in Nat /\ doubled' \subseteq Modules \X Modules
    BY <1>0 DEF MayAdd, TypeOK
  <1>1. ASSUME NEW c \in Callers, NEW s \in Modules, NEW k \in Modules, AddLink(c, s, k)
        PROVE  TypeOK'
    <2>1. call' \in Calls
      BY <1>1, BeginIs DEF AddLink, Ops
    <2>2. rpc' \in [Modules -> ReceiverStates] /\ \A m \in Modules : rpc'[m] = "walk" <=> rpc[m] = "walk"
      <3>1. rpc' = rpc \/ (rpc[k] = "none" /\ rpc' = [rpc EXCEPT ![k] = "lock"])
        BY <1>1 DEF AddLink
      <3>2. rpc \in [Modules -> ReceiverStates] /\ "lock" \in ReceiverStates
        BY DEF TypeOK, ReceiverStates
      <3>3. rpc' \in [Modules -> ReceiverStates]
        BY <3>1, <3>2
      <3>4. ASSUME NEW m \in Modules PROVE rpc'[m] = "walk" <=> rpc[m] = "walk"
        BY <3>1, <3>2
      <3> QED BY <3>3, <3>4
    <2>3. toContinue' \in [Modules -> BOOLEAN]
      BY <1>1 DEF AddLink, TypeOK
    <2>4. HistoryTyped'
      BY <1>0, <1>1 DEF AddLink, HistoryTyped, TypeOK
    <2> QED BY <1>1, <2>1, <2>2, <2>3, <2>4, TypeBegin DEF AddLink, TypeOK, walker
  <1>5. ASSUME NEW c \in Callers, NEW s \in Modules, NEW k \in Modules, AddLinkNoReceiver(c, s, k)
        PROVE  TypeOK'
    <2>1. call' \in Calls
      BY <1>5, BeginIs DEF AddLinkNoReceiver, Ops
    <2>2. HistoryTyped'
      BY <1>0, <1>5, FailsTyped DEF AddLinkNoReceiver
    <2> QED BY <1>5, <2>1, <2>2, TypeBegin DEF AddLinkNoReceiver, TypeOK, walker
  <1>2. ASSUME NEW c \in Callers, NEW s \in Modules, NEW k \in Modules, RemoveLink(c, s, k)
        PROVE  TypeOK'
    <2>1. call' \in Calls
      BY <1>2, BeginIs DEF RemoveLink, Ops
    <2> QED BY <1>2, <2>1, TypeBegin, HistoryKept DEF RemoveLink, TypeOK, registry, walker
  <1>3. ASSUME NEW t \in Modules \cup Callers, NEW s \in Modules, Publish(t, s)
        PROVE  TypeOK'
    <2>1. call' \in Calls
      BY <1>3, BeginIs DEF Publish, Ops
    <2>2. published' \in Nat
      BY <1>3 DEF Publish, TypeOK
    <2> QED BY <1>3, <2>1, <2>2, TypeBegin, HistoryKept DEF Publish, TypeOK, registry, walker
  <1>6. ASSUME NEW c \in Callers, NEW s \in Modules, PublishUnknown(c, s)
        PROVE  TypeOK'
    <2>1. call' \in Calls
      BY <1>6, BeginIs DEF PublishUnknown, Ops
    <2> QED BY <1>6, <2>1, TypeBegin, HistoryKept DEF PublishUnknown, TypeOK, registry, walker
  <1>4. ASSUME NEW c \in Callers, NEW m \in Modules, RemoveModule(c, m) PROVE TypeOK'
    <2>1. call' \in Calls
      BY <1>4, BeginIs DEF RemoveModule, Ops
    <2>2. sender' \in [Modules -> {"none", "raw", "ready"}]
      BY <1>4 DEF RemoveModule, TypeOK
    <2>3. removals' \in Nat
      BY <1>4 DEF RemoveModule, TypeOK
    <2> QED BY <1>4, <2>1, <2>2, <2>3, TypeBegin, HistoryKept DEF RemoveModule, TypeOK, walker
  <1> QED BY <1>1, <1>2, <1>3, <1>4, <1>5, <1>6 DEF CallersStep

LEMMA TypeThread ==
  ASSUME TypeOK, WalkInv, NEW m \in Modules,
         \/ ReceiverLock(m) \/ ReceiverStop(m) \/ ReceiverWake(m) \/ WalkSender(m) \/ WalkNode(m)
         \/ WalkTake(m) \/ WalkEnd(m) \/ Crash(m) \/ Receive(m) \/ ReceiveReturn(m) \/ BatchDone(m)
         \/ SpuriousWakeup(m) \/ CallPublish(m)
  PROVE  TypeOK'
  <1>0. m # NoThread
    BY LinkAssumption
  <1>1. CASE StartWalk(m)
    <2>1. /\ rpc' \in [Modules -> ReceiverStates] /\ rlock' \in [Modules -> Modules \cup {NoThread}]
          /\ \A k \in Modules : rlock'[k] = k <=> rpc'[k] = "walk"
      BY <1>1 DEF StartWalk, TypeOK, ReceiverStates
    <2>2. /\ walk' \in [Modules -> Nat] /\ cur' \in [Modules -> Nodes \cup {NoNode}]
          /\ lostTail' \in [Modules -> BOOLEAN]
      BY <1>1 DEF StartWalk, TypeOK
    <2> QED BY <1>1, <2>1, <2>2, TypeReceiver DEF StartWalk, registry, TypeOK
  <1>2. CASE ReceiverStop(m) \/ SpuriousWakeup(m) \/ CallPublish(m) \/ ReceiveReturn(m) \/ BatchDone(m)
    <2>1. PICK at \in ReceiverStates \ {"walk"} : rpc[m] # "walk" /\ rpc' = [rpc EXCEPT ![m] = at]
      <3>1. CASE ReceiverStop(m)
        BY <3>1 DEF ReceiverStop, ReceiverStates
      <3>2. CASE SpuriousWakeup(m)
        BY <3>2 DEF SpuriousWakeup, ReceiverStates
      <3>3. CASE CallPublish(m)
        BY <3>3 DEF CallPublish, ReceiverStates
      <3>4. CASE ReceiveReturn(m)
        BY <3>4 DEF ReceiveReturn, ReceiverStates
      <3>5. CASE BatchDone(m)
        BY <3>5 DEF BatchDone, ReceiverStates
      <3> QED BY <1>2, <3>1, <3>2, <3>3, <3>4, <3>5
    <2>2. rpc' \in [Modules -> ReceiverStates] /\ \A k \in Modules : rpc'[k] = "walk" <=> rpc[k] = "walk"
      BY <2>1 DEF TypeOK
    <2>3. UNCHANGED <<registry, walker, call, sending, toContinue, rlock, published, removals, crashed>>
      BY <1>2 DEF ReceiverStop, SpuriousWakeup, CallPublish, ReceiveReturn, BatchDone
    <2> QED BY <2>2, <2>3, TypeBegin, HistoryKept DEF registry, walker, TypeOK
  <1>3. ASSUME NEW n \in Nodes \cup {NoNode}, WalkTo(m, n)
        PROVE  walk' \in [Modules -> Nat] /\ cur' \in [Modules -> Nodes \cup {NoNode}]
    BY <1>3 DEF WalkTo, TypeOK
  <1>4. Walking(m) => Source(m) \in Modules
    BY SourceTyped DEF WalkInv, HasWalked, Walking
  <1>5. CASE WalkSender(m)
    <2> DEFINE n == IF receivers[Source(m)] = <<>> THEN NoNode ELSE Head(receivers[Source(m)])
    <2>1. n \in Nodes \cup {NoNode}
      <3>1. receivers[Source(m)] \in Seq(Nodes)
        BY <1>4, <1>5 DEF WalkSender, TypeOK
      <3> QED BY <3>1, SeqTail
    <2>2. WalkTo(m, n)
      BY <1>5 DEF WalkSender
    <2> HIDE DEF n
    <2> QED BY <1>3, <1>5, <2>1, <2>2, TypeReceiver DEF WalkSender, registry, TypeOK
  <1>6. CASE WalkNode(m)
    <2>1. NextNode(Source(m), cur[m]) \in Nodes \cup {NoNode}
      BY <1>4, <1>6, NextNodeTyped DEF WalkNode
    <2>2. WalkTo(m, NextNode(Source(m), cur[m]))
      BY <1>6 DEF WalkNode
    <2> QED BY <1>3, <1>6, <2>1, <2>2, TypeReceiver DEF WalkNode, registry, TypeOK
  <1>7. CASE WalkTake(m)
    <2>1. cur[m] \in Nodes
      <3>1. receivers[Source(m)] \in Seq(Nodes)
        BY <1>4, <1>7 DEF WalkTake, TypeOK
      <3> QED BY <1>7, <3>1 DEF WalkTake, NodesOf, Range
    <2>2. batch[m] \in Seq(Msg) /\ sending[cur[m]] \in Seq(Msg)
      BY <2>1 DEF TypeOK
    <2>3. batch[m] \o sending[cur[m]] \in Seq(Msg) /\ <<>> \in Seq(Msg)
      BY <2>2
    <2>4. batch' = [batch EXCEPT ![m] = @ \o sending[cur[m]]] /\ sending' = [sending EXCEPT ![cur[m]] = <<>>]
          /\ lostTail' = [lostTail EXCEPT ![m] = Splice(m) /\ sending[cur[m]] = <<>>]
      BY <1>7 DEF WalkTake
    <2>5. batch' \in [Modules -> Seq(Msg)] /\ sending' \in [Nodes -> Seq(Msg)]
      BY <2>3, <2>4 DEF TypeOK
    <2>6. lostTail' \in [Modules -> BOOLEAN]
      BY <2>4 DEF TypeOK, Splice
    <2>7. walk' \in [Modules -> Nat] /\ cur' \in [Modules -> Nodes \cup {NoNode}]
      BY <1>3, <1>7 DEF WalkTake
    <2> QED BY <1>7, <2>5, <2>6, <2>7, TypeReceiver DEF WalkTake, registry, TypeOK
  <1>8. CASE WalkEnd(m)
    <2>1. /\ rpc' \in [Modules -> ReceiverStates] /\ rlock' \in [Modules -> Modules \cup {NoThread}]
          /\ \A k \in Modules : rlock'[k] = k <=> rpc'[k] = "walk"
      BY <1>0, <1>8 DEF WalkEnd, TypeOK, ReceiverStates
    <2> QED BY <1>8, <2>1, TypeReceiver DEF WalkEnd, registry, walker, TypeOK
  <1>9. CASE Crash(m)
    BY <1>9, TypeReceiver DEF Crash, registry, walker, TypeOK
  <1>10. CASE Receive(m)
    <2>1. Tail(batch[m]) \in Seq(Msg)
      BY <1>10 DEF Receive, TypeOK
    <2>2. batch' \in [Modules -> Seq(Msg)]
      BY <1>10, <2>1 DEF Receive, TypeOK
    <2>3. rpc' \in [Modules -> ReceiverStates] /\ \A k \in Modules : rpc'[k] = "walk" <=> rpc[k] = "walk"
      BY <1>10 DEF Receive, TypeOK, ReceiverStates
    <2> QED BY <1>10, <2>2, <2>3, TypeReceiver DEF Receive, registry, TypeOK
  <1> QED BY <1>1, <1>2, <1>5, <1>6, <1>7, <1>8, <1>9, <1>10 DEF ReceiverLock, ReceiverWake

-----------------------------------------------------------------------------
-----------------------------------------------------------------------------
(* Steps that leave the lists, the messages and the walks alone.             *)
LEMMA Quiet ==
  ASSUME IInv, UNCHANGED <<receivers, dst, senders, linked, sending, walk, cur, batch>>,
         published' \in Nat, published' >= published,
         Linked \subseteq attached' \X attached',
         doubled \subseteq doubled', failed \subseteq failed',
         \A k \in Modules :
           /\ rpc'[k] = "walk" => rpc[k] = "walk"
           /\ rpc'[k] = "wait" => rpc[k] = "wait"
           /\ rpc'[k] \in {"none", "lock", "wait", "woken", "exited"} =>
                rpc[k] \in {"none", "lock", "wait", "woken", "exited"} \/ batch[k] = <<>>,
         \A s, k \in Modules : <<s, k>> \notin failed' =>
           Adding(s, k)' = Adding(s, k) /\ Leaving(s, k)' = Leaving(s, k)
  PROVE  (ListsInv /\ EntriesInv /\ WalkInv /\ NoLostWakeup /\ BatchInv /\ NumbersInv /\ InOrder)'
  <1> USE DEF IInv
  <1>1. /\ \A s : NodesOf(s)' = NodesOf(s)
        /\ \A s, k : LinkNodes(s, k)' = LinkNodes(s, k)
        /\ Linked' = Linked
    BY DEF NodesOf, LinkNodes, Linked
  <1>2. ListsInv'
    <2>1. (\A s, k \in Modules : Cardinality(LinkNodes(s, k)) = linked[<<s, k>>])'
      BY <1>1 DEF ListsInv
    <2>2. (\A s, k \in Modules : <<s, k>> \notin doubled => linked[<<s, k>>] <= 1)'
      BY DEF ListsInv
    <2> QED BY <1>1, <2>1, <2>2 DEF ListsInv
  <1>8. EntriesInv'
    <2> SUFFICES ASSUME NEW s \in Modules, NEW k \in Modules, <<s, k>> \notin failed'
                 PROVE  (Cardinality(Places(senders[k], s)) + One(Leaving(s, k))
                           = linked[<<s, k>>] + One(Adding(s, k)))'
      BY DEF EntriesInv
    <2>1. Adding(s, k)' = Adding(s, k) /\ Leaving(s, k)' = Leaving(s, k)
      OBVIOUS
    <2>2. One(Adding(s, k))' = One(Adding(s, k)) /\ One(Leaving(s, k))' = One(Leaving(s, k))
      BY <2>1 DEF One
    <2>3. Places(senders[k], s)' = Places(senders[k], s)
      BY DEF Places
    <2> QED BY <2>2, <2>3 DEF EntriesInv
  <1>3. WalkInv'
    <2> SUFFICES ASSUME NEW k \in Modules, (rpc[k] = "walk")' PROVE HasWalked(k)'
      BY DEF WalkInv
    <2>1. HasWalked(k)
      BY DEF WalkInv
    <2>2. \A s : Emptied(s, k) => Emptied(s, k)'
      BY <1>1 DEF Emptied
    <2> QED BY <2>1, <2>2 DEF HasWalked, PassedNodes, Source
  <1>4. NoLostWakeup'
    BY <1>1 DEF NoLostWakeup
  <1>5. BatchInv'
    BY DEF BatchInv
  <1>6. NumbersInv'
    <2>1. 1..published \subseteq 1..published'
      BY DEF TypeOK
    <2> QED BY <1>1, <2>1 DEF NumbersInv
  <1>7. InOrder'
    <2>1. ASSUME NEW k \in Modules, NEW i \in DOMAIN batch[k], NEW j \in DOMAIN batch[k], i < j,
                 \/ batch[k][i].link = batch[k][j].link
                 \/ batch[k][i].src = batch[k][j].src /\ <<batch[k][i].src, k>> \notin doubled'
          PROVE  batch[k][i].id < batch[k][j].id
      BY <2>1 DEF InOrder
    <2>2. ASSUME NEW k \in Modules, NEW s \in Modules, NEW n \in LinkNodes(s, k)
          PROVE  /\ \A i, j \in DOMAIN sending[n] : i < j => sending[n][i].id < sending[n][j].id
                 /\ \A i \in DOMAIN batch[k], j \in DOMAIN sending[n] :
                       batch[k][i].link = n \/ (batch[k][i].src = s /\ <<s, k>> \notin doubled')
                       => batch[k][i].id < sending[n][j].id
      BY DEF InOrder
    <2> QED BY <1>1, <2>1, <2>2 DEF InOrder
  <1> QED BY <1>2, <1>3, <1>4, <1>5, <1>6, <1>7, <1>8

LEMMA DueOther ==
  ASSUME call'.op # "publish"
  PROVE  DueInv'
  BY DEF DueInv

LEMMA DueSame ==
  ASSUME DueInv, UNCHANGED <<call, receivers, dst, sending, batch, published, doubled>>
  PROVE  DueInv'
  BY DEF DueInv, SameLink

\* Steps of a receiver's thread that is not in a call.
LEMMA CallSame ==
  ASSUME CallInv, UNCHANGED <<call, attached, linked, published, history>>,
         \A k \in Modules : rpc[k] = "calling" => rpc'[k] = "calling"
  PROVE  CallInv'
  BY DEF CallInv, Idle, Linked, history

LEMMA ListsSame ==
  ASSUME ListsInv, EntriesInv, UNCHANGED <<call, registry>>
  PROVE  (ListsInv /\ EntriesInv)'
  BY DEF ListsInv, EntriesInv, registry, history, Adding, Leaving, NodesOf, LinkNodes, Linked, Places, One

\* ... that begin a call,
LEMMA CallersKeep ==
  ASSUME IInv, CallersStep
  PROVE  IInv'
  <1> USE DEF IInv
  <1>0. TypeOK' /\ \A m \in Callers : m \notin Modules
    BY TypeCaller, LinkAssumption
  <1>1. ASSUME Idle, call'.op \in {"sender", "unlink", "publish", "kept", "stop", "join"}
        PROVE  \A s, k \in Modules : Adding(s, k)' = Adding(s, k) /\ Leaving(s, k)' = Leaving(s, k)
    BY <1>1, NoCallIs DEF Adding, Leaving
  <1>2. published \in Nat /\ Linked \subseteq attached \X attached
    BY DEF TypeOK, ListsInv
  <1>3. ASSUME NEW s \in Modules, NEW k \in Modules, MayAdd(s, k)
        PROVE  /\ s \in attached /\ k \in attached /\ Idle /\ doubled \subseteq doubled'
               /\ linked[<<s, k>>] = 0 \/ <<s, k>> \in doubled'
    BY <1>3, HasNode DEF MayAdd
  <1>4. ASSUME NEW c \in Callers, NEW s \in Modules, NEW k \in Modules,
               AddLink(c, s, k) \/ AddLinkNoReceiver(c, s, k)
        PROVE  IInv'
    <2>1. /\ call'.by = c /\ call'.op = "sender" /\ call'.src = s /\ call'.sink = k
      BY <1>4, BeginIs DEF AddLink, AddLinkNoReceiver, Ops
    <2>2. /\ s \in attached /\ k \in attached /\ Idle
          /\ linked[<<s, k>>] = 0 \/ <<s, k>> \in doubled'
          /\ UNCHANGED <<attached, receivers, dst, senders, linked, walker, sending, published>>
          /\ doubled \subseteq doubled' /\ failed \subseteq failed'
      BY <1>3, <1>4 DEF AddLink, AddLinkNoReceiver, Fails
    <2>0. \A v, w \in Modules : Adding(v, w)' = Adding(v, w) /\ Leaving(v, w)' = Leaving(v, w)
      BY <1>1, <2>1, <2>2
    <2>3. CallInv'
      BY <1>0, <2>1, <2>2 DEF CallInv
    <2>4. rpc' = rpc \/ (rpc[k] = "none" /\ rpc' = [rpc EXCEPT ![k] = "lock"])
      BY <1>4 DEF AddLink, AddLinkNoReceiver
    <2>5. \A m \in Modules : rpc'[m] = rpc[m] \/ (rpc[m] = "none" /\ rpc'[m] = "lock")
      BY <2>4 DEF TypeOK
    <2>6. (ListsInv /\ EntriesInv /\ WalkInv /\ NoLostWakeup /\ BatchInv /\ NumbersInv /\ InOrder)'
      BY <1>2, <2>0, <2>1, <2>2, <2>5, Quiet DEF walker
    <2> QED BY <1>0, <2>1, <2>3, <2>6, DueOther
  <1>5. ASSUME NEW c \in Callers, NEW s \in Modules, NEW k \in Modules, RemoveLink(c, s, k)
        PROVE  IInv'
    <2>1. /\ call'.by = c /\ call'.op = "unlink" /\ call'.src = s /\ call'.sink = k
      BY <1>5, BeginIs DEF RemoveLink, Ops
    <2>2. /\ s \in attached /\ k \in attached /\ Idle
          /\ UNCHANGED <<registry, walker, sending, published, rpc>>
          /\ s \in Range(senders[k]) \/ LinkNodes(s, k) # {}
      BY <1>5 DEF RemoveLink
    <2>0. \A v, w \in Modules : Adding(v, w)' = Adding(v, w) /\ Leaving(v, w)' = Leaving(v, w)
      BY <1>1, <2>1, <2>2
    <2>4. linked[<<s, k>>] > 0 \/ <<s, k>> \in failed
      <3> SUFFICES ASSUME <<s, k>> \notin failed, s \in Range(senders[k]) PROVE linked[<<s, k>>] > 0
        BY <2>2, HasNode
      <3>1. One(Leaving(s, k)) = 0 /\ One(Adding(s, k)) = 0
        BY <2>2, NoCallIs DEF Leaving, Adding, One
      <3>2. Cardinality(Places(senders[k], s)) + One(Leaving(s, k)) = linked[<<s, k>>] + One(Adding(s, k))
        BY DEF EntriesInv
      <3>3. senders[k] \in Seq(Modules)
        BY DEF TypeOK
      <3>4. Cardinality(Places(senders[k], s)) \in Nat /\ Cardinality(Places(senders[k], s)) # 0
        BY <3>3, PlacesFinite
      <3>5. linked[<<s, k>>] \in Nat
        BY HasNode
      <3> QED BY <3>1, <3>2, <3>4, <3>5
    <2>3. CallInv'
      BY <1>0, <2>1, <2>2, <2>4 DEF CallInv, registry, history
    <2>6. (ListsInv /\ EntriesInv /\ WalkInv /\ NoLostWakeup /\ BatchInv /\ NumbersInv /\ InOrder)'
      BY <1>2, <2>0, <2>1, <2>2, Quiet DEF registry, history, walker
    <2> QED BY <1>0, <2>1, <2>3, <2>6, DueOther
  <1>6. ASSUME NEW t \in Modules \cup Callers, NEW s \in Modules, Publish(t, s), t \in Modules => rpc[t] = "calling"
        PROVE  IInv'
    <2>1. /\ call'.by = t /\ call'.op = "publish" /\ call'.src = s /\ call'.sink = s /\ call'.at = 1
      BY <1>6, BeginIs DEF Publish, Ops
    <2>2. s \in attached /\ Idle /\ UNCHANGED <<registry, walker, sending, rpc>> /\ published' = published + 1
      BY <1>6 DEF Publish
    <2>0. \A v, w \in Modules : Adding(v, w)' = Adding(v, w) /\ Leaving(v, w)' = Leaving(v, w)
      BY <1>1, <2>1, <2>2
    <2>3. CallInv'
      BY <1>2, <1>6, <2>1, <2>2 DEF CallInv, registry, history
    <2>4. published' \in Nat /\ published' >= published
      BY <1>2, <2>2
    <2>5. (ListsInv /\ EntriesInv /\ WalkInv /\ NoLostWakeup /\ BatchInv /\ NumbersInv /\ InOrder)'
      BY <1>2, <2>0, <2>1, <2>2, <2>4, Quiet DEF registry, history, walker
    <2>6. DueInv'
      <3> SUFFICES ASSUME NEW h \in DOMAIN receivers[s], NEW n, n = receivers[s][h]
                   PROVE  /\ \A i \in DOMAIN sending[n] : sending[n][i].id < published'
                          /\ \A i \in DOMAIN batch[dst[n]] : batch[dst[n]][i].id < published'
        BY <2>1, <2>2 DEF DueInv, registry, history, walker
      <3>1. n \in NodesOf(s)
        BY DEF NodesOf, Range
      <3>2. dst[n] \in Modules
        BY <3>1 DEF ListsInv
      <3>3. \A i \in DOMAIN sending[n] : sending[n][i].id \in 1..published
        BY <3>1 DEF NumbersInv
      <3>4. \A i \in DOMAIN batch[dst[n]] : batch[dst[n]][i].id \in 1..published
        BY <3>2 DEF NumbersInv
      <3> QED BY <1>2, <2>2, <3>3, <3>4
    <2> QED BY <1>0, <2>3, <2>5, <2>6
  <1>8. ASSUME NEW c \in Callers, NEW s \in Modules, PublishUnknown(c, s)
        PROVE  IInv'
    <2>1. /\ call'.by = c /\ call'.op = "kept"
      BY <1>8, BeginIs DEF PublishUnknown, Ops
    <2>2. Idle /\ UNCHANGED <<registry, walker, sending, published, rpc>>
      BY <1>8 DEF PublishUnknown
    <2>0. \A v, w \in Modules : Adding(v, w)' = Adding(v, w) /\ Leaving(v, w)' = Leaving(v, w)
      BY <1>1, <2>1, <2>2
    <2>3. CallInv'
      BY <1>0, <2>1 DEF CallInv
    <2>6. (ListsInv /\ EntriesInv /\ WalkInv /\ NoLostWakeup /\ BatchInv /\ NumbersInv /\ InOrder)'
      BY <1>2, <2>0, <2>1, <2>2, Quiet DEF registry, history, walker
    <2> QED BY <1>0, <2>1, <2>3, <2>6, DueOther
  <1>7. ASSUME NEW c \in Callers, NEW m \in Modules, RemoveModule(c, m) PROVE IInv'
    <2>1. /\ call'.by = c /\ call'.op \in {"stop", "join"} /\ call'.src = m /\ call'.sink = m
      BY <1>7, BeginIs DEF RemoveModule, Ops
    <2>2. m \in attached /\ (\A l \in Linked : m # l[1] /\ m # l[2]) /\ Idle
          /\ UNCHANGED <<attached, receivers, dst, senders, linked, history, walker, sending, published, rpc>>
      BY <1>7 DEF RemoveModule
    <2>0. \A v, w \in Modules : Adding(v, w)' = Adding(v, w) /\ Leaving(v, w)' = Leaving(v, w)
      BY <1>1, <2>1, <2>2
    <2>5. Linked' = Linked
      BY <2>2 DEF Linked
    <2>3. CallInv'
      BY <1>0, <2>1, <2>2, <2>5 DEF CallInv
    <2>4. (ListsInv /\ EntriesInv /\ WalkInv /\ NoLostWakeup /\ BatchInv /\ NumbersInv /\ InOrder)'
      BY <1>2, <2>0, <2>1, <2>2, Quiet DEF walker, history
    <2> QED BY <1>0, <2>1, <2>3, <2>4, DueOther
  <1> QED BY <1>4, <1>5, <1>6, <1>7, <1>8 DEF CallersStep

\* ... that go on with one or end it,
LEMMA CallsKeep ==
  ASSUME IInv,
         \/ AddLinkMake \/ AddLinkReady \/ AddLinkNoSender \/ AddLinkUnmade \/ AddLinkNoNode
         \/ RemoveLinkMissing \/ PublishEnd \/ StopReceiver \/ JoinReceiver
  PROVE  IInv'
  <1> USE DEF IInv
  <1>0. TypeOK'
    BY TypeCall DEF CallStep
  <1>1. published \in Nat /\ Linked \subseteq attached \X attached
    BY DEF TypeOK, ListsInv
  <1>2. ~Idle
    BY NoCallIs DEF AddLinkMake, AddLinkReady, AddLinkNoSender, AddLinkUnmade, AddLinkNoNode,
                    RemoveLinkMissing, PublishEnd, StopReceiver, JoinReceiver
  <1>9. /\ call.by \in Modules => call.op = "publish"
        /\ call.op # "kept" => call.src \in attached /\ call.sink \in attached
        /\ call.src \in Modules /\ call.sink \in Modules
    BY <1>2, CallIs DEF CallInv
  <1>3. CASE AddLinkMake \/ AddLinkReady
    <2>1. /\ call.op \in {"make", "ready"} /\ call'.op \in {"ready", "receiver"} /\ ~Idle'
          /\ call'.src = call.src /\ call'.sink = call.sink /\ call'.by = call.by
      BY <1>2, <1>3, GoOnIs DEF AddLinkMake, AddLinkReady, Ops
    <2>2. UNCHANGED <<attached, receivers, dst, senders, linked, history, walker, sending, published, rpc>>
      BY <1>3 DEF AddLinkMake, AddLinkReady
    <2>3. CallInv'
      BY <1>2, <2>1, <2>2 DEF CallInv, history
    <2>4. \A s, k \in Modules : Adding(s, k)' = Adding(s, k) /\ Leaving(s, k)' = Leaving(s, k)
      BY <2>1 DEF Adding, Leaving
    <2>5. (ListsInv /\ EntriesInv /\ WalkInv /\ NoLostWakeup /\ BatchInv /\ NumbersInv /\ InOrder)'
      BY <1>1, <2>2, <2>4, Quiet DEF walker, history
    <2> QED BY <1>0, <2>1, <2>3, <2>5, DueOther
  <1>7. CASE AddLinkNoSender \/ AddLinkUnmade \/ AddLinkNoNode
    <2>1. /\ call.op \in {"sender", "make", "ready", "receiver"}
          /\ \/ Idle' /\ call'.op = "none" /\ call'.by = NoThread
             \/ /\ call'.op \in {"make", "receiver"} /\ ~Idle'
                /\ call'.src = call.src /\ call'.sink = call.sink /\ call'.by = call.by
      BY <1>2, <1>7, GoOnIs, EndIs DEF AddLinkNoSender, AddLinkUnmade, AddLinkNoNode, Ops
    <2>2. /\ UNCHANGED <<attached, receivers, dst, senders, linked, doubled, walker, sending, published, rpc>>
          /\ failed' = failed \cup {<<call.src, call.sink>>}
      BY <1>7 DEF AddLinkNoSender, AddLinkUnmade, AddLinkNoNode, Fails
    <2>3. CallInv'
      BY <1>2, <2>1, <2>2, LinkAssumption DEF CallInv
    <2>4. \A s, k \in Modules : <<s, k>> \notin failed' =>
             Adding(s, k)' = Adding(s, k) /\ Leaving(s, k)' = Leaving(s, k)
      <3> SUFFICES ASSUME NEW s \in Modules, NEW k \in Modules, ~(s = call.src /\ k = call.sink)
                   PROVE  Adding(s, k)' = Adding(s, k) /\ Leaving(s, k)' = Leaving(s, k)
        BY <2>2
      <3>1. ~Adding(s, k) /\ ~Leaving(s, k)
        BY DEF Adding, Leaving
      <3>2. ~Adding(s, k)' /\ ~Leaving(s, k)'
        BY <2>1 DEF Adding, Leaving
      <3> QED BY <3>1, <3>2 DEF Adding, Leaving
    <2>5. (ListsInv /\ EntriesInv /\ WalkInv /\ NoLostWakeup /\ BatchInv /\ NumbersInv /\ InOrder)'
      BY <1>1, <2>2, <2>4, Quiet DEF walker
    <2> QED BY <1>0, <2>1, <2>3, <2>5, DueOther
  <1>8. CASE RemoveLinkMissing
    <2>1. /\ call.op = "free" /\ Idle' /\ call'.op = "none" /\ call'.by = NoThread
      BY <1>8, EndIs DEF RemoveLinkMissing
    <2>2. UNCHANGED <<attached, receivers, dst, senders, history, walker, sending, published, rpc>>
      BY <1>8 DEF RemoveLinkMissing
    <2>3. linked[<<call.src, call.sink>>] \in Nat /\ ~(linked[<<call.src, call.sink>>] > 0)
      BY <1>8, <1>9, HasNode DEF RemoveLinkMissing
    <2>4. linked' = linked
      <3>1. Forget(call.src, call.sink) /\ linked \in [Modules \X Modules -> Nat]
        BY <1>8 DEF RemoveLinkMissing, TypeOK
      <3>2. linked[<<call.src, call.sink>>] = 0
        BY <2>3
      <3>3. linked' = [linked EXCEPT ![<<call.src, call.sink>>] = 0]
        BY <2>3, <3>1 DEF Forget
      <3> QED BY <1>9, <3>1, <3>2, <3>3
    <2>5. <<call.src, call.sink>> \in failed
      BY <2>1, <2>3 DEF CallInv
    <2>6. \A s, k \in Modules : <<s, k>> \notin failed' =>
             Adding(s, k)' = Adding(s, k) /\ Leaving(s, k)' = Leaving(s, k)
      BY <2>1, <2>2, <2>5 DEF Adding, Leaving, history
    <2>7. CallInv'
      BY <2>1, LinkAssumption DEF CallInv
    <2>8. (ListsInv /\ EntriesInv /\ WalkInv /\ NoLostWakeup /\ BatchInv /\ NumbersInv /\ InOrder)'
      BY <1>1, <2>2, <2>4, <2>6, Quiet DEF walker, history
    <2> QED BY <1>0, <2>1, <2>7, <2>8, DueOther
  <1>4. CASE PublishEnd
    <2>1. /\ call.op = "publish" /\ Idle' /\ call'.op = "none" /\ call'.by = NoThread
      BY <1>4, EndIs DEF PublishEnd
    <2>2. UNCHANGED <<registry, walker, sending, published>>
      BY <1>4 DEF PublishEnd
    <2>3. CallInv'
      BY <2>1, LinkAssumption DEF CallInv
    <2>4. rpc' = IF call.by \in Modules THEN [rpc EXCEPT ![call.by] = "receive"] ELSE rpc
      BY <1>4 DEF PublishEnd
    <2>5. \A k \in Modules : rpc'[k] = rpc[k] \/ rpc'[k] = "receive"
      BY <2>4 DEF TypeOK
    <2>6. \A s, k \in Modules : Adding(s, k)' = Adding(s, k) /\ Leaving(s, k)' = Leaving(s, k)
      BY <2>1 DEF Adding, Leaving
    <2>7. (ListsInv /\ EntriesInv /\ WalkInv /\ NoLostWakeup /\ BatchInv /\ NumbersInv /\ InOrder)'
      BY <1>1, <2>2, <2>5, <2>6, Quiet DEF registry, history, walker
    <2> QED BY <1>0, <2>1, <2>3, <2>7, DueOther
  <1>5. CASE StopReceiver
    <2>1. /\ call.op = "stop" /\ ~Idle' /\ call'.op = "join" /\ call'.by = call.by
          /\ call'.src = call.src /\ call'.sink = call.sink
      BY <1>2, <1>5, GoOnIs DEF StopReceiver, Ops
    <2>2. UNCHANGED <<registry, walker, sending, published>>
      BY <1>5 DEF StopReceiver
    <2>3. \A k \in Modules : rpc'[k] = rpc[k] \/ (rpc[k] = "wait" /\ rpc'[k] = "woken")
      BY <1>5, PostIs DEF StopReceiver
    <2>7. Linked' = Linked
      BY <2>2 DEF Linked, registry
    <2>4. CallInv'
      BY <1>2, <2>1, <2>2, <2>7 DEF CallInv, registry, history
    <2>5. \A s, k \in Modules : Adding(s, k)' = Adding(s, k) /\ Leaving(s, k)' = Leaving(s, k)
      BY <2>1 DEF Adding, Leaving
    <2>6. (ListsInv /\ EntriesInv /\ WalkInv /\ NoLostWakeup /\ BatchInv /\ NumbersInv /\ InOrder)'
      BY <1>1, <2>2, <2>3, <2>5, Quiet DEF registry, history, walker
    <2> QED BY <1>0, <2>1, <2>4, <2>6, DueOther
  <1>6. CASE JoinReceiver
    <2>1. /\ call.op = "join" /\ Idle' /\ call'.op = "none" /\ call'.by = NoThread
      BY <1>6, EndIs DEF JoinReceiver
    <2>2. UNCHANGED <<receivers, dst, senders, linked, history, walker, sending, published>>
      BY <1>6 DEF JoinReceiver
    <2>3. CallInv'
      BY <2>1, LinkAssumption DEF CallInv
    <2>4. rpc' = [rpc EXCEPT ![call.sink] = "none"] /\ rpc[call.sink] \in {"none", "exited"}
          /\ attached' = attached \ {call.sink}
      BY <1>6 DEF JoinReceiver
    <2>5. \A k \in Modules : rpc'[k] = rpc[k] \/ (rpc[k] \in {"none", "exited"} /\ rpc'[k] = "none")
      BY <2>4 DEF TypeOK
    <2>6. Linked \subseteq attached' \X attached'
      BY <1>1, <2>1, <2>4 DEF CallInv
    <2>7. \A s, k \in Modules : Adding(s, k)' = Adding(s, k) /\ Leaving(s, k)' = Leaving(s, k)
      BY <2>1 DEF Adding, Leaving
    <2>8. (ListsInv /\ EntriesInv /\ WalkInv /\ NoLostWakeup /\ BatchInv /\ NumbersInv /\ InOrder)'
      BY <1>1, <2>2, <2>5, <2>6, <2>7, Quiet DEF walker, history
    <2> QED BY <1>0, <2>1, <2>3, <2>8, DueOther
  <1> QED BY <1>3, <1>4, <1>5, <1>6, <1>7, <1>8

\* ... and of the receiver threads.
LEMMA ThreadsKeep ==
  ASSUME IInv, NEW m \in Modules,
         ReceiverStop(m) \/ SpuriousWakeup(m) \/ CallPublish(m) \/ ReceiveReturn(m) \/ BatchDone(m) \/ Crash(m)
  PROVE  IInv'
  <1> USE DEF IInv
  <1>0. TypeOK'
    BY TypeThread
  <1>1. published \in Nat /\ Linked \subseteq attached \X attached
    BY DEF TypeOK, ListsInv
  <1>2. UNCHANGED <<registry, walker, call, sending, published>>
    BY DEF ReceiverStop, SpuriousWakeup, CallPublish, ReceiveReturn, BatchDone, Crash
  <1>3. \A k \in Modules : \/ rpc'[k] = rpc[k]
                           \/ rpc[k] = "lock" /\ rpc'[k] = "exited"
                           \/ rpc[k] = "wait" /\ rpc'[k] = "woken"
                           \/ rpc[k] = "receive" /\ rpc'[k] \in {"calling", "batch"}
                           \/ rpc[k] = "batch" /\ batch[k] = <<>> /\ rpc'[k] = "lock"
    <2>1. CASE ReceiverStop(m)
      BY <2>1 DEF ReceiverStop, TypeOK
    <2>2. CASE SpuriousWakeup(m)
      BY <2>2 DEF SpuriousWakeup, TypeOK
    <2>3. CASE CallPublish(m)
      BY <2>3 DEF CallPublish, TypeOK
    <2>4. CASE ReceiveReturn(m)
      BY <2>4 DEF ReceiveReturn, TypeOK
    <2>5. CASE BatchDone(m)
      BY <2>5 DEF BatchDone, TypeOK
    <2>6. CASE Crash(m)
      BY <2>6 DEF Crash
    <2> QED BY <2>1, <2>2, <2>3, <2>4, <2>5, <2>6
  <1>4. CallInv'
    BY <1>2, <1>3, CallSame DEF registry
  <1>5. \A s, k \in Modules : Adding(s, k)' = Adding(s, k) /\ Leaving(s, k)' = Leaving(s, k)
    BY <1>2 DEF Adding, Leaving
  <1>6. (ListsInv /\ EntriesInv /\ WalkInv /\ NoLostWakeup /\ BatchInv /\ NumbersInv /\ InOrder)'
    BY <1>1, <1>2, <1>3, <1>5, Quiet DEF registry, history, walker
  <1>7. DueInv'
    BY <1>2, DueSame DEF registry, history, walker
  <1> QED BY <1>0, <1>4, <1>6, <1>7
-----------------------------------------------------------------------------
(* The walk of a receiver's thread.                                          *)
LEMMA LockKeeps ==
  ASSUME IInv, NEW m \in Modules, ReceiverLock(m) \/ ReceiverWake(m)
  PROVE  IInv'
  <1> USE DEF IInv
  <1>0. TypeOK'
    BY TypeThread
  <1>1. StartWalk(m) /\ rpc[m] \in {"lock", "woken"}
    BY DEF ReceiverLock, ReceiverWake
  <1>2. UNCHANGED <<registry, call, sending, batch, published>>
    BY <1>1 DEF StartWalk
  <1>3. /\ \A k \in Modules : rpc'[k] = IF k = m THEN "walk" ELSE rpc[k]
        /\ \A k \in Modules : walk'[k] = IF k = m THEN 1 ELSE walk[k]
        /\ \A k \in Modules : cur'[k] = IF k = m THEN NoNode ELSE cur[k]
    BY <1>1 DEF StartWalk, TypeOK
  <1>4. CallInv'
    BY <1>1, <1>2, <1>3, CallSame DEF registry, history
  <1>5. (ListsInv /\ EntriesInv)'
    BY <1>2, ListsSame
  <1>6. WalkInv'
    <2> SUFFICES ASSUME NEW k \in Modules, rpc'[k] = "walk" PROVE HasWalked(k)'
      BY DEF WalkInv
    <2>1. CASE k = m
      <3>1. walk'[k] = 1 /\ cur'[k] = NoNode
        BY <1>3, <2>1
      <3>2. senders'[k] \in Seq(Modules) /\ receivers' \in [Modules -> Seq(Nodes)]
        BY <1>0 DEF TypeOK
      <3>3. \A i \in DOMAIN senders'[k] : ~(i < 1)
        BY <3>2
      <3>4. 1 \in DOMAIN senders'[k] => Source(k)' \in Modules
        BY <3>1, <3>2 DEF Source
      <3>5. PassedNodes(Source(k), k, NoNode)' \/ 1 \notin DOMAIN senders'[k]
        BY <3>2, <3>4, LinkAssumption DEF PassedNodes
      <3> QED BY <3>1, <3>3, <3>5 DEF HasWalked, PassedNodes
    <2>2. CASE k # m
      <3>1. HasWalked(k) /\ walk'[k] = walk[k] /\ cur'[k] = cur[k]
        BY <1>3, <2>2 DEF WalkInv
      <3> QED BY <1>2, <3>1 DEF HasWalked, PassedNodes, Emptied, LinkNodes, NodesOf, Source, registry, history
    <2> QED BY <2>1, <2>2
  <1>7. NoLostWakeup'
    BY <1>2, <1>3 DEF NoLostWakeup, LinkNodes, NodesOf, registry, history
  <1>8. BatchInv'
    BY <1>2, <1>3 DEF BatchInv
  <1>9. NumbersInv' /\ InOrder'
    BY <1>2 DEF NumbersInv, InOrder, LinkNodes, NodesOf, registry, history
  <1>10. DueInv'
    BY <1>2, DueSame DEF registry, history
  <1> QED BY <1>0, <1>4, <1>5, <1>6, <1>7, <1>8, <1>9, <1>10

\* The walk goes on to node n: it is right about what it leaves behind.
LEMMA WalkGoesOn ==
  ASSUME IInv, NEW m \in Modules, NEW n, NEW s \in Modules, s = Source(m), Walking(m), WalkTo(m, n),
         UNCHANGED <<registry, rpc>>,
         \A o \in Nodes : sending'[o] = sending[o] \/ sending'[o] = <<>>,
         n = NoNode => Emptied(s, m)',
         n # NoNode => PassedNodes(s, m, n)
  PROVE  WalkInv'
  <1> USE DEF IInv
  <1>1. \A k \in Modules : /\ walk'[k] = IF k = m /\ n = NoNode THEN walk[k] + 1 ELSE walk[k]
                           /\ cur'[k] = IF k = m THEN n ELSE cur[k]
    BY DEF WalkTo, TypeOK
  <1>2. ASSUME NEW t \in Modules, NEW k \in Modules, Emptied(t, k) PROVE Emptied(t, k)'
    <2>1. receivers[t] \in Seq(Nodes)
      BY DEF TypeOK
    <2>2. \A o \in NodesOf(t) : o \in Nodes
      BY <2>1 DEF LinkNodes, NodesOf, Range
    <2> QED BY <1>2, <2>2 DEF Emptied, LinkNodes, NodesOf, registry, history
  <1>3. \A k \in Modules : \A i \in DOMAIN senders[k] : senders[k][i] \in Modules /\ i \in Nat
    BY ListsTyped
  <1> SUFFICES ASSUME NEW k \in Modules, rpc'[k] = "walk" PROVE HasWalked(k)'
    BY DEF WalkInv
  <1>4. HasWalked(k) /\ walk[k] \in Nat
    BY DEF WalkInv, TypeOK
  <1>7. ASSUME NEW i \in DOMAIN senders[k], i < walk[k] PROVE Emptied(senders[k][i], k)'
    <2>1. PICK t \in Modules : t = senders[k][i]
      BY <1>3
    <2>2. Emptied(t, k)
      BY <1>4, <1>7, <2>1 DEF HasWalked
    <2>3. Emptied(t, k)' /\ senders'[k][i] = t
      BY <1>2, <2>1, <2>2 DEF registry, history
    <2> QED BY <2>3 DEF Emptied, LinkNodes, NodesOf
  <1>5. CASE k # m
    <2>1. walk'[k] = walk[k] /\ cur'[k] = cur[k] /\ UNCHANGED <<senders, receivers, dst>>
      BY <1>1, <1>5 DEF registry, history
    <2>2. \A i \in DOMAIN senders'[k] : i < walk'[k] => Emptied(senders[k][i], k)'
      BY <1>7, <2>1
    <2> QED BY <1>4, <2>1, <2>2 DEF HasWalked, PassedNodes, Source
  <1>6. CASE k = m
    <2>1. walk[k] \in DOMAIN senders[k] /\ senders[k][walk[k]] = s
      <3>1. walk[m] > 0
        BY <1>4, <1>6 DEF HasWalked
      <3>2. walk[m] \in DOMAIN senders[m]
        BY <3>1, SourceTyped
      <3> QED BY <1>6, <3>2 DEF Source
    <2>2. UNCHANGED <<senders, receivers, dst>>
      BY DEF registry, history
    <2>3. CASE n = NoNode
      <3>1. walk'[k] = walk[k] + 1 /\ cur'[k] = NoNode
        BY <1>1, <1>6, <2>3
      <3>2. \A i \in DOMAIN senders[k] : i < walk'[k] => i < walk[k] \/ i = walk[k]
        <4>1. \A i \in DOMAIN senders[k] : i \in Nat
          BY <1>3
        <4> QED BY <1>4, <3>1, <4>1
      <3>3. ASSUME NEW i \in DOMAIN senders'[k], i < walk'[k] PROVE Emptied(senders[k][i], k)'
        <4>1. CASE i < walk[k]
          BY <1>7, <2>2, <4>1
        <4>2. CASE i = walk[k]
          <5>1. Emptied(s, k)' /\ senders'[k][i] = s
            BY <1>6, <2>1, <2>2, <2>3, <4>2
          <5> QED BY <5>1 DEF Emptied, LinkNodes, NodesOf
        <4> QED BY <2>2, <3>2, <3>3, <4>1, <4>2
      <3>4. walk'[k] \in DOMAIN senders[k] => PassedNodes(Source(k)', k, NoNode)
        <4> SUFFICES ASSUME walk'[k] \in DOMAIN senders[k] PROVE PassedNodes(Source(k)', k, NoNode)
          OBVIOUS
        <4>1. Source(k)' \in Modules
          BY <1>3, <2>2 DEF Source
        <4>2. receivers[Source(k)'] \in Seq(Nodes)
          BY <4>1 DEF TypeOK
        <4> QED BY <4>2, LinkAssumption DEF PassedNodes
      <3> QED BY <1>4, <2>2, <3>1, <3>3, <3>4 DEF HasWalked, PassedNodes
    <2>4. CASE n # NoNode
      <3>1. walk'[k] = walk[k] /\ cur'[k] = n
        BY <1>1, <1>6, <2>4
      <3>2. \A i \in DOMAIN senders'[k] : i < walk'[k] => Emptied(senders[k][i], k)'
        BY <1>7, <2>2, <3>1
      <3> QED BY <1>4, <1>6, <2>1, <2>2, <2>4, <3>1, <3>2 DEF HasWalked, PassedNodes, Source
    <2> QED BY <2>3, <2>4
  <1> QED BY <1>5, <1>6

LEMMA WalkSenderKeeps ==
  ASSUME IInv, NEW m \in Modules, WalkSender(m)
  PROVE  IInv'
  <1> USE DEF IInv
  <1>0. TypeOK'
    BY TypeThread
  <1>s. PICK s \in Modules : s = Source(m)
    BY SourceTyped DEF WalkSender, WalkInv, HasWalked, Walking
  <1>n. PICK n : n = IF receivers[s] = <<>> THEN NoNode ELSE Head(receivers[s])
    OBVIOUS
  <1>1. Walking(m) /\ WalkTo(m, n) /\ UNCHANGED <<registry, call, sending, rpc, batch, published>>
    BY <1>s, <1>n DEF WalkSender
  <1>2. s \in Modules /\ receivers[s] \in Seq(Nodes)
    BY DEF TypeOK
  <1>3. n = NoNode => Emptied(s, m)'
    <2>1. ASSUME receivers[s] # <<>> PROVE n \in Nodes
      BY <1>2, <1>n, <2>1, SeqTail
    <2>2. n = NoNode => NodesOf(s) = {}
      BY <1>2, <2>1, LinkAssumption DEF LinkNodes, NodesOf, Range
    <2> QED BY <1>1, <2>2 DEF Emptied, LinkNodes, NodesOf, registry, history
  <1>4. n # NoNode => PassedNodes(s, m, n)
    <2> SUFFICES ASSUME n # NoNode, NEW i \in DOMAIN receivers[s], NEW j \in DOMAIN receivers[s],
                        i < j, receivers[s][j] = n
                 PROVE  FALSE
      BY DEF PassedNodes
    <2>1. n = receivers[s][1] /\ 1 \in DOMAIN receivers[s] /\ DOMAIN receivers[s] = 1..Len(receivers[s])
      BY <1>2, <1>n, SeqTail
    <2>2. j = 1
      BY <1>2, <2>1 DEF ListsInv, IsInjective
    <2> QED BY <1>2, <2>1, <2>2
  <1>5. WalkInv'
    BY <1>s, <1>1, <1>3, <1>4, WalkGoesOn
  <1> QED BY <1>0, <1>1, <1>5, CallSame, ListsSame, DueSame
          DEF NoLostWakeup, BatchInv, NumbersInv, InOrder, LinkNodes, NodesOf, registry, history

LEMMA WalkNodeKeeps ==
  ASSUME IInv, NEW m \in Modules, WalkNode(m)
  PROVE  IInv'
  <1> USE DEF IInv
  <1>0. TypeOK'
    BY TypeThread
  <1>s. PICK s \in Modules : s = Source(m)
    BY SourceTyped DEF WalkNode, WalkInv, HasWalked, Walking
  <1>n. PICK n : n = NextNode(s, cur[m])
    OBVIOUS
  <1>1. /\ Walking(m) /\ cur[m] \in NodesOf(s) /\ dst[cur[m]] # m
        /\ WalkTo(m, n) /\ UNCHANGED <<registry, call, sending, rpc, batch, published>>
    BY <1>s, <1>n DEF WalkNode
  <1>2. receivers[s] \in Seq(Nodes) /\ walk[m] \in DOMAIN senders[m]
    BY <1>1, SourceTyped DEF WalkInv, HasWalked, Walking, TypeOK
  <1>3. PassedNodes(s, m, cur[m])
    BY <1>s, <1>1, <1>2 DEF WalkInv, HasWalked, Walking
  <1>4. PICK at \in DOMAIN receivers[s] : cur[m] = receivers[s][at]
    BY <1>1 DEF LinkNodes, NodesOf, Range
  <1>5. n = IF at < Len(receivers[s]) THEN receivers[s][at + 1] ELSE NoNode
    BY <1>2, <1>4, <1>n, NextNodeIs DEF ListsInv
  <1>6. DOMAIN receivers[s] = 1..Len(receivers[s]) /\ Len(receivers[s]) \in Nat
    BY <1>2
  <1>7. \A i \in 1..at : dst[receivers[s][i]] # m
    BY <1>1, <1>3, <1>4, <1>6 DEF PassedNodes
  <1>8. n = NoNode => Emptied(s, m)'
    <2> SUFFICES ASSUME n = NoNode, NEW o \in NodesOf(s) PROVE dst[o] # m
      BY <1>1 DEF Emptied, LinkNodes, NodesOf, registry, history
    <2>1. at = Len(receivers[s])
      BY <1>2, <1>4, <1>5, <1>6, LinkAssumption
    <2> QED BY <1>6, <1>7, <2>1 DEF LinkNodes, NodesOf, Range
  <1>9. n # NoNode => PassedNodes(s, m, n)
    <2> SUFFICES ASSUME n # NoNode, NEW i \in DOMAIN receivers[s], NEW j \in DOMAIN receivers[s],
                        i < j, receivers[s][j] = n
                 PROVE  dst[receivers[s][i]] # m
      BY DEF PassedNodes
    <2>1. n = receivers[s][at + 1] /\ at + 1 \in DOMAIN receivers[s]
      BY <1>4, <1>5, <1>6
    <2>2. j = at + 1
      BY <1>2, <2>1 DEF ListsInv, IsInjective
    <2>3. i \in 1..at
      BY <1>4, <1>6, <2>2
    <2> QED BY <1>7, <2>3
  <1>10. WalkInv'
    BY <1>s, <1>1, <1>8, <1>9, WalkGoesOn
  <1> QED BY <1>0, <1>1, <1>10, CallSame, ListsSame, DueSame
          DEF NoLostWakeup, BatchInv, NumbersInv, InOrder, LinkNodes, NodesOf, registry, history

LEMMA WalkTakeKeeps ==
  ASSUME IInv, NEW m \in Modules, WalkTake(m)
  PROVE  IInv'
  <1> USE DEF IInv
  <1>0. TypeOK'
    BY TypeThread
  <1>s. PICK s \in Modules : s = Source(m)
    BY SourceTyped DEF WalkTake, WalkInv, HasWalked, Walking
  <1>n. PICK n : n = cur[m]
    OBVIOUS
  <1>1. /\ Walking(m) /\ n \in NodesOf(s) /\ dst[n] = m /\ rpc[m] = "walk"
        /\ WalkTo(m, NoNode) /\ UNCHANGED <<registry, call, rpc, published>>
    BY <1>s, <1>n DEF WalkTake, Walking
  <1>2. n \in Nodes
    BY <1>1, ListsTyped
  <1>3. /\ \A k \in Modules : batch'[k] = IF k = m THEN batch[m] \o sending[n] ELSE batch[k]
        /\ \A o \in Nodes : sending'[o] = IF o = n THEN <<>> ELSE sending[o]
    BY <1>n DEF WalkTake, TypeOK
  <1> DEFINE b == batch[m]
             q == sending[n]
             c == batch'[m]
  <1>4. /\ c = b \o q /\ DOMAIN c = 1..Len(b) + Len(q) /\ Len(b) \in Nat /\ Len(q) \in Nat
        /\ DOMAIN b = 1..Len(b) /\ DOMAIN q = 1..Len(q)
        /\ \A i \in 1..Len(b) : c[i] = b[i]
        /\ \A i \in 1..Len(q) : c[Len(b) + i] = q[i]
    <2>1. b \in Seq(Msg) /\ q \in Seq(Msg)
      BY <1>2 DEF TypeOK
    <2>2. c = b \o q
      BY <1>3
    <2> HIDE DEF b, q, c
    <2> QED BY <2>1, <2>2, SeqConcat
  <1> HIDE DEF b, q, c
  <1>5. \A i \in DOMAIN c : \/ i \in DOMAIN b /\ c[i] = b[i]
                            \/ i > Len(b) /\ i - Len(b) \in DOMAIN q /\ c[i] = q[i - Len(b)]
    <2> SUFFICES ASSUME NEW i \in DOMAIN c, i \notin DOMAIN b
                 PROVE  i > Len(b) /\ i - Len(b) \in DOMAIN q /\ c[i] = q[i - Len(b)]
      BY <1>4
    <2>1. i > Len(b) /\ i - Len(b) \in 1..Len(q) /\ Len(b) + (i - Len(b)) = i
      BY <1>4
    <2> QED BY <1>4, <2>1
  <1>6. \A i \in DOMAIN q : q[i].src = s /\ q[i].link = n /\ q[i].id \in 1..published
    BY <1>1 DEF NumbersInv, q
  <1>14. n \in LinkNodes(s, m)
    BY <1>1 DEF LinkNodes
  <1>7. WalkInv'
    <2>1. Emptied(s, m)'
      <3> SUFFICES ASSUME <<s, m>> \notin doubled, NEW o \in NodesOf(s), dst[o] = m
                   PROVE  sending'[o] = <<>>
        BY <1>1 DEF Emptied, LinkNodes, NodesOf, registry, history
      <3>1. o = n
        BY <1>1, Alone
      <3> QED BY <1>2, <1>3, <3>1
    <2> QED BY <1>s, <1>1, <1>3, <2>1, WalkGoesOn
  <1>8. NoLostWakeup'
    <2> SUFFICES ASSUME NEW k \in Modules, rpc[k] = "wait", NEW t \in Range(senders[k]),
                        <<t, k>> \notin doubled, NEW o \in LinkNodes(t, k)
                 PROVE  sending'[o] = <<>>
      BY <1>1 DEF NoLostWakeup, LinkNodes, NodesOf, registry, history
    <2>1. t \in Modules
      BY ListsTyped DEF Range
    <2>2. o \in Nodes /\ sending[o] = <<>>
      BY <2>1, ListsTyped DEF NoLostWakeup, LinkNodes
    <2> QED BY <1>3, <2>2
  <1>9. BatchInv'
    BY <1>1, <1>3 DEF BatchInv
  <1>10. NumbersInv'
    <2>1. ASSUME NEW t \in Modules, NEW o \in NodesOf(t), NEW i \in DOMAIN sending'[o]
          PROVE  sending'[o][i].src = t /\ sending'[o][i].link = o /\ sending'[o][i].id \in 1..published
      <3>1. o \in Nodes
        BY ListsTyped
      <3>2. o # n
        BY <1>3, <2>1, <3>1
      <3> QED BY <1>3, <3>1, <3>2 DEF NumbersInv
    <2>2. ASSUME NEW k \in Modules, NEW i \in DOMAIN batch'[k]
          PROVE  batch'[k][i].id \in 1..published /\ dst[batch'[k][i].link] = k
      <3>1. CASE k = m
        BY <1>1, <1>5, <1>6, <2>2, <3>1 DEF NumbersInv, c, b
      <3>2. CASE k # m
        BY <1>3, <3>2 DEF NumbersInv
      <3> QED BY <3>1, <3>2
    <2>3. \A o \in Nodes : sending'[o] # <<>> => \E t \in Modules : o \in NodesOf(t)
      BY <1>3 DEF NumbersInv
    <2> QED BY <1>1, <2>1, <2>2, <2>3 DEF NumbersInv, NodesOf, registry, history
  <1>11. DueInv'
    <2> SUFFICES ASSUME call.op = "publish", NEW h \in DOMAIN receivers[call.src], h >= call.at,
                        NEW o, o = receivers[call.src][h]
                 PROVE  /\ \A i \in DOMAIN sending'[o] : sending'[o][i].id < published
                        /\ \A i \in DOMAIN batch'[dst[o]] :
                             SameLink(batch'[dst[o]][i], o, call.src, dst[o]) => batch'[dst[o]][i].id < published
      BY <1>1 DEF DueInv, SameLink, registry, history
    <2>1. call.src \in Modules
      BY CallIs, NoCallIs
    <2>2. o \in NodesOf(call.src) /\ o \in Nodes /\ dst[o] \in Modules
      BY <2>1, ListsTyped DEF ListsInv
    <2>3. /\ \A i \in DOMAIN sending[o] : sending[o][i].id < published
          /\ \A i \in DOMAIN batch[dst[o]] :
               SameLink(batch[dst[o]][i], o, call.src, dst[o]) => batch[dst[o]][i].id < published
      BY DEF DueInv
    <2>4. \A i \in DOMAIN sending'[o] : sending'[o][i].id < published
      BY <1>3, <2>2, <2>3
    <2>5. ASSUME dst[o] = m, NEW i \in DOMAIN c, SameLink(c[i], o, call.src, m) PROVE c[i].id < published
      <3>1. CASE i \in DOMAIN b /\ c[i] = b[i]
        BY <2>3, <2>5, <3>1 DEF b
      <3>2. CASE i - Len(b) \in DOMAIN q /\ c[i] = q[i - Len(b)]
        <4>1. c[i].link = n /\ c[i].src = s
          BY <1>6, <3>2
        <4>2. o = n
          <5>1. CASE call.src = s /\ <<s, m>> \notin doubled
            BY <1>1, <2>2, <2>5, <5>1, Alone
          <5> QED BY <2>5, <4>1, <5>1 DEF SameLink
        <4> QED BY <2>3, <3>2, <4>2 DEF q
      <3> QED BY <1>5, <3>1, <3>2
    <2>6. \A i \in DOMAIN batch'[dst[o]] :
             SameLink(batch'[dst[o]][i], o, call.src, dst[o]) => batch'[dst[o]][i].id < published
      <3>1. CASE dst[o] = m
        BY <2>5, <3>1 DEF c
      <3>2. CASE dst[o] # m
        BY <1>3, <2>2, <2>3, <3>2
      <3> QED BY <3>1, <3>2
    <2> QED BY <2>4, <2>6
  <1>12. InOrder'
    <2>1. ASSUME NEW k \in Modules, NEW i \in DOMAIN batch'[k], NEW j \in DOMAIN batch'[k], i < j,
                 \/ batch'[k][i].link = batch'[k][j].link
                 \/ batch'[k][i].src = batch'[k][j].src /\ <<batch'[k][i].src, k>> \notin doubled
          PROVE  batch'[k][i].id < batch'[k][j].id
      <3>1. CASE k # m
        BY <1>3, <2>1, <3>1 DEF InOrder
      <3>2. CASE k = m
        <4>0. batch'[k] = c
          BY <3>2 DEF c
        <4>1. /\ i \in DOMAIN c /\ j \in DOMAIN c
              /\ c[i].link = c[j].link \/ (c[i].src = c[j].src /\ <<c[i].src, m>> \notin doubled)
          BY <2>1, <3>2, <4>0
        <4>2. CASE i \in DOMAIN b /\ j \in DOMAIN b
          <5>1. c[i] = b[i] /\ c[j] = b[j]
            BY <1>4, <4>2
          <5>2. b[i].id < b[j].id
            BY <2>1, <4>1, <4>2, <5>1 DEF InOrder, b
          <5> QED BY <4>0, <5>1, <5>2
        <4>3. CASE i \in DOMAIN b /\ j > Len(b) /\ j - Len(b) \in DOMAIN q /\ c[j] = q[j - Len(b)]
          <5>0. c[i] = b[i] /\ c[j].link = n /\ c[j].src = s
            BY <1>4, <1>6, <4>3
          <5>1. b[i].link = n \/ (b[i].src = s /\ <<s, m>> \notin doubled)
            BY <4>1, <5>0
          <5>2. b[i].id < q[j - Len(b)].id
            BY <1>14, <4>3, <5>1 DEF InOrder, b, q
          <5> QED BY <1>4, <3>2, <4>3, <5>2 DEF c
        <4>4. CASE /\ i > Len(b) /\ i - Len(b) \in DOMAIN q /\ c[i] = q[i - Len(b)]
                   /\ j > Len(b) /\ j - Len(b) \in DOMAIN q /\ c[j] = q[j - Len(b)]
          <5>1. i - Len(b) < j - Len(b)
            BY <1>4, <2>1, <4>1
          <5>2. q[i - Len(b)].id < q[j - Len(b)].id
            BY <1>14, <4>4, <5>1 DEF InOrder, q
          <5> QED BY <3>2, <4>4, <5>2 DEF c
        <4>5. ~(i > Len(b) /\ j \in DOMAIN b)
          BY <1>4, <2>1, <4>1
        <4> QED BY <1>5, <4>1, <4>2, <4>3, <4>4, <4>5
      <3> QED BY <3>1, <3>2
    <2>2. ASSUME NEW k \in Modules, NEW t \in Modules, NEW o \in LinkNodes(t, k)
          PROVE  /\ \A i, j \in DOMAIN sending'[o] : i < j => sending'[o][i].id < sending'[o][j].id
                 /\ \A i \in DOMAIN batch'[k], j \in DOMAIN sending'[o] :
                       batch'[k][i].link = o \/ (batch'[k][i].src = t /\ <<t, k>> \notin doubled)
                       => batch'[k][i].id < sending'[o][j].id
      <3>1. o \in Nodes /\ o \in NodesOf(t) /\ dst[o] = k
        BY ListsTyped DEF LinkNodes
      <3>2. CASE o = n
        BY <1>3, <3>1, <3>2
      <3>3. CASE o # n
        <4>1. sending'[o] = sending[o]
          BY <1>3, <3>1, <3>3
        <4>2. ASSUME NEW i \in DOMAIN batch'[k], NEW j \in DOMAIN sending[o],
                     batch'[k][i].link = o \/ (batch'[k][i].src = t /\ <<t, k>> \notin doubled)
              PROVE  batch'[k][i].id < sending[o][j].id
          <5>1. CASE k # m
            BY <1>3, <4>2, <5>1 DEF InOrder
          <5>2. CASE k = m /\ i \in DOMAIN b /\ c[i] = b[i]
            <6>1. batch'[k][i] = batch[k][i] /\ i \in DOMAIN batch[k]
              BY <5>2 DEF c, b
            <6> QED BY <4>2, <6>1 DEF InOrder
          <5>3. CASE k = m /\ i - Len(b) \in DOMAIN q /\ c[i] = q[i - Len(b)]
            <6>1. batch'[k][i].link = n /\ batch'[k][i].src = s
              BY <1>6, <5>3 DEF c
            <6>2. t = s /\ <<s, m>> \notin doubled
              BY <3>3, <4>2, <5>3, <6>1
            <6> QED BY <1>1, <3>1, <3>3, <5>3, <6>2, Alone
          <5> QED BY <1>5, <4>2, <5>1, <5>2, <5>3 DEF c
        <4> QED BY <4>1, <4>2 DEF InOrder
      <3> QED BY <3>2, <3>3
    <2>3. UNCHANGED <<receivers, dst, doubled>>
      BY <1>1 DEF registry, history
    <2> QED BY <2>1, <2>2, <2>3 DEF InOrder, LinkNodes, NodesOf
  <1>13. CallInv' /\ (ListsInv /\ EntriesInv)'
    BY <1>1, CallSame, ListsSame DEF registry, history
  <1> QED BY <1>0, <1>7, <1>8, <1>9, <1>10, <1>11, <1>12, <1>13

LEMMA WalkEndKeeps ==
  ASSUME IInv, NEW m \in Modules, WalkEnd(m)
  PROVE  IInv'
  <1> USE DEF IInv
  <1>0. TypeOK'
    BY TypeThread
  <1>1. /\ rpc[m] = "walk" /\ walk[m] > Len(senders[m])
        /\ UNCHANGED <<registry, walker, call, sending, published>>
    BY DEF WalkEnd
  <1>2. \A k \in Modules : rpc'[k] = IF k # m THEN rpc[k] ELSE
             IF batch[m] # <<>> THEN "batch" ELSE IF toContinue[m] THEN "wait" ELSE "exited"
    BY DEF WalkEnd, TypeOK
  <1>3. CallInv' /\ (ListsInv /\ EntriesInv)' /\ DueInv'
    BY <1>1, <1>2, CallSame, ListsSame, DueSame DEF registry, history, walker
  <1>4. WalkInv'
    <2> SUFFICES ASSUME NEW k \in Modules, rpc'[k] = "walk" PROVE HasWalked(k)'
      BY DEF WalkInv
    <2>1. HasWalked(k)
      BY <1>2 DEF WalkInv
    <2> QED BY <1>1, <2>1 DEF HasWalked, PassedNodes, Emptied, LinkNodes, NodesOf, Source, registry, history, walker
  <1>5. NoLostWakeup'
    <2> SUFFICES ASSUME NEW k \in Modules, rpc'[k] = "wait", NEW s \in Range(senders[k]),
                        <<s, k>> \notin doubled, NEW n \in LinkNodes(s, k)
                 PROVE  sending[n] = <<>>
      BY <1>1 DEF NoLostWakeup, LinkNodes, NodesOf, registry, history
    <2>1. CASE k # m
      BY <1>2, <2>1 DEF NoLostWakeup
    <2>2. CASE k = m
      <3>1. PICK i \in DOMAIN senders[m] : s = senders[m][i]
        BY <2>2 DEF Range
      <3>2. i < walk[m]
        BY <1>1, ListsTyped DEF TypeOK
      <3>3. Emptied(s, m)
        BY <1>1, <3>1, <3>2 DEF WalkInv, HasWalked
      <3> QED BY <2>2, <3>3 DEF Emptied, LinkNodes
    <2> QED BY <2>1, <2>2
  <1>6. BatchInv'
    BY <1>1, <1>2 DEF BatchInv, walker
  <1>7. NumbersInv' /\ InOrder'
    BY <1>1 DEF NumbersInv, InOrder, LinkNodes, NodesOf, registry, history, walker
  <1> QED BY <1>0, <1>3, <1>4, <1>5, <1>6, <1>7

LEMMA ReceiveKeeps ==
  ASSUME IInv, NEW m \in Modules, Receive(m)
  PROVE  IInv'
  <1> USE DEF IInv
  <1>0. TypeOK'
    BY TypeThread
  <1>1. /\ rpc[m] = "batch" /\ batch[m] # <<>>
        /\ UNCHANGED <<registry, call, sending, walk, cur, published>>
    BY DEF Receive
  <1>2. /\ \A k \in Modules : rpc'[k] = IF k = m THEN "receive" ELSE rpc[k]
        /\ \A k \in Modules : batch'[k] = IF k = m THEN Tail(batch[m]) ELSE batch[k]
    BY DEF Receive, TypeOK
  <1>3. CallInv' /\ (ListsInv /\ EntriesInv)'
    BY <1>1, <1>2, CallSame, ListsSame DEF registry, history
  <1>4. WalkInv'
    <2> SUFFICES ASSUME NEW k \in Modules, rpc'[k] = "walk" PROVE HasWalked(k)'
      BY DEF WalkInv
    <2>1. HasWalked(k)
      BY <1>2 DEF WalkInv
    <2> QED BY <1>1, <2>1 DEF HasWalked, PassedNodes, Emptied, LinkNodes, NodesOf, Source, registry, history
  <1>5. NoLostWakeup'
    BY <1>1, <1>2 DEF NoLostWakeup, LinkNodes, NodesOf, registry, history
  <1>6. BatchInv'
    BY <1>2 DEF BatchInv
  <1>7. ASSUME NEW k \in Modules
        PROVE  \E d \in {0, 1} : \A j \in DOMAIN batch'[k] :
                  j + d \in DOMAIN batch[k] /\ batch'[k][j] = batch[k][j + d]
    <2>1. CASE k = m
      <3>1. batch[m] \in Seq(Msg)
        BY DEF TypeOK
      <3>2. /\ DOMAIN batch[m] = 1..Len(batch[m]) /\ DOMAIN Tail(batch[m]) = 1..Len(batch[m]) - 1
            /\ Len(batch[m]) \in Nat
            /\ \A j \in 1..Len(batch[m]) - 1 : Tail(batch[m])[j] = batch[m][j + 1]
        BY <1>1, <3>1, SeqTail
      <3>3. \A j \in DOMAIN batch'[k] : j + 1 \in DOMAIN batch[k] /\ batch'[k][j] = batch[k][j + 1]
        <4>1. batch'[k] = Tail(batch[m])
          BY <1>2, <2>1
        <4> QED BY <2>1, <3>2, <4>1
      <3> QED BY <3>3
    <2>2. CASE k # m
      <3>1. batch'[k] = batch[k]
        BY <1>2, <2>2
      <3>2. \A j \in DOMAIN batch[k] : j + 0 = j
        BY ListsTyped
      <3>3. \A j \in DOMAIN batch'[k] : j + 0 \in DOMAIN batch[k] /\ batch'[k][j] = batch[k][j + 0]
        BY <3>1, <3>2
      <3> QED BY <3>3
    <2> QED BY <2>1, <2>2
  <1>8. \A k \in Modules : \A i \in DOMAIN batch'[k] : \E j \in DOMAIN batch[k] : batch'[k][i] = batch[k][j]
    BY <1>7
  <1>9. NumbersInv'
    BY <1>1, <1>8 DEF NumbersInv, LinkNodes, NodesOf, registry, history
  <1>10. DueInv'
    <2>0. UNCHANGED <<call, receivers, dst, published, doubled>>
      BY <1>1 DEF registry, history
    <2> SUFFICES ASSUME call.op = "publish", NEW h \in DOMAIN receivers[call.src], h >= call.at,
                        NEW o, o = receivers[call.src][h]
                 PROVE  /\ \A i \in DOMAIN sending'[o] : sending'[o][i].id < published
                        /\ \A i \in DOMAIN batch'[dst[o]] :
                             SameLink(batch'[dst[o]][i], o, call.src, dst[o]) => batch'[dst[o]][i].id < published
      BY <2>0 DEF DueInv, SameLink
    <2>1. call.src \in Modules
      BY CallIs, NoCallIs
    <2>2. dst[o] \in Modules
      BY <2>1, ListsTyped DEF ListsInv
    <2>3. /\ \A i \in DOMAIN sending[o] : sending[o][i].id < published
          /\ \A i \in DOMAIN batch[dst[o]] :
               SameLink(batch[dst[o]][i], o, call.src, dst[o]) => batch[dst[o]][i].id < published
      BY DEF DueInv
    <2> QED BY <1>1, <1>8, <2>2, <2>3
  <1>11. InOrder'
    <2>0. UNCHANGED <<receivers, dst, doubled, sending>>
      BY <1>1 DEF registry, history
    <2>1. ASSUME NEW k \in Modules, NEW i \in DOMAIN batch'[k], NEW j \in DOMAIN batch'[k], i < j,
                 \/ batch'[k][i].link = batch'[k][j].link
                 \/ batch'[k][i].src = batch'[k][j].src /\ <<batch'[k][i].src, k>> \notin doubled
          PROVE  batch'[k][i].id < batch'[k][j].id
      <3>1. PICK d \in {0, 1} :
                                /\ i + d \in DOMAIN batch[k] /\ batch'[k][i] = batch[k][i + d]
                                /\ j + d \in DOMAIN batch[k] /\ batch'[k][j] = batch[k][j + d]
        BY <1>7
      <3>2. i \in Nat /\ j \in Nat
        <4>1. batch'[k] \in Seq(Msg)
          BY <1>0 DEF TypeOK
        <4> QED BY <2>1, <4>1
      <3>3. i + d < j + d
        BY <2>1, <3>2
      <3> QED BY <2>1, <3>1, <3>3 DEF InOrder
    <2>2. ASSUME NEW k \in Modules, NEW s \in Modules, NEW n \in LinkNodes(s, k),
                 NEW i \in DOMAIN batch'[k], NEW j \in DOMAIN sending[n],
                 batch'[k][i].link = n \/ (batch'[k][i].src = s /\ <<s, k>> \notin doubled)
          PROVE  batch'[k][i].id < sending[n][j].id
      <3>1. PICK h \in DOMAIN batch[k] : batch'[k][i] = batch[k][h]
        BY <1>8
      <3> QED BY <2>2, <3>1 DEF InOrder
    <2>3. \A k, s \in Modules : \A n \in LinkNodes(s, k) :
             \A i, j \in DOMAIN sending[n] : i < j => sending[n][i].id < sending[n][j].id
      BY DEF InOrder
    <2> QED BY <2>0, <2>1, <2>2, <2>3 DEF InOrder, LinkNodes, NodesOf
  <1> QED BY <1>0, <1>3, <1>4, <1>5, <1>6, <1>9, <1>10, <1>11
-----------------------------------------------------------------------------
(* The steps of a call that change the lists.                                *)
LEMMA NodesSame ==
  ASSUME ListsInv, UNCHANGED <<attached, receivers, dst, linked, doubled>>
  PROVE  ListsInv'
  BY DEF ListsInv, NodesOf, LinkNodes, Linked

LEMMA MessagesSame ==
  ASSUME NumbersInv, InOrder, UNCHANGED <<receivers, dst, doubled, sending, batch, published>>
  PROVE  (NumbersInv /\ InOrder)'
  BY DEF NumbersInv, InOrder, NodesOf, LinkNodes

\* What a call changes in what EntriesInv counts.
LEMMA NotEnds ==
  ASSUME call.op \notin {"make", "ready", "receiver", "free"}
  PROVE  \A s, k : One(Adding(s, k)) = 0 /\ One(Leaving(s, k)) = 0
  BY DEF One, Adding, Leaving

LEMMA AddLinkSenderKeeps ==
  ASSUME IInv, AddLinkSender
  PROVE  IInv'
  <1> USE DEF IInv
  <1>0. TypeOK'
    BY TypeCall DEF CallStep
  <1>1. ~Idle /\ call.op = "sender"
    BY NoCallIs DEF AddLinkSender
  <1>2. PICK s \in Modules, k \in Modules : s = call.src /\ k = call.sink
    BY <1>1, CallIs
  <1>3. /\ call'.op \in {"make", "receiver"} /\ ~Idle' /\ call'.by = call.by
        /\ call'.src = s /\ call'.sink = k
    BY <1>1, <1>2, GoOnIs DEF AddLinkSender, Ops
  <1>4. UNCHANGED <<attached, receivers, dst, linked, doubled, failed, walk, cur, batch, sending, rpc, published>>
    BY DEF AddLinkSender, walker, history
  <1>5. \A m \in Modules : senders'[m] = IF m = k THEN Append(senders[k], s) ELSE senders[m]
    BY <1>2 DEF AddLinkSender, TypeOK
  <1>6. linked[<<s, k>>] = 0 \/ <<s, k>> \in doubled
    BY <1>1, <1>2 DEF CallInv
  <1>7. <<s, k>> \notin doubled => \A n \in NodesOf(s) : dst[n] # k
    <2> SUFFICES ASSUME <<s, k>> \notin doubled, NEW n \in NodesOf(s), dst[n] = k PROVE FALSE
      OBVIOUS
    <2>1. linked[<<s, k>>] > 0
      BY HasNode
    <2> QED BY <1>6, <2>1
  <1>8. senders[k] \in Seq(Modules)
    BY DEF TypeOK
  <1>9. CallInv'
    BY <1>1, <1>2, <1>3, <1>4 DEF CallInv
  <1>14. ListsInv'
    BY <1>4, NodesSame
  <1>10. EntriesInv'
    <2> SUFFICES ASSUME NEW t \in Modules, NEW m \in Modules, <<t, m>> \notin failed
                 PROVE  Cardinality(Places(senders'[m], t)) + One(Leaving(t, m)') = linked[<<t, m>>] + One(Adding(t, m)')
      BY <1>4 DEF EntriesInv, Places, One
    <2>1. Cardinality(Places(senders[m], t)) = linked[<<t, m>>]
      <3>1. One(Adding(t, m)) = 0 /\ One(Leaving(t, m)) = 0
        BY <1>1, NotEnds
      <3>2. Cardinality(Places(senders[m], t)) \in Nat
        BY PlacesFinite DEF TypeOK
      <3>3. linked[<<t, m>>] \in Nat
        BY HasNode
      <3> QED BY <3>1, <3>2, <3>3 DEF EntriesInv
    <2>2. One(Leaving(t, m)') = 0 /\ One(Adding(t, m)') = IF t = s /\ m = k THEN 1 ELSE 0
      BY <1>3 DEF One, Adding, Leaving
    <2>3. linked[<<t, m>>] \in Nat
      BY HasNode
    <2>4. CASE m = k
      <3>1. Cardinality(Places(senders'[m], t)) = Cardinality(Places(senders[m], t)) + One(t = s)
        BY <1>5, <1>8, <2>4, CountAppend
      <3>2. One(t = s) = IF t = s THEN 1 ELSE 0
        BY DEF One
      <3> QED BY <2>1, <2>2, <2>3, <2>4, <3>1, <3>2
    <2>5. CASE m # k
      BY <1>5, <2>1, <2>2, <2>3, <2>5
    <2> QED BY <2>4, <2>5
  <1>11. WalkInv'
    <2> SUFFICES ASSUME NEW m \in Modules, rpc[m] = "walk" PROVE HasWalked(m)'
      BY <1>4 DEF WalkInv
    <2>1. HasWalked(m)
      BY DEF WalkInv
    <2>2. CASE m # k
      BY <1>4, <1>5, <2>1, <2>2 DEF HasWalked, PassedNodes, Emptied, NodesOf, Source
    <2>3. CASE m = k
      <3>1. /\ senders'[k] = Append(senders[k], s) /\ Len(senders[k]) \in Nat /\ DOMAIN senders[k] = 1..Len(senders[k])
            /\ DOMAIN senders'[k] = 1..Len(senders[k]) + 1
            /\ \A i \in 1..Len(senders[k]) : senders'[k][i] = senders[k][i]
            /\ senders'[k][Len(senders[k]) + 1] = s
        <4>1. senders'[k] = Append(senders[k], s)
          BY <1>5
        <4> QED BY <1>8, <4>1, SeqAppend
      <3>2. ASSUME NEW i \in DOMAIN senders'[k], i < walk'[k] PROVE Emptied(senders[k][i], k)'
        <4>1. CASE i \in DOMAIN senders[k]
          <5>1. Emptied(senders[k][i], k) /\ senders'[k][i] = senders[k][i]
            BY <1>4, <2>1, <2>3, <3>1, <3>2, <4>1 DEF HasWalked
          <5> QED BY <1>4, <5>1 DEF Emptied, NodesOf
        <4>2. CASE i = Len(senders[k]) + 1
          <5>1. senders'[k][i] = s
            BY <3>1, <4>2
          <5> QED BY <1>4, <1>7, <5>1 DEF Emptied, NodesOf
        <4> QED BY <3>1, <3>2, <4>1, <4>2
      <3>3. ASSUME walk'[k] \in DOMAIN senders'[k] PROVE PassedNodes(Source(k), k, cur[k])'
        <4>1. CASE walk[k] \in DOMAIN senders[k]
          <5>1. senders'[k][walk[k]] = senders[k][walk[k]]
            BY <3>1, <4>1
          <5> QED BY <1>4, <2>1, <2>3, <4>1, <5>1 DEF HasWalked, PassedNodes, Source
        <4>2. CASE walk[k] \notin DOMAIN senders[k]
          <5>1. cur[k] = NoNode
            BY <2>1, <2>3, <4>2 DEF HasWalked
          <5>2. Source(k)' \in Modules
            <6>1. senders'[k] \in Seq(Modules)
              BY <1>0 DEF TypeOK
            <6> QED BY <3>3, <6>1 DEF Source
          <5>3. \A j \in DOMAIN receivers[Source(k)'] : receivers[Source(k)'][j] \in Nodes
            BY <5>2, ListsTyped
          <5> QED BY <1>4, <5>1, <5>3, LinkAssumption DEF PassedNodes
        <4> QED BY <4>1, <4>2
      <3>4. cur[k] # NoNode => walk[k] \in DOMAIN senders'[k]
        BY <2>1, <2>3, <3>1 DEF HasWalked
      <3> QED BY <1>4, <2>1, <2>3, <3>2, <3>3, <3>4 DEF HasWalked
    <2> QED BY <2>2, <2>3
  <1>12. NoLostWakeup'
    <2> SUFFICES ASSUME NEW m \in Modules, rpc[m] = "wait", NEW t \in Range(senders'[m]), <<t, m>> \notin doubled,
                        NEW n \in LinkNodes(t, m)
                 PROVE  sending[n] = <<>>
      BY <1>4 DEF NoLostWakeup, LinkNodes, NodesOf
    <2>1. t \in Range(senders[m]) \/ (t = s /\ m = k)
      BY <1>5, <1>8, RangeAppend
    <2> QED BY <1>7, <2>1 DEF NoLostWakeup, LinkNodes
  <1>13. BatchInv' /\ (NumbersInv /\ InOrder)'
    BY <1>4, MessagesSame DEF BatchInv
  <1> QED BY <1>0, <1>3, <1>9, <1>10, <1>11, <1>12, <1>13, <1>14, DueOther

LEMMA RemoveLinkSenderKeeps ==
  ASSUME IInv, RemoveLinkSender
  PROVE  IInv'
  <1> USE DEF IInv
  <1>0. TypeOK'
    BY TypeCall DEF CallStep
  <1>1. ~Idle /\ call.op = "unlink"
    BY NoCallIs DEF RemoveLinkSender
  <1>2. PICK s \in Modules, k \in Modules : s = call.src /\ k = call.sink
    BY <1>1, CallIs
  <1>3. /\ call'.op = "free" /\ ~Idle' /\ call'.by = call.by
        /\ call'.src = s /\ call'.sink = k
    BY <1>1, <1>2, UnlinkIs DEF RemoveLinkSender
  <1>4. UNCHANGED <<attached, receivers, dst, linked, doubled, failed, walk, cur, batch, sending, rpc, published>>
    BY DEF RemoveLinkSender, walker, history
  <1>5. \A m \in Modules : senders'[m] = IF m = k THEN RemoveFirst(senders[k], s) ELSE senders[m]
    BY <1>2 DEF RemoveLinkSender, TypeOK
  <1>6. rpc[k] # "walk"
    BY <1>2, LinkAssumption DEF RemoveLinkSender, ReceiverLockFree, TypeOK
  <1>7. senders[k] \in Seq(Modules)
    BY DEF TypeOK
  <1>8. \A t \in Range(RemoveFirst(senders[k], s)) : t \in Range(senders[k])
    <2>1. CASE s \in Range(senders[k])
      <3>1. PICK d \in DOMAIN senders[k] : RestOf(RemoveFirst(senders[k], s), senders[k], d)
        BY <1>7, <2>1, RemoveFirstRest
      <3> QED BY <3>1 DEF RestOf, Range
    <2>2. CASE s \notin Range(senders[k])
      <3>1. \A i \in 1..Len(senders[k]) : senders[k][i] # s
        BY <1>7, <2>2 DEF Range
      <3> QED BY <3>1 DEF RemoveFirst
    <2> QED BY <2>1, <2>2
  <1>9. CallInv'
    BY <1>1, <1>2, <1>3, <1>4 DEF CallInv
  <1>14. ListsInv'
    BY <1>4, NodesSame
  <1>10. EntriesInv'
    <2> SUFFICES ASSUME NEW t \in Modules, NEW m \in Modules, <<t, m>> \notin failed
                 PROVE  Cardinality(Places(senders'[m], t)) + One(Leaving(t, m)') = linked[<<t, m>>] + One(Adding(t, m)')
      BY <1>4 DEF EntriesInv, Places, One
    <2>1. Cardinality(Places(senders[m], t)) = linked[<<t, m>>] /\ linked[<<t, m>>] \in Nat
      <3>1. One(Adding(t, m)) = 0 /\ One(Leaving(t, m)) = 0
        BY <1>1, NotEnds
      <3>2. Cardinality(Places(senders[m], t)) \in Nat
        BY PlacesFinite DEF TypeOK
      <3>3. linked[<<t, m>>] \in Nat
        BY HasNode
      <3> QED BY <3>1, <3>2, <3>3 DEF EntriesInv
    <2>2. One(Adding(t, m)') = 0 /\ One(Leaving(t, m)') = IF t = s /\ m = k THEN 1 ELSE 0
      BY <1>3 DEF One, Adding, Leaving
    <2>3. CASE m # k
      BY <1>5, <2>1, <2>2, <2>3
    <2>4. CASE m = k /\ s \in Range(senders[k])
      <3>1. Cardinality(Places(senders'[m], t)) + One(t = s) = Cardinality(Places(senders[m], t))
        BY <1>5, <1>7, <2>4, CountRemove
      <3>2. One(t = s) = IF t = s THEN 1 ELSE 0
        BY DEF One
      <3> QED BY <2>1, <2>2, <2>4, <3>1, <3>2
    <2>5. CASE m = k /\ s \notin Range(senders[k])
      <3>1. \A i \in 1..Len(senders[k]) : senders[k][i] # s
        BY <1>7, <2>5 DEF Range
      <3>2. RemoveFirst(senders[k], s) = senders[k]
        BY <3>1 DEF RemoveFirst
      <3>3. t # s
        <4> SUFFICES ASSUME t = s PROVE FALSE
          OBVIOUS
        <4>1. linked[<<s, k>>] > 0
          BY <1>1, <1>2, <2>5 DEF CallInv
        <4>2. Cardinality(Places(senders[k], s)) = 0
          BY <1>7, <2>5, PlacesFinite
        <4> QED BY <2>1, <2>5, <4>1, <4>2
      <3> QED BY <1>5, <2>1, <2>2, <2>5, <3>2, <3>3
    <2> QED BY <2>3, <2>4, <2>5
  <1>11. WalkInv'
    <2> SUFFICES ASSUME NEW m \in Modules, rpc[m] = "walk" PROVE HasWalked(m)'
      BY <1>4 DEF WalkInv
    <2>1. HasWalked(m) /\ senders'[m] = senders[m]
      BY <1>5, <1>6 DEF WalkInv
    <2> QED BY <1>4, <2>1 DEF HasWalked, PassedNodes, Emptied, NodesOf, Source
  <1>12. NoLostWakeup'
    <2> SUFFICES ASSUME NEW m \in Modules, rpc[m] = "wait", NEW t \in Range(senders'[m]), <<t, m>> \notin doubled,
                        NEW n \in LinkNodes(t, m)
                 PROVE  sending[n] = <<>>
      BY <1>4 DEF NoLostWakeup, LinkNodes, NodesOf
    <2>1. t \in Range(senders[m])
      BY <1>5, <1>8
    <2> QED BY <2>1 DEF NoLostWakeup
  <1>13. BatchInv' /\ (NumbersInv /\ InOrder)'
    BY <1>4, MessagesSame DEF BatchInv
  <1> QED BY <1>0, <1>3, <1>9, <1>10, <1>11, <1>12, <1>13, <1>14, DueOther

\* The node AddLinkReceiver appends is in no list, no walk is at it and no message
\* taken names it.
LEMMA NewNode ==
  ASSUME IInv, AddLinkReceiver, NEW s, NEW k, s = call.src, k = call.sink
  PROVE  \E n \in Nodes :
           /\ \A t \in Modules : n \notin NodesOf(t) /\ cur[t] # n
           /\ \A t \in Modules : \A i \in DOMAIN batch[t] : batch[t][i].link # n
           /\ \A t \in Modules : receivers'[t] = IF t = s THEN Append(receivers[s], n) ELSE receivers[t]
           /\ \A t \in Modules : NodesOf(t)' = IF t = s THEN NodesOf(s) \cup {n} ELSE NodesOf(t)
           /\ \A o \in Nodes : dst'[o] = IF o = n THEN k ELSE dst[o]
           /\ \A o \in Nodes : sending'[o] = IF o = n THEN <<>> ELSE sending[o]
  <1> USE DEF IInv
  <1> DEFINE n == CHOOSE free \in Nodes : free \notin InUse
  <1>1. n \in Nodes /\ n \notin InUse
    BY DEF AddLinkReceiver
  <1>5. /\ receivers' = [receivers EXCEPT ![s] = Append(@, n)]
        /\ dst' = [dst EXCEPT ![n] = k]
        /\ sending' = [sending EXCEPT ![n] = <<>>]
    BY DEF AddLinkReceiver
  <1> HIDE DEF n
  <1>2. /\ \A t \in Modules : n \notin NodesOf(t) /\ cur[t] # n
        /\ \A t \in Modules : \A i \in DOMAIN batch[t] : batch[t][i].link # n
    BY <1>1, FreeNode
  <1>3. \A t \in Modules : receivers'[t] = IF t = s THEN Append(receivers[s], n) ELSE receivers[t]
    BY <1>5 DEF TypeOK
  <1>4. ASSUME NEW t \in Modules
        PROVE  NodesOf(t)' = IF t = s THEN NodesOf(s) \cup {n} ELSE NodesOf(t)
    <2>1. receivers[t] \in Seq(Nodes)
      BY DEF TypeOK
    <2>2. Range(Append(receivers[t], n)) = Range(receivers[t]) \cup {n}
      BY <1>1, <2>1, RangeAppend
    <2> QED BY <1>3, <2>2 DEF NodesOf
  <1>6. /\ \A o \in Nodes : dst'[o] = IF o = n THEN k ELSE dst[o]
        /\ \A o \in Nodes : sending'[o] = IF o = n THEN <<>> ELSE sending[o]
    BY <1>5 DEF TypeOK
  <1> QED BY <1>1, <1>2, <1>3, <1>4, <1>6

LEMMA AddLinkReceiverKeeps ==
  ASSUME IInv, AddLinkReceiver
  PROVE  IInv'
  <1> USE DEF IInv
  <1>0. TypeOK'
    BY TypeCall DEF CallStep
  <1>1. ~Idle /\ call.op = "receiver"
    BY NoCallIs DEF AddLinkReceiver
  <1>2. PICK s \in Modules, k \in Modules : s = call.src /\ k = call.sink
    BY <1>1, CallIs
  <1>3. Idle' /\ call'.op = "none" /\ call'.by = NoThread
    BY EndIs DEF AddLinkReceiver
  <1>4. UNCHANGED <<attached, senders, walk, cur, batch, rpc, published, doubled, failed>>
    BY DEF AddLinkReceiver, walker, history
  <1>l. /\ linked'[<<s, k>>] = linked[<<s, k>>] + 1 /\ linked[<<s, k>>] \in Nat
        /\ \A l \in Modules \X Modules : l # <<s, k>> => linked'[l] = linked[l]
    BY <1>2, OneMore DEF AddLinkReceiver
  <1>5. PICK n \in Nodes :
           /\ \A t \in Modules : n \notin NodesOf(t) /\ cur[t] # n
           /\ \A t \in Modules : \A i \in DOMAIN batch[t] : batch[t][i].link # n
           /\ \A t \in Modules : receivers'[t] = IF t = s THEN Append(receivers[s], n) ELSE receivers[t]
           /\ \A t \in Modules : NodesOf(t)' = IF t = s THEN NodesOf(s) \cup {n} ELSE NodesOf(t)
           /\ \A o \in Nodes : dst'[o] = IF o = n THEN k ELSE dst[o]
           /\ \A o \in Nodes : sending'[o] = IF o = n THEN <<>> ELSE sending[o]
    BY <1>2, NewNode
  <1>6. /\ linked[<<s, k>>] = 0 \/ <<s, k>> \in doubled
        /\ s \in attached /\ k \in attached
    BY <1>1, <1>2 DEF CallInv
  <1>7. \A t \in Modules : \A o \in NodesOf(t) : o \in Nodes /\ o # n /\ dst'[o] = dst[o] /\ sending'[o] = sending[o]
    BY <1>5, ListsTyped
  <1>8. ASSUME NEW t \in Modules, NEW m \in Modules
        PROVE  LinkNodes(t, m)' = IF t = s /\ m = k THEN LinkNodes(s, k) \cup {n} ELSE LinkNodes(t, m)
    <2>1. LinkNodes(t, m)' = {o \in NodesOf(t)' : dst'[o] = m}
      BY DEF LinkNodes
    <2> QED BY <1>5, <1>7, <2>1 DEF LinkNodes
  <1>9. CallInv'
    BY <1>3, LinkAssumption DEF CallInv
  <1>10. ListsInv'
    <2>1. (Linked \subseteq attached \X attached)'
      <3> SUFFICES ASSUME NEW l \in Modules \X Modules, linked'[l] > 0 PROVE l \in attached \X attached
        BY <1>4 DEF Linked
      <3>1. CASE l = <<s, k>>
        BY <1>6, <3>1
      <3>2. CASE l # <<s, k>>
        BY <1>l, <3>2 DEF ListsInv, Linked
      <3> QED BY <3>1, <3>2
    <2>2. ASSUME NEW t \in Modules PROVE IsInjective(receivers'[t])
      <3>1. n \notin Range(receivers[t]) /\ receivers[t] \in Seq(Nodes) /\ IsInjective(receivers[t])
        BY <1>5 DEF NodesOf, ListsInv, TypeOK
      <3> QED BY <1>5, <3>1, RangeAppend
    <2>3. ASSUME NEW t \in Modules, NEW m \in Modules
          PROVE  Cardinality(LinkNodes(t, m)') = linked'[<<t, m>>]
      <3>1. Cardinality(LinkNodes(t, m)) = linked[<<t, m>>]
        BY DEF ListsInv
      <3>2. CASE t = s /\ m = k
        <4>1. n \notin LinkNodes(s, k) /\ IsFiniteSet(LinkNodes(s, k))
          BY <1>5, NodesFinite DEF LinkNodes
        <4>2. Cardinality(LinkNodes(s, k) \cup {n}) = Cardinality(LinkNodes(s, k)) + 1
          BY <4>1, FS_AddElement
        <4> QED BY <1>l, <1>8, <3>1, <3>2, <4>2
      <3>3. CASE ~(t = s /\ m = k)
        <4>1. <<t, m>> # <<s, k>> /\ <<t, m>> \in Modules \X Modules
          BY <3>3
        <4>2. linked'[<<t, m>>] = linked[<<t, m>>]
          BY <1>l, <4>1
        <4>3. LinkNodes(t, m)' = LinkNodes(t, m)
          BY <1>8, <3>3
        <4> QED BY <3>1, <4>2, <4>3
      <3> QED BY <3>2, <3>3
    <2>4. ASSUME NEW t \in Modules, NEW m \in Modules, <<t, m>> \notin doubled
          PROVE  linked'[<<t, m>>] <= 1
      <3>1. CASE <<t, m>> = <<s, k>>
        BY <1>l, <1>6, <2>4, <3>1
      <3>2. CASE <<t, m>> # <<s, k>>
        BY <1>l, <2>4, <3>2 DEF ListsInv
      <3> QED BY <3>1, <3>2
    <2>5. ASSUME NEW t \in Modules, NEW o \in NodesOf(t)' PROVE dst'[o] \in Modules
      BY <1>5, <1>7 DEF ListsInv
    <2>6. ASSUME NEW t \in Modules, NEW r \in Modules, NEW o \in NodesOf(t)', o \in NodesOf(r)' PROVE t = r
      BY <1>5, <2>6 DEF ListsInv
    <2> QED BY <1>4, <2>1, <2>2, <2>3, <2>4, <2>5, <2>6 DEF ListsInv
  <1>18. EntriesInv'
    <2> SUFFICES ASSUME NEW t \in Modules, NEW m \in Modules, <<t, m>> \notin failed
                 PROVE  Cardinality(Places(senders[m], t)) + One(Leaving(t, m)') = linked'[<<t, m>>] + One(Adding(t, m)')
      BY <1>4 DEF EntriesInv, Places, One
    <2>1. One(Adding(t, m)') = 0 /\ One(Leaving(t, m)') = 0
      BY <1>3 DEF One, Adding, Leaving
    <2>2. One(Leaving(t, m)) = 0 /\ One(Adding(t, m)) = IF t = s /\ m = k THEN 1 ELSE 0
      BY <1>1, <1>2 DEF One, Adding, Leaving
    <2>3. Cardinality(Places(senders[m], t)) + One(Leaving(t, m)) = linked[<<t, m>>] + One(Adding(t, m))
      BY DEF EntriesInv
    <2>4. /\ Cardinality(Places(senders[m], t)) \in Nat
          /\ linked[<<t, m>>] \in Nat
      BY PlacesFinite, HasNode DEF TypeOK
    <2>5. linked'[<<t, m>>] = IF t = s /\ m = k THEN linked[<<t, m>>] + 1 ELSE linked[<<t, m>>]
      BY <1>l
    <2> QED BY <2>1, <2>2, <2>3, <2>4, <2>5
  <1>11. ASSUME NEW t \in Modules, NEW m, Emptied(t, m) PROVE Emptied(t, m)'
    BY <1>4, <1>5, <1>7, <1>11 DEF Emptied
  <1>12. WalkInv'
    <2> SUFFICES ASSUME NEW m \in Modules, rpc[m] = "walk" PROVE HasWalked(m)'
      BY <1>4 DEF WalkInv
    <2>1. HasWalked(m)
      BY DEF WalkInv
    <2>2. ASSUME NEW i \in DOMAIN senders[m], i < walk[m] PROVE Emptied(senders[m][i], m)'
      <3>1. PICK t \in Modules : t = senders[m][i]
        BY ListsTyped
      <3>2. Emptied(t, m)' /\ t = senders'[m][i]
        BY <1>4, <1>11, <2>1, <2>2, <3>1 DEF HasWalked
      <3> QED BY <3>2 DEF Emptied, NodesOf
    <2>3. ASSUME walk[m] \in DOMAIN senders[m] PROVE PassedNodes(Source(m), m, cur[m])'
      <3>1. PICK t \in Modules : t = Source(m) /\ t = Source(m)'
        BY <1>4, <2>3, ListsTyped DEF Source
      <3>2. PassedNodes(t, m, cur[m])
        BY <2>1, <2>3, <3>1 DEF HasWalked
      <3>3. \A i \in DOMAIN receivers[t] : receivers[t][i] \in Nodes /\ dst'[receivers[t][i]] = dst[receivers[t][i]]
        BY <1>7, ListsTyped
      <3>4. PassedNodes(t, m, cur[m])'
        <4>1. CASE t # s
          BY <1>4, <1>5, <3>2, <3>3, <4>1 DEF PassedNodes
        <4>2. CASE t = s
          <5>1. /\ DOMAIN receivers[t] = 1..Len(receivers[t]) /\ Len(receivers[t]) \in Nat
                /\ DOMAIN receivers'[t] = 1..Len(receivers[t]) + 1
                /\ \A i \in 1..Len(receivers[t]) : receivers'[t][i] = receivers[t][i]
                /\ receivers'[t][Len(receivers[t]) + 1] = n
            <6>1. receivers'[t] = Append(receivers[t], n) /\ receivers[t] \in Seq(Nodes)
              BY <1>5, <4>2 DEF TypeOK
            <6> QED BY <6>1, SeqAppend
          <5> SUFFICES ASSUME NEW i \in DOMAIN receivers'[t], NEW j \in DOMAIN receivers'[t], i < j,
                              receivers'[t][j] = cur[m]
                       PROVE  dst'[receivers'[t][i]] # m
            BY <1>4 DEF PassedNodes
          <5>2. j \in DOMAIN receivers[t] /\ i \in DOMAIN receivers[t]
            BY <1>5, <5>1
          <5> QED BY <3>2, <3>3, <5>1, <5>2 DEF PassedNodes
        <4> QED BY <4>1, <4>2
      <3> QED BY <3>1, <3>4 DEF PassedNodes
    <2> QED BY <1>4, <2>1, <2>2, <2>3 DEF HasWalked
  <1>15. \A t, m \in Modules : \A o \in LinkNodes(t, m)' :
            sending'[o] = <<>> \/ (o \in LinkNodes(t, m) /\ sending'[o] = sending[o])
    <2> SUFFICES ASSUME NEW t \in Modules, NEW m \in Modules, NEW o \in LinkNodes(t, m)', o # n
                 PROVE  o \in LinkNodes(t, m) /\ sending'[o] = sending[o]
      BY <1>5
    <2>1. o \in LinkNodes(t, m)
      BY <1>8
    <2> QED BY <1>7, <2>1 DEF LinkNodes
  <1>13. NoLostWakeup'
    <2> SUFFICES ASSUME NEW m \in Modules, rpc[m] = "wait", NEW t \in Range(senders[m]), <<t, m>> \notin doubled,
                        NEW o \in LinkNodes(t, m)'
                 PROVE  sending'[o] = <<>>
      BY <1>4 DEF NoLostWakeup
    <2>1. t \in Modules
      BY ListsTyped DEF Range
    <2> QED BY <1>15, <2>1 DEF NoLostWakeup
  <1>14. BatchInv'
    BY <1>4 DEF BatchInv
  <1>16. NumbersInv'
    <2>1. ASSUME NEW o \in Nodes, sending'[o] # <<>> PROVE \E t \in Modules : o \in NodesOf(t)'
      <3>1. o # n /\ sending[o] # <<>>
        BY <1>5, <2>1
      <3>2. PICK t \in Modules : o \in NodesOf(t)
        BY <3>1 DEF NumbersInv
      <3> QED BY <1>5, <3>2
    <2>2. ASSUME NEW t \in Modules, NEW o \in NodesOf(t)', NEW i \in DOMAIN sending'[o]
          PROVE  sending'[o][i].src = t /\ sending'[o][i].link = o /\ sending'[o][i].id \in 1..published
      <3>1. o # n
        BY <1>5, <2>2
      <3>2. o \in NodesOf(t) /\ sending'[o] = sending[o]
        BY <1>5, <1>7, <3>1
      <3> QED BY <2>2, <3>2 DEF NumbersInv
    <2>3. ASSUME NEW m \in Modules, NEW i \in DOMAIN batch[m]
          PROVE  batch[m][i].id \in 1..published /\ dst'[batch[m][i].link] = m
      <3>1. batch[m][i].link \in Nodes /\ batch[m][i].link # n
        BY <1>5, ListsTyped
      <3> QED BY <1>5, <3>1 DEF NumbersInv
    <2> QED BY <1>4, <2>1, <2>2, <2>3 DEF NumbersInv
  <1>17. InOrder'
    <2>1. ASSUME NEW m \in Modules, NEW t \in Modules, NEW o \in LinkNodes(t, m)'
          PROVE  /\ \A i, j \in DOMAIN sending'[o] : i < j => sending'[o][i].id < sending'[o][j].id
                 /\ \A i \in DOMAIN batch[m], j \in DOMAIN sending'[o] :
                       batch[m][i].link = o \/ (batch[m][i].src = t /\ <<t, m>> \notin doubled)
                       => batch[m][i].id < sending'[o][j].id
      <3>1. CASE sending'[o] = <<>>
        BY <3>1
      <3>2. CASE o \in LinkNodes(t, m) /\ sending'[o] = sending[o]
        BY <3>2 DEF InOrder
      <3> QED BY <1>15, <3>1, <3>2
    <2>2. \A m \in Modules : \A i, j \in DOMAIN batch[m] :
             /\ i < j
             /\ \/ batch[m][i].link = batch[m][j].link
                \/ batch[m][i].src = batch[m][j].src /\ <<batch[m][i].src, m>> \notin doubled
             => batch[m][i].id < batch[m][j].id
      BY DEF InOrder
    <2> QED BY <1>4, <2>1, <2>2 DEF InOrder
  <1> QED BY <1>0, <1>3, <1>9, <1>10, <1>12, <1>13, <1>14, <1>16, <1>17, <1>18, DueOther


\* The node RemoveLinkReceiver takes is one of its link's; the others keep their order.
LEMMA FreedNode ==
  ASSUME IInv, RemoveLinkReceiver, NEW s, NEW k, s = call.src, k = call.sink
  PROVE  \E n \in Nodes :
           /\ n \in NodesOf(s) /\ dst[n] = k
           /\ \A t \in Modules \ {s} : receivers'[t] = receivers[t]
           /\ IsInjective(receivers'[s])
           /\ \A i, j \in DOMAIN receivers'[s] : i < j =>
                \E x, y \in DOMAIN receivers[s] :
                   x < y /\ receivers[s][x] = receivers'[s][i] /\ receivers[s][y] = receivers'[s][j]
           /\ \A t \in Modules : NodesOf(t)' = IF t = s THEN NodesOf(s) \ {n} ELSE NodesOf(t)
           /\ \A o \in Nodes : sending'[o] = IF o = n THEN <<>> ELSE sending[o]
  <1> USE DEF IInv
  <1>1. ~Idle /\ call.op = "free"
    BY NoCallIs DEF RemoveLinkReceiver
  <1>2. s \in Modules /\ k \in Modules
    BY <1>1, CallIs
  <1> DEFINE n == NodeTo(s, k)
  <1>3. n \in NodesOf(s) /\ dst[n] = k
    BY <1>2, NodeToIs DEF RemoveLinkReceiver
  <1>4. n \in Nodes
    BY <1>2, <1>3, ListsTyped
  <1>5. /\ receivers' = [receivers EXCEPT ![s] = RemoveFirst(@, n)]
        /\ sending' = [sending EXCEPT ![n] = <<>>]
    BY DEF RemoveLinkReceiver
  <1> HIDE DEF n
  <1>6. receivers'[s] = RemoveFirst(receivers[s], n) /\ \A t \in Modules \ {s} : receivers'[t] = receivers[t]
    BY <1>2, <1>5 DEF TypeOK
  <1>7. /\ IsInjective(receivers'[s]) /\ Range(receivers'[s]) = Range(receivers[s]) \ {n}
        /\ \A i, j \in DOMAIN receivers'[s] : i < j =>
                \E x, y \in DOMAIN receivers[s] :
                   x < y /\ receivers[s][x] = receivers'[s][i] /\ receivers[s][y] = receivers'[s][j]
    <2>1. receivers[s] \in Seq(Nodes) /\ n \in Range(receivers[s]) /\ IsInjective(receivers[s])
      BY <1>2, <1>3 DEF TypeOK, NodesOf, ListsInv
    <2> QED BY <1>6, <2>1, RemoveFirstRange
  <1>8. \A t \in Modules : NodesOf(t)' = IF t = s THEN NodesOf(s) \ {n} ELSE NodesOf(t)
    BY <1>6, <1>7 DEF NodesOf
  <1>9. \A o \in Nodes : sending'[o] = IF o = n THEN <<>> ELSE sending[o]
    BY <1>5 DEF TypeOK
  <1> QED BY <1>3, <1>4, <1>6, <1>7, <1>8, <1>9

LEMMA RemoveLinkReceiverKeeps ==
  ASSUME IInv, RemoveLinkReceiver
  PROVE  IInv'
  <1> USE DEF IInv
  <1>0. TypeOK'
    BY TypeCall DEF CallStep
  <1>1. ~Idle /\ call.op = "free"
    BY NoCallIs DEF RemoveLinkReceiver
  <1>2. PICK s \in Modules, k \in Modules : s = call.src /\ k = call.sink
    BY <1>1, CallIs
  <1>3. Idle' /\ call'.op = "none" /\ call'.by = NoThread
    BY EndIs DEF RemoveLinkReceiver
  <1>4. UNCHANGED <<attached, senders, dst, walk, cur, batch, rpc, published, doubled, failed>>
    BY DEF RemoveLinkReceiver, walker, history
  <1>l. /\ linked[<<s, k>>] > 0 /\ linked'[<<s, k>>] = linked[<<s, k>>] - 1 /\ linked[<<s, k>>] \in Nat
        /\ linked' \in [Modules \X Modules -> Nat]
        /\ \A l \in Modules \X Modules : l # <<s, k>> => linked'[l] = linked[l]
    <2>1. Forget(s, k) /\ LinkNodes(s, k) # {}
      BY <1>2 DEF RemoveLinkReceiver
    <2>2. linked[<<s, k>>] > 0
      BY <2>1, HasNode
    <2> QED BY <2>1, <2>2, OneLess
  <1>5. PICK n \in Nodes :
           /\ n \in NodesOf(s) /\ dst[n] = k
           /\ \A t \in Modules \ {s} : receivers'[t] = receivers[t]
           /\ IsInjective(receivers'[s])
           /\ \A i, j \in DOMAIN receivers'[s] : i < j =>
                \E x, y \in DOMAIN receivers[s] :
                   x < y /\ receivers[s][x] = receivers'[s][i] /\ receivers[s][y] = receivers'[s][j]
           /\ \A t \in Modules : NodesOf(t)' = IF t = s THEN NodesOf(s) \ {n} ELSE NodesOf(t)
           /\ \A o \in Nodes : sending'[o] = IF o = n THEN <<>> ELSE sending[o]
    BY <1>2, FreedNode
  <1>6. \A t \in Modules : \A o \in NodesOf(t)' :
           o \in NodesOf(t) /\ o # n /\ o \in Nodes /\ sending'[o] = sending[o]
    <2> SUFFICES ASSUME NEW t \in Modules, NEW o \in NodesOf(t)'
                 PROVE  o \in NodesOf(t) /\ o # n /\ o \in Nodes /\ sending'[o] = sending[o]
      OBVIOUS
    <2>1. o \in NodesOf(t) /\ (t = s => o # n)
      BY <1>5
    <2>2. o # n
      BY <1>5, <2>1 DEF ListsInv
    <2> QED BY <1>5, <2>1, <2>2, ListsTyped
  <1>7. \A t \in Modules : \A o \in NodesOf(t) : o = n \/ o \in NodesOf(t)'
    BY <1>5
  <1>8. ASSUME NEW t \in Modules, NEW m \in Modules
        PROVE  LinkNodes(t, m)' = IF t = s /\ m = k THEN LinkNodes(s, k) \ {n} ELSE LinkNodes(t, m)
    <2>1. LinkNodes(t, m)' = {o \in NodesOf(t)' : dst[o] = m}
      BY <1>4 DEF LinkNodes
    <2> QED BY <1>5, <2>1 DEF LinkNodes
  <1>9. CallInv'
    BY <1>3, LinkAssumption DEF CallInv
  <1>10. ListsInv'
    <2>1. (Linked \subseteq attached \X attached)'
      <3> SUFFICES ASSUME NEW l \in Modules \X Modules, linked'[l] > 0 PROVE l \in attached \X attached
        BY <1>4 DEF Linked
      <3>1. linked[l] > 0
        BY <1>l
      <3> QED BY <3>1 DEF ListsInv, Linked
    <2>2. ASSUME NEW t \in Modules PROVE IsInjective(receivers'[t])
      BY <1>5 DEF ListsInv
    <2>3. ASSUME NEW t \in Modules, NEW m \in Modules
          PROVE  Cardinality(LinkNodes(t, m)') = linked'[<<t, m>>]
      <3>1. Cardinality(LinkNodes(t, m)) = linked[<<t, m>>]
        BY DEF ListsInv
      <3>2. CASE t = s /\ m = k
        <4>1. n \in LinkNodes(s, k)
          BY <1>5 DEF LinkNodes
        <4>3. IsFiniteSet(LinkNodes(s, k))
          BY NodesFinite
        <4>2. Cardinality(LinkNodes(s, k) \ {n}) = Cardinality(LinkNodes(s, k)) - 1
          BY <4>1, <4>3, FS_RemoveElement
        <4> QED BY <1>l, <1>8, <3>1, <3>2, <4>2
      <3>3. CASE ~(t = s /\ m = k)
        <4>1. <<t, m>> # <<s, k>> /\ <<t, m>> \in Modules \X Modules
          BY <3>3
        <4>2. linked'[<<t, m>>] = linked[<<t, m>>]
          BY <1>l, <4>1
        <4>3. LinkNodes(t, m)' = LinkNodes(t, m)
          BY <1>8, <3>3
        <4> QED BY <3>1, <4>2, <4>3
      <3> QED BY <3>2, <3>3
    <2>4. ASSUME NEW t \in Modules, NEW m \in Modules, <<t, m>> \notin doubled
          PROVE  linked'[<<t, m>>] <= 1
      <3>1. linked[<<t, m>>] <= 1 /\ linked[<<t, m>>] \in Nat
        BY <2>4, HasNode DEF ListsInv
      <3>2. CASE <<t, m>> = <<s, k>>
        BY <1>l, <3>1, <3>2
      <3>3. CASE <<t, m>> # <<s, k>>
        BY <1>l, <3>1, <3>3
      <3> QED BY <3>2, <3>3
    <2>5. ASSUME NEW t \in Modules, NEW o \in NodesOf(t)' PROVE dst'[o] \in Modules
      BY <1>4, <1>6 DEF ListsInv
    <2>6. ASSUME NEW t \in Modules, NEW r \in Modules, NEW o \in NodesOf(t)', o \in NodesOf(r)' PROVE t = r
      BY <1>6, <2>6 DEF ListsInv
    <2> QED BY <1>4, <2>1, <2>2, <2>3, <2>4, <2>5, <2>6 DEF ListsInv
  <1>18. EntriesInv'
    <2> SUFFICES ASSUME NEW t \in Modules, NEW m \in Modules, <<t, m>> \notin failed
                 PROVE  Cardinality(Places(senders[m], t)) + One(Leaving(t, m)') = linked'[<<t, m>>] + One(Adding(t, m)')
      BY <1>4 DEF EntriesInv, Places, One
    <2>1. One(Adding(t, m)') = 0 /\ One(Leaving(t, m)') = 0
      BY <1>3 DEF One, Adding, Leaving
    <2>2. One(Adding(t, m)) = 0 /\ One(Leaving(t, m)) = IF t = s /\ m = k THEN 1 ELSE 0
      BY <1>1, <1>2 DEF One, Adding, Leaving
    <2>3. Cardinality(Places(senders[m], t)) + One(Leaving(t, m)) = linked[<<t, m>>] + One(Adding(t, m))
      BY DEF EntriesInv
    <2>4. /\ Cardinality(Places(senders[m], t)) \in Nat
          /\ linked[<<t, m>>] \in Nat
      BY PlacesFinite, HasNode DEF TypeOK
    <2>5. linked'[<<t, m>>] = IF t = s /\ m = k THEN linked[<<t, m>>] - 1 ELSE linked[<<t, m>>]
      BY <1>l
    <2> QED BY <2>1, <2>2, <2>3, <2>4, <2>5
  <1>11. ASSUME NEW t \in Modules, NEW m, Emptied(t, m) PROVE Emptied(t, m)'
    BY <1>4, <1>6, <1>11 DEF Emptied
  <1>12. WalkInv'
    <2> SUFFICES ASSUME NEW m \in Modules, rpc[m] = "walk" PROVE HasWalked(m)'
      BY <1>4 DEF WalkInv
    <2>1. HasWalked(m)
      BY DEF WalkInv
    <2>2. ASSUME NEW i \in DOMAIN senders[m], i < walk[m] PROVE Emptied(senders[m][i], m)'
      <3>1. PICK t \in Modules : t = senders[m][i]
        BY ListsTyped
      <3>2. Emptied(t, m)' /\ t = senders'[m][i]
        BY <1>4, <1>11, <2>1, <2>2, <3>1 DEF HasWalked
      <3> QED BY <3>2 DEF Emptied, NodesOf
    <2>3. ASSUME walk[m] \in DOMAIN senders[m] PROVE PassedNodes(Source(m), m, cur[m])'
      <3>1. PICK t \in Modules : t = Source(m) /\ t = Source(m)'
        BY <1>4, <2>3, ListsTyped DEF Source
      <3>2. PassedNodes(t, m, cur[m])
        BY <2>1, <2>3, <3>1 DEF HasWalked
      <3>3. PassedNodes(t, m, cur[m])'
        <4> SUFFICES ASSUME NEW i \in DOMAIN receivers'[t], NEW j \in DOMAIN receivers'[t], i < j,
                            receivers'[t][j] = cur[m]
                     PROVE  dst[receivers'[t][i]] # m
          BY <1>4 DEF PassedNodes
        <4>1. PICK x \in DOMAIN receivers[t], y \in DOMAIN receivers[t] :
                 x < y /\ receivers[t][x] = receivers'[t][i] /\ receivers[t][y] = receivers'[t][j]
          BY <1>5
        <4> QED BY <3>2, <4>1 DEF PassedNodes
      <3> QED BY <3>1, <3>3 DEF PassedNodes
    <2> QED BY <1>4, <2>1, <2>2, <2>3 DEF HasWalked
  <1>15. \A t, m \in Modules : \A o \in LinkNodes(t, m)' : o \in LinkNodes(t, m) /\ sending'[o] = sending[o]
    BY <1>4, <1>6 DEF LinkNodes
  <1>13. NoLostWakeup'
    <2> SUFFICES ASSUME NEW m \in Modules, rpc[m] = "wait", NEW t \in Range(senders[m]), <<t, m>> \notin doubled,
                        NEW o \in LinkNodes(t, m)'
                 PROVE  sending'[o] = <<>>
      BY <1>4 DEF NoLostWakeup
    <2>1. t \in Modules
      BY ListsTyped DEF Range
    <2> QED BY <1>15, <2>1 DEF NoLostWakeup
  <1>14. BatchInv'
    BY <1>4 DEF BatchInv
  <1>16. NumbersInv'
    <2>1. ASSUME NEW o \in Nodes, sending'[o] # <<>> PROVE \E t \in Modules : o \in NodesOf(t)'
      <3>1. o # n /\ sending[o] # <<>>
        BY <1>5, <2>1
      <3>2. PICK t \in Modules : o \in NodesOf(t)
        BY <3>1 DEF NumbersInv
      <3> QED BY <1>7, <3>1, <3>2
    <2>2. ASSUME NEW t \in Modules, NEW o \in NodesOf(t)', NEW i \in DOMAIN sending'[o]
          PROVE  sending'[o][i].src = t /\ sending'[o][i].link = o /\ sending'[o][i].id \in 1..published
      BY <1>6, <2>2 DEF NumbersInv
    <2>3. ASSUME NEW m \in Modules, NEW i \in DOMAIN batch[m]
          PROVE  batch[m][i].id \in 1..published /\ dst[batch[m][i].link] = m
      BY DEF NumbersInv
    <2> QED BY <1>4, <2>1, <2>2, <2>3 DEF NumbersInv
  <1>17. InOrder'
    <2>1. ASSUME NEW m \in Modules, NEW t \in Modules, NEW o \in LinkNodes(t, m)'
          PROVE  /\ \A i, j \in DOMAIN sending'[o] : i < j => sending'[o][i].id < sending'[o][j].id
                 /\ \A i \in DOMAIN batch[m], j \in DOMAIN sending'[o] :
                       batch[m][i].link = o \/ (batch[m][i].src = t /\ <<t, m>> \notin doubled)
                       => batch[m][i].id < sending'[o][j].id
      <3>1. o \in LinkNodes(t, m) /\ sending'[o] = sending[o]
        BY <1>15
      <3> QED BY <3>1 DEF InOrder
    <2>2. \A m \in Modules : \A i, j \in DOMAIN batch[m] :
             /\ i < j
             /\ \/ batch[m][i].link = batch[m][j].link
                \/ batch[m][i].src = batch[m][j].src /\ <<batch[m][i].src, m>> \notin doubled
             => batch[m][i].id < batch[m][j].id
      BY DEF InOrder
    <2> QED BY <1>4, <2>1, <2>2 DEF InOrder
  <1> QED BY <1>0, <1>3, <1>9, <1>10, <1>12, <1>13, <1>14, <1>16, <1>17, <1>18, DueOther

\* What PublishNode does, to node n of source s.
Message(n, s) == [link |-> n, src |-> s, id |-> published]
LEMMA NodePut ==
  ASSUME IInv, PublishNode, NEW s, NEW n, s = call.src, n = receivers[s][call.at]
  PROVE  /\ s \in Modules /\ call.at \in DOMAIN receivers[s] /\ n \in NodesOf(s) /\ n \in Nodes
         /\ dst[n] \in Modules /\ rpc[dst[n]] # "walk"
         /\ \A o \in Nodes : sending'[o] = IF o = n THEN Append(sending[n], Message(n, s)) ELSE sending[o]
         /\ \A m \in Modules : rpc'[m] = IF m = dst[n] /\ rpc[m] = "wait" THEN "woken" ELSE rpc[m]
         /\ call.op = "publish" /\ ~Idle' /\ call'.op = call.op /\ call'.by = call.by
         /\ call'.src = call.src /\ call'.sink = call.sink /\ call'.at = call.at + 1
         /\ UNCHANGED <<registry, walker, published>>
  <1> USE DEF IInv
  <1>1. ~Idle /\ call.op = "publish"
    BY NoCallIs DEF PublishNode
  <1>2. s \in Modules /\ call.at \in Nat \ {0}
    BY <1>1, CallIs DEF CallInv
  <1>3. call.at \in DOMAIN receivers[s]
    <2>1. DOMAIN receivers[s] = 1..Len(receivers[s]) /\ Len(receivers[s]) \in Nat
      BY <1>2, ListsTyped
    <2>2. call.at <= Len(receivers[s])
      BY DEF PublishNode
    <2> QED BY <1>2, <2>1, <2>2
  <1>4. n \in NodesOf(s) /\ n \in Nodes
    BY <1>2, <1>3, ListsTyped
  <1>5. dst[n] \in Modules
    BY <1>2, <1>4 DEF ListsInv
  <1>6. rpc[dst[n]] # "walk"
    BY <1>5, LinkAssumption DEF PublishNode, ReceiverLockFree, TypeOK
  <1>7. sending' = [sending EXCEPT ![n] = Append(@, Message(n, s))] /\ rpc' = Post(dst[n])
        /\ UNCHANGED <<registry, walker, published>>
    BY DEF PublishNode, Message
  <1>8. \A o \in Nodes : sending'[o] = IF o = n THEN Append(sending[n], Message(n, s)) ELSE sending[o]
    BY <1>4, <1>7 DEF TypeOK
  <1>9. \A m \in Modules : rpc'[m] = IF m = dst[n] /\ rpc[m] = "wait" THEN "woken" ELSE rpc[m]
    BY <1>7, PostIs
  <1>10. /\ ~Idle' /\ call'.op = call.op /\ call'.by = call.by
         /\ call'.src = call.src /\ call'.sink = call.sink /\ call'.at = call.at + 1
    BY <1>1, AdvanceIs DEF PublishNode
  <1> QED BY <1>1, <1>2, <1>3, <1>4, <1>5, <1>6, <1>7, <1>8, <1>9, <1>10

LEMMA PublishNodeKeeps ==
  ASSUME IInv, PublishNode
  PROVE  IInv'
  <1> USE DEF IInv
  <1>0. TypeOK'
    BY TypeCall DEF CallStep
  <1>1. PICK s, n : s = call.src /\ n = receivers[s][call.at]
    OBVIOUS
  <1>2. /\ s \in Modules /\ call.at \in DOMAIN receivers[s] /\ n \in NodesOf(s) /\ n \in Nodes
        /\ dst[n] \in Modules /\ rpc[dst[n]] # "walk"
        /\ \A o \in Nodes : sending'[o] = IF o = n THEN Append(sending[n], Message(n, s)) ELSE sending[o]
        /\ \A m \in Modules : rpc'[m] = IF m = dst[n] /\ rpc[m] = "wait" THEN "woken" ELSE rpc[m]
        /\ call.op = "publish" /\ ~Idle' /\ call'.op = call.op /\ call'.by = call.by
        /\ call'.src = call.src /\ call'.sink = call.sink /\ call'.at = call.at + 1
        /\ UNCHANGED <<registry, walker, published>>
    BY <1>1, NodePut
  <1>3. UNCHANGED <<attached, receivers, dst, senders, linked, walk, cur, batch, published, doubled, failed>>
    BY <1>2 DEF registry, walker, history
  <1> DEFINE x == Message(n, s)
             q == sending[n]
             r == Append(q, x)
             k == dst[n]
  <1>4. /\ DOMAIN q = 1..Len(q) /\ Len(q) \in Nat /\ DOMAIN r = 1..Len(q) + 1
        /\ \A i \in 1..Len(q) : r[i] = q[i]
        /\ r[Len(q) + 1] = x
    <2>1. q \in Seq(Msg) /\ x \in Msg
      BY <1>2 DEF TypeOK, Msg, Message
    <2> HIDE DEF q, x
    <2> QED BY <2>1, SeqAppend
  <1>5. /\ \A i \in DOMAIN q : q[i].id < published
        /\ \A i \in DOMAIN batch[k] : SameLink(batch[k][i], n, s, k) => batch[k][i].id < published
    <2>1. call.at >= call.at
      BY <1>2, ListsTyped
    <2> QED BY <1>1, <1>2, <2>1 DEF DueInv
  <1>20. x.src = s /\ x.link = n /\ x.id = published
    BY DEF Message
  <1>6. \A i \in DOMAIN r : r[i].src = s /\ r[i].link = n /\ r[i].id \in 1..published
    <2>1. published \in 1..published
      <3>1. published \in Nat /\ published > 0
        BY <1>2 DEF TypeOK, CallInv
      <3> QED BY <3>1
    <2>2. \A i \in DOMAIN q : q[i].src = s /\ q[i].link = n /\ q[i].id \in 1..published
      BY <1>2 DEF NumbersInv
    <2> QED BY <1>4, <1>20, <2>1, <2>2
  <1>7. sending'[n] = r /\ \A o \in Nodes \ {n} : sending'[o] = sending[o]
    BY <1>2
  <1> HIDE DEF x, q, r, k
  <1>8. \A t \in Modules : \A o \in NodesOf(t) : o \in Nodes /\ (o = n => t = s)
    BY <1>2, ListsTyped DEF ListsInv
  <1>9. CallInv'
    <2>1. call'.at \in Nat \ {0}
      BY <1>2, ListsTyped
    <2>2. call.by \in Modules => rpc'[call.by] = "calling"
      BY <1>2 DEF CallInv
    <2>3. ~Idle /\ call.src \in attached /\ call.sink \in attached
      BY <1>2, NoCallIs DEF CallInv
    <2>4. published > 0
      BY <1>2 DEF CallInv
    <2> QED BY <1>2, <1>3, <2>1, <2>2, <2>3, <2>4 DEF CallInv
  <1>10. ListsInv' /\ EntriesInv'
    <2>1. \A t, m \in Modules : /\ One(Adding(t, m)) = 0 /\ One(Leaving(t, m)) = 0
                                /\ One(Adding(t, m)') = 0 /\ One(Leaving(t, m)') = 0
      BY <1>2 DEF Adding, Leaving, One
    <2>2. ListsInv'
      BY <1>3, NodesSame
    <2>3. ASSUME NEW t \in Modules, NEW m \in Modules, <<t, m>> \notin failed
          PROVE  Cardinality(Places(senders[m], t)) + One(Leaving(t, m)') = linked[<<t, m>>] + One(Adding(t, m)')
      BY <2>1, <2>3 DEF EntriesInv
    <2> QED BY <1>3, <2>2, <2>3 DEF EntriesInv, Places, One
  <1>11. WalkInv'
    <2> SUFFICES ASSUME NEW m \in Modules, rpc'[m] = "walk" PROVE HasWalked(m)'
      BY DEF WalkInv
    <2>1. HasWalked(m) /\ m # k
      BY <1>2 DEF WalkInv, k
    <2>2. ASSUME NEW t \in Modules, Emptied(t, m) PROVE Emptied(t, m)'
      BY <1>3, <1>7, <1>8, <2>1, <2>2 DEF Emptied, NodesOf, k
    <2>3. ASSUME NEW i \in DOMAIN senders[m], i < walk[m] PROVE Emptied(senders[m][i], m)'
      <3>1. PICK t \in Modules : t = senders[m][i]
        BY ListsTyped
      <3>2. Emptied(t, m)' /\ t = senders'[m][i]
        BY <1>3, <2>1, <2>2, <2>3, <3>1 DEF HasWalked
      <3> QED BY <3>2 DEF Emptied, NodesOf
    <2> QED BY <1>3, <2>1, <2>3 DEF HasWalked, PassedNodes, Source
  <1>12. NoLostWakeup'
    <2> SUFFICES ASSUME NEW m \in Modules, rpc'[m] = "wait", NEW t \in Range(senders[m]), <<t, m>> \notin doubled,
                        NEW o \in LinkNodes(t, m)
                 PROVE  sending'[o] = <<>>
      BY <1>3 DEF NoLostWakeup, LinkNodes, NodesOf
    <2>1. m # k /\ rpc[m] = "wait"
      BY <1>2 DEF k
    <2>2. t \in Modules /\ o # n
      BY <2>1, ListsTyped DEF Range, LinkNodes, k
    <2>3. sending'[o] = sending[o]
      BY <1>7, <1>8, <2>2 DEF LinkNodes
    <2> QED BY <2>1, <2>3 DEF NoLostWakeup
  <1>13. BatchInv'
    <2> SUFFICES ASSUME NEW m \in Modules, rpc'[m] \in {"none", "lock", "wait", "woken", "exited"}
                 PROVE  batch[m] = <<>>
      BY <1>3 DEF BatchInv
    <2> QED BY <1>2 DEF BatchInv
  <1>14. NumbersInv'
    <2>1. ASSUME NEW t \in Modules, NEW o \in NodesOf(t), NEW i \in DOMAIN sending'[o]
          PROVE  sending'[o][i].src = t /\ sending'[o][i].link = o /\ sending'[o][i].id \in 1..published
      BY <1>6, <1>7, <1>8 DEF NumbersInv
    <2>2. ASSUME NEW o \in Nodes, sending'[o] # <<>> PROVE \E t \in Modules : o \in NodesOf(t)
      BY <1>2, <1>7, <2>2 DEF NumbersInv
    <2>3. \A m \in Modules : \A i \in DOMAIN batch[m] :
             batch[m][i].id \in 1..published /\ dst[batch[m][i].link] = m
      BY DEF NumbersInv
    <2> QED BY <1>3, <2>1, <2>2, <2>3 DEF NumbersInv, NodesOf
  <1>15. DueInv'
    <2>0. call'.src = s /\ call'.at = call.at + 1
      BY <1>1, <1>2
    <2> SUFFICES ASSUME NEW h \in DOMAIN receivers[s], h >= call.at + 1, NEW o, o = receivers[s][h]
                 PROVE  /\ \A i \in DOMAIN sending'[o] : sending'[o][i].id < published
                        /\ \A i \in DOMAIN batch[dst[o]] :
                             SameLink(batch[dst[o]][i], o, s, dst[o]) => batch[dst[o]][i].id < published
      BY <1>3, <2>0 DEF DueInv, SameLink
    <2>1. h >= call.at /\ h # call.at
      BY <1>2, ListsTyped
    <2>2. o # n /\ o \in Nodes
      BY <1>1, <1>2, <2>1, ListsTyped DEF ListsInv, IsInjective
    <2>3. /\ \A i \in DOMAIN sending[o] : sending[o][i].id < published
          /\ \A i \in DOMAIN batch[dst[o]] :
               SameLink(batch[dst[o]][i], o, s, dst[o]) => batch[dst[o]][i].id < published
      BY <1>1, <1>2, <2>1 DEF DueInv
    <2> QED BY <1>7, <2>2, <2>3
  <1>16. InOrder'
    <2>1. ASSUME NEW m \in Modules, NEW t \in Modules, NEW o \in LinkNodes(t, m)
          PROVE  /\ \A i, j \in DOMAIN sending'[o] : i < j => sending'[o][i].id < sending'[o][j].id
                 /\ \A i \in DOMAIN batch[m], j \in DOMAIN sending'[o] :
                       batch[m][i].link = o \/ (batch[m][i].src = t /\ <<t, m>> \notin doubled)
                       => batch[m][i].id < sending'[o][j].id
      <3>0. o \in NodesOf(t) /\ dst[o] = m
        BY DEF LinkNodes
      <3>1. CASE o # n
        <4>1. sending'[o] = sending[o]
          BY <1>7, <1>8, <3>0, <3>1
        <4> QED BY <4>1 DEF InOrder
      <3>2. CASE o = n
        <4>1. t = s /\ m = k /\ sending'[o] = r /\ sending[o] = q
          BY <1>7, <1>8, <3>0, <3>2 DEF k, q
        <4>2. \A j \in DOMAIN r : \/ j \in DOMAIN q /\ r[j] = q[j]
                                  \/ j = Len(q) + 1 /\ r[j].id = published
          BY <1>4, <1>20
        <4>3. ASSUME NEW i \in DOMAIN r, NEW j \in DOMAIN r, i < j PROVE r[i].id < r[j].id
          <5>1. i \in DOMAIN q /\ r[i] = q[i]
            BY <1>4, <4>3
          <5>2. CASE j \in DOMAIN q /\ r[j] = q[j]
            BY <4>1, <4>3, <5>1, <5>2 DEF InOrder
          <5>3. CASE r[j].id = published
            BY <1>5, <5>1, <5>3
          <5> QED BY <4>2, <5>2, <5>3
        <4>4. ASSUME NEW i \in DOMAIN batch[k], NEW j \in DOMAIN r, SameLink(batch[k][i], n, s, k)
              PROVE  batch[k][i].id < r[j].id
          <5>1. CASE j \in DOMAIN q /\ r[j] = q[j]
            BY <3>2, <4>1, <4>4, <5>1 DEF InOrder, SameLink
          <5>2. CASE r[j].id = published
            BY <1>5, <4>4, <5>2
          <5> QED BY <4>2, <5>1, <5>2
        <4> QED BY <3>2, <4>1, <4>3, <4>4 DEF SameLink
      <3> QED BY <3>1, <3>2
    <2>2. \A m \in Modules : \A i, j \in DOMAIN batch[m] :
             /\ i < j
             /\ \/ batch[m][i].link = batch[m][j].link
                \/ batch[m][i].src = batch[m][j].src /\ <<batch[m][i].src, m>> \notin doubled
             => batch[m][i].id < batch[m][j].id
      BY DEF InOrder
    <2> QED BY <1>3, <2>1, <2>2 DEF InOrder, LinkNodes, NodesOf
  <1> QED BY <1>0, <1>9, <1>10, <1>11, <1>12, <1>13, <1>14, <1>15, <1>16
-----------------------------------------------------------------------------
(* The invariant holds.                                                      *)
LEMMA InitInv == Init => IInv
  <1> SUFFICES ASSUME Init PROVE IInv
    OBVIOUS
  <1>0. TypeOK
    BY InitType
  <1>1. /\ attached = Modules /\ Idle /\ published = 0 /\ doubled = {} /\ failed = {}
        /\ linked = [l \in Modules \X Modules |-> IF l \in Range(InitLinks) THEN 1 ELSE 0]
        /\ receivers \in [Modules -> InitLists] /\ \A m \in Modules : HasLinks(receivers[m], m, 1)
        /\ dst = [n \in Nodes |-> IF n \in DOMAIN InitLinks THEN InitLinks[n][2] ELSE NoThread]
        /\ sending = [n \in Nodes |-> <<>>] /\ batch = [m \in Modules |-> <<>>]
        /\ rpc = [m \in Modules |-> IF senders[m] = <<>> THEN "none" ELSE "lock"]
    BY DEF Init, Idle
  <1>2. PICK into \in [Modules -> InitLists] :
           /\ \A m \in Modules : HasLinks(into[m], m, 2)
           /\ senders = [m \in Modules |-> [i \in DOMAIN into[m] |-> InitLinks[into[m][i]][1]]]
    BY DEF Init
  <1> DEFINE L == DOMAIN InitLinks
             src(i) == InitLinks[i][1]
             sink(i) == InitLinks[i][2]
  <1>3. /\ L \subseteq Nodes /\ L \subseteq Nat
        /\ \A i \in L : src(i) \in Modules /\ sink(i) \in Modules /\ InitLinks[i] = <<src(i), sink(i)>>
        /\ \A i, j \in L : src(i) = src(j) /\ sink(i) = sink(j) => i = j
    <2>1. InitLinks \in Seq(Modules \X Modules) /\ IsInjective(InitLinks) /\ L \subseteq Nodes
      BY LinkAssumption
    <2>2. \A i \in L : InitLinks[i] \in Modules \X Modules /\ i \in Nat
      BY <2>1
    <2>3. \A i \in L : src(i) \in Modules /\ sink(i) \in Modules /\ InitLinks[i] = <<src(i), sink(i)>>
      BY <2>2
    <2> HIDE DEF src, sink
    <2>4. \A i, j \in L : src(i) = src(j) /\ sink(i) = sink(j) => i = j
      BY <2>1, <2>3 DEF IsInjective
    <2> QED BY <2>1, <2>2, <2>3, <2>4 DEF src, sink
  <1>4. \A q \in InitLists : \A i, j \in DOMAIN q : q[i] \in L /\ (q[i] = q[j] => i = j)
    <2> SUFFICES ASSUME NEW q \in InitLists, NEW i \in DOMAIN q, NEW j \in DOMAIN q
                 PROVE  q[i] \in L /\ (q[i] = q[j] => i = j)
      OBVIOUS
    <2>1. PICK n \in 0..Len(InitLinks) : q \in [1..n -> L]
      BY DEF InitLists
    <2>2. \A x, y \in DOMAIN q : x < y => q[x] < q[y]
      BY DEF InitLists
    <2>3. n \in Nat /\ i \in Nat /\ j \in Nat
      <3>1. Len(InitLinks) \in Nat
        BY LinkAssumption
      <3> QED BY <2>1, <3>1
    <2>4. q[i] \in L /\ q[j] \in L
      BY <2>1
    <2>5. q[i] \in Nat /\ q[j] \in Nat
      BY <1>3, <2>4
    <2> QED BY <2>2, <2>3, <2>4, <2>5
  <1>5. \A s \in Modules : \A n : n \in NodesOf(s) <=> n \in L /\ src(n) = s
    BY <1>1 DEF HasLinks, NodesOf
  <1>6. \A n \in L : dst[n] = sink(n)
    BY <1>1, <1>3
  <1>7. \A m \in Modules : \A i : i \in Range(into[m]) <=> i \in L /\ sink(i) = m
    BY <1>2 DEF HasLinks
  <1>8. \A m \in Modules : DOMAIN senders[m] = DOMAIN into[m] /\ \A i \in DOMAIN into[m] : senders[m][i] = src(into[m][i])
    BY <1>2
  <1>9. \A s, k \in Modules : linked[<<s, k>>] = IF \E i \in L : src(i) = s /\ sink(i) = k THEN 1 ELSE 0
    <2>1. \A s, k \in Modules : <<s, k>> \in Range(InitLinks) <=> \E i \in L : src(i) = s /\ sink(i) = k
      BY <1>3 DEF Range
    <2> QED BY <1>1, <2>1
  <1> HIDE DEF L, src, sink
  <1>10. CallInv
    BY <1>1, NoCallIs, LinkAssumption DEF CallInv
  <1>17. ASSUME NEW s \in Modules, NEW k \in Modules
         PROVE  Cardinality(LinkNodes(s, k)) = linked[<<s, k>>]
    <2>1. \A n : n \in LinkNodes(s, k) <=> n \in L /\ src(n) = s /\ sink(n) = k
      BY <1>5, <1>6 DEF LinkNodes
    <2>2. CASE \E i \in L : src(i) = s /\ sink(i) = k
      <3>1. PICK i \in L : src(i) = s /\ sink(i) = k
        BY <2>2
      <3>2. \A n \in L : src(n) = s /\ sink(n) = k => n = i
        BY <1>3, <3>1
      <3>3. LinkNodes(s, k) = {i}
        BY <2>1, <3>1, <3>2
      <3> QED BY <1>9, <2>2, <3>3, FS_Singleton
    <2>3. CASE ~\E i \in L : src(i) = s /\ sink(i) = k
      <3>1. LinkNodes(s, k) = {}
        BY <2>1, <2>3
      <3> QED BY <1>9, <2>3, <3>1, FS_EmptySet
    <2> QED BY <2>2, <2>3
  <1>11. ListsInv
    <2>1. Linked \subseteq attached \X attached
      BY <1>1 DEF Linked
    <2>2. ASSUME NEW m \in Modules PROVE IsInjective(receivers[m])
      BY <1>1, <1>4 DEF IsInjective
    <2>4. ASSUME NEW s \in Modules, NEW k \in Modules PROVE linked[<<s, k>>] <= 1
      <3>1. linked[<<s, k>>] = 0 \/ linked[<<s, k>>] = 1
        BY <1>9
      <3> QED BY <3>1
    <2>6. ASSUME NEW s \in Modules, NEW n \in NodesOf(s)
          PROVE  dst[n] \in Modules /\ \A t \in Modules : n \in NodesOf(t) => s = t
      <3>1. n \in L /\ src(n) = s /\ dst[n] = sink(n)
        BY <1>5, <1>6
      <3>2. \A t \in Modules : n \in NodesOf(t) => s = t
        BY <1>5, <3>1
      <3>3. dst[n] \in Modules
        BY <1>3, <3>1
      <3> QED BY <3>2, <3>3
    <2> QED BY <1>17, <2>1, <2>2, <2>4, <2>6 DEF ListsInv
  <1>18. EntriesInv
    <2> SUFFICES ASSUME NEW s \in Modules, NEW k \in Modules
                 PROVE  Cardinality(Places(senders[k], s)) = linked[<<s, k>>]
      <3>3. \A t, m \in Modules : One(Adding(t, m)) = 0 /\ One(Leaving(t, m)) = 0
        BY <1>1, NoCallIs, NotEnds
      <3>4. \A t, m \in Modules : linked[<<t, m>>] \in Nat
        BY <1>0 DEF TypeOK
      <3> QED BY <3>3, <3>4 DEF EntriesInv
    <2>1. \A i \in DOMAIN senders[k] : into[k][i] \in L /\ sink(into[k][i]) = k /\ senders[k][i] = src(into[k][i])
      <3> SUFFICES ASSUME NEW i \in DOMAIN senders[k]
                   PROVE  into[k][i] \in L /\ sink(into[k][i]) = k /\ senders[k][i] = src(into[k][i])
        OBVIOUS
      <3>1. i \in DOMAIN into[k] /\ senders[k][i] = src(into[k][i])
        BY <1>8
      <3>2. PICK x : x = into[k][i]
        OBVIOUS
      <3>3. x \in Range(into[k])
        BY <3>1, <3>2 DEF Range
      <3> QED BY <1>7, <3>1, <3>2, <3>3
    <2>2. CASE \E n \in L : src(n) = s /\ sink(n) = k
      <3>1. PICK n \in L : src(n) = s /\ sink(n) = k
        BY <2>2
      <3>2. n \in Range(into[k])
        BY <1>7, <3>1
      <3>3. PICK i \in DOMAIN into[k] : into[k][i] = n
        BY <3>2 DEF Range
      <3>4. i \in DOMAIN senders[k] /\ senders[k][i] = s
        BY <1>8, <3>1, <3>3
      <3>5. ASSUME NEW j \in DOMAIN senders[k], senders[k][j] = s PROVE j = i
        <4>1. PICK x : x = into[k][j]
          OBVIOUS
        <4>2. x \in L /\ sink(x) = k /\ src(x) = s
          BY <2>1, <3>5, <4>1
        <4>3. x = n
          BY <1>3, <3>1, <4>2
        <4>4. j \in DOMAIN into[k] /\ into[k] \in InitLists
          BY <1>8
        <4> QED BY <1>4, <3>3, <4>1, <4>3, <4>4
      <3>6. Places(senders[k], s) = {i}
        BY <3>4, <3>5 DEF Places
      <3> QED BY <1>9, <2>2, <3>6, FS_Singleton
    <2>3. CASE ~\E n \in L : src(n) = s /\ sink(n) = k
      <3>1. Places(senders[k], s) = {}
        BY <2>1, <2>3 DEF Places
      <3> QED BY <1>9, <2>3, <3>1, FS_EmptySet
    <2> QED BY <2>2, <2>3
  <1>12. WalkInv /\ NoLostWakeup
    <2>1. \A m \in Modules : rpc[m] \in {"none", "lock"}
      BY <1>1
    <2> QED BY <2>1 DEF WalkInv, NoLostWakeup
  <1>19. \A n \in Nodes : sending[n] = <<>> /\ DOMAIN sending[n] = {}
    BY <1>1
  <1>13. \A s \in Modules : \A n \in NodesOf(s) : DOMAIN sending[n] = {}
    BY <1>3, <1>5, <1>19
  <1>14. \A m \in Modules : batch[m] = <<>> /\ DOMAIN batch[m] = {}
    BY <1>1
  <1>15. BatchInv /\ NumbersInv /\ InOrder
    BY <1>13, <1>14, <1>19 DEF BatchInv, NumbersInv, InOrder, LinkNodes
  <1>16. DueInv
    BY <1>1, NoCallIs DEF DueInv
  <1> QED BY <1>0, <1>10, <1>11, <1>12, <1>15, <1>16, <1>18 DEF IInv

LEMMA NextInv == IInv /\ [Next]_vars => IInv'
  <1> SUFFICES ASSUME IInv, [Next]_vars PROVE IInv'
    OBVIOUS
  <1>0. Routes \subseteq Modules \X Modules
    BY LinkAssumption
  <1>1. CASE CallStep
    BY <1>1, CallsKeep, AddLinkSenderKeeps, AddLinkReceiverKeeps, RemoveLinkSenderKeeps, RemoveLinkReceiverKeeps,
       PublishNodeKeeps DEF CallStep
  <1>2. ASSUME NEW c \in Callers, CallerStep(c) PROVE IInv'
    <2>1. c \notin Modules
      BY LinkAssumption
    <2> SUFFICES CallersStep
      BY CallersKeep
    <2>2. ASSUME NEW l \in Routes, AddLink(c, l[1], l[2]) \/ AddLinkNoReceiver(c, l[1], l[2]) \/ RemoveLink(c, l[1], l[2])
          PROVE  CallersStep
      <3>1. l[1] \in Modules /\ l[2] \in Modules
        BY <1>0
      <3> QED BY <2>2, <3>1 DEF CallersStep
    <2>3. ASSUME NEW m \in Modules, Publish(c, m) PROVE CallersStep
      BY <2>1, <2>3 DEF CallersStep
    <2>4. ASSUME NEW m \in Modules, PublishUnknown(c, m) \/ RemoveModule(c, m) PROVE CallersStep
      BY <2>4 DEF CallersStep
    <2> QED BY <1>2, <2>2, <2>3, <2>4 DEF CallerStep
  <1>3. ASSUME NEW m \in Modules, ReceiverStep(m) \/ SpuriousWakeup(m) \/ CallPublish(m) PROVE IInv'
    <2>1. CASE Republish(m)
      <3>1. CallersStep
        BY <2>1 DEF Republish, CallersStep
      <3> QED BY <3>1, CallersKeep
    <2>2. CASE ~Republish(m)
      BY <1>3, <2>2, ThreadsKeep, LockKeeps, WalkSenderKeeps, WalkNodeKeeps, WalkTakeKeeps, WalkEndKeeps, ReceiveKeeps
         DEF ReceiverStep
    <2> QED BY <2>1, <2>2
  <1>4. CASE UNCHANGED vars
    <2>1. TypeOK'
      BY <1>4 DEF vars, history, IInv, TypeOK
    <2>2. published \in Nat /\ Linked \subseteq attached \X attached
      BY DEF IInv, TypeOK, ListsInv
    <2>3. \A s, k \in Modules : Adding(s, k)' = Adding(s, k) /\ Leaving(s, k)' = Leaving(s, k)
      BY <1>4 DEF vars, Adding, Leaving
    <2>4. (ListsInv /\ EntriesInv /\ WalkInv /\ NoLostWakeup /\ BatchInv /\ NumbersInv /\ InOrder)'
      BY <1>4, <2>2, <2>3, Quiet DEF vars, history
    <2>5. CallInv' /\ DueInv'
      BY <1>4, CallSame, DueSame DEF vars, history, IInv
    <2> QED BY <2>1, <2>4, <2>5 DEF IInv
  <1> QED BY <1>1, <1>2, <1>3, <1>4 DEF Next

\* The invariant holds in every state, the known races included.
THEOREM Invariance == Spec => []IInv
  BY InitInv, NextInv, PTL DEF Spec

LEMMA EndsMeet == IInv => EndsAgree
  <1> SUFFICES ASSUME IInv, Idle, NEW s \in attached, NEW k \in attached
               PROVE  /\ Cardinality(LinkNodes(s, k)) = linked[<<s, k>>]
                      /\ <<s, k>> \notin failed => Cardinality(Entries(s, k)) = linked[<<s, k>>]
    BY DEF EndsAgree
  <1>1. s \in Modules /\ k \in Modules
    BY DEF IInv, TypeOK
  <1>2. Cardinality(LinkNodes(s, k)) = linked[<<s, k>>]
    BY <1>1 DEF IInv, ListsInv
  <1>3. ASSUME <<s, k>> \notin failed PROVE Cardinality(Entries(s, k)) = linked[<<s, k>>]
    <2>1. One(Adding(s, k)) = 0 /\ One(Leaving(s, k)) = 0
      BY NoCallIs, NotEnds
    <2>2. Entries(s, k) = Places(senders[k], s)
      BY DEF Entries, Places
    <2>3. Cardinality(Places(senders[k], s)) \in Nat /\ linked[<<s, k>>] \in Nat
      BY <1>1, PlacesFinite DEF IInv, TypeOK
    <2>4. Cardinality(Places(senders[k], s)) + One(Leaving(s, k)) = linked[<<s, k>>] + One(Adding(s, k))
      BY <1>1, <1>3 DEF IInv, EntriesInv
    <2> QED BY <2>1, <2>2, <2>3, <2>4
  <1> QED BY <1>2, <1>3

\* What the thread that is joined does next never puts it to sleep.
LEMMA JoinedInit == Init => JoinedIsAwake
  BY NoCallIs DEF Init, JoinedIsAwake, Idle

LEMMA JoinedNext == TypeOK /\ JoinedIsAwake /\ [Next]_vars => JoinedIsAwake'
  <1> SUFFICES ASSUME TypeOK, JoinedIsAwake, [Next]_vars PROVE JoinedIsAwake'
    OBVIOUS
  <1>0. /\ rpc \in [Modules -> ReceiverStates] /\ toContinue \in [Modules -> BOOLEAN]
        /\ Routes \subseteq Modules \X Modules
    BY LinkAssumption DEF TypeOK
  <1>1. ASSUME call'.op # "join" PROVE JoinedIsAwake'
    BY <1>1 DEF JoinedIsAwake
  <1>3. CASE StopReceiver
    <2>1. ~Idle
      BY <1>3, NoCallIs DEF StopReceiver
    <2>2. PICK m \in Modules : m = call.sink
      BY <2>1, CallIs
    <2>3. call'.sink = m
      BY <1>3, <2>1, <2>2, GoOnIs DEF StopReceiver, Ops
    <2>4. toContinue' = [toContinue EXCEPT ![m] = FALSE] /\ rpc' = Post(m)
      BY <1>3, <2>2 DEF StopReceiver
    <2>5. ~toContinue'[m] /\ rpc'[m] # "wait"
      BY <1>0, <2>4, PostIs
    <2> QED BY <2>3, <2>5 DEF JoinedIsAwake
  <1>4. CASE AddLinkSender \/ AddLinkNoSender \/ AddLinkMake \/ AddLinkReady
    <2>1. ~Idle
      BY <1>4, NoCallIs DEF AddLinkSender, AddLinkNoSender, AddLinkMake, AddLinkReady
    <2>2. \E op \in Ops \ {"join"} : GoOn(op)
      BY <1>4 DEF AddLinkSender, AddLinkNoSender, AddLinkMake, AddLinkReady, Ops
    <2> QED BY <1>1, <2>1, <2>2, GoOnIs
  <1>10. CASE RemoveLinkSender
    <2>1. ~Idle
      BY <1>10, NoCallIs DEF RemoveLinkSender
    <2>2. call'.op = "free"
      BY <1>10, <2>1, UnlinkIs DEF RemoveLinkSender
    <2> QED BY <1>1, <2>2
  <1>5. CASE \/ AddLinkReceiver \/ AddLinkNoNode \/ AddLinkUnmade \/ RemoveLinkReceiver \/ RemoveLinkMissing
             \/ PublishEnd \/ JoinReceiver
    <2>1. End
      BY <1>5 DEF AddLinkReceiver, AddLinkNoNode, AddLinkUnmade, RemoveLinkReceiver, RemoveLinkMissing,
                  PublishEnd, JoinReceiver
    <2> QED BY <1>1, <2>1, EndIs
  <1>6. CASE PublishNode
    <2>1. call.op = "publish" /\ call' = [call EXCEPT !.at = @ + 1]
      BY <1>6 DEF PublishNode
    <2> QED BY <1>1, <2>1, NoCallIs, AdvanceIs
  <1>7. ASSUME NEW c \in Callers, CallerStep(c) PROVE JoinedIsAwake'
    <2>1. ASSUME NEW op \in Ops \ {"join"}, NEW t \in Modules \cup Callers, NEW s \in Modules, NEW k \in Modules,
                 Begin(t, op, s, k)
          PROVE  JoinedIsAwake'
      BY <1>1, <2>1, BeginIs
    <2>2. ASSUME NEW l \in Routes, AddLink(c, l[1], l[2]) \/ AddLinkNoReceiver(c, l[1], l[2]) \/ RemoveLink(c, l[1], l[2])
          PROVE  JoinedIsAwake'
      <3>1. l[1] \in Modules /\ l[2] \in Modules
        BY <1>0
      <3> QED BY <2>1, <2>2, <3>1 DEF AddLink, AddLinkNoReceiver, RemoveLink, Ops
    <2>3. ASSUME NEW m \in Modules, Publish(c, m) \/ PublishUnknown(c, m) PROVE JoinedIsAwake'
      BY <2>1, <2>3 DEF Publish, PublishUnknown, Ops
    <2>4. ASSUME NEW m \in Modules, RemoveModule(c, m) PROVE JoinedIsAwake'
      <3>1. CASE rpc[m] = "none"
        <4>1. call'.sink = m /\ rpc' = rpc
          BY <2>4, <3>1, BeginIs DEF RemoveModule, Ops
        <4> QED BY <3>1, <4>1 DEF JoinedIsAwake
      <3>2. CASE rpc[m] # "none"
        BY <2>1, <2>4, <3>2 DEF RemoveModule, Ops
      <3> QED BY <3>1, <3>2
    <2> QED BY <1>7, <2>2, <2>3, <2>4 DEF CallerStep
  <1>8. ASSUME NEW m \in Modules, ReceiverStep(m) \/ SpuriousWakeup(m) \/ CallPublish(m) PROVE JoinedIsAwake'
    <2>1. CASE Republish(m)
      <3>1. Begin(m, "publish", m, m)
        BY <2>1 DEF Republish, Publish
      <3> QED BY <1>1, <3>1, BeginIs DEF Ops
    <2>2. CASE ~Republish(m)
      <3>1. call' = call /\ toContinue' = toContinue
        BY <1>8, <2>2 DEF ReceiverStep, ReceiverLock, ReceiverStop, ReceiverWake, StartWalk, WalkSender, WalkNode,
                          WalkTake, WalkEnd, Crash, Receive, ReceiveReturn, BatchDone, SpuriousWakeup, CallPublish
      <3>2. /\ rpc[m] # "none" /\ \A k \in Modules \ {m} : rpc'[k] = rpc[k]
            /\ rpc'[m] = "wait" => rpc[m] = "wait" \/ toContinue[m]
        <4> USE <1>0
        <4>1. CASE ReceiverLock(m) \/ ReceiverWake(m) \/ ReceiverStop(m)
          BY <4>1 DEF ReceiverLock, ReceiverWake, StartWalk, ReceiverStop
        <4>2. CASE WalkSender(m) \/ WalkNode(m) \/ WalkTake(m) \/ Crash(m)
          BY <4>2 DEF WalkSender, WalkNode, WalkTake, Crash, Walking
        <4>3. CASE WalkEnd(m)
          BY <4>3 DEF WalkEnd
        <4>4. CASE Receive(m) \/ ReceiveReturn(m) \/ BatchDone(m) \/ SpuriousWakeup(m) \/ CallPublish(m)
          BY <4>4 DEF Receive, ReceiveReturn, BatchDone, SpuriousWakeup, CallPublish
        <4> QED BY <1>8, <2>2, <4>1, <4>2, <4>3, <4>4 DEF ReceiverStep
      <3>3. ASSUME call.op = "join" PROVE call.sink \in Modules
        BY <3>3, CallIs, NoCallIs
      <3> QED BY <3>1, <3>2, <3>3 DEF JoinedIsAwake
    <2> QED BY <2>1, <2>2
  <1>9. CASE UNCHANGED vars
    BY <1>9 DEF vars, JoinedIsAwake
  <1> QED BY <1>3, <1>4, <1>5, <1>6, <1>7, <1>8, <1>9, <1>10 DEF Next, CallStep

\* The lists of links are consistent and what hangs on them is, for any modules and
\* links, those made twice and those of which a call failed included: between two
\* calls of the broker a link has as many nodes at its source as calls have made and
\* not removed, and, unless one of them failed part-way, as many entries at its sink;
\* no receiver waits with messages left for it in a node its walk gets to; every node
\* keeps the order of publication; and a receiver that is joined is awake
\* (Broker_AddLink, Broker_RemoveLink, Broker_Publish, Broker_RemoveModule and the
\* receiver threads, thread type).
THEOREM ListsConsistent == Spec => []LinksInv
  <1>1. IInv /\ JoinedIsAwake => LinksInv
    BY EndsMeet DEF LinksInv, IInv
  <1>2. IInv /\ JoinedIsAwake /\ [Next]_vars => JoinedIsAwake'
    BY JoinedNext DEF IInv
  <1> QED BY <1>1, <1>2, JoinedInit, Invariance, PTL DEF Spec

\* A receiver that has ended, or was never made, has handed over all it took
\* (deinit_module frees it).
THEOREM TakenIsHanded == Spec => []NothingTakenIsDropped
  <1>1. IInv => NothingTakenIsDropped
    BY DEF IInv, BatchInv, NothingTakenIsDropped
  <1> QED BY <1>1, Invariance, PTL
-----------------------------------------------------------------------------
(* No receiver thread meets a bad pointer, in a safe topology, while every   *)
(* call makes its link once and in full.                                     *)

\* Then a source is once in a receiver's list, while it has a node for it or is getting one.
LEMMA Simple ==
  ASSUME Clean, IInv, NEW s \in Modules, NEW k \in Modules, s \in Range(senders[k])
  PROVE  /\ <<s, k>> \in Linked \/ Adding(s, k)
         /\ ~Leaving(s, k)
         /\ \A i, j \in DOMAIN senders[k] : senders[k][i] = s /\ senders[k][j] = s => i = j
  <1> DEFINE P == Places(senders[k], s)
  <1>1. IsFiniteSet(P) /\ Cardinality(P) \in Nat /\ Cardinality(P) # 0
    BY PlacesFinite DEF IInv, TypeOK
  <1>2. Cardinality(P) + One(Leaving(s, k)) = linked[<<s, k>>] + One(Adding(s, k))
    BY DEF IInv, EntriesInv, Clean
  <1>3. /\ linked[<<s, k>>] \in Nat /\ linked[<<s, k>>] <= 1
        /\ linked[<<s, k>>] > 0 <=> <<s, k>> \in Linked
    BY HasNode DEF IInv, ListsInv, Clean
  <1>4. /\ Adding(s, k) => linked[<<s, k>>] = 0
        /\ ~(Adding(s, k) /\ Leaving(s, k))
    BY DEF IInv, CallInv, Clean, Adding, Leaving
  <1>5. /\ One(Adding(s, k)) = IF Adding(s, k) THEN 1 ELSE 0
        /\ One(Leaving(s, k)) = IF Leaving(s, k) THEN 1 ELSE 0
    BY DEF One
  <1> HIDE DEF P
  <1>6. Cardinality(P) = 1 /\ ~Leaving(s, k) /\ (<<s, k>> \in Linked \/ Adding(s, k))
    BY <1>1, <1>2, <1>3, <1>4, <1>5
  <1>7. \E x : P = {x}
    BY <1>1, <1>6, FS_Singleton
  <1> QED BY <1>6, <1>7 DEF P, Places

\* No call fails or makes a link a second time.
LEMMA CleanBefore ==
  ASSUME [Next]_vars, Clean'
  PROVE  Clean
  <1>1. UNCHANGED history => doubled \subseteq doubled' /\ failed \subseteq failed'
    BY DEF history
  <1>2. CASE CallStep
    BY <1>1, <1>2 DEF CallStep, AddLinkSender, AddLinkNoSender, AddLinkMake, AddLinkReady, AddLinkUnmade,
         AddLinkReceiver, AddLinkNoNode, RemoveLinkSender, RemoveLinkReceiver, RemoveLinkMissing, PublishNode,
         PublishEnd, StopReceiver, JoinReceiver, registry, Fails, Clean
  <1>3. ASSUME NEW c \in Callers, CallerStep(c) PROVE Clean
    BY <1>1, <1>3 DEF CallerStep, AddLink, AddLinkNoReceiver, RemoveLink, Publish, PublishUnknown, RemoveModule,
         MayAdd, registry, Fails, Clean
  <1>4. ASSUME NEW m \in Modules, ReceiverStep(m) \/ SpuriousWakeup(m) \/ CallPublish(m) PROVE Clean
    BY <1>1, <1>4 DEF ReceiverStep, ReceiverLock, ReceiverStop, ReceiverWake, StartWalk, WalkSender, WalkNode,
         WalkTake, WalkEnd, Crash, Receive, ReceiveReturn, BatchDone, Republish, Publish, SpuriousWakeup,
         CallPublish, registry, Clean
  <1>5. CASE UNCHANGED vars
    BY <1>1, <1>5 DEF vars, Clean
  <1> QED BY <1>2, <1>3, <1>4, <1>5 DEF Next

\* Who is in a receiver's list of sources is ready.
LEMMA SourcesReady ==
  ASSUME SafeTopology, Clean, IInv, SafeInv, NEW k \in Modules, NEW s \in Modules, s \in Range(senders[k])
  PROVE  MayLink(s, k) /\ sender[s] = "ready"
  <1> USE DEF IInv
  <1>1. <<s, k>> \in Linked \/ Adding(s, k)
    BY Simple
  <1>2. MayLink(s, k)
    BY <1>1 DEF SafeInv, Adding
  <1>3. s \in attached
    BY <1>1, NoCallIs DEF ListsInv, Adding, CallInv
  <1>4. ~(call.op \in {"stop", "join"} /\ call.src = s)
    <2> SUFFICES ASSUME call.op \in {"stop", "join"}, call.src = s PROVE FALSE
      OBVIOUS
    <2>1. call.sink = s /\ ~Adding(s, k)
      BY DEF SafeInv, Adding
    <2> QED BY <1>1, <2>1 DEF CallInv
  <1>5. PICK l \in Modules : <<s, l>> \in Range(InitLinks)
    BY <1>2 DEF SafeTopology
  <1> QED BY <1>2, <1>3, <1>4, <1>5 DEF SafeInv

LEMMA NoBadPointer ==
  ASSUME SafeTopology, Clean, IInv, SafeInv, NEW m \in Modules
  PROVE  ~Crash(m)
  <1> USE DEF IInv
  <1> SUFFICES ASSUME Crash(m) PROVE FALSE
    OBVIOUS
  <1>1. /\ rpc[m] = "walk" /\ Walking(m)
        /\ \/ cur[m] = NoNode /\ sender[Source(m)] \in {"none", "raw"}
           \/ cur[m] # NoNode /\ cur[m] \notin NodesOf(Source(m))
           \/ lostTail[m]
    BY DEF Crash, Walking
  <1>2. SafeWalk(m) /\ walk[m] > 0
    BY <1>1 DEF SafeInv, WalkInv, HasWalked
  <1>3. PICK s \in Modules : s = Source(m)
    BY <1>1, <1>2, SourceTyped
  <1>4. walk[m] \in DOMAIN senders[m] /\ senders[m][walk[m]] = s
    BY <1>1, <1>2, <1>3, SourceTyped DEF Source
  <1>5. CASE cur[m] = NoNode /\ sender[s] \in {"none", "raw"}
    <2>1. s \in Range(senders[m])
      BY <1>4 DEF Range
    <2> QED BY <1>5, <2>1, SourcesReady
  <1>6. CASE lostTail[m]
    <2>1. walk[m] > 2 /\ DOMAIN senders[m] = 1..Len(senders[m]) /\ Len(senders[m]) \in Nat /\ walk[m] \in Nat
      BY <1>2, <1>6, ListsTyped DEF SafeWalk, TypeOK
    <2>2. 1 \in DOMAIN senders[m] /\ 2 \in DOMAIN senders[m] /\ walk[m] # 1 /\ walk[m] # 2
      BY <1>4, <2>1
    <2>3. PICK t, r \in Modules : t = senders[m][1] /\ r = senders[m][2]
      BY <2>2, ListsTyped
    <2>5. s \in Range(senders[m]) /\ t \in Range(senders[m]) /\ r \in Range(senders[m])
      BY <1>4, <2>2, <2>3 DEF Range
    <2>7. ASSUME NEW x \in Modules, x \in Range(senders[m])
          PROVE  \A i, j \in DOMAIN senders[m] : senders[m][i] = x /\ senders[m][j] = x => i = j
      BY <2>7, Simple
    <2>4. s # t /\ s # r /\ t # r
      BY <1>4, <2>2, <2>3, <2>5, <2>7
    <2>6. MayLink(s, m) /\ MayLink(t, m) /\ MayLink(r, m)
      BY <2>5, SourcesReady
    <2> QED BY <2>4, <2>6 DEF SafeTopology
  <1> QED BY <1>1, <1>2, <1>3, <1>5, <1>6 DEF SafeWalk

LEMMA InitSafe == Init => SafeInv
  <1> SUFFICES ASSUME Init PROVE SafeInv
    OBVIOUS
  <1>1. /\ ~crashed /\ call = NoCall /\ TypeOK
        /\ linked = [l \in Modules \X Modules |-> IF l \in Range(InitLinks) THEN 1 ELSE 0]
    BY InitType DEF Init
  <1>2. \A k \in Modules : rpc[k] # "walk"
    BY DEF Init
  <1>3. \A l \in Linked : MayLink(l[1], l[2])
    <2> SUFFICES ASSUME NEW l \in Linked PROVE MayLink(l[1], l[2])
      OBVIOUS
    <2>1. l \in Range(InitLinks) /\ l = <<l[1], l[2]>>
      BY <1>1 DEF Linked
    <2> QED BY <2>1 DEF MayLink
  <1>4. ASSUME NEW s \in Modules, NEW k \in Modules, <<s, k>> \in Range(InitLinks) PROVE sender[s] = "ready"
    <2>1. PICK i \in DOMAIN InitLinks : InitLinks[i] = <<s, k>>
      BY <1>4 DEF Range
    <2>2. HasLinks(receivers[s], s, 1)
      BY DEF Init
    <2>3. i \in Range(receivers[s])
      BY <2>1, <2>2 DEF HasLinks
    <2>4. receivers[s] # <<>>
      BY <2>3 DEF Range
    <2> QED BY <2>4 DEF Init
  <1> QED BY <1>1, <1>2, <1>3, <1>4 DEF SafeInv, NoCall, TypeOK

\* The steps of a receiver's thread.
LEMMA SafeThread ==
  ASSUME SafeTopology, Clean, IInv, IInv', SafeInv, NEW m \in Modules,
         \/ ReceiverLock(m) \/ ReceiverStop(m) \/ ReceiverWake(m) \/ WalkSender(m) \/ WalkNode(m)
         \/ WalkTake(m) \/ WalkEnd(m) \/ Crash(m) \/ Receive(m) \/ ReceiveReturn(m) \/ BatchDone(m)
         \/ SpuriousWakeup(m) \/ CallPublish(m)
  PROVE  SafeInv'
  <1>0. TypeOK /\ WalkInv
    BY DEF IInv
  <1>1. ~Crash(m)
    BY NoBadPointer
  <1>2. UNCHANGED <<registry, call, crashed>>
    BY <1>1 DEF ReceiverLock, ReceiverStop, ReceiverWake, StartWalk, WalkSender, WalkNode, WalkTake, WalkEnd,
                Receive, ReceiveReturn, BatchDone, SpuriousWakeup, CallPublish
  <1>3. ASSUME NEW k \in Modules, rpc'[k] = "walk",
               rpc[k] = "walk", walk'[k] = walk[k], cur'[k] = cur[k], lostTail'[k] = lostTail[k], batch'[k] = batch[k]
        PROVE  SafeWalk(k)'
    <2>1. SafeWalk(k)
      BY <1>3 DEF SafeInv
    <2> QED BY <1>2, <1>3, <2>1 DEF SafeWalk, Source, NodesOf, registry
  <1>4. \A k \in Modules \ {m} :
           rpc'[k] = rpc[k] /\ walk'[k] = walk[k] /\ cur'[k] = cur[k] /\ lostTail'[k] = lostTail[k] /\ batch'[k] = batch[k]
    <2> USE <1>0, <1>1 DEF TypeOK
    <2>1. CASE ReceiverLock(m) \/ ReceiverWake(m)
      BY <2>1 DEF ReceiverLock, ReceiverWake, StartWalk
    <2>2. CASE WalkSender(m) \/ WalkNode(m)
      BY <2>2 DEF WalkSender, WalkNode, WalkTo
    <2>3. CASE WalkTake(m)
      BY <2>3 DEF WalkTake, WalkTo
    <2>4. CASE ReceiverStop(m) \/ WalkEnd(m) \/ Receive(m) \/ ReceiveReturn(m) \/ BatchDone(m)
               \/ SpuriousWakeup(m) \/ CallPublish(m)
      BY <2>4 DEF ReceiverStop, WalkEnd, Receive, ReceiveReturn, BatchDone, SpuriousWakeup, CallPublish, walker
    <2> QED BY <2>1, <2>2, <2>3, <2>4
  <1>5. ASSUME rpc'[m] = "walk" PROVE SafeWalk(m)'
    <2>1. CASE ReceiverLock(m) \/ ReceiverWake(m)
      <3>1. walk'[m] = 1 /\ cur'[m] = NoNode /\ ~lostTail'[m] /\ batch'[m] = batch[m] /\ rpc[m] \in {"lock", "woken"}
        BY <1>0, <2>1 DEF ReceiverLock, ReceiverWake, StartWalk, TypeOK
      <3>2. batch[m] = <<>>
        BY <3>1 DEF IInv, BatchInv
      <3> QED BY <3>1, <3>2 DEF SafeWalk
    <2>2. CASE WalkSender(m) \/ WalkNode(m) \/ WalkTake(m)
      <3>1. rpc[m] = "walk" /\ Walking(m) /\ SafeWalk(m) /\ walk[m] > 0 /\ walk[m] \in Nat
        BY <1>0, <2>2 DEF WalkSender, WalkNode, WalkTake, Walking, SafeInv, WalkInv, HasWalked, TypeOK
      <3>2. PICK s \in Modules : s = Source(m)
        BY <1>0, <3>1, SourceTyped
      <3>3. receivers[s] \in Seq(Nodes) /\ receivers' = receivers /\ senders' = senders
        BY <1>0, <1>2 DEF TypeOK, registry
      <3>4. ASSUME NEW n, WalkTo(m, n), n # NoNode => n \in NodesOf(s)
            PROVE  /\ cur'[m] # NoNode => cur'[m] \in NodesOf(Source(m))'
                   /\ walk'[m] \in {walk[m], walk[m] + 1}
        <4>1. cur'[m] = n /\ walk'[m] = IF n = NoNode THEN walk[m] + 1 ELSE walk[m]
          BY <1>0, <3>4 DEF WalkTo, TypeOK
        <4>2. n # NoNode => Source(m)' = s
          BY <3>2, <3>3, <4>1 DEF Source
        <4> QED BY <3>3, <3>4, <4>1, <4>2 DEF NodesOf
      <3>5. CASE WalkTake(m)
        <4>1. walk'[m] = walk[m] + 1 /\ cur'[m] = NoNode /\ lostTail'[m] = (Splice(m) /\ sending[cur[m]] = <<>>)
          BY <1>0, <3>5 DEF WalkTake, WalkTo, TypeOK
        <4>2. lostTail'[m] => walk[m] # 1
          BY <3>1, <4>1 DEF Splice, SafeWalk
        <4> QED BY <3>1, <4>1, <4>2 DEF SafeWalk
      <3>6. CASE WalkSender(m)
        <4>1. PICK n : n = IF receivers[s] = <<>> THEN NoNode ELSE Head(receivers[s])
          OBVIOUS
        <4>2. WalkTo(m, n) /\ lostTail'[m] = lostTail[m] /\ batch'[m] = batch[m]
          BY <3>2, <3>6, <4>1 DEF WalkSender
        <4>3. n # NoNode => n \in NodesOf(s)
          <5> SUFFICES ASSUME receivers[s] # <<>> PROVE Head(receivers[s]) \in NodesOf(s)
            BY <4>1
          <5>1. Head(receivers[s]) = receivers[s][1] /\ 1 \in DOMAIN receivers[s]
            BY <3>3, SeqTail
          <5> QED BY <5>1 DEF NodesOf, Range
        <4> QED BY <3>1, <3>4, <4>2, <4>3 DEF SafeWalk
      <3>7. CASE WalkNode(m)
        <4>1. PICK n : n = NextNode(s, cur[m])
          OBVIOUS
        <4>2. WalkTo(m, n) /\ lostTail'[m] = lostTail[m] /\ batch'[m] = batch[m] /\ cur[m] \in NodesOf(s)
          BY <3>2, <3>7, <4>1 DEF WalkNode
        <4>3. n # NoNode => n \in NodesOf(s)
          <5>1. PICK i \in DOMAIN receivers[s] : receivers[s][i] = cur[m]
            BY <4>2 DEF NodesOf, Range
          <5>2. n = IF i < Len(receivers[s]) THEN receivers[s][i + 1] ELSE NoNode
            BY <4>1, <5>1, NextNodeIs DEF IInv, ListsInv
          <5>3. i < Len(receivers[s]) => i + 1 \in DOMAIN receivers[s]
            BY <3>3
          <5> QED BY <5>2, <5>3 DEF NodesOf, Range
        <4> QED BY <3>1, <3>4, <4>2, <4>3 DEF SafeWalk
      <3> QED BY <2>2, <3>5, <3>6, <3>7
    <2>3. CASE ReceiverStop(m) \/ WalkEnd(m) \/ Receive(m) \/ ReceiveReturn(m) \/ BatchDone(m)
               \/ SpuriousWakeup(m) \/ CallPublish(m)
      <3>1. rpc'[m] # "walk"
        BY <1>0, <2>3 DEF TypeOK, ReceiverStop, WalkEnd, Receive, ReceiveReturn, BatchDone, SpuriousWakeup, CallPublish
      <3> QED BY <1>5, <3>1
    <2> QED BY <1>1, <2>1, <2>2, <2>3
  <1>6. \A k \in Modules : rpc'[k] = "walk" => SafeWalk(k)'
    BY <1>3, <1>4, <1>5
  <1> QED BY <1>2, <1>6 DEF SafeInv, registry, Linked

\* The steps of calls: no walk's node is freed, as the source of a link that is removed
\* has no other sink.
LEMMA SafeCallers ==
  ASSUME SafeTopology, Clean', IInv, SafeInv,
         \/ \E c \in Callers : \E l \in Routes :
              AddLink(c, l[1], l[2]) \/ AddLinkNoReceiver(c, l[1], l[2]) \/ RemoveLink(c, l[1], l[2])
         \/ \E t \in Modules \cup Callers, s \in Modules : Publish(t, s)
         \/ \E c \in Callers, m \in Modules : PublishUnknown(c, m) \/ RemoveModule(c, m)
  PROVE  SafeInv'
  <1>0. TypeOK /\ Routes \subseteq Modules \X Modules
    BY LinkAssumption DEF IInv
  <1>9. \A s, k : ~Fails(s, k)
    BY DEF Fails, Clean
  <1>1. UNCHANGED <<attached, receivers, dst, senders, linked, walk, cur, lostTail, batch, crashed>>
    BY <1>9 DEF AddLink, AddLinkNoReceiver, RemoveLink, Publish, PublishUnknown, RemoveModule, registry, walker
  <1>2. \A k \in Modules : rpc'[k] = "walk" => rpc[k] = "walk"
    <2>1. rpc' = rpc \/ \E k : rpc' = [rpc EXCEPT ![k] = "lock"]
      BY <1>9 DEF AddLink, AddLinkNoReceiver, RemoveLink, Publish, PublishUnknown, RemoveModule
    <2>2. rpc \in [Modules -> ReceiverStates]
      BY <1>0 DEF TypeOK
    <2> QED BY <2>1, <2>2
  <1>3. \A k \in Modules : rpc'[k] = "walk" => SafeWalk(k)'
    <2> SUFFICES ASSUME NEW k \in Modules, rpc'[k] = "walk" PROVE SafeWalk(k)'
      OBVIOUS
    <2>1. SafeWalk(k)
      BY <1>2 DEF SafeInv
    <2> QED BY <1>1, <2>1 DEF SafeWalk, Source, NodesOf
  <1>4. call.op = "none"
    BY NoCallIs DEF AddLink, AddLinkNoReceiver, MayAdd, RemoveLink, Publish, PublishUnknown, RemoveModule
  <1>5. ASSUME NEW c \in Callers, NEW l \in Routes, AddLink(c, l[1], l[2]) PROVE SafeInv'
    <2>1. l[1] \in Modules /\ l[2] \in Modules /\ l = <<l[1], l[2]>>
      BY <1>0
    <2>2. call'.op = "sender" /\ call'.src = l[1] /\ call'.sink = l[2] /\ sender' = sender
      BY <1>5, <2>1, BeginIs DEF AddLink, Ops, registry
    <2>3. MayLink(call'.src, call'.sink)
      BY <2>1, <2>2 DEF MayLink
    <2> QED BY <1>1, <1>3, <1>4, <2>2, <2>3 DEF SafeInv, MayLink, Linked
  <1>6. ASSUME NEW c \in Callers, NEW l \in Routes, RemoveLink(c, l[1], l[2]) PROVE SafeInv'
    <2>1. l[1] \in Modules /\ l[2] \in Modules
      BY <1>0
    <2>2. call'.op = "unlink" /\ call'.src = l[1] /\ call'.sink = l[2] /\ sender' = sender
      BY <1>6, <2>1, BeginIs DEF RemoveLink, Ops, registry
    <2>3. <<call'.src, call'.sink>> \in Routes
      BY <1>0, <2>2
    <2> QED BY <1>1, <1>3, <1>4, <2>2, <2>3 DEF SafeInv, Linked
  <1>7. ASSUME NEW t \in Modules \cup Callers, NEW s \in Modules, Publish(t, s) \/ PublishUnknown(t, s) PROVE SafeInv'
    <2>1. call'.op \in {"publish", "kept"} /\ sender' = sender
      BY <1>7, BeginIs DEF Publish, PublishUnknown, Ops, registry
    <2> QED BY <1>1, <1>3, <1>4, <2>1 DEF SafeInv, Linked
  <1>8. ASSUME NEW c \in Callers, NEW m \in Modules, RemoveModule(c, m) PROVE SafeInv'
    <2>1. call'.op \in {"join", "stop"} /\ call'.src = m /\ call'.sink = m
      BY <1>8, BeginIs DEF RemoveModule, Ops
    <2>2. \A s \in Modules \ {m} : sender'[s] = sender[s]
      BY <1>0, <1>8 DEF RemoveModule, TypeOK
    <2>3. \A s \in attached', k \in Modules :
             <<s, k>> \in Range(InitLinks) /\ ~(call'.op \in {"stop", "join"} /\ call'.src = s) => sender'[s] = "ready"
      BY <1>0, <1>1, <1>4, <2>1, <2>2 DEF SafeInv, TypeOK
    <2> QED BY <1>1, <1>3, <2>1, <2>3 DEF SafeInv, Linked
  <1> QED BY <1>5, <1>6, <1>7, <1>8, <1>9 DEF AddLinkNoReceiver

LEMMA FewerLinked ==
  ASSUME IInv, NEW s \in Modules, NEW k \in Modules, Forget(s, k)
  PROVE  \A l \in Linked' : l \in Linked
  <1> SUFFICES ASSUME NEW l \in Modules \X Modules, linked'[l] > 0 PROVE linked[l] > 0
    BY DEF Linked
  <1>1. TypeOK
    BY DEF IInv
  <1>2. /\ linked[<<s, k>>] \in Nat
        /\ linked'[<<s, k>>] = IF linked[<<s, k>>] > 0 THEN linked[<<s, k>>] - 1 ELSE 0
        /\ l # <<s, k>> => linked'[l] = linked[l]
    BY <1>1, OneLess
  <1>3. CASE l = <<s, k>>
    BY <1>2, <1>3
  <1>4. CASE l # <<s, k>>
    BY <1>2, <1>4
  <1> QED BY <1>3, <1>4

LEMMA SafeCalls ==
  ASSUME SafeTopology, Clean, Clean', IInv, IInv', SafeInv, CallStep
  PROVE  SafeInv'
  <1>0. TypeOK /\ ListsInv /\ CallInv /\ TypeOK'
    BY DEF IInv
  <1>1. ~Idle
    <2>1. CASE AddLinkSender \/ AddLinkMake \/ AddLinkReady \/ AddLinkReceiver
      BY <2>1, NoCallIs DEF AddLinkSender, AddLinkMake, AddLinkReady, AddLinkReceiver
    <2>2. CASE RemoveLinkSender
      BY <2>2, NoCallIs DEF RemoveLinkSender
    <2>3. CASE RemoveLinkReceiver \/ RemoveLinkMissing
      BY <2>3, NoCallIs DEF RemoveLinkReceiver, RemoveLinkMissing
    <2>6. CASE AddLinkNoSender \/ AddLinkUnmade \/ AddLinkNoNode
      BY <2>6, NoCallIs DEF AddLinkNoSender, AddLinkUnmade, AddLinkNoNode
    <2>4. CASE PublishNode
      BY <2>4, NoCallIs DEF PublishNode
    <2>5. CASE PublishEnd \/ StopReceiver \/ JoinReceiver
      BY <2>5, NoCallIs DEF PublishEnd, StopReceiver, JoinReceiver
    <2> QED BY <2>1, <2>2, <2>3, <2>4, <2>5, <2>6 DEF CallStep
  <1>2. PICK s \in Modules, k \in Modules : s = call.src /\ k = call.sink
    BY <1>0, <1>1, CallIs
  <1>3. ASSUME UNCHANGED <<walk, cur, lostTail, batch>>, NEW m \in Modules, rpc'[m] = "walk" => rpc[m] = "walk",
               rpc'[m] = "walk",
               \A t \in Modules : cur[m] \in NodesOf(t) /\ t = Source(m) => t = Source(m)' /\ cur[m] \in NodesOf(t)'
        PROVE  SafeWalk(m)'
    <2>1. SafeWalk(m) /\ HasWalked(m)
      BY <1>3 DEF SafeInv, IInv, WalkInv
    <2>2. ASSUME cur[m] # NoNode PROVE (cur[m] \in NodesOf(Source(m)))'
      <3>1. PICK t \in Modules : t = Source(m)
        BY <1>0, <2>1, <2>2, ListsTyped DEF HasWalked, Source
      <3>2. cur[m] \in NodesOf(t)
        BY <2>1, <2>2, <3>1 DEF SafeWalk
      <3>3. t = Source(m)' /\ cur[m] \in NodesOf(t)' /\ cur'[m] = cur[m]
        BY <1>3, <3>1, <3>2
      <3> QED BY <3>3 DEF NodesOf
    <2> QED BY <1>3, <2>1, <2>2 DEF SafeWalk
  <1>4. ASSUME UNCHANGED <<receivers, senders, walk, cur, lostTail, batch>>,
               \A m \in Modules : rpc'[m] = "walk" => rpc[m] = "walk"
        PROVE  \A m \in Modules : rpc'[m] = "walk" => SafeWalk(m)'
    <2> SUFFICES ASSUME NEW m \in Modules, rpc'[m] = "walk" PROVE SafeWalk(m)'
      OBVIOUS
    <2> QED BY <1>3, <1>4 DEF Source, NodesOf
  <1>5. CASE AddLinkSender
    <2>1. UNCHANGED <<attached, sender, receivers, linked, walk, cur, lostTail, batch, rpc, crashed>>
      BY <1>5 DEF AddLinkSender, walker
    <2>2. call.op = "sender" /\ MayLink(s, k) /\ s \in attached
      BY <1>0, <1>1, <1>2, <1>5 DEF AddLinkSender, SafeInv, CallInv
    <2>3. PICK l \in Modules : <<s, l>> \in Range(InitLinks)
      BY <2>2 DEF SafeTopology
    <2>4. sender[s] = "ready"
      BY <2>2, <2>3 DEF SafeInv
    <2>5. GoOn("receiver")
      BY <1>2, <1>5, <2>4 DEF AddLinkSender
    <2>6. call'.op = "receiver" /\ call'.src = s /\ call'.sink = k
      BY <1>0, <1>1, <1>2, <2>5, GoOnIs DEF Ops
    <2>7. ASSUME NEW m \in Modules, rpc'[m] = "walk" PROVE SafeWalk(m)'
      <3>1. HasWalked(m) /\ SafeWalk(m)
        BY <2>1, <2>7 DEF IInv, WalkInv, SafeInv
      <3>2. CASE cur[m] = NoNode
        BY <2>1, <3>1, <3>2 DEF SafeWalk
      <3>3. CASE cur[m] # NoNode
        <4>1. walk[m] \in DOMAIN senders[m] /\ senders[m] \in Seq(Modules)
          BY <1>0, <3>1, <3>3 DEF HasWalked, TypeOK
        <4>2. senders'[m] = IF m = k THEN Append(senders[m], s) ELSE senders[m]
          <5>1. senders' = [senders EXCEPT ![k] = Append(@, s)]
            BY <1>2, <1>5 DEF AddLinkSender
          <5>2. DOMAIN senders = Modules
            BY <1>0 DEF TypeOK
          <5> QED BY <5>1, <5>2
        <4>3. Append(senders[m], s)[walk[m]] = senders[m][walk[m]]
          BY <4>1, SeqAppend
        <4>4. Source(m)' = Source(m)
          BY <2>1, <4>2, <4>3 DEF Source
        <4>5. \A t \in Modules : NodesOf(t)' = NodesOf(t)
          BY <2>1 DEF NodesOf
        <4> QED BY <1>3, <2>1, <2>7, <4>4, <4>5
      <3> QED BY <3>2, <3>3
    <2>8. MayLink(call'.src, call'.sink)
      BY <2>2, <2>6
    <2> QED BY <2>1, <2>2, <2>6, <2>7, <2>8 DEF SafeInv, MayLink, Linked
  <1>6. CASE AddLinkMake \/ AddLinkReady
    BY <1>6 DEF AddLinkMake, AddLinkReady, SafeInv
  <1>7. CASE AddLinkReceiver
    <2>1. UNCHANGED <<attached, sender, senders, walk, cur, lostTail, batch, rpc, crashed>>
          /\ linked' = [linked EXCEPT ![<<s, k>>] = @ + 1] /\ call.op = "receiver"
      BY <1>2, <1>7 DEF AddLinkReceiver, walker
    <2>2. call'.op = "none"
      BY <1>7, EndIs DEF AddLinkReceiver
    <2>3. \A t \in Modules : \A o \in NodesOf(t) : o \in NodesOf(t)'
      <3>1. \E n \in Nodes : \A t \in Modules : NodesOf(t)' = IF t = s THEN NodesOf(s) \cup {n} ELSE NodesOf(t)
        BY <1>2, <1>7, NewNode
      <3> QED BY <3>1
    <2>4. \A m \in Modules : rpc'[m] = "walk" => SafeWalk(m)'
      <3> SUFFICES ASSUME NEW m \in Modules, rpc'[m] = "walk" PROVE SafeWalk(m)'
        OBVIOUS
      <3>1. Source(m)' = Source(m)
        BY <2>1 DEF Source
      <3> QED BY <1>3, <2>1, <2>3, <3>1
    <2>5. MayLink(s, k)
      BY <1>2, <2>1 DEF SafeInv
    <2>6. ASSUME NEW l \in Linked' PROVE MayLink(l[1], l[2])
      <3>1. CASE l = <<s, k>>
        BY <2>5, <3>1
      <3>2. CASE l # <<s, k>>
        <4>1. l \in Linked
          BY <1>0, <2>1, <3>2, OneMore DEF Linked
        <4> QED BY <4>1 DEF SafeInv
      <3> QED BY <3>1, <3>2
    <2> QED BY <2>1, <2>2, <2>4, <2>6 DEF SafeInv, MayLink
  <1>8. CASE RemoveLinkSender
    <2>1. UNCHANGED <<attached, sender, receivers, linked, walk, cur, lostTail, batch, rpc, crashed>>
          /\ call.op = "unlink" /\ rlock[k] = NoThread
      BY <1>2, <1>8 DEF RemoveLinkSender, walker, ReceiverLockFree
    <2>2. call'.op = "free" /\ call'.src = call.src /\ call'.sink = call.sink
      BY <1>0, <1>1, <1>8, UnlinkIs DEF RemoveLinkSender
    <2>3. rpc[k] # "walk"
      BY <1>0, <2>1, LinkAssumption DEF TypeOK
    <2>4. \A m \in Modules \ {k} : senders'[m] = senders[m]
      BY <1>0, <1>2, <1>8 DEF RemoveLinkSender, TypeOK
    <2>5. \A m \in Modules : rpc'[m] = "walk" => SafeWalk(m)'
      <3> SUFFICES ASSUME NEW m \in Modules, rpc'[m] = "walk" PROVE SafeWalk(m)'
        OBVIOUS
      <3>1. m # k
        BY <2>1, <2>3
      <3>2. Source(m)' = Source(m) /\ \A t \in Modules : NodesOf(t)' = NodesOf(t)
        BY <2>1, <2>4, <3>1 DEF Source, NodesOf
      <3> QED BY <1>3, <2>1, <3>2
    <2> QED BY <2>1, <2>2, <2>5 DEF SafeInv, Linked
  <1>9. CASE RemoveLinkReceiver
    <2>1. UNCHANGED <<attached, sender, senders, walk, cur, lostTail, batch, rpc, crashed>>
          /\ call.op = "free"
      BY <1>2, <1>9 DEF RemoveLinkReceiver, walker
    <2>6. \A l \in Linked' : l \in Linked
      BY <1>2, <1>9, FewerLinked DEF RemoveLinkReceiver
    <2>2. call'.op = "none"
      BY <1>9, EndIs DEF RemoveLinkReceiver
    <2>3. <<s, k>> \in Routes
      BY <1>2, <2>1 DEF SafeInv
    <2>4. \A t \in Modules \ {s} : NodesOf(t)' = NodesOf(t)
      <3>1. PICK n \in Nodes : \A t \in Modules \ {s} : receivers'[t] = receivers[t]
        BY <1>2, <1>9, FreedNode
      <3> QED BY <3>1 DEF NodesOf
    <2>5. \A m \in Modules : rpc'[m] = "walk" => SafeWalk(m)'
      <3> SUFFICES ASSUME NEW m \in Modules, rpc'[m] = "walk" PROVE SafeWalk(m)'
        OBVIOUS
      <3>1. HasWalked(m) /\ SafeWalk(m)
        BY <2>1 DEF IInv, WalkInv, SafeInv
      <3>2. CASE cur[m] = NoNode
        BY <2>1, <3>1, <3>2 DEF SafeWalk
      <3>3. CASE cur[m] # NoNode
        <4>1. walk[m] \in DOMAIN senders[m]
          BY <3>1, <3>3 DEF HasWalked
        <4>2. PICK t \in Modules : t = Source(m)
          BY <1>0, <4>1, ListsTyped DEF Source
        <4>3. t \in Range(senders[m])
          BY <4>1, <4>2 DEF Range, Source
        <4>4. ~Leaving(t, m)
          BY <4>3, Simple
        <4>5. t # s
          <5> SUFFICES ASSUME t = s PROVE FALSE
            OBVIOUS
          <5>1. MayLink(s, m)
            BY <4>3, SourcesReady
          <5>2. m = k
            BY <2>3, <5>1 DEF SafeTopology
          <5> QED BY <1>2, <2>1, <4>4, <5>2 DEF Leaving
        <4>6. Source(m)' = Source(m)
          BY <2>1 DEF Source
        <4> QED BY <1>3, <2>1, <2>4, <4>2, <4>5, <4>6
      <3> QED BY <3>2, <3>3
    <2> QED BY <2>1, <2>2, <2>5, <2>6 DEF SafeInv
  <1>14. CASE RemoveLinkMissing
    <2>1. UNCHANGED <<attached, sender, receivers, senders, walk, cur, lostTail, batch, rpc, crashed>>
          /\ call.op = "free"
      BY <1>14 DEF RemoveLinkMissing, walker
    <2>2. call'.op = "none"
      BY <1>14, EndIs DEF RemoveLinkMissing
    <2>3. \A l \in Linked' : l \in Linked
      BY <1>2, <1>14, FewerLinked DEF RemoveLinkMissing
    <2>4. \A m \in Modules : rpc'[m] = "walk" => SafeWalk(m)'
      BY <1>4, <2>1
    <2> QED BY <2>1, <2>2, <2>3, <2>4 DEF SafeInv
  <1>15. CASE AddLinkNoSender \/ AddLinkUnmade \/ AddLinkNoNode
    BY <1>15 DEF AddLinkNoSender, AddLinkUnmade, AddLinkNoNode, Fails, Clean
  <1>10. CASE PublishNode
    <2>1. UNCHANGED <<attached, sender, receivers, senders, linked, walk, cur, lostTail, batch, crashed>>
          /\ call.op = "publish"
      BY <1>10 DEF PublishNode, registry, walker
    <2>2. call'.op = "publish" /\ \A m \in Modules : rpc'[m] = "walk" => rpc[m] = "walk"
      <3>1. PICK n : n = receivers[s][call.at]
        OBVIOUS
      <3> QED BY <1>2, <1>10, <3>1, NodePut
    <2> QED BY <1>4, <2>1, <2>2 DEF SafeInv, Linked
  <1>11. CASE PublishEnd
    <2>1. UNCHANGED <<attached, sender, receivers, senders, linked, walk, cur, lostTail, batch, crashed>>
          /\ call.op = "publish"
      BY <1>11 DEF PublishEnd, registry, walker
    <2>2. call'.op = "none" /\ \A m \in Modules : rpc'[m] = "walk" => rpc[m] = "walk"
      BY <1>0, <1>11, EndIs DEF PublishEnd, TypeOK
    <2> QED BY <1>4, <2>1, <2>2 DEF SafeInv, Linked
  <1>12. CASE StopReceiver
    <2>1. UNCHANGED <<attached, sender, receivers, senders, linked, walk, cur, lostTail, batch, crashed>>
          /\ call.op = "stop"
      BY <1>12 DEF StopReceiver, registry, walker
    <2>2. call'.op = "join" /\ call'.src = call.src /\ call'.sink = call.sink
      BY <1>0, <1>1, <1>12, GoOnIs DEF StopReceiver, Ops
    <2>3. \A m \in Modules : rpc'[m] = "walk" => rpc[m] = "walk"
      BY <1>0, <1>12, PostIs DEF StopReceiver
    <2> QED BY <1>4, <2>1, <2>2, <2>3 DEF SafeInv, Linked
  <1>13. CASE JoinReceiver
    <2>1. UNCHANGED <<sender, receivers, senders, linked, walk, cur, lostTail, batch, crashed>>
          /\ call.op = "join" /\ attached' = attached \ {k}
      BY <1>2, <1>13 DEF JoinReceiver, walker
    <2>2. call'.op = "none" /\ \A m \in Modules : rpc'[m] = "walk" => rpc[m] = "walk"
      BY <1>0, <1>13, EndIs DEF JoinReceiver, TypeOK
    <2>3. s = k
      BY <1>2, <2>1 DEF SafeInv
    <2> QED BY <1>2, <1>4, <2>1, <2>2, <2>3 DEF SafeInv, Linked
  <1> QED BY <1>5, <1>6, <1>7, <1>8, <1>9, <1>10, <1>11, <1>12, <1>13, <1>14, <1>15 DEF CallStep

\* In a topology without the known races, and as long as no link is made twice or in
\* part, no receiver thread goes through a NULL, a freed or an uninitialised pointer,
\* for any modules, links and interleaving of calls with the receivers' walks
\* (thread_message_control_receiver_thread_worker).
THEOREM NeverCrashes ==
  ASSUME SafeTopology
  PROVE  Spec => []NoCrashUnless
  <1>1. IInv /\ IInv' /\ (Clean => SafeInv) /\ [Next]_vars => (Clean => SafeInv)'
    <2> SUFFICES ASSUME IInv, IInv', Clean => SafeInv, [Next]_vars, Clean' PROVE SafeInv'
      OBVIOUS
    <2>0. Clean /\ SafeInv
      BY CleanBefore
    <2>1. ASSUME NEW c \in Callers, CallerStep(c) PROVE SafeInv'
      BY <2>0, <2>1, SafeCallers DEF CallerStep
    <2>2. ASSUME NEW m \in Modules, ReceiverStep(m) \/ SpuriousWakeup(m) \/ CallPublish(m) PROVE SafeInv'
      <3>1. CASE Republish(m)
        BY <2>0, <3>1, SafeCallers DEF Republish
      <3>2. CASE ~Republish(m)
        BY <2>0, <2>2, <3>2, SafeThread DEF ReceiverStep
      <3> QED BY <3>1, <3>2
    <2>3. CASE UNCHANGED vars
      BY <2>0, <2>3 DEF vars, SafeInv, SafeWalk, Source, NodesOf, Linked
    <2> QED BY <2>0, <2>1, <2>2, <2>3, SafeCalls DEF Next
  <1>2. (Clean => SafeInv) => NoCrashUnless
    BY DEF SafeInv, NoCrashUnless, Clean
  <1>3. Init => (Clean => SafeInv)
    BY InitSafe
  <1> QED BY <1>1, <1>2, <1>3, Invariance, PTL DEF Spec
-----------------------------------------------------------------------------
(* Every link is a queue.                                                    *)
Queue == [n \in Nodes |-> LinkQueue(n)]

\* Message i of the link with node n is in list q.
Holds(q, n, i) == \E j \in DOMAIN q : q[j].link = n /\ q[j].id = i

LEMMA HoldsConcat ==
  ASSUME NEW S, NEW q \in Seq(S), NEW r \in Seq(S), NEW n, NEW i
  PROVE  Holds(q \o r, n, i) <=> Holds(q, n, i) \/ Holds(r, n, i)
  <1> DEFINE c == q \o r
  <1>1. /\ Len(q) \in Nat /\ Len(r) \in Nat /\ DOMAIN q = 1..Len(q) /\ DOMAIN r = 1..Len(r)
        /\ DOMAIN c = 1..Len(q) + Len(r)
        /\ \A j \in 1..Len(q) : c[j] = q[j]
        /\ \A j \in 1..Len(r) : c[Len(q) + j] = r[j]
    BY SeqConcat
  <1> HIDE DEF c
  <1>2. ASSUME NEW j \in DOMAIN c, c[j].link = n, c[j].id = i PROVE Holds(q, n, i) \/ Holds(r, n, i)
    <2>1. CASE j \in DOMAIN q
      BY <1>1, <1>2, <2>1 DEF Holds
    <2>2. CASE j \notin DOMAIN q
      <3>1. j - Len(q) \in DOMAIN r /\ Len(q) + (j - Len(q)) = j
        BY <1>1, <2>2
      <3>2. c[j] = r[j - Len(q)]
        BY <1>1, <3>1
      <3> QED BY <1>2, <3>1, <3>2 DEF Holds
    <2> QED BY <2>1, <2>2
  <1>3. \A j \in DOMAIN q : j \in DOMAIN c /\ c[j] = q[j]
    BY <1>1
  <1>4. \A j \in DOMAIN r : Len(q) + j \in DOMAIN c /\ c[Len(q) + j] = r[j]
    BY <1>1
  <1>5. Holds(q, n, i) => Holds(c, n, i)
    BY <1>3 DEF Holds
  <1>6. Holds(r, n, i) => Holds(c, n, i)
    BY <1>4 DEF Holds
  <1>7. Holds(c, n, i) => Holds(q, n, i) \/ Holds(r, n, i)
    BY <1>2 DEF Holds
  <1> QED BY <1>5, <1>6, <1>7 DEF c

LEMMA HoldsAppend ==
  ASSUME NEW S, NEW q \in Seq(S), NEW x \in S, NEW n, NEW i
  PROVE  Holds(Append(q, x), n, i) <=> Holds(q, n, i) \/ (x.link = n /\ x.id = i)
  <1> DEFINE c == Append(q, x)
  <1>1. /\ Len(q) \in Nat /\ DOMAIN q = 1..Len(q) /\ DOMAIN c = 1..Len(q) + 1
        /\ \A j \in 1..Len(q) : c[j] = q[j]
        /\ c[Len(q) + 1] = x
    BY SeqAppend
  <1> HIDE DEF c
  <1>2. Len(q) + 1 \in DOMAIN c /\ \A j \in DOMAIN c : j \in DOMAIN q \/ j = Len(q) + 1
    BY <1>1
  <1>3. \A j \in DOMAIN q : j \in DOMAIN c /\ c[j] = q[j]
    BY <1>1
  <1> QED BY <1>1, <1>2, <1>3 DEF Holds, c

LEMMA HoldsTail ==
  ASSUME NEW S, NEW q \in Seq(S), q # <<>>, NEW n, NEW i
  PROVE  Holds(q, n, i) <=> Holds(Tail(q), n, i) \/ (q[1].link = n /\ q[1].id = i)
  <1> DEFINE t == Tail(q)
  <1>1. /\ Len(q) \in Nat /\ Len(q) > 0 /\ DOMAIN q = 1..Len(q) /\ DOMAIN t = 1..Len(q) - 1
        /\ \A j \in 1..Len(q) - 1 : t[j] = q[j + 1]
    BY SeqTail
  <1> HIDE DEF t
  <1>2. \A j \in DOMAIN t : j + 1 \in DOMAIN q /\ t[j] = q[j + 1]
    BY <1>1
  <1>3. ASSUME NEW j \in DOMAIN q PROVE j = 1 \/ (j - 1 \in DOMAIN t /\ t[j - 1] = q[j])
    <2>1. j # 1 => j - 1 \in 1..Len(q) - 1 /\ (j - 1) + 1 = j
      BY <1>1
    <2> QED BY <1>1, <2>1
  <1>4. 1 \in DOMAIN q
    BY <1>1
  <1>5. ASSUME NEW j \in DOMAIN q, q[j].link = n, q[j].id = i
        PROVE  Holds(t, n, i) \/ (q[1].link = n /\ q[1].id = i)
    <2>1. CASE j = 1
      BY <1>5, <2>1
    <2>2. CASE j - 1 \in DOMAIN t /\ t[j - 1] = q[j]
      BY <1>5, <2>2 DEF Holds
    <2> QED BY <1>3, <2>1, <2>2
  <1>6. Holds(t, n, i) => Holds(q, n, i)
    BY <1>2 DEF Holds
  <1> QED BY <1>4, <1>5, <1>6 DEF Holds, t

LEMMA HoldsNone == ASSUME NEW n, NEW i PROVE ~Holds(<<>>, n, i)
  BY DEF Holds

LEMMA TakenFrom ==
  ASSUME NEW b, NEW n, NEW i
  PROVE  i \in {x.id : x \in {y \in UNION {Range(b[m]) : m \in Modules} : y.link = n}}
            <=> \E m \in Modules : Holds(b[m], n, i)
  <1> DEFINE All == UNION {Range(b[m]) : m \in Modules}
  <1>1. \A y : y \in All <=> \E m \in Modules : \E j \in DOMAIN b[m] : y = b[m][j]
    BY DEF Range
  <1> HIDE DEF All
  <1>2. i \in {x.id : x \in {y \in All : y.link = n}} <=> \E y \in All : y.link = n /\ i = y.id
    OBVIOUS
  <1>3. (\E y \in All : y.link = n /\ i = y.id) <=> \E m \in Modules : Holds(b[m], n, i)
    BY <1>1 DEF Holds
  <1> QED BY <1>2, <1>3 DEF All

\* A node's messages are of its link.
LEMMA QueueHas ==
  ASSUME NEW n \in Nodes, NEW i
  PROVE  /\ IInv => (i \in LinkQueue(n) <=>
                       Holds(sending[n], n, i) \/ \E m \in Modules : Holds(batch[m], n, i))
         /\ IInv' => (i \in LinkQueue(n)' <=>
                       Holds(sending'[n], n, i) \/ \E m \in Modules : Holds(batch'[m], n, i))
  <1>1. IInv => \A j \in DOMAIN sending[n] : sending[n][j].link = n
    BY DEF IInv, NumbersInv
  <1>2. IInv' => \A j \in DOMAIN sending'[n] : sending'[n][j].link = n
    BY DEF IInv, NumbersInv
  <1>3. i \in LinkQueue(n) <=>
           (\E j \in DOMAIN sending[n] : sending[n][j].id = i) \/ \E m \in Modules : Holds(batch[m], n, i)
    <2>1. i \in Taken(n) <=> \E m \in Modules : Holds(batch[m], n, i)
      BY TakenFrom DEF Taken
    <2> QED BY <2>1 DEF LinkQueue
  <1>4. i \in LinkQueue(n)' <=>
           (\E j \in DOMAIN sending'[n] : sending'[n][j].id = i) \/ \E m \in Modules : Holds(batch'[m], n, i)
    <2>1. i \in Taken(n)' <=> \E m \in Modules : Holds(batch'[m], n, i)
      BY TakenFrom DEF Taken
    <2> QED BY <2>1 DEF LinkQueue
  <1> QED BY <1>1, <1>2, <1>3, <1>4 DEF Holds

\* A link is open while its node is in a list.
LEMMA OpenHas ==
  ASSUME NEW o
  PROVE  /\ o \in OpenLinks <=> \E s \in Modules : \E n \in NodesOf(s) : o = <<n, s, dst[n]>>
         /\ o \in OpenLinks' <=> \E s \in Modules : \E n \in NodesOf(s)' : o = <<n, s, dst'[n]>>
  BY DEF OpenLinks

LEMMA DueNone ==
  /\ call.op # "publish" => DueLinks = {}
  /\ call'.op # "publish" => DueLinks' = {}
  BY DEF DueLinks

\* The queues are what they were, but for the link with node n.
LEMMA QueueOf ==
  ASSUME NEW n \in Nodes, NEW q, LinkQueue(n)' = q,
         \A h \in Nodes : h # n => LinkQueue(h)' = LinkQueue(h)
  PROVE  Queue' = [Queue EXCEPT ![n] = q] /\ Queue[n] = LinkQueue(n)
  BY DEF Queue

LEMMA QueueSame ==
  ASSUME \A h \in Nodes : LinkQueue(h)' = LinkQueue(h)
  PROVE  Queue' = Queue
  BY DEF Queue

LEMMA Unmoved ==
  ASSUME UNCHANGED <<receivers, dst, sending, batch>>
  PROVE  OpenLinks' = OpenLinks /\ Queue' = Queue
  BY DEF OpenLinks, Queue, LinkQueue, Taken, NodesOf

LEMMA Stutters ==
  ASSUME OpenLinks' = OpenLinks, Queue' = Queue, published' = published, DueLinks' = DueLinks
  PROVE  UNCHANGED Queues!queueVars
  BY DEF Queues!queueVars, Queue

LEMMA PublishAnnounces ==
  ASSUME IInv, NEW t \in Modules \cup Callers, NEW s \in Modules, Publish(t, s)
  PROVE  Queues!Announce(s)
  <1>1. UNCHANGED <<receivers, dst, sending, batch>> /\ published' = published + 1 /\ call.op = "none"
    BY NoCallIs DEF Publish, registry, walker
  <1>2. call'.op = "publish" /\ call'.src = s /\ call'.at = 1
    BY BeginIs DEF Publish, Ops
  <1>3. DueLinks = {}
    BY <1>1, DueNone
  <1>4. DueLinks' = Queues!LinksOf(s)
    <2>1. DueLinks' = {receivers[s][i] : i \in 1..Len(receivers[s])}
      BY <1>1, <1>2 DEF DueLinks
    <2>2. DOMAIN receivers[s] = 1..Len(receivers[s]) /\ \A n \in NodesOf(s) : n \in Nodes
      BY ListsTyped DEF IInv
    <2>3. DueLinks' = NodesOf(s)
      BY <2>1, <2>2 DEF NodesOf, Range
    <2>4. ASSUME NEW n \in Nodes PROVE (\E o \in OpenLinks : o[1] = n /\ o[2] = s) <=> n \in NodesOf(s)
      <3>1. ASSUME n \in NodesOf(s) PROVE \E o \in OpenLinks : o[1] = n /\ o[2] = s
        <4>1. <<n, s, dst[n]>> \in OpenLinks
          BY <3>1, OpenHas
        <4> QED BY <4>1
      <3>2. ASSUME NEW o \in OpenLinks, o[1] = n, o[2] = s PROVE n \in NodesOf(s)
        BY <3>2, OpenHas
      <3> QED BY <3>1, <3>2
    <2> QED BY <2>2, <2>3, <2>4 DEF Queues!LinksOf
  <1>5. OpenLinks' = OpenLinks /\ Queue' = Queue
    BY <1>1, Unmoved
  <1> QED BY <1>1, <1>3, <1>4, <1>5 DEF Queues!Announce, Queue

LEMMA NodePuts ==
  ASSUME IInv, IInv', PublishNode
  PROVE  \E n \in Nodes : Queues!Put(n)
  <1>0. TypeOK /\ ListsInv
    BY DEF IInv
  <1>1. PICK s, n : s = call.src /\ n = receivers[s][call.at]
    OBVIOUS
  <1>2. /\ s \in Modules /\ call.at \in DOMAIN receivers[s] /\ n \in NodesOf(s) /\ n \in Nodes
        /\ \A o \in Nodes : sending'[o] = IF o = n THEN Append(sending[n], Message(n, s)) ELSE sending[o]
        /\ call.op = "publish" /\ call'.op = "publish"
        /\ call'.src = s /\ call'.at = call.at + 1
        /\ UNCHANGED <<registry, walker, published>>
    BY <1>1, NodePut
  <1>3. UNCHANGED <<receivers, dst, batch, published>>
    BY <1>2 DEF registry, walker
  <1>5. DOMAIN receivers[s] = 1..Len(receivers[s]) /\ Len(receivers[s]) \in Nat /\ call.at \in Nat
    BY <1>0, <1>2, ListsTyped
  <1> DEFINE d(i) == receivers[s][i]
  <1>6. DueLinks = {d(i) : i \in call.at..Len(receivers[s])} /\ DueLinks' = {d(i) : i \in call.at + 1..Len(receivers[s])}
    BY <1>1, <1>2, <1>3 DEF DueLinks
  <1>7. \A i \in call.at + 1..Len(receivers[s]) : d(i) # d(call.at)
    BY <1>0, <1>2, <1>5 DEF ListsInv, IsInjective
  <1>8. n = d(call.at)
    BY <1>1
  <1> HIDE DEF d
  <1>9. n \in DueLinks /\ DueLinks' = DueLinks \ {n}
    <2>1. call.at \in call.at..Len(receivers[s])
          /\ \A i : i \in call.at..Len(receivers[s]) <=> i = call.at \/ i \in call.at + 1..Len(receivers[s])
      BY <1>2, <1>5
    <2> QED BY <1>6, <1>7, <1>8, <2>1
  <1>12. ASSUME NEW i PROVE Holds(sending'[n], n, i) <=> Holds(sending[n], n, i) \/ i = published
    <2>1. sending[n] \in Seq(Msg) /\ Message(n, s) \in Msg
      BY <1>0, <1>2 DEF TypeOK, Msg, Message
    <2>2. Message(n, s).link = n /\ Message(n, s).id = published
      BY DEF Message
    <2> QED BY <1>2, <2>1, <2>2, HoldsAppend
  <1>13. LinkQueue(n)' = LinkQueue(n) \cup {published}
    <2> SUFFICES ASSUME NEW i PROVE i \in LinkQueue(n)' <=> i \in LinkQueue(n) \/ i = published
      OBVIOUS
    <2> QED BY <1>2, <1>3, <1>12, QueueHas
  <1>14. ASSUME NEW h \in Nodes, h # n PROVE LinkQueue(h)' = LinkQueue(h)
    <2>1. sending'[h] = sending[h]
      BY <1>2, <1>14
    <2> QED BY <1>3, <2>1 DEF LinkQueue, Taken
  <1>15. OpenLinks' = OpenLinks
    BY <1>3 DEF OpenLinks, NodesOf
  <1>16. Queue' = [Queue EXCEPT ![n] = Queue[n] \cup {published}]
    BY <1>2, <1>13, <1>14, QueueOf
  <1>17. Queues!Put(n)
    BY <1>3, <1>9, <1>15, <1>16 DEF Queues!Put, Queue
  <1> QED BY <1>2, <1>17

LEMMA NodeOpens ==
  ASSUME IInv, IInv', AddLinkReceiver
  PROVE  \E n \in Nodes, s, k \in Modules : Queues!OpenLink(n, s, k)
  <1>0. TypeOK
    BY DEF IInv
  <1>1. ~Idle /\ call.op = "receiver"
    BY NoCallIs DEF AddLinkReceiver
  <1>2. PICK s \in Modules, k \in Modules : s = call.src /\ k = call.sink
    BY <1>0, <1>1, CallIs
  <1>3. UNCHANGED <<batch, published>>
    BY DEF AddLinkReceiver, walker
  <1>4. PICK n \in Nodes :
           /\ \A t \in Modules : n \notin NodesOf(t) /\ cur[t] # n
           /\ \A t \in Modules : \A i \in DOMAIN batch[t] : batch[t][i].link # n
           /\ \A t \in Modules : receivers'[t] = IF t = s THEN Append(receivers[s], n) ELSE receivers[t]
           /\ \A t \in Modules : NodesOf(t)' = IF t = s THEN NodesOf(s) \cup {n} ELSE NodesOf(t)
           /\ \A o \in Nodes : dst'[o] = IF o = n THEN k ELSE dst[o]
           /\ \A o \in Nodes : sending'[o] = IF o = n THEN <<>> ELSE sending[o]
    BY <1>2, NewNode
  <1>5. sending[n] = <<>>
    BY <1>4 DEF IInv, NumbersInv
  <1>6. ASSUME NEW i PROVE i \notin LinkQueue(n)
    BY <1>4, <1>5, QueueHas DEF Holds
  <1>7. ASSUME NEW h \in Nodes PROVE LinkQueue(h)' = LinkQueue(h)
    BY <1>3, <1>4, <1>5 DEF LinkQueue, Taken
  <1>8. Queue' = Queue /\ Queue[n] = {}
    BY <1>6, <1>7, QueueSame DEF Queue
  <1>9. DueLinks = {} /\ DueLinks' = {}
    BY <1>1, DueNone, EndIs DEF AddLinkReceiver
  <1>10. ~Queues!IsOpen(n)
    BY <1>4, OpenHas DEF Queues!IsOpen
  <1>11. OpenLinks' = OpenLinks \cup {<<n, s, k>>}
    <2>1. \A t \in Modules : \A o \in NodesOf(t) : o \in Nodes /\ o # n /\ dst'[o] = dst[o]
      BY <1>0, <1>4, ListsTyped
    <2>2. ASSUME NEW o \in OpenLinks' PROVE o \in OpenLinks \/ o = <<n, s, k>>
      <3>10. PICK t \in Modules : \E x \in NodesOf(t)' : o = <<x, t, dst'[x]>>
        BY OpenHas
      <3>1. PICK x \in NodesOf(t)' : o = <<x, t, dst'[x]>>
        BY <3>10
      <3>2. CASE x \in NodesOf(t)
        BY <2>1, <3>1, <3>2, OpenHas
      <3>3. CASE x = n /\ t = s
        BY <1>4, <3>1, <3>3
      <3> QED BY <1>4, <3>2, <3>3
    <2>3. ASSUME NEW o \in OpenLinks PROVE o \in OpenLinks'
      <3>10. PICK t \in Modules : \E x \in NodesOf(t) : o = <<x, t, dst[x]>>
        BY OpenHas
      <3>1. PICK x \in NodesOf(t) : o = <<x, t, dst[x]>>
        BY <3>10
      <3>2. x \in NodesOf(t)' /\ dst'[x] = dst[x]
        BY <1>4, <2>1
      <3> QED BY <3>1, <3>2, OpenHas
    <2>4. <<n, s, k>> \in OpenLinks'
      <3>1. n \in NodesOf(s)' /\ dst'[n] = k
        BY <1>4
      <3> QED BY <3>1, OpenHas
    <2> QED BY <2>2, <2>3, <2>4
  <1>12. Queues!OpenLink(n, s, k)
    BY <1>3, <1>8, <1>9, <1>10, <1>11 DEF Queues!OpenLink, Queue
  <1> QED BY <1>12

LEMMA NodeCloses ==
  ASSUME IInv, IInv', RemoveLinkReceiver
  PROVE  \E n \in Nodes : Queues!CloseLink(n)
  <1>0. TypeOK /\ ListsInv /\ NumbersInv /\ InOrder
    BY DEF IInv
  <1>1. ~Idle /\ call.op = "free"
    BY NoCallIs DEF RemoveLinkReceiver
  <1>2. PICK s \in Modules, k \in Modules : s = call.src /\ k = call.sink
    BY <1>0, <1>1, CallIs
  <1>3. UNCHANGED <<batch, dst, published>>
    BY DEF RemoveLinkReceiver, walker
  <1>4. PICK n \in Nodes :
           /\ n \in NodesOf(s) /\ dst[n] = k
           /\ \A t \in Modules : NodesOf(t)' = IF t = s THEN NodesOf(s) \ {n} ELSE NodesOf(t)
           /\ \A o \in Nodes : sending'[o] = IF o = n THEN <<>> ELSE sending[o]
    BY <1>2, FreedNode
  <1>5. n \in LinkNodes(s, k)
    BY <1>4 DEF LinkNodes
  <1>6. ASSUME NEW i, NEW m \in Modules, Holds(batch[m], n, i)
        PROVE  i \in 1..published /\ \A j \in DOMAIN sending[n] : i < sending[n][j].id
    <2>1. PICK j \in DOMAIN batch[m] : batch[m][j].link = n /\ batch[m][j].id = i
      BY <1>6 DEF Holds
    <2>2. m = k /\ i \in 1..published
      BY <1>0, <1>4, <2>1 DEF NumbersInv
    <2> QED BY <1>0, <1>5, <2>1, <2>2 DEF InOrder
  <1>10. \A i : i \in LinkQueue(n)' <=> \E m \in Modules : Holds(batch[m], n, i)
    <2> SUFFICES ASSUME NEW i PROVE i \in LinkQueue(n)' <=> \E m \in Modules : Holds(batch[m], n, i)
      OBVIOUS
    <2>1. ~Holds(sending'[n], n, i)
      BY <1>4, HoldsNone
    <2> QED BY <1>3, <2>1, QueueHas
  <1>11. \A i : i \in LinkQueue(n) <=> Holds(sending[n], n, i) \/ \E m \in Modules : Holds(batch[m], n, i)
    BY QueueHas
  <1>12. \E last \in 0..published : LinkQueue(n)' = {i \in LinkQueue(n) : i <= last}
    <2>0. published \in Nat
      BY <1>0 DEF TypeOK
    <2>2. CASE sending[n] = <<>>
      <3>1. \A i : ~Holds(sending[n], n, i)
        BY <2>2, HoldsNone
      <3>2. \A i : (\E m \in Modules : Holds(batch[m], n, i)) => i <= published
        BY <1>6, <2>0
      <3>3. LinkQueue(n)' = {i \in LinkQueue(n) : i <= published}
        BY <1>10, <1>11, <3>1, <3>2
      <3> QED BY <2>0, <3>3
    <2>3. CASE sending[n] # <<>>
      <3>1. 1 \in DOMAIN sending[n] /\ DOMAIN sending[n] = 1..Len(sending[n]) /\ Len(sending[n]) \in Nat
        <4>1. sending[n] \in Seq(Msg)
          BY <1>0 DEF TypeOK
        <4> QED BY <2>3, <4>1, SeqTail
      <3> DEFINE first == sending[n][1].id
      <3>2. first \in 1..published
        BY <1>0, <1>4, <3>1 DEF NumbersInv
      <3>3. \A i : (\E m \in Modules : Holds(batch[m], n, i)) => i < first /\ i \in 1..published
        BY <1>6, <3>1
      <3>4. \A i : Holds(sending[n], n, i) => i >= first /\ i \in 1..published
        <4> SUFFICES ASSUME NEW j \in DOMAIN sending[n]
                     PROVE  sending[n][j].id >= first /\ sending[n][j].id \in 1..published
          BY DEF Holds
        <4>1. 1 < j => first < sending[n][j].id
          BY <1>0, <1>5, <3>1 DEF InOrder
        <4>2. sending[n][j].id \in 1..published
          BY <1>0, <1>4 DEF NumbersInv
        <4> QED BY <2>0, <3>1, <3>2, <4>1, <4>2
      <3> HIDE DEF first
      <3>6. PICK last \in 0..published : last = first - 1
        BY <2>0, <3>2
      <3>7. \A i : (\E m \in Modules : Holds(batch[m], n, i)) => i <= last
        <4>1. \A i \in 1..published : i < first => i <= last
          BY <2>0, <3>2, <3>6
        <4> QED BY <3>3, <4>1
      <3>8. \A i : Holds(sending[n], n, i) => ~(i <= last)
        BY <2>0, <3>2, <3>4, <3>6
      <3>9. LinkQueue(n)' = {i \in LinkQueue(n) : i <= last}
        BY <1>10, <1>11, <3>7, <3>8
      <3> QED BY <3>9
    <2> QED BY <2>2, <2>3
  <1>8. ASSUME NEW h \in Nodes, h # n PROVE LinkQueue(h)' = LinkQueue(h)
    <2>1. sending'[h] = sending[h]
      BY <1>4, <1>8
    <2> QED BY <1>3, <2>1 DEF LinkQueue, Taken
  <1>13. PICK last \in 0..published : LinkQueue(n)' = {i \in LinkQueue(n) : i <= last}
    BY <1>12
  <1>14. Queue' = [Queue EXCEPT ![n] = {i \in Queue[n] : i <= last}]
    <2>1. Queue[n] = LinkQueue(n)
      BY DEF Queue
    <2>2. LinkQueue(n)' = {i \in Queue[n] : i <= last}
      BY <1>13, <2>1
    <2> QED BY <1>8, <2>2, QueueOf
  <1>15. DueLinks = {} /\ DueLinks' = {}
    BY <1>1, DueNone, EndIs DEF RemoveLinkReceiver
  <1>16. Queues!IsOpen(n)
    <2>1. <<n, s, dst[n]>> \in OpenLinks
      BY <1>4, OpenHas
    <2> QED BY <2>1 DEF Queues!IsOpen
  <1>17. OpenLinks' = {o \in OpenLinks : o[1] # n}
    <2>1. ASSUME NEW t \in Modules, NEW x PROVE x \in NodesOf(t)' <=> x \in NodesOf(t) /\ x # n
      BY <1>0, <1>4 DEF ListsInv
    <2>2. ASSUME NEW o \in OpenLinks' PROVE o \in OpenLinks /\ o[1] # n
      <3>10. PICK t \in Modules : \E x \in NodesOf(t)' : o = <<x, t, dst'[x]>>
        BY OpenHas
      <3>1. PICK x \in NodesOf(t)' : o = <<x, t, dst'[x]>>
        BY <3>10
      <3> QED BY <1>3, <2>1, <3>1, OpenHas
    <2>3. ASSUME NEW o \in OpenLinks, o[1] # n PROVE o \in OpenLinks'
      <3>10. PICK t \in Modules : \E x \in NodesOf(t) : o = <<x, t, dst[x]>>
        BY OpenHas
      <3>1. PICK x \in NodesOf(t) : o = <<x, t, dst[x]>>
        BY <3>10
      <3>2. x # n /\ x \in NodesOf(t)'
        BY <2>1, <2>3, <3>1
      <3> QED BY <1>3, <3>1, <3>2, OpenHas
    <2> QED BY <2>2, <2>3
  <1>18. Queues!CloseLink(n)
    BY <1>3, <1>14, <1>15, <1>16, <1>17 DEF Queues!CloseLink, Queue
  <1> QED BY <1>18

LEMMA ReceiveHandles ==
  ASSUME IInv, IInv', NEW m \in Modules, Receive(m)
  PROVE  \E n \in Nodes : Queues!Handle(n)
  <1>0. TypeOK /\ ListsInv /\ NumbersInv /\ InOrder
    BY DEF IInv
  <1>1. /\ batch[m] # <<>> /\ UNCHANGED <<receivers, dst, sending, call, published>>
        /\ \A k \in Modules : batch'[k] = IF k = m THEN Tail(batch[m]) ELSE batch[k]
    BY <1>0 DEF Receive, registry, TypeOK
  <1> DEFINE q == batch[m]
             x == q[1]
  <1>2. q \in Seq(Msg) /\ x \in Msg /\ 1 \in DOMAIN q
    <2>1. q \in Seq(Msg)
      BY <1>0 DEF TypeOK
    <2> QED BY <1>1, <2>1, SeqTail
  <1>3. x.link \in Nodes /\ x.id \in Nat
    BY <1>2 DEF Msg
  <1>4. PICK n \in Nodes : n = x.link
    BY <1>3
  <1>n. dst[n] = m
    BY <1>0, <1>2, <1>4 DEF NumbersInv
  <1>5. ASSUME NEW h, NEW i
        PROVE  Holds(q, h, i) <=> Holds(batch'[m], h, i) \/ (x.link = h /\ x.id = i)
    <2>1. batch'[m] = Tail(q)
      BY <1>1
    <2> HIDE DEF q
    <2> QED BY <1>1, <1>2, <2>1, HoldsTail DEF q
  <1>6. ASSUME NEW j \in DOMAIN q, q[j].link = n PROVE j = 1 \/ x.id < q[j].id
    <2>1. j \in Nat /\ j >= 1
      BY <1>2
    <2>2. 1 < j => x.id < q[j].id
      BY <1>0, <1>2, <1>4, <1>6 DEF InOrder
    <2> QED BY <2>1, <2>2
  <1>7. \A j \in DOMAIN sending[n] : x.id < sending[n][j].id
    <2> SUFFICES ASSUME NEW j \in DOMAIN sending[n] PROVE x.id < sending[n][j].id
      OBVIOUS
    <2>1. sending[n] # <<>>
      OBVIOUS
    <2>2. PICK s \in Modules : n \in NodesOf(s)
      BY <1>0, <2>1 DEF NumbersInv
    <2>3. n \in LinkNodes(s, m)
      BY <1>n, <2>2 DEF LinkNodes
    <2> QED BY <1>0, <1>2, <1>4, <2>3 DEF InOrder
  <1>8. ASSUME NEW i, Holds(batch'[m], n, i) PROVE x.id < i
    <2>1. PICK j \in DOMAIN batch'[m] : batch'[m][j].link = n /\ batch'[m][j].id = i
      BY <1>8 DEF Holds
    <2>2. j + 1 \in DOMAIN q /\ batch'[m][j] = q[j + 1] /\ j + 1 # 1
      <3>1. batch'[m] = Tail(q)
        BY <1>1
      <3>2. DOMAIN q = 1..Len(q) /\ DOMAIN Tail(q) = 1..Len(q) - 1 /\ Len(q) \in Nat
            /\ \A h \in 1..Len(q) - 1 : Tail(q)[h] = q[h + 1]
        BY <1>1, <1>2, SeqTail
      <3> HIDE DEF q
      <3> QED BY <2>1, <3>1, <3>2
    <2> QED BY <1>6, <2>1, <2>2
  <1>9. \A i : Holds(sending[n], n, i) => x.id < i
    BY <1>7 DEF Holds
  <1>20. \A k \in Modules : \A i : Holds(batch[k], n, i) => k = m
    <2> SUFFICES ASSUME NEW k \in Modules, NEW j \in DOMAIN batch[k], batch[k][j].link = n PROVE k = m
      BY DEF Holds
    <2> QED BY <1>0, <1>n DEF NumbersInv
  <1> HIDE DEF q, x
  <1>21. ASSUME NEW i PROVE Holds(batch[m], n, i) <=> Holds(batch'[m], n, i) \/ i = x.id
    BY <1>4, <1>5 DEF q
  <1>10. LinkQueue(n)' = LinkQueue(n) \ {x.id}
    <2> SUFFICES ASSUME NEW i PROVE i \in LinkQueue(n)' <=> i \in LinkQueue(n) /\ i # x.id
      OBVIOUS
    <2>1. i \in LinkQueue(n) <=> Holds(sending[n], n, i) \/ Holds(batch[m], n, i)
      BY <1>20, QueueHas
    <2>2. i \in LinkQueue(n)' <=> Holds(sending[n], n, i) \/ Holds(batch'[m], n, i)
      <3>1. ASSUME NEW k \in Modules, Holds(batch'[k], n, i) PROVE k = m
        BY <1>1, <1>20, <3>1
      <3> QED BY <1>1, <3>1, QueueHas
    <2>3. Holds(batch'[m], n, i) => i # x.id
      BY <1>3, <1>8
    <2>4. Holds(sending[n], n, i) => i # x.id
      BY <1>3, <1>9
    <2> QED BY <1>21, <2>1, <2>2, <2>3, <2>4
  <1>11. x.id \in LinkQueue(n) /\ \A i \in LinkQueue(n) : x.id <= i
    <2>1. Holds(batch[m], n, x.id)
      BY <1>21
    <2>2. x.id \in LinkQueue(n)
      BY <2>1, QueueHas
    <2>3. ASSUME NEW i \in LinkQueue(n) PROVE x.id <= i
      <3>1. Holds(sending[n], n, i) \/ Holds(batch'[m], n, i) \/ i = x.id
        BY <1>20, <1>21, QueueHas
      <3>2. i = x.id \/ x.id < i
        BY <1>8, <1>9, <3>1
      <3>3. i \in Nat
        <4>1. ASSUME NEW j \in DOMAIN sending[n] PROVE sending[n][j].id \in Nat
          BY <1>0, ListsTyped
        <4>2. ASSUME NEW j \in DOMAIN batch[m] PROVE batch[m][j].id \in Nat
          BY <1>0, ListsTyped
        <4> QED BY <1>3, <1>21, <3>1, <4>1, <4>2 DEF Holds
      <3> QED BY <1>3, <3>2, <3>3
    <2> QED BY <2>2, <2>3
  <1>12. ASSUME NEW h \in Nodes, h # n PROVE LinkQueue(h)' = LinkQueue(h)
    <2> SUFFICES ASSUME NEW i PROVE i \in LinkQueue(h)' <=> i \in LinkQueue(h)
      OBVIOUS
    <2>1. ASSUME NEW k \in Modules PROVE Holds(batch'[k], h, i) <=> Holds(batch[k], h, i)
      <3>1. CASE k = m
        BY <1>4, <1>5, <1>12, <3>1 DEF q
      <3>2. CASE k # m
        BY <1>1, <3>2
      <3> QED BY <3>1, <3>2
    <2> QED BY <1>1, <2>1, QueueHas
  <1>13. Queue' = [Queue EXCEPT ![n] = Queue[n] \ {x.id}] /\ Queue[n] = LinkQueue(n)
    BY <1>10, <1>12, QueueOf DEF Queue
  <1>14. OpenLinks' = OpenLinks /\ DueLinks' = DueLinks
    BY <1>1 DEF OpenLinks, NodesOf, DueLinks
  <1>15. Queues!Handle(n)
    <2>1. x.id \in Queue[n] /\ \A i \in Queue[n] : x.id <= i
      BY <1>11, <1>13
    <2> QED BY <1>1, <1>13, <1>14, <2>1 DEF Queues!Handle, Queue
  <1> QED BY <1>15

\* What a receiver takes it has not handled yet: the link's queue is the same.
LEMMA TakenStays ==
  ASSUME IInv, IInv', NEW m \in Modules, WalkTake(m)
  PROVE  UNCHANGED Queues!queueVars
  <1>0. TypeOK /\ ListsInv /\ NumbersInv /\ WalkInv
    BY DEF IInv
  <1>s. PICK s \in Modules : s = Source(m)
    BY <1>0, SourceTyped DEF WalkTake, WalkInv, HasWalked, Walking
  <1>n. PICK n : n = cur[m]
    OBVIOUS
  <1>1. n \in NodesOf(s) /\ dst[n] = m /\ UNCHANGED <<receivers, dst, call, published>>
    BY <1>s, <1>n DEF WalkTake, registry
  <1>2. n \in Nodes
    BY <1>0, <1>1, ListsTyped
  <1>3. /\ \A k \in Modules : batch'[k] = IF k = m THEN batch[m] \o sending[n] ELSE batch[k]
        /\ \A o \in Nodes : sending'[o] = IF o = n THEN <<>> ELSE sending[o]
    BY <1>0, <1>n DEF WalkTake, TypeOK
  <1>4. ASSUME NEW h, NEW i PROVE Holds(batch'[m], h, i) <=> Holds(batch[m], h, i) \/ Holds(sending[n], h, i)
    <2>1. batch[m] \in Seq(Msg) /\ sending[n] \in Seq(Msg) /\ batch'[m] = batch[m] \o sending[n]
      BY <1>0, <1>2, <1>3 DEF TypeOK
    <2> QED BY <2>1, HoldsConcat
  <1>5. ASSUME NEW h \in Nodes PROVE LinkQueue(h)' = LinkQueue(h)
    <2> SUFFICES ASSUME NEW i PROVE i \in LinkQueue(h)' <=> i \in LinkQueue(h)
      OBVIOUS
    <2>1. \A k \in Modules : Holds(batch'[k], h, i) <=> Holds(batch[k], h, i) \/ (k = m /\ Holds(sending[n], h, i))
      BY <1>3, <1>4
    <2>2. CASE h = n
      <3>1. ~Holds(sending'[n], n, i)
        BY <1>2, <1>3, HoldsNone
      <3> QED BY <2>1, <2>2, <3>1, QueueHas
    <2>3. CASE h # n
      <3>1. ~Holds(sending[n], h, i)
        BY <1>0, <1>1, <2>3 DEF Holds, NumbersInv
      <3>2. sending'[h] = sending[h]
        BY <1>3, <2>3
      <3> QED BY <2>1, <3>1, <3>2, QueueHas
    <2> QED BY <2>2, <2>3
  <1>6. OpenLinks' = OpenLinks /\ DueLinks' = DueLinks
    BY <1>1 DEF OpenLinks, NodesOf, DueLinks
  <1> QED BY <1>1, <1>5, <1>6, QueueSame, Stutters

LEMMA InitQueues == Init => Queues!QueueInit
  <1> SUFFICES ASSUME Init PROVE Queues!QueueInit
    OBVIOUS
  <1>1. IInv /\ call.op = "none" /\ published = 0
    BY InitInv, NoCallIs DEF Init, Idle
  <1>2. ASSUME NEW n \in Nodes PROVE LinkQueue(n) = {}
    <2> SUFFICES ASSUME NEW i PROVE i \notin LinkQueue(n)
      OBVIOUS
    <2>1. sending[n] = <<>> /\ \A m \in Modules : batch[m] = <<>>
      BY DEF Init
    <2> QED BY <1>1, <2>1, HoldsNone, QueueHas
  <1>3. Queue = [n \in Nodes |-> {}]
    BY <1>2 DEF Queue
  <1>4. DueLinks = {}
    BY <1>1, DueNone
  <1>5. OpenLinks \subseteq Nodes \X Modules \X Modules
    <2> SUFFICES ASSUME NEW s \in Modules, NEW n \in NodesOf(s) PROVE n \in Nodes /\ dst[n] \in Modules
      BY DEF OpenLinks
    <2> QED BY <1>1, ListsTyped DEF IInv, ListsInv
  <1>6. ASSUME NEW o \in OpenLinks, NEW p \in OpenLinks, o[1] = p[1] PROVE o = p
    <2>10. PICK s \in Modules : \E n \in NodesOf(s) : o = <<n, s, dst[n]>>
      BY OpenHas
    <2>1. PICK n \in NodesOf(s) : o = <<n, s, dst[n]>>
      BY <2>10
    <2>20. PICK t \in Modules : \E h \in NodesOf(t) : p = <<h, t, dst[h]>>
      BY OpenHas
    <2>2. PICK h \in NodesOf(t) : p = <<h, t, dst[h]>>
      BY <2>20
    <2>3. n = h
      BY <1>6, <2>1, <2>2
    <2>4. s = t
      BY <1>1, <2>3 DEF IInv, ListsInv
    <2> QED BY <2>1, <2>2, <2>3, <2>4
  <1> QED BY <1>1, <1>3, <1>4, <1>5, <1>6 DEF Queues!QueueInit, Queue

LEMMA NextImplements ==
  ASSUME IInv, IInv', Next
  PROVE  Queues!QueueNext \/ UNCHANGED Queues!queueVars
  <1>0. Routes \subseteq Modules \X Modules
    BY LinkAssumption
  <1>1. ASSUME UNCHANGED <<receivers, dst, sending, batch, published>>, DueLinks' = DueLinks
        PROVE  UNCHANGED Queues!queueVars
    BY <1>1, Unmoved, Stutters
  <1>2. ASSUME NEW t \in Modules \cup Callers, NEW s \in Modules, Publish(t, s) PROVE Queues!QueueNext
    BY <1>2, PublishAnnounces DEF Queues!QueueNext
  <1>3. ASSUME NEW c \in Callers, CallerStep(c) PROVE Queues!QueueNext \/ UNCHANGED Queues!queueVars
    <2>1. ASSUME NEW l \in Routes, AddLink(c, l[1], l[2]) \/ AddLinkNoReceiver(c, l[1], l[2]) \/ RemoveLink(c, l[1], l[2])
          PROVE  UNCHANGED Queues!queueVars
      <3>1. UNCHANGED <<receivers, dst, sending, batch, published>> /\ call.op = "none"
        BY <2>1, NoCallIs DEF AddLink, AddLinkNoReceiver, MayAdd, RemoveLink, registry, walker
      <3>2. call'.op # "publish"
        <4>1. l[1] \in Modules /\ l[2] \in Modules
          BY <1>0
        <4> QED BY <2>1, <4>1, BeginIs DEF AddLink, AddLinkNoReceiver, RemoveLink, Ops
      <3> QED BY <1>1, <3>1, <3>2, DueNone
    <2>2. ASSUME NEW m \in Modules, PublishUnknown(c, m) \/ RemoveModule(c, m) PROVE UNCHANGED Queues!queueVars
      <3>1. UNCHANGED <<receivers, dst, sending, batch, published>> /\ call.op = "none"
        BY <2>2, NoCallIs DEF PublishUnknown, RemoveModule, registry, walker
      <3>2. call'.op # "publish"
        BY <2>2, BeginIs DEF PublishUnknown, RemoveModule, Ops
      <3> QED BY <1>1, <3>1, <3>2, DueNone
    <2> QED BY <1>2, <1>3, <2>1, <2>2 DEF CallerStep
  <1>4. CASE CallStep
    <2>1. CASE \/ AddLinkSender \/ AddLinkNoSender \/ AddLinkMake \/ AddLinkReady \/ AddLinkUnmade \/ AddLinkNoNode
               \/ RemoveLinkSender \/ RemoveLinkMissing \/ StopReceiver \/ JoinReceiver
      <3>1. UNCHANGED <<receivers, dst, sending, batch, published>> /\ call.op # "publish" /\ ~Idle
        BY <2>1, NoCallIs DEF AddLinkSender, AddLinkNoSender, AddLinkMake, AddLinkReady, AddLinkUnmade, AddLinkNoNode,
                              RemoveLinkSender, RemoveLinkMissing, StopReceiver, JoinReceiver, registry, walker
      <3>2. call'.op # "publish"
        <4>1. ASSUME NEW op \in Ops, GoOn(op) PROVE call'.op = op
          BY <3>1, <4>1, GoOnIs DEF IInv
        <4>2. CASE RemoveLinkSender
          BY <3>1, <4>2, UnlinkIs DEF RemoveLinkSender, IInv
        <4> QED BY <2>1, <4>1, <4>2, EndIs DEF AddLinkSender, AddLinkNoSender, AddLinkMake, AddLinkReady, AddLinkUnmade,
                       AddLinkNoNode, RemoveLinkMissing, StopReceiver, JoinReceiver, Ops
      <3> QED BY <1>1, <3>1, <3>2, DueNone
    <2>2. CASE PublishEnd
      <3>1. UNCHANGED <<receivers, dst, sending, batch, published>>
        BY <2>2 DEF PublishEnd, registry, walker
      <3>2. DueLinks = {}
        <4>1. call.op = "publish" /\ call.at > Len(receivers[call.src]) /\ ~Idle
          BY <2>2, NoCallIs DEF PublishEnd
        <4>2. call.at \in Nat /\ Len(receivers[call.src]) \in Nat
          BY <4>1, CallIs, ListsTyped DEF IInv
        <4>3. call.at..Len(receivers[call.src]) = {}
          BY <4>1, <4>2
        <4> QED BY <4>1, <4>3 DEF DueLinks
      <3>3. DueLinks' = {}
        BY <2>2, DueNone, EndIs DEF PublishEnd
      <3> QED BY <1>1, <3>1, <3>2, <3>3
    <2>3. CASE AddLinkReceiver
      BY <2>3, NodeOpens DEF Queues!QueueNext
    <2>4. CASE RemoveLinkReceiver
      BY <2>4, NodeCloses DEF Queues!QueueNext
    <2>5. CASE PublishNode
      BY <2>5, NodePuts DEF Queues!QueueNext
    <2> QED BY <1>4, <2>1, <2>2, <2>3, <2>4, <2>5 DEF CallStep
  <1>5. ASSUME NEW m \in Modules, ReceiverStep(m) \/ SpuriousWakeup(m) \/ CallPublish(m)
        PROVE  Queues!QueueNext \/ UNCHANGED Queues!queueVars
    <2>1. CASE Receive(m)
      BY <2>1, ReceiveHandles DEF Queues!QueueNext
    <2>2. CASE WalkTake(m)
      BY <2>2, TakenStays
    <2>3. CASE Republish(m)
      BY <1>2, <2>3 DEF Republish
    <2>4. CASE \/ ReceiverLock(m) \/ ReceiverStop(m) \/ ReceiverWake(m) \/ WalkSender(m) \/ WalkNode(m)
               \/ WalkEnd(m) \/ Crash(m) \/ ReceiveReturn(m) \/ BatchDone(m)
               \/ SpuriousWakeup(m) \/ CallPublish(m)
      <3>1. UNCHANGED <<receivers, dst, sending, batch, published, call>>
        BY <2>4 DEF ReceiverLock, ReceiverStop, ReceiverWake, StartWalk, WalkSender, WalkNode, WalkEnd, Crash,
                    ReceiveReturn, BatchDone, SpuriousWakeup, CallPublish, registry, walker
      <3>2. DueLinks' = DueLinks
        BY <3>1 DEF DueLinks
      <3> QED BY <1>1, <3>1, <3>2
    <2> QED BY <1>5, <2>1, <2>2, <2>3, <2>4 DEF ReceiverStep
  <1> QED BY <1>3, <1>4, <1>5 DEF Next

\* Every link is a FIFO queue, whatever the receivers' walks, the calls and their
\* interleaving, and however often a pair of modules is linked: what is published is
\* put once on each link open then, and handled in that order, and closing a link
\* discards a tail (LinkQueues).
THEOREM ImplementsQueues == Spec => QueueSpec
  <1>1. IInv /\ IInv' /\ [Next]_vars => [Queues!QueueNext]_(Queues!queueVars)
    <2> SUFFICES ASSUME IInv, IInv', [Next]_vars
                 PROVE  Queues!QueueNext \/ UNCHANGED Queues!queueVars
      OBVIOUS
    <2>1. CASE UNCHANGED vars
      <3>1. UNCHANGED <<receivers, dst, sending, batch, published, call>>
        BY <2>1 DEF vars
      <3>2. DueLinks' = DueLinks
        BY <3>1 DEF DueLinks
      <3> QED BY <3>1, <3>2, Unmoved, Stutters
    <2> QED BY <2>1, NextImplements
  <1> QED BY <1>1, InitQueues, Invariance, PTL DEF Spec, QueueSpec, Queues!QueueSpec
=============================================================================
