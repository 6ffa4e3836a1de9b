---------------------------- MODULE AimCtlConfProofs ----------------------------
(***************************************************************************)
(* What is rendered for a fabric is a function of the fabric.  The key is  *)
(* that a set of strings has one order, so that a sorted list of the keys  *)
(* of a map does not depend on how the map was visited.                    *)
(***************************************************************************)
EXTENDS AimCtlConf, FiniteSetTheorems, FunctionTheorems, SequenceTheorems, TLAPS

-------------------------------------------------------------------------------
(* Orders *)

\* The elements of S, each once, in ascending order.
IsOrder(t, S) ==
    /\ t \in Seq(S)
    /\ \A i, j \in 1..Len(t) : i < j => t[i] < t[j]
    /\ \A x \in S : \E i \in 1..Len(t) : t[i] = x

\* The elements of S, each once.
IsListing(s, S) ==
    /\ s \in Seq(S)
    /\ \A i, j \in 1..Len(s) : s[i] = s[j] => i = j
    /\ \A x \in S : \E i \in 1..Len(s) : s[i] = x

\* A set of numbers has a least element.
LEMMA NatMin ==
    ASSUME NEW T, T \subseteq Nat, T # {}
    PROVE  \E x \in T : \A y \in T : x <= y
  <1>1. PICK x \in T : \A y \in T : ~ (<<y, x>> \in OpToRel(<, Nat))
    BY WFMin, NatLessThanWellFounded
  <1>2. ASSUME NEW y \in T PROVE x <= y
    <2>1. ~ (<<y, x>> \in OpToRel(<, Nat))
      BY <1>1
    <2>2. x \in Nat /\ y \in Nat
      OBVIOUS
    <2>3. ~ (y < x)
      BY <2>1, <2>2 DEF OpToRel
    <2> QED
      BY <2>2, <2>3
  <1> QED
    BY <1>2

\* Two orders of one set agree where both have an element.
LEMMA OrderAgrees ==
    ASSUME NEW S \in SUBSET Nat, NEW s, IsOrder(s, S), NEW t, IsOrder(t, S)
    PROVE  \A i \in 1..Len(s) : i \in 1..Len(t) => s[i] = t[i]
  <1> DEFINE T == {i \in 1..Len(s) : i \in 1..Len(t) /\ s[i] # t[i]}
  <1>0. Len(s) \in Nat /\ Len(t) \in Nat
    BY DEF IsOrder
  <1> SUFFICES ASSUME T # {} PROVE FALSE
    OBVIOUS
  <1>1. T \subseteq Nat
    BY <1>0
  <1>2. PICK i \in T : \A j \in T : i <= j
    BY <1>1, NatMin
  <1>3. /\ i \in 1..Len(s) /\ i \in 1..Len(t) /\ s[i] # t[i]
        /\ \A j \in 1..Len(s) : j \in 1..Len(t) /\ j < i => s[j] = t[j]
    BY <1>0, <1>2
  <1>4. s[i] \in S /\ t[i] \in S /\ s[i] \in Nat /\ t[i] \in Nat
    <2>1. s \in Seq(S) /\ t \in Seq(S)
      BY DEF IsOrder
    <2>2. s[i] \in S /\ t[i] \in S
      BY <1>3, <2>1, ElementOfSeq
    <2> QED
      BY <2>2
  <1>5. ASSUME s[i] < t[i] PROVE FALSE
    <2>1. PICK j \in 1..Len(t) : t[j] = s[i]
      BY <1>4 DEF IsOrder
    <2>2. ~ (i < j) /\ i # j
      BY <1>3, <1>4, <1>5, <2>1 DEF IsOrder
    <2>3. j < i /\ j \in 1..Len(s)
      BY <1>0, <1>3, <2>2
    <2>4. s[j] = t[j] /\ s[j] < s[i]
      BY <1>3, <2>3 DEF IsOrder
    <2> QED
      BY <1>4, <2>1, <2>4
  <1>6. ASSUME t[i] < s[i] PROVE FALSE
    <2>1. PICK j \in 1..Len(s) : s[j] = t[i]
      BY <1>4 DEF IsOrder
    <2>2. ~ (i < j) /\ i # j
      BY <1>3, <1>4, <1>6, <2>1 DEF IsOrder
    <2>3. j < i /\ j \in 1..Len(t)
      BY <1>0, <1>3, <2>2
    <2>4. s[j] = t[j] /\ t[j] < t[i]
      BY <1>3, <2>3 DEF IsOrder
    <2> QED
      BY <1>4, <2>1, <2>4
  <1> QED
    BY <1>3, <1>4, <1>5, <1>6

\* No order is longer than another.
LEMMA OrderLength ==
    ASSUME NEW S \in SUBSET Nat, NEW s, IsOrder(s, S), NEW t, IsOrder(t, S)
    PROVE  Len(s) <= Len(t)
  <1>0. Len(s) \in Nat /\ Len(t) \in Nat
    BY DEF IsOrder
  <1> SUFFICES ASSUME Len(t) < Len(s) PROVE FALSE
    BY <1>0
  <1>1. Len(s) \in 1..Len(s) /\ s[Len(s)] \in S /\ s[Len(s)] \in Nat
    <2>1. s \in Seq(S) /\ Len(s) \in 1..Len(s)
      BY <1>0 DEF IsOrder
    <2>2. s[Len(s)] \in S
      BY <2>1, ElementOfSeq
    <2> QED
      BY <2>1, <2>2
  <1>2. PICK i \in 1..Len(t) : t[i] = s[Len(s)]
    BY <1>1 DEF IsOrder
  <1>3. i \in 1..Len(s) /\ i < Len(s)
    BY <1>0
  <1>4. s[i] = t[i]
    <2>1. \A j \in 1..Len(s) : j \in 1..Len(t) => s[j] = t[j]
      BY OrderAgrees
    <2> QED
      BY <1>3, <2>1
  <1>5. s[i] < s[Len(s)]
    BY <1>1, <1>3 DEF IsOrder
  <1> QED
    BY <1>1, <1>2, <1>4, <1>5

\* A set of numbers has at most one order.
LEMMA OrderUnique ==
    ASSUME NEW S \in SUBSET Nat, NEW s, IsOrder(s, S), NEW t, IsOrder(t, S)
    PROVE  s = t
  <1>1. Len(s) = Len(t)
    <2>1. Len(s) <= Len(t) /\ Len(t) <= Len(s)
      BY OrderLength
    <2> QED
      BY <2>1 DEF IsOrder
  <1>2. s \in Seq(S) /\ t \in Seq(S)
    BY DEF IsOrder
  <1>3. \A i \in 1..Len(s) : s[i] = t[i]
    <2>1. \A i \in 1..Len(s) : i \in 1..Len(t) => s[i] = t[i]
      BY OrderAgrees
    <2> QED
      BY <1>1, <2>1
  <1> QED
    BY <1>1, <1>2, <1>3, SeqEqual

-------------------------------------------------------------------------------
(* sort.Strings *)

\* The place of an element is the number of elements that are not larger.
LEMMA SortExists ==
    ASSUME NEW S \in SUBSET Nat, NEW s, IsListing(s, S)
    PROVE  \E p \in Bijection(DOMAIN s, DOMAIN s) :
              \A i, j \in DOMAIN s : i < j => s[p[i]] <= s[p[j]]
  <1> DEFINE n == Len(s)
             D == 1..n
             upTo(i) == {j \in D : s[j] <= s[i]}
             rank == [i \in D |-> Cardinality(upTo(i))]
  <1>0. s \in Seq(S) /\ n \in Nat /\ DOMAIN s = D
    BY DEF IsListing
  <1>1. \A i \in D : s[i] \in Nat
    <2>1. \A i \in D : s[i] \in S
      BY <1>0, ElementOfSeq
    <2> QED
      BY <2>1
  <1>2. IsFiniteSet(D) /\ Cardinality(D) = n
    <2>1. 1 \in Int /\ n \in Int
      BY <1>0
    <2>2. IsFiniteSet(1..n) /\ Cardinality(1..n) = IF 1 > n THEN 0 ELSE n - 1 + 1
      BY <2>1, FS_Interval
    <2> QED
      BY <1>0, <2>2
  <1>3. ASSUME NEW i \in D
        PROVE  IsFiniteSet(upTo(i)) /\ Cardinality(upTo(i)) \in D
    <2>1. upTo(i) \in SUBSET D /\ i \in upTo(i)
      BY <1>1
    <2>2. IsFiniteSet(upTo(i)) /\ Cardinality(upTo(i)) <= n
      BY <1>2, <2>1, FS_Subset
    <2>3. Cardinality(upTo(i)) \in Nat /\ Cardinality(upTo(i)) # 0
      BY <2>1, <2>2, FS_CardinalityType, FS_EmptySet
    <2> QED
      BY <1>0, <2>2, <2>3
  <1>4. ASSUME NEW i \in D, NEW j \in D, s[i] < s[j]
        PROVE  Cardinality(upTo(i)) < Cardinality(upTo(j))
    <2>1. s[i] \in Nat /\ s[j] \in Nat /\ \A k \in D : s[k] \in Nat
      BY <1>1
    <2>2. upTo(i) \in SUBSET upTo(j)
      BY <1>4, <2>1
    <2>3. j \in upTo(j) /\ j \notin upTo(i)
      BY <1>4, <2>1
    <2>4. Cardinality(upTo(i)) <= Cardinality(upTo(j)) /\ Cardinality(upTo(i)) # Cardinality(upTo(j))
      BY <1>3, <2>2, <2>3, FS_Subset
    <2>5. Cardinality(upTo(i)) \in Nat /\ Cardinality(upTo(j)) \in Nat
      BY <1>3, FS_CardinalityType
    <2> QED
      BY <2>4, <2>5
  <1> HIDE DEF upTo
  <1>5. rank \in [D -> D] /\ \A i \in D : rank[i] \in Nat
    BY <1>0, <1>3
  <1>6. ASSUME NEW i \in D, NEW j \in D, s[i] < s[j] PROVE rank[i] < rank[j]
    BY <1>4, <1>6
  <1> HIDE DEF rank
  <1>7. ASSUME NEW i \in D, NEW j \in D, i # j PROVE rank[i] # rank[j]
    <2>1. s[i] # s[j] /\ s[i] \in Nat /\ s[j] \in Nat
      BY <1>0, <1>1, <1>7 DEF IsListing
    <2>2. s[i] < s[j] \/ s[j] < s[i]
      BY <2>1
    <2>3. rank[i] < rank[j] \/ rank[j] < rank[i]
      BY <1>6, <2>2
    <2> QED
      BY <1>5, <2>3
  <1>8. rank \in Injection(D, D)
    BY <1>5, <1>7 DEF Injection, IsInjective
  <1>9. rank \in Bijection(D, D)
    BY <1>2, <1>8, FS_Injection DEF Bijection
  <1> DEFINE p == Inverse(rank, D, D)
  <1>10. /\ p \in Bijection(D, D) /\ p \in [D -> D]
         /\ \A i \in D : p[rank[i]] = i
         /\ \A i \in D : \E k \in D : rank[k] = i
    <2>1. p \in Bijection(D, D) /\ \A i \in D : p[rank[i]] = i
      BY <1>9, Fun_BijInverse
    <2>2. \A i \in D : \E k \in D : rank[k] = i
      BY <1>9 DEF Bijection, Surjection
    <2>3. p \in [D -> D]
      BY <2>1 DEF Bijection, Injection
    <2> QED
      BY <2>1, <2>2, <2>3
  <1> HIDE DEF p
  <1>11. ASSUME NEW i \in D, NEW j \in D, i < j PROVE s[p[i]] <= s[p[j]]
    <2>1. PICK a \in D : rank[a] = i
      BY <1>10
    <2>2. PICK b \in D : rank[b] = j
      BY <1>10
    <2>3. p[i] = a /\ p[j] = b
      BY <1>10, <2>1, <2>2
    <2>4. ~ (s[b] < s[a])
      <3>1. ASSUME s[b] < s[a] PROVE FALSE
        <4>1. rank[b] < rank[a] /\ i \in Nat /\ j \in Nat
          BY <1>6, <3>1
        <4> QED
          BY <1>11, <2>1, <2>2, <4>1
      <3> QED
        BY <3>1
    <2>5. s[a] \in Nat /\ s[b] \in Nat
      BY <1>1
    <2> QED
      BY <2>3, <2>4, <2>5
  <1> QED
    BY <1>0, <1>10, <1>11

\* Sorting a listing of a set gives its order.
LEMMA SortOrders ==
    ASSUME NEW S \in SUBSET Nat, NEW s, IsListing(s, S)
    PROVE  IsOrder(SortStrings(s), S)
  <1> DEFINE n == Len(s)
             D == 1..n
             sorts(p) == \A i, j \in DOMAIN s : i < j => s[p[i]] <= s[p[j]]
             p == CHOOSE p \in Bijection(DOMAIN s, DOMAIN s) : sorts(p)
             t == [i \in DOMAIN s |-> s[p[i]]]
  <1>0. s \in Seq(S) /\ n \in Nat /\ DOMAIN s = D
    BY DEF IsListing
  <1>1. SortStrings(s) = t
    BY DEF SortStrings
  <1>2. p \in Bijection(D, D) /\ sorts(p)
    BY <1>0, SortExists
  <1> HIDE DEF p
  <1>3. /\ p \in [D -> D]
        /\ \A a, b \in D : p[a] = p[b] => a = b
        /\ \A x \in D : \E a \in D : p[a] = x
    BY <1>2 DEF Bijection, Injection, Surjection, IsInjective
  <1>4. \A i \in D : s[p[i]] \in S
    BY <1>0, <1>3, ElementOfSeq
  <1>5. t \in Seq(S) /\ Len(t) = n
    BY <1>0, <1>4
  <1>6. ASSUME NEW i \in D, NEW j \in D, i < j PROVE t[i] < t[j]
    <2>1. t[i] = s[p[i]] /\ t[j] = s[p[j]] /\ t[i] <= t[j]
      BY <1>0, <1>2, <1>6
    <2>2. p[i] # p[j] /\ p[i] \in D /\ p[j] \in D
      <3>1. i # j
        BY <1>0, <1>6
      <3> QED
        BY <1>3, <3>1
    <2>3. s[p[i]] # s[p[j]]
      BY <2>2 DEF IsListing
    <2>4. t[i] \in Nat /\ t[j] \in Nat
      BY <1>4, <2>1
    <2> QED
      BY <2>1, <2>3, <2>4
  <1>7. ASSUME NEW x \in S PROVE \E i \in D : t[i] = x
    <2>1. PICK k \in D : s[k] = x
      BY DEF IsListing
    <2>2. PICK i \in D : p[i] = k
      BY <1>3
    <2> QED
      BY <1>0, <2>1, <2>2
  <1> HIDE DEF t
  <1>8. IsOrder(t, S)
    BY <1>5, <1>6, <1>7 DEF IsOrder
  <1> QED
    BY <1>1, <1>8

\* A loop over a map visits each key once.
LEMMA VisitsList ==
    ASSUME NEW m, IsFiniteSet(DOMAIN m), NEW s \in Visits(m)
    PROVE  IsListing(s, DOMAIN m)
  <1> DEFINE S == DOMAIN m
             D == 1..Cardinality(S)
  <1>1. Cardinality(S) \in Nat
    BY FS_CardinalityType
  <1>2. s \in [D -> S] /\ \A i, j \in D : i # j => s[i] # s[j]
    BY DEF Visits, SetToSeqs
  <1>3. s \in Seq(S) /\ Len(s) = Cardinality(S)
    BY <1>1, <1>2
  <1>4. s \in Injection(D, S)
    BY <1>2 DEF Injection, IsInjective
  <1>5. IsFiniteSet(D) /\ Cardinality(D) = Cardinality(S)
    BY <1>1, FS_Interval
  <1>6. s \in Surjection(D, S)
    BY <1>4, <1>5, FS_Injection
  <1>7. \A x \in S : \E i \in D : s[i] = x
    BY <1>6 DEF Surjection
  <1> QED
    BY <1>2, <1>3, <1>7 DEF IsListing

-------------------------------------------------------------------------------
(* The order of a set *)

Order(S) == CHOOSE t : IsOrder(t, S)

LEMMA OrderIs ==
    ASSUME NEW S \in SUBSET Nat, NEW t, IsOrder(t, S)
    PROVE  Order(S) = t
  <1>1. IsOrder(Order(S), S)
    BY DEF Order
  <1> QED
    BY <1>1, OrderUnique

\* Every finite set has one.
LEMMA OrderExists ==
    ASSUME NEW S \in SUBSET Nat, IsFiniteSet(S)
    PROVE  IsOrder(Order(S), S)
  <1> DEFINE D == 1..Cardinality(S)
  <1>1. Cardinality(S) \in Nat /\ ExistsBijection(D, S)
    BY FS_CardinalityType
  <1>2. PICK s : s \in Bijection(D, S)
    BY <1>1 DEF ExistsBijection
  <1>3. /\ s \in [D -> S]
        /\ \A i, j \in D : s[i] = s[j] => i = j
        /\ \A x \in S : \E i \in D : s[i] = x
    BY <1>2 DEF Bijection, Injection, Surjection, IsInjective
  <1>4. s \in Seq(S) /\ Len(s) = Cardinality(S)
    BY <1>1, <1>3
  <1>5. IsListing(s, S)
    BY <1>3, <1>4 DEF IsListing
  <1>6. IsOrder(SortStrings(s), S)
    BY <1>5, SortOrders
  <1> QED
    BY <1>6 DEF Order

\* A larger number goes to the end.
LEMMA OrderAppend ==
    ASSUME NEW S \in SUBSET Nat, NEW t, IsOrder(t, S), NEW x \in Nat, \A y \in S : y < x
    PROVE  IsOrder(Append(t, x), S \cup {x})
  <1> DEFINE u == Append(t, x)
             n == Len(t)
  <1>1. t \in Seq(S) /\ n \in Nat
    BY DEF IsOrder
  <1>2. t \in Seq(S \cup {x})
    BY <1>1
  <1>3. /\ u \in Seq(S \cup {x}) /\ Len(u) = n + 1 /\ u[n + 1] = x
        /\ \A i \in 1..n : u[i] = t[i]
    BY <1>2, AppendProperties
  <1> HIDE DEF u
  <1>4. ASSUME NEW i \in 1..n + 1, NEW j \in 1..n + 1, i < j PROVE u[i] < u[j]
    <2>1. i \in 1..n
      BY <1>1, <1>4
    <2>2. CASE j \in 1..n
      BY <1>3, <1>4, <2>1, <2>2 DEF IsOrder
    <2>3. CASE j = n + 1
      <3>1. t[i] \in S
        BY <1>1, <2>1, ElementOfSeq
      <3> QED
        BY <1>3, <2>1, <2>3, <3>1
    <2> QED
      BY <1>1, <2>2, <2>3
  <1>5. ASSUME NEW y \in S \cup {x} PROVE \E i \in 1..n + 1 : u[i] = y
    <2>1. CASE y \in S
      <3>1. PICK i \in 1..n : t[i] = y
        BY <2>1 DEF IsOrder
      <3>2. u[i] = y /\ i \in 1..n + 1
        BY <1>1, <1>3, <3>1
      <3> QED
        BY <3>2
    <2>2. CASE y = x
      <3>1. n + 1 \in 1..n + 1
        BY <1>1
      <3> QED
        BY <1>3, <2>2, <3>1
    <2> QED
      BY <2>1, <2>2
  <1> QED
    BY <1>3, <1>4, <1>5 DEF IsOrder

\* A loop over a map, sorted.
LEMMA VisitsSorted ==
    ASSUME NEW m, IsFiniteSet(DOMAIN m), DOMAIN m \in SUBSET Nat, NEW s \in Visits(m)
    PROVE  SortStrings(s) = Order(DOMAIN m)
  <1>1. IsListing(s, DOMAIN m)
    BY VisitsList
  <1>2. IsOrder(SortStrings(s), DOMAIN m)
    BY <1>1, SortOrders
  <1> QED
    BY <1>2, OrderIs

\* The values of a finite map.
LEMMA RangeFinite ==
    ASSUME NEW m, IsFiniteSet(DOMAIN m)
    PROVE  IsFiniteSet({m[x] : x \in DOMAIN m})
  <1> DEFINE f == [x \in DOMAIN m |-> m[x]]
             T == {m[x] : x \in DOMAIN m}
  <1>1. f \in Surjection(DOMAIN m, T)
    BY DEF Surjection
  <1> QED
    BY <1>1, FS_Surjection

-------------------------------------------------------------------------------
(* What is rendered *)

HostsOn(ports, p) == {h \in DOMAIN ports : ports[h] = p}

\* The section of a switch.
SwitchConfig(f, id) ==
    LET order == Order(Range(f.links[id]))
    IN  [id |-> id,
         links |-> [i \in 1..Len(order) |->
                      [hosts |-> Order(HostsOn(f.links[id], order[i])), port |-> order[i]]]]

SwitchConfigs(f) ==
    LET order == Order(DOMAIN f.links)
    IN  [i \in 1..Len(order) |-> SwitchConfig(f, order[i])]

\* The first k mappings that name a domain for a network.
Given(f, net, k) == {i \in 1..k : f.mappings[i].net = net /\ f.mappings[i].dom # NoName}

\* The domain of a network.
DomainOf(f, net) ==
    LET given == Given(f, net, Len(f.mappings))
    IN  IF given = {} THEN <<"pdom", net>>
        ELSE f.mappings[CHOOSE i \in given : \A j \in given : j <= i].dom

\* Those of the first k VLAN ranges that are the first ones with their domain.
Firsts(f, k) ==
    {i \in 1..k : \A j \in 1..k : j < i => DomainOf(f, f.ranges[j]) # DomainOf(f, f.ranges[i])}

\* The sections of the physical domains of the first k ranges.
Sections(f, k) ==
    LET order == Order(Firsts(f, k))
    IN  [i \in 1..Len(order) |-> DomainOf(f, f.ranges[order[i]])]

Partial(f, switches, physDoms) ==
    [vmm |-> VmmDomain(f), switches |-> switches, physDoms |-> physDoms]

Rendering(f) == Partial(f, SwitchConfigs(f), Sections(f, Len(f.ranges)))

-------------------------------------------------------------------------------
(* The invariant *)

\* What is written so far.
DataInv ==
    LET order == Order(DOMAIN fab.links)
    IN  /\ stage \in {"switches", "hosts"} =>
             \E k \in 0..Len(order) :
                /\ data = Partial(fab, SubSeq(SwitchConfigs(fab), 1, k), <<>>)
                /\ switchIDs = SubSeq(order, k + 1, Len(order))
        /\ stage = "mappings" => data = Partial(fab, SwitchConfigs(fab), <<>>)
        /\ stage = "ranges" => /\ data = Partial(fab, SwitchConfigs(fab), Sections(fab, pos))
                               /\ pos \in 0..Len(fab.ranges)
        /\ stage = "done" => data = Rendering(fab)

\* The hosts of the open switch that were visited are listed under their ports.
HostsInv ==
    stage = "hosts" =>
       LET links == fab.links[Head(switchIDs)]
           seen == DOMAIN links \ hosts
       IN  /\ switchIDs # <<>> /\ hosts \subseteq DOMAIN links
           /\ DOMAIN hostsByPort = {links[h] : h \in seen}
           /\ \A p \in DOMAIN hostsByPort :
                IsListing(hostsByPort[p], {h \in seen : links[h] = p})

\* The map has the last of the first k mappings of each network.
MapsFirst(k) ==
    \A net :
       /\ net \in DOMAIN pdomMapping <=> Given(fab, net, k) # {}
       /\ net \in DOMAIN pdomMapping =>
            \E i \in Given(fab, net, k) : /\ \A j \in Given(fab, net, k) : j <= i
                                          /\ pdomMapping[net] = fab.mappings[i].dom

MappingInv ==
    /\ stage \in {"start", "switches", "hosts"} => pdomMapping = Empty /\ pos = 0
    /\ stage = "mappings" => pos \in 0..Len(fab.mappings) /\ MapsFirst(pos)
    /\ stage = "ranges" => MapsFirst(Len(fab.mappings))
    /\ stage = "done" => pos = 0

RenderInv ==
    /\ fab \in Fabrics /\ previous \in {NoData, Rendering(fab)}
    /\ stage \in {"start", "switches", "hosts", "mappings", "ranges", "done"}
    /\ DataInv /\ HostsInv /\ MappingInv

-------------------------------------------------------------------------------
(* Facts about a fabric *)

LEMMA Fabric ==
    ASSUME NEW f \in Fabrics
    PROVE  /\ IsFiniteSet(DOMAIN f.links) /\ DOMAIN f.links \in SUBSET Nat
           /\ \A id \in DOMAIN f.links :
                /\ IsFiniteSet(DOMAIN f.links[id]) /\ DOMAIN f.links[id] \in SUBSET Nat
                /\ IsFiniteSet(Range(f.links[id])) /\ Range(f.links[id]) \in SUBSET Nat
           /\ f.mappings \in Seq(Range(f.mappings)) /\ Len(f.mappings) \in Nat
           /\ f.ranges \in Seq(Range(f.ranges)) /\ Len(f.ranges) \in Nat
  <1>1. /\ IsMap(f.links) /\ IsSlice(f.mappings) /\ IsSlice(f.ranges)
        /\ \A id \in DOMAIN f.links : IsMap(f.links[id]) /\ Range(f.links[id]) \subseteq Nat
    BY FabricAssumption
  <1>2. \A id \in DOMAIN f.links : IsFiniteSet(Range(f.links[id]))
    BY <1>1, RangeFinite DEF IsMap, Range
  <1>3. f.mappings \in Seq(Range(f.mappings)) /\ f.ranges \in Seq(Range(f.ranges))
    BY <1>1 DEF IsSlice
  <1>4. Len(f.mappings) \in Nat /\ Len(f.ranges) \in Nat
    BY <1>3, LenProperties
  <1> QED
    BY <1>1, <1>2, <1>3, <1>4 DEF IsMap

\* The switches in order.
LEMMA Switches ==
    ASSUME NEW f \in Fabrics
    PROVE  LET order == Order(DOMAIN f.links)
           IN  /\ IsOrder(order, DOMAIN f.links) /\ Len(order) \in Nat
               /\ order \in Seq(DOMAIN f.links)
               /\ \A i \in 1..Len(order) : order[i] \in DOMAIN f.links
               /\ SwitchConfigs(f) \in Seq(Range(SwitchConfigs(f)))
               /\ Len(SwitchConfigs(f)) = Len(order)
               /\ \A i \in 1..Len(order) : SwitchConfigs(f)[i] = SwitchConfig(f, order[i])
  <1> DEFINE order == Order(DOMAIN f.links)
             configs == [i \in 1..Len(order) |-> SwitchConfig(f, order[i])]
  <1>1. IsOrder(order, DOMAIN f.links)
    BY Fabric, OrderExists
  <1>2. order \in Seq(DOMAIN f.links) /\ Len(order) \in Nat
    BY <1>1, LenProperties DEF IsOrder
  <1>3. \A i \in 1..Len(order) : order[i] \in DOMAIN f.links
    BY <1>2, ElementOfSeq
  <1> HIDE DEF order
  <1>4. configs \in Seq(Range(configs)) /\ Len(configs) = Len(order)
    BY <1>2 DEF Range
  <1>5. SwitchConfigs(f) = configs
    BY DEF SwitchConfigs, order
  <1>6. \A i \in 1..Len(order) : configs[i] = SwitchConfig(f, order[i])
    OBVIOUS
  <1> QED
    BY <1>1, <1>2, <1>3, <1>4, <1>5, <1>6 DEF order

\* One element more of a sequence.
LEMMA PrefixGrows ==
    ASSUME NEW S, NEW g \in Seq(S), NEW k \in 0..Len(g), k < Len(g)
    PROVE  Append(SubSeq(g, 1, k), g[k + 1]) = SubSeq(g, 1, k + 1)
  <1> DEFINE a == Append(SubSeq(g, 1, k), g[k + 1])
             b == SubSeq(g, 1, k + 1)
  <1>0. Len(g) \in Nat /\ k \in Nat /\ k + 1 \in 1..Len(g) /\ k + 1 \in Nat
    BY LenProperties
  <1>1. /\ SubSeq(g, 1, k) \in Seq(S) /\ Len(SubSeq(g, 1, k)) = k
        /\ \A i \in 1..k : SubSeq(g, 1, k)[i] = g[i]
    BY <1>0
  <1>2. /\ b \in Seq(S) /\ Len(b) = k + 1
        /\ \A i \in 1..k + 1 : b[i] = g[i]
    BY <1>0
  <1>3. g[k + 1] \in S
    BY <1>0, ElementOfSeq
  <1>4. /\ a \in Seq(S) /\ Len(a) = k + 1
        /\ \A i \in 1..k : a[i] = g[i]
        /\ a[k + 1] = g[k + 1]
    BY <1>1, <1>3, AppendProperties
  <1> HIDE DEF a, b
  <1>5. \A i \in 1..k + 1 : a[i] = b[i]
    <2>1. \A i \in 1..k + 1 : i \in 1..k \/ i = k + 1
      BY <1>0
    <2> QED
      BY <1>0, <1>2, <1>4, <2>1
  <1>6. a = b
    BY <1>2, <1>4, <1>5, SeqEqual
  <1> QED
    BY <1>6 DEF a, b

\* What is left of a sequence.
LEMMA SuffixShrinks ==
    ASSUME NEW S, NEW g \in Seq(S), NEW k \in 0..Len(g), SubSeq(g, k + 1, Len(g)) # <<>>
    PROVE  /\ k < Len(g) /\ k + 1 \in 0..Len(g) /\ k + 1 \in 1..Len(g)
           /\ Head(SubSeq(g, k + 1, Len(g))) = g[k + 1]
           /\ Tail(SubSeq(g, k + 1, Len(g))) = SubSeq(g, k + 2, Len(g))
  <1>0. Len(g) \in Nat /\ k \in Nat
    BY LenProperties
  <1>1. k < Len(g)
    <2>1. k = Len(g) => SubSeq(g, k + 1, Len(g)) = <<>>
      BY <1>0, SubSeqEmpty
    <2> QED
      BY <1>0, <2>1
  <1> DEFINE a == Tail(SubSeq(g, k + 1, Len(g)))
             b == SubSeq(g, k + 2, Len(g))
             s == SubSeq(g, k + 1, Len(g))
  <1>2. /\ s \in Seq(S) /\ Len(s) = Len(g) - k
        /\ \A i \in 1..Len(g) - k : s[i] = g[k + i]
    BY <1>0, <1>1
  <1>3. /\ b \in Seq(S) /\ Len(b) = Len(g) - k - 1
        /\ \A i \in 1..Len(g) - k - 1 : b[i] = g[k + 1 + i]
    BY <1>0, <1>1
  <1> HIDE DEF s, b
  <1>4. /\ Tail(s) \in Seq(S) /\ Len(Tail(s)) = Len(g) - k - 1
        /\ \A i \in 1..Len(g) - k - 1 : Tail(s)[i] = g[k + 1 + i]
    BY <1>0, <1>1, <1>2
  <1>5. Tail(s) = b
    BY <1>3, <1>4, SeqEqual
  <1>6. Head(s) = g[k + 1]
    BY <1>0, <1>1, <1>2
  <1> QED
    BY <1>0, <1>1, <1>5, <1>6 DEF s, b

-------------------------------------------------------------------------------
(* The loops over maps *)

LEMMA ListSwitchesKeeps ==
    ASSUME RenderInv, ListSwitches
    PROVE  RenderInv'
  <1>1. fab \in Fabrics /\ fab' = fab /\ previous' = previous /\ stage' = "switches"
    BY DEF RenderInv, ListSwitches
  <1> DEFINE order == Order(DOMAIN fab.links)
  <1>2. switchIDs' = order
    <2>1. IsFiniteSet(DOMAIN fab.links) /\ DOMAIN fab.links \in SUBSET Nat
      BY <1>1, Fabric
    <2> QED
      BY <2>1, VisitsSorted DEF ListSwitches
  <1>3. data' = Partial(fab, <<>>, <<>>)
    BY DEF ListSwitches, NoData, Partial
  <1>4. order \in Seq(DOMAIN fab.links) /\ Len(order) \in Nat
        /\ SwitchConfigs(fab) \in Seq(Range(SwitchConfigs(fab)))
    BY <1>1, Switches
  <1>5. SubSeq(SwitchConfigs(fab), 1, 0) = <<>>
    BY <1>4, SubSeqEmpty
  <1>6. SubSeq(order, 0 + 1, Len(order)) = order
    BY <1>4
  <1> HIDE DEF order
  <1>7. 0 \in 0..Len(order)
    BY <1>4
  <1>8. DataInv'
    BY <1>1, <1>2, <1>3, <1>5, <1>6, <1>7 DEF DataInv, order
  <1>9. HostsInv' /\ MappingInv'
    BY <1>1 DEF HostsInv, MappingInv, RenderInv, ListSwitches
  <1> QED
    BY <1>1, <1>8, <1>9 DEF RenderInv

LEMMA OpenSwitchKeeps ==
    ASSUME RenderInv, OpenSwitch
    PROVE  RenderInv'
  <1>1. /\ stage = "switches" /\ stage' = "hosts" /\ switchIDs # <<>>
        /\ hosts' = DOMAIN fab.links[Head(switchIDs)] /\ hostsByPort' = Empty
        /\ UNCHANGED <<fab, switchIDs, pdomMapping, pos, data, previous>>
    BY DEF OpenSwitch
  <1>2. DataInv'
    BY <1>1 DEF RenderInv, DataInv
  <1>3. MappingInv'
    BY <1>1 DEF RenderInv, MappingInv
  <1>4. HostsInv'
    <2>1. DOMAIN hostsByPort' = {}
      BY <1>1 DEF Empty
    <2> QED
      BY <1>1, <2>1 DEF HostsInv
  <1> QED
    BY <1>1, <1>2, <1>3, <1>4 DEF RenderInv

\* One host more.
LEMMA ListingAppend ==
    ASSUME NEW S, NEW s, IsListing(s, S), NEW x, x \notin S
    PROVE  IsListing(Append(s, x), S \cup {x})
  <1> DEFINE u == Append(s, x)
             n == Len(s)
  <1>1. s \in Seq(S) /\ n \in Nat
    BY DEF IsListing
  <1>2. s \in Seq(S \cup {x})
    BY <1>1
  <1>3. /\ u \in Seq(S \cup {x}) /\ Len(u) = n + 1 /\ u[n + 1] = x
        /\ \A i \in 1..n : u[i] = s[i]
    BY <1>2, AppendProperties
  <1> HIDE DEF u
  <1>4. \A i \in 1..n + 1 : i \in 1..n \/ i = n + 1
    BY <1>1
  <1>5. \A i \in 1..n : s[i] \in S
    BY <1>1, ElementOfSeq
  <1>6. \A i, j \in 1..n + 1 : u[i] = u[j] => i = j
    BY <1>3, <1>4, <1>5 DEF IsListing
  <1>7. ASSUME NEW y \in S \cup {x} PROVE \E i \in 1..n + 1 : u[i] = y
    <2>1. CASE y \in S
      <3>1. PICK i \in 1..n : s[i] = y
        BY <2>1 DEF IsListing
      <3>2. u[i] = y /\ i \in 1..n + 1
        BY <1>1, <1>3, <3>1
      <3> QED
        BY <3>2
    <2>2. CASE y = x
      <3>1. n + 1 \in 1..n + 1
        BY <1>1
      <3> QED
        BY <1>3, <2>2, <3>1
    <2> QED
      BY <2>1, <2>2
  <1>8. IsListing(u, S \cup {x})
    BY <1>3, <1>6, <1>7 DEF IsListing
  <1> QED
    BY <1>8 DEF u

LEMMA VisitHostKeeps ==
    ASSUME RenderInv, VisitHost
    PROVE  RenderInv'
  <1>1. /\ stage = "hosts" /\ UNCHANGED <<fab, stage, switchIDs, pdomMapping, pos, data, previous>>
    BY DEF VisitHost
  <1> DEFINE links == fab.links[Head(switchIDs)]
             seen == DOMAIN links \ hosts
             listed(S, p) == {h \in S : links[h] = p}
  <1>2. /\ switchIDs # <<>> /\ hosts \subseteq DOMAIN links
        /\ DOMAIN hostsByPort = {links[h] : h \in seen}
        /\ \A p \in DOMAIN hostsByPort : IsListing(hostsByPort[p], listed(seen, p))
    BY <1>1 DEF RenderInv, HostsInv
  <1>3. PICK host \in hosts :
          /\ hosts' = hosts \ {host} /\ hostsByPort' = AddHost(links[host], host)
    BY DEF VisitHost
  <1> DEFINE port == links[host]
             now == DOMAIN links \ hosts'
  <1>4. now = seen \cup {host} /\ host \notin seen
    BY <1>2, <1>3
  <1> HIDE DEF links
  <1>5. DOMAIN hostsByPort' = DOMAIN hostsByPort \cup {port}
    BY <1>3 DEF AddHost, Put
  <1>6. DOMAIN hostsByPort' = {links[h] : h \in now}
    BY <1>2, <1>4, <1>5
  <1> HIDE DEF seen, now
  <1>7. ASSUME NEW p \in DOMAIN hostsByPort'
        PROVE  IsListing(hostsByPort'[p], listed(now, p))
    <2>1. CASE p # port
      <3>1. listed(now, p) = listed(seen, p) /\ p \in DOMAIN hostsByPort
        BY <1>4, <1>5, <2>1
      <3>2. hostsByPort'[p] = hostsByPort[p]
        BY <1>3, <2>1, <3>1 DEF AddHost, Put
      <3> QED
        BY <1>2, <3>1, <3>2
    <2>2. CASE p = port /\ port \in DOMAIN hostsByPort
      <3>1. listed(now, p) = listed(seen, p) \cup {host} /\ host \notin listed(seen, p)
        BY <1>4, <2>2
      <3>2. hostsByPort'[p] = Append(hostsByPort[p], host)
        BY <1>3, <2>2 DEF AddHost, Put
      <3>3. IsListing(hostsByPort[p], listed(seen, p))
        BY <1>2, <2>2
      <3> HIDE DEF listed
      <3>4. IsListing(Append(hostsByPort[p], host), listed(seen, p) \cup {host})
        BY <3>1, <3>3, ListingAppend
      <3> QED
        BY <3>1, <3>2, <3>4
    <2>3. CASE p = port /\ port \notin DOMAIN hostsByPort
      <3>1. listed(seen, p) = {}
        BY <1>2, <2>3
      <3>2. listed(now, p) = {host}
        BY <1>4, <2>3, <3>1
      <3>3. hostsByPort'[p] = <<host>>
        BY <1>3, <2>3 DEF AddHost, Put
      <3>4. IsListing(<<host>>, {host})
        BY DEF IsListing
      <3> QED
        BY <3>2, <3>3, <3>4
    <2> QED
      BY <2>1, <2>2, <2>3
  <1>8. hosts' \subseteq DOMAIN links
    BY <1>2, <1>3
  <1>9. HostsInv'
    BY <1>1, <1>2, <1>6, <1>7, <1>8 DEF HostsInv, links, now
  <1>10. DataInv'
    BY <1>1 DEF RenderInv, DataInv
  <1>11. MappingInv'
    BY <1>1 DEF RenderInv, MappingInv
  <1> QED
    BY <1>1, <1>9, <1>10, <1>11 DEF RenderInv

\* The section that is written is the one of the switch.
LEMMA SwitchWritten ==
    ASSUME RenderInv, stage = "hosts", hosts = {}, NEW visited \in Visits(hostsByPort),
           Head(switchIDs) \in DOMAIN fab.links
    PROVE  LET ports == SortStrings(visited)
           IN  [id |-> Head(switchIDs), links |-> [i \in DOMAIN ports |-> HostLink(ports[i])]]
                 = SwitchConfig(fab, Head(switchIDs))
  <1> DEFINE id == Head(switchIDs)
             links == fab.links[id]
             order == Order(Range(links))
             ports == SortStrings(visited)
  <1>1. /\ IsFiniteSet(DOMAIN links) /\ DOMAIN links \in SUBSET Nat
        /\ IsFiniteSet(Range(links)) /\ Range(links) \in SUBSET Nat
    BY Fabric DEF RenderInv
  <1>2. /\ DOMAIN hostsByPort = Range(links)
        /\ \A p \in DOMAIN hostsByPort : IsListing(hostsByPort[p], HostsOn(links, p))
    <2>1. DOMAIN links \ hosts = DOMAIN links
      OBVIOUS
    <2> QED
      BY <2>1 DEF RenderInv, HostsInv, HostsOn, Range
  <1>3. ports = order
    BY <1>1, <1>2, VisitsSorted
  <1>4. IsOrder(order, Range(links))
    BY <1>1, OrderExists
  <1>5. /\ order \in Seq(Range(links)) /\ DOMAIN order = 1..Len(order)
        /\ \A i \in 1..Len(order) : order[i] \in Range(links)
    BY <1>4, ElementOfSeq DEF IsOrder
  <1>6. ASSUME NEW p \in Range(links)
        PROVE  SortStrings(hostsByPort[p]) = Order(HostsOn(links, p))
    <2>1. HostsOn(links, p) \in SUBSET Nat
      BY <1>1 DEF HostsOn
    <2>2. IsListing(hostsByPort[p], HostsOn(links, p))
      BY <1>2, <1>6
    <2> QED
      BY <2>1, <2>2, SortOrders, OrderIs
  <1> HIDE DEF order, ports
  <1>7. \A i \in 1..Len(order) :
           HostLink(order[i]) = [hosts |-> Order(HostsOn(links, order[i])), port |-> order[i]]
    BY <1>5, <1>6 DEF HostLink
  <1>8. [i \in DOMAIN ports |-> HostLink(ports[i])]
          = [i \in 1..Len(order) |-> [hosts |-> Order(HostsOn(links, order[i])), port |-> order[i]]]
    BY <1>3, <1>5, <1>7
  <1> QED
    BY <1>8 DEF SwitchConfig, ports, order

LEMMA WriteSwitchKeeps ==
    ASSUME RenderInv, WriteSwitch
    PROVE  RenderInv'
  <1>1. /\ fab \in Fabrics /\ stage = "hosts" /\ stage' = "switches" /\ hosts = {}
        /\ switchIDs' = Tail(switchIDs) /\ switchIDs # <<>>
        /\ UNCHANGED <<fab, hosts, hostsByPort, pdomMapping, pos, previous>>
    BY DEF RenderInv, WriteSwitch, HostsInv
  <1> DEFINE order == Order(DOMAIN fab.links)
             configs == SwitchConfigs(fab)
  <1>2. PICK k \in 0..Len(order) :
          /\ data = Partial(fab, SubSeq(configs, 1, k), <<>>)
          /\ switchIDs = SubSeq(order, k + 1, Len(order))
    BY <1>1 DEF RenderInv, DataInv
  <1>3. /\ order \in Seq(DOMAIN fab.links) /\ Len(order) \in Nat
        /\ \A i \in 1..Len(order) : order[i] \in DOMAIN fab.links
        /\ configs \in Seq(Range(configs)) /\ Len(configs) = Len(order)
        /\ \A i \in 1..Len(order) : configs[i] = SwitchConfig(fab, order[i])
    BY <1>1, Switches
  <1> HIDE DEF order, configs
  <1>4. /\ k < Len(order) /\ k + 1 \in 0..Len(order) /\ k + 1 \in 1..Len(order)
        /\ Head(switchIDs) = order[k + 1]
        /\ Tail(switchIDs) = SubSeq(order, k + 2, Len(order))
    BY <1>1, <1>2, <1>3, SuffixShrinks
  <1>5. Head(switchIDs) \in DOMAIN fab.links
    BY <1>3, <1>4
  <1>6. data' = [data EXCEPT !.switches = Append(@, SwitchConfig(fab, Head(switchIDs)))]
    BY <1>1, <1>5, SwitchWritten DEF WriteSwitch
  <1>7. Append(SubSeq(configs, 1, k), configs[k + 1]) = SubSeq(configs, 1, k + 1)
    <2>1. k \in 0..Len(configs) /\ k < Len(configs)
      BY <1>3, <1>4
    <2> QED
      BY <1>3, <2>1, PrefixGrows
  <1>8. SwitchConfig(fab, Head(switchIDs)) = configs[k + 1]
    BY <1>3, <1>4
  <1>9. data' = Partial(fab, SubSeq(configs, 1, k + 1), <<>>)
    BY <1>2, <1>6, <1>7, <1>8 DEF Partial
  <1>10. switchIDs' = SubSeq(order, (k + 1) + 1, Len(order))
    <2>1. (k + 1) + 1 = k + 2
      BY <1>3
    <2> QED
      BY <1>1, <1>4, <2>1
  <1>11. DataInv'
    BY <1>1, <1>4, <1>9, <1>10 DEF DataInv, order, configs
  <1>12. HostsInv' /\ MappingInv'
    BY <1>1 DEF RenderInv, HostsInv, MappingInv
  <1> QED
    BY <1>1, <1>11, <1>12 DEF RenderInv

-------------------------------------------------------------------------------
(* The loops over slices *)

\* No mapping, no domain.
LEMMA NothingMapped ==
    ASSUME pdomMapping = Empty
    PROVE  MapsFirst(0)
  <1>1. DOMAIN pdomMapping = {} /\ 1..0 = {}
    BY DEF Empty
  <1> QED
    BY <1>1 DEF MapsFirst, Given

LEMMA AddMappingKeeps ==
    ASSUME RenderInv, AddMapping
    PROVE  RenderInv'
  <1>1. /\ fab \in Fabrics /\ stage = "mappings" /\ pos < Len(fab.mappings) /\ pos' = pos + 1
        /\ pos \in 0..Len(fab.mappings) /\ MapsFirst(pos)
        /\ UNCHANGED <<fab, stage, switchIDs, hosts, hostsByPort, data, previous>>
    BY DEF RenderInv, AddMapping, MappingInv
  <1> DEFINE m == fab.mappings[pos + 1]
  <1>2. Len(fab.mappings) \in Nat /\ pos \in Nat /\ pos' \in 0..Len(fab.mappings)
    BY <1>1, Fabric
  <1>3. ASSUME NEW net
        PROVE  Given(fab, net, pos + 1) =
                 IF m.net = net /\ m.dom # NoName THEN Given(fab, net, pos) \cup {pos + 1}
                 ELSE Given(fab, net, pos)
    <2>1. \A i : i \in 1..pos + 1 <=> i \in 1..pos \/ i = pos + 1
      BY <1>2
    <2> QED
      BY <2>1 DEF Given
  <1>4. \A net : \A i \in Given(fab, net, pos) : i <= pos + 1
    BY <1>2 DEF Given
  <1>5. pdomMapping' = IF m.dom = NoName THEN pdomMapping ELSE Put(pdomMapping, m.net, m.dom)
    BY DEF AddMapping
  <1>6. ASSUME NEW net, ~ (m.net = net /\ m.dom # NoName)
        PROVE  /\ net \in DOMAIN pdomMapping' <=> net \in DOMAIN pdomMapping
               /\ net \in DOMAIN pdomMapping => pdomMapping'[net] = pdomMapping[net]
    BY <1>5, <1>6 DEF Put
  <1>7. ASSUME m.dom # NoName
        PROVE  m.net \in DOMAIN pdomMapping' /\ pdomMapping'[m.net] = m.dom
    BY <1>5, <1>7 DEF Put
  <1> HIDE DEF m
  <1>8. ASSUME NEW net
        PROVE  /\ net \in DOMAIN pdomMapping' <=> Given(fab, net, pos + 1) # {}
               /\ net \in DOMAIN pdomMapping' =>
                    \E i \in Given(fab, net, pos + 1) :
                       /\ \A j \in Given(fab, net, pos + 1) : j <= i
                       /\ pdomMapping'[net] = fab.mappings[i].dom
    <2>1. CASE m.net = net /\ m.dom # NoName
      <3>1. Given(fab, net, pos + 1) = Given(fab, net, pos) \cup {pos + 1}
        BY <1>3, <2>1
      <3>2. \A j \in Given(fab, net, pos + 1) : j <= pos + 1
        BY <1>2, <1>4, <3>1
      <3>3. net \in DOMAIN pdomMapping' /\ pdomMapping'[net] = fab.mappings[pos + 1].dom
        BY <1>7, <2>1 DEF m
      <3> QED
        BY <3>1, <3>2, <3>3
    <2>2. CASE ~ (m.net = net /\ m.dom # NoName)
      <3>1. Given(fab, net, pos + 1) = Given(fab, net, pos)
        BY <1>3, <2>2
      <3>2. /\ net \in DOMAIN pdomMapping' <=> net \in DOMAIN pdomMapping
            /\ net \in DOMAIN pdomMapping => pdomMapping'[net] = pdomMapping[net]
        BY <1>6, <2>2
      <3> QED
        BY <1>1, <3>1, <3>2 DEF MapsFirst
    <2> QED
      BY <2>1, <2>2
  <1>9. MapsFirst(pos)'
    BY <1>1, <1>8 DEF MapsFirst
  <1>10. MappingInv'
    BY <1>1, <1>2, <1>9 DEF MappingInv
  <1>11. DataInv' /\ HostsInv'
    BY <1>1 DEF RenderInv, DataInv, HostsInv
  <1> QED
    BY <1>1, <1>10, <1>11 DEF RenderInv

\* When all mappings are read, a network has its domain.
LEMMA PhysDomNameIs ==
    ASSUME fab \in Fabrics, MapsFirst(Len(fab.mappings)), NEW net
    PROVE  PhysDomName(net) = DomainOf(fab, net)
  <1> DEFINE given == Given(fab, net, Len(fab.mappings))
  <1>0. Len(fab.mappings) \in Nat
    BY Fabric
  <1>1. given \subseteq Nat
    BY <1>0 DEF Given
  <1>2. CASE given = {}
    BY <1>2 DEF MapsFirst, PhysDomName, DomainOf
  <1>3. CASE given # {}
    <2>1. PICK i \in given : (\A j \in given : j <= i) /\ pdomMapping[net] = fab.mappings[i].dom
      BY <1>3 DEF MapsFirst
    <2> DEFINE last == CHOOSE l \in given : \A j \in given : j <= l
    <2>2. last \in given /\ \A j \in given : j <= last
      BY <2>1
    <2>3. i \in Nat /\ last \in Nat /\ i <= last /\ last <= i
      BY <1>1, <2>1, <2>2
    <2>4. last = i
      BY <2>3
    <2> HIDE DEF last
    <2>5. net \in DOMAIN pdomMapping
      BY <1>3 DEF MapsFirst
    <2>6. DomainOf(fab, net) = fab.mappings[last].dom
      BY <1>3 DEF DomainOf, last
    <2> QED
      BY <2>1, <2>4, <2>5, <2>6 DEF PhysDomName
  <1> QED
    BY <1>2, <1>3

\* The ranges that open a section.
LEMMA FirstsOrder ==
    ASSUME NEW f \in Fabrics, NEW k \in 0..Len(f.ranges)
    PROVE  /\ Firsts(f, k) \in SUBSET Nat /\ IsFiniteSet(Firsts(f, k))
           /\ \A x \in Firsts(f, k) : x \in 1..k
           /\ IsOrder(Order(Firsts(f, k)), Firsts(f, k))
  <1>1. k \in Nat
    BY Fabric
  <1>2. Firsts(f, k) \in SUBSET Nat /\ \A x \in Firsts(f, k) : x \in 1..k /\ x <= k
    BY <1>1 DEF Firsts
  <1>3. IsFiniteSet(Firsts(f, k))
    BY <1>1, <1>2, FS_BoundedSetOfNaturals
  <1> QED
    BY <1>2, <1>3, OrderExists

\* The sections are those of the domains of the ranges.
LEMMA SectionsCover ==
    ASSUME NEW f \in Fabrics, NEW k \in 0..Len(f.ranges)
    PROVE  LET order == Order(Firsts(f, k))
           IN  /\ Sections(f, k) \in Seq({DomainOf(f, f.ranges[i]) : i \in 1..k})
               /\ Len(Sections(f, k)) = Len(order) /\ Len(order) \in Nat
               /\ \A i \in 1..Len(order) :
                    /\ order[i] \in Firsts(f, k)
                    /\ Sections(f, k)[i] = DomainOf(f, f.ranges[order[i]])
               /\ \A j \in 1..k : \E i \in 1..Len(order) :
                    Sections(f, k)[i] = DomainOf(f, f.ranges[j])
  <1> DEFINE order == Order(Firsts(f, k))
             dom(i) == DomainOf(f, f.ranges[i])
             sections == [i \in 1..Len(order) |-> dom(order[i])]
  <1>1. /\ \A x \in Firsts(f, k) : x \in 1..k
        /\ IsOrder(order, Firsts(f, k))
    BY FirstsOrder
  <1>2. k \in Nat
    BY Fabric
  <1>3. order \in Seq(Firsts(f, k)) /\ Len(order) \in Nat
        /\ \A x \in Firsts(f, k) : \E i \in 1..Len(order) : order[i] = x
    BY <1>1, LenProperties DEF IsOrder
  <1>4. \A i \in 1..Len(order) : order[i] \in Firsts(f, k)
    BY <1>3, ElementOfSeq
  <1>5. Sections(f, k) = sections
    BY DEF Sections
  <1> HIDE DEF order
  <1>6. \A i \in 1..Len(order) : sections[i] = dom(order[i])
    OBVIOUS
  <1>7. \A i \in 1..Len(order) : dom(order[i]) \in {dom(j) : j \in 1..k}
    BY <1>1, <1>4
  <1>8. sections \in Seq({dom(j) : j \in 1..k}) /\ Len(sections) = Len(order)
    <2> HIDE DEF dom
    <2> QED
      BY <1>3, <1>7
  <1> HIDE DEF sections
  <1>9. ASSUME NEW j \in 1..k PROVE \E i \in 1..Len(order) : sections[i] = dom(j)
    <2> DEFINE T == {i \in 1..k : dom(i) = dom(j)}
    <2>1. T \subseteq Nat /\ T # {}
      BY <1>2
    <2>2. PICK x \in T : \A y \in T : x <= y
      BY <2>1, NatMin
    <2>3. x \in 1..k /\ dom(x) = dom(j) /\ \A y \in 1..k : dom(y) = dom(j) => x <= y
      BY <2>2
    <2> HIDE DEF dom
    <2>4. \A y \in 1..k : y < x => dom(y) # dom(x)
      BY <1>2, <2>3
    <2>5. x \in Firsts(f, k)
      BY <2>3, <2>4 DEF Firsts, dom
    <2>6. PICK i \in 1..Len(order) : order[i] = x
      BY <1>3, <2>5
    <2> QED
      BY <1>6, <2>3, <2>6
  <1> QED
    BY <1>3, <1>4, <1>5, <1>6, <1>8, <1>9 DEF order

\* One range more: its domain has a section, or gets one at the end.
LEMMA SectionsGrow ==
    ASSUME NEW f \in Fabrics, NEW k \in 0..Len(f.ranges), k < Len(f.ranges)
    PROVE  LET dom == DomainOf(f, f.ranges[k + 1])
           IN  Sections(f, k + 1) = IF Contains(Sections(f, k), dom) THEN Sections(f, k)
                                    ELSE Append(Sections(f, k), dom)
  <1> DEFINE dom(i) == DomainOf(f, f.ranges[i])
             order == Order(Firsts(f, k))
             old == Sections(f, k)
  <1>0. k \in Nat /\ Len(f.ranges) \in Nat /\ k + 1 \in 0..Len(f.ranges)
    BY Fabric
  <1>1. /\ old \in Seq({dom(i) : i \in 1..k}) /\ Len(old) = Len(order) /\ Len(order) \in Nat
        /\ \A i \in 1..Len(order) : order[i] \in Firsts(f, k) /\ old[i] = dom(order[i])
        /\ \A j \in 1..k : \E i \in 1..Len(order) : old[i] = dom(j)
    BY SectionsCover
  <1>2. /\ Firsts(f, k) \in SUBSET Nat /\ \A x \in Firsts(f, k) : x \in 1..k
        /\ IsOrder(order, Firsts(f, k))
    BY FirstsOrder
  <1>3. \A i : i \in 1..k + 1 <=> i \in 1..k \/ i = k + 1
    BY <1>0
  <1>4. Contains(old, dom(k + 1)) <=> \E j \in 1..k : dom(j) = dom(k + 1)
    <2> HIDE DEF dom, old, order
    <2>1. ASSUME NEW i \in 1..Len(old), old[i] = dom(k + 1)
          PROVE  \E j \in 1..k : dom(j) = dom(k + 1)
      BY <1>1, <1>2, <2>1
    <2>2. ASSUME NEW j \in 1..k, dom(j) = dom(k + 1)
          PROVE  \E i \in 1..Len(old) : old[i] = dom(k + 1)
      BY <1>1, <2>2
    <2> QED
      BY <2>1, <2>2 DEF Contains
  <1>5. \A i \in 1..k : i < k + 1
    BY <1>0
  <1>6. Firsts(f, k + 1) = IF \E j \in 1..k : dom(j) = dom(k + 1) THEN Firsts(f, k)
                           ELSE Firsts(f, k) \cup {k + 1}
    <2>1. ASSUME NEW i PROVE i \in Firsts(f, k + 1) <=>
            \/ i \in Firsts(f, k)
            \/ i = k + 1 /\ ~ \E j \in 1..k : dom(j) = dom(k + 1)
      <3>1. CASE i \in 1..k
        <4>1. ~ (k + 1 < i) /\ i # k + 1
          BY <1>0, <3>1
        <4> QED
          BY <1>3, <3>1, <4>1 DEF Firsts
      <3>2. CASE i = k + 1
        <4>1. i \notin 1..k /\ ~ (k + 1 < i)
          BY <1>0, <3>2
        <4> QED
          BY <1>3, <1>5, <3>2, <4>1 DEF Firsts
      <3>3. CASE i \notin 1..k + 1
        <4>1. i \notin 1..k /\ i # k + 1
          BY <1>3, <3>3
        <4> QED
          BY <3>3, <4>1 DEF Firsts
      <3> QED
        BY <1>3, <3>1, <3>2, <3>3
    <2> HIDE DEF dom
    <2>2. CASE \E j \in 1..k : dom(j) = dom(k + 1)
      <3>1. \A i : i \in Firsts(f, k + 1) <=> i \in Firsts(f, k)
        BY <2>1, <2>2
      <3>2. Firsts(f, k + 1) = Firsts(f, k)
        BY <3>1
      <3> QED
        BY <2>2, <3>2
    <2>3. CASE ~ \E j \in 1..k : dom(j) = dom(k + 1)
      <3>1. \A i : i \in Firsts(f, k + 1) <=> i \in Firsts(f, k) \cup {k + 1}
        BY <2>1, <2>3
      <3>2. Firsts(f, k + 1) = Firsts(f, k) \cup {k + 1}
        BY <3>1
      <3> QED
        BY <2>3, <3>2
    <2> QED
      BY <2>2, <2>3
  <1>7. CASE \E j \in 1..k : dom(j) = dom(k + 1)
    <2>1. Firsts(f, k + 1) = Firsts(f, k)
      BY <1>6, <1>7
    <2>2. Sections(f, k + 1) = Sections(f, k)
      BY <2>1 DEF Sections
    <2> QED
      BY <1>4, <1>7, <2>2
  <1>8. CASE ~ \E j \in 1..k : dom(j) = dom(k + 1)
    <2>1. Firsts(f, k + 1) = Firsts(f, k) \cup {k + 1}
      BY <1>6, <1>8
    <2>2. \A y \in Firsts(f, k) : y < k + 1
      BY <1>2, <1>5
    <2>3. IsOrder(Append(order, k + 1), Firsts(f, k + 1))
      <3> HIDE DEF order
      <3>1. k + 1 \in Nat
        BY <1>0
      <3>2. IsOrder(Append(order, k + 1), Firsts(f, k) \cup {k + 1})
        BY <1>2, <2>2, <3>1, OrderAppend
      <3> QED
        BY <2>1, <3>2
    <2>4. Order(Firsts(f, k + 1)) = Append(order, k + 1)
      <3>1. Firsts(f, k + 1) \in SUBSET Nat
        BY <1>0, FirstsOrder
      <3> QED
        BY <2>3, <3>1, OrderIs
    <2> DEFINE new == Sections(f, k + 1)
               n == Len(order)
    <2>5. /\ new \in Seq({dom(i) : i \in 1..k + 1})
          /\ Len(new) = Len(Append(order, k + 1))
          /\ \A i \in 1..Len(Append(order, k + 1)) : new[i] = dom(Append(order, k + 1)[i])
      <3> DEFINE next == Order(Firsts(f, k + 1))
      <3>1. /\ new \in Seq({dom(i) : i \in 1..k + 1}) /\ Len(new) = Len(next)
            /\ \A i \in 1..Len(next) : new[i] = dom(next[i])
        BY <1>0, SectionsCover
      <3> HIDE DEF next, new, dom, order
      <3>2. next = Append(order, k + 1)
        BY <2>4 DEF next
      <3> QED
        BY <3>1, <3>2
    <2>6. /\ Len(Append(order, k + 1)) = n + 1 /\ Append(order, k + 1)[n + 1] = k + 1
          /\ \A i \in 1..n : Append(order, k + 1)[i] = order[i]
      <3>1. order \in Seq(Firsts(f, k) \cup {k + 1})
        BY <1>2 DEF IsOrder
      <3> QED
        BY <3>1, AppendProperties
    <2> HIDE DEF order, dom, new, old
    <2> DEFINE S == {dom(i) : i \in 1..k + 1}
               app == Append(old, dom(k + 1))
    <2>7. old \in Seq(S) /\ dom(k + 1) \in S
      <3>1. {dom(i) : i \in 1..k} \subseteq S /\ dom(k + 1) \in S
        BY <1>3
      <3> HIDE DEF S
      <3> QED
        BY <1>1, <3>1
    <2> HIDE DEF S
    <2>8. /\ app \in Seq(S) /\ Len(app) = n + 1 /\ app[n + 1] = dom(k + 1)
          /\ \A i \in 1..n : app[i] = old[i]
      BY <1>1, <2>7, AppendProperties
    <2> HIDE DEF app
    <2>9. n \in Nat /\ \A i \in 1..n + 1 : i \in 1..n \/ i = n + 1
      BY <1>1
    <2>10. \A i \in 1..n + 1 : new[i] = app[i]
      <3>1. n + 1 \in 1..n + 1 /\ \A i \in 1..n : i \in 1..n + 1
        BY <2>9
      <3> QED
        BY <1>1, <2>5, <2>6, <2>8, <2>9, <3>1
    <2>11. new \in Seq(S)
      BY <2>5 DEF S
    <2>12. new = app
      BY <2>5, <2>6, <2>8, <2>10, <2>11, SeqEqual
    <2> QED
      BY <1>4, <1>8, <2>12 DEF new, app, old, dom
  <1> QED
    BY <1>7, <1>8

LEMMA AddDomainKeeps ==
    ASSUME RenderInv, AddDomain
    PROVE  RenderInv'
  <1>1. /\ fab \in Fabrics /\ stage = "ranges" /\ pos < Len(fab.ranges) /\ pos' = pos + 1
        /\ pos \in 0..Len(fab.ranges) /\ MapsFirst(Len(fab.mappings))
        /\ data = Partial(fab, SwitchConfigs(fab), Sections(fab, pos))
        /\ UNCHANGED <<fab, stage, switchIDs, hosts, hostsByPort, pdomMapping, previous>>
    BY DEF RenderInv, AddDomain, MappingInv, DataInv
  <1> DEFINE net == fab.ranges[pos + 1]
             dom == DomainOf(fab, net)
  <1>2. PhysDomName(net) = dom
    BY <1>1, PhysDomNameIs
  <1>3. Sections(fab, pos + 1) = IF Contains(Sections(fab, pos), dom) THEN Sections(fab, pos)
                                 ELSE Append(Sections(fab, pos), dom)
    BY <1>1, SectionsGrow
  <1>4. data' = IF InPhysDomSet(net) THEN data
                ELSE [data EXCEPT !.physDoms = Append(@, PhysDomName(net))]
    BY DEF AddDomain
  <1> HIDE DEF dom, net
  <1>5. data' = Partial(fab, SwitchConfigs(fab), Sections(fab, pos + 1))
    BY <1>1, <1>2, <1>3, <1>4 DEF InPhysDomSet, Partial
  <1>6. pos' \in 0..Len(fab.ranges)
    BY <1>1, Fabric
  <1>7. DataInv'
    BY <1>1, <1>5, <1>6 DEF DataInv
  <1>8. MapsFirst(Len(fab.mappings))'
    BY <1>1 DEF MapsFirst
  <1>9. HostsInv' /\ MappingInv'
    BY <1>1, <1>8 DEF HostsInv, MappingInv
  <1> QED
    BY <1>1, <1>7, <1>9 DEF RenderInv

LEMMA LoopEndsKeeps ==
    ASSUME RenderInv, LoopEnds
    PROVE  RenderInv'
  <1>1. /\ fab \in Fabrics /\ pos' = 0
        /\ UNCHANGED <<fab, switchIDs, hosts, hostsByPort, pdomMapping, data, previous>>
    BY DEF RenderInv, LoopEnds
  <1>2. Len(fab.mappings) \in Nat /\ Len(fab.ranges) \in Nat
    BY <1>1, Fabric
  <1>3. CASE stage = "switches" /\ switchIDs = <<>> /\ stage' = "mappings"
    <2> DEFINE order == Order(DOMAIN fab.links)
               configs == SwitchConfigs(fab)
    <2>1. PICK k \in 0..Len(order) :
            /\ data = Partial(fab, SubSeq(configs, 1, k), <<>>)
            /\ switchIDs = SubSeq(order, k + 1, Len(order))
      BY <1>3 DEF RenderInv, DataInv
    <2>2. /\ order \in Seq(DOMAIN fab.links) /\ Len(order) \in Nat
          /\ configs \in Seq(Range(configs)) /\ Len(configs) = Len(order)
      BY <1>1, Switches
    <2> HIDE DEF order, configs
    <2>3. k = Len(order)
      <3>1. Len(SubSeq(order, k + 1, Len(order))) = Len(order) - k
        BY <2>2
      <3>2. Len(switchIDs) = 0
        BY <1>3
      <3> QED
        BY <2>1, <2>2, <3>1, <3>2
    <2>4. SubSeq(configs, 1, Len(configs)) = configs
      BY <2>2
    <2>5. data = Partial(fab, configs, <<>>)
      BY <2>1, <2>2, <2>3, <2>4
    <2>6. DataInv'
      BY <1>1, <1>3, <2>5 DEF DataInv, configs
    <2>7. pdomMapping = Empty
      BY <1>3 DEF RenderInv, MappingInv
    <2>8. MapsFirst(0)
      BY <2>7, NothingMapped
    <2>9. MapsFirst(pos)'
      BY <1>1, <2>8 DEF MapsFirst
    <2>10. HostsInv' /\ MappingInv'
      BY <1>1, <1>2, <1>3, <2>9 DEF HostsInv, MappingInv
    <2> QED
      BY <1>1, <1>3, <2>6, <2>10 DEF RenderInv
  <1>4. CASE stage = "mappings" /\ pos = Len(fab.mappings) /\ stage' = "ranges"
    <2>1. MapsFirst(Len(fab.mappings)) /\ data = Partial(fab, SwitchConfigs(fab), <<>>)
      BY <1>4 DEF RenderInv, MappingInv, DataInv
    <2>2. MapsFirst(Len(fab.mappings))'
      BY <1>1, <2>1 DEF MapsFirst
    <2>3. Sections(fab, 0) = <<>>
      <3>1. /\ IsOrder(Order(Firsts(fab, 0)), Firsts(fab, 0))
            /\ \A x \in Firsts(fab, 0) : x \in 1..0
        BY <1>1, <1>2, FirstsOrder
      <3>2. Firsts(fab, 0) = {}
        BY <3>1
      <3>3. Order(Firsts(fab, 0)) = <<>>
        BY <3>1, <3>2 DEF IsOrder
      <3> QED
        BY <3>3 DEF Sections
    <2>4. DataInv'
      BY <1>1, <1>2, <1>4, <2>1, <2>3 DEF DataInv
    <2>5. HostsInv' /\ MappingInv'
      BY <1>4, <2>2 DEF HostsInv, MappingInv
    <2> QED
      BY <1>1, <1>4, <2>4, <2>5 DEF RenderInv
  <1>5. CASE stage = "ranges" /\ pos = Len(fab.ranges) /\ stage' = "done"
    <2>1. data = Rendering(fab)
      BY <1>5 DEF RenderInv, DataInv, Rendering
    <2>2. DataInv' /\ HostsInv' /\ MappingInv'
      BY <1>1, <1>5, <2>1 DEF DataInv, HostsInv, MappingInv
    <2> QED
      BY <1>1, <1>5, <2>2 DEF RenderInv
  <1> QED
    BY <1>3, <1>4, <1>5 DEF LoopEnds

LEMMA RenderAgainKeeps ==
    ASSUME RenderInv, RenderAgain
    PROVE  RenderInv'
  BY DEF RenderInv, RenderAgain, DataInv, HostsInv, MappingInv

LEMMA InitRender == Init => RenderInv
  BY DEF Init, RenderInv, DataInv, HostsInv, MappingInv

\* Every step keeps the invariant.
LEMMA NextRender ==
    ASSUME RenderInv, [Next]_vars
    PROVE  RenderInv'
  <1>1. CASE UNCHANGED vars
    <2>1. UNCHANGED <<fab, stage, switchIDs, hosts, hostsByPort, pdomMapping, pos, data, previous>>
      BY <1>1 DEF vars
    <2> QED
      BY <2>1 DEF RenderInv, DataInv, HostsInv, MappingInv, MapsFirst
  <1> QED
    BY <1>1, ListSwitchesKeeps, OpenSwitchKeeps, VisitHostKeeps, WriteSwitchKeeps,
       AddMappingKeeps, AddDomainKeeps, LoopEndsKeeps, RenderAgainKeeps DEF Next

-------------------------------------------------------------------------------
(* What the invariant says of the file *)

\* An order lists each element once.
LEMMA OrderLists ==
    ASSUME NEW S \in SUBSET Nat, NEW t, IsOrder(t, S)
    PROVE  /\ DOMAIN t = 1..Len(t) /\ IsInjective(t) /\ ToSet(t) = S
           /\ \A i \in 1..Len(t) : t[i] \in S
           /\ \A i, j \in 1..Len(t) : t[i] = t[j] => i = j
           /\ \A x \in S : \E i \in 1..Len(t) : t[i] = x
  <1>1. t \in Seq(S) /\ Len(t) \in Nat /\ DOMAIN t = 1..Len(t)
    BY LenProperties DEF IsOrder
  <1>2. \A i \in 1..Len(t) : t[i] \in S
    BY <1>1, ElementOfSeq
  <1>3. ASSUME NEW i \in 1..Len(t), NEW j \in 1..Len(t), t[i] = t[j] PROVE i = j
    <2>1. i \in Nat /\ j \in Nat
      BY <1>1
    <2>2. t[i] \in Nat /\ t[j] \in Nat
      <3>1. t[i] \in S /\ t[j] \in S
        BY <1>2
      <3> QED
        BY <3>1
    <2>3. ~ (i < j) /\ ~ (j < i)
      BY <1>3, <2>2 DEF IsOrder
    <2> QED
      BY <2>1, <2>3
  <1>4. \A x \in S : \E i \in 1..Len(t) : t[i] = x
    BY DEF IsOrder
  <1>5. IsInjective(t)
    BY <1>1, <1>3 DEF IsInjective
  <1>6. ToSet(t) = S
    BY <1>1, <1>2, <1>4 DEF ToSet
  <1> QED
    BY <1>1, <1>2, <1>3, <1>4, <1>5, <1>6

\* The invariant holds in every behaviour.
LEMMA RenderInvariant == Spec => []RenderInv
  <1>1. Init => RenderInv
    BY InitRender
  <1>2. RenderInv /\ [Next]_vars => RenderInv'
    BY NextRender
  <1> QED
    BY <1>1, <1>2, PTL DEF Spec

\* Rendering the same fabric twice gives the same file, in whatever order Go visits
\* its maps: both are the one file that the fabric determines.  (buildSwitchConfigs,
\* populateAimCtlConfData)
THEOREM RenderingStable == Spec => []RenderingIsStable
  <1>1. RenderInv => RenderingIsStable
    BY DEF RenderInv, DataInv, RenderingIsStable
  <1> QED
    BY <1>1, RenderInvariant, PTL

\* The lines of a switch: one per port, with the hosts of the port.
LEMMA LinksOfSwitch ==
    ASSUME NEW f \in Fabrics, NEW id \in DOMAIN f.links
    PROVE  LET s == SwitchConfig(f, id)
           IN  /\ s.id = id
               /\ IsInjective([i \in DOMAIN s.links |-> s.links[i].port])
               /\ {l.port : l \in ToSet(s.links)} = Range(f.links[id])
               /\ \A l \in ToSet(s.links) :
                    /\ IsInjective(l.hosts)
                    /\ ToSet(l.hosts) = {h \in DOMAIN f.links[id] : f.links[id][h] = l.port}
  <1> DEFINE ports == f.links[id]
             order == Order(Range(ports))
             n == Len(order)
             link(i) == [hosts |-> Order(HostsOn(ports, order[i])), port |-> order[i]]
             links == [i \in 1..n |-> link(i)]
  <1>1. /\ IsFiniteSet(DOMAIN ports) /\ DOMAIN ports \in SUBSET Nat
        /\ IsFiniteSet(Range(ports)) /\ Range(ports) \in SUBSET Nat
    BY Fabric
  <1>2. IsOrder(order, Range(ports))
    BY <1>1, OrderExists
  <1>3. /\ \A i \in 1..n : order[i] \in Range(ports)
        /\ \A i, j \in 1..n : order[i] = order[j] => i = j
        /\ \A x \in Range(ports) : \E i \in 1..n : order[i] = x
    BY <1>1, <1>2, OrderLists
  <1>4. SwitchConfig(f, id).id = id /\ SwitchConfig(f, id).links = links
    BY DEF SwitchConfig
  <1> HIDE DEF order
  <1>5. DOMAIN links = 1..n /\ \A i \in 1..n : links[i] = link(i) /\ links[i].port = order[i]
    OBVIOUS
  <1> HIDE DEF links
  <1>6. IsInjective([i \in DOMAIN links |-> links[i].port])
    BY <1>3, <1>5 DEF IsInjective
  <1>7. {l.port : l \in ToSet(links)} = Range(ports)
    <2> HIDE DEF ports, link
    <2>1. \A l \in ToSet(links) : \E i \in 1..n : l = links[i]
      BY <1>5 DEF ToSet
    <2>2. \A i \in 1..n : links[i] \in ToSet(links)
      BY <1>5 DEF ToSet
    <2> QED
      BY <1>3, <1>5, <2>1, <2>2
  <1>8. ASSUME NEW l \in ToSet(links)
        PROVE  IsInjective(l.hosts) /\ ToSet(l.hosts) = {h \in DOMAIN ports : ports[h] = l.port}
    <2>1. PICK i \in 1..n : l = links[i]
      BY <1>5 DEF ToSet
    <2>2. l.hosts = Order(HostsOn(ports, order[i])) /\ l.port = order[i]
      BY <1>5, <2>1
    <2>3. HostsOn(ports, order[i]) \in SUBSET Nat /\ HostsOn(ports, order[i]) \subseteq DOMAIN ports
      BY <1>1 DEF HostsOn
    <2>4. IsFiniteSet(HostsOn(ports, order[i]))
      BY <1>1, <2>3, FS_Subset
    <2>5. IsOrder(Order(HostsOn(ports, order[i])), HostsOn(ports, order[i]))
      BY <2>3, <2>4, OrderExists
    <2>6. IsInjective(l.hosts) /\ ToSet(l.hosts) = HostsOn(ports, order[i])
      BY <2>2, <2>3, <2>5, OrderLists
    <2> QED
      BY <2>2, <2>6 DEF HostsOn
  <1> QED
    BY <1>4, <1>6, <1>7, <1>8

\* The lines written for the switches say what ACIHostLinks says, no more and no
\* less, for every fabric and every order of visits.  (buildSwitchConfigs)
THEOREM LinksRendered == Spec => []LinksAsSpecified
  <1>1. ASSUME RenderInv, stage = "done"
        PROVE  /\ IsInjective([i \in DOMAIN data.switches |-> data.switches[i].id])
               /\ {s.id : s \in ToSet(data.switches)} = DOMAIN fab.links
               /\ \A s \in ToSet(data.switches) :
                    \E id \in DOMAIN fab.links : s = SwitchConfig(fab, id)
    <2> DEFINE order == Order(DOMAIN fab.links)
               n == Len(order)
               configs == SwitchConfigs(fab)
    <2>1. fab \in Fabrics /\ data.switches = configs
      BY <1>1 DEF RenderInv, DataInv, Rendering, Partial
    <2>2. DOMAIN fab.links \in SUBSET Nat
      BY <2>1, Fabric
    <2>3. /\ IsOrder(order, DOMAIN fab.links)
          /\ \A i \in 1..n : order[i] \in DOMAIN fab.links
          /\ \A i \in 1..n : configs[i] = SwitchConfig(fab, order[i])
      BY <2>1, Switches
    <2>4. DOMAIN configs = 1..n
      BY DEF SwitchConfigs
    <2>5. /\ \A i, j \in 1..n : order[i] = order[j] => i = j
          /\ \A x \in DOMAIN fab.links : \E i \in 1..n : order[i] = x
      BY <2>2, <2>3, OrderLists
    <2>6. \A i \in 1..n : configs[i].id = order[i]
      BY <2>1, <2>3, LinksOfSwitch
    <2> HIDE DEF order, configs
    <2>7. IsInjective([i \in DOMAIN configs |-> configs[i].id])
      BY <2>4, <2>5, <2>6 DEF IsInjective
    <2>8. \A s \in ToSet(configs) : \E i \in 1..n : s = configs[i]
      BY <2>4 DEF ToSet
    <2>9. \A i \in 1..n : configs[i] \in ToSet(configs)
      BY <2>4 DEF ToSet
    <2>10. {s.id : s \in ToSet(configs)} = DOMAIN fab.links
      <3>1. \A s \in ToSet(configs) : s.id \in DOMAIN fab.links
        BY <2>3, <2>6, <2>8
      <3>2. \A x \in DOMAIN fab.links : \E s \in ToSet(configs) : s.id = x
        BY <2>5, <2>6, <2>9
      <3> QED
        BY <3>1, <3>2
    <2>11. \A s \in ToSet(configs) : \E id \in DOMAIN fab.links : s = SwitchConfig(fab, id)
      BY <2>3, <2>8
    <2> QED
      BY <2>1, <2>7, <2>10, <2>11
  <1>2. ASSUME RenderInv, stage = "done", NEW s \in ToSet(data.switches)
        PROVE  /\ IsInjective([i \in DOMAIN s.links |-> s.links[i].port])
               /\ {l.port : l \in ToSet(s.links)} = Range(fab.links[s.id])
               /\ \A l \in ToSet(s.links) :
                    /\ IsInjective(l.hosts)
                    /\ ToSet(l.hosts) =
                         {h \in DOMAIN fab.links[s.id] : fab.links[s.id][h] = l.port}
    <2>1. PICK id \in DOMAIN fab.links : s = SwitchConfig(fab, id)
      BY <1>1, <1>2
    <2>2. fab \in Fabrics
      BY <1>2 DEF RenderInv
    <2>3. s.id = id
      BY <2>1, <2>2, LinksOfSwitch
    <2> QED
      BY <2>1, <2>2, <2>3, LinksOfSwitch
  <1>3. RenderInv => LinksAsSpecified
    BY <1>1, <1>2 DEF LinksAsSpecified
  <1> QED
    BY <1>3, RenderInvariant, PTL

\* Each network of the VLAN ranges that NeutronPhysicalDevMappings does not name has the
\* section of its domain, no other sections are there unless it names some, and none
\* is written twice, for every fabric.  (populateAimCtlConfData)
THEOREM DomainsRendered == Spec => []DomainsAsSpecified
  <1> DEFINE given(net) == {i \in DOMAIN fab.mappings :
                              fab.mappings[i].net = net /\ fab.mappings[i].dom # NoName}
             domain(net) == IF given(net) = {} THEN <<"pdom", net>>
                            ELSE fab.mappings[CHOOSE i \in given(net) :
                                                \A j \in given(net) : j <= i].dom
  <1>1. ASSUME RenderInv, stage = "done"
        PROVE  /\ IsInjective(data.physDoms)
               /\ ToSet(data.physDoms) = {domain(net) : net \in ToSet(fab.ranges)}
    <2> DEFINE k == Len(fab.ranges)
               order == Order(Firsts(fab, k))
               n == Len(order)
               sections == Sections(fab, k)
               dom(i) == DomainOf(fab, fab.ranges[i])
    <2>1. fab \in Fabrics /\ data.physDoms = sections
      BY <1>1 DEF RenderInv, DataInv, Rendering, Partial
    <2>2. k \in Nat /\ k \in 0..k /\ DOMAIN fab.ranges = 1..k
          /\ DOMAIN fab.mappings = 1..Len(fab.mappings)
      BY <2>1, Fabric, LenProperties
    <2>3. \A net : domain(net) = DomainOf(fab, net)
      BY <2>2 DEF DomainOf, Given
    <2>4. /\ n \in Nat
          /\ \A i \in 1..n : order[i] \in Firsts(fab, k) /\ sections[i] = dom(order[i])
          /\ \A j \in 1..k : \E i \in 1..n : sections[i] = dom(j)
      BY <2>1, <2>2, SectionsCover
    <2>5. DOMAIN sections = 1..n
      BY DEF Sections
    <2>6. /\ Firsts(fab, k) \in SUBSET Nat
          /\ \A x \in Firsts(fab, k) : x \in 1..k
          /\ IsOrder(order, Firsts(fab, k))
      BY <2>1, <2>2, FirstsOrder
    <2>7. \A i, j \in 1..n : order[i] = order[j] => i = j
      BY <2>6, OrderLists
    <2>8. \A x, y \in Firsts(fab, k) : x < y => dom(x) # dom(y)
      BY <2>6 DEF Firsts
    <2> HIDE DEF order, sections, dom, domain
    <2>9. ASSUME NEW i \in 1..n, NEW j \in 1..n, sections[i] = sections[j] PROVE i = j
      <3>1. order[i] \in Firsts(fab, k) /\ order[j] \in Firsts(fab, k)
            /\ dom(order[i]) = dom(order[j])
        BY <2>4, <2>9
      <3>2. order[i] \in Nat /\ order[j] \in Nat
        BY <2>6, <3>1
      <3>3. ~ (order[i] < order[j]) /\ ~ (order[j] < order[i])
        BY <2>8, <3>1
      <3> QED
        BY <2>7, <3>2, <3>3
    <2>10. IsInjective(sections)
      BY <2>5, <2>9 DEF IsInjective
    <2>11. ToSet(sections) = {dom(j) : j \in 1..k}
      <3>1. ToSet(sections) = {sections[i] : i \in 1..n}
        BY <2>5 DEF ToSet
      <3>2. \A i \in 1..n : \E j \in 1..k : sections[i] = dom(j)
        BY <2>4, <2>6
      <3>3. \A j \in 1..k : \E i \in 1..n : sections[i] = dom(j)
        BY <2>4
      <3> HIDE DEF n, k
      <3> QED
        BY <3>1, <3>2, <3>3
    <2>12. {dom(j) : j \in 1..k} = {domain(net) : net \in ToSet(fab.ranges)}
      BY <2>2, <2>3 DEF ToSet, dom
    <2> QED
      BY <2>1, <2>10, <2>11, <2>12
  <1>2. RenderInv => DomainsAsSpecified
    <2> DEFINE nets == ToSet(fab.ranges)
               overridden == nets \cap {m.net : m \in ToSet(fab.devMappings)}
               due == {domain(net) : net \in nets \ overridden}
    <2> HIDE DEF domain
    <2>1. ASSUME ToSet(data.physDoms) = {domain(net) : net \in nets}
          PROVE  /\ due \subseteq ToSet(data.physDoms)
                 /\ overridden = {} => ToSet(data.physDoms) = due
      <3> HIDE DEF overridden
      <3> QED
        BY <2>1
    <2> USE DEF domain
    <2> QED
      BY <1>1, <2>1 DEF DomainsAsSpecified
  <1> QED
    BY <1>2, RenderInvariant, PTL
===============================================================================
