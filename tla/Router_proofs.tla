---------------------------- MODULE Router_proofs ----------------------------
(***************************************************************************)
(* Proofs about Router, for any index, markets, store contents, published  *)
(* sets and constants of the search.                                       *)
(***************************************************************************)
EXTENDS Router, Sums, TLAPS

-----------------------------------------------------------------------------
\* The plan.

\* PathOK of a request for out against in.
Sound(p, in, out) ==
    /\ p \in PlannedPath
    /\ Len(p.mints) \in 2 .. 5
    /\ p.mints[1] = in /\ p.mints[Len(p.mints)] = out
    /\ \A i, j \in DOMAIN p.mints : p.mints[i] = p.mints[j] => i = j
    /\ IF p.arm = "direct"
       THEN /\ Len(p.mints) = 2
            /\ Len(p.at) = 1
            /\ p.at[1] \in Between(in, out)
       ELSE Len(p.mints) > 2

\* Hubs are mints other than the ends of the request (router.rs:188-204).
LEMMA HubsAreInside ==
    ASSUME PlanAssumption, IndexTypeOK, NEW k \in Nat, NEW in, NEW out,
           NEW h \in HubSet(k, in, out)
    PROVE  h \in Mints /\ h # in /\ h # out
<1>1. TopHubs(k) \subseteq Mints
  <2>1. \A i \in 1 .. AtMost(k, Len(hub_ranking)) : i \in 1 .. Len(hub_ranking)
    BY DEF IndexTypeOK, AtMost
  <2>2. \A i \in 1 .. Len(hub_ranking) : hub_ranking[i] \in Mints
    BY DEF IndexTypeOK
  <2> QED  BY <2>1, <2>2 DEF TopHubs
<1> QED  BY <1>1 DEF HubSet, PlanAssumption

\* A mint in the middle is no hub and no end (router.rs:282, 335, 422, 459,
\* 484).
LEMMA MidsAreInside ==
    ASSUME IndexTypeOK, NEW m, NEW in, NEW out, NEW hubs, NEW k \in Mids(m, in, out, hubs)
    PROVE  /\ k \in Nat
           /\ Other(k) \in Mints
           /\ Other(k) # in /\ Other(k) # out
           /\ Other(k) \notin hubs
<1>1. k \in 1 .. Len(edges) /\ edges[k] \in Edge
  BY DEF Mids, EdgesOf, IndexTypeOK
<1> QED  BY <1>1 DEF Mids, Other, Edge

\* Paths of two, three and four hops whose mints differ are sound.
LEMMA TwoHops ==
    ASSUME NEW arm \in Arms, arm # "direct", NEW at \in Seq(Nat),
           NEW in \in Mints, NEW out \in Mints, in # out,
           NEW m \in Mints, m # in, m # out
    PROVE  Sound(Planned(arm, at, <<in, m, out>>), in, out)
BY DEF Sound, Planned, PlannedPath, Arms

\* The same for three hops.
LEMMA ThreeHops ==
    ASSUME NEW arm \in Arms, arm # "direct", NEW at \in Seq(Nat),
           NEW in \in Mints, NEW out \in Mints, in # out,
           NEW m \in Mints, m # in, m # out,
           NEW n \in Mints, n # in, n # out, n # m
    PROVE  Sound(Planned(arm, at, <<in, m, n, out>>), in, out)
BY DEF Sound, Planned, PlannedPath, Arms

\* The same for four hops.
LEMMA FourHops ==
    ASSUME NEW arm \in Arms, arm # "direct", NEW at \in Seq(Nat),
           NEW in \in Mints, NEW out \in Mints, in # out,
           NEW m \in Mints, m # in, m # out,
           NEW h \in Mints, h # in, h # out, h # m,
           NEW n \in Mints, n # in, n # out, n # m, n # h
    PROVE  Sound(Planned(arm, at, <<in, m, h, n, out>>), in, out)
BY DEF Sound, Planned, PlannedPath, Arms

(***************************************************************************)
(* Every path find_routes walks is a simple path between the ends of the   *)
(* request (router.rs:96-149): whatever the index, the hubs and the        *)
(* budgets, no arm passes a mint twice.                                    *)
(***************************************************************************)
LEMMA PlanIsSound ==
    ASSUME PlanAssumption, IndexTypeOK,
           NEW in \in Mints, NEW out \in Mints, in # out, NEW max_hops \in Nat,
           NEW p \in Plan(in, out, max_hops)
    PROVE  Sound(p, in, out)
<1> DEFINE core == CoreHubs(in, out)
<1> DEFINE half(m) == First(MaxNeighbors \div 2, Mids(m, in, out, core))
<1>1. PICK n \in 1 .. 4 : p \in Level(in, out, n)
  BY DEF Plan, AtMost
<1>2. \A h \in core : h \in Mints /\ h # in /\ h # out
  <2>1. CoreHubCount \in Nat
    BY DEF PlanAssumption
  <2> QED  BY <2>1, HubsAreInside DEF CoreHubs
<1>3. \A h \in Hubs(in, out) : h \in Mints /\ h # in /\ h # out
  <2>1. HubCount \in Nat
    BY DEF PlanAssumption
  <2> QED  BY <2>1, HubsAreInside DEF Hubs
<1>4. \A m : \A k \in half(m) :
         k \in Nat /\ Other(k) \in Mints /\ Other(k) # in /\ Other(k) # out /\ Other(k) \notin core
  <2>1. \A m : half(m) \subseteq Mids(m, in, out, core)
    BY DEF First
  <2> QED  BY <2>1, MidsAreInside
<1>a. <<>> \in Seq(Nat)
  OBVIOUS
<1>b. \A k \in Nat : <<k>> \in Seq(Nat)
  OBVIOUS
<1>c. \A k, j \in Nat : <<k, j>> \in Seq(Nat)
  OBVIOUS
<1>d. /\ {"hub", "hubs", "forward", "reverse", "meet", "direct"} \subseteq Arms
      /\ "direct" \notin {"hub", "hubs", "forward", "reverse", "meet"}
  BY DEF Arms
<1>5. CASE n = 1
  <2>1. PICK k \in Between(in, out) : p = Planned("direct", <<k>>, <<in, out>>)
    BY <1>1, <1>5 DEF Level, Direct
  <2>2. k \in Nat
    BY DEF Between, IndexTypeOK
  <2>3. p.mints = <<in, out>> /\ p.at = <<k>> /\ p.arm = "direct"
    BY <2>1 DEF Planned
  <2>4. p \in PlannedPath
    <3>1. <<in, out>> \in Seq(Mints) /\ <<k>> \in Seq(Nat)
      BY <2>2
    <3> QED  BY <2>1, <3>1, <1>d DEF Planned, PlannedPath
  <2>5. /\ Len(p.mints) = 2 /\ p.mints[1] = in /\ p.mints[Len(p.mints)] = out
        /\ \A i, j \in DOMAIN p.mints : p.mints[i] = p.mints[j] => i = j
    BY <2>3
  <2>6. Len(p.at) = 1 /\ p.at[1] \in Between(in, out)
    BY <2>1, <2>3
  <2> QED  BY <2>3, <2>4, <2>5, <2>6 DEF Sound
<1>6. CASE n = 2
  <2>1. p \in ViaHub(in, out) \/ p \in Forward2(in, out) \/ p \in Reverse2(in, out)
    BY <1>1, <1>6 DEF Level
  <2>2. CASE p \in ViaHub(in, out)
    <3>1. PICK h \in Hubs(in, out) : p = Planned("hub", <<>>, <<in, h, out>>)
      BY <2>2 DEF ViaHub
    <3> QED  BY <3>1, <1>3, <1>a, <1>d, TwoHops
  <2>3. CASE p \in Forward2(in, out)
    <3>1. PICK k \in Mids(in, in, out, Hubs(in, out)) :
             p = Planned("forward", <<k>>, <<in, Other(k), out>>)
      BY <2>3 DEF Forward2, First, Distinct
    <3>2. k \in Nat /\ Other(k) \in Mints /\ Other(k) # in /\ Other(k) # out
      BY MidsAreInside
    <3> QED  BY <3>1, <3>2, <1>b, <1>d, TwoHops
  <2>4. CASE p \in Reverse2(in, out)
    <3>1. PICK k \in Mids(out, in, out, Hubs(in, out)) :
             p = Planned("reverse", <<k>>, <<in, Other(k), out>>)
      BY <2>4 DEF Reverse2, First
    <3>2. k \in Nat /\ Other(k) \in Mints /\ Other(k) # in /\ Other(k) # out
      BY MidsAreInside
    <3> QED  BY <3>1, <3>2, <1>b, <1>d, TwoHops
  <2> QED  BY <2>1, <2>2, <2>3, <2>4
<1>7. CASE n = 3
  <2>1. p \in ViaHubs(in, out) \/ p \in Forward3(in, out) \/ p \in Reverse3(in, out)
    BY <1>1, <1>7 DEF Level
  <2>2. CASE p \in ViaHubs(in, out)
    <3>1. PICK g \in core, h \in core : g # h /\ p = Planned("hubs", <<>>, <<in, g, h, out>>)
      BY <2>2 DEF ViaHubs
    <3> QED  BY <3>1, <1>2, <1>a, <1>d, ThreeHops
  <2>3. CASE p \in Forward3(in, out)
    <3>1. PICK k \in half(in), h \in core :
             p = Planned("forward", <<k>>, <<in, Other(k), h, out>>)
      BY <2>3 DEF Forward3, TargetHubs
    <3>2. k \in Nat /\ Other(k) \in Mints /\ Other(k) # in /\ Other(k) # out /\ Other(k) # h
      BY <1>4, <3>1
    <3> QED  BY <3>1, <3>2, <1>2, <1>b, <1>d, ThreeHops
  <2>4. CASE p \in Reverse3(in, out)
    <3>1. PICK k \in half(out), h \in core :
             p = Planned("reverse", <<k>>, <<in, h, Other(k), out>>)
      BY <2>4 DEF Reverse3
    <3>2. k \in Nat /\ Other(k) \in Mints /\ Other(k) # in /\ Other(k) # out /\ Other(k) # h
      BY <1>4, <3>1
    <3> QED  BY <3>1, <3>2, <1>2, <1>b, <1>d, ThreeHops
  <2> QED  BY <2>1, <2>2, <2>3, <2>4
<1>8. CASE n = 4
  <2>1. PICK i \in Near(in, in, out), k \in Near(out, in, out), h \in core :
           /\ Other(i) # Other(k)
           /\ p = Planned("meet", <<i, k>>, <<in, Other(i), h, Other(k), out>>)
    <3>1. p \in MeetAtHub(in, out)
      BY <1>1, <1>8 DEF Level
    <3>2. PICK t \in Near(in, in, out) \X Near(out, in, out) \X ReachingHubs(in, out) :
             /\ Other(t[1]) # Other(t[2])
             /\ p = Planned("meet", <<t[1], t[2]>>,
                            <<in, Other(t[1]), t[3], Other(t[2]), out>>)
      BY <3>1 DEF MeetAtHub
    <3>3. t[1] \in Near(in, in, out) /\ t[2] \in Near(out, in, out) /\ t[3] \in core
      BY DEF ReachingHubs
    <3> QED  BY <3>2, <3>3
  <2>2. \A m : \A e \in Near(m, in, out) :
           e \in Nat /\ Other(e) \in Mints /\ Other(e) # in /\ Other(e) # out /\ Other(e) \notin core
    <3>1. \A m : Near(m, in, out) \subseteq Mids(m, in, out, core)
      BY DEF Near, First
    <3> QED  BY <3>1, MidsAreInside
  <2>3. /\ i \in Nat /\ Other(i) \in Mints /\ Other(i) # in /\ Other(i) # out /\ Other(i) # h
        /\ k \in Nat /\ Other(k) \in Mints /\ Other(k) # in /\ Other(k) # out /\ Other(k) # h
    BY <2>1, <2>2
  <2> QED  BY <2>1, <2>3, <1>2, <1>c, <1>d, FourHops
<1> QED  BY <1>5, <1>6, <1>7, <1>8

-----------------------------------------------------------------------------
\* The index.

\* What build_canonical and build_hub_ranking return is typed.
LEMMA RankingsTyped ==
    ASSUME IndexAssumption, edges \in Seq(Edge), NEW C \in CanonicalSets, NEW R \in HubRankings
    PROVE  C \subseteq Pools /\ R \in Seq(Mints)
<1>1. \A k \in DOMAIN edges : edges[k] \in Edge
  OBVIOUS
<1>2. C \subseteq Pools
  BY <1>1 DEF CanonicalSets, Rankable, Indexed, Edge
<1>3. R \in Seq(Mints)
  <2>1. AllMints \subseteq Mints
    BY <1>1 DEF AllMints, Edge
  <2>2. IsFiniteSet(AllMints)
    <3>1. IsFiniteSet(1 .. Len(edges)) /\ DOMAIN edges = 1 .. Len(edges)
      BY FS_Interval
    <3>2. [k \in DOMAIN edges |-> edges[k].mint] \in Surjection(DOMAIN edges, AllMints)
      BY DEF AllMints, Surjection
    <3> QED  BY <3>1, <3>2, FS_Surjection
  <2> DEFINE n == AtMost(RankingCap, Cardinality(AllMints))
  <2>3. n \in Nat
    BY <2>2, FS_CardinalityType DEF AtMost, IndexAssumption
  <2>4. R \in [1 .. n -> AllMints]
    BY DEF HubRankings
  <2>5. R \in [1 .. n -> Mints] /\ n \in Nat
    BY <2>1, <2>3, <2>4
  <2> HIDE DEF n
  <2> QED  BY <2>5
<1> QED  BY <1>2, <1>3

\* Every edge has one the other way.
BothWays == \A k \in DOMAIN edges : Linked(edges[k].other, edges[k].mint)

\* The index is well formed while it is built.
LEMMA IndexInvariant == IndexSpec => [](IndexTypeOK /\ BothWays)
<1>1. IndexInit => IndexTypeOK /\ BothWays
  BY DEF IndexInit, IndexTypeOK, BothWays
<1>2. IndexTypeOK /\ BothWays /\ [IndexNext]_indexVars => (IndexTypeOK /\ BothWays)'
  <2> SUFFICES ASSUME IndexTypeOK, BothWays, [IndexNext]_indexVars
               PROVE  IndexTypeOK' /\ BothWays'
    OBVIOUS
  <2>1. CASE UNCHANGED indexVars
    BY <2>1 DEF indexVars, IndexTypeOK, BothWays, Linked, Between
  <2>2. CASE Warm
    <3>1. edges' = edges /\ canonical' \in CanonicalSets /\ hub_ranking' \in HubRankings
      BY <2>2 DEF Warm
    <3>2. canonical' \subseteq Pools /\ hub_ranking' \in Seq(Mints)
      BY <3>1, RankingsTyped, IndexAssumption DEF IndexTypeOK
    <3> QED  BY <3>1, <3>2 DEF IndexTypeOK, BothWays, Linked, Between
  <2>3. CASE \E p \in Pools : AddPool(p)
    <3>1. PICK p \in Pools : AddPool(p)
      BY <2>3
    <3> DEFINE e1 == [mint |-> QuoteMint[p], other |-> BaseMint[p], pool |-> p]
    <3> DEFINE e2 == [mint |-> BaseMint[p], other |-> QuoteMint[p], pool |-> p]
    <3> DEFINE n == Len(edges)
    <3>2. edges' = edges \o <<e1, e2>> /\ UNCHANGED <<canonical, hub_ranking>>
      BY <3>1 DEF AddPool
    <3>3. e1 \in Edge /\ e2 \in Edge
      BY IndexAssumption DEF IndexAssumption, Edge
    <3>4. e1.mint = e2.other /\ e1.other = e2.mint
      OBVIOUS
    <3> HIDE DEF e1, e2
    <3>5. /\ edges' \in Seq(Edge) /\ Len(edges') = n + 2 /\ DOMAIN edges' = 1 .. n + 2 /\ n \in Nat
          /\ \A k \in 1 .. n : edges'[k] = edges[k]
          /\ edges'[n + 1] = e1 /\ edges'[n + 2] = e2
      <4>1. edges \in Seq(Edge) /\ <<e1, e2>> \in Seq(Edge) /\ Len(<<e1, e2>>) = 2
        BY <3>3 DEF IndexTypeOK
      <4> QED  BY <3>2, <4>1
    <3>6. ASSUME NEW k \in DOMAIN edges'
          PROVE  \E j \in DOMAIN edges' : edges'[j].mint = edges'[k].other /\ edges'[j].other = edges'[k].mint
      <4>1. CASE k \in 1 .. n
        <5>1. k \in DOMAIN edges
          BY <4>1 DEF IndexTypeOK
        <5>2. PICK j \in DOMAIN edges : edges[j].mint = edges[k].other /\ edges[j].other = edges[k].mint
          BY <5>1 DEF BothWays, Linked, Between
        <5>3. j \in 1 .. n /\ j \in DOMAIN edges'
          BY <3>5, <5>2 DEF IndexTypeOK
        <5> QED  BY <3>5, <4>1, <5>2, <5>3
      <4>2. CASE k = n + 1
        BY <3>4, <3>5, <4>2
      <4>3. CASE k = n + 2
        BY <3>4, <3>5, <4>3
      <4> QED  BY <3>5, <4>1, <4>2, <4>3
    <3>7. BothWays'
      BY <3>6 DEF BothWays, Linked, Between
    <3> QED  BY <3>2, <3>5, <3>7 DEF IndexTypeOK
  <2> QED  BY <2>1, <2>2, <2>3 DEF IndexNext
<1> QED  BY <1>1, <1>2, PTL DEF IndexSpec

-----------------------------------------------------------------------------
\* Sizes of the plan.

\* The index is finite, and its positions are numbers.
LEMMA EdgesAreFinite ==
    ASSUME IndexTypeOK
    PROVE  /\ DOMAIN edges \in SUBSET Nat /\ IsFiniteSet(DOMAIN edges)
           /\ \A m : EdgesOf(m) \subseteq DOMAIN edges
           /\ \A m, in, out, hubs : Mids(m, in, out, hubs) \subseteq EdgesOf(m)
<1>1. DOMAIN edges = 1 .. Len(edges) /\ Len(edges) \in Nat
  BY DEF IndexTypeOK
<1>2. IsFiniteSet(DOMAIN edges) /\ DOMAIN edges \in SUBSET Nat
  BY <1>1, FS_Interval
<1> QED  BY <1>2 DEF EdgesOf, Mids

\* First takes no more than it is told to.
LEMMA FirstSize ==
    ASSUME NEW E \in SUBSET Nat, IsFiniteSet(E), NEW n \in Nat
    PROVE  /\ First(n, E) \subseteq E /\ IsFiniteSet(First(n, E))
           /\ Cardinality(First(n, E)) \in 0 .. n
<1> DEFINE F == First(n, E)
<1>0. F \subseteq E
  BY Zenon DEF First
<1>1. F \subseteq E /\ F \in SUBSET Int
  <2> HIDE DEF F
  <2> QED  BY <1>0
<1>2. IsFiniteSet(F) /\ Cardinality(F) \in Nat
  BY <1>1, FS_Subset, FS_CardinalityType
<1>3. CASE F = {}
  BY <1>1, <1>2, <1>3, FS_EmptySet
<1>4. CASE F # {}
  <2>1. PICK k \in F : \A x \in F : x <= k
    <3> HIDE DEF F
    <3> QED  BY <1>1, <1>2, <1>4, Extremes
  <2> DEFINE B == {j \in E : j < k}
  <2>2. Cardinality(B) < n
    BY DEF First
  <2>3. F \ {k} \in SUBSET B
    <3> SUFFICES ASSUME NEW x \in F, x # k
                 PROVE  x \in B
      OBVIOUS
    <3>1. x \in E /\ x \in Nat /\ k \in Nat /\ x <= k
      BY <1>1, <2>1
    <3> QED  BY <3>1
  <2>4. IsFiniteSet(B) /\ Cardinality(B) \in Nat
    BY FS_Subset, FS_CardinalityType
  <2> HIDE DEF B, F
  <2>5. Cardinality(F \ {k}) <= Cardinality(B)
    BY <2>3, <2>4, FS_Subset
  <2>6. Cardinality(F \ {k}) = Cardinality(F) - 1
    BY <1>2, <2>1, FS_RemoveElement
  <2>7. Cardinality(F) \in 0 .. n
    BY <1>2, <2>2, <2>4, <2>5, <2>6
  <2> QED  BY <1>1, <1>2, <2>7 DEF F
<1> QED  BY <1>3, <1>4

\* The seed hubs, and of the ranking as many as are asked for
LEMMA HubsSize ==
    ASSUME PlanAssumption, IndexTypeOK, NEW k \in Nat, NEW in, NEW out
    PROVE  /\ IsFiniteSet(HubSet(k, in, out))
           /\ Cardinality(HubSet(k, in, out)) \in 0 .. Cardinality(SeedHubs) + k
<1> DEFINE n == AtMost(k, Len(hub_ranking))
<1>1. n \in Nat /\ n <= k
  BY DEF IndexTypeOK, AtMost
<1>2. IsFiniteSet(1 .. n) /\ Cardinality(1 .. n) = n
  <2> HIDE DEF n
  <2>1. IsFiniteSet(1 .. n) /\ Cardinality(1 .. n) = IF 1 > n THEN 0 ELSE n - 1 + 1
    BY <1>1, FS_Interval
  <2> QED  BY <1>1, <2>1
<1>3. \A m \in TopHubs(k) : \E i \in 1 .. n : m = hub_ranking[i]
  BY DEF TopHubs
<1> HIDE DEF n
<1>4. IsFiniteSet(TopHubs(k)) /\ Cardinality(TopHubs(k)) <= n /\ Cardinality(TopHubs(k)) \in Nat
  BY <1>2, <1>3, ImageSize
<1> DEFINE U == SeedHubs \cup TopHubs(k)
<1>5. /\ IsFiniteSet(U) /\ Cardinality(U) <= Cardinality(SeedHubs) + Cardinality(TopHubs(k))
      /\ Cardinality(U) \in Nat /\ Cardinality(SeedHubs) \in Nat
  BY <1>4, UnionSize DEF PlanAssumption
<1>6. HubSet(k, in, out) \in SUBSET U
  BY DEF HubSet
<1> HIDE DEF U
<1>7. IsFiniteSet(HubSet(k, in, out)) /\ Cardinality(HubSet(k, in, out)) <= Cardinality(U)
      /\ Cardinality(HubSet(k, in, out)) \in Nat
  <2>1. IsFiniteSet(HubSet(k, in, out)) /\ Cardinality(HubSet(k, in, out)) <= Cardinality(U)
    BY <1>5, <1>6, FS_Subset
  <2> QED  BY <2>1, FS_CardinalityType
<1> DEFINE h == Cardinality(HubSet(k, in, out))
<1> DEFINE u == Cardinality(U)
<1> DEFINE s == Cardinality(SeedHubs)
<1> DEFINE t == Cardinality(TopHubs(k))
<1>8. h \in Nat /\ u \in Nat /\ s \in Nat /\ t \in Nat /\ h <= u /\ u <= s + t /\ t <= n
  BY <1>4, <1>5, <1>7
<1> HIDE DEF h, u, s, t
<1>9. h \in 0 .. s + k
  BY <1>1, <1>8
<1> QED  BY <1>7, <1>9 DEF h, s

\* Paths of two hops
LEMMA TwoHopSize ==
    ASSUME PlanAssumption, IndexTypeOK, NEW in, NEW out
    PROVE  Cardinality(Level(in, out, 2)) <= Cardinality(Hubs(in, out)) + 2 * MaxNeighbors
<1> DEFINE H == Hubs(in, out)
<1>1. MaxNeighbors \in Nat /\ HubCount \in Nat
  BY DEF PlanAssumption
<1>2. IsFiniteSet(H) /\ Cardinality(H) \in Nat
  BY <1>1, HubsSize, FS_CardinalityType DEF Hubs
<1>3. /\ IsFiniteSet(ViaHub(in, out)) /\ Cardinality(ViaHub(in, out)) <= Cardinality(H)
      /\ Cardinality(ViaHub(in, out)) \in Nat
  <2> DEFINE f == [h \in H |-> Planned("hub", <<>>, <<in, h, out>>)]
  <2>1. \A y \in ViaHub(in, out) : \E x \in H : y = f[x]
    BY DEF ViaHub
  <2> HIDE DEF f
  <2> QED  BY <1>2, <2>1, ImageSize
<1>4. ASSUME NEW E \in SUBSET (DOMAIN edges), NEW arm, NEW T,
             \A y \in T : \E k \in First(MaxNeighbors, E) : y = Planned(arm, <<k>>, <<in, Other(k), out>>)
      PROVE  IsFiniteSet(T) /\ Cardinality(T) \in 0 .. MaxNeighbors
  <2> DEFINE S == First(MaxNeighbors, E)
  <2> DEFINE f == [k \in S |-> Planned(arm, <<k>>, <<in, Other(k), out>>)]
  <2>1. E \in SUBSET Nat /\ IsFiniteSet(E)
    BY EdgesAreFinite, FS_Subset
  <2>2. IsFiniteSet(S) /\ Cardinality(S) \in 0 .. MaxNeighbors
    BY <1>1, <2>1, FirstSize
  <2>3. \A y \in T : \E x \in S : y = f[x]
    BY <1>4
  <2> HIDE DEF S, f
  <2>4. IsFiniteSet(T) /\ Cardinality(T) <= Cardinality(S) /\ Cardinality(T) \in Nat
    BY <2>2, <2>3, ImageSize
  <2> QED  BY <1>1, <2>2, <2>4
<1>5. IsFiniteSet(Forward2(in, out)) /\ Cardinality(Forward2(in, out)) \in 0 .. MaxNeighbors
  <2> DEFINE E == Distinct(Mids(in, in, out, H))
  <2>1. E \in SUBSET (DOMAIN edges)
    BY EdgesAreFinite DEF Distinct
  <2>2. \A y \in Forward2(in, out) : \E k \in First(MaxNeighbors, E) :
            y = Planned("forward", <<k>>, <<in, Other(k), out>>)
    BY DEF Forward2
  <2> HIDE DEF E
  <2> QED  BY <1>4, <2>1, <2>2
<1>6. IsFiniteSet(Reverse2(in, out)) /\ Cardinality(Reverse2(in, out)) \in 0 .. MaxNeighbors
  <2> DEFINE E == Mids(out, in, out, H)
  <2>1. E \in SUBSET (DOMAIN edges)
    BY EdgesAreFinite
  <2>2. \A y \in Reverse2(in, out) : \E k \in First(MaxNeighbors, E) :
            y = Planned("reverse", <<k>>, <<in, Other(k), out>>)
    BY DEF Reverse2
  <2> HIDE DEF E
  <2> QED  BY <1>4, <2>1, <2>2
<1> DEFINE A == ViaHub(in, out)
<1> DEFINE B == Forward2(in, out)
<1> DEFINE C == Reverse2(in, out)
<1>7. Level(in, out, 2) = (A \cup B) \cup C
  BY DEF Level
<1> HIDE DEF A, B, C, H
<1>8. IsFiniteSet(A \cup B) /\ Cardinality(A \cup B) <= Cardinality(A) + Cardinality(B)
      /\ Cardinality(A \cup B) \in Nat
  BY <1>3, <1>5, UnionSize DEF A, B
<1>9. Cardinality((A \cup B) \cup C) <= Cardinality(A \cup B) + Cardinality(C)
      /\ Cardinality((A \cup B) \cup C) \in Nat
  BY <1>6, <1>8, UnionSize DEF C
<1>10. /\ Cardinality(A) \in Nat /\ Cardinality(A) <= Cardinality(H)
       /\ Cardinality(B) \in 0 .. MaxNeighbors /\ Cardinality(C) \in 0 .. MaxNeighbors
  BY <1>3, <1>5, <1>6 DEF A, B, C
<1>11. Cardinality((A \cup B) \cup C) <= Cardinality(H) + 2 * MaxNeighbors
  BY <1>1, <1>2, <1>8, <1>9, <1>10
<1> QED  BY <1>7, <1>11 DEF H

\* What the search looks at of the neighbours of m
LEMMA SomeMids ==
    ASSUME IndexTypeOK, NEW n \in Nat, NEW m, NEW in, NEW out, NEW hubs
    PROVE  LET S == First(n, Mids(m, in, out, hubs))
           IN  S \subseteq Mids(m, in, out, hubs) /\ IsFiniteSet(S) /\ Cardinality(S) \in 0 .. n
<1> DEFINE E == Mids(m, in, out, hubs)
<1>1. E \in SUBSET Nat /\ IsFiniteSet(E)
  <2>1. E \in SUBSET (DOMAIN edges)
    BY EdgesAreFinite
  <2> QED  BY <2>1, EdgesAreFinite, FS_Subset
<1> HIDE DEF E
<1>2. First(n, E) \subseteq E /\ IsFiniteSet(First(n, E)) /\ Cardinality(First(n, E)) \in 0 .. n
  BY <1>1, FirstSize
<1> QED  BY <1>2 DEF E

\* Paths of three hops
LEMMA ThreeHopSize ==
    ASSUME PlanAssumption, IndexTypeOK, NEW in, NEW out
    PROVE  LET c == Cardinality(CoreHubs(in, out))
           IN  Cardinality(Level(in, out, 3)) <= c * (c - 1) + 2 * (MaxNeighbors \div 2) * c
<1> DEFINE core == CoreHubs(in, out)
<1> DEFINE c == Cardinality(core)
<1> DEFINE h == MaxNeighbors \div 2
<1>1. h \in Nat /\ CoreHubCount \in Nat
  BY DEF PlanAssumption
<1>2. IsFiniteSet(core) /\ c \in Nat
  BY <1>1, HubsSize, FS_CardinalityType DEF CoreHubs
<1> DEFINE A == ViaHubs(in, out)
<1> DEFINE B == Forward3(in, out)
<1> DEFINE C == Reverse3(in, out)
<1>3. IsFiniteSet(A) /\ Cardinality(A) \in Nat /\ Cardinality(A) <= c * (c - 1)
  <2> DEFINE D == {q \in core \X core : q[1] # q[2]}
  <2> DEFINE f == [q \in D |-> Planned("hubs", <<>>, <<in, q[1], q[2], out>>)]
  <2>1. IsFiniteSet(D) /\ Cardinality(D) = c * (c - 1)
    <3> HIDE DEF core
    <3> QED  BY <1>2, PairsSize
  <2>2. \A y \in A : \E q \in D : y = f[q]
    BY DEF ViaHubs
  <2> HIDE DEF D, f, A, c
  <2>3. IsFiniteSet(A) /\ Cardinality(A) <= Cardinality(D) /\ Cardinality(A) \in Nat
    BY <2>1, <2>2, ImageSize
  <2> QED  BY <2>1, <2>3
<1>5. IsFiniteSet(B) /\ Cardinality(B) \in Nat /\ Cardinality(B) <= h * c
  <2> DEFINE S == First(h, Mids(in, in, out, core))
  <2> DEFINE f == [q \in S \X core |-> Planned("forward", <<q[1]>>, <<in, Other(q[1]), q[2], out>>)]
  <2>1. IsFiniteSet(S) /\ Cardinality(S) \in 0 .. h
    BY <1>1, SomeMids
  <2>2. \A y \in B : \E q \in S \X core : y = f[q]
    <3> SUFFICES ASSUME NEW y \in B
                 PROVE  \E q \in S \X core : y = f[q]
      OBVIOUS
    <3>1. PICK k \in S, g \in core : y = Planned("forward", <<k>>, <<in, Other(k), g, out>>)
      BY DEF Forward3, TargetHubs
    <3>2. <<k, g>> \in S \X core /\ f[<<k, g>>] = y
      BY <3>1
    <3> QED  BY <3>2
  <2> HIDE DEF S, f, B, core, h
  <2>3. Cardinality(S) <= h /\ h \in Nat /\ IsFiniteSet(core)
    BY <1>1, <1>2, <2>1
  <2> QED  BY <2>1, <2>2, <2>3, ProductImage
<1>6. IsFiniteSet(C) /\ Cardinality(C) \in Nat /\ Cardinality(C) <= h * c
  <2> DEFINE S == First(h, Mids(out, in, out, core))
  <2> DEFINE f == [q \in S \X core |-> Planned("reverse", <<q[1]>>, <<in, q[2], Other(q[1]), out>>)]
  <2>1. IsFiniteSet(S) /\ Cardinality(S) \in 0 .. h
    BY <1>1, SomeMids
  <2>2. \A y \in C : \E q \in S \X core : y = f[q]
    <3> SUFFICES ASSUME NEW y \in C
                 PROVE  \E q \in S \X core : y = f[q]
      OBVIOUS
    <3>1. PICK k \in S, g \in core : y = Planned("reverse", <<k>>, <<in, g, Other(k), out>>)
      BY DEF Reverse3
    <3>2. <<k, g>> \in S \X core /\ f[<<k, g>>] = y
      BY <3>1
    <3> QED  BY <3>2
  <2> HIDE DEF S, f, C, core, h
  <2>3. Cardinality(S) <= h /\ h \in Nat /\ IsFiniteSet(core)
    BY <1>1, <1>2, <2>1
  <2> QED  BY <2>1, <2>2, <2>3, ProductImage
<1>7. Level(in, out, 3) = (A \cup B) \cup C
  BY DEF Level
<1> HIDE DEF A, B, C, c, h, core
<1>8. IsFiniteSet(A \cup B) /\ Cardinality(A \cup B) <= Cardinality(A) + Cardinality(B)
      /\ Cardinality(A \cup B) \in Nat
  BY <1>3, <1>5, UnionSize
<1>9. Cardinality((A \cup B) \cup C) <= Cardinality(A \cup B) + Cardinality(C)
      /\ Cardinality((A \cup B) \cup C) \in Nat
  BY <1>6, <1>8, UnionSize
<1> DEFINE u == c * (c - 1)
<1> DEFINE v == h * c
<1>10. u \in Int /\ v \in Int /\ 2 * h * c = 2 * v
  BY <1>1, <1>2
<1>11. Cardinality(A) <= u /\ Cardinality(B) <= v /\ Cardinality(C) <= v
  BY <1>3, <1>5, <1>6
<1> HIDE DEF u, v
<1>12. Cardinality((A \cup B) \cup C) <= u + 2 * v
  BY <1>3, <1>5, <1>6, <1>8, <1>9, <1>10, <1>11
<1>13. Cardinality(Level(in, out, 3)) <= u + 2 * h * c
  BY <1>7, <1>10, <1>12
<1> QED  BY <1>13 DEF u, c, h, core

\* Paths of four hops
LEMMA FourHopSize ==
    ASSUME PlanAssumption, IndexTypeOK, NEW in, NEW out
    PROVE  Cardinality(Level(in, out, 4)) <=
               Cardinality(CoreHubs(in, out)) * (MaxNeighbors \div 4) * (MaxNeighbors \div 4)
<1> DEFINE core == CoreHubs(in, out)
<1> DEFINE c == Cardinality(core)
<1> DEFINE h == MaxNeighbors \div 4
<1> DEFINE I == Near(in, in, out)
<1> DEFINE O == Near(out, in, out)
<1>1. h \in Nat /\ CoreHubCount \in Nat
  BY DEF PlanAssumption
<1>2. IsFiniteSet(core) /\ c \in Nat
  BY <1>1, HubsSize, FS_CardinalityType DEF CoreHubs
<1>3. /\ IsFiniteSet(I) /\ Cardinality(I) \in 0 .. h
      /\ IsFiniteSet(O) /\ Cardinality(O) \in 0 .. h
  BY <1>1, SomeMids DEF Near
<1> DEFINE P == (core \X I) \X O
<1> DEFINE f == [q \in P |-> Planned("meet", <<q[1][2], q[2]>>,
                                     <<in, Other(q[1][2]), q[1][1], Other(q[2]), out>>)]
<1>4. \A y \in MeetAtHub(in, out) : \E q \in P : y = f[q]
  <2> SUFFICES ASSUME NEW y \in MeetAtHub(in, out)
               PROVE  \E q \in P : y = f[q]
    OBVIOUS
  <2>1. PICK k \in I, j \in O, g \in core :
            y = Planned("meet", <<k, j>>, <<in, Other(k), g, Other(j), out>>)
    BY DEF MeetAtHub, ReachingHubs
  <2>2. <<<<g, k>>, j>> \in P
    OBVIOUS
  <2>3. f[<<<<g, k>>, j>>] = y
    BY <2>1, <2>2
  <2> QED  BY <2>2, <2>3
<1> DEFINE i == Cardinality(I)
<1> DEFINE o == Cardinality(O)
<1>5. IsFiniteSet(P) /\ Cardinality(P) = (c * i) * o
  <2>1. IsFiniteSet(core \X I) /\ Cardinality(core \X I) = c * i
    BY <1>2, <1>3, FS_Product
  <2>2. IsFiniteSet(P) /\ Cardinality(P) = Cardinality(core \X I) * o
    <3> DEFINE Q == core \X I
    <3> HIDE DEF Q, O
    <3>1. IsFiniteSet(Q \X O) /\ Cardinality(Q \X O) = Cardinality(Q) * Cardinality(O)
      BY <1>3, <2>1, FS_Product DEF Q
    <3> QED  BY <3>1 DEF Q
  <2> QED  BY <2>1, <2>2
<1>6. Level(in, out, 4) = MeetAtHub(in, out)
  BY DEF Level
<1> HIDE DEF P, f
<1>7. Cardinality(MeetAtHub(in, out)) <= Cardinality(P) /\ Cardinality(MeetAtHub(in, out)) \in Nat
  BY <1>4, <1>5, ImageSize
<1>8. i \in Nat /\ o \in Nat /\ i <= h /\ o <= h
  BY <1>1, <1>3
<1> HIDE DEF c, h, i, o, I, O, core
<1>9. c * i <= c * h /\ c * i \in Nat /\ c * h \in Nat
  BY <1>1, <1>2, <1>8, ProductGrows
<1>10. (c * i) * o <= (c * h) * h /\ (c * i) * o \in Nat /\ (c * h) * h \in Nat
  <2> DEFINE x == c * i
  <2> DEFINE y == c * h
  <2>1. x \in Nat /\ y \in Nat /\ x <= y
    BY <1>9
  <2> HIDE DEF x, y
  <2>2. x * o <= y * h /\ x * o \in Nat /\ y * h \in Nat
    BY <1>1, <1>8, <2>1, ProductGrows
  <2> QED  BY <2>2 DEF x, y
<1>11. Cardinality(Level(in, out, 4)) <= c * h * h
  BY <1>5, <1>6, <1>7, <1>10
<1> QED  BY <1>11 DEF c, h, core

(***************************************************************************)
(* However many pools a mint has, a search of more than one hop tries no   *)
(* more paths than its constants allow (router.rs:24-28).                  *)
(***************************************************************************)
THEOREM SearchIsBounded == IndexSpec => []PlanIsBounded
<1>1. IndexTypeOK => PlanIsBounded
  <2> SUFFICES ASSUME IndexTypeOK, NEW t \in Trades
               PROVE  LET hubs == Cardinality(Hubs(t[1], t[2]))
                          core == Cardinality(CoreHubs(t[1], t[2]))
                          size(n) == Cardinality(Level(t[1], t[2], n))
                      IN  /\ hubs <= Cardinality(SeedHubs) + HubCount
                          /\ core <= Cardinality(SeedHubs) + CoreHubCount
                          /\ size(2) <= hubs + 2 * MaxNeighbors
                          /\ size(3) <= core * (core - 1) + 2 * (MaxNeighbors \div 2) * core
                          /\ size(4) <= core * (MaxNeighbors \div 4) * (MaxNeighbors \div 4)
    BY DEF PlanIsBounded
  <2>1. HubCount \in Nat /\ CoreHubCount \in Nat
    BY PlanAssumption DEF PlanAssumption
  <2>2. Cardinality(Hubs(t[1], t[2])) <= Cardinality(SeedHubs) + HubCount
    BY <2>1, HubsSize, PlanAssumption DEF Hubs
  <2>3. Cardinality(CoreHubs(t[1], t[2])) <= Cardinality(SeedHubs) + CoreHubCount
    BY <2>1, HubsSize, PlanAssumption DEF CoreHubs
  <2> QED  BY <2>2, <2>3, TwoHopSize, ThreeHopSize, FourHopSize, PlanAssumption
<1> QED  BY <1>1, IndexInvariant, PTL

-----------------------------------------------------------------------------
\* The prunes lose nothing.

\* While a budget is not exhausted, every edge is looked at.
LEMMA AllLooked ==
    ASSUME IndexTypeOK, NEW m, NEW n \in Nat, Cardinality(EdgesOf(m)) <= n,
           NEW E \in SUBSET EdgesOf(m), NEW k \in E
    PROVE  k \in First(n, E)
<1> DEFINE B == {j \in E : j < k}
<1>1. IsFiniteSet(EdgesOf(m)) /\ Cardinality(EdgesOf(m)) \in Nat /\ EdgesOf(m) \subseteq Nat
  <2>1. EdgesOf(m) \in SUBSET (DOMAIN edges)
    BY EdgesAreFinite
  <2>2. IsFiniteSet(EdgesOf(m))
    BY <2>1, EdgesAreFinite, FS_Subset
  <2> QED  BY <2>1, <2>2, EdgesAreFinite, FS_CardinalityType
<1>2. IsFiniteSet(EdgesOf(m) \ {k}) /\ Cardinality(EdgesOf(m) \ {k}) = Cardinality(EdgesOf(m)) - 1
  BY <1>1, FS_RemoveElement
<1>3. B \in SUBSET (EdgesOf(m) \ {k})
  BY <1>1
<1>4. Cardinality(B) <= Cardinality(EdgesOf(m)) - 1 /\ Cardinality(B) \in Nat
  <2> HIDE DEF B
  <2>1. IsFiniteSet(B) /\ Cardinality(B) <= Cardinality(EdgesOf(m) \ {k})
    BY <1>2, <1>3, FS_Subset
  <2> QED  BY <1>2, <2>1, FS_CardinalityType
<1>5. Cardinality(B) < n
  <2> HIDE DEF B
  <2> QED  BY <1>1, <1>4
<1> QED  BY Zenon, <1>5 DEF First

\* The edge to a neighbour in the middle is one of Mids,
LEMMA MidFound ==
    ASSUME NEW m, NEW a, Linked(m, a), NEW in, NEW out, NEW hubs, a \notin hubs \cup {in, out}
    PROVE  \E k \in Mids(m, in, out, hubs) : Other(k) = a
BY DEF Linked, Between, Mids, EdgesOf, Other

\* and seen_mids keeps one of those.
LEMMA DistinctFound ==
    ASSUME IndexTypeOK, NEW m, NEW E \in SUBSET EdgesOf(m), NEW i \in E
    PROVE  \E k \in Distinct(E) : Other(k) = Other(i)
<1> DEFINE S == {j \in E : Other(j) = Other(i)}
<1>1. S \in SUBSET (DOMAIN edges) /\ i \in S
  BY EdgesAreFinite
<1>2. IsFiniteSet(S) /\ S \in SUBSET Int
  <2> HIDE DEF S
  <2> QED  BY <1>1, EdgesAreFinite, FS_Subset
<1>3. PICK k \in S : \A x \in S : k <= x
  <2> HIDE DEF S
  <2>1. S # {}
    BY <1>1
  <2> QED  BY <1>2, <2>1, Extremes
<1>4. \A j \in E : j < k => Other(j) # Other(k)
  <2> SUFFICES ASSUME NEW j \in E, j < k, Other(j) = Other(k)
               PROVE  FALSE
    OBVIOUS
  <2>1. j \in S
    BY <1>3
  <2>2. j \in Int /\ k \in Int /\ k <= j
    BY <1>2, <1>3, <2>1
  <2> QED  BY <2>2
<1> QED  BY <1>3, <1>4 DEF Distinct

\* A pair is linked in both directions.
LEMMA LinkedBack ==
    ASSUME BothWays, NEW a, NEW b, Linked(a, b)
    PROVE  Linked(b, a)
BY DEF BothWays, Linked, Between

\* A simple path of n hops in scope is planned, for n = 1,
LEMMA OneHopPlanned ==
    ASSUME NEW in, NEW out, Linked(in, out)
    PROVE  \E p \in Level(in, out, 1) : p.mints = <<in, out>>
<1>1. PICK k \in Between(in, out) : TRUE
  BY DEF Linked
<1>2. Planned("direct", <<k>>, <<in, out>>) \in Level(in, out, 1)
  BY DEF Level, Direct
<1> QED  BY <1>2 DEF Planned

\* n = 2,
LEMMA TwoHopsPlanned ==
    ASSUME PlanAssumption, IndexTypeOK, BothWays, NEW in, NEW out, NEW a, a \notin {in, out},
           Linked(in, a), Linked(a, out),
           \/ a \in Hubs(in, out)
           \/ Cardinality(EdgesOf(in)) <= MaxNeighbors
           \/ Cardinality(EdgesOf(out)) <= MaxNeighbors
    PROVE  \E p \in Level(in, out, 2) : p.mints = <<in, a, out>>
<1> DEFINE H == Hubs(in, out)
<1>1. MaxNeighbors \in Nat
  BY DEF PlanAssumption
<1>2. CASE a \in H
  <2>1. Planned("hub", <<>>, <<in, a, out>>) \in Level(in, out, 2)
    BY <1>2 DEF Level, ViaHub
  <2> QED  BY <2>1 DEF Planned
<1>3. CASE a \notin H /\ Cardinality(EdgesOf(in)) <= MaxNeighbors
  <2> DEFINE E == Mids(in, in, out, H)
  <2>1. PICK i \in E : Other(i) = a
    BY <1>3, MidFound
  <2>2. E \in SUBSET EdgesOf(in)
    BY EdgesAreFinite
  <2>3. PICK k \in Distinct(E) : Other(k) = a
    <3> HIDE DEF E
    <3> QED  BY <2>1, <2>2, DistinctFound
  <2>4. Distinct(E) \in SUBSET EdgesOf(in)
    BY <2>2 DEF Distinct
  <2>5. k \in First(MaxNeighbors, Distinct(E))
    <3> HIDE DEF E
    <3> QED  BY <1>1, <1>3, <2>4, AllLooked
  <2>6. Planned("forward", <<k>>, <<in, Other(k), out>>) \in Level(in, out, 2)
    BY <2>3, <2>5 DEF Level, Forward2
  <2> QED  BY <2>3, <2>6 DEF Planned
<1>4. CASE a \notin H /\ Cardinality(EdgesOf(out)) <= MaxNeighbors
  <2> DEFINE E == Mids(out, in, out, H)
  <2>1. PICK k \in E : Other(k) = a
    BY <1>4, LinkedBack, MidFound
  <2>2. E \in SUBSET EdgesOf(out)
    BY EdgesAreFinite
  <2>3. k \in First(MaxNeighbors, E)
    <3> HIDE DEF E
    <3> QED  BY <1>1, <1>4, <2>2, AllLooked
  <2>4. Planned("reverse", <<k>>, <<in, Other(k), out>>) \in Level(in, out, 2)
    BY <2>1, <2>3 DEF Level, Reverse2
  <2> QED  BY <2>1, <2>4 DEF Planned
<1> QED  BY <1>2, <1>3, <1>4

\* n = 3,
LEMMA ThreeHopsPlanned ==
    ASSUME PlanAssumption, IndexTypeOK, BothWays, NEW in, NEW out, NEW a, NEW b,
           a \notin {in, out}, b \notin {in, out}, a # b,
           Linked(in, a), Linked(a, b), Linked(b, out),
           \/ {a, b} \subseteq CoreHubs(in, out)
           \/ b \in CoreHubs(in, out) /\ Cardinality(EdgesOf(in)) <= MaxNeighbors \div 2
           \/ a \in CoreHubs(in, out) /\ Cardinality(EdgesOf(out)) <= MaxNeighbors \div 2
    PROVE  \E p \in Level(in, out, 3) : p.mints = <<in, a, b, out>>
<1> DEFINE core == CoreHubs(in, out)
<1> DEFINE h == MaxNeighbors \div 2
<1>1. h \in Nat
  BY DEF PlanAssumption
<1>2. CASE a \in core /\ b \in core
  <2>1. <<a, b>> \in core \X core /\ <<a, b>>[1] = a /\ <<a, b>>[2] = b
    BY <1>2
  <2>2. Planned("hubs", <<>>, <<in, a, b, out>>) \in ViaHubs(in, out)
    BY <2>1 DEF ViaHubs
  <2> QED  BY <2>2 DEF Planned, Level
<1>3. CASE a \notin core /\ b \in core /\ Cardinality(EdgesOf(in)) <= h
  <2> DEFINE E == Mids(in, in, out, core)
  <2>1. PICK k \in E : Other(k) = a
    BY <1>3, MidFound
  <2>2. E \in SUBSET EdgesOf(in)
    BY EdgesAreFinite
  <2>3. k \in First(h, E)
    <3> HIDE DEF E, h
    <3> QED  BY <1>1, <1>3, <2>2, AllLooked
  <2>4. b \in TargetHubs(in, out)
    BY <1>3 DEF TargetHubs
  <2>5. Planned("forward", <<k>>, <<in, Other(k), b, out>>) \in Forward3(in, out)
    <3> DEFINE mids == {j \in First(h, E) : \E g \in TargetHubs(in, out) : Linked(Other(j), g)}
    <3>1. k \in mids
      BY <2>1, <2>3, <2>4
    <3>2. <<k, b>> \in mids \X TargetHubs(in, out) /\ <<k, b>>[1] = k /\ <<k, b>>[2] = b
      BY <2>4, <3>1
    <3>3. Forward3(in, out) = {Planned("forward", <<kh[1]>>, <<in, Other(kh[1]), kh[2], out>>) :
                                 kh \in mids \X TargetHubs(in, out)}
      BY DEF Forward3
    <3> HIDE DEF mids
    <3> QED  BY <3>2, <3>3
  <2> QED  BY <2>1, <2>5 DEF Planned, Level
<1>4. CASE b \notin core /\ a \in core /\ Cardinality(EdgesOf(out)) <= h
  <2> DEFINE E == Mids(out, in, out, core)
  <2>1. PICK k \in E : Other(k) = b
    BY <1>4, LinkedBack, MidFound
  <2>2. E \in SUBSET EdgesOf(out)
    BY EdgesAreFinite
  <2>3. k \in First(h, E)
    <3> HIDE DEF E, h
    <3> QED  BY <1>1, <1>4, <2>2, AllLooked
  <2>4. Planned("reverse", <<k>>, <<in, a, Other(k), out>>) \in Reverse3(in, out)
    <3>1. <<k, a>> \in First(h, E) \X core /\ <<k, a>>[1] = k /\ <<k, a>>[2] = a
      BY <1>4, <2>3
    <3>2. Reverse3(in, out) = {Planned("reverse", <<kh[1]>>, <<in, kh[2], Other(kh[1]), out>>) :
                                 kh \in First(h, E) \X core}
      BY DEF Reverse3
    <3> QED  BY <3>1, <3>2
  <2> QED  BY <2>1, <2>4 DEF Planned, Level
<1> QED  BY <1>2, <1>3, <1>4

\* and n = 4.
LEMMA FourHopsPlanned ==
    ASSUME PlanAssumption, IndexTypeOK, BothWays, NEW in, NEW out, NEW a, NEW g, NEW b,
           a \notin {in, out}, b \notin {in, out}, a # b,
           Linked(in, a), Linked(a, g), Linked(g, b), Linked(b, out),
           g \in CoreHubs(in, out), a \notin CoreHubs(in, out), b \notin CoreHubs(in, out),
           Cardinality(EdgesOf(in)) <= MaxNeighbors \div 4,
           Cardinality(EdgesOf(out)) <= MaxNeighbors \div 4
    PROVE  \E p \in Level(in, out, 4) : p.mints = <<in, a, g, b, out>>
<1> DEFINE core == CoreHubs(in, out)
<1> DEFINE h == MaxNeighbors \div 4
<1>1. h \in Nat
  BY DEF PlanAssumption
<1>2. PICK k \in Mids(in, in, out, core) : Other(k) = a
  BY MidFound
<1>3. PICK j \in Mids(out, in, out, core) : Other(j) = b
  BY LinkedBack, MidFound
<1>4. k \in Near(in, in, out) /\ j \in Near(out, in, out)
  <2>1. Mids(in, in, out, core) \in SUBSET EdgesOf(in) /\ Mids(out, in, out, core) \in SUBSET EdgesOf(out)
    BY EdgesAreFinite
  <2>2. k \in First(h, Mids(in, in, out, core)) /\ j \in First(h, Mids(out, in, out, core))
    <3> HIDE DEF h, core
    <3>1. Cardinality(EdgesOf(in)) <= h /\ Cardinality(EdgesOf(out)) <= h
      BY DEF h
    <3> QED  BY <1>1, <1>2, <1>3, <2>1, <3>1, AllLooked
  <2> QED  BY <2>2 DEF Near
<1>5. g \in ReachingHubs(in, out)
  BY <1>3, <1>4 DEF ReachingHubs
<1> DEFINE t == <<k, j, g>>
<1>6. /\ t \in Near(in, in, out) \X Near(out, in, out) \X ReachingHubs(in, out)
      /\ t[1] = k /\ t[2] = j /\ t[3] = g
  BY <1>4, <1>5
<1> HIDE DEF t
<1>7. /\ Other(t[1]) # Other(t[2])
      /\ Linked(Other(t[1]), t[3])
      /\ Linked(t[3], Other(t[2]))
  BY <1>2, <1>3, <1>6
<1>8. Planned("meet", <<t[1], t[2]>>, <<in, Other(t[1]), t[3], Other(t[2]), out>>) \in MeetAtHub(in, out)
  BY <1>6, <1>7 DEF MeetAtHub
<1> QED  BY <1>2, <1>3, <1>6, <1>8 DEF Planned, Level

\* The same of a path as it is written in SimplePaths and InScope.
LEMMA PathPlanned ==
    ASSUME PlanAssumption, IndexTypeOK, BothWays, NEW in, NEW out, NEW n \in 1 .. 4,
           NEW s \in SimplePaths(in, out, n), InScope(s, in, out)
    PROVE  \E p \in Level(in, out, n) : p.mints = s
<1> DEFINE core == CoreHubs(in, out)
<1> DEFINE mids == AllMints \ {in, out}
<1>1. MaxNeighbors \in Nat /\ MaxNeighbors \div 1 = MaxNeighbors
  BY DEF PlanAssumption
<1>2. \A i \in 1 .. n : Linked(s[i], s[i + 1]) /\ \A j \in 1 .. i : s[j] # s[i + 1]
  BY Zenon DEF SimplePaths
<1>3. CASE n = 1
  <2>1. s = <<in, out>>
    BY <1>3 DEF SimplePaths
  <2>2. Linked(s[1], s[1 + 1])
    BY <1>2, <1>3
  <2>3. Linked(in, out)
    BY <2>1, <2>2
  <2> QED  BY <1>3, <2>1, <2>3, OneHopPlanned
<1>4. CASE n = 2
  <2>1. PICK a \in mids : s = <<in, a, out>>
    BY <1>4 DEF SimplePaths
  <2>2. Linked(s[1], s[1 + 1]) /\ Linked(s[2], s[2 + 1])
    BY <1>2, <1>4
  <2>3. Linked(in, a) /\ Linked(a, out) /\ a \notin {in, out}
    BY <2>1, <2>2
  <2>4. \/ a \in Hubs(in, out)
        \/ Cardinality(EdgesOf(in)) <= MaxNeighbors
        \/ Cardinality(EdgesOf(out)) <= MaxNeighbors
    BY <1>1, <2>1 DEF InScope
  <2> QED  BY <1>4, <2>1, <2>3, <2>4, TwoHopsPlanned
<1>5. CASE n = 3
  <2>1. PICK t \in mids \X mids : s = <<in, t[1], t[2], out>>
    BY <1>5 DEF SimplePaths
  <2> DEFINE a == t[1]
  <2> DEFINE b == t[2]
  <2>2. Linked(s[1], s[1 + 1]) /\ Linked(s[2], s[2 + 1]) /\ Linked(s[3], s[3 + 1]) /\ s[2] # s[2 + 1]
    BY <1>2, <1>5
  <2>3. a \notin {in, out} /\ b \notin {in, out}
    BY <2>1
  <2> HIDE DEF a, b
  <2>4. s = <<in, a, b, out>>
    BY <2>1 DEF a, b
  <2>5. Linked(in, a) /\ Linked(a, b) /\ Linked(b, out) /\ a # b
    BY <2>2, <2>4
  <2>6. \/ {a, b} \subseteq core
        \/ b \in core /\ Cardinality(EdgesOf(in)) <= MaxNeighbors \div 2
        \/ a \in core /\ Cardinality(EdgesOf(out)) <= MaxNeighbors \div 2
    BY <2>4 DEF InScope
  <2>7. \E p \in Level(in, out, 3) : p.mints = <<in, a, b, out>>
    BY <2>3, <2>5, <2>6, ThreeHopsPlanned
  <2> QED  BY <1>5, <2>4, <2>7
<1>6. CASE n = 4
  <2>1. PICK t \in mids \X mids \X mids : s = <<in, t[1], t[2], t[3], out>>
    BY <1>6 DEF SimplePaths
  <2> DEFINE a == t[1]
  <2> DEFINE g == t[2]
  <2> DEFINE b == t[3]
  <2>2. /\ Linked(s[1], s[1 + 1]) /\ Linked(s[2], s[2 + 1])
        /\ Linked(s[3], s[3 + 1]) /\ Linked(s[4], s[4 + 1]) /\ s[2] # s[3 + 1]
    BY <1>2, <1>6
  <2>3. a \notin {in, out} /\ b \notin {in, out}
    BY <2>1
  <2> HIDE DEF a, g, b
  <2>4. s = <<in, a, g, b, out>>
    BY <2>1 DEF a, g, b
  <2>5. Linked(in, a) /\ Linked(a, g) /\ Linked(g, b) /\ Linked(b, out) /\ a # b
    BY <2>2, <2>4
  <2>6. /\ g \in core /\ {a, b} \cap core = {}
        /\ Cardinality(EdgesOf(in)) <= MaxNeighbors \div 4
        /\ Cardinality(EdgesOf(out)) <= MaxNeighbors \div 4
    BY <2>4 DEF InScope
  <2>7. \E p \in Level(in, out, 4) : p.mints = <<in, a, g, b, out>>
    BY <2>3, <2>5, <2>6, FourHopsPlanned
  <2> QED  BY <1>6, <2>4, <2>7
<1> QED  BY <1>3, <1>4, <1>5, <1>6

(***************************************************************************)
(* The prunes of the search lose nothing (router.rs:402-432, 497-520):     *)
(* whatever the index, a simple path that passes through hubs the way the  *)
(* search is laid out, and whose ends have no more edges than the budget,  *)
(* is planned.                                                             *)
(***************************************************************************)
THEOREM SearchIsComplete == IndexSpec => []PlanIsComplete
<1>1. IndexTypeOK /\ BothWays => PlanIsComplete
  <2> SUFFICES ASSUME IndexTypeOK, BothWays, NEW t \in Trades, NEW n \in 1 .. 4,
                      NEW s \in SimplePaths(t[1], t[2], n), InScope(s, t[1], t[2])
               PROVE  s \in {p.mints : p \in Level(t[1], t[2], n)}
    BY DEF PlanIsComplete
  <2>1. PICK p \in Level(t[1], t[2], n) : p.mints = s
    BY PathPlanned, PlanAssumption
  <2> QED  BY <2>1
<1> QED  BY <1>1, IndexInvariant, PTL

-----------------------------------------------------------------------------
\* Facts about states.

\* What a market pays is an amount.
LEMMA OutputIsAmount ==
    ASSUME RouterAssumption, TypeOK, NEW p \in Pools, NEW m \in Mints, NEW n \in Amount
    PROVE  OutputOf(p, m, n) \in Amount
BY DEF RouterAssumption, TypeOK, OutputOf

\* The ends of the leg are different mints of the path.
LEMMA LegEnds ==
    ASSUME TypeOK, PathsOK, PicksOK, stage \in {"leg", "scan"}
    PROVE  From \in Mints /\ To \in Mints /\ From # To
<1>1. path.mints \in Seq(Mints) /\ picks \in Seq(Pools)
  BY DEF TypeOK, PlannedPath
<1>2. Len(picks) + 1 < Len(path.mints)
  BY DEF PicksOK, Walking
<1>3. Len(picks) + 1 \in DOMAIN path.mints /\ Len(picks) + 2 \in DOMAIN path.mints
  BY <1>1, <1>2
<1>4. \A i, j \in DOMAIN path.mints : path.mints[i] = path.mints[j] => i = j
  BY DEF PathsOK, PathOK, Walking, Joins
<1> QED  BY <1>1, <1>3, <1>4 DEF From, To

\* Nothing of a path changes but by the request and the index.
LEMMA PathFrame ==
    ASSUME UNCHANGED <<indexVars, request>>, NEW p, PathOK(p)
    PROVE  PathOK(p)'
BY DEF indexVars, PathOK, Joins, Between

\* Nor does the index change by a step of the search.
LEMMA GraphFrame ==
    ASSUME UNCHANGED indexVars, GraphOK, IndexTypeOK
    PROVE  GraphOK' /\ IndexTypeOK'
BY DEF indexVars, GraphOK, IndexTypeOK

\* Routes stay walkable while the request stands and none is added.
LEMMA RoutesFrame ==
    ASSUME UNCHANGED request, RoutesAreWalkable,
           candidates' \cup routes' \subseteq candidates \cup routes
    PROVE  RoutesAreWalkable'
<1>1. \A h, mints : Walkable(h, mints) => (Walkable(h, mints))'
  BY DEF Walkable
<1>2. \A mints : Joins(mints) => (Joins(mints))'
  BY DEF Joins
<1> QED  BY <1>1, <1>2 DEF RoutesAreWalkable, Hops

-----------------------------------------------------------------------------
\* The invariant, action by action.

\* The index is well formed when the first request arrives.
LEMMA IndexIsTyped ==
    ASSUME IndexAssumption, RouterAssumption, edges \in Graphs,
           canonical \in CanonicalSets, hub_ranking \in HubRankings
    PROVE  IndexTypeOK /\ GraphOK
<1>1. edges \in Seq(Edge) /\ GraphOK
  BY DEF RouterAssumption, GraphOK
<1> QED  BY <1>1, RankingsTyped DEF IndexTypeOK

\* A process that has warmed its index is ready (bin/engine.rs:101-108).
LEMMA InitEstablishes ==
    ASSUME IndexAssumption, RouterAssumption, Init
    PROVE  IInv
<1>1. IndexTypeOK /\ GraphOK
  BY IndexIsTyped DEF Init
<1>2. live \in [Pools -> Accounts] /\ published \subseteq Pools
  BY DEF Init, RouterAssumption
<1>3. NoPath \in PlannedPath
  BY DEF NoPath, Planned, PlannedPath, Arms
<1>4. TypeOK
  BY <1>1, <1>2, <1>3 DEF Init, TypeOK, Amount, RouterAssumption
<1>5. PathsOK /\ PicksOK /\ ScanOK /\ HopsOK
  BY DEF Init, PathsOK, PicksOK, ScanOK, HopsOK, Walking
<1>6. RoutesAreWalkable
  BY DEF Init, RoutesAreWalkable
<1>7. IsFiniteSet(candidates)
  BY FS_EmptySet DEF Init
<1> QED  BY <1>1, <1>4, <1>5, <1>6, <1>7 DEF IInv, Init

\* The plan of a request is made of sound paths (api.rs:101-118).
LEMMA BeginKeeps ==
    ASSUME PlanAssumption, RouterAssumption, IInv, NEW t \in Trades, NEW n \in Amounts,
           NEW max_hops \in HopLimits, Begin(t[1], t[2], n, max_hops)
    PROVE  IInv'
<1>1. t[1] \in Mints /\ t[2] \in Mints /\ n \in Amount /\ max_hops \in Nat
  <2>1. t \in Mints \X Mints
    BY DEF PlanAssumption
  <2>2. n \in Amount
    BY DEF RouterAssumption
  <2>3. max_hops \in 0 .. 4
    BY DEF RouterAssumption
  <2> QED  BY <2>1, <2>2, <2>3
<1>2. TypeOK /\ IndexTypeOK /\ GraphOK
  BY DEF IInv, TypeOK
<1>3. \A p \in todo' : Sound(p, t[1], t[2])
  <2>1. CASE t[1] = t[2] \/ n = 0
    BY <2>1 DEF Begin, IInv
  <2>2. CASE ~(t[1] = t[2] \/ n = 0)
    BY <2>2, <1>1, <1>2, PlanIsSound DEF Begin
  <2> QED  BY <2>1, <2>2
<1>4. request' = [in |-> t[1], out |-> t[2], amount |-> n, snap |-> published]
  BY DEF Begin
<1>5. \A p \in todo' : PathOK(p)'
  BY <1>3, <1>4 DEF Begin, Sound, PathOK, Joins, Between, indexVars
<1>6. stage' \in {"next", "done"} /\ candidates' = {} /\ routes' = {}
  BY DEF Begin, IInv
<1>7. TypeOK'
  <2>1. request' \in [in : Mints, out : Mints, amount : Amount, snap : SUBSET Pools]
    BY <1>1, <1>2, <1>4 DEF TypeOK
  <2>2. todo' \subseteq PlannedPath
    BY <1>3 DEF Sound
  <2> QED  BY <2>1, <2>2, <1>2, <1>6 DEF TypeOK, IndexTypeOK, Begin, indexVars, storeVars, walkVars
<1>8. GraphOK'
  BY <1>2, GraphFrame DEF Begin
<1>9. PathsOK' /\ PicksOK' /\ ScanOK' /\ HopsOK'
  BY <1>5, <1>6 DEF PathsOK, PicksOK, ScanOK, HopsOK, Walking
<1>10. RoutesAreWalkable'
  BY <1>6 DEF RoutesAreWalkable
<1>11. IsFiniteSet(candidates')
  BY <1>6, FS_EmptySet
<1> QED  BY <1>6, <1>7, <1>8, <1>9, <1>10, <1>11 DEF IInv

\* A path taken up is walked from its start (router.rs:218-223, 241).
LEMMA NextPathKeeps ==
    ASSUME IInv, NextPath
    PROVE  IInv'
<1>1. PICK p \in todo :
         /\ path' = p
         /\ todo' = todo \ {p}
         /\ picks' = IF p.arm = "direct" THEN <<edges[p.at[1]].pool>> ELSE <<>>
         /\ stage' = IF p.arm = "direct" THEN "replay" ELSE "leg"
  BY DEF NextPath
<1>2. PathOK(p) /\ p \in PlannedPath
  BY <1>1 DEF IInv, PathsOK, TypeOK
<1>3. UNCHANGED <<indexVars, storeVars, request, scan, best, candidates, routes>>
      /\ amount' = request.amount /\ hops' = <<>> /\ stage = "next"
  BY DEF NextPath
<1>4. TypeOK /\ IndexTypeOK /\ GraphOK
  BY DEF IInv, TypeOK
<1>5. p.arm = "direct" =>
         /\ edges[p.at[1]].pool \in Pools
         /\ Pair(edges[p.at[1]].pool) = {p.mints[1], p.mints[2]}
  <2>1. SUFFICES ASSUME p.arm = "direct"
                 PROVE  /\ edges[p.at[1]].pool \in Pools
                        /\ Pair(edges[p.at[1]].pool) = {p.mints[1], p.mints[2]}
    OBVIOUS
  <2> DEFINE k == p.at[1]
  <2>2. k \in DOMAIN edges /\ edges[k].mint = request.in /\ edges[k].other = request.out
    BY <1>2, <2>1 DEF PathOK, Between
  <2>3. p.mints[1] = request.in /\ p.mints[2] = request.out
    BY <1>2, <2>1 DEF PathOK, Joins
  <2>4. edges[k] \in Edge
    BY <1>4, <2>2 DEF IndexTypeOK
  <2> QED  BY <1>4, <2>2, <2>3, <2>4 DEF GraphOK, Edge
<1>6. TypeOK'
  <2>1. IndexTypeOK'
    BY <1>3, <1>4, GraphFrame
  <2>2. picks' \in Seq(Pools)
    BY <1>1, <1>5
  <2>3. amount' \in Amount
    BY <1>3, <1>4 DEF TypeOK
  <2> QED  BY <1>1, <1>2, <1>3, <1>4, <2>1, <2>2, <2>3 DEF TypeOK, indexVars, storeVars
<1>7. GraphOK'
  BY <1>3, <1>4, GraphFrame
<1>8. \A q \in todo \cup {p} : PathOK(q)'
  <2>1. \A q \in todo : PathOK(q)
    BY DEF IInv, PathsOK
  <2> QED  BY <1>1, <1>3, <2>1, PathFrame
<1>9. PathsOK'
  BY <1>1, <1>8 DEF PathsOK
<1>10. PicksOK'
  <2>1. Len(p.mints) \in Nat /\ (p.arm = "direct" => Len(p.mints) = 2)
        /\ (p.arm # "direct" => Len(p.mints) > 2)
    BY <1>2 DEF PathOK
  <2>2. CASE p.arm = "direct"
    BY <1>1, <1>5, <2>1, <2>2 DEF PicksOK, Walking
  <2>3. CASE p.arm # "direct"
    BY <1>1, <2>1, <2>3 DEF PicksOK, Walking
  <2> QED  BY <2>2, <2>3
<1>11. ScanOK'
  BY <1>1 DEF ScanOK
<1>12. HopsOK'
  BY <1>1, <1>3 DEF HopsOK, Walkable
<1>13. RoutesAreWalkable' /\ \A r \in candidates' : PathOK(r.path)'
  BY <1>3, RoutesFrame, PathFrame DEF IInv
<1> QED  BY <1>1, <1>3, <1>6, <1>7, <1>9, <1>10, <1>11, <1>12, <1>13 DEF IInv

\* The rest of the invariant, for steps that leave routes and request alone.
LEMMA WalkFrame ==
    ASSUME IInv, UNCHANGED <<indexVars, request, todo, path, candidates, routes>>,
           live' \in [Pools -> Accounts], published' \subseteq Pools, moves' \in Nat,
           picks' \in Seq(Pools), amount' \in Amount, hops' \in Seq(RouteHop),
           scan' \subseteq DOMAIN edges,
           best' = NoPick \/ best' \in [pool : Pools, out : Amount],
           stage \in {"next", "leg", "scan", "replay"},
           stage' \in {"next", "leg", "scan", "replay"},
           Walking' => Walking,
           PicksOK', ScanOK', HopsOK'
    PROVE  IInv'
<1>1. TypeOK /\ IndexTypeOK /\ GraphOK
  BY DEF IInv, TypeOK
<1>2. IndexTypeOK' /\ GraphOK'
  BY <1>1, GraphFrame
<1>3. TypeOK'
  BY <1>1, <1>2 DEF TypeOK, indexVars
<1>4. PathsOK'
  <2>1. \A q \in todo : PathOK(q)'
    BY PathFrame DEF IInv, PathsOK
  <2>2. Walking => PathOK(path)
    BY DEF IInv, PathsOK
  <2>3. Walking => (PathOK(path))'
    BY <2>2 DEF indexVars, PathOK, Joins, Between
  <2> QED  BY <2>1, <2>3 DEF PathsOK
<1>5. RoutesAreWalkable' /\ \A r \in candidates' : PathOK(r.path)'
  BY RoutesFrame, PathFrame DEF IInv
<1> QED  BY <1>2, <1>3, <1>4, <1>5 DEF IInv

\* A pool of the leg may be picked (router.rs:241-244, 297-309).
LEMMA PickKeeps ==
    ASSUME IInv, stage \in {"leg", "scan"}, NEW p \in Pools, Pair(p) = {From, To},
           NEW out \in Amount, Pick(p, out), UNCHANGED <<scan, best>>
    PROVE  IInv'
<1>1. TypeOK /\ PathsOK /\ PicksOK /\ Walking
  BY DEF IInv, Walking
<1>2. /\ picks \in Seq(Pools) /\ path.mints \in Seq(Mints) /\ hops = <<>>
      /\ Len(picks) + 1 < Len(path.mints)
      /\ \A i \in DOMAIN picks : Pair(picks[i]) = {path.mints[i], path.mints[i + 1]}
  BY <1>1 DEF IInv, TypeOK, PlannedPath, PicksOK, HopsOK, Walking
<1>3. /\ picks' = Append(picks, p)
      /\ amount' = IF LastLeg THEN request.amount ELSE out
      /\ stage' = IF LastLeg THEN "replay" ELSE "leg"
      /\ UNCHANGED <<indexVars, storeVars, request, todo, path, hops, candidates, routes>>
  BY DEF Pick
<1>4. PicksOK'
  <2>1. \A i \in DOMAIN picks' : Pair(picks'[i]) = {path.mints[i], path.mints[i + 1]}
    BY <1>2, <1>3 DEF From, To
  <2>2. Len(picks') = Len(picks) + 1
    BY <1>2, <1>3
  <2>3. Len(picks) \in Nat /\ Len(path.mints) \in Nat
    BY <1>2
  <2>4. IF stage' = "replay" THEN Len(picks') + 1 = Len(path.mints)
        ELSE Len(picks') + 1 < Len(path.mints)
    <3>1. CASE LastLeg
      BY <1>3, <2>2, <2>3, <3>1 DEF LastLeg
    <3>2. CASE ~LastLeg
      BY <1>2, <1>3, <2>2, <2>3, <3>2 DEF LastLeg
    <3> QED  BY <3>1, <3>2
  <2>5. path' = path
    BY <1>3
  <2> QED  BY <2>1, <2>4, <2>5 DEF PicksOK
<1>5. ScanOK'
  BY <1>3 DEF ScanOK
<1>6. HopsOK'
  BY <1>2, <1>3 DEF HopsOK, Walkable
<1>7. picks' \in Seq(Pools)
  BY <1>2, <1>3
<1>8. amount' \in Amount
  BY <1>1, <1>3 DEF TypeOK
<1>9. hops' \in Seq(RouteHop) /\ scan' \subseteq DOMAIN edges /\ published' \subseteq Pools
      /\ live' \in [Pools -> Accounts] /\ moves' \in Nat
      /\ (best' = NoPick \/ best' \in [pool : Pools, out : Amount])
  BY <1>1, <1>3 DEF TypeOK, storeVars
<1>10. stage' \in {"next", "leg", "scan", "replay"}
  BY <1>3
<1> QED  BY <1>1, <1>3, <1>4, <1>5, <1>6, <1>7, <1>8, <1>9, <1>10, WalkFrame

\* The canonical pool joins the ends of its leg (router.rs:254-260).
LEMMA TakeCanonicalKeeps ==
    ASSUME RouterAssumption, IInv, NEW p, TakeCanonical(p)
    PROVE  IInv'
<1>1. TypeOK /\ PathsOK /\ PicksOK /\ stage = "leg"
  BY DEF IInv, TakeCanonical
<1>2. p \in Pools /\ Pair(p) = {From, To}
  BY <1>1 DEF TakeCanonical, CanonicalPool, TypeOK, IndexTypeOK
<1>3. From \in Mints /\ amount \in Amount
  BY <1>1, LegEnds DEF TypeOK
<1>4. OutputOf(p, From, amount) \in Amount
  BY <1>1, <1>2, <1>3, OutputIsAmount
<1> QED  BY <1>1, <1>2, <1>4, PickKeeps DEF TakeCanonical

\* So does the pool best_pool returns (router.rs:704-719).
LEMMA ScanDoneKeeps ==
    ASSUME IInv, ScanDone
    PROVE  IInv'
<1>1. TypeOK /\ stage = "scan" /\ best # NoPick
  BY DEF IInv, ScanDone
<1>2. best.pool \in Pools /\ best.out \in Amount
  BY <1>1 DEF TypeOK
<1>3. Pair(best.pool) = {From, To}
  BY <1>1 DEF IInv, ScanOK
<1> QED  BY <1>1, <1>2, <1>3, PickKeeps DEF ScanDone

\* best_pool scans the pools of the leg (router.rs:261-262).
LEMMA ScanLegKeeps ==
    ASSUME IInv, ScanLeg
    PROVE  IInv'
<1>1. TypeOK /\ PicksOK /\ HopsOK /\ stage = "leg" /\ stage' = "scan"
      /\ scan' = Between(From, To) /\ best' = NoPick
      /\ UNCHANGED <<indexVars, storeVars, request, todo, path, picks, amount, hops,
                     candidates, routes>>
  BY DEF IInv, ScanLeg
<1>2. PicksOK' /\ HopsOK'
  BY <1>1 DEF PicksOK, HopsOK, Walking
<1>3. ScanOK'
  BY <1>1 DEF ScanOK, Between, From, To, indexVars
<1>4. scan' \subseteq DOMAIN edges
  BY <1>1 DEF Between
<1>5. Walking
  BY <1>1 DEF Walking
<1> QED  BY <1>1, <1>2, <1>3, <1>4, <1>5, WalkFrame DEF TypeOK, storeVars

\* What best_pool remembers is a pool of the leg (router.rs:712-718).
LEMMA ScanPoolKeeps ==
    ASSUME RouterAssumption, IInv, ScanPool
    PROVE  IInv'
<1>1. TypeOK /\ PathsOK /\ PicksOK /\ HopsOK /\ GraphOK /\ ScanOK /\ stage = "scan"
      /\ UNCHANGED <<indexVars, storeVars, request, stage, todo, path, picks, amount,
                     hops, candidates, routes>>
  BY DEF IInv, ScanPool
<1> DEFINE p(k) == edges[k].pool
<1> DEFINE pay(k) == OutputOf(p(k), From, amount)
<1>2. PICK k \in scan :
         /\ scan' = scan \ {k}
         /\ best' = IF Simulates(p(k), From, amount) /\ pay(k) >= best.out
                    THEN [pool |-> p(k), out |-> pay(k)] ELSE best
  BY DEF ScanPool
<1>3. k \in Between(From, To) /\ k \in DOMAIN edges
  BY <1>1 DEF ScanOK, TypeOK
<1>4. p(k) \in Pools /\ Pair(p(k)) = {From, To}
  <2>1. edges[k] \in Edge
    BY <1>1, <1>3 DEF TypeOK, IndexTypeOK
  <2> QED  BY <1>1, <1>3, <2>1 DEF GraphOK, Between, Edge
<1>5. pay(k) \in Amount
  <2>1. From \in Mints /\ amount \in Amount
    BY <1>1, LegEnds DEF TypeOK
  <2> QED  BY <1>1, <1>4, <2>1, OutputIsAmount
<1> HIDE DEF p, pay
<1>6. best' = best \/ best' = [pool |-> p(k), out |-> pay(k)]
  BY <1>2
<1>7. best' = NoPick \/ best' \in [pool : Pools, out : Amount]
  BY <1>1, <1>4, <1>5, <1>6 DEF TypeOK
<1>8. ScanOK'
  <2>1. From' = From /\ To' = To /\ Between(From, To)' = Between(From, To)
    BY <1>1 DEF Between, From, To, indexVars
  <2>2. best' # NoPick => best'.pool \in Pools /\ Pair(best'.pool) = {From, To}
    BY <1>1, <1>4, <1>6 DEF ScanOK
  <2> QED  BY <1>1, <1>2, <2>1, <2>2 DEF ScanOK
<1>9. PicksOK' /\ HopsOK' /\ Walking
  BY <1>1 DEF PicksOK, HopsOK, Walking
<1>10. scan' \subseteq DOMAIN edges
  BY <1>1, <1>2 DEF TypeOK
<1> QED  BY <1>1, <1>7, <1>8, <1>9, <1>10, WalkFrame DEF TypeOK, storeVars

\* A path is given up without a trace (router.rs:241-242).
LEMMA NoPoolKeeps ==
    ASSUME IInv, NoPool
    PROVE  IInv'
<1>1. TypeOK /\ stage = "scan" /\ stage' = "next"
      /\ UNCHANGED <<indexVars, storeVars, request, todo, walkVars, candidates, routes>>
  BY DEF IInv, NoPool
<1>2. PicksOK' /\ ScanOK' /\ HopsOK' /\ ~Walking'
  BY <1>1 DEF PicksOK, ScanOK, HopsOK, Walking
<1> QED  BY <1>1, <1>2, WalkFrame DEF TypeOK, storeVars, walkVars

\* A hop that is simulated joins two mints of the path (router.rs:604-610,
\* 685-689).
LEMMA HopIsOnPath ==
    ASSUME RouterAssumption, TypeOK, NEW p \in Pools, NEW m \in Mints, NEW n \in Amount,
           NEW to \in Mints, m # to, Pair(p) = {m, to}, Simulates(p, m, n)
    PROVE  LET h == Hop(p, m, n)
           IN  /\ h \in RouteHop
               /\ h.pool = p /\ h.from = m /\ h.to = to /\ h.in = n
               /\ h.out = OutputOf(p, m, n) /\ h.out > 0
               /\ p \in request.snap
<1>1. OtherMint(p, m) = to
  BY DEF OtherMint, Pair
<1>2. OutputOf(p, m, n) \in Amount
  BY OutputIsAmount
<1> QED  BY <1>1, <1>2 DEF Hop, RouteHop, Simulates, Usable

\* Each hop is fed by the one before (router.rs:682-690).
LEMMA ReplayKeeps ==
    ASSUME RouterAssumption, IInv, Replay
    PROVE  IInv'
<1> DEFINE i == Len(hops) + 1
<1> DEFINE p == picks[i]
<1> DEFINE m == path.mints[i]
<1> DEFINE to == path.mints[i + 1]
<1>1. TypeOK /\ PathsOK /\ PicksOK /\ HopsOK /\ stage = "replay" /\ i <= Len(picks)
      /\ UNCHANGED <<indexVars, storeVars, request, todo, path, picks, scan, best,
                     candidates, routes>>
  BY DEF IInv, Replay, TypeOK
<1>2. /\ picks \in Seq(Pools) /\ path.mints \in Seq(Mints) /\ hops \in Seq(RouteHop)
      /\ Len(picks) + 1 = Len(path.mints)
      /\ \A j \in DOMAIN picks : Pair(picks[j]) = {path.mints[j], path.mints[j + 1]}
      /\ \A j, k \in DOMAIN path.mints : path.mints[j] = path.mints[k] => j = k
  BY <1>1 DEF TypeOK, PlannedPath, PicksOK, Walking, PathsOK, PathOK, Joins
<1>3. i \in DOMAIN picks /\ i \in DOMAIN path.mints /\ i + 1 \in DOMAIN path.mints
  BY <1>1, <1>2
<1>4. p \in Pools /\ m \in Mints /\ to \in Mints /\ m # to /\ Pair(p) = {m, to}
  BY <1>2, <1>3
<1>5. amount \in Amount
  BY <1>1 DEF TypeOK
<1>6. Walkable(hops, path.mints)
      /\ amount = IF hops = <<>> THEN request.amount ELSE hops[Len(hops)].out
  BY <1>1 DEF HopsOK
<1>7. CASE Simulates(p, m, amount)
  <2> DEFINE h == Hop(p, m, amount)
  <2>1. hops' = Append(hops, h) /\ amount' = OutputOf(p, m, amount) /\ stage' = "replay"
    BY <1>1, <1>7 DEF Replay
  <2>2. /\ h \in RouteHop
        /\ h.pool = p /\ h.from = m /\ h.to = to /\ h.in = amount
        /\ h.out = amount' /\ h.out > 0
        /\ p \in request.snap
    <3> HIDE DEF p, m, to
    <3>1. /\ h \in RouteHop
          /\ h.pool = p /\ h.from = m /\ h.to = to /\ h.in = amount
          /\ h.out = OutputOf(p, m, amount) /\ h.out > 0
          /\ p \in request.snap
      BY <1>1, <1>4, <1>5, <1>7, HopIsOnPath
    <3> QED  BY <3>1, <2>1
  <2> HIDE DEF h
  <2>3. /\ hops' \in Seq(RouteHop) /\ Len(hops') = i /\ hops'[i] = h
        /\ \A j \in 1 .. Len(hops) : hops'[j] = hops[j]
    BY <1>2, <2>1, <2>2
  <2>4. Walkable(hops', path.mints)
    <3>1. SUFFICES ASSUME NEW j \in DOMAIN hops'
                   PROVE  /\ hops'[j].pool \in request.snap
                          /\ Pair(hops'[j].pool) = {path.mints[j], path.mints[j + 1]}
                          /\ hops'[j].from = path.mints[j] /\ hops'[j].to = path.mints[j + 1]
                          /\ hops'[j].in = IF j = 1 THEN request.amount ELSE hops'[j - 1].out
                          /\ hops'[j].out > 0
      BY DEF Walkable
    <3>2. CASE j = i
      <4>1. amount = IF j = 1 THEN request.amount ELSE hops'[j - 1].out
        <5>1. CASE hops = <<>>
          BY <1>6, <3>2, <5>1
        <5>2. CASE hops # <<>>
          <6>1. Len(hops) \in 1 .. Len(hops) /\ j # 1 /\ j - 1 = Len(hops)
            BY <1>2, <3>2, <5>2
          <6> QED  BY <1>6, <2>3, <5>2, <6>1
        <5> QED  BY <5>1, <5>2
      <4> QED  BY <1>4, <2>2, <2>3, <3>2, <4>1
    <3>3. CASE j # i
      <4>1. j \in 1 .. Len(hops) /\ DOMAIN hops = 1 .. Len(hops)
        BY <1>2, <2>3, <3>3
      <4>2. hops'[j] = hops[j] /\ (j # 1 => hops'[j - 1] = hops[j - 1])
        BY <1>2, <2>3, <4>1
      <4> QED  BY <1>6, <4>1, <4>2 DEF Walkable
    <3> QED  BY <3>2, <3>3
  <2>5. HopsOK'
    <3>1. Walkable(hops, path.mints)'
      BY <1>1, <2>4 DEF Walkable
    <3>2. hops' # <<>> /\ Len(hops') <= Len(picks')
      BY <1>1, <1>2, <2>3
    <3> QED  BY <2>1, <2>2, <2>3, <3>1, <3>2 DEF HopsOK
  <2>6. PicksOK' /\ ScanOK' /\ Walking
    BY <1>1, <2>1 DEF PicksOK, ScanOK, Walking
  <2>7. amount' \in Amount
    BY <1>1, <1>4, <1>5, <2>1, OutputIsAmount
  <2> QED  BY <1>1, <2>1, <2>3, <2>5, <2>6, <2>7, WalkFrame DEF TypeOK, storeVars
<1>8. CASE ~Simulates(p, m, amount)
  <2>1. stage' = "next" /\ UNCHANGED <<hops, amount>>
    BY <1>8 DEF Replay
  <2>2. PicksOK' /\ ScanOK' /\ HopsOK' /\ ~Walking'
    BY <2>1 DEF PicksOK, ScanOK, HopsOK, Walking
  <2> QED  BY <1>1, <2>1, <2>2, WalkFrame DEF TypeOK, storeVars
<1> QED  BY <1>7, <1>8

\* A route found is the path with its hops (router.rs:691-700).
LEMMA FoundKeeps ==
    ASSUME IInv, Found
    PROVE  IInv'
<1> DEFINE r == [path |-> path, hops |-> hops]
<1>1. TypeOK /\ IndexTypeOK /\ GraphOK /\ PathsOK /\ PicksOK /\ HopsOK /\ stage = "replay"
      /\ Len(hops) = Len(picks) /\ candidates' = candidates \cup {r} /\ stage' = "next"
      /\ UNCHANGED <<indexVars, storeVars, request, todo, walkVars, routes>>
      /\ routes = {}
  BY DEF IInv, Found, TypeOK
<1>2. r.path = path /\ r.hops = hops
  OBVIOUS
<1>3. PathOK(path) /\ path \in PlannedPath /\ hops \in Seq(RouteHop)
  BY <1>1 DEF PathsOK, Walking, TypeOK
<1>4. /\ Hops(r) + 1 = Len(r.path.mints)
      /\ Joins(r.path.mints)
      /\ Walkable(r.hops, r.path.mints)
  BY <1>1, <1>2, <1>3 DEF PicksOK, HopsOK, Walking, PathOK, Hops
<1> HIDE DEF r
<1>5. RoutesAreWalkable'
  <2>1. \A q \in candidates \cup {r} :
           /\ Hops(q) + 1 = Len(q.path.mints)
           /\ Joins(q.path.mints)
           /\ Walkable(q.hops, q.path.mints)
    BY <1>4 DEF IInv, RoutesAreWalkable
  <2>2. candidates' \cup routes' = candidates \cup {r} /\ request' = request
    BY <1>1
  <2>3. \A h, mints : Walkable(h, mints) => (Walkable(h, mints))'
    BY <2>2 DEF Walkable
  <2>4. \A mints : Joins(mints) => (Joins(mints))'
    BY <2>2 DEF Joins
  <2> QED  BY <2>1, <2>2, <2>3, <2>4 DEF RoutesAreWalkable, Hops
<1>6. IndexTypeOK' /\ GraphOK'
  BY <1>1, GraphFrame
<1>7. TypeOK'
  <2>1. \A q \in candidates' \cup routes' :
           q.path \in PlannedPath /\ q.hops \in Seq(RouteHop)
    BY <1>1, <1>2, <1>3 DEF TypeOK
  <2> QED  BY <1>1, <1>6, <2>1 DEF TypeOK, indexVars, storeVars, walkVars
<1>8. \A q \in candidates' : PathOK(q.path)'
  <2>1. \A q \in candidates : PathOK(q.path)
    BY DEF IInv
  <2>2. \A q \in candidates' : PathOK(q.path)
    BY <1>1, <1>2, <1>3, <2>1
  <2> QED  BY <1>1, <2>2, PathFrame
<1>9. PathsOK' /\ PicksOK' /\ ScanOK' /\ HopsOK'
  <2>1. \A q \in todo' : PathOK(q)'
    BY <1>1, PathFrame DEF PathsOK
  <2> QED  BY <1>1, <2>1 DEF PathsOK, PicksOK, ScanOK, HopsOK, Walking
<1>10. IsFiniteSet(candidates')
  BY <1>1, FS_AddElement DEF IInv
<1> QED  BY <1>1, <1>5, <1>6, <1>7, <1>8, <1>9, <1>10 DEF IInv

\* The filter keeps routes that were found.
LEMMA KeptAreFound == Kept \subseteq candidates
BY DEF Kept, Keep

\* The answer is made of routes found (router.rs:178-182).
LEMMA FinishKeeps ==
    ASSUME IInv, Finish
    PROVE  IInv'
<1>1. TypeOK /\ IndexTypeOK /\ GraphOK /\ PathsOK /\ stage' = "done" /\ todo = {}
      /\ UNCHANGED <<indexVars, storeVars, request, todo, walkVars, candidates>>
  BY DEF IInv, Finish, TypeOK
<1>2. routes' \subseteq candidates
  BY KeptAreFound DEF Finish, Best
<1>3. IndexTypeOK' /\ GraphOK'
  BY <1>1, GraphFrame
<1>4. TypeOK'
  <2>1. \A q \in candidates' \cup routes' :
           q.path \in PlannedPath /\ q.hops \in Seq(RouteHop)
    BY <1>1, <1>2 DEF TypeOK
  <2>2. stage # "idle"
    BY DEF Finish
  <2> QED  BY <1>1, <1>3, <2>1, <2>2 DEF TypeOK, indexVars, storeVars, walkVars
<1>5. PathsOK' /\ PicksOK' /\ ScanOK' /\ HopsOK'
  BY <1>1 DEF PathsOK, PicksOK, ScanOK, HopsOK, Walking
<1>6. RoutesAreWalkable' /\ \A r \in candidates' : PathOK(r.path)'
  BY <1>1, <1>2, RoutesFrame, PathFrame DEF IInv
<1> QED  BY <1>1, <1>2, <1>3, <1>4, <1>5, <1>6 DEF IInv

\* Nothing the search holds depends on what others store and publish.
LEMMA EnvironmentKeeps ==
    ASSUME RouterAssumption, IInv, NEW p \in Moving,
           Publish(p) \/ \E acc \in Accounts : StoreWrite(p, acc)
    PROVE  IInv'
<1>1. TypeOK /\ PicksOK /\ ScanOK /\ HopsOK /\ stage \in {"next", "leg", "scan", "replay"}
      /\ UNCHANGED <<indexVars, request, stage, todo, walkVars, candidates, routes>>
  BY DEF IInv, TypeOK, Publish, StoreWrite
<1>2. p \in Pools
  BY DEF RouterAssumption
<1>3. live' \in [Pools -> Accounts] /\ published' \subseteq Pools /\ moves' \in Nat
  <2>1. CASE Publish(p)
    BY <1>1, <1>2, <2>1 DEF TypeOK, Publish
  <2>2. CASE \E acc \in Accounts : StoreWrite(p, acc)
    <3>1. PICK acc \in Accounts : StoreWrite(p, acc)
      BY <2>2
    <3>2. live' = [live EXCEPT ![p] = acc] /\ moves' = moves + 1 /\ published' = published
      BY <3>1 DEF StoreWrite
    <3> QED  BY <1>1, <3>2 DEF TypeOK
  <2> QED  BY <2>1, <2>2
<1>4. PicksOK' /\ ScanOK' /\ HopsOK'
  BY <1>1 DEF PicksOK, ScanOK, HopsOK, Walking, Walkable, Between, From, To,
              indexVars, walkVars
<1> QED  BY <1>1, <1>3, <1>4, WalkFrame DEF TypeOK, walkVars, Walking

\* Nothing changes when nothing happens.
LEMMA StutterKeeps ==
    ASSUME IInv, UNCHANGED vars
    PROVE  IInv'
<1>1. TypeOK /\ IndexTypeOK /\ GraphOK /\ PathsOK /\ PicksOK /\ ScanOK /\ HopsOK
      /\ UNCHANGED <<indexVars, storeVars, request, stage, todo, walkVars, candidates, routes>>
  BY DEF IInv, TypeOK, vars
<1>2. IndexTypeOK' /\ GraphOK'
  BY <1>1, GraphFrame
<1>3. TypeOK'
  BY <1>1, <1>2 DEF TypeOK, indexVars, storeVars, walkVars
<1>4. PathsOK'
  <2>1. \A q \in todo : PathOK(q)'
    BY <1>1, PathFrame DEF PathsOK
  <2>2. Walking => PathOK(path)'
    BY <1>1, PathFrame DEF PathsOK, walkVars, PathOK
  <2> QED  BY <1>1, <2>1, <2>2 DEF PathsOK, Walking
<1>5. PicksOK' /\ ScanOK' /\ HopsOK'
  BY <1>1 DEF PicksOK, ScanOK, HopsOK, Walking, Walkable, Between, From, To,
              indexVars, walkVars
<1>6. RoutesAreWalkable' /\ \A r \in candidates' : PathOK(r.path)'
  BY <1>1, RoutesFrame, PathFrame DEF IInv
<1> QED  BY <1>1, <1>2, <1>3, <1>4, <1>5, <1>6 DEF IInv

-----------------------------------------------------------------------------
\* The theorems.

(***************************************************************************)
(* The invariant is inductive: it holds whatever is stored and published   *)
(* while find_routes runs.                                                 *)
(***************************************************************************)
THEOREM Invariant == Spec => []IInv
<1>1. Init => IInv
  BY InitEstablishes, IndexAssumption, RouterAssumption
<1>2. IInv /\ [Next]_vars => IInv'
  <2> SUFFICES ASSUME IInv, [Next]_vars
               PROVE  IInv'
    OBVIOUS
  <2>1. ASSUME NEW t \in Trades, NEW n \in Amounts, NEW max_hops \in HopLimits,
               Begin(t[1], t[2], n, max_hops)
        PROVE  IInv'
    BY <2>1, BeginKeeps, PlanAssumption, RouterAssumption
  <2>2. CASE NextPath
    BY <2>2, NextPathKeeps
  <2>3. CASE ScanLeg
    BY <2>3, ScanLegKeeps
  <2>4. CASE ScanPool
    BY <2>4, ScanPoolKeeps, RouterAssumption
  <2>5. CASE ScanDone
    BY <2>5, ScanDoneKeeps
  <2>6. CASE NoPool
    BY <2>6, NoPoolKeeps
  <2>7. CASE Replay
    BY <2>7, ReplayKeeps, RouterAssumption
  <2>8. CASE Found
    BY <2>8, FoundKeeps
  <2>9. CASE Finish
    BY <2>9, FinishKeeps
  <2>10. ASSUME NEW p \in canonical, TakeCanonical(p)
         PROVE  IInv'
    BY <2>10, TakeCanonicalKeeps, RouterAssumption
  <2>11. ASSUME NEW p \in Moving, Publish(p) \/ \E acc \in Accounts : StoreWrite(p, acc)
         PROVE  IInv'
    BY <2>11, EnvironmentKeeps, RouterAssumption
  <2>12. CASE UNCHANGED vars
    BY <2>12, StutterKeeps
  <2> QED  BY <2>1, <2>2, <2>3, <2>4, <2>5, <2>6, <2>7, <2>8, <2>9, <2>10, <2>11, <2>12
           DEF Next, Search
<1> QED  BY <1>1, <1>2, PTL DEF Spec

(***************************************************************************)
(* The search never picks a pool it did not find, nor an amount that no    *)
(* market paid.                                                            *)
(***************************************************************************)
THEOREM TypeCorrect == Spec => []TypeOK
<1>1. IInv => TypeOK
  BY DEF IInv
<1> QED  BY <1>1, Invariant, PTL

(***************************************************************************)
(* Every route found or answered is a simple path between the mints of the *)
(* request over pools that were swappable when it began, each hop fed by   *)
(* the one before: for any index, markets and interleaving with the stream *)
(* and the pollers.                                                        *)
(***************************************************************************)
THEOREM RoutesCorrect == Spec => []RoutesAreWalkable
<1>1. IInv => RoutesAreWalkable
  BY DEF IInv
<1> QED  BY <1>1, Invariant, PTL

-----------------------------------------------------------------------------
\* The filter.

\* A route has 1 to 4 hops, and pays a natural number.
LEMMA RouteMeasures ==
    ASSUME IInv, NEW r \in candidates
    PROVE  Hops(r) \in 1 .. 4 /\ Out(r) \in Nat
<1>1. r.hops \in Seq(RouteHop) /\ PathOK(r.path) /\ Hops(r) + 1 = Len(r.path.mints)
  BY DEF IInv, TypeOK, RoutesAreWalkable
<1>2. Hops(r) \in 1 .. 4
  <2>1. Len(r.path.mints) \in 2 .. 5
    BY <1>1 DEF PathOK
  <2>2. Hops(r) \in Nat
    BY <1>1 DEF Hops
  <2> DEFINE n == Len(r.path.mints)
  <2> DEFINE h == Hops(r)
  <2>3. h \in Nat /\ n \in 2 .. 5 /\ h + 1 = n
    BY <1>1, <2>1, <2>2
  <2> HIDE DEF n, h
  <2>4. h \in 1 .. 4
    BY <2>3
  <2> QED  BY <2>4 DEF h
<1>3. Hops(r) \in DOMAIN r.hops
  <2>1. DOMAIN r.hops = 1 .. Hops(r)
    BY <1>1 DEF Hops
  <2> QED  BY <1>2, <2>1
<1>4. r.hops[Hops(r)] \in RouteHop
  BY <1>1, <1>3
<1> QED  BY <1>2, <1>4 DEF Out, RouteHop, Amount

\* Products grow with a factor.
LEMMA Scaled ==
    ASSUME NEW a \in Nat, NEW b \in Nat, NEW c \in Nat, a <= b
    PROVE  c * a <= c * b
OBVIOUS

\* One hop more is worth one factor more.
LEMMA GainGrows ==
    ASSUME MaxGain \in Nat \ {0}, NEW i \in 1 .. 4, NEW j \in 1 .. 4, i < j,
           NEW o \in Nat, NEW p \in Nat, NEW q \in Nat,
           p <= o * Gain[i], q <= MaxGain * p
    PROVE  q <= o * Gain[j]
<1> DEFINE G == MaxGain
<1>1. Gain[1] = 1 /\ Gain[2] = G /\ Gain[3] = G * G /\ Gain[4] = G * G * G
  BY DEF Gain
<1>2. G \in Nat /\ 1 <= G /\ G * G \in Nat /\ G * G * G \in Nat
  <2>1. G \in Nat /\ 1 <= G
    OBVIOUS
  <2>2. \A m, n \in Nat : m * n \in Nat
    OBVIOUS
  <2> HIDE DEF G
  <2> QED  BY <2>1, <2>2
<1>3. G <= G * G
  <2> HIDE DEF G
  <2>1. G * 1 <= G * G
    BY <1>2, Scaled
  <2> QED  BY <2>1, <1>2
<1>4. G * G <= G * G * G
  <2>1. (G * G) * 1 <= (G * G) * G
    BY <1>2, Scaled
  <2> QED  BY <2>1, <1>2
<1>5. Gain[i] \in Nat /\ Gain[j] \in Nat /\ G * Gain[i] \in Nat
  BY <1>1, <1>2
<1>6. G * Gain[i] <= Gain[j]
  <2>1. G * Gain[i] = Gain[i + 1] /\ i + 1 <= j
    BY <1>1, <1>2
  <2>2. Gain[i + 1] <= Gain[j]
    BY <1>1, <1>2, <1>3, <1>4, <2>1
  <2> QED  BY <2>1, <2>2
<1> DEFINE x == Gain[i]
<1> DEFINE y == Gain[j]
<1> HIDE DEF G, x, y
<1>7. o * x \in Nat /\ p <= o * x /\ x \in Nat /\ y \in Nat /\ G * x \in Nat /\ G * x <= y
  BY <1>5, <1>6 DEF x, y
<1>8. G * p <= G * (o * x)
  BY <1>2, <1>7, Scaled
<1>9. G * (o * x) = o * (G * x)
  BY <1>2, <1>7
<1>10. o * (G * x) <= o * y
  BY <1>7, Scaled
<1>11. q <= G * p /\ G * p \in Nat /\ o * y \in Nat /\ o * (G * x) \in Nat
  BY <1>2, <1>7 DEF G
<1>12. q <= o * y
  BY <1>8, <1>9, <1>10, <1>11
<1> QED  BY <1>12 DEF y

\* r beats some shortest route by no more than its extra hops may bring.
Bounded(r) ==
    \E s \in Shortest(candidates) : Out(r) <= Out(s) * Gain[Hops(r) - Hops(s) + 1]

\* What the filter has kept when it is done with the routes of up to n hops.
KeptTo(n, K) ==
    /\ K \subseteq candidates
    /\ \A r \in K : Hops(r) <= n /\ Bounded(r)
    /\ K = {} => \A r \in candidates : Hops(r) > n
    /\ \A s \in Shortest(candidates) : Hops(s) <= n => s \in K

\* One level of the filter (router.rs:162-176): its reference is a route it
\* kept, whose own gain is bounded already.
LEMMA KeepLevel ==
    ASSUME RouterAssumption, IInv, NEW n \in 0 .. 3, NEW K, KeptTo(n, K)
    PROVE  KeptTo(n + 1, Keep(n + 1, K))
<1> DEFINE L == Keep(n + 1, K)
<1>1. \A r \in candidates : Hops(r) \in 1 .. 4 /\ Out(r) \in Nat
  BY RouteMeasures
<1>2. L = K \cup {r \in candidates :
                    /\ Hops(r) = n + 1
                    /\ K # {} => \E s \in K : Out(r) <= MaxGain * Out(s)}
  BY DEF Keep
<1> HIDE DEF L
<1>3. L \subseteq candidates
  BY <1>2 DEF KeptTo
<1>4. \A r \in L : Hops(r) <= n + 1
  BY <1>1, <1>2 DEF KeptTo
<1>5. ASSUME NEW r \in L
      PROVE  Bounded(r)
  <2>1. CASE r \in K
    BY <2>1 DEF KeptTo
  <2>2. CASE r \notin K /\ K = {}
    <3>1. r \in candidates /\ Hops(r) = n + 1
      BY <1>2, <2>2
    <3>2. \A s \in candidates : Hops(s) > n
      BY <2>2 DEF KeptTo
    <3>3. \A s \in candidates : Hops(r) <= Hops(s)
      BY <1>1, <3>1, <3>2
    <3>4. r \in Shortest(candidates)
      BY <3>1, <3>3 DEF Shortest
    <3>5. Out(r) <= Out(r) * Gain[Hops(r) - Hops(r) + 1]
      <4>1. Hops(r) - Hops(r) + 1 = 1 /\ Gain[1] = 1
        BY <1>1, <3>1 DEF Gain
      <4>2. Out(r) * 1 = Out(r)
        BY <1>1, <3>1
      <4> QED  BY <1>1, <3>1, <4>1, <4>2
    <3> QED  BY <3>4, <3>5 DEF Bounded
  <2>3. CASE r \notin K /\ K # {}
    <3>1. r \in candidates /\ Hops(r) = n + 1
      BY <1>2, <2>3
    <3>2. PICK t \in K : Out(r) <= MaxGain * Out(t)
      BY <1>2, <2>3
    <3>3. t \in candidates /\ Hops(t) <= n /\ Bounded(t)
      BY DEF KeptTo
    <3>4. PICK s \in Shortest(candidates) : Out(t) <= Out(s) * Gain[Hops(t) - Hops(s) + 1]
      BY <3>3 DEF Bounded
    <3>5. s \in candidates /\ Hops(s) <= Hops(t)
      BY <3>3, <3>4 DEF Shortest
    <3> DEFINE i == Hops(t) - Hops(s) + 1
    <3> DEFINE j == Hops(r) - Hops(s) + 1
    <3>6. i \in 1 .. 4 /\ j \in 1 .. 4 /\ i < j
      <4> DEFINE x == Hops(r)
      <4> DEFINE y == Hops(t)
      <4> DEFINE z == Hops(s)
      <4>1. x \in 1 .. 4 /\ y \in 1 .. 4 /\ z \in 1 .. 4 /\ z <= y /\ y <= n /\ x = n + 1
        BY <1>1, <3>1, <3>3, <3>5
      <4> HIDE DEF x, y, z
      <4>2. y - z + 1 \in 1 .. 4 /\ x - z + 1 \in 1 .. 4 /\ y - z + 1 < x - z + 1
        BY <4>1
      <4> QED  BY <4>2 DEF x, y, z
    <3>7. MaxGain \in Nat \ {0}
      BY DEF RouterAssumption
    <3>8. Out(r) \in Nat /\ Out(s) \in Nat /\ Out(t) \in Nat
      BY <1>1, <3>1, <3>3, <3>5
    <3>9. Out(t) <= Out(s) * Gain[i]
      BY <3>4
    <3> HIDE DEF i, j
    <3>10. Out(r) <= Out(s) * Gain[j]
      BY <3>2, <3>6, <3>7, <3>8, <3>9, GainGrows
    <3> QED  BY <3>4, <3>10 DEF j, Bounded
  <2> QED  BY <2>1, <2>2, <2>3
<1>6. ASSUME L = {}, NEW r \in candidates
      PROVE  Hops(r) > n + 1
  <2>1. K = {}
    BY <1>2, <1>6
  <2>2. Hops(r) > n /\ Hops(r) # n + 1
    BY <1>2, <1>6, <2>1 DEF KeptTo
  <2> QED  BY <1>1, <2>2
<1>7. ASSUME NEW s \in Shortest(candidates), Hops(s) <= n + 1
      PROVE  s \in L
  <2>1. s \in candidates /\ \A r \in candidates : Hops(s) <= Hops(r)
    BY DEF Shortest
  <2>2. CASE Hops(s) <= n
    BY <1>2, <2>2 DEF KeptTo
  <2>3. CASE ~(Hops(s) <= n)
    <3>1. Hops(s) = n + 1
      BY <1>1, <1>7, <2>1, <2>3
    <3>2. K = {}
      <4>1. \A r \in K : r \in candidates /\ Hops(r) <= n
        BY DEF KeptTo
      <4> QED  BY <1>1, <2>1, <3>1, <4>1
    <3> QED  BY <1>2, <2>1, <3>1, <3>2
  <2> QED  BY <2>2, <2>3
<1> QED  BY <1>3, <1>4, <1>5, <1>6, <1>7 DEF L, KeptTo

\* The filter, level after level.
LEMMA KeptIsBounded ==
    ASSUME RouterAssumption, IInv
    PROVE  KeptTo(4, Kept)
<1>1. \A r \in candidates : Hops(r) \in 1 .. 4
  BY RouteMeasures
<1>2. KeptTo(0, {})
  <2>1. \A s \in Shortest(candidates) : s \in candidates
    BY DEF Shortest
  <2> QED  BY <1>1, <2>1 DEF KeptTo
<1>3. \A n \in 0 .. 3 : \A K : KeptTo(n, K) => KeptTo(n + 1, Keep(n + 1, K))
  BY KeepLevel
<1>4. \A n \in 0 .. 3 : \A m : m = n + 1 => \A K : KeptTo(n, K) => KeptTo(m, Keep(m, K))
  BY <1>3
<1>5. KeptTo(1, Keep(1, {}))
  BY <1>2, <1>4
<1>6. KeptTo(2, Keep(2, Keep(1, {})))
  BY <1>4, <1>5
<1>7. KeptTo(3, Keep(3, Keep(2, Keep(1, {}))))
  BY <1>4, <1>6
<1>8. KeptTo(4, Keep(4, Keep(3, Keep(2, Keep(1, {})))))
  BY <1>4, <1>7
<1> QED  BY <1>8 DEF Kept

\* What sort and truncate leave of K is empty only if K is, and nothing they
\* drop is better than what they leave.
LEMMA BestIsBest ==
    ASSUME RouterAssumption, NEW K, IsFiniteSet(K), NEW R \in Best(K), NEW s \in K,
           s \notin R
    PROVE  \E r \in R : Out(s) <= Out(r)
<1>1. R \subseteq K /\ Cardinality(R) = AtMost(MaxRoutes, Cardinality(K))
      /\ \A r \in R : Out(s) <= Out(r)
  BY DEF Best
<1>2. Cardinality(K) \in Nat /\ Cardinality(K) # 0
  BY FS_CardinalityType, FS_EmptySet
<1>3. Cardinality(R) # 0
  BY <1>1, <1>2 DEF AtMost, RouterAssumption
<1>4. R # {}
  BY <1>3, FS_EmptySet
<1> QED  BY <1>1, <1>4

\* The answer is given by Finish, and stands.
LEMMA AnswerStep ==
    ASSUME RouterAssumption, IInv, IInv', [Next]_vars, GainIsBounded, ShortestIsMatched
    PROVE  GainIsBounded' /\ ShortestIsMatched'
<1>1. CASE stage' # "done"
  <2>1. routes' = {}
    BY <1>1 DEF IInv
  <2> QED  BY <1>1, <2>1 DEF GainIsBounded, ShortestIsMatched
<1>2. CASE Finish
  <2>1. candidates' = candidates /\ routes' \in Best(Kept)
    BY <1>2 DEF Finish
  <2>2. KeptTo(4, Kept)
    BY KeptIsBounded
  <2>3. IsFiniteSet(Kept)
    BY KeptAreFound, FS_Subset DEF IInv
  <2>4. GainIsBounded'
    <3>1. \A r \in routes' : Bounded(r)
      BY <2>1, <2>2 DEF KeptTo, Best
    <3> QED  BY <2>1, <3>1 DEF GainIsBounded, Bounded, Shortest
  <2>5. ShortestIsMatched'
    <3>1. ASSUME NEW s \in Shortest(candidates)
          PROVE  \E r \in routes' : Out(r) >= Out(s)
      <4>1. s \in candidates /\ Hops(s) \in 1 .. 4 /\ Out(s) \in Nat
        BY RouteMeasures DEF Shortest
      <4>2. s \in Kept
        BY <2>2, <4>1 DEF KeptTo
      <4>3. CASE s \in routes'
        BY <4>1, <4>3
      <4>4. CASE s \notin routes'
        <5>1. PICK r \in routes' : Out(s) <= Out(r)
          BY <2>1, <2>3, <4>2, <4>4, BestIsBest
        <5>2. r \in candidates
          BY <2>1, KeptAreFound DEF Best
        <5> QED  BY <4>1, <5>1, <5>2, RouteMeasures
      <4> QED  BY <4>3, <4>4
    <3> QED  BY <2>1, <3>1 DEF ShortestIsMatched, Shortest
  <2> QED  BY <2>4, <2>5
<1>3. ASSUME NEW t \in Trades, NEW n \in Amounts, NEW max_hops \in HopLimits,
             Begin(t[1], t[2], n, max_hops)
      PROVE  GainIsBounded' /\ ShortestIsMatched'
  <2>1. candidates' = {} /\ routes' = {}
    BY <1>3 DEF Begin, IInv
  <2> QED  BY <2>1 DEF GainIsBounded, ShortestIsMatched, Shortest
<1>4. CASE UNCHANGED vars
  BY <1>4 DEF vars, GainIsBounded, ShortestIsMatched, Shortest
<1>5. CASE NextPath \/ ScanLeg \/ ScanPool \/ ScanDone \/ NoPool \/ Replay \/ Found
           \/ \E p \in canonical : TakeCanonical(p)
  <2>1. stage' # "done"
    BY <1>5 DEF NextPath, ScanLeg, ScanPool, ScanDone, NoPool, Replay, Found,
                TakeCanonical, Pick
  <2> QED  BY <1>1, <2>1
<1>6. CASE \E p \in Moving : Publish(p) \/ \E acc \in Accounts : StoreWrite(p, acc)
  <2>1. stage' # "done"
    BY <1>6 DEF Publish, StoreWrite
  <2> QED  BY <1>1, <2>1
<1> QED  BY <1>2, <1>3, <1>4, <1>5, <1>6 DEF Next, Search

\* Both facts about the answer.
LEMMA AnswerInvariant == Spec => [](GainIsBounded /\ ShortestIsMatched)
<1>1. Init => GainIsBounded /\ ShortestIsMatched
  BY DEF Init, GainIsBounded, ShortestIsMatched
<1>2. IInv /\ IInv' /\ GainIsBounded /\ ShortestIsMatched /\ [Next]_vars
      => (GainIsBounded /\ ShortestIsMatched)'
  BY AnswerStep, RouterAssumption
<1> QED  BY <1>1, <1>2, Invariant, PTL DEF Spec

(***************************************************************************)
(* No answered route owes its output to a chain of mispriced legs: it      *)
(* beats a shortest route found by at most MAX_EXTRA_HOP_GAIN per hop more.*)
(***************************************************************************)
THEOREM GainCorrect == Spec => []GainIsBounded
BY AnswerInvariant, PTL

(***************************************************************************)
(* The filter and the truncation never lose the best of the shortest       *)
(* routes, nor leave an answer empty that could have a route.              *)
(***************************************************************************)
THEOREM ShortestCorrect == Spec => []ShortestIsMatched
BY AnswerInvariant, PTL

-----------------------------------------------------------------------------
(***************************************************************************)
(* A still store.  While no account changes, what a leg was picked for is  *)
(* what reaches it in the replay.                                          *)
(***************************************************************************)

\* The amounts between the legs that have a pool, each of which serves the
\* amount it was picked for
Threads(f) ==
    /\ f \in Seq(Amount) /\ Len(f) = Len(picks) + 1
    /\ f[1] = request.amount
    /\ \A i \in DOMAIN picks : f[i + 1] = OutputOf(picks[i], path.mints[i], f[i])
    /\ path.arm # "direct" => \A i \in DOMAIN picks : Simulates(picks[i], path.mints[i], f[i])

\* No pool of the pair that serves n pays more than out.
NoneBetter(E, from, n, out) ==
    \A k \in E : Simulates(edges[k].pool, from, n) => OutputOf(edges[k].pool, from, n) <= out

BestOfPair(from, to, n, out) == NoneBetter(Between(from, to), from, n, out)

\* What best_pool has found is the best of what it has looked at.
Scanned ==
    stage = "scan" =>
        /\ NoneBetter(Between(From, To) \ scan, From, amount, best.out)
        /\ best # NoPick => best.out = OutputOf(best.pool, From, amount) /\ Simulates(best.pool, From, amount)
        /\ best = NoPick => \A k \in Between(From, To) \ scan : ~Simulates(edges[k].pool, From, amount)

\* The replay follows the amounts the legs were picked for.
Follows(f) ==
    /\ stage \in {"leg", "scan"} => amount = f[Len(picks) + 1]
    /\ stage = "replay" =>
        /\ amount = f[Len(hops) + 1]
        /\ \A i \in DOMAIN hops : hops[i].in = f[i] /\ hops[i].out = f[i + 1]
        /\ path.arm # "direct" =>
             BestOfPair(path.mints[Len(picks)], path.mints[Len(picks) + 1], f[Len(picks)], f[Len(picks) + 1])

Threaded == Walking => \E f : Threads(f) /\ Follows(f)

BestInv == Quiet => Scanned /\ Threaded /\ LastHopIsBest

\* The markets of a still store
LEMMA MarketFrame ==
    ASSUME UNCHANGED <<edges, live, request>>
    PROVE  /\ \A p, m, n : OutputOf(p, m, n)' = OutputOf(p, m, n)
           /\ \A p, m, n : Simulates(p, m, n)' <=> Simulates(p, m, n)
           /\ \A a, b : Between(a, b)' = Between(a, b)
           /\ \A E, m, n, out : NoneBetter(E, m, n, out)' <=> NoneBetter(E, m, n, out)
           /\ \A a, b, n, out : BestOfPair(a, b, n, out)' <=> BestOfPair(a, b, n, out)
<1>1. \A p, m, n : OutputOf(p, m, n)' = OutputOf(p, m, n)
  BY DEF OutputOf
<1>2. \A p, m : OutputReserve(p, m)' = OutputReserve(p, m)
  BY DEF OutputReserve
<1>3. \A p : (Usable(p)' <=> Usable(p)) /\ (p \in Indexed)' = (p \in Indexed)
  BY DEF Usable, Indexed
<1>4. \A p, m, n : Simulates(p, m, n)' <=> Simulates(p, m, n)
  BY <1>1, <1>2, <1>3 DEF Simulates
<1>5. \A a, b : Between(a, b)' = Between(a, b)
  BY DEF Between
<1>6. \A E, m, n, out : NoneBetter(E, m, n, out)' <=> NoneBetter(E, m, n, out)
  BY <1>1, <1>4 DEF NoneBetter
<1>7. \A a, b, n, out : BestOfPair(a, b, n, out)' <=> BestOfPair(a, b, n, out)
  BY <1>5, <1>6 DEF BestOfPair
<1> QED  BY <1>1, <1>4, <1>5, <1>6, <1>7

\* LastHopIsBest in these words
LEMMA LastHopWords ==
    LastHopIsBest <=>
        (Quiet => \A r \in candidates : Hops(r) > 1 =>
            BestOfPair(r.hops[Hops(r)].from, r.hops[Hops(r)].to, r.hops[Hops(r)].in, Out(r)))
BY DEF LastHopIsBest, BestOfPair, NoneBetter, Out

\* Routes stay best while nothing moves and none is added.
LEMMA BestFrame ==
    ASSUME UNCHANGED <<edges, live, request, moves>>, candidates' \subseteq candidates, LastHopIsBest
    PROVE  LastHopIsBest'
<1>1. Quiet' = Quiet
  BY DEF Quiet
<1>2. \A p, m, n : OutputOf(p, m, n)' = OutputOf(p, m, n) /\ (Simulates(p, m, n)' <=> Simulates(p, m, n))
  BY MarketFrame
<1>3. \A a, b : Between(a, b)' = Between(a, b)
  BY MarketFrame
<1> QED  BY <1>1, <1>2, <1>3 DEF LastHopIsBest, Hops

\* A path is begun.
LEMMA NextPathBest ==
    ASSUME IInv, IInv', NextPath
    PROVE  Scanned' /\ Threaded'
<1>1. PICK p \in todo :
         /\ path' = p
         /\ picks' = IF p.arm = "direct" THEN <<edges[p.at[1]].pool>> ELSE <<>>
         /\ stage' = IF p.arm = "direct" THEN "replay" ELSE "leg"
  BY DEF NextPath
<1>2. amount' = request.amount /\ hops' = <<>> /\ request' = request
  BY DEF NextPath
<1>3. Scanned'
  BY <1>1 DEF Scanned
<1>4. amount' \in Amount /\ picks' \in Seq(Pools)
  BY DEF IInv, TypeOK
<1>5. CASE p.arm # "direct"
  <2>1. PICK f : f \in Seq(Amount) /\ Len(f) = 1 /\ f[1] = request.amount
    <3> DEFINE g == <<request.amount>>
    <3>1. g \in Seq(Amount) /\ Len(g) = 1 /\ g[1] = request.amount
      BY <1>2, <1>4
    <3> QED  BY <3>1
  <2>2. picks' = <<>> /\ stage' = "leg" /\ Len(picks') = 0 /\ DOMAIN picks' = {}
    BY <1>1, <1>5
  <2>3. Threads(f)'
    BY <1>2, <2>1, <2>2 DEF Threads
  <2>4. Follows(f)'
    BY <1>2, <2>1, <2>2 DEF Follows
  <2> QED  BY <1>3, <2>3, <2>4 DEF Threaded
<1>6. CASE p.arm = "direct"
  <2>1. Len(picks') = 1 /\ DOMAIN picks' = {1} /\ stage' = "replay" /\ path'.arm = "direct"
    BY <1>1, <1>6
  <2>2. path'.mints[1] \in Mints /\ picks'[1] \in Pools
    <3>1. PathOK(path)' /\ path'.mints \in Seq(Mints)
      BY <2>1 DEF IInv, PathsOK, Walking, TypeOK, PlannedPath
    <3> QED  BY <1>4, <2>1, <3>1 DEF PathOK
  <2> DEFINE out == OutputOf(picks[1], path.mints[1], request.amount)
  <2>3. out' \in Amount
    <3>1. TypeOK'
      BY DEF IInv
    <3>2. \A p_1 \in Pools, m \in Mints, n \in Amount : OutputOf(p_1, m, n)' \in Amount
      BY <3>1, RouterAssumption DEF RouterAssumption, TypeOK, OutputOf
    <3> QED  BY <1>2, <1>4, <2>2, <3>2
  <2>4. PICK f : f \in Seq(Amount) /\ Len(f) = 2 /\ f[1] = request.amount /\ f[2] = out'
    <3> DEFINE o == out'
    <3> DEFINE g == <<request.amount, o>>
    <3>1. o \in Amount
      BY <2>3
    <3> HIDE DEF o
    <3>2. g \in Seq(Amount) /\ Len(g) = 2 /\ g[1] = request.amount /\ g[2] = o
      BY <1>2, <1>4, <3>1
    <3> QED  BY <3>2 DEF o
  <2>5. Threads(f)'
    BY <1>2, <2>1, <2>4 DEF Threads
  <2>6. Follows(f)'
    BY <1>2, <2>1, <2>4 DEF Follows
  <2> QED  BY <1>3, <2>5, <2>6 DEF Threaded
<1> QED  BY <1>5, <1>6

\* A pool is picked for the leg, the best of its pair if the leg is the last.
LEMMA PickBest ==
    ASSUME IInv, Threaded, stage \in {"leg", "scan"}, NEW p \in Pools, NEW out \in Amount,
           out = OutputOf(p, From, amount), Simulates(p, From, amount), Pick(p, out),
           LastLeg => BestOfPair(From, To, amount, out)
    PROVE  Scanned' /\ Threaded'
<1>1. /\ picks' = Append(picks, p)
      /\ amount' = IF LastLeg THEN request.amount ELSE out
      /\ stage' = IF LastLeg THEN "replay" ELSE "leg"
      /\ UNCHANGED <<edges, live, request, path, hops>>
  BY DEF Pick, indexVars, storeVars
<1>2. Scanned'
  BY <1>1 DEF Scanned
<1>3. PICK f : Threads(f) /\ Follows(f)
  BY DEF Threaded, Walking
<1> DEFINE n == Len(picks)
<1>4. /\ picks \in Seq(Pools) /\ hops = <<>> /\ amount \in Amount /\ n \in Nat
      /\ f \in Seq(Amount) /\ Len(f) = n + 1 /\ f[1] = request.amount /\ amount = f[n + 1]
      /\ \A i \in 1 .. n : f[i + 1] = OutputOf(picks[i], path.mints[i], f[i])
      /\ path.arm # "direct" => \A i \in 1 .. n : Simulates(picks[i], path.mints[i], f[i])
  <2>1. picks \in Seq(Pools) /\ amount \in Amount /\ hops = <<>>
    BY DEF IInv, TypeOK, HopsOK
  <2>2. /\ f \in Seq(Amount) /\ Len(f) = n + 1 /\ f[1] = request.amount
        /\ \A i \in DOMAIN picks : f[i + 1] = OutputOf(picks[i], path.mints[i], f[i])
        /\ path.arm # "direct" => \A i \in DOMAIN picks : Simulates(picks[i], path.mints[i], f[i])
    BY <1>3 DEF Threads
  <2>3. amount = f[n + 1]
    BY <1>3 DEF Follows
  <2>4. DOMAIN picks = 1 .. n /\ n \in Nat
    BY <2>1
  <2> QED  BY <2>1, <2>2, <2>3, <2>4
<1>5. /\ Len(picks') = n + 1 /\ DOMAIN picks' = 1 .. n + 1 /\ picks'[n + 1] = p
      /\ \A i \in 1 .. n : picks'[i] = picks[i]
  BY <1>1, <1>4
<1>6. PICK g : g = Append(f, out)
  OBVIOUS
<1>7. /\ g \in Seq(Amount) /\ Len(g) = n + 2 /\ g[n + 2] = out
      /\ \A i \in 1 .. n + 1 : g[i] = f[i]
  BY <1>4, <1>6
<1>8. path.arm # "direct" => \A i \in 1 .. n + 1 : Simulates(picks'[i], path.mints[i], g[i])
  <2> SUFFICES ASSUME path.arm # "direct", NEW i \in 1 .. n + 1
               PROVE  Simulates(picks'[i], path.mints[i], g[i])
    OBVIOUS
  <2>1. CASE i = n + 1
    <3>1. From = path.mints[i] /\ picks'[i] = p /\ g[i] = amount
      BY <1>4, <1>5, <1>7, <2>1 DEF From
    <3> QED  BY <3>1
  <2>2. CASE i # n + 1
    <3>1. i \in 1 .. n
      BY <1>4, <2>2
    <3>2. picks'[i] = picks[i] /\ g[i] = f[i]
      BY <1>5, <1>7, <3>1
    <3> QED  BY <1>4, <3>1, <3>2
  <2> QED  BY <2>1, <2>2
<1>9. \A i \in 1 .. n + 1 : g[i + 1] = OutputOf(picks'[i], path.mints[i], g[i])
  <2> TAKE i \in 1 .. n + 1
  <2>1. CASE i = n + 1
    <3>1. From = path.mints[i] /\ picks'[i] = p /\ g[i] = amount /\ g[i + 1] = out
      BY <1>4, <1>5, <1>7, <2>1 DEF From
    <3> QED  BY <3>1
  <2>2. CASE i # n + 1
    <3>1. i \in 1 .. n /\ i + 1 \in 1 .. n + 1
      BY <1>4, <2>2
    <3>2. picks'[i] = picks[i] /\ g[i] = f[i] /\ g[i + 1] = f[i + 1]
      BY <1>5, <1>7, <3>1
    <3> QED  BY <1>4, <3>1, <3>2
  <2> QED  BY <2>1, <2>2
<1>10. Threads(g)'
  <2>1. \A i \in DOMAIN picks' : (g[i + 1] = OutputOf(picks[i], path.mints[i], g[i]))'
    BY <1>1, <1>5, <1>9 DEF OutputOf
  <2>2. Len(g) = Len(picks') + 1 /\ g[1] = request'.amount
    BY <1>1, <1>4, <1>5, <1>7
  <2>3. path'.arm # "direct" => \A i \in DOMAIN picks' : (Simulates(picks[i], path.mints[i], g[i]))'
    BY <1>1, <1>5, <1>8 DEF Simulates, OutputOf, OutputReserve, Usable, Indexed
  <2> QED  BY <1>7, <2>1, <2>2, <2>3 DEF Threads
<1>11. CASE LastLeg
  <2>1. BestOfPair(path.mints[n + 1], path.mints[n + 2], g[n + 1], g[n + 2])
    <3>1. From = path.mints[n + 1] /\ To = path.mints[n + 2] /\ amount = g[n + 1] /\ out = g[n + 2]
      BY <1>4, <1>7 DEF From, To
    <3> QED  BY <1>11, <3>1
  <2>2. BestOfPair(path.mints[Len(picks)], path.mints[Len(picks) + 1], g[Len(picks)], g[Len(picks) + 1])'
    <3>1. UNCHANGED <<edges, live, request>> /\ path' = path /\ Len(picks') = n + 1 /\ Len(picks') + 1 = n + 2
      BY <1>1, <1>4, <1>5
    <3> QED
      BY <2>1, <3>1 DEF BestOfPair, NoneBetter, Between, Simulates, OutputOf, OutputReserve, Usable, Indexed
  <2>3. stage' = "replay" /\ amount' = g[1] /\ hops' = <<>>
    BY <1>1, <1>4, <1>7, <1>11
  <2>4. Follows(g)'
    BY <2>2, <2>3 DEF Follows
  <2> QED  BY <1>2, <1>10, <2>4 DEF Threaded
<1>12. CASE ~LastLeg
  <2>1. stage' = "leg" /\ amount' = g[n + 2]
    BY <1>1, <1>7, <1>12
  <2>2. Follows(g)'
    BY <1>5, <2>1, <1>4 DEF Follows
  <2> QED  BY <1>2, <1>10, <2>2 DEF Threaded
<1> QED  BY <1>11, <1>12

\* A thread lasts as long as the picks and the markets.
LEMMA ThreadFrame ==
    ASSUME UNCHANGED <<edges, live, request, path, picks>>, NEW f, Threads(f)
    PROVE  Threads(f)'
BY DEF Threads, Simulates, OutputOf, OutputReserve, Usable, Indexed

\* Nothing is looked at yet.
LEMMA ScanLegBest ==
    ASSUME Threaded, ScanLeg
    PROVE  Scanned' /\ Threaded'
<1>1. /\ stage = "leg" /\ stage' = "scan" /\ scan' = Between(From, To) /\ best' = NoPick
      /\ UNCHANGED <<edges, live, request, path, picks, amount>>
  BY DEF ScanLeg, indexVars, storeVars
<1>2. From' = From /\ To' = To /\ Between(From, To)' = Between(From, To)
  BY <1>1 DEF From, To, Between
<1>3. Scanned'
  BY <1>1, <1>2 DEF Scanned, NoneBetter
<1>4. PICK f : Threads(f) /\ Follows(f)
  BY <1>1 DEF Threaded, Walking
<1>5. Threads(f)'
  BY <1>1, <1>4, ThreadFrame
<1>6. Follows(f)'
  BY <1>1, <1>4 DEF Follows
<1> QED  BY <1>3, <1>5, <1>6 DEF Threaded

\* One more edge is looked at.
LEMMA ScanPoolBest ==
    ASSUME RouterAssumption, IInv, Scanned, Threaded, ScanPool
    PROVE  Scanned' /\ Threaded'
<1>1. /\ stage = "scan" /\ stage' = "scan"
      /\ UNCHANGED <<edges, live, request, path, picks, amount>>
  BY DEF ScanPool, indexVars, storeVars
<1> DEFINE pay(k) == OutputOf(edges[k].pool, From, amount)
<1> DEFINE serves(k) == Simulates(edges[k].pool, From, amount)
<1> DEFINE E == Between(From, To)
<1>2. PICK k \in scan :
        /\ scan' = scan \ {k}
        /\ best' = IF serves(k) /\ pay(k) >= best.out
                   THEN [pool |-> edges[k].pool, out |-> pay(k)] ELSE best
  BY DEF ScanPool
<1>3. TypeOK /\ From \in Mints /\ amount \in Amount
  BY <1>1, LegEnds DEF IInv, TypeOK
<1>4. scan \subseteq E /\ E \subseteq DOMAIN edges
  BY <1>1 DEF IInv, ScanOK, Between
<1>5. \A j \in E : pay(j) \in Int
  <2>1. \A j \in E : edges[j].pool \in Pools
    <3>1. edges \in Seq(Edge)
      BY <1>3 DEF TypeOK, IndexTypeOK
    <3>2. \A j \in DOMAIN edges : edges[j] \in Edge
      BY <3>1
    <3> QED  BY <1>4, <3>2 DEF Edge
  <2>2. Amount \subseteq Int
    BY DEF Amount, RouterAssumption
  <2> QED  BY <1>3, <2>1, <2>2, OutputIsAmount
<1>6. best.out \in Int
  BY <1>3 DEF TypeOK, NoPick, Amount, RouterAssumption
<1>7. \A j \in E \ scan : serves(j) => pay(j) <= best.out
  BY <1>1 DEF Scanned, NoneBetter
<1>8. /\ best # NoPick => best.out = OutputOf(best.pool, From, amount) /\ Simulates(best.pool, From, amount)
      /\ best = NoPick => \A j \in E \ scan : ~serves(j)
  BY <1>1 DEF Scanned
<1>9. \A j \in E \ scan' : serves(j) => pay(j) <= best'.out
  <2> HIDE DEF serves, pay, E
  <2>1. CASE serves(k) /\ pay(k) >= best.out
    BY <1>2, <1>4, <1>5, <1>6, <1>7, <2>1
  <2>2. CASE ~(serves(k) /\ pay(k) >= best.out)
    BY <1>2, <1>4, <1>5, <1>6, <1>7, <2>2
  <2> QED  BY <2>1, <2>2
<1>10. best' # NoPick => best'.out = OutputOf(best'.pool, From, amount) /\ Simulates(best'.pool, From, amount)
  BY <1>2, <1>8
<1>11. best' = NoPick => \A j \in E \ scan' : ~serves(j)
  <2>1. CASE serves(k) /\ pay(k) >= best.out
    <3>1. pay(k) > 0
      BY <2>1 DEF Simulates
    <3>2. best'.out = pay(k)
      BY <1>2, <2>1
    <3> QED  BY <1>4, <1>5, <3>1, <3>2 DEF NoPick
  <2>2. CASE ~(serves(k) /\ pay(k) >= best.out)
    <3>1. best' = best
      BY <1>2, <2>2
    <3>2. best = NoPick => ~serves(k)
      <4>1. SUFFICES ASSUME best = NoPick, serves(k)
                     PROVE  FALSE
        OBVIOUS
      <4>2. pay(k) > 0
        BY <4>1 DEF Simulates
      <4>3. best.out = 0 /\ pay(k) \in Int
        BY <1>4, <1>5, <4>1 DEF NoPick
      <4> HIDE DEF pay, serves
      <4> QED  BY <2>2, <4>1, <4>2, <4>3
    <3> HIDE DEF pay, serves, E
    <3> QED  BY <1>2, <1>8, <3>1, <3>2
  <2> QED  BY <2>1, <2>2
<1>12. Scanned'
  <2>1. From' = From /\ To' = To /\ Between(From, To)' = E
    BY <1>1 DEF From, To, Between
  <2>2. NoneBetter(E \ scan', From, amount, best'.out)
    BY <1>9 DEF NoneBetter
  <2>3. NoneBetter(Between(From, To) \ scan, From, amount, best.out)'
    BY <1>1, <2>1, <2>2 DEF NoneBetter, Simulates, OutputOf, OutputReserve, Usable, Indexed
  <2>4. (best # NoPick => best.out = OutputOf(best.pool, From, amount) /\ Simulates(best.pool, From, amount))'
    BY <1>1, <1>10, <2>1 DEF Simulates, OutputOf, OutputReserve, Usable, Indexed
  <2>5. (best = NoPick => \A j \in Between(From, To) \ scan : ~Simulates(edges[j].pool, From, amount))'
    BY <1>1, <1>11, <2>1 DEF Simulates, OutputOf, OutputReserve, Usable, Indexed
  <2> QED  BY <2>3, <2>4, <2>5 DEF Scanned
<1>13. PICK f : Threads(f) /\ Follows(f)
  BY <1>1 DEF Threaded, Walking
<1>14. Threads(f)'
  BY <1>1, <1>13, ThreadFrame
<1>15. Follows(f)'
  BY <1>1, <1>13 DEF Follows
<1> QED  BY <1>12, <1>14, <1>15 DEF Threaded

\* The replay comes to the same amounts.
LEMMA ReplayBest ==
    ASSUME IInv, Threaded, Replay
    PROVE  Scanned' /\ Threaded'
<1> DEFINE i == Len(hops) + 1
<1> DEFINE p == picks[i]
<1> DEFINE m == path.mints[i]
<1>1. stage = "replay" /\ i <= Len(picks) /\ UNCHANGED <<edges, live, request, path, picks>>
  BY DEF Replay, indexVars, storeVars, IInv, TypeOK
<1>2. CASE ~Simulates(p, m, amount)
  <2>1. stage' = "next"
    BY <1>2 DEF Replay
  <2> QED  BY <2>1 DEF Scanned, Threaded, Walking
<1>3. CASE Simulates(p, m, amount)
  <2>1. hops' = Append(hops, Hop(p, m, amount)) /\ amount' = OutputOf(p, m, amount) /\ stage' = "replay"
    BY <1>1, <1>3 DEF Replay
  <2>2. PICK f : Threads(f) /\ Follows(f)
    BY <1>1 DEF Threaded, Walking
  <2>3. Threads(f)'
    BY <1>1, <2>2, ThreadFrame
  <2>4. /\ amount = f[i]
        /\ \A j \in DOMAIN hops : hops[j].in = f[j] /\ hops[j].out = f[j + 1]
        /\ path.arm # "direct" =>
             BestOfPair(path.mints[Len(picks)], path.mints[Len(picks) + 1], f[Len(picks)], f[Len(picks) + 1])
    BY <1>1, <2>2 DEF Follows
  <2>5. hops \in Seq(RouteHop) /\ picks \in Seq(Pools)
    BY DEF IInv, TypeOK
  <2>6. f[i + 1] = amount'
    <3>1. i \in DOMAIN picks
      BY <1>1, <2>5
    <3> QED  BY <2>1, <2>2, <2>4, <3>1 DEF Threads
  <2>7. Hop(p, m, amount).in = amount /\ Hop(p, m, amount).out = amount'
    BY <2>1 DEF Hop
  <2>8. /\ Len(hops') = i /\ DOMAIN hops' = 1 .. i /\ hops'[i] = Hop(p, m, amount)
        /\ \A j \in 1 .. Len(hops) : hops'[j] = hops[j]
    BY <2>1, <2>5
  <2>9. \A j \in DOMAIN hops' : hops'[j].in = f[j] /\ hops'[j].out = f[j + 1]
    <3> TAKE j \in DOMAIN hops'
    <3>1. CASE j = i
      BY <2>4, <2>6, <2>7, <2>8, <3>1
    <3>2. CASE j # i
      <4>1. j \in 1 .. Len(hops) /\ DOMAIN hops = 1 .. Len(hops)
        BY <2>5, <2>8, <3>2
      <4> QED  BY <2>4, <2>8, <4>1
    <3> QED  BY <3>1, <3>2
  <2>10. path.arm # "direct" =>
            BestOfPair(path.mints[Len(picks)], path.mints[Len(picks) + 1], f[Len(picks)], f[Len(picks) + 1])'
    BY <1>1, <2>4 DEF BestOfPair, NoneBetter, Between, Simulates, OutputOf, OutputReserve, Usable, Indexed
  <2>11. Follows(f)'
    BY <1>1, <2>1, <2>6, <2>8, <2>9, <2>10 DEF Follows
  <2> QED  BY <2>1, <2>3, <2>11 DEF Scanned, Threaded
<1> QED  BY <1>2, <1>3

\* So the last hop of a route that is found is the best of its pair.
LEMMA FoundBest ==
    ASSUME IInv, Threaded, LastHopIsBest, Found
    PROVE  LastHopIsBest'
<1> DEFINE r == [path |-> path, hops |-> hops]
<1> DEFINE n == Len(picks)
<1>1. /\ stage = "replay" /\ Len(hops) = n /\ candidates' = candidates \cup {r}
      /\ UNCHANGED <<edges, live, request, moves>>
  BY DEF Found, indexVars, storeVars
<1>2. PICK f : Threads(f) /\ Follows(f)
  BY <1>1 DEF Threaded, Walking
<1>3. ASSUME n > 1
      PROVE  BestOfPair(hops[n].from, hops[n].to, hops[n].in, hops[n].out)
  <2>1. hops \in Seq(RouteHop) /\ n \in DOMAIN hops
    BY <1>1, <1>3 DEF IInv, TypeOK
  <2>2. hops[n].in = f[n] /\ hops[n].out = f[n + 1]
    BY <1>1, <1>2, <2>1 DEF Follows
  <2>3. hops[n].from = path.mints[n] /\ hops[n].to = path.mints[n + 1]
    BY <1>1, <2>1 DEF IInv, HopsOK, Walkable
  <2>4. path.arm # "direct"
    <3>1. Len(picks) + 1 = Len(path.mints) /\ Len(picks) \in Nat
      BY <1>1 DEF IInv, PicksOK, Walking, TypeOK
    <3>2. path.arm = "direct" => Len(path.mints) = 2
      BY <1>1 DEF IInv, PathsOK, PathOK, Walking
    <3> QED  BY <1>3, <3>1, <3>2
  <2>5. BestOfPair(path.mints[n], path.mints[n + 1], f[n], f[n + 1])
    BY <1>1, <1>2, <2>4 DEF Follows
  <2> QED  BY <2>2, <2>3, <2>5
<1>4. \A s \in candidates' : Quiet /\ Hops(s) > 1 =>
          BestOfPair(s.hops[Hops(s)].from, s.hops[Hops(s)].to, s.hops[Hops(s)].in, Out(s))
  <2> TAKE s \in candidates'
  <2>1. CASE s \in candidates
    BY <2>1, LastHopWords
  <2>2. CASE s = r
    <3>1. Hops(s) = n /\ s.hops = hops /\ Out(s) = hops[n].out
      BY <1>1, <2>2 DEF Hops, Out
    <3> QED  BY <1>3, <3>1
  <2> QED  BY <1>1, <2>1, <2>2
<1>5. Quiet' = Quiet
  BY <1>1 DEF Quiet
<1>6. /\ \A q, m, k : OutputOf(q, m, k)' = OutputOf(q, m, k)
      /\ \A q, m, k : Simulates(q, m, k)' <=> Simulates(q, m, k)
      /\ \A a, b : Between(a, b)' = Between(a, b)
  BY <1>1, MarketFrame
<1> HIDE DEF r
<1> QED  BY <1>1, <1>4, <1>5, <1>6 DEF LastHopIsBest, BestOfPair, NoneBetter, Hops, Out

\* While the store is still, every step keeps the three of them.
LEMMA BestStep ==
    ASSUME RouterAssumption, IInv, IInv', [Next]_vars, BestInv
    PROVE  BestInv'
<1> SUFFICES ASSUME Quiet'
             PROVE  Scanned' /\ Threaded' /\ LastHopIsBest'
  BY DEF BestInv
<1>1. moves \in Nat
  BY DEF IInv, TypeOK
<1>2. CASE \E p \in Moving : \E acc \in Accounts : StoreWrite(p, acc)
  BY <1>1, <1>2 DEF StoreWrite, Quiet
<1> SUFFICES ASSUME ~\E p \in Moving : \E acc \in Accounts : StoreWrite(p, acc)
             PROVE  Scanned' /\ Threaded' /\ LastHopIsBest'
  BY <1>2
<1>3. UNCHANGED <<edges, live, moves>>
  BY DEF Next, Search, Begin, NextPath, ScanLeg, ScanPool, ScanDone, NoPool, Replay, Found, Finish,
         TakeCanonical, Pick, Publish, vars, indexVars, storeVars
<1>4. Scanned /\ Threaded /\ LastHopIsBest
  BY <1>3 DEF BestInv, Quiet
<1>5. CASE \E t \in Trades : \E n \in Amounts : \E max_hops \in HopLimits : Begin(t[1], t[2], n, max_hops)
  <2>1. candidates' = {} /\ stage' \in {"done", "next"}
    BY <1>5 DEF Begin, IInv
  <2> QED  BY <2>1 DEF Scanned, Threaded, Walking, LastHopIsBest
<1> SUFFICES ASSUME request' = request
             PROVE  Scanned' /\ Threaded' /\ LastHopIsBest'
  BY <1>5 DEF Next, Search, NextPath, ScanLeg, ScanPool, ScanDone, NoPool, Replay, Found, Finish,
         TakeCanonical, Pick, Publish, vars
<1>6. candidates' = candidates => LastHopIsBest'
  BY <1>3, <1>4, BestFrame
<1>7. CASE NextPath
  BY <1>6, <1>7, NextPathBest DEF NextPath
<1>8. CASE \E p \in canonical : TakeCanonical(p)
  <2>1. PICK p \in canonical : TakeCanonical(p)
    BY <1>8
  <2>2. p \in Pools /\ OutputOf(p, From, amount) \in Amount
    <3>1. TypeOK /\ PathsOK /\ PicksOK /\ p \in Pools /\ amount \in Amount /\ stage = "leg"
      BY <2>1 DEF IInv, TypeOK, IndexTypeOK, TakeCanonical
    <3> QED  BY <3>1, LegEnds, OutputIsAmount
  <2>3. stage = "leg" /\ ~LastLeg /\ Simulates(p, From, amount) /\ Pick(p, OutputOf(p, From, amount))
        /\ candidates' = candidates
    BY <2>1 DEF TakeCanonical, Pick
  <2> QED  BY <1>4, <1>6, <2>2, <2>3, PickBest
<1>9. CASE ScanLeg
  BY <1>4, <1>6, <1>9, ScanLegBest DEF ScanLeg
<1>10. CASE ScanPool
  BY <1>4, <1>6, <1>10, ScanPoolBest DEF ScanPool
<1>11. CASE ScanDone
  <2>1. stage = "scan" /\ scan = {} /\ best # NoPick /\ Pick(best.pool, best.out) /\ candidates' = candidates
    BY <1>11 DEF ScanDone, Pick
  <2>2. best.pool \in Pools /\ best.out \in Amount
    BY <2>1 DEF IInv, TypeOK
  <2>3. /\ best.out = OutputOf(best.pool, From, amount) /\ Simulates(best.pool, From, amount)
        /\ BestOfPair(From, To, amount, best.out)
    <3>1. Between(From, To) \ scan = Between(From, To)
      BY <2>1
    <3> QED  BY <1>4, <2>1, <3>1 DEF Scanned, BestOfPair
  <2> QED  BY <1>4, <1>6, <2>1, <2>2, <2>3, PickBest
<1>12. CASE NoPool \/ Finish
  <2>1. stage' \in {"next", "done"} /\ candidates' = candidates
    BY <1>12 DEF NoPool, Finish
  <2> QED  BY <1>6, <2>1 DEF Scanned, Threaded, Walking
<1>13. CASE Replay
  BY <1>4, <1>6, <1>13, ReplayBest DEF Replay
<1>14. CASE Found
  <2>1. stage' = "next"
    BY <1>14 DEF Found
  <2> QED  BY <1>4, <1>14, <2>1, FoundBest DEF Scanned, Threaded, Walking
<1>15. CASE (\E p \in Moving : Publish(p)) \/ UNCHANGED vars
  <2>1. UNCHANGED <<stage, path, picks, amount, scan, best, hops, candidates>>
    BY <1>15 DEF Publish, vars, walkVars
  <2>2. Scanned'
    BY <1>3, <1>4, <2>1 DEF Scanned, NoneBetter, From, To, Between, Simulates, OutputOf, OutputReserve, Usable,
         Indexed
  <2>3. Threaded'
    <3>1. SUFFICES ASSUME Walking PROVE \E f : (Threads(f) /\ Follows(f))'
      BY <2>1 DEF Threaded, Walking
    <3>2. PICK f : Threads(f) /\ Follows(f)
      BY <1>4, <3>1 DEF Threaded
    <3>3. Threads(f)'
      BY <1>3, <2>1, <3>2, ThreadFrame
    <3>4. Follows(f)'
      BY <1>3, <2>1, <3>2 DEF Follows, BestOfPair, NoneBetter, Between, Simulates, OutputOf, OutputReserve,
           Usable, Indexed
    <3> QED  BY <3>3, <3>4
  <2> QED  BY <1>6, <2>1, <2>2, <2>3
<1> QED  BY <1>5, <1>7, <1>8, <1>9, <1>10, <1>11, <1>12, <1>13, <1>14, <1>15 DEF Next, Search

\* The threads of a still store are an invariant.
LEMMA BestInvariant == Spec => []BestInv
<1>1. Init => BestInv
  BY DEF Init, BestInv, Scanned, Threaded, Walking, LastHopIsBest
<1>2. IInv /\ IInv' /\ BestInv /\ [Next]_vars => BestInv'
  BY BestStep, RouterAssumption
<1> QED  BY <1>1, <1>2, Invariant, PTL DEF Spec

(***************************************************************************)
(* While no account moves, the last hop of every route found is the best   *)
(* of its pair for the amount that reaches it (router.rs:226-228, 703),    *)
(* although best_pool chose it in an earlier pass than simulate_path quotes*)
(* it in: for any markets, with pools being published all the while.       *)
(***************************************************************************)
THEOREM LastHopCorrect == Spec => []LastHopIsBest
<1>1. BestInv => LastHopIsBest
  BY DEF BestInv, LastHopIsBest
<1> QED  BY <1>1, BestInvariant, PTL

\* A path is walked once.
Fresh ==
    /\ stage = "idle" => candidates = {}
    /\ Walking => path \notin todo /\ \A c \in candidates : c.path # path
    /\ \A c \in candidates : c.path \notin todo

\* Every step takes a path off the list, or none.
LEMMA FreshInvariant == Spec => []Fresh
<1>1. Init => Fresh
  BY DEF Init, Fresh, Walking
<1>2. Fresh /\ [Next]_vars => Fresh'
  <2> SUFFICES ASSUME Fresh, [Next]_vars
               PROVE  Fresh'
    OBVIOUS
  <2>1. CASE \E t \in Trades : \E n \in Amounts : \E max_hops \in HopLimits : Begin(t[1], t[2], n, max_hops)
    BY <2>1 DEF Begin, Fresh, Walking
  <2>2. CASE NextPath
    <3>1. PICK p \in todo : path' = p /\ todo' = todo \ {p} /\ candidates' = candidates
      BY <2>2 DEF NextPath
    <3>2. stage' # "idle"
      BY <2>2 DEF NextPath
    <3> QED  BY <3>1, <3>2 DEF Fresh, Walking
  <2>3. CASE Found
    <3>1. Walking /\ stage' = "next" /\ candidates' = candidates \cup {[path |-> path, hops |-> hops]} /\ todo' = todo
      BY <2>3 DEF Found, Walking
    <3> QED  BY <3>1 DEF Fresh, Walking
  <2>4. CASE NoPool \/ Finish \/ ScanLeg \/ ScanPool \/ ScanDone \/ Replay \/ \E p \in canonical : TakeCanonical(p)
    <3>1. UNCHANGED <<path, todo, candidates>> /\ stage' # "idle" /\ (Walking' => Walking)
      BY <2>4 DEF NoPool, Finish, ScanLeg, ScanPool, ScanDone, Replay, TakeCanonical, Pick, Walking, walkVars
    <3> QED  BY <3>1 DEF Fresh
  <2>5. CASE (\E p \in Moving : Publish(p) \/ \E acc \in Accounts : StoreWrite(p, acc)) \/ UNCHANGED vars
    <3>1. UNCHANGED <<stage, path, todo, candidates>>
      BY <2>5 DEF Publish, StoreWrite, vars, walkVars
    <3> QED  BY <3>1 DEF Fresh, Walking
  <2> QED  BY <2>1, <2>2, <2>3, <2>4, <2>5 DEF Next, Search
<1> QED  BY <1>1, <1>2, PTL DEF Spec

\* A hop that was picked for an amount is simulated for the same amount.
LEMMA ReplayServes ==
    ASSUME IInv, Threaded, Replay, stage' = "next"
    PROVE  path.arm = "direct"
<1> DEFINE i == Len(hops) + 1
<1>1. stage = "replay" /\ i \in DOMAIN picks /\ ~Simulates(picks[i], path.mints[i], amount)
  <2>1. stage = "replay" /\ Len(hops) < Len(picks) /\ hops \in Seq(RouteHop) /\ picks \in Seq(Pools)
    BY DEF Replay, IInv, TypeOK
  <2>2. ~Simulates(picks[i], path.mints[i], amount)
    BY DEF Replay
  <2> QED  BY <2>1, <2>2
<1>2. PICK f : Threads(f) /\ Follows(f)
  BY <1>1 DEF Threaded, Walking
<1>3. amount = f[i]
  BY <1>1, <1>2 DEF Follows
<1> QED  BY <1>1, <1>2, <1>3 DEF Threads

(***************************************************************************)
(* "drifting swappability never drops an otherwise-viable leg"             *)
(* (router.rs:251-253): in a still store find_routes gives up a path of    *)
(* more than one hop only at a leg none of whose pools serves the amount,  *)
(* whatever the canonical pools are and whatever is published meanwhile.   *)
(***************************************************************************)
THEOREM ViableLegTaken == Spec => ViableLegIsTaken
<1>1. ASSUME IInv, BestInv, Fresh, [Next]_vars,
             Quiet, stage # "next", stage' = "next", candidates' = candidates
      PROVE  \/ stage = "idle"
             \/ stage = "replay" /\ path.arm = "direct"
             \/ stage = "scan" /\ \A k \in Between(From, To) : ~Simulates(edges[k].pool, From, amount)
  <2>1. Scanned /\ Threaded
    BY <1>1 DEF BestInv
  <2>2. CASE \E t \in Trades : \E n \in Amounts : \E max_hops \in HopLimits : Begin(t[1], t[2], n, max_hops)
    BY <2>2 DEF Begin
  <2>3. CASE NoPool
    <3>1. stage = "scan" /\ scan = {} /\ best = NoPick
      BY <2>3 DEF NoPool
    <3> QED  BY <2>1, <3>1 DEF Scanned
  <2>4. CASE Replay
    <3>1. stage = "replay"
      BY <2>4 DEF Replay
    <3> QED  BY <1>1, <2>1, <2>4, <3>1, ReplayServes
  <2>5. CASE Found
    <3>1. Walking /\ [path |-> path, hops |-> hops] \in candidates'
      BY <2>5 DEF Found, Walking
    <3> QED  BY <1>1, <3>1 DEF Fresh
  <2>6. CASE NextPath \/ Finish \/ ScanLeg \/ ScanPool \/ ScanDone \/ \E p \in canonical : TakeCanonical(p)
    BY <1>1, <2>6 DEF NextPath, Finish, ScanLeg, ScanPool, ScanDone, TakeCanonical, Pick
  <2>7. CASE (\E p \in Moving : Publish(p) \/ \E acc \in Accounts : StoreWrite(p, acc)) \/ UNCHANGED vars
    BY <1>1, <2>7 DEF Publish, StoreWrite, vars
  <2> QED  BY <1>1, <2>2, <2>3, <2>4, <2>5, <2>6, <2>7 DEF Next, Search
<1> QED  BY <1>1, Invariant, BestInvariant, FreshInvariant, PTL DEF Spec, ViableLegIsTaken
=============================================================================
