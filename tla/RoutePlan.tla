----------------------------- MODULE RoutePlan -----------------------------
(***************************************************************************)
(* The paths find_routes walks (crates/aggregator/src/router.rs:96-149).   *)
(*                                                                         *)
(* Which sequences of mints are tried depends on the index alone: every    *)
(* bound on the search counts edges, and none looks at a balance.  So the  *)
(* plan of a request is a set, fixed before the first pool is simulated.   *)
(* A planned path is an arm of the search, the edges it came from, and     *)
(* its mints; two arms, or two edges, may give the same mints.             *)
(***************************************************************************)
EXTENDS PoolIndex

CONSTANTS
    SeedHubs,       \* SEED_HUBS
    HubCount,       \* HUB_COUNT
    CoreHubCount,   \* CORE_HUB_COUNT
    MaxNeighbors,   \* MAX_NEIGHBOR_CANDIDATES
    Trades          \* the pairs <<in, out>> quotes are asked for

ASSUME PlanAssumption ==
    /\ IsFiniteSet(SeedHubs) /\ SeedHubs \subseteq Mints
    /\ HubCount \in Nat /\ CoreHubCount \in Nat /\ MaxNeighbors \in Nat
    /\ CoreHubCount <= HubCount /\ HubCount <= RankingCap
    /\ Trades \subseteq Mints \X Mints

\* hub_set
HubSet(k, in, out) == (SeedHubs \cup TopHubs(k)) \ {in, out}

Hubs(in, out) == HubSet(HubCount, in, out)
CoreHubs(in, out) == HubSet(CoreHubCount, in, out)

Planned(arm, at, mints) == [arm |-> arm, at |-> at, mints |-> mints]

\* The first n of a set of edges.
First(n, E) == {k \in E : Cardinality({j \in E : j < k}) < n}

\* The edges of m that lead to a mint in the middle, no hub.
Mids(m, in, out, hubs) == {k \in EdgesOf(m) : Other(k) \notin hubs \cup {in, out}}

\* Of edges to the same mint the first: seen_mids.
Distinct(E) == {k \in E : \A j \in E : j < k => Other(j) # Other(k)}

\* find_direct
Direct(in, out) == {Planned("direct", <<k>>, <<in, out>>) : k \in Between(in, out)}

\* try_2hop through every hub
ViaHub(in, out) ==
    {Planned("hub", <<>>, <<in, h, out>>) :
        h \in {g \in Hubs(in, out) : Linked(g, out)}}

\* neighbor_2hop_forward
Forward2(in, out) ==
    {Planned("forward", <<k>>, <<in, Other(k), out>>) :
        k \in {j \in First(MaxNeighbors, Distinct(Mids(in, in, out, Hubs(in, out)))) :
                  Linked(Other(j), out)}}

\* neighbor_2hop_reverse
Reverse2(in, out) ==
    {Planned("reverse", <<k>>, <<in, Other(k), out>>) :
        k \in {j \in First(MaxNeighbors, Mids(out, in, out, Hubs(in, out))) :
                  Linked(in, Other(j))}}

\* try_3hop through two hubs, in both orders
ViaHubs(in, out) ==
    {Planned("hubs", <<>>, <<in, pair[1], pair[2], out>>) :
        pair \in {q \in CoreHubs(in, out) \X CoreHubs(in, out) :
                     q[1] # q[2] /\ Linked(q[2], out)}}

\* Mutant of TargetHubs: the hubs that reach the input are kept.
HubsOfInput(in, out) == {h \in CoreHubs(in, out) : Linked(in, h)}

\* target_hubs
TargetHubs(in, out) == {h \in CoreHubs(in, out) : Linked(h, out)}

\* The forward arm of neighbor_3hop, with its prune
Forward3(in, out) ==
    LET targets == TargetHubs(in, out)
        mids == {k \in First(MaxNeighbors \div 2, Mids(in, in, out, CoreHubs(in, out))) :
                    \E h \in targets : Linked(Other(k), h)}
    IN  {Planned("forward", <<kh[1]>>, <<in, Other(kh[1]), kh[2], out>>) :
            kh \in mids \X targets}

\* neighbor_3hop_reverse
Reverse3(in, out) ==
    {Planned("reverse", <<kh[1]>>, <<in, kh[2], Other(kh[1]), out>>) :
        kh \in First(MaxNeighbors \div 2, Mids(out, in, out, CoreHubs(in, out)))
               \X CoreHubs(in, out)}

\* Mutant of Near: the bound on the neighbours is lost.
NearUnbounded(m, in, out) == Mids(m, in, out, CoreHubs(in, out))

\* in_neighbors (m = in) and out_neighbors (m = out), as collected
Near(m, in, out) == First(MaxNeighbors \div 4, Mids(m, in, out, CoreHubs(in, out)))

\* reaching_hubs
ReachingHubs(in, out) ==
    LET outs == Near(out, in, out)
    IN  {h \in CoreHubs(in, out) : \E k \in outs : Linked(h, Other(k))}

\* neighbor_4hop.  The prune of in_neighbors adds nothing to the test that
\* the neighbour is linked to this very hub.
MeetAtHub(in, out) ==
    {Planned("meet", <<ikh[1], ikh[2]>>,
             <<in, Other(ikh[1]), ikh[3], Other(ikh[2]), out>>) :
        ikh \in {t \in Near(in, in, out) \X Near(out, in, out) \X ReachingHubs(in, out) :
                    /\ Other(t[1]) # Other(t[2])
                    /\ Linked(Other(t[1]), t[3])
                    /\ Linked(t[3], Other(t[2]))}}

\* The paths of n hops
Level(in, out, n) ==
    CASE n = 1 -> Direct(in, out)
      [] n = 2 -> ViaHub(in, out) \cup Forward2(in, out) \cup Reverse2(in, out)
      [] n = 3 -> ViaHubs(in, out) \cup Forward3(in, out) \cup Reverse3(in, out)
      [] n = 4 -> MeetAtHub(in, out)

Plan(in, out, max_hops) == UNION {Level(in, out, n) : n \in 1 .. AtMost(max_hops, 4)}

-----------------------------------------------------------------------------
\* The simple paths of n hops, from the definition of a path.
SimplePaths(in, out, n) ==
    LET mids == AllMints \ {in, out}
        paths == CASE n = 1 -> {<<in, out>>}
                   [] n = 2 -> {<<in, a, out>> : a \in mids}
                   [] n = 3 -> {<<in, t[1], t[2], out>> : t \in mids \X mids}
                   [] n = 4 -> {<<in, t[1], t[2], t[3], out>> : t \in mids \X mids \X mids}
    IN  {s \in paths : \A i \in 1 .. n :
            Linked(s[i], s[i + 1]) /\ \A j \in 1 .. i : s[j] # s[i + 1]}

\* Whether the search sets out to find the simple path s: the mints it may
\* pass through, and the budgets that let it look at every edge.
InScope(s, in, out) ==
    LET core == CoreHubs(in, out)
        near(m, n) == Cardinality(EdgesOf(m)) <= MaxNeighbors \div n
    IN  \/ Len(s) = 2
        \/ Len(s) = 3 /\ (s[2] \in Hubs(in, out) \/ near(in, 1) \/ near(out, 1))
        \/ Len(s) = 4 /\ \/ {s[2], s[3]} \subseteq core
                         \/ s[3] \in core /\ near(in, 2)
                         \/ s[2] \in core /\ near(out, 2)
        \/ Len(s) = 5 /\ s[3] \in core /\ {s[2], s[4]} \cap core = {}
                      /\ near(in, 4) /\ near(out, 4)

(***************************************************************************)
(* The prunes of the search lose nothing (router.rs:402-432, 497-520):     *)
(* while no budget is exhausted, every simple path with a pool on each hop *)
(* that passes through hubs the way the search is laid out is planned.     *)
(***************************************************************************)
PlanIsComplete ==
    Warmed => \A t \in Trades : \A n \in 1 .. 4 :
        LET planned == {p.mints : p \in Level(t[1], t[2], n)}
        IN  {s \in SimplePaths(t[1], t[2], n) : InScope(s, t[1], t[2])} \subseteq planned

(***************************************************************************)
(* The search of more than one hop is bounded by its constants alone,      *)
(* however many pools a mint has (router.rs:24-28, "bounds search space"). *)
(* Only the direct pools, one simulation each, grow with the index.        *)
(***************************************************************************)
PlanIsBounded ==
    Warmed => \A t \in Trades :
        LET hubs == Cardinality(Hubs(t[1], t[2]))
            core == Cardinality(CoreHubs(t[1], t[2]))
            size(n) == Cardinality(Level(t[1], t[2], n))
        IN  /\ hubs <= Cardinality(SeedHubs) + HubCount
            /\ core <= Cardinality(SeedHubs) + CoreHubCount
            /\ size(2) <= hubs + 2 * MaxNeighbors
            /\ size(3) <= core * (core - 1) + 2 * (MaxNeighbors \div 2) * core
            /\ size(4) <= core * (MaxNeighbors \div 4) * (MaxNeighbors \div 4)
=============================================================================
