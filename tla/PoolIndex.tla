----------------------------- MODULE PoolIndex -----------------------------
(***************************************************************************)
(* The token graph of crates/aggregator/src/pool_index.rs.                 *)
(*                                                                         *)
(* The index is filled by add_pool at startup and then shared, read only,  *)
(* by every quote; the canonical pools and the hub ranking are built once, *)
(* when the graph is complete.  The lists of edges are kept in one         *)
(* sequence: a mint's list is the part of it that starts at the mint.      *)
(***************************************************************************)
EXTENDS Integers, Sequences, FiniteSets

CONSTANTS
    Pools,       \* pool addresses
    Mints,
    QuoteMint,   \* QuoteMint[p], BaseMint[p]: the two sides of p
    BaseMint,
    Depth,       \* Depth[p]: p's balance of the pair's reference mint as p
                 \* was loaded, NoFinancials if financials() fails
    Curves,      \* the pump.fun bonding curves among the pools
    RankingCap,  \* how many mints the hub ranking retains
    MaxAdds      \* bound: calls of add_pool

NoFinancials == -1

ASSUME IndexAssumption ==
    /\ QuoteMint \in [Pools -> Mints]
    /\ BaseMint \in [Pools -> Mints]
    /\ Depth \in [Pools -> Nat \cup {NoFinancials}]
    /\ Curves \subseteq Pools
    /\ RankingCap \in Nat \ {0}
    /\ MaxAdds \in Nat

VARIABLES
    edges,        \* the edges in the order they were pushed
    canonical,    \* the canonical pools, one of each pair
    hub_ranking   \* mints by number of edges, most first

indexVars == <<edges, canonical, hub_ranking>>

AtMost(n, m) == IF n <= m THEN n ELSE m

Pair(p) == {QuoteMint[p], BaseMint[p]}

OtherMint(p, m) == IF m = QuoteMint[p] THEN BaseMint[p] ELSE QuoteMint[p]

Edge == [mint : Mints, other : Mints, pool : Pools]

\* The keys of the map of pools
Indexed == {edges[k].pool : k \in DOMAIN edges}

Other(k) == edges[k].other

\* neighbors(m), as positions in edges
EdgesOf(m) == {k \in DOMAIN edges : edges[k].mint = m}

\* direct_pools(a, b), as positions in edges
Between(a, b) == {k \in DOMAIN edges : edges[k].mint = a /\ edges[k].other = b}

Linked(a, b) == Between(a, b) # {}

AllMints == {edges[k].mint : k \in DOMAIN edges}

Degree(m) == Cardinality(EdgesOf(m))

\* The pools build_canonical ranks.
Rankable ==
    {p \in Indexed : QuoteMint[p] # BaseMint[p] /\ Depth[p] # NoFinancials}

\* What build_canonical may return: of each pair the deepest pool, and on a
\* tie the one that comes first out of the hash map, any of them.
CanonicalSets ==
    {C \in SUBSET Rankable :
        /\ \A p \in Rankable : \E c \in C : Pair(c) = Pair(p) /\ Depth[p] <= Depth[c]
        /\ \A c, d \in C : Pair(c) = Pair(d) => c = d}

\* What build_hub_ranking may return: ties come in any order.
HubRankings ==
    {r \in [1 .. AtMost(RankingCap, Cardinality(AllMints)) -> AllMints] :
        /\ \A i, j \in DOMAIN r : i < j => r[i] # r[j] /\ Degree(r[i]) >= Degree(r[j])
        /\ \A i \in DOMAIN r : \A m \in AllMints \ {r[j] : j \in DOMAIN r} :
               Degree(m) <= Degree(r[i])}

TopHubs(k) == {hub_ranking[i] : i \in 1 .. AtMost(k, Len(hub_ranking))}

\* canonical_pool(a, b): none or one.
CanonicalPool(a, b) == {c \in canonical : Pair(c) = {a, b}}

-----------------------------------------------------------------------------
IndexInit ==
    /\ edges = <<>>
    /\ canonical = {}
    /\ hub_ranking = <<>>

Warmed == hub_ranking # <<>>

\* A curve may come again: engine.rs seeds its watchlist into an index whose
\* cache may hold the curve already, and the edges are pushed once more.
AddPool(p) ==
    /\ ~Warmed
    /\ p \in Indexed => p \in Curves
    /\ Len(edges) < 2 * MaxAdds
    /\ edges' = edges \o
           <<[mint |-> QuoteMint[p], other |-> BaseMint[p], pool |-> p],
             [mint |-> BaseMint[p], other |-> QuoteMint[p], pool |-> p]>>
    /\ UNCHANGED <<canonical, hub_ranking>>

\* warm_canonical and warm_hubs.  From here on the index is shared and
\* add_pool, which needs it mutable, cannot be called.
Warm ==
    /\ ~Warmed
    /\ edges # <<>>
    /\ canonical' \in CanonicalSets
    /\ hub_ranking' \in HubRankings
    /\ UNCHANGED edges

IndexNext == Warm \/ \E p \in Pools : AddPool(p)

IndexSpec == IndexInit /\ [][IndexNext]_indexVars

IndexTypeOK ==
    /\ edges \in Seq(Edge)
    /\ canonical \subseteq Pools
    /\ hub_ranking \in Seq(Mints)
=============================================================================
