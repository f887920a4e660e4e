------------------------------- MODULE Router -------------------------------
(***************************************************************************)
(* One quote request: handle_quote in crates/engine/src/api.rs and         *)
(* find_routes in crates/aggregator/src/router.rs.                         *)
(*                                                                         *)
(* The request clones the swappable set under the registry's read guard,   *)
(* lets the guard go, and searches without any lock while the stream and   *)
(* the pollers write the account store and the registry publishes new      *)
(* sets.  Every simulated hop reads the store again, so a step of the      *)
(* model is one simulate_hop.  That hop's own reads (pool account, quote   *)
(* vault, base vault) are one step: the store gets the three accounts one  *)
(* at a time, so every mix of old and new is a state of the store anyway.  *)
(*                                                                         *)
(* A planned path is walked twice: first a pool is picked for each leg,    *)
(* threading the amounts (canonical_leg, best_pool), and then the picked   *)
(* pools are simulated again from the start (simulate_path).  The          *)
(* multiplications saturate in the code; a saturated bound is above every  *)
(* u64 output as the exact one would be.                                   *)
(***************************************************************************)
EXTENDS RoutePlan

CONSTANTS
    Graphs,         \* the complete indices a process may have loaded
    Output(_, _, _, _),  \* Output(p, from, amount, account): what p's market
                         \* computes (calculate_output_live_ex), 0 for an error
    Accounts,       \* what the store may hold of a pool
    Stores,         \* bound: the stores a request may start from
    FlagSets,       \* bound: the published sets it may start from
    HopLimits,      \* values of max_hops
    MaxAmount,      \* the largest amount, u64::MAX
    Amounts,        \* input amounts asked for
    MaxRoutes,      \* max_routes
    MaxGain,        \* MAX_EXTRA_HOP_GAIN
    ReserveDivisor, \* MAX_OUTPUT_RESERVE_DIVISOR
    MaxRate,        \* an output may be at most this multiple of the input
    Moving,         \* bound: the pools whose accounts and flags change
    MaxMoves        \* bound: changes of accounts during the search

Amount == 0 .. MaxAmount

ASSUME RouterAssumption ==
    /\ MaxAmount \in Nat
    /\ \A g \in Graphs : g \in Seq(Edge) /\ \A k \in DOMAIN g :
           {g[k].mint, g[k].other} = Pair(g[k].pool)
    /\ \A p \in Pools : \A m \in Mints : \A n \in Amount : \A acc \in Accounts :
           Output(p, m, n, acc) \in Amount
    /\ Accounts \subseteq [data : BOOLEAN, quote : Amount, base : Amount]
    /\ Stores \subseteq [Pools -> Accounts]
    /\ FlagSets \subseteq SUBSET Pools
    /\ HopLimits \subseteq 0 .. 4
    /\ Amounts \subseteq Amount
    /\ MaxRoutes \in Nat \ {0} /\ MaxGain \in Nat \ {0}
    /\ ReserveDivisor \in Nat /\ MaxRate \in Nat
    /\ Moving \subseteq Pools /\ MaxMoves \in Nat

VARIABLES
    live,        \* live[p]: is p's account in the store, its vault balances
    published,   \* the registry's cached swappable set
    moves,       \* how often live has changed since the request
    request,     \* mints, amount and swappable set of the request
    stage,       \* what the search does next
    todo,        \* planned paths not walked yet
    path,        \* the path being walked
    picks,       \* the pools picked for its legs so far
    amount,      \* the amount that enters the next leg
    scan,        \* edges best_pool has not looked at
    best,        \* the best pool it has found, and its output
    hops,        \* simulate_path's result_hops
    candidates,  \* the routes found
    routes       \* the routes answered; the vector is sorted by output

storeVars == <<live, published, moves>>
walkVars == <<path, picks, amount, scan, best, hops>>
vars == <<indexVars, storeVars, request, stage, todo, walkVars, candidates, routes>>

None == <<>>
NoPick == [pool |-> None, out |-> 0]
NoPath == Planned("none", <<>>, <<>>)

Hops(r) == Len(r.hops)
Out(r) == r.hops[Hops(r)].out
-----------------------------------------------------------------------------
\* simulate_hop.

OutputReserve(p, from) ==
    IF from = QuoteMint[p] THEN live[p].base ELSE live[p].quote

OutputOf(p, from, n) == Output(p, from, n, live[p])

\* Mutant of Usable: the set of the moment, not the one the request cloned.
UsableNow(p) == p \in published

\* The swappable filter
Usable(p) == p \in request.snap

\* The hop is not dropped.  A reserve of 0 is unknown, not empty.
Simulates(p, from, n) ==
    LET out == OutputOf(p, from, n)
        reserve == OutputReserve(p, from)
    IN  /\ Usable(p)
        /\ p \in Indexed
        /\ from \in Pair(p)
        /\ out > 0
        /\ out <= n * MaxRate
        /\ reserve # 0 => out * ReserveDivisor <= reserve

Hop(p, from, n) ==
    [pool |-> p, from |-> from, to |-> OtherMint(p, from),
     in |-> n, out |-> OutputOf(p, from, n)]
-----------------------------------------------------------------------------
\* The ends of the leg a pool is wanted for.
From == path.mints[Len(picks) + 1]
To == path.mints[Len(picks) + 2]

LastLeg == Len(picks) + 2 = Len(path.mints)

Init ==
    /\ edges \in Graphs
    /\ canonical \in CanonicalSets
    /\ hub_ranking \in HubRankings
    /\ live \in Stores
    /\ published \in FlagSets
    /\ moves = 0
    /\ request = [in |-> None, out |-> None, amount |-> 0, snap |-> {}]
    /\ stage = "idle"
    /\ todo = {}
    /\ path = NoPath /\ picks = <<>> /\ amount = 0 /\ scan = {} /\ best = NoPick
    /\ hops = <<>>
    /\ candidates = {}
    /\ routes = {}

\* handle_quote: max_hops is at most 4.
Begin(in, out, n, max_hops) ==
    /\ stage = "idle"
    /\ request' = [in |-> in, out |-> out, amount |-> n, snap |-> published]
    /\ IF in = out \/ n = 0
       THEN stage' = "done" /\ UNCHANGED todo
       ELSE stage' = "next" /\ todo' = Plan(in, out, max_hops)
    /\ UNCHANGED <<indexVars, storeVars, walkVars, candidates, routes>>

\* The next path.  Fewer hops come first; the order of the arms of as many
\* hops, and of the paths of an arm, is left open.  A direct path has its
\* pool already.
NextPath ==
    /\ stage = "next"
    /\ \E p \in todo :
           /\ \A q \in todo : Len(p.mints) <= Len(q.mints)
           /\ path' = p
           /\ todo' = todo \ {p}
           /\ picks' = IF p.arm = "direct" THEN <<edges[p.at[1]].pool>> ELSE <<>>
           /\ stage' = IF p.arm = "direct" THEN "replay" ELSE "leg"
    /\ amount' = request.amount
    /\ hops' = <<>>
    /\ UNCHANGED <<indexVars, storeVars, request, scan, best, candidates, routes>>

\* A pool is picked for the leg.  After the last leg the path is simulated
\* again, from the input amount.
Pick(p, out) ==
    /\ picks' = Append(picks, p)
    /\ amount' = IF LastLeg THEN request.amount ELSE out
    /\ stage' = IF LastLeg THEN "replay" ELSE "leg"
    /\ UNCHANGED <<indexVars, storeVars, request, todo, path, hops, candidates, routes>>

\* canonical_leg: the canonical pool is swappable and quotes an output.
TakeCanonical(p) ==
    /\ stage = "leg"
    /\ ~LastLeg
    /\ p \in CanonicalPool(From, To)
    /\ Simulates(p, From, amount)
    /\ Pick(p, OutputOf(p, From, amount))
    /\ UNCHANGED <<scan, best>>

\* Mutant of ScanLeg: a leg with a canonical pool has no fallback.
ScanWithoutFallback ==
    /\ stage = "leg"
    /\ LastLeg \/ ~\E p \in CanonicalPool(From, To) : Simulates(p, From, amount)
    /\ scan' = IF LastLeg \/ CanonicalPool(From, To) = {} THEN Between(From, To) ELSE {}
    /\ best' = NoPick
    /\ stage' = "scan"
    /\ UNCHANGED <<indexVars, storeVars, request, todo, path, picks, amount, hops,
                   candidates, routes>>

\* best_pool begins, for the last leg or because the canonical pool is none
\* or does not serve.
ScanLeg ==
    /\ stage = "leg"
    /\ LastLeg \/ ~\E p \in CanonicalPool(From, To) : Simulates(p, From, amount)
    /\ scan' = Between(From, To)
    /\ best' = NoPick
    /\ stage' = "scan"
    /\ UNCHANGED <<indexVars, storeVars, request, todo, path, picks, amount, hops,
                   candidates, routes>>

\* Mutant of ScanPool: the first pool that serves is kept.
ScanFirst ==
    /\ stage = "scan"
    /\ \E k \in scan :
           /\ \A j \in scan : k <= j
           /\ scan' = scan \ {k}
           /\ LET p == edges[k].pool
              IN  best' = IF Simulates(p, From, amount) /\ best = NoPick
                          THEN [pool |-> p, out |-> OutputOf(p, From, amount)] ELSE best
    /\ UNCHANGED <<indexVars, storeVars, request, stage, todo, path, picks, amount,
                   hops, candidates, routes>>

\* best_pool looks at the next edge; of equal outputs the last one wins.
ScanPool ==
    /\ stage = "scan"
    /\ \E k \in scan :
           /\ \A j \in scan : k <= j
           /\ scan' = scan \ {k}
           /\ LET p == edges[k].pool
                  out == OutputOf(p, From, amount)
              IN  best' = IF Simulates(p, From, amount) /\ out >= best.out
                          THEN [pool |-> p, out |-> out] ELSE best
    /\ UNCHANGED <<indexVars, storeVars, request, stage, todo, path, picks, amount,
                   hops, candidates, routes>>

\* Mutant of ScanDone: nobody asks whether a pool was found.
ScanDoneUnchecked ==
    /\ stage = "scan"
    /\ scan = {}
    /\ Pick(best.pool, best.out)
    /\ UNCHANGED <<scan, best>>

ScanDone ==
    /\ stage = "scan"
    /\ scan = {}
    /\ best # NoPick
    /\ Pick(best.pool, best.out)
    /\ UNCHANGED <<scan, best>>

\* No pool for the leg: the path is given up.
NoPool ==
    /\ stage = "scan"
    /\ scan = {}
    /\ best = NoPick
    /\ stage' = "next"
    /\ UNCHANGED <<indexVars, storeVars, request, todo, walkVars, candidates, routes>>

\* simulate_path, hop by hop.  The store may have moved since the pool was
\* picked; if the hop does not serve any more the path is given up.  (The
\* check for a repeated mint never fires: planned paths are simple.)
Replay ==
    /\ stage = "replay"
    /\ Len(hops) < Len(picks)
    /\ LET p == picks[Len(hops) + 1]
           from == path.mints[Len(hops) + 1]
       IN  IF Simulates(p, from, amount)
           THEN /\ hops' = Append(hops, Hop(p, from, amount))
                /\ amount' = OutputOf(p, from, amount)
                /\ UNCHANGED stage
           ELSE stage' = "next" /\ UNCHANGED <<hops, amount>>
    /\ UNCHANGED <<indexVars, storeVars, request, todo, path, picks, scan, best,
                   candidates, routes>>

Found ==
    /\ stage = "replay"
    /\ Len(hops) = Len(picks)
    /\ candidates' = candidates \cup {[path |-> path, hops |-> hops]}
    /\ stage' = "next"
    /\ UNCHANGED <<indexVars, storeVars, request, todo, walkVars, routes>>
-----------------------------------------------------------------------------
\* Mutant of Keep: a rejected route may speak for a longer one.
KeepCascading(n, shorter) ==
    shorter \cup
        {r \in candidates :
            /\ Hops(r) = n
            /\ (\E s \in candidates : Hops(s) < n) =>
                   \E s \in candidates : Hops(s) < n /\ Out(r) <= MaxGain * Out(s)}

\* The filter, at the routes of n hops: shorter are those it has kept.
Keep(n, shorter) ==
    shorter \cup
        {r \in candidates :
            /\ Hops(r) = n
            /\ shorter # {} => \E s \in shorter : Out(r) <= MaxGain * Out(s)}

Kept == Keep(4, Keep(3, Keep(2, Keep(1, {}))))

\* Mutant of Best: truncated before the sort.
AnyOf(K) == {R \in SUBSET K : Cardinality(R) = AtMost(MaxRoutes, Cardinality(K))}

\* What sort and truncate may leave of K; the sort is not stable.
Best(K) ==
    {R \in SUBSET K :
        /\ Cardinality(R) = AtMost(MaxRoutes, Cardinality(K))
        /\ \A r \in R : \A s \in K \ R : Out(s) <= Out(r)}

Finish ==
    /\ stage = "next"
    /\ todo = {}
    /\ routes' \in Best(Kept)
    /\ stage' = "done"
    /\ UNCHANGED <<indexVars, storeVars, request, todo, walkVars, candidates>>
-----------------------------------------------------------------------------
\* A streamed or polled account of p is stored: one account at a time.
StoreWrite(p, acc) ==
    /\ moves < MaxMoves
    /\ stage \notin {"idle", "done"}
    /\ acc # live[p]
    /\ \/ acc.quote = live[p].quote /\ acc.base = live[p].base /\ acc.data
       \/ acc.data = live[p].data /\ (acc.quote = live[p].quote \/ acc.base = live[p].base)
    /\ live' = [live EXCEPT ![p] = acc]
    /\ moves' = moves + 1
    /\ UNCHANGED <<indexVars, published, request, stage, todo, walkVars, candidates, routes>>

\* The registry re-validates p and publishes a new set.
Publish(p) ==
    /\ stage \notin {"idle", "done"}
    /\ published' = IF p \in published THEN published \ {p} ELSE published \cup {p}
    /\ UNCHANGED <<indexVars, live, moves, request, stage, todo, walkVars, candidates, routes>>

Search ==
    \/ NextPath \/ ScanLeg \/ ScanPool \/ ScanDone \/ NoPool \/ Replay \/ Found \/ Finish
    \/ \E p \in canonical : TakeCanonical(p)

Next ==
    \/ \E t \in Trades : \E n \in Amounts : \E max_hops \in HopLimits :
           Begin(t[1], t[2], n, max_hops)
    \/ Search
    \/ \E p \in Moving : Publish(p) \/ \E acc \in Accounts : StoreWrite(p, acc)

Spec == Init /\ [][Next]_vars
-----------------------------------------------------------------------------
RouteHop == [pool : Pools, from : Mints, to : Mints, in : Amount, out : Amount]

Arms == {"none", "direct", "hub", "forward", "reverse", "hubs", "meet"}

PlannedPath == [arm : Arms, at : Seq(Nat), mints : Seq(Mints)]

TypeOK ==
    /\ IndexTypeOK
    /\ live \in [Pools -> Accounts]
    /\ published \subseteq Pools
    /\ moves \in Nat
    /\ stage \in {"idle", "next", "leg", "scan", "replay", "done"}
    /\ stage # "idle" => request \in [in : Mints, out : Mints, amount : Amount, snap : SUBSET Pools]
    /\ todo \subseteq PlannedPath
    /\ path \in PlannedPath
    /\ picks \in Seq(Pools)
    /\ amount \in Amount
    /\ scan \subseteq DOMAIN edges
    /\ best = NoPick \/ best \in [pool : Pools, out : Amount]
    /\ hops \in Seq(RouteHop)
    /\ \A r \in candidates \cup routes :
           r.path \in PlannedPath /\ r.hops \in Seq(RouteHop)

\* The hops follow the path's mints, one pool each, and thread the amounts.
Walkable(h, mints) ==
    \A i \in DOMAIN h :
        /\ h[i].pool \in request.snap
        /\ Pair(h[i].pool) = {mints[i], mints[i + 1]}
        /\ h[i].from = mints[i] /\ h[i].to = mints[i + 1]
        /\ h[i].in = IF i = 1 THEN request.amount ELSE h[i - 1].out
        /\ h[i].out > 0

\* A simple path between the ends of the request.
Joins(mints) ==
    /\ mints[1] = request.in /\ mints[Len(mints)] = request.out
    /\ \A i, j \in DOMAIN mints : mints[i] = mints[j] => i = j

(***************************************************************************)
(* Every route found or answered is a simple path from the input to the    *)
(* output mint, over pools of the set the request cloned, and the amount   *)
(* that leaves a hop is the one that enters the next (router.rs:669-701),  *)
(* whatever is stored and published during the search.                     *)
(***************************************************************************)
RoutesAreWalkable ==
    \A r \in candidates \cup routes :
        /\ Hops(r) + 1 = Len(r.path.mints)
        /\ Joins(r.path.mints)
        /\ Walkable(r.hops, r.path.mints)

\* What a route may gain by 0, 1, 2 or 3 hops more.
Gain == <<1, MaxGain, MaxGain * MaxGain, MaxGain * MaxGain * MaxGain>>

Shortest(R) == {r \in R : \A s \in R : Hops(r) <= Hops(s)}

(***************************************************************************)
(* A mispriced leg cannot cascade (router.rs:42-49): an answered route     *)
(* beats some route of the fewest hops found by at most MaxGain for every  *)
(* hop it has more.                                                        *)
(***************************************************************************)
GainIsBounded ==
    \A r \in routes : \E s \in Shortest(candidates) :
        Out(r) <= Out(s) * Gain[Hops(r) - Hops(s) + 1]

(***************************************************************************)
(* The answer is at least as good as every shortest route found, and is    *)
(* empty only if none was found (router.rs:158-180).                       *)
(***************************************************************************)
ShortestIsMatched ==
    stage = "done" => \A s \in Shortest(candidates) : \E r \in routes : Out(r) >= Out(s)

Quiet == moves = 0

(***************************************************************************)
(* "drifting swappability never drops an otherwise-viable leg"             *)
(* (router.rs:251-253).  While the store is still, a path is given up only *)
(* for a leg none of whose pools serves the amount that reaches it.        *)
(***************************************************************************)
ViableLegIsTaken ==
    [][Quiet /\ stage # "next" /\ stage' = "next" /\ candidates' = candidates
       => \/ stage = "idle"
          \/ stage = "replay" /\ path.arm = "direct"
          \/ stage = "scan" /\ \A k \in Between(From, To) :
                 ~Simulates(edges[k].pool, From, amount)]_vars

(***************************************************************************)
(* While the store is still, the last hop of a route is the best of its    *)
(* pair for the amount that reaches it (router.rs:226-228, 703).           *)
(***************************************************************************)
LastHopIsBest ==
    Quiet => \A r \in candidates :
        Hops(r) > 1 =>
            LET last == r.hops[Hops(r)]
            IN  \A k \in Between(last.from, last.to) :
                    Simulates(edges[k].pool, last.from, last.in)
                        => OutputOf(edges[k].pool, last.from, last.in) <= last.out
-----------------------------------------------------------------------------
\* The inductive invariant.

\* Every edge joins the mints of its pool.
GraphOK == \A k \in DOMAIN edges : {edges[k].mint, edges[k].other} = Pair(edges[k].pool)

\* A planned path is simple, has 1 to 4 hops, and joins the request's mints;
\* a direct one names an edge between them.
PathOK(p) ==
    /\ Len(p.mints) \in 2 .. 5
    /\ Joins(p.mints)
    /\ IF p.arm = "direct"
       THEN /\ Len(p.mints) = 2
            /\ Len(p.at) = 1
            /\ p.at[1] \in Between(request.in, request.out)
       ELSE Len(p.mints) > 2

Walking == stage \in {"leg", "scan", "replay"}

PathsOK ==
    /\ \A p \in todo : PathOK(p)
    /\ Walking => PathOK(path)

\* Each pick is a pool of its leg, and all legs have one before the replay.
PicksOK ==
    Walking =>
        /\ \A i \in DOMAIN picks : Pair(picks[i]) = {path.mints[i], path.mints[i + 1]}
        /\ IF stage = "replay" THEN Len(picks) + 1 = Len(path.mints)
           ELSE Len(picks) + 1 < Len(path.mints)

ScanOK ==
    stage = "scan" =>
        /\ scan \subseteq Between(From, To)
        /\ best # NoPick => best.pool \in Pools /\ Pair(best.pool) = {From, To}

\* The replay begins at the request's amount and threads the outputs.
HopsOK ==
    /\ stage \in {"leg", "scan"} => hops = <<>>
    /\ stage = "replay" =>
           /\ Len(hops) <= Len(picks)
           /\ Walkable(hops, path.mints)
           /\ amount = IF hops = <<>> THEN request.amount ELSE hops[Len(hops)].out

IInv ==
    /\ TypeOK
    /\ GraphOK
    /\ stage = "idle" => todo = {} /\ candidates = {}
    /\ stage # "done" => routes = {}
    /\ PathsOK
    /\ PicksOK
    /\ ScanOK
    /\ HopsOK
    /\ RoutesAreWalkable
    /\ \A r \in candidates : PathOK(r.path)
    /\ routes \subseteq candidates
    /\ IsFiniteSet(candidates)

=============================================================================
