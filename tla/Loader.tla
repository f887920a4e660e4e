------------------------------- MODULE Loader -------------------------------
(***************************************************************************)
(* Loading pools from the RPC: load_all of crates/aggregator/src/loader.rs *)
(* asks for the accounts of every DEX at the same time, each with two      *)
(* fallbacks, and keeps what it gets.  No failure leaves load_all: a DEX   *)
(* that cannot be read has no pools, a pool whose batch fails is missing.  *)
(*                                                                         *)
(* Of a pool's data the model keeps when it was read, in now.  Balances    *)
(* are left out: one that cannot be read counts as 0 and drops no pool.    *)
(***************************************************************************)
EXTENDS Integers, FiniteSets, FiniteSetsExt, Functions

CONSTANTS
    Pools,
    Dex,              \* Dex[p]: the DEX of pool p
    Tradeable,        \* pools whose account decodes and still trades
    Configured,       \* DEXs with a config account per pool (Meteora DBC)
    Curves,           \* pump.fun bonding curves that PUMPFUN_BC_MINTS names
    MaxPoolsPerDex    \* max_pools_per_dex

ASSUME CurveAssumption == Curves \subseteq Pools

VARIABLES
    now,              \* the time
    loads             \* loads[d]: how far load_dex is, and what it has

Dexes == Range(Dex) \ {"Pumpfun BC"}

PoolsOf(d) == {p \in Pools : Dex[p] = d}

NotLoaded == [phase |-> "filtered", raw |-> {}, at |-> 0, entries |-> <<>>]

Fetched(d, accounts) ==
    loads' = [loads EXCEPT ![d] =
                [@ EXCEPT !.phase = IF accounts = {} THEN "done" ELSE "build",
                          !.raw = accounts, !.at = now]]

GoOn(d, phase) == loads' = [loads EXCEPT ![d].phase = phase]

\* load_dex asks for everything at once; an RPC that excludes the program from
\* its indexes ends the DEX with nothing, any other error the first attempt.
FetchFiltered(d) ==
    /\ loads[d].phase = "filtered"
    /\ Fetched(d, PoolsOf(d)) \/ Fetched(d, {}) \/ GoOn(d, "two phases")

\* two_phase_fetch: the addresses, then the accounts in batches; a batch that
\* fails is skipped.
TwoPhaseFetch(d) ==
    /\ loads[d].phase = "two phases"
    /\ (\E accounts \in SUBSET PoolsOf(d) : Fetched(d, accounts)) \/ GoOn(d, "paginated")

\* fetch_paginated_v2: every page, or an error
FetchPaginatedV2(d) ==
    /\ loads[d].phase = "paginated"
    /\ Fetched(d, PoolsOf(d)) \/ Fetched(d, {})

\* build_entries: the accounts up to the cap, of those the ones that decode
\* and trade, and of a DEX with configs those whose config was read.
BuildEntries(d) ==
    /\ loads[d].phase = "build"
    /\ \E kept \in kSubset(Min({MaxPoolsPerDex, Cardinality(loads[d].raw)}), loads[d].raw) :
         \E read \in (IF d \in Configured THEN SUBSET kept ELSE {kept}) :
           loads' = [loads EXCEPT ![d] =
                       [@ EXCEPT !.phase = "done",
                                 !.entries = [p \in read \cap Tradeable |-> loads[d].at]]]

LoadStep ==
    \E d \in Dexes : FetchFiltered(d) \/ TwoPhaseFetch(d) \/ FetchPaginatedV2(d) \/ BuildEntries(d)

AllLoaded == \A d \in Dexes : loads[d].phase = "done"

\* load_all: the pools of every DEX
Loaded ==
    [p \in {q \in Pools \ Curves : q \in DOMAIN loads[Dex[q]].entries} |-> loads[Dex[p]].entries[p]]

\* load_bonding_curves_for_mints, into an index; a batch that fails adds nothing
WithCurves(index, read) ==
    [p \in DOMAIN index \cup (read \cap Tradeable) |-> IF p \in DOMAIN index THEN index[p] ELSE now]
=============================================================================
