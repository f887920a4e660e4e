----------------------------- MODULE ColdStart -----------------------------
(***************************************************************************)
(* What the engine fetches into the account store after it has started     *)
(* serving: the phases of the cold start (crates/engine/src/cold_start.rs  *)
(* in the order of bin/engine.rs), and the keys that the hot-vault refresh *)
(* polls, which it takes once, at a time of its own.  What is fetched in a *)
(* phase depends on what earlier ones have stored.                         *)
(*                                                                         *)
(* A pool has one account of each kind; accounts of a pool of another kind *)
(* are alike.  Keys fetched together are one batch.                        *)
(***************************************************************************)
EXTENDS Loader, Sequences

CONSTANTS
    Extended,     \* Meteora DLMM pools that have a bitmap extension on chain
    Wealth,       \* Wealth[p]: the vault balances of a Raydium CLMM pool
    TopClmm,      \* bound: the 10_000 pools whose tick arrays are fetched
    TopPolled,    \* bound: the 20_000 pools that the refresh polls
    MaxLost       \* bound: batches that fail in one start

VARIABLES
    stored,       \* keys in the account store
    lost,         \* keys whose batch failed
    failures,     \* how many batches did
    phase,        \* the phase the cold start is in
    polled,       \* the keys of refresh_hot_vaults_loop
    asking        \* how far the loop is: "reads", "mints", "polls"

cold_vars == <<stored, lost, failures, phase, polled, asking>>

Key(kind, p) == [kind |-> kind, pool |-> p]
Keys(kind, pools) == {Key(kind, p) : p \in pools}

\* Mutant of Phases: the mints are read off vault states not fetched yet.
PhasesMintsFirst ==
    <<"vault", "extension", "ticks", "bins", "lp", "mint", "state", "arrays", "config">>

\* cold_start: the order of the phases, fetch_damm_v1_aux with three of them
Phases ==
    <<"vault", "extension", "ticks", "bins", "lp", "state", "mint", "arrays", "config">>

ColdInit ==
    /\ stored = {} /\ lost = {} /\ failures = 0 /\ phase = 1
    /\ polled = {} /\ asking = "reads"

OfDex(index, d) == DOMAIN index \cap PoolsOf(d)

\* fetch_tick_arrays: the richest pools by the balances in the store
Balance(p) == IF Key("vault", p) \in stored THEN Wealth[p] ELSE 0

IsRichest(top, pools) ==
    /\ Cardinality(top) = Min({TopClmm, Cardinality(pools)})
    /\ \A p \in top : \A q \in pools \ top : Balance(p) >= Balance(q)

RichestClmm(index) ==
    LET pools == OfDex(index, "Raydium CLMM")
    IN  {top \in SUBSET pools : IsRichest(top, pools)}

\* fetch_bitmap_extensions assigns what its one request returned.
BitmapExt(p) == Key("extension", p) \in stored

\* fetch_all_vaults: a Pumpfun AMM pool is quoted without its vaults.
VaultPools(index) == {p \in DOMAIN index : Dex[p] # "Pumpfun AMM"}

\* fetch_dlmm_active_bins skips the pools whose bitmap goes on elsewhere.
ActiveBinPools(index) == {p \in OfDex(index, "Meteora DLMM") : ~BitmapExt(p)}

\* fetch_damm_v1_aux reads the LP mints off the vault states in the store.
VaultStatePools(index) ==
    {p \in OfDex(index, "Meteora DAMM V1") : Key("state", p) \in stored}

\* fetch_whirlpool_tick_arrays
WhirlpoolPools(index) == OfDex(index, "Orca Whirlpool")

\* fetch_clmm_amm_configs asks for every config there is: those of all pools.
ConfigPools(index) == OfDex(index, "Raydium CLMM")

\* The pools whose accounts of the phase's kind are asked for.
Asked(index) ==
    LET kind == Phases[phase]
    IN  CASE kind = "vault" -> {VaultPools(index)}
          [] kind = "extension" -> {Extended}
          [] kind = "ticks" -> RichestClmm(index)
          [] kind = "bins" -> {ActiveBinPools(index)}
          [] kind \in {"lp", "state"} -> {OfDex(index, "Meteora DAMM V1")}
          [] kind = "mint" -> {VaultStatePools(index)}
          [] kind = "arrays" -> {WhirlpoolPools(index)}
          [] kind = "config" -> {ConfigPools(index)}

ColdDone == phase > Len(Phases)

\* One phase, answered or not
FetchPhase(index) ==
    /\ ~ColdDone
    /\ \E pools \in Asked(index) :
         LET keys == Keys(Phases[phase], pools)
         IN  \/ stored' = stored \cup keys /\ UNCHANGED <<lost, failures>>
             \/ /\ failures < MaxLost /\ keys # {}
                /\ lost' = lost \cup keys /\ failures' = failures + 1 /\ UNCHANGED stored
    /\ phase' = phase + 1
    /\ UNCHANGED <<polled, asking>>

\* refresh_hot_vaults_loop reads its keys off the registry: never in the phases
\* after the first, which hold the write lock.  It takes the pools of the
\* largest quote balances; those are not modelled, so it may be any.
TakeKeys(index) ==
    LET v1 == OfDex(index, "Meteora DAMM V1")
    IN  /\ asking = "reads" /\ (phase = 1 \/ ColdDone)
        /\ \E ranked \in SUBSET (v1 \cup OfDex(index, "Raydium AMM V4")) :
             /\ Cardinality(ranked) <= TopPolled
             /\ polled' = Keys("vault", ranked) \cup Keys("state", ranked \cap v1)
                          \cup Keys("lp", ranked \cap v1)
        /\ asking' = "mints"
        /\ UNCHANGED <<stored, lost, failures, phase>>

\* It adds the LP mints of the states that are in the store by then, and polls
\* those keys from then on.
ResolveMints ==
    /\ asking = "mints"
    /\ polled' = polled \cup {Key("mint", k.pool) : k \in {s \in polled \cap stored : s.kind = "state"}}
    /\ asking' = "polls"
    /\ UNCHANGED <<stored, lost, failures, phase>>

\* One round of the loop, in a single batch
PollKeys ==
    /\ asking = "polls" /\ polled \ stored # {}
    /\ stored' = stored \cup polled
    /\ UNCHANGED <<lost, failures, phase, polled, asking>>

\* What the exact quote of a pool reads and the cold start can know of.  A
\* DLMM pool with an extension is left to the stream; so are the CLMM pools
\* that are not among the richest.
Needs(index, p) ==
    CASE Dex[p] = "Meteora DAMM V1" ->
            {Key("vault", p), Key("state", p), Key("lp", p)} \cup
            (IF Key("state", p) \in lost THEN {} ELSE {Key("mint", p)})
      [] Dex[p] = "Meteora DLMM" ->
            {Key("vault", p)} \cup (IF p \in Extended THEN {} ELSE {Key("bins", p)})
      [] Dex[p] = "Orca Whirlpool" -> {Key("vault", p), Key("arrays", p)}
      [] Dex[p] = "Raydium CLMM" ->
            {Key("vault", p), Key("config", p)} \cup
            (IF \E top \in RichestClmm(index) : p \notin top THEN {} ELSE {Key("ticks", p)})
      [] OTHER -> {}
=============================================================================
