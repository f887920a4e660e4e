---------------------------- MODULE PoolRegistry ----------------------------
(***************************************************************************)
(* The swappable flags of crates/engine/src/pool_registry.rs, their count, *)
(* and the cached set the router reads.  The three are kept in step by the *)
(* operations below, each run under the registry's write lock.             *)
(*                                                                         *)
(* The lock does not cover the account store: other threads write balances *)
(* while an operation walks over the pools.  So an operation is a sweep,   *)
(* one read of the store per step, and the reads of one pool's two vaults  *)
(* are apart.  The balances are a parameter: bal[v] holds when             *)
(* read_token_balance(v) > 0.                                              *)
(***************************************************************************)
EXTENDS Integers, FiniteSets

CONSTANTS
    Pools,         \* pool addresses
    Vaults,        \* vault accounts
    QuoteVault,    \* QuoteVault[p], BaseVault[p]: the vaults of p
    BaseVault,
    Dex,           \* Dex[p]: dex_name, told apart as check_swappable does
    IsActive       \* IsActive[p]: market.is_active(), fixed when p is built

ASSUME RegistryAssumption ==
    /\ IsFiniteSet(Pools)
    /\ QuoteVault \in [Pools -> Vaults]
    /\ BaseVault \in [Pools -> Vaults]
    /\ Dex \in [Pools -> {"Pumpfun AMM", "Raydium AMM V4", "other"}]
    /\ IsActive \in [Pools -> BOOLEAN]

VARIABLES
    swappable,         \* swappable[p]: PoolInfo.swappable
    swappable_count,   \* what /health reports
    cached_swappable,  \* the Arc'd set every quote clones
    sweep              \* the validation under way

registryVars == <<swappable, swappable_count, cached_swappable, sweep>>

VaultsOf(p) == {QuoteVault[p], BaseVault[p]}

\* vault_to_pool
PoolsOf(v) == {p \in Pools : v \in VaultsOf(p)}

Flagged == {p \in Pools : swappable[p]}

\* op: which operation; todo: pools it has not decided yet; half: the pool
\* whose quote vault it has read as funded; found: the set validate_all
\* builds; changed: on_vault_update's local of that name.
NoSweep == [op |-> "none", todo |-> {}, half |-> {}, found |-> {}, changed |-> FALSE]

Sweeping(op) == sweep.op = op

\* The part of check_swappable that does not read the store.
NeedsVaults(p) ==
    Dex[p] = "Raydium AMM V4" \/ (Dex[p] = "other" /\ IsActive[p])

\* What check_swappable returns when the store stands still.
CheckSwappable(p, bal) ==
    Dex[p] = "Pumpfun AMM" \/ (NeedsVaults(p) /\ \A v \in VaultsOf(p) : bal[v])

\* from_pool_index, then validate_from_cache: the flags come from the
\* balances the cache file held.
RegistryInit ==
    \E funded \in [Pools -> BOOLEAN] :
        /\ swappable = [p \in Pools |->
               Dex[p] = "Pumpfun AMM" \/ (NeedsVaults(p) /\ funded[p])]
        /\ swappable_count = Cardinality(Flagged)
        /\ cached_swappable = Flagged
        /\ sweep = NoSweep

BeginValidateAll ==
    /\ sweep' = [NoSweep EXCEPT !.op = "all", !.todo = Pools]
    /\ UNCHANGED <<swappable, swappable_count, cached_swappable>>

BeginVaultUpdate(v) ==
    /\ sweep' = [NoSweep EXCEPT !.op = "vault", !.todo = PoolsOf(v)]
    /\ UNCHANGED <<swappable, swappable_count, cached_swappable>>

\* Mutant of Recount: was and now are not compared.
RecountAlways(p, now) ==
    IF now THEN swappable_count + 1 ELSE swappable_count - 1

\* The count on_vault_update leaves when p's flag becomes now.
Recount(p, now) ==
    IF swappable[p] = now THEN swappable_count
    ELSE IF now THEN swappable_count + 1 ELSE swappable_count - 1

\* p's flag is decided: on_vault_update adjusts the count at once,
\* validate_all collects the set and leaves the count for the end.
Decide(p, now) ==
    /\ swappable' = [swappable EXCEPT ![p] = now]
    /\ swappable_count' = IF Sweeping("vault") THEN Recount(p, now) ELSE swappable_count
    /\ sweep' = [sweep EXCEPT
           !.todo = @ \ {p},
           !.half = {},
           !.found = IF Sweeping("all") /\ now THEN @ \cup {p} ELSE @,
           !.changed = @ \/ swappable[p] # now]
    /\ UNCHANGED cached_swappable

\* check_swappable, up to the read of the quote vault.
CheckFirst(p, bal) ==
    /\ p \in sweep.todo
    /\ sweep.half = {}
    /\ IF NeedsVaults(p) /\ bal[QuoteVault[p]]
       THEN /\ sweep' = [sweep EXCEPT !.half = {p}]
            /\ UNCHANGED <<swappable, swappable_count, cached_swappable>>
       ELSE Decide(p, Dex[p] = "Pumpfun AMM")

\* The read of the base vault, when the quote vault was funded.
CheckSecond(p, bal) ==
    /\ sweep.half = {p}
    /\ Decide(p, bal[BaseVault[p]])

Check(bal) == \E p \in Pools : CheckFirst(p, bal) \/ CheckSecond(p, bal)

\* Mutant of EndVaultUpdate: the set is left to the next validate_all.
EndVaultUpdateNoRebuild ==
    /\ Sweeping("vault")
    /\ sweep.todo = {}
    /\ sweep' = NoSweep
    /\ UNCHANGED <<swappable, swappable_count, cached_swappable>>

\* The set is rebuilt from the flags, but only if a flag changed.
EndVaultUpdate ==
    /\ Sweeping("vault")
    /\ sweep.todo = {}
    /\ cached_swappable' = IF sweep.changed THEN Flagged ELSE cached_swappable
    /\ sweep' = NoSweep
    /\ UNCHANGED <<swappable, swappable_count>>

EndValidateAll ==
    /\ Sweeping("all")
    /\ sweep.todo = {}
    /\ swappable_count' = Cardinality(sweep.found)
    /\ cached_swappable' = sweep.found
    /\ sweep' = NoSweep
    /\ UNCHANGED swappable

-----------------------------------------------------------------------------
RegistryTypeOK ==
    /\ swappable \in [Pools -> BOOLEAN]
    /\ swappable_count \in Nat
    /\ cached_swappable \subseteq Pools
    /\ sweep \in [op : {"none", "vault", "all"}, todo : SUBSET Pools,
                  half : SUBSET Pools, found : SUBSET Pools, changed : BOOLEAN]
    /\ sweep.half \subseteq sweep.todo

\* Between two operations the count and the set are those of the flags.
InStep == swappable_count = Cardinality(Flagged) /\ cached_swappable = Flagged

\* What an operation under way keeps: on_vault_update the count at all times
\* and the set until a flag changes, validate_all the flags it has decided.
SweepInStep ==
    /\ Sweeping("none") => InStep
    /\ Sweeping("vault") =>
           /\ swappable_count = Cardinality(Flagged)
           /\ ~sweep.changed => cached_swappable = Flagged
    /\ Sweeping("all") => sweep.found = Flagged \ sweep.todo
=============================================================================
