------------------------------- MODULE Engine -------------------------------
(***************************************************************************)
(* The running engine (bin/engine.rs): what happens to the swappable   *)
(* flags when the gRPC consumer, its drainer, the cold start, the          *)
(* hot-vault refresh and the HTTP quotes run side by side over one account *)
(* store and one registry behind a fair lock.                              *)
(*                                                                         *)
(* A vault's balance is a sequence of versions, funded in the odd ones.    *)
(* The store keeps the newest version it is given: AccountStore's slot     *)
(* guard, where every writer stamps a version with a slot at which the     *)
(* vault held it.                                                          *)
(***************************************************************************)
EXTENDS PoolRegistry, FairRwLock

CONSTANTS
    Quoters,      \* HTTP requests that may be in progress at the same time
    Streamed,     \* vaults in the stream's account lists
    Polled,       \* vaults of the refresh loop
    FirstVersion, \* FirstVersion[v]: what the cluster has when the engine starts
    MaxVersion    \* MaxVersion[v]: bound on the versions of v

Drainer == "drainer"
Stream == "stream"
ColdStart == "cold_start"
Refresh == "refresh"
Fetchers == {ColdStart, Refresh}

ASSUME EngineAssumption ==
    /\ Tasks = {Drainer, Stream, ColdStart, Refresh} \cup Quoters
    /\ Quoters \cap {Drainer, Stream, ColdStart, Refresh} = {}
    /\ Streamed \subseteq Vaults
    /\ Polled \subseteq Vaults
    /\ MaxVersion \in [Vaults -> Nat]
    /\ FirstVersion \in [Vaults -> Nat]
    /\ \A v \in Vaults : FirstVersion[v] <= MaxVersion[v]

VARIABLES
    chain,     \* chain[v]: the version of v the cluster has confirmed
    store,     \* store[v]: the version the account store holds, or Absent
    streamed,  \* streamed[v]: the last version of v the stream is past
    missed,    \* vaults with a change nobody will report to the registry
    notices,   \* vault_tx/vault_rx: vaults to re-validate
    batch,     \* the drainer's local batch
    fetch,     \* fetch[f]: the answer f is storing, vault by vault
    at         \* at[t]: the place task t has reached

engineVars == <<chain, store, streamed, missed, notices, batch, fetch, at>>
lockVars == <<holding, waiting>>
vars == <<registryVars, lockVars, engineVars>>

Versions == UNION {0..MaxVersion[v] : v \in Vaults}
Absent == -1

\* A vault that is not there reads as zero.
Funded(version) == version # Absent /\ version % 2 = 1

\* read_token_balance(v) > 0
Balances == [v \in Vaults |-> Funded(store[v])]

\* fetch_all_vaults skips the pools that do not price off their vaults.
ColdVaults == UNION {VaultsOf(p) : p \in {q \in Pools : Dex[q] # "Pumpfun AMM"}}

KeysOf(f) == IF f = ColdStart THEN ColdVaults ELSE Polled

NoAnswer == [todo |-> {}, seen |-> [v \in Vaults |-> Absent]]

Init ==
    /\ RegistryInit
    /\ LockInit
    /\ chain = FirstVersion
    /\ store = [v \in Vaults |-> Absent]
    /\ streamed = chain
    /\ missed = {}
    /\ notices = {}
    /\ batch = {}
    /\ fetch = [f \in Fetchers |-> NoAnswer]
    /\ at = [t \in Tasks \ Quoters |->
               CASE t = Drainer -> "recv"
                 [] t = Stream -> "connect"
                 [] t = ColdStart -> "vaults"
                 [] t = Refresh -> "keys"]

GoTo(t, place) == at' = [at EXCEPT ![t] = place]

Holds(t, mode) == holding[t] = mode

\* t, at the given place, joins the queue of the registry lock.
Ask(t, place, mode) ==
    /\ at[t] = place
    /\ Away(t)
    /\ Request(t, mode)
    /\ UNCHANGED <<registryVars, engineVars>>

\* upsert: a version the store is past is dropped.
Upsert(v, version) ==
    store' = [store EXCEPT ![v] = IF version >= @ THEN version ELSE @]

-----------------------------------------------------------------------------
\* The cluster confirms a transaction that empties or fills a vault.
ChainWrites(v) ==
    /\ chain[v] < MaxVersion[v]
    /\ chain' = [chain EXCEPT ![v] = @ + 1]
    /\ UNCHANGED <<registryVars, lockVars, store, streamed, missed, notices, batch, fetch, at>>

-----------------------------------------------------------------------------
(* run_stream *)

\* The account lists are read off the registry, then the guard is dropped.
ReadVaultLists ==
    /\ at[Stream] = "connect"
    /\ Holds(Stream, "read")
    /\ Release(Stream)
    /\ GoTo(Stream, "subscribe")
    /\ UNCHANGED <<registryVars, chain, store, streamed, missed, notices, batch, fetch>>

\* subscribe_once.  Whatever from_slot is, the subscription may begin after
\* some vaults have changed: their versions up to now are passed over.
Subscribe ==
    /\ at[Stream] = "subscribe"
    /\ \E late \in SUBSET {v \in Streamed : streamed[v] < chain[v]} :
           /\ streamed' = [v \in Vaults |-> IF v \in late THEN chain[v] ELSE streamed[v]]
           /\ missed' = missed \cup late
    /\ GoTo(Stream, "consume")
    /\ UNCHANGED <<registryVars, lockVars, chain, store, notices, batch, fetch>>

\* Mutant of Deliver: only an update the store did not have is passed on.
DeliverIfNewer(v) ==
    /\ at[Stream] = "consume"
    /\ v \in Streamed
    /\ streamed[v] < chain[v]
    /\ ~(Holds(Drainer, "write") /\ at[Drainer] = "drain")
    /\ streamed' = [streamed EXCEPT ![v] = @ + 1]
    /\ Upsert(v, streamed'[v])
    /\ notices' = IF streamed'[v] > store[v] THEN notices \cup {v} ELSE notices
    /\ missed' = missed \ {v}
    /\ UNCHANGED <<registryVars, lockVars, chain, batch, fetch, at>>

\* The next account update of v: into the store, and v to the drainer.  The
\* drainer runs on the same thread and does not yield while it drains.
Deliver(v) ==
    /\ at[Stream] = "consume"
    /\ v \in Streamed
    /\ streamed[v] < chain[v]
    /\ ~(Holds(Drainer, "write") /\ at[Drainer] = "drain")
    /\ streamed' = [streamed EXCEPT ![v] = @ + 1]
    /\ Upsert(v, streamed'[v])
    /\ notices' = notices \cup {v}
    /\ missed' = missed \ {v}
    /\ UNCHANGED <<registryVars, lockVars, chain, batch, fetch, at>>

\* An error, the idle watchdog, the server closing, or a refused subscribe.
Disconnect ==
    /\ at[Stream] \in {"subscribe", "consume"}
    /\ GoTo(Stream, "connect")
    /\ UNCHANGED <<registryVars, lockVars, chain, store, streamed, missed, notices, batch, fetch>>

-----------------------------------------------------------------------------
(* The drainer of start_streaming *)

\* recv, then try_recv until the channel is empty.
Receive ==
    /\ at[Drainer] = "recv"
    /\ notices # {}
    /\ batch' = notices
    /\ notices' = {}
    /\ GoTo(Drainer, "drain")
    /\ UNCHANGED <<registryVars, lockVars, chain, store, streamed, missed, fetch>>

DrainOne(v) ==
    /\ Holds(Drainer, "write")
    /\ Sweeping("none")
    /\ v \in batch
    /\ BeginVaultUpdate(v)
    /\ batch' = batch \ {v}
    /\ UNCHANGED <<lockVars, chain, store, streamed, missed, notices, fetch, at>>

Revalidate ==
    /\ \/ Check(Balances)
       \/ EndVaultUpdate
    /\ UNCHANGED <<lockVars, engineVars>>

Drained ==
    /\ Holds(Drainer, "write")
    /\ Sweeping("none")
    /\ batch = {}
    /\ Release(Drainer)
    /\ GoTo(Drainer, "recv")
    /\ UNCHANGED <<registryVars, chain, store, streamed, missed, notices, batch, fetch>>

-----------------------------------------------------------------------------
(* The cold start task and the refresh loop *)

\* getMultipleAccounts answers with the accounts as of one slot, or fails.
\* What the cold start does not get, nothing is sure to report later.
FetchFrom(f, next) ==
    \E answered \in BOOLEAN :
        /\ fetch' = [fetch EXCEPT ![f] =
               IF answered THEN [todo |-> KeysOf(f), seen |-> chain] ELSE NoAnswer]
        /\ missed' = IF f = ColdStart /\ ~answered THEN missed \cup KeysOf(f) ELSE missed
        /\ GoTo(f, next)
        /\ UNCHANGED <<registryVars, lockVars, chain, store, streamed, notices, batch>>

\* The answers are stored one at a time, with the slot they were read at.
StoreFetched(f, v) ==
    /\ v \in fetch[f].todo
    /\ Upsert(v, fetch[f].seen[v])
    /\ fetch' = [fetch EXCEPT ![f] =
           [todo |-> @.todo \ {v}, seen |-> [@.seen EXCEPT ![v] = Absent]]]
    /\ UNCHANGED <<registryVars, lockVars, chain, streamed, missed, notices, batch, at>>

Stored(f) == fetch[f].todo = {}

\* fetch_all_vaults, under a read guard held across the RPC.
ColdFetch ==
    /\ at[ColdStart] = "vaults"
    /\ Holds(ColdStart, "read")
    /\ FetchFrom(ColdStart, "vaults_stored")

ColdVaultsDone ==
    /\ at[ColdStart] = "vaults_stored"
    /\ Stored(ColdStart)
    /\ Release(ColdStart)
    /\ GoTo(ColdStart, "aux")
    /\ UNCHANGED <<registryVars, chain, store, streamed, missed, notices, batch, fetch>>

\* The auxiliary accounts, fetched under the write guard, then validate_all.
ColdAux ==
    /\ at[ColdStart] = "aux"
    /\ Holds(ColdStart, "write")
    /\ BeginValidateAll
    /\ GoTo(ColdStart, "validate")
    /\ UNCHANGED <<lockVars, chain, store, streamed, missed, notices, batch, fetch>>

ColdValidated ==
    /\ EndValidateAll
    /\ GoTo(ColdStart, "release")
    /\ UNCHANGED <<lockVars, chain, store, streamed, missed, notices, batch, fetch>>

ColdDone ==
    /\ at[ColdStart] = "release"
    /\ Release(ColdStart)
    /\ GoTo(ColdStart, "done")
    /\ UNCHANGED <<registryVars, chain, store, streamed, missed, notices, batch, fetch>>

\* Mutant of RefreshKeys: the guard is not scoped to the block of the keys.
RefreshKeysKeepsGuard ==
    /\ at[Refresh] = "keys"
    /\ Holds(Refresh, "read")
    /\ GoTo(Refresh, IF Polled = {} THEN "returned" ELSE "tick")
    /\ UNCHANGED <<registryVars, lockVars, chain, store, streamed, missed, notices, batch, fetch>>

\* refresh_hot_vaults_loop reads its keys off the registry once ...
RefreshKeys ==
    /\ at[Refresh] = "keys"
    /\ Holds(Refresh, "read")
    /\ Release(Refresh)
    /\ GoTo(Refresh, IF Polled = {} THEN "returned" ELSE "tick")
    /\ UNCHANGED <<registryVars, chain, store, streamed, missed, notices, batch, fetch>>

\* ... and polls them for ever, telling nobody.
RefreshFetch ==
    /\ at[Refresh] = "tick"
    /\ Stored(Refresh)
    /\ FetchFrom(Refresh, "tick")

-----------------------------------------------------------------------------
(* HTTP *)

\* handle_quote and handle_health hold the read guard for one step.
AskToRead(q) ==
    /\ Away(q)
    /\ Request(q, "read")
    /\ UNCHANGED <<registryVars, engineVars>>

Answer(q) ==
    /\ Holds(q, "read")
    /\ Release(q)
    /\ UNCHANGED <<registryVars, engineVars>>

-----------------------------------------------------------------------------
GrantLock == Grant /\ UNCHANGED <<registryVars, engineVars>>

StreamSteps ==
    \/ Ask(Stream, "connect", "read")
    \/ ReadVaultLists
    \/ Subscribe
    \/ \E v \in Vaults : Deliver(v)

DrainerSteps ==
    \/ Receive
    \/ Ask(Drainer, "drain", "write")
    \/ \E v \in Vaults : DrainOne(v)
    \/ Drained

ColdSteps ==
    \/ Ask(ColdStart, "vaults", "read")
    \/ ColdFetch
    \/ \E v \in Vaults : StoreFetched(ColdStart, v)
    \/ ColdVaultsDone
    \/ Ask(ColdStart, "aux", "write")
    \/ ColdAux
    \/ ColdValidated
    \/ ColdDone

RefreshSteps ==
    \/ Ask(Refresh, "keys", "read")
    \/ RefreshKeys
    \/ RefreshFetch
    \/ \E v \in Vaults : StoreFetched(Refresh, v)

Next ==
    \/ \E v \in Vaults : ChainWrites(v)
    \/ StreamSteps
    \/ Disconnect
    \/ DrainerSteps
    \/ Revalidate
    \/ ColdSteps
    \/ RefreshSteps
    \/ \E q \in Quoters : AskToRead(q) \/ Answer(q)
    \/ GrantLock

Spec == Init /\ [][Next]_vars

\* Tasks run, the lock is granted, RPCs answer or time out.  A server that is
\* retried for ever accepts a subscription at some point, and a vault whose
\* update keeps being due is delivered in one of the connections.
Fairness ==
    /\ WF_vars(GrantLock)
    /\ WF_vars(DrainerSteps)
    /\ WF_vars(Revalidate)
    /\ WF_vars(ColdSteps)
    /\ WF_vars(RefreshSteps)
    /\ \A q \in Quoters : WF_vars(Answer(q))
    /\ WF_vars(Ask(Stream, "connect", "read"))
    /\ WF_vars(ReadVaultLists)
    /\ SF_vars(Subscribe)
    /\ \A v \in Vaults : SF_vars(Deliver(v))

FairSpec == Spec /\ Fairness

-----------------------------------------------------------------------------
Places == {"recv", "drain", "connect", "subscribe", "consume", "vaults", "vaults_stored",
           "aux", "validate", "release", "done", "keys", "tick", "returned"}

TypeOK ==
    /\ RegistryTypeOK
    /\ LockTypeOK
    /\ chain \in [Vaults -> Versions]
    /\ store \in [Vaults -> Versions \cup {Absent}]
    /\ streamed \in [Vaults -> Versions]
    /\ missed \subseteq Vaults
    /\ notices \subseteq Vaults
    /\ batch \subseteq Vaults
    /\ fetch \in [Fetchers -> [todo : SUBSET Vaults, seen : [Vaults -> Versions \cup {Absent}]]]
    /\ at \in [Tasks \ Quoters -> Places]

\* Whoever holds the read guard sees a cached set and a count that are those
\* of the flags, though both are kept up by hand (pool_registry.rs:178, 217).
ReadersSeeFlags ==
    \A t \in Tasks : Holds(t, "read") =>
        swappable_count = Cardinality(Flagged) /\ cached_swappable = Flagged

\* Pools whose every vault is in the stream's lists.
Followed == {p \in Pools : VaultsOf(p) \subseteq Streamed}

ChainBalances == [v \in Vaults |-> Funded(chain[v])]

\* v is to be re-validated: in the channel, in the drainer's hands, or due
\* from the stream.
Reported(v) == v \in notices \cup batch \/ streamed[v] < chain[v]

\* The cold start's validation has begun.
Validating == at[ColdStart] \in {"validate", "release", "done"}

\* Some step on its way will have v re-validated, or v was passed over.
Open(v) == Reported(v) \/ v \in missed

\* No wake-up is lost.  Once the cold start has validated, a flag that is
\* wrong about the chain is one some step on its way will put right, however
\* validate_all, the drainer, the stream and the refresh loop interleave:
\* except for the vaults the stream skipped or the cold start failed to read.
FlagIsRightOrOpen(p) ==
    \/ swappable[p] = CheckSwappable(p, ChainBalances)
    \/ p \in sweep.todo
    \/ \E v \in VaultsOf(p) : Open(v)

WrongFlagIsReported ==
    at[ColdStart] \in {"release", "done"} => \A p \in Followed : FlagIsRightOrOpen(p)

\* What makes these inductive.  A sweep belongs to the task that holds the
\* write guard;
SweepHasOwner ==
    /\ Sweeping("none") => sweep = NoSweep
    /\ Sweeping("vault") => Holds(Drainer, "write")
    /\ Sweeping("all") => at[ColdStart] = "validate" /\ Holds(ColdStart, "write")

\* nothing is read before it is on the chain;
BehindChain ==
    \A v \in Vaults :
        /\ store[v] <= chain[v]
        /\ streamed[v] <= chain[v]
        /\ \A f \in Fetchers : fetch[f].seen[v] <= chain[v]

\* the drainer takes a new batch only when it is through with the last;
BatchDone == at[Drainer] = "recv" => batch = {}

\* once the cold start has read a streamed vault, its stored version is
\* behind the chain only if the stream is, too, or has skipped it;
ColdIsStored ==
    at[ColdStart] \notin {"vaults", "vaults_stored"} => fetch[ColdStart].todo = {}

StoredOrDue ==
    \A v \in Streamed \cap ColdVaults :
        \/ store[v] = chain[v]
        \/ streamed[v] < chain[v]
        \/ v \in missed
        \/ at[ColdStart] = "vaults"
        \/ v \in fetch[ColdStart].todo /\ fetch[ColdStart].seen[v] = chain[v]

\* and a quote vault read as funded still is, or its change is on its way.
HalfRead ==
    \A p \in sweep.half :
        /\ NeedsVaults(p)
        /\ (Validating /\ p \in Followed) =>
               Funded(chain[QuoteVault[p]]) \/ \E v \in VaultsOf(p) : Open(v)

IInv ==
    /\ TypeOK
    /\ Exclusive
    /\ SweepHasOwner
    /\ SweepInStep
    /\ BehindChain
    /\ BatchDone
    /\ ColdIsStored
    /\ StoredOrDue
    /\ HalfRead
    /\ Validating => \A p \in Followed : FlagIsRightOrOpen(p)

\* The store never runs ahead of the chain nor back: a balance read by an
\* older RPC answer does not replace a streamed one (account_store.rs:29-32).
StoreMovesForward == [][\A v \in Vaults : store'[v] >= store[v] /\ store'[v] <= chain'[v]]_vars

\* Once the chain is quiet every followed flag settles at the truth.
FlagsSettle ==
    \A p \in Followed :
        <>[](\/ swappable[p] = CheckSwappable(p, ChainBalances)
             \/ VaultsOf(p) \cap missed # {})

\* Every quote gets the lock, behind the writers queued before it.
QuotesAnswered == \A q \in Quoters : Queued(q) ~> Holds(q, "read")

\* README.md:225, "instant /quote works immediately": quotes are answered while the cold
\* start fetches, for the vault phase under a read guard only (bin/engine.rs:143).
QuotesDoNotWaitForVaultFetch ==
    at[ColdStart] = "vaults" /\ Holds(ColdStart, "read") =>
        \A q \in Quoters : Queued(q) => Free(Head(waiting).mode)
=============================================================================
