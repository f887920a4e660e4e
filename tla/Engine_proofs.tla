--------------------------- MODULE Engine_proofs ---------------------------
(***************************************************************************)
(* Theorems about Engine, for any number of pools, vaults, requests and    *)
(* versions.  The inductive invariant IInv is defined in Engine, so that   *)
(* TLC can check it on a small instance.                                   *)
(***************************************************************************)
EXTENDS Engine, FiniteSetTheorems, TLAPS

\* The four background tasks are tasks of their own, apart from the requests.
LEMMA TaskFacts ==
    /\ {Drainer, Stream, ColdStart, Refresh} \subseteq Tasks \ Quoters
    /\ Quoters \subseteq Tasks
  BY EngineAssumption

\* Versions are natural numbers.
LEMMA VersionFacts ==
    /\ Versions \subseteq Nat
    /\ Absent \notin Versions
    /\ \A v \in Vaults : MaxVersion[v] \in Nat /\ 0..MaxVersion[v] \subseteq Versions
  BY EngineAssumption DEF Versions, Absent

\* Versions below a known one are versions.
LEMMA VersionsDown ==
    ASSUME NEW n \in Versions, NEW m \in Nat, m <= n
    PROVE  m \in Versions
  BY EngineAssumption DEF Versions

-----------------------------------------------------------------------------
(* The lock *)

\* Asking for the lock grants nothing.
LEMMA RequestKeeps ==
    ASSUME LockTypeOK, NEW t \in Tasks, NEW mode \in {"read", "write"}, Request(t, mode)
    PROVE  LockTypeOK' /\ UNCHANGED holding
  BY DEF LockTypeOK, Request

\* The two parts of a queue that is not empty.
LEMMA HeadAndTail ==
    ASSUME NEW S, NEW q \in Seq(S), q # <<>>
    PROVE  Head(q) \in S /\ Tail(q) \in Seq(S)
  OBVIOUS

\* Nothing is granted while a writer holds the lock; a writer is granted it
\* only when nobody does.
LEMMA GrantKeeps ==
    ASSUME LockTypeOK, Exclusive, Grant
    PROVE  /\ LockTypeOK'
           /\ Exclusive'
           /\ \A t \in Tasks : holding[t] # "write"
  <1>1. /\ Head(waiting) \in [task : Tasks, mode : {"read", "write"}]
        /\ Tail(waiting) \in Seq([task : Tasks, mode : {"read", "write"}])
    BY HeadAndTail DEF LockTypeOK, Grant
  <1>. DEFINE u == Head(waiting).task
              m == Head(waiting).mode
  <1>2. u \in Tasks /\ m \in {"read", "write"}
    BY <1>1
  <1>3. /\ Free(m)
        /\ holding' = [holding EXCEPT ![u] = m]
        /\ waiting' = Tail(waiting)
    BY DEF Grant
  <1>4. \A t \in Tasks : holding[t] # "write"
    BY <1>2, <1>3 DEF Free, LockTypeOK
  <1>5. LockTypeOK'
    BY <1>1, <1>2, <1>3 DEF LockTypeOK
  <1>6. Exclusive'
    BY <1>2, <1>3, <1>4 DEF Exclusive, LockTypeOK, Free
  <1>. QED
    BY <1>4, <1>5, <1>6

\* Letting go of the lock takes nothing from the other tasks.
LEMMA ReleaseKeeps ==
    ASSUME LockTypeOK, Exclusive, NEW t \in Tasks, Release(t)
    PROVE  /\ LockTypeOK'
           /\ Exclusive'
           /\ \A u \in Tasks \ {t} : holding'[u] = holding[u]
  BY DEF LockTypeOK, Exclusive, Release

-----------------------------------------------------------------------------
(* The registry *)

\* The flagged pools are finitely many.
LEMMA FlaggedIsFinite == IsFiniteSet(Flagged) /\ Cardinality(Flagged) \in Nat
  BY RegistryAssumption, FS_Subset, FS_CardinalityType DEF Flagged

\* What setting one flag does to the set of the flags and to its size.
LEMMA FlagCount ==
    ASSUME RegistryTypeOK, NEW p \in Pools, NEW now \in BOOLEAN,
           swappable' = [swappable EXCEPT ![p] = now]
    PROVE  /\ Flagged' = IF now THEN Flagged \cup {p} ELSE Flagged \ {p}
           /\ swappable_count = Cardinality(Flagged) => Recount(p, now) = Cardinality(Flagged')
  <1>. swappable \in [Pools -> BOOLEAN]
    BY DEF RegistryTypeOK
  <1>1. Flagged' = IF now THEN Flagged \cup {p} ELSE Flagged \ {p}
    BY DEF Flagged
  <1>2. ASSUME swappable[p] = now
        PROVE  Flagged' = Flagged /\ Recount(p, now) = swappable_count
    BY <1>2, <1>1 DEF Flagged, Recount
  <1>3. ASSUME ~swappable[p], now = TRUE
        PROVE  /\ Cardinality(Flagged') = Cardinality(Flagged) + 1
               /\ Recount(p, now) = swappable_count + 1
    <2>1. p \notin Flagged
      BY <1>3 DEF Flagged
    <2>2. Recount(p, now) = swappable_count + 1
      BY <1>3 DEF Recount
    <2>. QED
      BY <1>1, <1>3, <2>1, <2>2, FlaggedIsFinite, FS_AddElement
  <1>4. ASSUME swappable[p], now = FALSE
        PROVE  /\ Cardinality(Flagged') = Cardinality(Flagged) - 1
               /\ Recount(p, now) = swappable_count - 1
    <2>1. p \in Flagged
      BY <1>4 DEF Flagged
    <2>2. Recount(p, now) = swappable_count - 1
      BY <1>4 DEF Recount
    <2>. QED
      BY <1>1, <1>4, <2>1, <2>2, FlaggedIsFinite, FS_RemoveElement
  <1>5. \/ swappable[p] = now
        \/ ~swappable[p] /\ now = TRUE
        \/ swappable[p] /\ now = FALSE
    OBVIOUS
  <1>. QED
    BY <1>1, <1>2, <1>3, <1>4, <1>5

\* What the registry's own operations rely on and keep.
RegInv ==
    /\ RegistryTypeOK
    /\ SweepInStep
    /\ Sweeping("none") => sweep = NoSweep

\* Deciding a flag moves one pool from those to do to those decided.
LEMMA DecideKeeps ==
    ASSUME RegInv, NEW p \in sweep.todo, NEW now \in BOOLEAN, Decide(p, now)
    PROVE  /\ RegInv'
           /\ ~Sweeping("none")
           /\ swappable' = [swappable EXCEPT ![p] = now]
           /\ sweep'.op = sweep.op
           /\ sweep'.todo = sweep.todo \ {p}
           /\ sweep'.half = {}
  <1>. /\ p \in Pools
       /\ RegistryTypeOK
       /\ SweepInStep
    BY DEF RegInv, RegistryTypeOK
  <1>1. ~Sweeping("none")
    BY DEF RegInv, NoSweep
  <1>2. /\ swappable' = [swappable EXCEPT ![p] = now]
        /\ cached_swappable' = cached_swappable
        /\ swappable_count' = IF Sweeping("vault") THEN Recount(p, now) ELSE swappable_count
    BY DEF Decide
  <1>3. /\ sweep'.op = sweep.op
        /\ sweep'.todo = sweep.todo \ {p}
        /\ sweep'.half = {}
        /\ sweep'.found = IF Sweeping("all") /\ now THEN sweep.found \cup {p} ELSE sweep.found
        /\ sweep'.changed = (sweep.changed \/ swappable[p] # now)
        /\ sweep' \in [op : {"none", "vault", "all"}, todo : SUBSET Pools,
                       half : SUBSET Pools, found : SUBSET Pools, changed : BOOLEAN]
    BY DEF Decide, RegistryTypeOK
  <1>4. Flagged' = IF now THEN Flagged \cup {p} ELSE Flagged \ {p}
    BY <1>2, FlagCount
  <1>5. Sweeping("vault") => swappable_count' = Cardinality(Flagged')
    BY <1>2, FlagCount DEF SweepInStep
  <1>6. RegistryTypeOK'
    <2>1. IsFiniteSet(Flagged')
      BY RegistryAssumption, FS_Subset DEF Flagged
    <2>2. swappable_count' \in Nat
      BY <1>2, <1>5, <2>1, FS_CardinalityType DEF RegistryTypeOK
    <2>. QED
      BY <1>2, <1>3, <2>2 DEF RegistryTypeOK
  <1>7. SweepInStep'
    <2>1. ASSUME Sweeping("vault")
          PROVE  SweepInStep'
      <3>1. ASSUME ~sweep'.changed
            PROVE  Flagged' = cached_swappable
        <4>1. ~sweep.changed /\ swappable[p] = now
          BY <1>3, <3>1 DEF RegistryTypeOK
        <4>2. Flagged = cached_swappable
          BY <2>1, <4>1 DEF SweepInStep
        <4>. QED
          BY <1>4, <4>1, <4>2 DEF Flagged
      <3>. QED
        BY <1>2, <1>3, <1>5, <2>1, <3>1 DEF SweepInStep, Sweeping
    <2>2. ASSUME Sweeping("all")
          PROVE  SweepInStep'
      <3>1. sweep.found = Flagged \ sweep.todo
        BY <2>2 DEF SweepInStep
      <3>2. sweep'.found = Flagged' \ sweep'.todo
        BY <1>3, <1>4, <2>2, <3>1
      <3>. QED
        BY <1>3, <2>2, <3>2 DEF SweepInStep, Sweeping
    <2>. QED
      BY <1>1, <2>1, <2>2 DEF RegistryTypeOK, Sweeping
  <1>. QED
    BY <1>1, <1>2, <1>3, <1>6, <1>7 DEF RegInv, Sweeping

\* A read of one vault keeps the registry's invariant and its sweep.
LEMMA CheckKeeps ==
    ASSUME RegInv, NEW bal \in [Vaults -> BOOLEAN], Check(bal)
    PROVE  /\ RegInv'
           /\ ~Sweeping("none")
           /\ sweep'.op = sweep.op
  <1>1. PICK p \in Pools : CheckFirst(p, bal) \/ CheckSecond(p, bal)
    BY DEF Check
  <1>2. QuoteVault[p] \in Vaults /\ BaseVault[p] \in Vaults
    BY RegistryAssumption
  <1>3. ASSUME p \in sweep.todo, sweep' = [sweep EXCEPT !.half = {p}],
               UNCHANGED <<swappable, swappable_count, cached_swappable>>
        PROVE  RegInv' /\ ~Sweeping("none") /\ sweep'.op = sweep.op
    <2>1. ~Sweeping("none")
      BY <1>3 DEF RegInv, NoSweep
    <2>2. RegistryTypeOK'
      BY <1>3 DEF RegInv, RegistryTypeOK
    <2>3. /\ sweep'.op = sweep.op
          /\ sweep'.todo = sweep.todo
          /\ sweep'.found = sweep.found
          /\ sweep'.changed = sweep.changed
      BY <1>3 DEF RegInv, RegistryTypeOK
    <2>4. SweepInStep'
      BY <1>3, <2>3 DEF RegInv, SweepInStep, InStep, Sweeping, Flagged
    <2>. QED
      BY <2>1, <2>2, <2>3, <2>4 DEF RegInv, Sweeping
  <1>4. CASE CheckFirst(p, bal)
    <2>1. p \in sweep.todo
      BY <1>4 DEF CheckFirst
    <2>2. CASE NeedsVaults(p) /\ bal[QuoteVault[p]]
      BY <1>3, <1>4, <2>1, <2>2 DEF CheckFirst
    <2>3. CASE ~(NeedsVaults(p) /\ bal[QuoteVault[p]])
      <3>1. Decide(p, Dex[p] = "Pumpfun AMM")
        BY <1>4, <2>3 DEF CheckFirst
      <3>2. (Dex[p] = "Pumpfun AMM") \in BOOLEAN
        OBVIOUS
      <3>. QED
        BY <2>1, <3>1, <3>2, DecideKeeps
    <2>. QED
      BY <2>2, <2>3
  <1>5. CASE CheckSecond(p, bal)
    <2>1. p \in sweep.todo
      BY <1>5 DEF CheckSecond, RegInv, RegistryTypeOK
    <2>2. Decide(p, bal[BaseVault[p]]) /\ bal[BaseVault[p]] \in BOOLEAN
      BY <1>2, <1>5 DEF CheckSecond
    <2>. QED
      BY <2>1, <2>2, DecideKeeps
  <1>. QED
    BY <1>1, <1>4, <1>5

\* The other registry operations keep its invariant.
LEMMA RegistryKeeps ==
    ASSUME RegInv,
           \/ Sweeping("none") /\ \E v \in Vaults : BeginVaultUpdate(v)
           \/ Sweeping("none") /\ BeginValidateAll
           \/ EndVaultUpdate
           \/ EndValidateAll
    PROVE  RegInv'
  <1>. RegistryTypeOK /\ SweepInStep
    BY DEF RegInv
  <1>1. ASSUME Sweeping("none"), NEW v \in Vaults, BeginVaultUpdate(v)
        PROVE  RegInv'
    <2>1. sweep' = [op |-> "vault", todo |-> PoolsOf(v), half |-> {}, found |-> {}, changed |-> FALSE]
      BY <1>1 DEF BeginVaultUpdate, NoSweep
    <2>2. UNCHANGED <<swappable, swappable_count, cached_swappable>> /\ InStep
      BY <1>1 DEF BeginVaultUpdate, SweepInStep
    <2>. QED
      BY <2>1, <2>2 DEF RegInv, RegistryTypeOK, SweepInStep, InStep, Sweeping, Flagged, PoolsOf
  <1>2. ASSUME Sweeping("none"), BeginValidateAll
        PROVE  RegInv'
    <2>1. sweep' = [op |-> "all", todo |-> Pools, half |-> {}, found |-> {}, changed |-> FALSE]
      BY <1>2 DEF BeginValidateAll, NoSweep
    <2>2. UNCHANGED <<swappable, swappable_count, cached_swappable>>
      BY <1>2 DEF BeginValidateAll
    <2>. QED
      BY <2>1, <2>2 DEF RegInv, RegistryTypeOK, SweepInStep, Sweeping, Flagged
  <1>3. ASSUME EndVaultUpdate
        PROVE  RegInv'
    <2>1. /\ sweep' = NoSweep
          /\ UNCHANGED <<swappable, swappable_count>>
          /\ cached_swappable' = Flagged
      BY <1>3 DEF EndVaultUpdate, SweepInStep, RegistryTypeOK
    <2>2. swappable_count = Cardinality(Flagged)
      BY <1>3 DEF EndVaultUpdate, SweepInStep
    <2>3. Flagged' = Flagged /\ Flagged \subseteq Pools
      BY <2>1 DEF Flagged
    <2>4. InStep'
      BY <2>1, <2>2, <2>3 DEF InStep
    <2>. QED
      BY <2>1, <2>3, <2>4 DEF RegInv, RegistryTypeOK, SweepInStep, Sweeping, NoSweep
  <1>4. ASSUME EndValidateAll
        PROVE  RegInv'
    <2>1. sweep.found = Flagged
      BY <1>4 DEF EndValidateAll, SweepInStep
    <2>2. /\ sweep' = NoSweep
          /\ swappable' = swappable
          /\ swappable_count' = Cardinality(Flagged)
          /\ cached_swappable' = Flagged
      BY <1>4, <2>1 DEF EndValidateAll
    <2>3. Flagged' = Flagged /\ Flagged \subseteq Pools
      BY <2>2 DEF Flagged
    <2>4. InStep'
      BY <2>2, <2>3 DEF InStep
    <2>. QED
      BY <2>2, <2>3, <2>4, FlaggedIsFinite
         DEF RegInv, RegistryTypeOK, SweepInStep, Sweeping, NoSweep
  <1>. QED
    BY <1>1, <1>2, <1>3, <1>4

-----------------------------------------------------------------------------
(* What the steps touch *)

\* The registry is touched by the drainer and by the cold start only.
LEMMA RegistrySteps ==
    ASSUME [Next]_vars
    PROVE  \/ UNCHANGED registryVars
           \/ /\ \/ \E v \in Vaults : DrainOne(v)
                 \/ Revalidate
                 \/ ColdAux
                 \/ ColdValidated
              /\ UNCHANGED lockVars
  BY DEF Next, vars, ChainWrites, StreamSteps, DrainerSteps, ColdSteps, RefreshSteps, Ask,
         ReadVaultLists, Subscribe, Deliver, Disconnect, Receive, Drained, ColdFetch,
         StoreFetched, ColdVaultsDone, ColdDone, RefreshKeys, RefreshFetch, FetchFrom,
         AskToRead, Answer, GrantLock, DrainOne, Revalidate, ColdAux, ColdValidated,
         engineVars, lockVars

\* The lock is asked for, granted or let go of, and then the registry is left alone.
LEMMA LockSteps ==
    ASSUME [Next]_vars
    PROVE  \/ UNCHANGED lockVars
           \/ /\ UNCHANGED <<registryVars, at>>
              /\ \/ \E t \in Tasks, mode \in {"read", "write"} : Request(t, mode)
                 \/ Grant
                 \/ \E q \in Quoters : Release(q)
           \/ /\ UNCHANGED registryVars
              /\ \/ Release(Stream)
                 \/ Release(Refresh)
                 \/ Release(Drainer) /\ Sweeping("none")
                 \/ Release(ColdStart) /\ at[ColdStart] # "validate"
  <1>. {Drainer, Stream, ColdStart, Refresh} \subseteq Tasks /\ Quoters \subseteq Tasks
    BY TaskFacts
  <1>1. ASSUME NEW t \in {Drainer, Stream, ColdStart, Refresh}, NEW place,
               NEW mode \in {"read", "write"}, Ask(t, place, mode)
        PROVE  UNCHANGED <<registryVars, at>> /\ Request(t, mode) /\ t \in Tasks
    BY <1>1 DEF Ask, engineVars
  <1>. QED
    BY <1>1 DEF Next, vars, ChainWrites, StreamSteps, DrainerSteps, ColdSteps, RefreshSteps,
         ReadVaultLists, Subscribe, Deliver, Disconnect, Receive, Drained, ColdFetch,
         StoreFetched, ColdVaultsDone, ColdDone, RefreshKeys, RefreshFetch, FetchFrom,
         AskToRead, Answer, GrantLock, DrainOne, Revalidate, ColdAux, ColdValidated,
         engineVars, lockVars

\* The chain, the store and the fetches are touched by five kinds of steps.
LEMMA DataSteps ==
    ASSUME [Next]_vars
    PROVE  \/ UNCHANGED <<chain, store, streamed, missed, fetch>>
           \/ \E v \in Vaults : ChainWrites(v)
           \/ Subscribe
           \/ \E v \in Vaults : Deliver(v)
           \/ ColdFetch
           \/ RefreshFetch
           \/ \E f \in Fetchers, v \in Vaults : StoreFetched(f, v)
  BY DEF Next, vars, StreamSteps, DrainerSteps, ColdSteps, RefreshSteps, Ask, Fetchers,
         ReadVaultLists, Disconnect, Receive, Drained, ColdVaultsDone, ColdDone, RefreshKeys,
         AskToRead, Answer, GrantLock, DrainOne, Revalidate, ColdAux, ColdValidated, engineVars

\* at[t] moves only in the steps of t.
LEMMA GoToMoves ==
    ASSUME TypeOK, NEW t \in {Drainer, Stream, ColdStart, Refresh}, NEW place \in Places,
           GoTo(t, place)
    PROVE  /\ at' \in [Tasks \ Quoters -> Places]
           /\ at'[t] = place
           /\ t # ColdStart => at'[ColdStart] = at[ColdStart]
  BY TaskFacts DEF TypeOK, GoTo

\* The places of the cold start, one after the other.
LEMMA PlaceSteps ==
    ASSUME TypeOK, [Next]_vars
    PROVE  /\ at' \in [Tasks \ Quoters -> Places]
           /\ \/ at'[ColdStart] = at[ColdStart]
              \/ ColdFetch /\ at'[ColdStart] = "vaults_stored"
              \/ ColdVaultsDone /\ at'[ColdStart] = "aux"
              \/ ColdAux /\ at'[ColdStart] = "validate"
              \/ ColdValidated /\ at'[ColdStart] = "release"
              \/ ColdDone /\ at'[ColdStart] = "done"
  <1>1. CASE UNCHANGED at
    BY <1>1 DEF TypeOK
  <1>2. ASSUME NEW place \in Places, GoTo(Stream, place) \/ GoTo(Drainer, place) \/ GoTo(Refresh, place)
        PROVE  at' \in [Tasks \ Quoters -> Places] /\ at'[ColdStart] = at[ColdStart]
    BY <1>2, GoToMoves DEF Stream, Drainer, Refresh, ColdStart
  <1>3. CASE ReadVaultLists \/ Subscribe \/ Disconnect \/ Receive \/ Drained \/ RefreshKeys \/ RefreshFetch
    BY <1>2, <1>3 DEF ReadVaultLists, Subscribe, Disconnect, Receive, Drained, RefreshKeys,
                      RefreshFetch, FetchFrom, Places
  <1>4. ASSUME NEW place \in Places, GoTo(ColdStart, place)
        PROVE  at' \in [Tasks \ Quoters -> Places] /\ at'[ColdStart] = place
    BY <1>4, GoToMoves
  <1>5. CASE ColdFetch \/ ColdVaultsDone \/ ColdAux \/ ColdValidated \/ ColdDone
    BY <1>4, <1>5 DEF ColdFetch, FetchFrom, ColdVaultsDone, ColdAux, ColdValidated, ColdDone, Places
  <1>. QED
    BY <1>1, <1>3, <1>5 DEF Next, vars, ChainWrites, StreamSteps, DrainerSteps, ColdSteps,
         RefreshSteps, Ask, Deliver, StoreFetched, AskToRead, Answer, GrantLock, DrainOne,
         Revalidate, engineVars

-----------------------------------------------------------------------------
(* The inductive invariant, part by part *)

\* The registry's part.
LEMMA RegistryStep == IInv /\ [Next]_vars => RegInv'
  <1>. SUFFICES ASSUME IInv, [Next]_vars PROVE RegInv'
    OBVIOUS
  <1>1. RegInv
    BY DEF IInv, TypeOK, SweepHasOwner, RegInv
  <1>2. CASE UNCHANGED registryVars
    BY <1>1, <1>2 DEF RegInv, registryVars, RegistryTypeOK, SweepInStep, InStep, Sweeping, Flagged
  <1>3. CASE \E v \in Vaults : DrainOne(v)
    BY <1>1, <1>3, RegistryKeeps DEF DrainOne
  <1>4. CASE Revalidate
    <2>1. Balances \in [Vaults -> BOOLEAN]
      BY DEF Balances, Funded
    <2>. QED
      BY <1>1, <1>4, <2>1, CheckKeeps, RegistryKeeps DEF Revalidate
  <1>5. CASE ColdAux
    <2>1. at[ColdStart] = "aux" /\ Holds(ColdStart, "write") /\ BeginValidateAll
      BY <1>5 DEF ColdAux
    <2>2. Sweeping("none")
      BY <2>1, TaskFacts DEF IInv, TypeOK, RegistryTypeOK, SweepHasOwner, Sweeping, Exclusive,
                             Holds, Drainer, ColdStart
    <2>. QED
      BY <1>1, <2>1, <2>2, RegistryKeeps
  <1>6. CASE ColdValidated
    BY <1>1, <1>6, RegistryKeeps DEF ColdValidated
  <1>. QED
    BY <1>2, <1>3, <1>4, <1>5, <1>6, RegistrySteps

\* The lock's part, and who owns the sweep.
LEMMA LockStep == IInv /\ [Next]_vars => LockTypeOK' /\ Exclusive' /\ SweepHasOwner'
  <1>. SUFFICES ASSUME IInv, [Next]_vars
                PROVE  LockTypeOK' /\ Exclusive' /\ SweepHasOwner'
    OBVIOUS
  <1>. LockTypeOK /\ Exclusive /\ SweepHasOwner /\ RegistryTypeOK
    BY DEF IInv, TypeOK
  <1>t. {Drainer, Stream, ColdStart, Refresh} \subseteq Tasks \ Quoters /\ Quoters \subseteq Tasks
    BY TaskFacts
  <1>n. (Sweeping("none") => sweep = NoSweep)'
    BY RegistryStep DEF RegInv
  <1>p. \/ at'[ColdStart] = at[ColdStart]
        \/ at[ColdStart] # "validate"
        \/ ColdValidated
    BY PlaceSteps DEF IInv, ColdFetch, ColdVaultsDone, ColdAux, ColdDone
  <1>1. CASE UNCHANGED lockVars
    <2>1. LockTypeOK' /\ Exclusive' /\ UNCHANGED holding
      BY <1>1 DEF lockVars, LockTypeOK, Exclusive
    <2>2. CASE UNCHANGED registryVars
      <3>1. ~ColdValidated \/ ~Sweeping("all")'
        BY DEF ColdValidated, EndValidateAll, Sweeping, NoSweep
      <3>. QED
        BY <1>n, <1>p, <2>1, <2>2, <3>1 DEF SweepHasOwner, Holds, Sweeping, registryVars
    <2>3. CASE \E v \in Vaults : DrainOne(v)
      <3>1. sweep'.op = "vault" /\ Holds(Drainer, "write")
        BY <2>3 DEF DrainOne, BeginVaultUpdate, NoSweep
      <3>. QED
        BY <2>1, <3>1 DEF SweepHasOwner, Holds, Sweeping
    <2>4. CASE Revalidate
      <3>1. UNCHANGED at
        BY <2>4 DEF Revalidate, engineVars
      <3>2. sweep'.op = sweep.op \/ sweep'.op = "none"
        <4>1. Balances \in [Vaults -> BOOLEAN] /\ RegInv
          BY DEF Balances, Funded, IInv, TypeOK, RegInv, SweepHasOwner
        <4>2. CASE Check(Balances)
          BY <4>1, <4>2, CheckKeeps
        <4>3. CASE EndVaultUpdate
          BY <4>3 DEF EndVaultUpdate, NoSweep
        <4>. QED
          BY <2>4, <4>2, <4>3 DEF Revalidate
      <3>. QED
        BY <1>n, <2>1, <3>1, <3>2 DEF SweepHasOwner, Holds, Sweeping
    <2>5. CASE ColdAux
      <3>1. sweep'.op = "all" /\ Holds(ColdStart, "write")
        BY <2>5 DEF ColdAux, BeginValidateAll, NoSweep
      <3>2. at'[ColdStart] = "validate"
        BY <2>5, GoToMoves DEF ColdAux, IInv, Places
      <3>. QED
        BY <2>1, <3>1, <3>2 DEF SweepHasOwner, Holds, Sweeping
    <2>6. CASE ColdValidated
      <3>1. sweep' = NoSweep
        BY <2>6 DEF ColdValidated, EndValidateAll
      <3>. QED
        BY <2>1, <3>1 DEF SweepHasOwner, Sweeping, NoSweep
    <2>. QED
      BY <2>1, <2>2, <2>3, <2>4, <2>5, <2>6, RegistrySteps
  <1>2. ASSUME UNCHANGED <<registryVars, at>>
        PROVE  (\A t \in Tasks : Holds(t, "write") => Holds(t, "write")') => SweepHasOwner'
    BY <1>2, <1>n, <1>t DEF SweepHasOwner, registryVars, Sweeping
  <1>3. ASSUME NEW t \in Tasks, NEW mode \in {"read", "write"}, Request(t, mode),
               UNCHANGED <<registryVars, at>>
        PROVE  LockTypeOK' /\ Exclusive' /\ SweepHasOwner'
    BY <1>2, <1>3, RequestKeeps DEF Exclusive, Holds
  <1>4. ASSUME Grant, UNCHANGED <<registryVars, at>>
        PROVE  LockTypeOK' /\ Exclusive' /\ SweepHasOwner'
    BY <1>2, <1>4, GrantKeeps DEF Holds
  <1>5. ASSUME NEW t \in Tasks, Release(t)
        PROVE  /\ LockTypeOK'
               /\ Exclusive'
               /\ \A u \in Tasks \ {t} : Holds(u, "write") => Holds(u, "write")'
    BY <1>5, ReleaseKeeps DEF Holds
  <1>6. ASSUME NEW q \in Quoters, Release(q), UNCHANGED <<registryVars, at>>
        PROVE  LockTypeOK' /\ Exclusive' /\ SweepHasOwner'
    <2>1. Drainer # q /\ ColdStart # q
      BY <1>t
    <2>. QED
      BY <1>5, <1>6, <1>n, <1>t, <2>1 DEF SweepHasOwner, registryVars, Sweeping
  <1>7. ASSUME UNCHANGED registryVars,
               \/ Release(Stream)
               \/ Release(Refresh)
               \/ Release(Drainer) /\ Sweeping("none")
               \/ Release(ColdStart) /\ at[ColdStart] # "validate"
        PROVE  LockTypeOK' /\ Exclusive' /\ SweepHasOwner'
    <2>1. ~ColdValidated \/ ~Sweeping("all")'
      BY DEF ColdValidated, EndValidateAll, Sweeping, NoSweep
    <2>2. Sweeping("all") => at'[ColdStart] = "validate"
      BY <1>7, <1>p, <2>1 DEF SweepHasOwner, registryVars, Sweeping
    <2>3. LockTypeOK' /\ Exclusive'
      BY <1>5, <1>7, <1>t
    <2>4. Sweeping("vault") => Holds(Drainer, "write")'
      BY <1>5, <1>7, <1>t DEF SweepHasOwner, Sweeping, Stream, Refresh, ColdStart, Drainer
    <2>5. Sweeping("all") => Holds(ColdStart, "write")'
      BY <1>5, <1>7, <1>t DEF SweepHasOwner, Sweeping, Stream, Refresh, ColdStart, Drainer
    <2>. QED
      BY <1>7, <1>n, <2>2, <2>3, <2>4, <2>5 DEF SweepHasOwner, registryVars, Sweeping
  <1>. QED
    BY <1>1, <1>3, <1>4, <1>6, <1>7, LockSteps

\* The types of the engine's own variables.
DataTypeOK ==
    /\ chain \in [Vaults -> Versions]
    /\ store \in [Vaults -> Versions \cup {Absent}]
    /\ streamed \in [Vaults -> Versions]
    /\ missed \subseteq Vaults
    /\ fetch \in [Fetchers -> [todo : SUBSET Vaults, seen : [Vaults -> Versions \cup {Absent}]]]

\* upsert takes the newer of the two versions.
LEMMA UpsertEffect ==
    ASSUME DataTypeOK, NEW v \in Vaults, NEW version \in Versions \cup {Absent}, Upsert(v, version)
    PROVE  /\ store' \in [Vaults -> Versions \cup {Absent}]
           /\ \A u \in Vaults : store'[u] >= store[u]
           /\ store'[v] >= version
           /\ \A u \in Vaults : store'[u] = store[u] \/ (u = v /\ store'[u] = version)
  <1>1. store[v] \in Versions \cup {Absent}
    BY DEF DataTypeOK
  <1>2. \A n \in Versions \cup {Absent} : n \in Int
    BY VersionFacts DEF Absent
  <1>3. store' = [store EXCEPT ![v] = IF version >= store[v] THEN version ELSE store[v]]
    BY DEF Upsert
  <1>4. \A u \in Vaults : store[u] \in Int /\ store[u] \in Versions \cup {Absent}
    <2>1. \A u \in Vaults : store[u] \in Versions \cup {Absent}
      BY DEF DataTypeOK
    <2>. QED
      BY <1>2, <2>1
  <1>5. version \in Int
    BY <1>2
  <1>. DEFINE new == IF version >= store[v] THEN version ELSE store[v]
  <1>6. new \in Versions \cup {Absent} /\ new \in Int /\ new >= store[v] /\ new >= version
    BY <1>1, <1>4, <1>5
  <1>7. \A u \in Vaults : store'[u] = IF u = v THEN new ELSE store[u]
    BY <1>3 DEF DataTypeOK
  <1>8. store' \in [Vaults -> Versions \cup {Absent}]
    BY <1>3, <1>6 DEF DataTypeOK
  <1>. QED
    BY <1>4, <1>5, <1>6, <1>7, <1>8

\* What the versions of a state are.
LEMMA DataFacts ==
    ASSUME DataTypeOK
    PROVE  /\ \A v \in Vaults : chain[v] \in Nat /\ streamed[v] \in Nat /\ store[v] \in Int
           /\ \A v \in Vaults : chain[v] \in Versions /\ streamed[v] \in Versions
           /\ \A f \in Fetchers, v \in Vaults :
                  fetch[f].seen[v] \in Versions \cup {Absent} /\ fetch[f].seen[v] \in Int
           /\ \A f \in Fetchers : fetch[f].todo \subseteq Vaults
  <1>1. \A n \in Versions \cup {Absent} : n \in Int
    BY VersionFacts DEF Absent
  <1>2. \A v \in Vaults : chain[v] \in Versions /\ streamed[v] \in Versions
    BY DEF DataTypeOK
  <1>3. \A v \in Vaults : store[v] \in Versions \cup {Absent}
    BY DEF DataTypeOK
  <1>4. \A f \in Fetchers :
           fetch[f] \in [todo : SUBSET Vaults, seen : [Vaults -> Versions \cup {Absent}]]
    BY DEF DataTypeOK
  <1>5. \A f \in Fetchers, v \in Vaults : fetch[f].seen[v] \in Versions \cup {Absent}
    BY <1>4
  <1>. QED
    BY <1>1, <1>2, <1>3, <1>4, <1>5, VersionFacts

\* The chain's step.
LEMMA ChainEffect ==
    ASSUME DataTypeOK, NEW v \in Vaults, ChainWrites(v)
    PROVE  /\ chain' \in [Vaults -> Versions]
           /\ chain'[v] = chain[v] + 1
           /\ \A u \in Vaults \ {v} : chain'[u] = chain[u]
           /\ UNCHANGED <<store, streamed, missed, notices, batch, fetch, at, registryVars>>
  <1>1. chain[v] + 1 \in 0..MaxVersion[v]
    BY DataFacts, VersionFacts DEF ChainWrites
  <1>. QED
    BY <1>1, VersionFacts DEF ChainWrites, DataTypeOK

\* A fetch step's answer: versions of the chain, or nothing.
LEMMA FetchEffect ==
    ASSUME DataTypeOK, NEW f \in Fetchers, NEW next \in Places, FetchFrom(f, next)
    PROVE  /\ DataTypeOK'
           /\ UNCHANGED <<chain, store, streamed>>
           /\ \A g \in Fetchers \ {f} : fetch'[g] = fetch[g]
           /\ \/ fetch'[f] = [todo |-> KeysOf(f), seen |-> chain] /\ missed' = missed
              \/ /\ fetch'[f] = NoAnswer
                 /\ missed' = IF f = ColdStart THEN missed \cup KeysOf(f) ELSE missed
  <1>1. KeysOf(f) \subseteq Vaults
    <2>1. \A p \in Pools : VaultsOf(p) \subseteq Vaults
      BY RegistryAssumption DEF VaultsOf
    <2>2. ColdVaults \subseteq Vaults
      BY <2>1 DEF ColdVaults
    <2>. QED
      BY <2>2, EngineAssumption DEF KeysOf
  <1>2. PICK answered \in BOOLEAN :
           /\ fetch' = [fetch EXCEPT ![f] =
                  IF answered THEN [todo |-> KeysOf(f), seen |-> chain] ELSE NoAnswer]
           /\ missed' = IF f = ColdStart /\ ~answered THEN missed \cup KeysOf(f) ELSE missed
           /\ UNCHANGED <<chain, store, streamed>>
    BY DEF FetchFrom
  <1>3. NoAnswer \in [todo : SUBSET Vaults, seen : [Vaults -> Versions \cup {Absent}]]
    BY DEF NoAnswer
  <1>4. [todo |-> KeysOf(f), seen |-> chain]
            \in [todo : SUBSET Vaults, seen : [Vaults -> Versions \cup {Absent}]]
    BY <1>1 DEF DataTypeOK
  <1>5. fetch' \in [Fetchers -> [todo : SUBSET Vaults, seen : [Vaults -> Versions \cup {Absent}]]]
    BY <1>2, <1>3, <1>4 DEF DataTypeOK
  <1>. QED
    BY <1>1, <1>2, <1>5 DEF DataTypeOK

\* Storing one account of an answer.
LEMMA StoreFetchedEffect ==
    ASSUME DataTypeOK, NEW f \in Fetchers, NEW v \in Vaults, StoreFetched(f, v)
    PROVE  /\ DataTypeOK'
           /\ v \in fetch[f].todo
           /\ UNCHANGED <<chain, streamed, missed, at>>
           /\ \A u \in Vaults : store'[u] >= store[u]
           /\ store'[v] >= fetch[f].seen[v]
           /\ \A u \in Vaults : store'[u] = store[u] \/ (u = v /\ store'[u] = fetch[f].seen[u])
           /\ \A g \in Fetchers \ {f} : fetch'[g] = fetch[g]
           /\ fetch'[f].todo = fetch[f].todo \ {v}
           /\ fetch'[f].seen[v] = Absent
           /\ \A u \in Vaults \ {v} : fetch'[f].seen[u] = fetch[f].seen[u]
  <1>1. /\ v \in fetch[f].todo
        /\ Upsert(v, fetch[f].seen[v])
        /\ UNCHANGED <<chain, streamed, missed, at>>
        /\ fetch' = [fetch EXCEPT ![f] = [todo |-> fetch[f].todo \ {v},
                                          seen |-> [fetch[f].seen EXCEPT ![v] = Absent]]]
    BY DEF StoreFetched
  <1>2. fetch[f] \in [todo : SUBSET Vaults, seen : [Vaults -> Versions \cup {Absent}]]
    BY DEF DataTypeOK
  <1>3. fetch[f].seen[v] \in Versions \cup {Absent}
    BY <1>2
  <1>4. [todo |-> fetch[f].todo \ {v}, seen |-> [fetch[f].seen EXCEPT ![v] = Absent]]
            \in [todo : SUBSET Vaults, seen : [Vaults -> Versions \cup {Absent}]]
    BY <1>2
  <1>5. fetch' \in [Fetchers -> [todo : SUBSET Vaults, seen : [Vaults -> Versions \cup {Absent}]]]
    BY <1>1, <1>4 DEF DataTypeOK
  <1>6. fetch'[f] = [todo |-> fetch[f].todo \ {v}, seen |-> [fetch[f].seen EXCEPT ![v] = Absent]]
    BY <1>1 DEF DataTypeOK
  <1>7. \A g \in Fetchers \ {f} : fetch'[g] = fetch[g]
    BY <1>1 DEF DataTypeOK
  <1>8. /\ store' \in [Vaults -> Versions \cup {Absent}]
        /\ \A u \in Vaults : store'[u] >= store[u]
        /\ store'[v] >= fetch[f].seen[v]
        /\ \A u \in Vaults : store'[u] = store[u] \/ (u = v /\ store'[u] = fetch[f].seen[u])
    BY <1>1, <1>3, UpsertEffect
  <1>9. DataTypeOK'
    BY <1>1, <1>5, <1>8 DEF DataTypeOK
  <1>. QED
    BY <1>1, <1>2, <1>6, <1>7, <1>8, <1>9

\* A subscription passes changes over only by marking them as missed.
LEMMA SubscribeEffect ==
    ASSUME DataTypeOK, Subscribe
    PROVE  /\ DataTypeOK'
           /\ UNCHANGED <<chain, store, fetch, notices, batch, registryVars>>
           /\ missed \subseteq missed'
           /\ \A v \in Vaults :
                  \/ streamed'[v] = streamed[v]
                  \/ streamed'[v] = chain[v] /\ v \in missed'
  <1>1. PICK late \in SUBSET {v \in Streamed : streamed[v] < chain[v]} :
           /\ streamed' = [v \in Vaults |-> IF v \in late THEN chain[v] ELSE streamed[v]]
           /\ missed' = missed \cup late
           /\ UNCHANGED <<chain, store, fetch, notices, batch, registryVars>>
    BY DEF Subscribe
  <1>2. late \subseteq Vaults
    BY EngineAssumption
  <1>3. \A v \in Vaults : streamed'[v] = IF v \in late THEN chain[v] ELSE streamed[v]
    BY <1>1
  <1>4. streamed' \in [Vaults -> Versions]
    BY <1>1, DataFacts
  <1>. QED
    BY <1>1, <1>2, <1>3, <1>4 DEF DataTypeOK

\* An update reaches the store and the channel, and is no longer missed.
LEMMA DeliverEffect ==
    ASSUME DataTypeOK, NEW v \in Vaults, Deliver(v)
    PROVE  /\ DataTypeOK'
           /\ UNCHANGED <<chain, fetch, batch, at, registryVars>>
           /\ streamed[v] < chain[v]
           /\ streamed'[v] = streamed[v] + 1
           /\ \A u \in Vaults \ {v} : streamed'[u] = streamed[u] /\ store'[u] = store[u]
           /\ store'[v] >= store[v]
           /\ store'[v] >= streamed'[v]
           /\ store'[v] = store[v] \/ store'[v] = streamed'[v]
           /\ notices' = notices \cup {v}
           /\ missed' = missed \ {v}
  <1>1. /\ UNCHANGED <<chain, fetch, batch, at, registryVars>>
        /\ streamed[v] < chain[v]
        /\ streamed' = [streamed EXCEPT ![v] = streamed[v] + 1]
        /\ Upsert(v, streamed'[v])
        /\ notices' = notices \cup {v}
        /\ missed' = missed \ {v}
    BY DEF Deliver
  <1>2. chain[v] \in Versions /\ chain[v] \in Nat /\ streamed[v] \in Nat
    BY DataFacts
  <1>3. streamed[v] + 1 \in Versions
    BY <1>1, <1>2, VersionsDown
  <1>4. streamed' \in [Vaults -> Versions] /\ streamed'[v] = streamed[v] + 1
    BY <1>1, <1>3 DEF DataTypeOK
  <1>5. \A u \in Vaults \ {v} : streamed'[u] = streamed[u]
    BY <1>1 DEF DataTypeOK
  <1>6. /\ store' \in [Vaults -> Versions \cup {Absent}]
        /\ \A u \in Vaults : store'[u] >= store[u]
        /\ store'[v] >= streamed'[v]
        /\ \A u \in Vaults : store'[u] = store[u] \/ (u = v /\ store'[u] = streamed'[v])
    BY <1>1, <1>3, <1>4, UpsertEffect
  <1>7. DataTypeOK'
    BY <1>1, <1>4, <1>6 DEF DataTypeOK
  <1>. QED
    BY <1>1, <1>4, <1>5, <1>6, <1>7

\* The data's part, and the action property.
LEMMA DataStep ==
    ASSUME IInv, [Next]_vars
    PROVE  /\ DataTypeOK' /\ BehindChain'
           /\ \A v \in Vaults : store'[v] >= store[v] /\ store'[v] <= chain'[v]
  <1>. DEFINE Goal == /\ DataTypeOK' /\ BehindChain'
                      /\ \A v \in Vaults : store'[v] >= store[v] /\ store'[v] <= chain'[v]
  <1>. DataTypeOK /\ BehindChain
    BY DEF IInv, TypeOK, DataTypeOK
  <1>i. \A v \in Vaults : chain[v] \in Int /\ streamed[v] \in Int /\ store[v] \in Int
    BY DataFacts
  <1>j. \A f \in Fetchers, v \in Vaults : fetch[f].seen[v] \in Int
    BY DataFacts
  <1>1. CASE UNCHANGED <<chain, store, streamed, missed, fetch>>
    BY <1>1, <1>i DEF DataTypeOK, BehindChain
  <1>2. ASSUME NEW v \in Vaults, ChainWrites(v)
        PROVE  Goal
    <2>1. /\ chain' \in [Vaults -> Versions]
          /\ chain'[v] = chain[v] + 1
          /\ \A u \in Vaults \ {v} : chain'[u] = chain[u]
          /\ UNCHANGED <<store, streamed, missed, fetch>>
      BY <1>2, ChainEffect
    <2>2. DataTypeOK'
      BY <2>1 DEF DataTypeOK
    <2>3. \A u \in Vaults : chain'[u] >= chain[u] /\ chain'[u] \in Int
      BY <1>i, <2>1
    <2>4. BehindChain'
      BY <1>i, <1>j, <2>1, <2>3 DEF BehindChain
    <2>. QED
      BY <1>i, <2>1, <2>2, <2>4 DEF BehindChain
  <1>3. CASE Subscribe
    <2>1. /\ DataTypeOK'
          /\ UNCHANGED <<chain, store, fetch>>
          /\ \A v \in Vaults : streamed'[v] = streamed[v] \/ streamed'[v] = chain[v]
      BY <1>3, SubscribeEffect
    <2>. QED
      BY <1>i, <2>1 DEF BehindChain
  <1>4. ASSUME NEW v \in Vaults, Deliver(v)
        PROVE  Goal
    <2>1. /\ DataTypeOK'
          /\ UNCHANGED <<chain, fetch>>
          /\ streamed[v] < chain[v]
          /\ streamed'[v] = streamed[v] + 1
          /\ \A u \in Vaults \ {v} : streamed'[u] = streamed[u] /\ store'[u] = store[u]
          /\ store'[v] >= store[v]
          /\ store'[v] = store[v] \/ store'[v] = streamed'[v]
      BY <1>4, DeliverEffect
    <2>. QED
      BY <1>i, <2>1 DEF BehindChain
  <1>5. ASSUME NEW f \in Fetchers, NEW next \in Places, FetchFrom(f, next)
        PROVE  Goal
    <2>1. /\ DataTypeOK'
          /\ UNCHANGED <<chain, store, streamed>>
          /\ \A g \in Fetchers \ {f} : fetch'[g] = fetch[g]
          /\ fetch'[f].seen = chain \/ fetch'[f].seen = [v \in Vaults |-> Absent]
      <3>1. \/ fetch'[f] = [todo |-> KeysOf(f), seen |-> chain]
            \/ fetch'[f] = [todo |-> {}, seen |-> [v \in Vaults |-> Absent]]
        BY <1>5, FetchEffect DEF NoAnswer
      <3>2. fetch'[f].seen = chain \/ fetch'[f].seen = [v \in Vaults |-> Absent]
        BY <3>1
      <3>. QED
        BY <1>5, <3>2, FetchEffect
    <2>2. \A v \in Vaults : chain[v] >= Absent
      BY DataFacts DEF Absent
    <2>. QED
      BY <1>i, <2>1, <2>2 DEF BehindChain
  <1>6. CASE ColdFetch \/ RefreshFetch
    BY <1>5, <1>6 DEF ColdFetch, RefreshFetch, Fetchers, Places
  <1>7. ASSUME NEW f \in Fetchers, NEW v \in Vaults, StoreFetched(f, v)
        PROVE  Goal
    <2>1. /\ DataTypeOK'
          /\ UNCHANGED <<chain, streamed>>
          /\ \A u \in Vaults : store'[u] >= store[u]
          /\ \A u \in Vaults : store'[u] = store[u] \/ store'[u] = fetch[f].seen[u]
          /\ \A g \in Fetchers \ {f} : fetch'[g] = fetch[g]
          /\ fetch'[f].seen[v] = Absent
          /\ \A u \in Vaults \ {v} : fetch'[f].seen[u] = fetch[f].seen[u]
      BY <1>7, StoreFetchedEffect
    <2>2. chain[v] >= Absent
      BY DataFacts DEF Absent
    <2>3. \A u \in Vaults : store'[u] <= chain[u]
      BY <2>1 DEF BehindChain
    <2>4. \A g \in Fetchers, u \in Vaults : fetch'[g].seen[u] <= chain[u]
      BY <2>1, <2>2 DEF BehindChain
    <2>. QED
      BY <1>i, <2>1, <2>3, <2>4 DEF BehindChain
  <1>. QED
    BY <1>1, <1>2, <1>3, <1>4, <1>6, <1>7, DataSteps

-----------------------------------------------------------------------------
(* The channel: what becomes of a report *)

\* The steps that touch it.
LEMMA NoticeSteps ==
    ASSUME [Next]_vars
    PROVE  \/ UNCHANGED <<notices, batch>>
           \/ \E v \in Vaults : Deliver(v)
           \/ Receive
           \/ \E v \in Vaults : DrainOne(v)
  BY DEF Next, vars, StreamSteps, DrainerSteps, ColdSteps, RefreshSteps, Ask, ChainWrites,
         ReadVaultLists, Subscribe, Disconnect, Drained, ColdFetch, FetchFrom, StoreFetched,
         ColdVaultsDone, ColdDone, RefreshKeys, RefreshFetch, AskToRead, Answer, GrantLock,
         Revalidate, ColdAux, ColdValidated, engineVars

\* The drainer's two moves.
LEMMA DrainerMoves ==
    ASSUME TypeOK, [Next]_vars
    PROVE  at'[Drainer] = at[Drainer] \/ Receive \/ Drained
  <1>1. CASE UNCHANGED at
    BY <1>1
  <1>2. ASSUME NEW t \in {Stream, ColdStart, Refresh}, NEW place, GoTo(t, place)
        PROVE  at'[Drainer] = at[Drainer]
    BY <1>2, TaskFacts DEF GoTo, TypeOK, Stream, ColdStart, Refresh, Drainer
  <1>3. CASE ReadVaultLists \/ Subscribe \/ Disconnect \/ RefreshKeys \/ RefreshFetch
             \/ ColdFetch \/ ColdVaultsDone \/ ColdAux \/ ColdValidated \/ ColdDone
    BY <1>2, <1>3 DEF ReadVaultLists, Subscribe, Disconnect, RefreshKeys, RefreshFetch, FetchFrom,
                      ColdFetch, ColdVaultsDone, ColdAux, ColdValidated, ColdDone
  <1>. QED
    BY <1>1, <1>3 DEF Next, vars, ChainWrites, StreamSteps, DrainerSteps, ColdSteps,
         RefreshSteps, Ask, Deliver, StoreFetched, AskToRead, Answer, GrantLock, DrainOne,
         Revalidate, engineVars

\* The drainer's part.
LEMMA BatchStep ==
    ASSUME IInv, [Next]_vars
    PROVE  BatchDone' /\ notices' \subseteq Vaults /\ batch' \subseteq Vaults
  <1>. /\ BatchDone /\ TypeOK
       /\ notices \subseteq Vaults /\ batch \subseteq Vaults
    BY DEF IInv, TypeOK
  <1>1. CASE Receive
    <2>1. at'[Drainer] = "drain"
      BY <1>1, GoToMoves DEF Receive, Places
    <2>. QED
      BY <1>1, <2>1 DEF Receive, BatchDone
  <1>2. CASE Drained
    BY <1>2 DEF Drained, BatchDone
  <1>3. CASE at'[Drainer] = at[Drainer] /\ UNCHANGED <<notices, batch>>
    BY <1>3 DEF BatchDone
  <1>4. ASSUME NEW v \in Vaults, Deliver(v)
        PROVE  BatchDone' /\ notices' \subseteq Vaults /\ batch' \subseteq Vaults
    BY <1>4 DEF Deliver, BatchDone
  <1>5. ASSUME NEW v \in Vaults, DrainOne(v)
        PROVE  BatchDone' /\ notices' \subseteq Vaults /\ batch' \subseteq Vaults
    BY <1>5 DEF DrainOne, BatchDone
  <1>. QED
    BY <1>1, <1>2, <1>3, <1>4, <1>5, NoticeSteps, DrainerMoves

\* A report is dropped only when its vault's sweep begins.
LEMMA OpenStays ==
    ASSUME IInv, [Next]_vars, NEW v \in Vaults, Open(v), ~DrainOne(v)
    PROVE  Open(v)'
  <1>. DataTypeOK /\ BehindChain /\ BatchDone
    BY DEF IInv, TypeOK, DataTypeOK
  <1>i. \A u \in Vaults : chain[u] \in Int /\ streamed[u] \in Int
    BY DataFacts
  <1>1. ASSUME v \in notices \cup batch
        PROVE  v \in notices' \cup batch'
    <2>1. CASE Receive
      BY <1>1, <2>1 DEF Receive, BatchDone
    <2>2. ASSUME NEW u \in Vaults, DrainOne(u)
          PROVE  v \in notices' \cup batch'
      BY <1>1, <2>2 DEF DrainOne
    <2>3. ASSUME NEW u \in Vaults, Deliver(u)
          PROVE  v \in notices' \cup batch'
      BY <1>1, <2>3 DEF Deliver
    <2>. QED
      BY <1>1, <2>1, <2>2, <2>3, NoticeSteps
  <1>2. ASSUME v \notin notices \cup batch
        PROVE  Open(v)'
    <2>. streamed[v] < chain[v] \/ v \in missed
      BY <1>2 DEF Open, Reported
    <2>1. CASE UNCHANGED <<chain, store, streamed, missed, fetch>>
      BY <2>1 DEF Open, Reported
    <2>2. ASSUME NEW u \in Vaults, ChainWrites(u)
          PROVE  Open(v)'
      <3>1. chain'[v] >= chain[v] /\ UNCHANGED <<streamed, missed>>
        BY <1>i, <2>2, ChainEffect
      <3>. QED
        BY <1>i, <3>1, ChainEffect, <2>2 DEF Open, Reported
    <2>3. CASE Subscribe
      BY <2>3, SubscribeEffect DEF Open, Reported
    <2>4. ASSUME NEW u \in Vaults, Deliver(u)
          PROVE  Open(v)'
      <3>1. /\ chain' = chain
            /\ \A w \in Vaults \ {u} : streamed'[w] = streamed[w]
            /\ notices' = notices \cup {u}
            /\ missed' = missed \ {u}
        BY <2>4, DeliverEffect
      <3>. QED
        BY <3>1 DEF Open, Reported
    <2>5. ASSUME NEW f \in Fetchers, NEW next \in Places, FetchFrom(f, next)
          PROVE  Open(v)'
      <3>1. UNCHANGED <<chain, streamed>> /\ missed \subseteq missed'
        BY <2>5, FetchEffect
      <3>. QED
        BY <3>1 DEF Open, Reported
    <2>6. CASE ColdFetch \/ RefreshFetch
      BY <2>5, <2>6 DEF ColdFetch, RefreshFetch, Fetchers, Places
    <2>7. ASSUME NEW f \in Fetchers, NEW u \in Vaults, StoreFetched(f, u)
          PROVE  Open(v)'
      BY <2>7 DEF StoreFetched, Open, Reported
    <2>. QED
      BY <2>1, <2>2, <2>3, <2>4, <2>6, <2>7, DataSteps
  <1>. QED
    BY <1>1, <1>2 DEF Open, Reported

\* A change of the chain opens its vault at once.
LEMMA ChainChangeOpens ==
    ASSUME IInv, [Next]_vars, NEW v \in Vaults, chain'[v] # chain[v]
    PROVE  Open(v)'
  <1>. DataTypeOK /\ BehindChain
    BY DEF IInv, TypeOK, DataTypeOK
  <1>1. PICK u \in Vaults : ChainWrites(u)
    <2>1. chain' # chain
      OBVIOUS
    <2>. QED
      BY <2>1, DataSteps DEF Subscribe, Deliver, ColdFetch, RefreshFetch, FetchFrom, StoreFetched
  <1>2. u = v /\ chain'[v] = chain[v] + 1 /\ streamed' = streamed
    BY <1>1, ChainEffect
  <1>. QED
    BY <1>2, DataFacts DEF BehindChain, Open, Reported

-----------------------------------------------------------------------------
(* What the store holds once the cold start has read *)

\* The cold start's answers reach the store, or leave a miss behind.
LEMMA StoredStep ==
    ASSUME IInv, [Next]_vars
    PROVE  ColdIsStored' /\ StoredOrDue'
  <1>. DataTypeOK /\ BehindChain /\ ColdIsStored /\ StoredOrDue /\ TypeOK
    BY DEF IInv, TypeOK, DataTypeOK
  <1>c. ColdStart \in Fetchers /\ Refresh \in Fetchers /\ ColdStart # Refresh
    BY DEF Fetchers, ColdStart, Refresh
  <1>i. \A v \in Vaults : chain[v] \in Int /\ streamed[v] \in Int /\ store[v] \in Int
    BY DataFacts
  <1>v. Streamed \cap ColdVaults \subseteq Vaults
    BY EngineAssumption
  <1>1. CASE ColdFetch
    <2>1. FetchFrom(ColdStart, "vaults_stored") /\ at'[ColdStart] = "vaults_stored"
      BY <1>1, GoToMoves DEF ColdFetch, FetchFrom, Places
    <2>2. /\ UNCHANGED <<chain, store, streamed>>
          /\ \/ fetch'[ColdStart] = [todo |-> KeysOf(ColdStart), seen |-> chain]
             \/ missed' = missed \cup KeysOf(ColdStart)
      BY <1>c, <2>1, FetchEffect DEF Places
    <2>3. KeysOf(ColdStart) = ColdVaults
      BY DEF KeysOf
    <2>. QED
      BY <2>1, <2>2, <2>3 DEF ColdIsStored, StoredOrDue
  <1>2. CASE ~ColdFetch
    <2>a. at'[ColdStart] \notin {"vaults", "vaults_stored"} => fetch[ColdStart].todo = {}
      <3>1. ColdValidated => at[ColdStart] = "validate"
        BY DEF ColdValidated, EndValidateAll, IInv, SweepHasOwner
      <3>. QED
        BY <1>2, <3>1, PlaceSteps DEF ColdIsStored, ColdVaultsDone, Stored, ColdAux, ColdDone
    <2>b. at[ColdStart] = "vaults" => at'[ColdStart] = "vaults"
      <3>1. ColdValidated => at[ColdStart] = "validate"
        BY DEF ColdValidated, EndValidateAll, IInv, SweepHasOwner
      <3>. QED
        BY <1>2, <3>1, PlaceSteps DEF ColdVaultsDone, ColdAux, ColdDone
    <2>. DEFINE Goal == fetch'[ColdStart].todo \subseteq fetch[ColdStart].todo /\ StoredOrDue'
    <2>1. ASSUME UNCHANGED <<chain, store, streamed, missed, fetch>>
          PROVE  Goal
      BY <2>1, <2>b DEF StoredOrDue
    <2>2. ASSUME NEW u \in Vaults, ChainWrites(u)
          PROVE  Goal
      <3>1. /\ chain'[u] = chain[u] + 1
            /\ \A v \in Vaults \ {u} : chain'[v] = chain[v]
            /\ UNCHANGED <<store, streamed, missed, fetch>>
        BY <2>2, ChainEffect
      <3>2. streamed'[u] < chain'[u]
        BY <1>i, <3>1 DEF BehindChain
      <3>. QED
        BY <1>v, <2>b, <3>1, <3>2 DEF StoredOrDue
    <2>3. ASSUME Subscribe
          PROVE  Goal
      <3>1. /\ UNCHANGED <<chain, store, fetch>>
            /\ missed \subseteq missed'
            /\ \A v \in Vaults : streamed'[v] = streamed[v] \/ v \in missed'
        BY <2>3, SubscribeEffect
      <3>. QED
        BY <1>v, <2>b, <3>1 DEF StoredOrDue
    <2>4. ASSUME NEW u \in Vaults, Deliver(u)
          PROVE  Goal
      <3>1. /\ UNCHANGED <<chain, fetch>>
            /\ streamed[u] < chain[u]
            /\ streamed'[u] = streamed[u] + 1
            /\ \A v \in Vaults \ {u} : streamed'[v] = streamed[v] /\ store'[v] = store[v]
            /\ store'[u] >= streamed'[u]
            /\ store'[u] = store[u] \/ store'[u] = streamed'[u]
            /\ missed' = missed \ {u}
        BY <2>4, DeliverEffect
      <3>2. streamed'[u] < chain'[u] \/ store'[u] = chain'[u]
        BY <1>i, <3>1 DEF BehindChain
      <3>. QED
        BY <1>v, <2>b, <3>1, <3>2 DEF StoredOrDue
    <2>5. ASSUME RefreshFetch
          PROVE  Goal
      <3>1. FetchFrom(Refresh, "tick")
        BY <2>5 DEF RefreshFetch
      <3>2. /\ UNCHANGED <<chain, store, streamed>>
            /\ fetch'[ColdStart] = fetch[ColdStart]
            /\ missed' = missed
        BY <1>c, <3>1, FetchEffect DEF Places
      <3>. QED
        BY <2>b, <3>2 DEF StoredOrDue
    <2>6. ASSUME NEW f \in Fetchers, NEW u \in Vaults, StoreFetched(f, u)
          PROVE  Goal
      <3>1. /\ UNCHANGED <<chain, streamed, missed, at>>
            /\ store'[u] >= fetch[f].seen[u]
            /\ \A g \in Fetchers \ {f} : fetch'[g] = fetch[g]
            /\ fetch'[f].todo = fetch[f].todo \ {u}
            /\ \A v \in Vaults \ {u} : fetch'[f].seen[v] = fetch[f].seen[v]
        BY <2>6, StoreFetchedEffect
      <3>2. \A v \in Vaults : store'[v] >= store[v] /\ store'[v] <= chain'[v] /\ store'[v] \in Int
        BY DataStep, DataFacts, StoreFetchedEffect, <2>6 DEF DataTypeOK
      <3>3. \A v \in Vaults : store[v] = chain[v] => store'[v] = chain'[v]
        BY <1>i, <3>1, <3>2
      <3>4. f = ColdStart /\ fetch[ColdStart].seen[u] = chain[u] => store'[u] = chain'[u]
        BY <1>i, <3>1, <3>2
      <3>5. \A v \in Vaults :
               (v \in fetch[ColdStart].todo /\ fetch[ColdStart].seen[v] = chain[v])
                   => \/ v \in fetch'[ColdStart].todo /\ fetch'[ColdStart].seen[v] = chain'[v]
                      \/ store'[v] = chain'[v]
        BY <1>c, <3>1, <3>4
      <3>6. fetch'[ColdStart].todo \subseteq fetch[ColdStart].todo
        BY <1>c, <3>1
      <3>. QED
        BY <1>v, <2>b, <3>1, <3>3, <3>5, <3>6 DEF StoredOrDue
    <2>7. Goal
      BY <1>2, <2>1, <2>2, <2>3, <2>4, <2>5, <2>6, DataSteps
    <2>. QED
      BY <2>7, <2>a DEF ColdIsStored
  <1>. QED
    BY <1>1, <1>2

\* After its validation has begun, a followed pool's vault is stored as it is
\* on the chain, unless a report or a miss is open for it.
LEMMA StoredNow ==
    ASSUME IInv, Validating, NEW p \in Followed, Dex[p] # "Pumpfun AMM",
           NEW v \in VaultsOf(p), ~Open(v)
    PROVE  v \in Vaults /\ store[v] = chain[v]
  <1>1. p \in Pools /\ v \in Streamed
    BY DEF Followed
  <1>2. v \in ColdVaults
    BY <1>1 DEF ColdVaults
  <1>3. ColdIsStored /\ StoredOrDue
    BY DEF IInv
  <1>. QED
    BY <1>1, <1>2, <1>3, EngineAssumption
       DEF StoredOrDue, ColdIsStored, Validating, Open, Reported

-----------------------------------------------------------------------------
(* The flags *)

\* Reports stay open while the data stands still and nothing is drained.
LEMMA RevalidateEffect ==
    ASSUME IInv, Revalidate
    PROVE  /\ UNCHANGED <<chain, store, at>>
           /\ \A v \in Vaults : Open(v)' = Open(v)
           /\ Validating' = Validating
           /\ ChainBalances' = ChainBalances
  BY DEF Revalidate, engineVars, Open, Reported, Validating, ChainBalances

\* Validating is begun by ColdAux and by nothing else.
LEMMA ValidatingBefore ==
    ASSUME IInv, [Next]_vars, Validating', ~ColdAux
    PROVE  Validating
  <1>1. ColdValidated => at[ColdStart] = "validate"
    BY DEF ColdValidated, EndValidateAll, IInv, SweepHasOwner
  <1>. QED
    BY <1>1, PlaceSteps DEF IInv, Validating, ColdDone

\* A flag that is right stays right unless a report is opened for its pool.
LEMMA RightStays ==
    ASSUME IInv, [Next]_vars, NEW p \in Pools,
           swappable[p] = CheckSwappable(p, ChainBalances), swappable'[p] = swappable[p]
    PROVE  \/ swappable'[p] = CheckSwappable(p, ChainBalances')
           \/ \E v \in VaultsOf(p) : Open(v)'
  <1>1. VaultsOf(p) \subseteq Vaults
    BY RegistryAssumption DEF VaultsOf
  <1>2. CASE \E v \in VaultsOf(p) : chain'[v] # chain[v]
    BY <1>1, <1>2, ChainChangeOpens
  <1>3. CASE \A v \in VaultsOf(p) : chain'[v] = chain[v]
    <2>1. \A v \in VaultsOf(p) : ChainBalances'[v] = ChainBalances[v]
      BY <1>1, <1>3 DEF ChainBalances
    <2>2. CheckSwappable(p, ChainBalances') = CheckSwappable(p, ChainBalances)
      BY <2>1 DEF CheckSwappable
    <2>. QED
      BY <2>2
  <1>. QED
    BY <1>2, <1>3

\* The flags' part while the registry stands still.
LEMMA FlagsStandStill ==
    ASSUME IInv, [Next]_vars, UNCHANGED registryVars
    PROVE  /\ HalfRead'
           /\ Validating' => \A p \in Followed : FlagIsRightOrOpen(p)'
  <1>1. ~ColdAux
    BY DEF ColdAux, BeginValidateAll, registryVars, NoSweep, IInv, SweepHasOwner, Sweeping
  <1>2. \A v \in Vaults : ~DrainOne(v)
    BY DEF DrainOne, BeginVaultUpdate, registryVars, NoSweep, Sweeping
  <1>3. \A v \in Vaults : Open(v) => Open(v)'
    BY <1>2, OpenStays
  <1>4. Validating' => Validating
    BY <1>1, ValidatingBefore
  <1>5. \A p \in Pools : VaultsOf(p) \subseteq Vaults /\ QuoteVault[p] \in VaultsOf(p)
    BY RegistryAssumption DEF VaultsOf
  <1>6. ASSUME NEW p \in Followed, FlagIsRightOrOpen(p)
        PROVE  FlagIsRightOrOpen(p)'
    <2>. p \in Pools
      BY DEF Followed
    <2>1. UNCHANGED <<swappable, sweep>>
      BY DEF registryVars
    <2>2. CASE swappable[p] = CheckSwappable(p, ChainBalances)
      BY <2>1, <2>2, RightStays DEF FlagIsRightOrOpen
    <2>3. CASE p \in sweep.todo
      BY <2>1, <2>3 DEF FlagIsRightOrOpen
    <2>4. CASE \E v \in VaultsOf(p) : Open(v)
      BY <1>3, <1>5, <2>4 DEF FlagIsRightOrOpen
    <2>. QED
      BY <1>6, <2>2, <2>3, <2>4 DEF FlagIsRightOrOpen
  <1>7. HalfRead'
    <2>. SUFFICES ASSUME NEW p \in sweep'.half
                  PROVE  /\ NeedsVaults(p)
                         /\ (Validating' /\ p \in Followed) =>
                                \/ Funded(chain'[QuoteVault[p]])
                                \/ \E v \in VaultsOf(p) : Open(v)'
      BY DEF HalfRead
    <2>1. p \in sweep.half /\ p \in Pools
      BY DEF registryVars, IInv, TypeOK, RegistryTypeOK
    <2>2. /\ NeedsVaults(p)
          /\ (Validating /\ p \in Followed) =>
                 Funded(chain[QuoteVault[p]]) \/ \E v \in VaultsOf(p) : Open(v)
      BY <2>1 DEF IInv, HalfRead
    <2>3. chain'[QuoteVault[p]] = chain[QuoteVault[p]] \/ Open(QuoteVault[p])'
      BY <1>5, <2>1, ChainChangeOpens
    <2>. QED
      BY <1>3, <1>4, <1>5, <2>1, <2>2, <2>3
  <1>. QED
    BY <1>4, <1>6, <1>7 DEF IInv

\* The flags' part when the drainer takes a vault from its batch.
LEMMA FlagsDrainOne ==
    ASSUME IInv, [Next]_vars, NEW v \in Vaults, DrainOne(v)
    PROVE  /\ HalfRead'
           /\ Validating' => \A p \in Followed : FlagIsRightOrOpen(p)'
  <1>1. /\ sweep = NoSweep
        /\ UNCHANGED <<swappable, chain, at>>
        /\ batch' = batch \ {v}
        /\ v \in batch
        /\ sweep' = [op |-> "vault", todo |-> PoolsOf(v), half |-> {}, found |-> {}, changed |-> FALSE]
    BY DEF DrainOne, BeginVaultUpdate, NoSweep, IInv, SweepHasOwner
  <1>2. \A u \in Vaults \ {v} : Open(u) => Open(u)'
    <2>1. \A u \in Vaults \ {v} : ~DrainOne(u)
      BY <1>1 DEF DrainOne
    <2>. QED
      BY <2>1, OpenStays
  <1>3. ASSUME NEW p \in Followed, FlagIsRightOrOpen(p)
        PROVE  FlagIsRightOrOpen(p)'
    <2>. p \in Pools /\ VaultsOf(p) \subseteq Vaults
      BY RegistryAssumption DEF Followed, VaultsOf
    <2>1. CASE v \in VaultsOf(p)
      BY <1>1, <2>1 DEF PoolsOf, FlagIsRightOrOpen
    <2>2. CASE v \notin VaultsOf(p)
      <3>1. p \notin sweep.todo
        BY <1>1 DEF NoSweep
      <3>2. CASE swappable[p] = CheckSwappable(p, ChainBalances)
        BY <1>1, <3>2, RightStays DEF FlagIsRightOrOpen
      <3>3. CASE \E u \in VaultsOf(p) : Open(u)
        BY <1>2, <2>2, <3>3 DEF FlagIsRightOrOpen
      <3>. QED
        BY <1>3, <3>1, <3>2, <3>3 DEF FlagIsRightOrOpen
    <2>. QED
      BY <2>1, <2>2
  <1>. QED
    BY <1>1, <1>3 DEF IInv, HalfRead, Validating

\* What a sweep decides is right, or open, when the cold start has read the
\* vaults: a pool is read against the chain even though the store moves.
LEMMA FlagsRevalidate ==
    ASSUME IInv, Revalidate
    PROVE  /\ HalfRead'
           /\ Validating' => \A p \in Followed : FlagIsRightOrOpen(p)'
  <1>1. /\ UNCHANGED <<chain, store, at>>
        /\ \A v \in Vaults : Open(v)' = Open(v)
        /\ Validating' = Validating
        /\ ChainBalances' = ChainBalances
    BY RevalidateEffect
  <1>2. RegInv
    BY DEF IInv, TypeOK, RegInv, SweepHasOwner
  <1>3. \A p \in Pools : /\ VaultsOf(p) \subseteq Vaults
                         /\ QuoteVault[p] \in VaultsOf(p) /\ BaseVault[p] \in VaultsOf(p)
    BY RegistryAssumption DEF VaultsOf
  <1>4. ASSUME NEW p \in Followed, Validating, FlagIsRightOrOpen(p), swappable'[p] = swappable[p],
               p \in sweep.todo => p \in sweep'.todo
        PROVE  FlagIsRightOrOpen(p)'
    <2>. p \in Pools
      BY DEF Followed
    <2>. QED
      BY <1>1, <1>3, <1>4 DEF FlagIsRightOrOpen
  <1>5. CASE EndVaultUpdate
    <2>1. sweep.todo = {} /\ sweep' = NoSweep /\ swappable' = swappable
      BY <1>5 DEF EndVaultUpdate
    <2>. QED
      BY <1>1, <1>4, <2>1 DEF IInv, HalfRead, NoSweep
  <1>6. ASSUME NEW p \in Pools, p \in sweep.todo, NEW now \in BOOLEAN, Decide(p, now),
               (Validating /\ p \in Followed) =>
                   now = CheckSwappable(p, ChainBalances) \/ \E v \in VaultsOf(p) : Open(v)
        PROVE  /\ HalfRead'
               /\ Validating' => \A r \in Followed : FlagIsRightOrOpen(r)'
    <2>1. /\ swappable' = [swappable EXCEPT ![p] = now]
          /\ sweep'.todo = sweep.todo \ {p}
          /\ sweep'.half = {}
      BY <1>2, <1>6, DecideKeeps
    <2>2. ASSUME NEW r \in Followed, Validating
          PROVE  FlagIsRightOrOpen(r)'
      <3>. r \in Pools /\ FlagIsRightOrOpen(r) /\ swappable \in [Pools -> BOOLEAN]
        BY <2>2 DEF Followed, IInv, TypeOK, RegistryTypeOK
      <3>1. CASE r = p
        <4>1. swappable'[r] = now
          BY <2>1, <3>1
        <4>. QED
          BY <1>1, <1>3, <1>6, <2>2, <3>1, <4>1 DEF FlagIsRightOrOpen
      <3>2. CASE r # p
        BY <1>4, <2>1, <2>2, <3>2
      <3>. QED
        BY <3>1, <3>2
    <2>. QED
      BY <1>1, <2>1, <2>2 DEF HalfRead
  <1>7. CASE Check(Balances)
    <2>1. PICK p \in Pools : CheckFirst(p, Balances) \/ CheckSecond(p, Balances)
      BY <1>7 DEF Check
    <2>2. NeedsVaults(p) => Dex[p] # "Pumpfun AMM"
      BY DEF NeedsVaults
    <2>3. ASSUME Validating, p \in Followed, NeedsVaults(p), NEW v \in VaultsOf(p), ~Open(v)
          PROVE  Balances[v] = ChainBalances[v]
      BY <2>2, <2>3, StoredNow DEF Balances, ChainBalances
    <2>4. \A v \in VaultsOf(p) : Balances[v] \in BOOLEAN /\ ChainBalances[v] = Funded(chain[v])
      BY <1>3 DEF Balances, ChainBalances, Funded
    <2>5. CASE CheckFirst(p, Balances) /\ NeedsVaults(p) /\ Balances[QuoteVault[p]]
      <3>1. /\ sweep' = [sweep EXCEPT !.half = {p}]
            /\ UNCHANGED swappable
        BY <2>5 DEF CheckFirst
      <3>2. sweep'.half = {p} /\ sweep'.todo = sweep.todo
        BY <3>1 DEF IInv, TypeOK, RegistryTypeOK
      <3>3. (Validating /\ p \in Followed) =>
                Funded(chain[QuoteVault[p]]) \/ \E v \in VaultsOf(p) : Open(v)
        BY <1>3, <2>3, <2>4, <2>5
      <3>4. HalfRead'
        BY <1>1, <1>3, <2>5, <3>2, <3>3 DEF HalfRead
      <3>. QED
        BY <1>1, <1>4, <3>1, <3>2, <3>4 DEF IInv
    <2>6. CASE CheckFirst(p, Balances) /\ ~(NeedsVaults(p) /\ Balances[QuoteVault[p]])
      <3>1. p \in sweep.todo /\ Decide(p, Dex[p] = "Pumpfun AMM")
        BY <2>6 DEF CheckFirst
      <3>2. (Validating /\ p \in Followed) =>
                \/ (Dex[p] = "Pumpfun AMM") = CheckSwappable(p, ChainBalances)
                \/ \E v \in VaultsOf(p) : Open(v)
        BY <1>3, <2>2, <2>3, <2>4, <2>6 DEF CheckSwappable
      <3>. QED
        BY <1>6, <3>1, <3>2
    <2>7. CASE CheckSecond(p, Balances)
      <3>1. p \in sweep.half /\ p \in sweep.todo /\ Decide(p, Balances[BaseVault[p]])
        BY <2>7 DEF CheckSecond, IInv, TypeOK, RegistryTypeOK
      <3>2. /\ NeedsVaults(p)
            /\ (Validating /\ p \in Followed) =>
                   Funded(chain[QuoteVault[p]]) \/ \E v \in VaultsOf(p) : Open(v)
        BY <3>1 DEF IInv, HalfRead
      <3>3. (Validating /\ p \in Followed) =>
                \/ Balances[BaseVault[p]] = CheckSwappable(p, ChainBalances)
                \/ \E v \in VaultsOf(p) : Open(v)
        <4>1. VaultsOf(p) = {QuoteVault[p], BaseVault[p]}
          BY DEF VaultsOf
        <4>2. CheckSwappable(p, ChainBalances) =
                  (ChainBalances[QuoteVault[p]] /\ ChainBalances[BaseVault[p]])
          BY <2>2, <3>2, <4>1 DEF CheckSwappable
        <4>. QED
          BY <1>3, <2>3, <2>4, <3>2, <4>2
      <3>. QED
        BY <1>3, <1>6, <2>4, <3>1, <3>3
    <2>. QED
      BY <2>1, <2>5, <2>6, <2>7
  <1>. QED
    BY <1>5, <1>7 DEF Revalidate

\* The flags' part of the invariant.
LEMMA FlagStep ==
    ASSUME IInv, [Next]_vars
    PROVE  /\ HalfRead'
           /\ Validating' => \A p \in Followed : FlagIsRightOrOpen(p)'
  <1>1. CASE ColdAux
    <2>1. sweep' = [op |-> "all", todo |-> Pools, half |-> {}, found |-> {}, changed |-> FALSE]
      BY <1>1 DEF ColdAux, BeginValidateAll, NoSweep
    <2>. QED
      BY <2>1 DEF HalfRead, FlagIsRightOrOpen, Followed
  <1>2. CASE ColdValidated
    <2>1. /\ sweep.todo = {} /\ sweep' = NoSweep /\ swappable' = swappable
          /\ at[ColdStart] = "validate"
          /\ UNCHANGED <<chain, streamed, missed, notices, batch>>
      BY <1>2 DEF ColdValidated, EndValidateAll, IInv, SweepHasOwner
    <2>2. Validating
      BY <2>1 DEF Validating
    <2>3. \A p \in Followed : FlagIsRightOrOpen(p)'
      BY <2>1, <2>2 DEF IInv, FlagIsRightOrOpen, Open, Reported, ChainBalances, NoSweep
    <2>. QED
      BY <2>1, <2>3 DEF HalfRead, NoSweep
  <1>. QED
    BY <1>1, <1>2, RegistrySteps, FlagsStandStill, FlagsDrainOne, FlagsRevalidate

-----------------------------------------------------------------------------
(* The theorems *)

\* The invariant holds when the engine starts.
LEMMA InvInit == Init => IInv
  <1>. SUFFICES ASSUME Init PROVE IInv
    OBVIOUS
  <1>1. PICK funded \in [Pools -> BOOLEAN] :
           swappable = [p \in Pools |->
               Dex[p] = "Pumpfun AMM" \/ (NeedsVaults(p) /\ funded[p])]
    BY DEF Init, RegistryInit
  <1>2. /\ swappable_count = Cardinality(Flagged)
        /\ cached_swappable = Flagged
        /\ sweep = NoSweep
    BY DEF Init, RegistryInit
  <1>3. swappable \in [Pools -> BOOLEAN]
    BY <1>1
  <1>4. RegistryTypeOK /\ SweepInStep
    BY <1>2, <1>3, FlaggedIsFinite
       DEF RegistryTypeOK, SweepInStep, InStep, Sweeping, NoSweep, Flagged
  <1>5. LockTypeOK /\ Exclusive
    BY DEF Init, LockInit, LockTypeOK, Exclusive
  <1>6. /\ at \in [Tasks \ Quoters -> Places]
        /\ at[ColdStart] = "vaults"
        /\ at[Drainer] = "recv"
    <2>1. Tasks \ Quoters = {Drainer, Stream, ColdStart, Refresh}
      BY EngineAssumption
    <2>2. at = [t \in Tasks \ Quoters |->
                   CASE t = Drainer -> "recv"
                     [] t = Stream -> "connect"
                     [] t = ColdStart -> "vaults"
                     [] t = Refresh -> "keys"]
      BY DEF Init
    <2>. QED
      BY <2>1, <2>2 DEF Places, Drainer, Stream, ColdStart, Refresh
  <1>7. DataTypeOK
    <2>1. FirstVersion \in [Vaults -> Versions]
      BY EngineAssumption DEF Versions
    <2>2. NoAnswer \in [todo : SUBSET Vaults, seen : [Vaults -> Versions \cup {Absent}]]
      BY DEF NoAnswer
    <2>. QED
      BY <2>1, <2>2 DEF Init, DataTypeOK
  <1>8. BehindChain
    <2>1. \A f \in Fetchers, v \in Vaults : fetch[f].seen[v] = Absent
      BY DEF Init, NoAnswer
    <2>. QED
      BY <2>1, EngineAssumption DEF Init, BehindChain, Absent
  <1>9. notices = {} /\ batch = {} /\ sweep.half = {} /\ sweep.op = "none"
    BY <1>2 DEF Init, NoSweep
  <1>. QED
    BY <1>2, <1>4, <1>5, <1>6, <1>7, <1>8, <1>9
       DEF IInv, TypeOK, DataTypeOK, SweepHasOwner, BatchDone, ColdIsStored, StoredOrDue,
           HalfRead, Validating, Sweeping

\* Every step keeps it.
LEMMA InvStep == IInv /\ [Next]_vars => IInv'
  <1>. SUFFICES ASSUME IInv, [Next]_vars PROVE IInv'
    OBVIOUS
  <1>1. RegistryTypeOK' /\ SweepInStep'
    BY RegistryStep DEF RegInv
  <1>2. LockTypeOK' /\ Exclusive' /\ SweepHasOwner'
    BY LockStep
  <1>3. DataTypeOK' /\ BehindChain'
    BY DataStep
  <1>4. BatchDone' /\ notices' \subseteq Vaults /\ batch' \subseteq Vaults
    BY BatchStep
  <1>5. at' \in [Tasks \ Quoters -> Places]
    BY PlaceSteps DEF IInv
  <1>6. TypeOK'
    BY <1>1, <1>2, <1>3, <1>4, <1>5 DEF TypeOK, DataTypeOK
  <1>. QED
    BY <1>1, <1>2, <1>3, <1>4, <1>6, StoredStep, FlagStep DEF IInv

\* The inductive invariant holds in every reachable state.
LEMMA Invariance == Spec => []IInv
  BY InvInit, InvStep, PTL DEF Spec

\* The engine's variables keep their types.
THEOREM TypeCorrect == Spec => []TypeOK
  <1>1. IInv => TypeOK
    BY DEF IInv
  <1>. QED
    BY <1>1, Invariance, PTL

\* Whoever holds a read guard sees a count and a set that are those of the
\* flags, whichever validations ran before and wherever the store moved.
THEOREM ReadersSeeTheFlags == Spec => []ReadersSeeFlags
  <1>1. IInv => ReadersSeeFlags
    <2>. SUFFICES ASSUME IInv, NEW t \in Tasks, Holds(t, "read")
                  PROVE  InStep
      BY DEF ReadersSeeFlags, InStep
    <2>1. \A u \in Tasks : ~Holds(u, "write")
      BY DEF IInv, Exclusive, Holds
    <2>2. Sweeping("none")
      BY <2>1, TaskFacts DEF IInv, TypeOK, RegistryTypeOK, SweepHasOwner, Sweeping
    <2>. QED
      BY <2>2 DEF IInv, SweepInStep
  <1>. QED
    BY <1>1, Invariance, PTL

\* No wake-up is lost: after the cold start's validation a wrong flag of a
\* followed pool has a report on its way, a miss, or a sweep to come.
THEOREM NoWakeUpIsLost == Spec => []WrongFlagIsReported
  <1>1. IInv => WrongFlagIsReported
    BY DEF IInv, WrongFlagIsReported, Validating
  <1>. QED
    BY <1>1, Invariance, PTL

\* A stored balance moves forward only, and never ahead of the chain.
THEOREM StoreForward == Spec => StoreMovesForward
  <1>1. IInv /\ [Next]_vars => [\A v \in Vaults : store'[v] >= store[v] /\ store'[v] <= chain'[v]]_vars
    BY DataStep
  <1>. QED
    BY <1>1, Invariance, PTL DEF Spec, StoreMovesForward
=============================================================================
