---------------------------- MODULE AccountStore ----------------------------
(***************************************************************************)
(* The in-memory account store (crates/engine/src/account_store.rs): a     *)
(* sharded map written at the same time by the gRPC consumer, the cold     *)
(* start and the hot-vault refresh loop.  upsert is not one step: the      *)
(* write happens under the entry's shard lock, and the key counter and the *)
(* high-water slot are separate relaxed atomics touched after the lock is  *)
(* released.                                                               *)
(***************************************************************************)
EXTENDS Integers, FiniteSets

CONSTANTS
    Keys,      \* account addresses
    Writers,   \* threads that may be inside upsert at the same time
    Data,      \* account contents (the store never looks inside)
    MaxSlot,   \* bound on slots
    Absent,    \* a vacant entry of the map
    Idle       \* a writer that is not inside upsert

Slots == 0..MaxSlot

AccountData == [data : Data, slot : Slots]

\* A call of upsert in progress, and the next thing it will do: take the
\* entry, add to account_count, load last_slot, or store last_slot.
Call == [at : {"entry", "count", "load", "store"},
         key : Keys, data : Data, slot : Slots]

ASSUME StoreAssumption ==
    /\ IsFiniteSet(Keys)
    /\ IsFiniteSet(Writers)
    /\ MaxSlot \in Nat
    /\ Absent \notin AccountData
    /\ Idle \notin Call

VARIABLES
    accounts,       \* accounts[k]: the entry of k, or Absent
    account_count,  \* AtomicU64 behind len()
    last_slot,      \* AtomicU64 behind last_slot()
    call            \* call[w]: the upsert writer w is in, or Idle

vars == <<accounts, account_count, last_slot, call>>

Init ==
    /\ accounts = [k \in Keys |-> Absent]
    /\ account_count = 0
    /\ last_slot = 0
    /\ call = [w \in Writers |-> Idle]

At(w, place) == call[w] # Idle /\ call[w].at = place

GoTo(w, place) == call' = [call EXCEPT ![w].at = place]

Return(w) == call' = [call EXCEPT ![w] = Idle]

\* The slot guard: an entry accepts a write unless it holds a newer slot.
Accepts(entry, slot) == entry # Absent => slot >= entry.slot

\* upsert(pubkey, data, owner, lamports, slot) is called.
Begin(w, k, d, s) ==
    /\ call[w] = Idle
    /\ call' = [call EXCEPT ![w] = [at |-> "entry", key |-> k, data |-> d, slot |-> s]]
    /\ UNCHANGED <<accounts, account_count, last_slot>>

\* Occupied entry with a newer slot: the write is stale and upsert returns.
DropStale(w) ==
    /\ At(w, "entry")
    /\ ~Accepts(accounts[call[w].key], call[w].slot)
    /\ Return(w)
    /\ UNCHANGED <<accounts, account_count, last_slot>>

\* Mutant of WriteEntry: is_new is not reset on an occupied entry.
WriteEntryAlwaysNew(w) ==
    LET c == call[w] IN
    /\ At(w, "entry")
    /\ Accepts(accounts[c.key], c.slot)
    /\ accounts' = [accounts EXCEPT ![c.key] = [data |-> c.data, slot |-> c.slot]]
    /\ GoTo(w, "count")
    /\ UNCHANGED <<account_count, last_slot>>

\* Vacant entry, or occupied by a slot that is not newer: insert under the
\* shard lock.  Only a new key goes on to count itself.
WriteEntry(w) ==
    LET c == call[w] IN
    /\ At(w, "entry")
    /\ Accepts(accounts[c.key], c.slot)
    /\ accounts' = [accounts EXCEPT ![c.key] = [data |-> c.data, slot |-> c.slot]]
    /\ GoTo(w, IF accounts[c.key] = Absent THEN "count" ELSE "load")
    /\ UNCHANGED <<account_count, last_slot>>

\* fetch_add, atomic but outside the lock.
AddCount(w) ==
    /\ At(w, "count")
    /\ account_count' = account_count + 1
    /\ GoTo(w, "load")
    /\ UNCHANGED <<accounts, last_slot>>

\* Load last_slot and compare; a slot that is no newer returns here.
LoadLastSlot(w) ==
    /\ At(w, "load")
    /\ IF call[w].slot > last_slot THEN GoTo(w, "store") ELSE Return(w)
    /\ UNCHANGED <<accounts, account_count, last_slot>>

\* Mutant of StoreLastSlot: the resume point is kept instead of the slot.
StoreResumeSlot(w) ==
    /\ At(w, "store")
    /\ last_slot' = call[w].slot + 1
    /\ Return(w)
    /\ UNCHANGED <<accounts, account_count>>

\* The store of last_slot: other writers may have moved it since the load.
StoreLastSlot(w) ==
    /\ At(w, "store")
    /\ last_slot' = call[w].slot
    /\ Return(w)
    /\ UNCHANGED <<accounts, account_count>>

Next ==
    \E w \in Writers :
        \/ \E k \in Keys, d \in Data, s \in Slots : Begin(w, k, d, s)
        \/ DropStale(w)
        \/ WriteEntry(w)
        \/ AddCount(w)
        \/ LoadLastSlot(w)
        \/ StoreLastSlot(w)

Spec == Init /\ [][Next]_vars

-----------------------------------------------------------------------------
Present == {k \in Keys : accounts[k] # Absent}

\* Writers that have inserted a new key and not yet counted it.
Uncounted == {w \in Writers : At(w, "count")}

TypeOK ==
    /\ accounts \in [Keys -> AccountData \cup {Absent}]
    /\ account_count \in Nat
    /\ last_slot \in Slots
    /\ call \in [Writers -> Call \cup {Idle}]

\* len() plus the insertions still to be counted is the number of keys: two
\* writers racing on one vacant key count it once, and none is lost.
CountMatchesKeys ==
    account_count + Cardinality(Uncounted) = Cardinality(Present)

\* A slot reached by some stored entry.
Reached(s) == \E k \in Keys : accounts[k] # Absent /\ s <= accounts[k].slot

\* last_slot never runs ahead of the stored data, however the loads and
\* stores of several writers interleave: the stream, which resumes from the
\* slot after it (streaming.rs:220-224), never resumes past what it holds.
LastSlotReached == last_slot = 0 \/ Reached(last_slot)

\* What makes LastSlotReached inductive: a call that has written its entry
\* keeps its slot reached until it returns.
WrittenSlotReached ==
    \A w \in Writers :
        (call[w] # Idle /\ call[w].at # "entry") => Reached(call[w].slot)

IInv == TypeOK /\ CountMatchesKeys /\ WrittenSlotReached /\ LastSlotReached

\* A stale write is dropped: no step moves a stored key to an older slot or
\* removes it, whichever writer comes last (account_store.rs:29-32).
KeepsNewest ==
    \A k \in Keys :
        accounts[k] # Absent =>
            accounts'[k] # Absent /\ accounts'[k].slot >= accounts[k].slot

SlotsNeverRegress == [][KeepsNewest]_vars

\* upsert is linearizable at its entry write: with the uncounted insertions
\* added to the counter, every step is a step of the abstract store.
Abstract == INSTANCE LatestStore WITH
    view <- accounts,
    size <- account_count + Cardinality(Uncounted),
    mark <- last_slot

ImplementsLatestStore == Abstract!Spec
=============================================================================
