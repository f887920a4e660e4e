------------------------ MODULE AccountStore_proofs ------------------------
(***************************************************************************)
(* Proofs about AccountStore for every finite set of keys and writers,     *)
(* every set of contents and every bound on slots.                         *)
(***************************************************************************)
EXTENDS AccountStore, FiniteSetTheorems, TLAPS

\* An entry of the map is never the value of a vacant one, and a call in
\* progress is never the value of an idle writer.
LEMMA Distinct ==
    /\ \A d \in Data, s \in Slots : [data |-> d, slot |-> s] # Absent
    /\ \A c \in Call : c # Idle
    /\ 0 \in Slots
    /\ Slots \subseteq Nat
  BY StoreAssumption DEF AccountData, Slots

\* Moving a call in progress to another place keeps it a call with the same
\* arguments, and no other writer moves.
LEMMA CallMoves ==
    ASSUME call \in [Writers -> Call \cup {Idle}],
           NEW w \in Writers, call[w] # Idle,
           NEW place \in {"entry", "count", "load", "store"}, GoTo(w, place)
    PROVE  /\ call' \in [Writers -> Call \cup {Idle}]
           /\ call'[w] \in Call /\ call'[w] # Idle
           /\ call'[w].at = place
           /\ call'[w].key = call[w].key
           /\ call'[w].slot = call[w].slot
           /\ \A v \in Writers : v # w => call'[v] = call[v]
           /\ \A p : At(w, p)' <=> p = place
           /\ \A v \in Writers : v # w => \A p : At(v, p)' <=> At(v, p)
  <1>1. call[w] \in Call
    OBVIOUS
  <1>2. PICK c : c = [call[w] EXCEPT !.at = place]
    OBVIOUS
  <1>3. /\ c \in Call
        /\ c.at = place /\ c.key = call[w].key /\ c.slot = call[w].slot
    BY <1>1, <1>2 DEF Call
  <1>4. call' = [call EXCEPT ![w] = c]
    BY <1>2 DEF GoTo
  <1>5. c # Idle
    BY <1>3, Distinct
  <1>6. /\ call' \in [Writers -> Call \cup {Idle}]
        /\ call'[w] = c
        /\ \A v \in Writers : v # w => call'[v] = call[v]
    BY <1>3, <1>4
  <1>. QED
    BY <1>3, <1>5, <1>6 DEF At

\* What WriteEntry leaves behind: the call's own entry, which is not vacant.
LEMMA EntryWritten ==
    ASSUME TypeOK, NEW w \in Writers, WriteEntry(w)
    PROVE  /\ call[w] # Idle /\ call[w] \in Call
           /\ call[w].key \in Keys
           /\ accounts'[call[w].key] # Absent
           /\ accounts'[call[w].key].slot = call[w].slot
  <1>1. call[w] # Idle /\ call[w] \in Call
    BY DEF TypeOK, WriteEntry, At
  <1>2. call[w].key \in Keys /\ [data |-> call[w].data, slot |-> call[w].slot] # Absent
    BY <1>1, Distinct DEF Call
  <1>3. accounts'[call[w].key] = [data |-> call[w].data, slot |-> call[w].slot]
    BY <1>2 DEF TypeOK, WriteEntry
  <1>. QED
    BY <1>1, <1>2, <1>3

\* The slot guard, and the state of every variable after each step, keep
\* their types.
LEMMA TypeStep == TypeOK /\ [Next]_vars => TypeOK'
  <1>. SUFFICES ASSUME TypeOK, [Next]_vars PROVE TypeOK'
    OBVIOUS
  <1>1. ASSUME NEW w \in Writers, NEW k \in Keys, NEW d \in Data, NEW s \in Slots,
               Begin(w, k, d, s)
        PROVE  TypeOK'
    <2>1. [at |-> "entry", key |-> k, data |-> d, slot |-> s] \in Call
      BY DEF Call
    <2>. QED
      BY <1>1, <2>1 DEF TypeOK, Begin
  <1>2. ASSUME NEW w \in Writers, DropStale(w) PROVE TypeOK'
    BY <1>2 DEF TypeOK, DropStale, Return
  <1>3. ASSUME NEW w \in Writers, WriteEntry(w) PROVE TypeOK'
    <2>1. /\ call[w] # Idle /\ call[w] \in Call
          /\ call \in [Writers -> Call \cup {Idle}]
      BY <1>3 DEF TypeOK, WriteEntry, At
    <2>2. [data |-> call[w].data, slot |-> call[w].slot] \in AccountData
      BY <2>1 DEF Call, AccountData
    <2>3. call' \in [Writers -> Call \cup {Idle}]
      <3>1. GoTo(w, IF accounts[call[w].key] = Absent THEN "count" ELSE "load")
        BY <1>3 DEF WriteEntry
      <3>2. CASE accounts[call[w].key] = Absent
        BY <2>1, <3>1, <3>2, CallMoves
      <3>3. CASE accounts[call[w].key] # Absent
        BY <2>1, <3>1, <3>3, CallMoves
      <3>. QED
        BY <3>2, <3>3
    <2>. QED
      BY <1>3, <2>2, <2>3 DEF TypeOK, WriteEntry
  <1>4. ASSUME NEW w \in Writers, AddCount(w) PROVE TypeOK'
    BY <1>4, CallMoves DEF TypeOK, AddCount, At
  <1>5. ASSUME NEW w \in Writers, LoadLastSlot(w) PROVE TypeOK'
    <2>1. CASE GoTo(w, "store")
      BY <1>5, <2>1, CallMoves DEF TypeOK, LoadLastSlot, At
    <2>2. CASE Return(w)
      BY <1>5, <2>2 DEF TypeOK, LoadLastSlot, Return
    <2>. QED
      BY <1>5, <2>1, <2>2 DEF LoadLastSlot
  <1>6. ASSUME NEW w \in Writers, StoreLastSlot(w) PROVE TypeOK'
    <2>1. call[w] \in Call
      BY <1>6 DEF TypeOK, StoreLastSlot, At
    <2>. QED
      BY <1>6, <2>1 DEF TypeOK, StoreLastSlot, Return, Call
  <1>7. CASE UNCHANGED vars
    BY <1>7 DEF TypeOK, vars
  <1>. QED
    BY <1>1, <1>2, <1>3, <1>4, <1>5, <1>6, <1>7 DEF Next

\* Every reachable state of the store is well typed.
THEOREM TypeCorrect == Spec => []TypeOK
  <1>1. Init => TypeOK
    BY Distinct DEF Init, TypeOK
  <1>. QED
    BY <1>1, TypeStep, PTL DEF Spec

-----------------------------------------------------------------------------
\* The present keys and the uncounted writers are finite, so that their
\* cardinalities are numbers.
LEMMA FiniteParts ==
    /\ IsFiniteSet(Present) /\ Cardinality(Present) \in Nat
    /\ IsFiniteSet(Uncounted) /\ Cardinality(Uncounted) \in Nat
  <1>1. Present \subseteq Keys /\ Uncounted \subseteq Writers
    BY DEF Present, Uncounted
  <1>. QED
    BY <1>1, StoreAssumption, FS_Subset, FS_CardinalityType

\* The uncounted writers after a call has moved: w is among them exactly
\* when it has moved to the counter.
LEMMA UncountedMoves ==
    ASSUME TypeOK, NEW w \in Writers, call[w] # Idle,
           NEW place \in {"entry", "count", "load", "store"}, GoTo(w, place)
    PROVE  Uncounted' = IF place = "count" THEN Uncounted \cup {w} ELSE Uncounted \ {w}
  <1>1. call \in [Writers -> Call \cup {Idle}]
    BY DEF TypeOK
  <1>2. /\ At(w, "count")' <=> place = "count"
        /\ \A v \in Writers : v # w => (At(v, "count")' <=> At(v, "count"))
    BY <1>1, CallMoves
  <1>. QED
    BY <1>2 DEF Uncounted

\* What each step does to the set of keys and to the uncounted writers: a
\* step leaves both alone, or inserts one new key and one uncounted writer,
\* or counts one writer.
LEMMA StepEffect ==
    ASSUME TypeOK, [Next]_vars
    PROVE  \/ /\ UNCHANGED <<Present, Uncounted, account_count>>
           \/ \E w \in Writers, k \in Keys :
                /\ WriteEntry(w) /\ k = call[w].key /\ accounts[k] = Absent
                /\ k \notin Present /\ w \notin Uncounted
                /\ Present' = Present \cup {k}
                /\ Uncounted' = Uncounted \cup {w}
                /\ account_count' = account_count
           \/ \E w \in Writers :
                /\ AddCount(w)
                /\ w \in Uncounted
                /\ Present' = Present
                /\ Uncounted' = Uncounted \ {w}
                /\ account_count' = account_count + 1
  <1>1. ASSUME NEW w \in Writers, NEW k \in Keys, NEW d \in Data, NEW s \in Slots,
               Begin(w, k, d, s)
        PROVE  UNCHANGED <<Present, Uncounted, account_count>>
    BY <1>1 DEF TypeOK, Begin, Present, Uncounted, At
  <1>2. ASSUME NEW w \in Writers, DropStale(w)
        PROVE  UNCHANGED <<Present, Uncounted, account_count>>
    BY <1>2 DEF TypeOK, DropStale, Return, Present, Uncounted, At
  <1>3. ASSUME NEW w \in Writers, WriteEntry(w), accounts[call[w].key] = Absent
        PROVE  /\ call[w].key \in Keys
               /\ call[w].key \notin Present /\ w \notin Uncounted
               /\ Present' = Present \cup {call[w].key}
               /\ Uncounted' = Uncounted \cup {w}
               /\ account_count' = account_count
    <2>1. call[w] \in Call /\ call[w] # Idle /\ GoTo(w, "count")
      BY <1>3 DEF TypeOK, WriteEntry, At
    <2>2. Uncounted' = Uncounted \cup {w} /\ w \notin Uncounted
      BY <1>3, <2>1, UncountedMoves DEF WriteEntry, Uncounted, At
    <2>3. accounts' = [accounts EXCEPT ![call[w].key] =
                         [data |-> call[w].data, slot |-> call[w].slot]]
      BY <1>3 DEF WriteEntry
    <2>4. call[w].key \in Keys /\ [data |-> call[w].data, slot |-> call[w].slot] # Absent
      BY <2>1, Distinct DEF Call
    <2>5. Present' = Present \cup {call[w].key} /\ call[w].key \notin Present
      BY <1>3, <2>3, <2>4 DEF TypeOK, Present
    <2>. QED
      BY <1>3, <2>2, <2>4, <2>5 DEF WriteEntry
  <1>4. ASSUME NEW w \in Writers, WriteEntry(w), accounts[call[w].key] # Absent
        PROVE  UNCHANGED <<Present, Uncounted, account_count>>
    <2>1. call[w] \in Call /\ call[w] # Idle /\ call[w].at = "entry" /\ GoTo(w, "load")
      BY <1>4 DEF TypeOK, WriteEntry, At
    <2>2. Uncounted' = Uncounted
      BY <2>1, UncountedMoves DEF Uncounted, At
    <2>3. accounts' = [accounts EXCEPT ![call[w].key] =
                         [data |-> call[w].data, slot |-> call[w].slot]]
      BY <1>4 DEF WriteEntry
    <2>4. call[w].key \in Keys /\ [data |-> call[w].data, slot |-> call[w].slot] # Absent
      BY <2>1, Distinct DEF Call
    <2>5. Present' = Present
      BY <1>4, <2>3, <2>4 DEF TypeOK, Present
    <2>. QED
      BY <1>4, <2>2, <2>5 DEF WriteEntry
  <1>5. ASSUME NEW w \in Writers, AddCount(w)
        PROVE  /\ w \in Uncounted
               /\ Present' = Present
               /\ Uncounted' = Uncounted \ {w}
               /\ account_count' = account_count + 1
    <2>1. call[w] \in Call /\ call[w] # Idle /\ call[w].at = "count" /\ GoTo(w, "load")
      BY <1>5 DEF TypeOK, AddCount, At
    <2>2. Uncounted' = Uncounted \ {w} /\ w \in Uncounted
      BY <2>1, UncountedMoves DEF Uncounted, At
    <2>. QED
      BY <1>5, <2>2 DEF AddCount, Present
  <1>6. ASSUME NEW w \in Writers, LoadLastSlot(w)
        PROVE  UNCHANGED <<Present, Uncounted, account_count>>
    <2>1. call[w] \in Call /\ call[w] # Idle /\ call[w].at = "load"
      BY <1>6 DEF TypeOK, LoadLastSlot, At
    <2>2. CASE GoTo(w, "store")
      BY <1>6, <2>1, <2>2, UncountedMoves DEF LoadLastSlot, Present, Uncounted, At
    <2>3. CASE Return(w)
      BY <1>6, <2>1, <2>3 DEF TypeOK, LoadLastSlot, Return, Present, Uncounted, At
    <2>. QED
      BY <1>6, <2>2, <2>3 DEF LoadLastSlot
  <1>7. ASSUME NEW w \in Writers, StoreLastSlot(w)
        PROVE  UNCHANGED <<Present, Uncounted, account_count>>
    BY <1>7 DEF TypeOK, StoreLastSlot, Return, Present, Uncounted, At
  <1>8. CASE UNCHANGED vars
    BY <1>8 DEF vars, Present, Uncounted, At
  <1>. QED
    BY <1>1, <1>2, <1>3, <1>4, <1>5, <1>6, <1>7, <1>8 DEF Next

\* A step that writes a new key adds its writer to the uncounted ones, a
\* fetch_add takes one away: the balance of the counter is kept.
LEMMA CountStep == TypeOK /\ CountMatchesKeys /\ [Next]_vars => CountMatchesKeys'
  <1>. SUFFICES ASSUME TypeOK, CountMatchesKeys, [Next]_vars
                PROVE  account_count' + Cardinality(Uncounted') = Cardinality(Present')
    BY DEF CountMatchesKeys
  <1>1. account_count \in Nat
    BY DEF TypeOK
  <1>2. CASE UNCHANGED <<Present, Uncounted, account_count>>
    BY <1>2 DEF CountMatchesKeys
  <1>3. ASSUME NEW w \in Writers, NEW k \in Keys, k \notin Present, w \notin Uncounted,
               Present' = Present \cup {k}, Uncounted' = Uncounted \cup {w},
               account_count' = account_count
        PROVE  account_count' + Cardinality(Uncounted') = Cardinality(Present')
    <2>1. Cardinality(Present') = Cardinality(Present) + 1
      BY <1>3, FiniteParts, FS_AddElement
    <2>2. Cardinality(Uncounted') = Cardinality(Uncounted) + 1
      BY <1>3, FiniteParts, FS_AddElement
    <2>. QED
      BY <1>1, <1>3, <2>1, <2>2, FiniteParts DEF CountMatchesKeys
  <1>4. ASSUME NEW w \in Writers, w \in Uncounted,
               Present' = Present, Uncounted' = Uncounted \ {w},
               account_count' = account_count + 1
        PROVE  account_count' + Cardinality(Uncounted') = Cardinality(Present')
    <2>1. Cardinality(Uncounted') = Cardinality(Uncounted) - 1
      BY <1>4, FiniteParts, FS_RemoveElement
    <2>. QED
      BY <1>1, <1>4, <2>1, FiniteParts DEF CountMatchesKeys
  <1>. QED
    BY <1>2, <1>3, <1>4, StepEffect

\* The key counter agrees with the map whatever the number of writers: the
\* insertions still on their way to fetch_add are exactly what it is short of.
THEOREM CountCorrect == Spec => []CountMatchesKeys
  <1>1. Init => CountMatchesKeys
    <2>. SUFFICES ASSUME Init PROVE CountMatchesKeys
      OBVIOUS
    <2>1. Present = {} /\ Uncounted = {}
      BY DEF Init, Present, Uncounted, At
    <2>. QED
      BY <2>1, FS_EmptySet DEF Init, CountMatchesKeys
  <1>. QED
    BY <1>1, CountStep, TypeCorrect, PTL DEF Spec

-----------------------------------------------------------------------------
\* One step never moves a stored key back: only WriteEntry touches the map,
\* and the guard it passed compares the slots.
LEMMA KeepsNewestStep == TypeOK /\ [Next]_vars => KeepsNewest
  <1>. SUFFICES ASSUME TypeOK, [Next]_vars, NEW k \in Keys, accounts[k] # Absent
                PROVE  accounts'[k] # Absent /\ accounts'[k].slot >= accounts[k].slot
    BY DEF KeepsNewest
  <1>1. accounts[k] \in AccountData /\ accounts[k].slot \in Nat
    BY Distinct DEF TypeOK, AccountData
  <1>2. CASE UNCHANGED accounts
    BY <1>1, <1>2
  <1>3. ASSUME NEW w \in Writers, WriteEntry(w)
        PROVE  accounts'[k] # Absent /\ accounts'[k].slot >= accounts[k].slot
    <2>1. /\ call[w] \in Call
          /\ Accepts(accounts[call[w].key], call[w].slot)
          /\ accounts' = [accounts EXCEPT ![call[w].key] =
                            [data |-> call[w].data, slot |-> call[w].slot]]
      BY <1>3 DEF TypeOK, WriteEntry, At
    <2>2. [data |-> call[w].data, slot |-> call[w].slot] # Absent
      BY <2>1, Distinct DEF Call
    <2>3. CASE call[w].key = k
      BY <2>1, <2>2, <2>3, <1>1 DEF TypeOK, Accepts
    <2>4. CASE call[w].key # k
      BY <2>1, <2>4, <1>1 DEF TypeOK
    <2>. QED
      BY <2>3, <2>4
  <1>. QED
    BY <1>2, <1>3 DEF Next, Begin, DropStale, AddCount, LoadLastSlot, StoreLastSlot, vars

\* A slow fetch never clobbers fresher data, for any number of racing writers.
THEOREM NeverRegresses == Spec => SlotsNeverRegress
  BY KeepsNewestStep, TypeCorrect, PTL DEF Spec, SlotsNeverRegress

\* Once reached, a slot stays reached: the entry that reaches it only moves on.
LEMMA ReachedStable ==
    ASSUME TypeOK, TypeOK', [Next]_vars, NEW s \in Slots, Reached(s)
    PROVE  \E k \in Keys : accounts'[k] # Absent /\ s <= accounts'[k].slot
  <1>1. PICK k \in Keys : accounts[k] # Absent /\ s <= accounts[k].slot
    BY DEF Reached
  <1>2. accounts'[k] # Absent /\ accounts'[k].slot >= accounts[k].slot
    BY <1>1, KeepsNewestStep DEF KeepsNewest
  <1>3. accounts[k].slot \in Nat /\ accounts'[k].slot \in Nat /\ s \in Nat
    BY <1>1, <1>2, Distinct DEF TypeOK, AccountData
  <1>. QED
    BY <1>1, <1>2, <1>3

\* Where a call that has passed its entry comes from: it was already past it
\* with the same slot, or this step wrote its entry.
LEMMA CallOrigin ==
    ASSUME TypeOK, [Next]_vars, NEW v \in Writers, call'[v] # Idle, call'[v].at # "entry"
    PROVE  \/ call[v] # Idle /\ call[v].at # "entry" /\ call'[v].slot = call[v].slot
           \/ WriteEntry(v) /\ call'[v].slot = call[v].slot
  <1>. DEFINE Same(w) == w = v \/ call'[v] = call[v]
  <1>0. call \in [Writers -> Call \cup {Idle}]
    BY DEF TypeOK
  <1>1. ASSUME NEW w \in Writers, NEW k \in Keys, NEW d \in Data, NEW s \in Slots,
               Begin(w, k, d, s)
        PROVE  call'[v] = call[v]
    <2>1. PICK c : c = [at |-> "entry", key |-> k, data |-> d, slot |-> s]
      OBVIOUS
    <2>2. call' = [call EXCEPT ![w] = c] /\ c.at = "entry"
      BY <1>1, <2>1 DEF Begin
    <2>. QED
      BY <1>0, <2>2
  <1>2. ASSUME NEW w \in Writers, Return(w) PROVE call'[v] = call[v]
    BY <1>0, <1>2 DEF Return
  <1>3. ASSUME NEW w \in Writers, WriteEntry(w)
        PROVE  call'[v] = call[v] \/ (WriteEntry(v) /\ call'[v].slot = call[v].slot)
    <2>1. PICK place \in {"count", "load"} : GoTo(w, place)
      BY <1>3 DEF WriteEntry
    <2>2. call[w] # Idle
      BY <1>3 DEF WriteEntry, At
    <2>. QED
      BY <1>0, <1>3, <2>1, <2>2, CallMoves
  <1>4. ASSUME NEW w \in Writers, NEW from \in {"count", "load"},
               NEW place \in {"load", "store"}, At(w, from), GoTo(w, place)
        PROVE  \/ call'[v] = call[v]
               \/ call[v] # Idle /\ call[v].at # "entry" /\ call'[v].slot = call[v].slot
    <2>1. call[w] # Idle /\ call[w].at # "entry"
      BY <1>4 DEF At
    <2>. QED
      BY <1>0, <1>4, <2>1, CallMoves
  <1>5. CASE UNCHANGED vars
    BY <1>5 DEF vars
  <1>6. CASE Next
    <2>1. PICK w \in Writers :
            \/ \E k \in Keys, d \in Data, s \in Slots : Begin(w, k, d, s)
            \/ DropStale(w) \/ WriteEntry(w) \/ AddCount(w)
            \/ LoadLastSlot(w) \/ StoreLastSlot(w)
      BY <1>6 DEF Next
    <2>2. CASE \E k \in Keys, d \in Data, s \in Slots : Begin(w, k, d, s)
      BY <1>1, <2>2
    <2>3. CASE DropStale(w) \/ StoreLastSlot(w)
      BY <1>2, <2>3 DEF DropStale, StoreLastSlot
    <2>4. CASE WriteEntry(w)
      BY <1>3, <2>4
    <2>5. CASE AddCount(w)
      BY <1>4, <2>5 DEF AddCount
    <2>6. CASE LoadLastSlot(w)
      BY <1>2, <1>4, <2>6 DEF LoadLastSlot
    <2>. QED
      BY <2>1, <2>2, <2>3, <2>4, <2>5, <2>6
  <1>. QED
    BY <1>5, <1>6

\* A call that has written its entry keeps its slot reached, because the
\* entry it wrote never moves back.
LEMMA WrittenStep ==
    TypeOK /\ TypeOK' /\ WrittenSlotReached /\ [Next]_vars => WrittenSlotReached'
  <1>. SUFFICES ASSUME TypeOK, TypeOK', WrittenSlotReached, [Next]_vars,
                       NEW v \in Writers, call'[v] # Idle, call'[v].at # "entry"
                PROVE  \E k \in Keys : accounts'[k] # Absent /\ call'[v].slot <= accounts'[k].slot
    BY DEF WrittenSlotReached, Reached
  <1>1. CASE call[v] # Idle /\ call[v].at # "entry" /\ call'[v].slot = call[v].slot
    <2>1. Reached(call[v].slot) /\ call[v].slot \in Slots
      BY <1>1 DEF WrittenSlotReached, TypeOK, Call
    <2>. QED
      BY <1>1, <2>1, ReachedStable
  <1>2. CASE WriteEntry(v) /\ call'[v].slot = call[v].slot
    <2>1. call[v] \in Call /\ call[v].key \in Keys /\ call[v].slot \in Nat
      BY <1>2, Distinct DEF TypeOK, WriteEntry, At, Call
    <2>2. accounts'[call[v].key] = [data |-> call[v].data, slot |-> call[v].slot]
      BY <1>2, <2>1 DEF TypeOK, WriteEntry
    <2>3. accounts'[call[v].key] # Absent /\ accounts'[call[v].key].slot = call[v].slot
      BY <2>1, <2>2, Distinct DEF Call
    <2>. QED
      BY <1>2, <2>1, <2>3
  <1>. QED
    BY <1>1, <1>2, CallOrigin

\* Only StoreLastSlot moves last_slot, to a slot its own entry has reached.
LEMMA LastSlotStep ==
    TypeOK /\ TypeOK' /\ WrittenSlotReached /\ LastSlotReached /\ [Next]_vars
      => LastSlotReached'
  <1>. SUFFICES ASSUME TypeOK, TypeOK', WrittenSlotReached, LastSlotReached, [Next]_vars,
                       last_slot' # 0
                PROVE  \E k \in Keys : accounts'[k] # Absent /\ last_slot' <= accounts'[k].slot
    BY DEF LastSlotReached, Reached
  <1>1. CASE last_slot' = last_slot
    <2>1. last_slot \in Slots /\ Reached(last_slot)
      BY <1>1 DEF TypeOK, LastSlotReached
    <2>. QED
      BY <1>1, <2>1, ReachedStable
  <1>2. ASSUME NEW w \in Writers, StoreLastSlot(w)
        PROVE  \E k \in Keys : accounts'[k] # Absent /\ last_slot' <= accounts'[k].slot
    <2>1. /\ call[w] # Idle /\ call[w].at # "entry" /\ call[w].slot \in Slots
          /\ last_slot' = call[w].slot
      BY <1>2 DEF TypeOK, StoreLastSlot, At, Call
    <2>2. Reached(call[w].slot)
      BY <2>1 DEF WrittenSlotReached
    <2>. QED
      BY <2>1, <2>2, ReachedStable
  <1>. QED
    BY <1>1, <1>2 DEF Next, Begin, DropStale, WriteEntry, AddCount, LoadLastSlot, vars

\* The slot the stream resumes from is never ahead of the stored data, for any
\* interleaving of any number of writers.
THEOREM LastSlotCorrect == Spec => []LastSlotReached
  <1>1. Init => WrittenSlotReached /\ LastSlotReached
    BY DEF Init, WrittenSlotReached, LastSlotReached
  <1>2. /\ TypeOK /\ TypeOK' /\ WrittenSlotReached /\ LastSlotReached /\ [Next]_vars
        => WrittenSlotReached' /\ LastSlotReached'
    BY WrittenStep, LastSlotStep
  <1>. QED
    BY <1>1, <1>2, TypeCorrect, PTL DEF Spec

-----------------------------------------------------------------------------
\* The abstract size: what len() returns, plus the insertions on their way.
LEMMA SizeStep ==
    ASSUME TypeOK, [Next]_vars
    PROVE  account_count' + Cardinality(Uncounted') =
             IF \E w \in Writers : WriteEntry(w) /\ accounts[call[w].key] = Absent
             THEN account_count + Cardinality(Uncounted) + 1
             ELSE account_count + Cardinality(Uncounted)
  <1>0. account_count \in Nat
    BY DEF TypeOK
  <1>. DEFINE Inserts == \E w \in Writers : WriteEntry(w) /\ accounts[call[w].key] = Absent
  <1>1. Inserts => Present' # Present
    <2>. SUFFICES ASSUME NEW w \in Writers, WriteEntry(w), accounts[call[w].key] = Absent
                  PROVE  Present' # Present
      OBVIOUS
    <2>. QED
      BY EntryWritten DEF Present
  <1>2. ASSUME UNCHANGED <<Present, Uncounted, account_count>>
        PROVE  /\ ~Inserts
               /\ account_count' + Cardinality(Uncounted') =
                    account_count + Cardinality(Uncounted)
    BY <1>1, <1>2
  <1>3. ASSUME NEW w \in Writers, WriteEntry(w), accounts[call[w].key] = Absent,
               w \notin Uncounted, Uncounted' = Uncounted \cup {w},
               account_count' = account_count
        PROVE  account_count' + Cardinality(Uncounted') =
                 account_count + Cardinality(Uncounted) + 1
    <2>1. Cardinality(Uncounted') = Cardinality(Uncounted) + 1
      BY <1>3, FiniteParts, FS_AddElement
    <2>. QED
      BY <1>0, <1>3, <2>1, FiniteParts
  <1>4. ASSUME NEW w \in Writers, w \in Uncounted, Present' = Present,
               Uncounted' = Uncounted \ {w}, account_count' = account_count + 1
        PROVE  /\ ~Inserts
               /\ account_count' + Cardinality(Uncounted') =
                    account_count + Cardinality(Uncounted)
    <2>1. Cardinality(Uncounted') = Cardinality(Uncounted) - 1
      BY <1>4, FiniteParts, FS_RemoveElement
    <2>. QED
      BY <1>0, <1>1, <1>4, <2>1, FiniteParts
  <1>5. ASSUME NEW w \in Writers, NEW k \in Keys,
               WriteEntry(w), k = call[w].key, accounts[k] = Absent
        PROVE  Inserts /\ accounts[call[w].key] = Absent
    BY <1>5
  <1>. HIDE DEF Inserts
  <1>6. account_count' + Cardinality(Uncounted') =
          IF Inserts THEN account_count + Cardinality(Uncounted) + 1
          ELSE account_count + Cardinality(Uncounted)
    BY <1>2, <1>3, <1>4, <1>5, StepEffect
  <1>. QED
    BY <1>6 DEF Inserts

\* Every step of the store maps to a step of LatestStore or to a stutter: the
\* entry write is the abstract upsert, the store of last_slot moves the mark,
\* and everything else is invisible.
LEMMA StepImplements ==
    TypeOK /\ WrittenSlotReached /\ [Next]_vars => [Abstract!Next]_(Abstract!vars)
  <1>. SUFFICES ASSUME TypeOK, WrittenSlotReached, [Next]_vars
                PROVE  [Abstract!Next]_(Abstract!vars)
    OBVIOUS
  <1>1. ASSUME NEW w \in Writers, WriteEntry(w) PROVE Abstract!Next
    <2>1. /\ call[w] \in Call
          /\ Accepts(accounts[call[w].key], call[w].slot)
          /\ accounts' = [accounts EXCEPT ![call[w].key] =
                            [data |-> call[w].data, slot |-> call[w].slot]]
          /\ last_slot' = last_slot
      BY <1>1 DEF TypeOK, WriteEntry, At
    <2>2. /\ call[w].key \in Keys /\ call[w].data \in Data
          /\ call[w].slot \in Slots /\ call[w].slot \in Nat
      BY <2>1, Distinct DEF Call
    <2>3. accounts[call[w].key] # Absent =>
            accounts[call[w].key].slot <= call[w].slot
      BY <2>1, <2>2, Distinct DEF Accepts, TypeOK, AccountData
    <2>4. accounts[call[w].key] = Absent <=>
            \E v \in Writers : WriteEntry(v) /\ accounts[call[v].key] = Absent
      <3>1. ASSUME NEW v \in Writers, WriteEntry(v), accounts[call[v].key] = Absent
            PROVE  accounts[call[w].key] = Absent
        <4>1. accounts'[call[v].key] # Absent /\ call[v].key \in Keys
          BY <3>1, EntryWritten
        <4>. QED
          BY <2>1, <2>2, <3>1, <4>1 DEF TypeOK
      <3>. QED
        BY <1>1, <3>1
    <2>5. Abstract!Upsert(call[w].key, call[w].data, call[w].slot)
      BY <2>1, <2>2, <2>3, <2>4, SizeStep DEF Abstract!Upsert
    <2>. QED
      BY <2>2, <2>5 DEF Abstract!Next
  <1>2. ASSUME NEW w \in Writers, StoreLastSlot(w) PROVE Abstract!Next
    <2>1. /\ call[w] # Idle /\ call[w].at = "store" /\ call[w].slot \in Slots
          /\ last_slot' = call[w].slot /\ accounts' = accounts
      BY <1>2 DEF TypeOK, StoreLastSlot, At, Call
    <2>2. Reached(call[w].slot)
      BY <2>1 DEF WrittenSlotReached
    <2>3. account_count' + Cardinality(Uncounted') = account_count + Cardinality(Uncounted)
      <3>1. \A v \in Writers : WriteEntry(v) => accounts[call[v].key] # Absent
        BY <2>1, EntryWritten
      <3>. QED
        BY <3>1, SizeStep
    <2>4. Abstract!Note(call[w].slot)
      BY <2>1, <2>2, <2>3 DEF Abstract!Note, Reached
    <2>. QED
      BY <2>1, <2>4 DEF Abstract!Next
  <1>3. ASSUME accounts' = accounts, last_slot' = last_slot PROVE UNCHANGED Abstract!vars
    <2>1. ~ \E w \in Writers : WriteEntry(w) /\ accounts[call[w].key] = Absent
      BY <1>3, EntryWritten
    <2>. QED
      BY <1>3, <2>1, SizeStep DEF Abstract!vars
  <1>. QED
    BY <1>1, <1>2, <1>3
    DEF Next, Begin, DropStale, AddCount, LoadLastSlot, vars

\* upsert is linearizable: AccountStore implements LatestStore.
THEOREM Implements == Spec => ImplementsLatestStore
  <1>1. Init => Abstract!Init
    <2>. SUFFICES ASSUME Init PROVE Abstract!Init
      OBVIOUS
    <2>1. Uncounted = {}
      BY DEF Init, Uncounted, At
    <2>. QED
      BY <2>1, FS_EmptySet DEF Init, Abstract!Init
  <1>2. Init => WrittenSlotReached
    BY DEF Init, WrittenSlotReached
  <1>3. TypeOK /\ TypeOK' /\ WrittenSlotReached /\ [Next]_vars => WrittenSlotReached'
    BY WrittenStep
  <1>. QED
    BY <1>1, <1>2, <1>3, StepImplements, TypeCorrect, PTL
    DEF Spec, ImplementsLatestStore, Abstract!Spec
=============================================================================
