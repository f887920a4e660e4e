---------------------------- MODULE LatestStore ----------------------------
(***************************************************************************)
(* What crates/engine/src/account_store.rs promises its callers: a map in  *)
(* which every write is indivisible, a key never moves back to an older    *)
(* slot, the size is the number of keys, and the slot mark the store hands *)
(* to the stream for resuming is never ahead of everything it holds.       *)
(*                                                                         *)
(* The mark is loose on purpose: the promise is only that it does not      *)
(* overtake the stored data.  AccountStore implements this specification.  *)
(***************************************************************************)
EXTENDS Integers, FiniteSets

CONSTANTS
    Keys,     \* account addresses
    Data,     \* account contents, told apart only by name
    Slots,    \* the slots an account can be stamped with
    Absent    \* what an address maps to before its first write

VARIABLES
    view,     \* view[k]: the entry stored at k
    size,     \* the number of keys reported by len()
    mark      \* the slot reported by last_slot()

Entry == [data : Data, slot : Slots]

Init ==
    /\ view = [k \in Keys |-> Absent]
    /\ size = 0
    /\ mark = 0

\* A write lands unless the key already holds a newer slot.
Upsert(k, d, s) ==
    /\ view[k] # Absent => view[k].slot <= s
    /\ view' = [view EXCEPT ![k] = [data |-> d, slot |-> s]]
    /\ size' = IF view[k] = Absent THEN size + 1 ELSE size
    /\ UNCHANGED mark

\* The mark moves to some slot the stored data already reaches.
Note(s) ==
    /\ \E k \in Keys : view[k] # Absent /\ s <= view[k].slot
    /\ mark' = s
    /\ UNCHANGED <<view, size>>

Next ==
    \/ \E k \in Keys, d \in Data, s \in Slots : Upsert(k, d, s)
    \/ \E s \in Slots : Note(s)

vars == <<view, size, mark>>

Spec == Init /\ [][Next]_vars
=============================================================================
