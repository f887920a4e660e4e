----------------------------- MODULE FairRwLock -----------------------------
(***************************************************************************)
(* tokio::sync::RwLock as the engine uses it (external code): many readers *)
(* or one writer, granted first come first served.  A reader that arrives  *)
(* behind a queued writer waits for it, even while the lock is only held   *)
(* for reading.                                                            *)
(***************************************************************************)
EXTENDS Integers, Sequences

CONSTANT Tasks        \* whoever may ask for the lock

VARIABLES
    holding,          \* holding[t]: "none", "read" or "write"
    waiting           \* requests not granted yet, oldest first

LockInit ==
    /\ holding = [t \in Tasks |-> "none"]
    /\ waiting = <<>>

LockTypeOK ==
    /\ holding \in [Tasks -> {"none", "read", "write"}]
    /\ waiting \in Seq([task : Tasks, mode : {"read", "write"}])

Queued(t) == \E i \in DOMAIN waiting : waiting[i].task = t

\* t neither holds the lock nor waits for it.
Away(t) == holding[t] = "none" /\ ~Queued(t)

Free(mode) ==
    \A t \in Tasks : holding[t] = "none" \/ (mode = "read" /\ holding[t] = "read")

Request(t, mode) ==
    /\ waiting' = Append(waiting, [task |-> t, mode |-> mode])
    /\ UNCHANGED holding

Grant ==
    /\ waiting # <<>>
    /\ Free(Head(waiting).mode)
    /\ holding' = [holding EXCEPT ![Head(waiting).task] = Head(waiting).mode]
    /\ waiting' = Tail(waiting)

Release(t) ==
    /\ holding' = [holding EXCEPT ![t] = "none"]
    /\ UNCHANGED waiting

\* A writer excludes everyone else.
Exclusive ==
    \A t \in Tasks : holding[t] = "write" => \A u \in Tasks \ {t} : holding[u] = "none"
=============================================================================
