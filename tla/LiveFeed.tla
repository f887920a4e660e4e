------------------------------ MODULE LiveFeed ------------------------------
(***************************************************************************)
(* How the account store is kept up with the cluster: the Yellowstone      *)
(* stream with its reconnect and resume logic (crates/engine/src/          *)
(* streaming.rs), and the RPC fetches that write the same accounts at the  *)
(* same time (crates/engine/src/cold_start.rs).                            *)
(*                                                                         *)
(* An account's data is the slot of the transaction that wrote it.  The    *)
(* store keeps it next to the slot the writer stamped it with, and the two *)
(* differ: an RPC answer is stamped with the slot it was read at.          *)
(***************************************************************************)
EXTENDS Integers, Sequences, FiniteSets

CONSTANTS
    Keys,        \* accounts
    Streamed,    \* those the stream's filters match
    Polled,      \* those getMultipleAccounts is asked for, again and again
    Scanned,     \* those one getProgramAccounts of the cold start returns
    Retention,   \* how many past slots the server replays, if it does
    MaxLag,      \* how far behind the tip an RPC answer may be
    MaxSlot      \* bound on the cluster's slots

ASSUME FeedAssumption ==
    /\ Streamed \subseteq Keys
    /\ Polled \subseteq Keys
    /\ Scanned \subseteq Keys
    /\ Retention \in Nat
    /\ MaxLag \in Nat
    /\ MaxSlot \in Nat \ {0}

VARIABLES
    chain,       \* chain[s]: the accounts written in slot s
    store,       \* store[k]: data and slot, or Absent
    last_slot,   \* the store's high-water slot
    at,          \* where start_streaming is: "connect", "subscribe", "up"
    resume,      \* its local of that name
    from_slot,   \* where the next subscription asks to begin, or None
    cursor,      \* the slot the stream is delivering, or was when it broke
    sent,        \* the accounts of that slot already delivered
    replays,     \* whether the server accepts a from_slot at all
    poll,        \* the getMultipleAccounts answer being stored
    scan,        \* the getProgramAccounts answer being stored
    scan_at,     \* where it is: "slot", "fetch", "store"
    delivered,   \* history: delivered[k], last slot streamed for k
    skipped      \* history: streamed accounts with an update passed over

streamVars == <<at, resume, from_slot, cursor, sent, delivered, skipped>>
storeVars == <<store, last_slot>>
rpcVars == <<poll, scan, scan_at>>
vars == <<chain, replays, streamVars, storeVars, rpcVars>>

Slots == 0..MaxSlot
Tip == Len(chain)
None == -1
Absent == [data |-> 0, slot |-> -1]

\* data is the last write of k up to slot s; zero when there is none.
LastWrite(k, s, data) ==
    /\ data = 0 \/ (data \in 1..s /\ k \in chain[data])
    /\ \A later \in data + 1 .. s : k \notin chain[later]

Data == Slots
NoAnswer == [todo |-> {}, slot |-> 0, data |-> [k \in Keys |-> 0]]

Init ==
    /\ chain = <<Keys>>
    /\ store = [k \in Keys |-> Absent]
    /\ last_slot = 0
    /\ at = "connect"
    /\ resume = TRUE
    /\ from_slot = None
    /\ cursor = 0
    /\ sent = {}
    /\ replays \in BOOLEAN
    /\ poll = NoAnswer
    /\ scan = NoAnswer
    /\ scan_at = "slot"
    /\ delivered = [k \in Keys |-> 0]
    /\ skipped = {}

\* Mutant of Accepts: the slot guard is missing.
AcceptsAny(entry, slot) == TRUE

\* The slot guard of AccountStore's upsert.
Accepts(entry, slot) == slot >= entry.slot

\* AccountStore's upsert, in one step.  last_slot is loaded, compared and
\* stored: a writer that loaded it early may set it back.
Upsert(k, data, slot) ==
    IF Accepts(store[k], slot)
    THEN /\ store' = [store EXCEPT ![k] = [data |-> data, slot |-> slot]]
         /\ last_slot' \in {s \in {slot, last_slot} : s >= slot}
    ELSE UNCHANGED storeVars

\* The cluster confirms a slot.
NewSlot(written) ==
    /\ Tip < MaxSlot
    /\ chain' = Append(chain, written)
    /\ UNCHANGED <<replays, streamVars, storeVars, rpcVars>>

-----------------------------------------------------------------------------
(* start_streaming and run_stream *)

\* Mutant of Connect: the slot after the resume point is asked for.
ConnectTooLate ==
    /\ at = "connect"
    /\ from_slot' = IF last_slot = 0 \/ ~resume THEN None ELSE last_slot + 2
    /\ at' = "subscribe"
    /\ UNCHANGED <<chain, replays, storeVars, rpcVars, resume, cursor, sent, delivered, skipped>>

\* from_slot is chosen before the connection, the registry lock and the
\* subscription are waited for.
Connect ==
    /\ at = "connect"
    /\ from_slot' = IF last_slot = 0 \/ ~resume THEN None ELSE last_slot + 1
    /\ at' = "subscribe"
    /\ UNCHANGED <<chain, replays, storeVars, rpcVars, resume, cursor, sent, delivered, skipped>>

ServerAccepts ==
    from_slot = None \/ (replays /\ from_slot > Tip - Retention)

\* The first slot of a subscription: from_slot, or the next one.
Start == IF from_slot = None THEN Tip + 1 ELSE from_slot

\* Updates of k not delivered yet in the slots before s.
Undelivered(k, s) ==
    \E t \in 1..Tip : t < s /\ t > delivered[k] /\ k \in chain[t]

Subscribe ==
    /\ at = "subscribe"
    /\ ServerAccepts
    /\ at' = "up"
    /\ cursor' = Start
    /\ sent' = {}
    /\ skipped' = skipped \cup {k \in Streamed : Undelivered(k, Start)}
    /\ UNCHANGED <<chain, replays, storeVars, rpcVars, resume, from_slot, delivered>>

\* One account update; the updates of a slot come one by one.
Deliver(k) ==
    /\ at = "up"
    /\ cursor <= Tip
    /\ k \in (chain[cursor] \cap Streamed) \ sent
    /\ Upsert(k, cursor, cursor)
    /\ sent' = sent \cup {k}
    /\ delivered' = [delivered EXCEPT ![k] = IF cursor > @ THEN cursor ELSE @]
    /\ skipped' = skipped \ {k}
    /\ UNCHANGED <<chain, replays, rpcVars, at, resume, from_slot, cursor>>

\* The server moves on to the next slot.
NextSlot ==
    /\ at = "up"
    /\ cursor <= Tip
    /\ chain[cursor] \cap Streamed \subseteq sent
    /\ cursor' = cursor + 1
    /\ sent' = {}
    /\ UNCHANGED <<chain, replays, storeVars, rpcVars, at, resume, from_slot, delivered, skipped>>

\* run_stream returns Ok: the server closed the stream.
EndOk ==
    /\ at = "up"
    /\ at' = "connect"
    /\ resume' = TRUE
    /\ UNCHANGED <<chain, replays, storeVars, rpcVars, from_slot, cursor, sent, delivered, skipped>>

\* Mutant of EndErr: every attempt resumes.
EndErrResuming ==
    /\ at \in {"subscribe", "up"}
    /\ at' = "connect"
    /\ resume' = TRUE
    /\ UNCHANGED <<chain, replays, storeVars, rpcVars, from_slot, cursor, sent, delivered, skipped>>

\* run_stream returns Err: no connection, a refused subscription, a broken
\* or an idle stream.
EndErr ==
    /\ at \in {"subscribe", "up"}
    /\ at' = "connect"
    /\ resume' = (from_slot = None)
    /\ UNCHANGED <<chain, replays, storeVars, rpcVars, from_slot, cursor, sent, delivered, skipped>>

-----------------------------------------------------------------------------
(* RPC fetches *)

\* A node answers with its accounts as of some slot it has reached.
AnswerAt(slot, keys, stamp, answer) ==
    \E data \in [Keys -> 0..slot] :
        /\ \A k \in keys : LastWrite(k, slot, data[k])
        /\ \A k \in Keys \ keys : data[k] = 0
        /\ answer = [todo |-> keys, slot |-> stamp, data |-> data]

\* What is left of an answer when k is stored.
Stored(answer, k) ==
    [todo |-> answer.todo \ {k}, slot |-> answer.slot,
     data |-> [answer.data EXCEPT ![k] = 0]]

\* fetch_batch_into_store: every answer carries the slot it was read at.
PollAnswer ==
    /\ poll.todo = {}
    /\ \E slot \in (IF Tip > MaxLag THEN Tip - MaxLag ELSE 1)..Tip :
           AnswerAt(slot, Polled, slot, poll')
    /\ UNCHANGED <<chain, replays, streamVars, storeVars, scan, scan_at>>

PollStore(k) ==
    /\ k \in poll.todo
    /\ Upsert(k, poll.data[k], poll.slot)
    /\ poll' = Stored(poll, k)
    /\ UNCHANGED <<chain, replays, streamVars, scan, scan_at>>

\* fetch_bitmap_extensions, fetch_clmm_amm_configs: the slot is asked for
\* first (zero if that fails), the accounts are read later.
ScanSlot ==
    /\ scan_at = "slot"
    /\ \E slot \in {0, Tip} : scan' = [scan EXCEPT !.slot = slot]
    /\ scan_at' = "fetch"
    /\ UNCHANGED <<chain, replays, streamVars, storeVars, poll>>

\* Mutant of ScanAnswer: the slot is asked for after the accounts are read.
ScanAnswerThenSlot ==
    /\ scan_at = "fetch"
    /\ \E read \in 1..Tip : AnswerAt(read, Scanned, Tip, scan')
    /\ scan_at' = "store"
    /\ UNCHANGED <<chain, replays, streamVars, storeVars, poll>>

ScanAnswer ==
    /\ scan_at = "fetch"
    /\ AnswerAt(Tip, Scanned, scan.slot, scan')
    /\ scan_at' = "store"
    /\ UNCHANGED <<chain, replays, streamVars, storeVars, poll>>

ScanStore(k) ==
    /\ k \in scan.todo
    /\ Upsert(k, scan.data[k], scan.slot)
    /\ scan' = Stored(scan, k)
    /\ UNCHANGED <<chain, replays, streamVars, poll, scan_at>>

-----------------------------------------------------------------------------
Next ==
    \/ \E written \in SUBSET Keys : NewSlot(written)
    \/ Connect
    \/ Subscribe
    \/ \E k \in Keys : Deliver(k)
    \/ NextSlot
    \/ EndOk
    \/ EndErr
    \/ PollAnswer
    \/ \E k \in Keys : PollStore(k)
    \/ ScanSlot
    \/ ScanAnswer
    \/ \E k \in Keys : ScanStore(k)

Spec == Init /\ [][Next]_vars

\* The tasks run and RPCs answer, now and then from the tip.  A server that is retried for ever accepts
\* a subscription it has no reason to refuse, and does not break every
\* connection before the next update.
Fairness ==
    /\ WF_vars(Connect)
    /\ SF_vars(Subscribe)
    /\ SF_vars(NextSlot \/ \E k \in Keys : Deliver(k))
    /\ WF_vars(EndErr /\ at = "subscribe")
    /\ SF_vars(PollAnswer /\ poll'.slot = Tip)
    /\ WF_vars(\E k \in Keys : PollStore(k))
    /\ WF_vars(ScanSlot \/ ScanAnswer \/ \E k \in Keys : ScanStore(k))

FairSpec == Spec /\ Fairness

-----------------------------------------------------------------------------
Answers == [todo : SUBSET Keys, slot : Slots, data : [Keys -> Data]]

TypeOK ==
    /\ chain \in Seq(SUBSET Keys)
    /\ Tip \in 1..MaxSlot
    /\ store \in [Keys -> [data : Data, slot : Slots \cup {-1}]]
    /\ last_slot \in 0..Tip
    /\ at \in {"connect", "subscribe", "up"}
    /\ resume \in BOOLEAN
    /\ from_slot \in {None} \cup 1..MaxSlot + 1
    /\ cursor \in 0..MaxSlot + 1
    /\ sent \subseteq Keys
    /\ replays \in BOOLEAN
    /\ poll \in Answers
    /\ scan \in Answers
    /\ scan_at \in {"slot", "fetch", "store"}
    /\ delivered \in [Keys -> Slots]
    /\ skipped \subseteq Streamed

\* What is stored under a slot is not older than that slot: the stamp is a
\* lower bound (cold_start.rs:298-299), which is what makes comparing stamps
\* a sound way to order writes of different origin.
AsFreshAs(k, entry) == \A s \in 1..entry.slot : k \in chain[s] => s <= entry.data

StampIsLowerBound == \A k \in Keys : AsFreshAs(k, store[k])

\* An update that has been streamed is never undone: neither a slow batch,
\* nor the scan, nor a replay puts older data in its place.
StreamedStays == \A k \in Keys : store[k].data >= delivered[k]

\* What makes StreamedStays inductive: nothing is stamped past the tip, an
\* answer on its way is as fresh as its stamp, and an account is stored under
\* a slot no older than the last one streamed for it.
StampedInThePast ==
    /\ \A k \in Keys : store[k].slot <= Tip
    /\ poll.slot <= Tip
    /\ scan.slot <= Tip

AnswersAreFresh ==
    \A answer \in {poll, scan} : \A k \in answer.todo :
        AsFreshAs(k, [data |-> answer.data[k], slot |-> answer.slot])

StreamedIsStamped ==
    \A k \in Keys :
        delivered[k] # 0 =>
            /\ delivered[k] <= store[k].slot
            /\ k \in chain[delivered[k]]

ScanStartsEmpty == scan_at # "store" => scan.todo = {}

IInv ==
    /\ TypeOK
    /\ StampIsLowerBound
    /\ StampedInThePast
    /\ AnswersAreFresh
    /\ ScanStartsEmpty
    /\ StreamedIsStamped

\* A subscription that goes through is not lost to the resume logic: a server
\* that refuses from_slot is asked without it, and the stream comes up.
StreamComesUp == (at = "subscribe" /\ ~ServerAccepts) ~> at = "up"

Fresh(k) == store[k].slot # -1 /\ LastWrite(k, Tip, store[k].data)

\* Once the cluster is quiet, a streamed account the stream did not skip and
\* every polled account hold the last write.
FeedCatchesUp ==
    \A k \in Keys :
        /\ k \in Streamed => <>[](Fresh(k) \/ k \in skipped)
        /\ k \in Polled => <>[]Fresh(k)

\* "Resume from the slot after the last one seen so updates that landed during
\* the reconnect window are replayed instead of lost" (streaming.rs:216-217):
\* a resumed subscription begins no later than the first undelivered update.
ResumeReplaysOutage ==
    [][Subscribe /\ from_slot # None /\ cursor # 0 =>
           \A k \in Streamed, s \in cursor .. from_slot - 1 :
               s <= Tip /\ k \in chain[s] => s <= delivered[k]]_vars
=============================================================================
