--------------------------- MODULE LiveFeed_proofs ---------------------------
(***************************************************************************)
(* The safety of LiveFeed for every set of accounts, lag and number of     *)
(* slots: a stamp is a lower bound of what is stored under it, and no      *)
(* fetch undoes an update that was streamed.                               *)
(***************************************************************************)
EXTENDS LiveFeed, TLAPS

\* The length of the chain is a number, and its slots are sets of accounts.
LEMMA TipIsNat == TypeOK => Tip \in Nat /\ Tip <= MaxSlot /\ 1 <= Tip /\ MaxSlot \in Nat
  BY FeedAssumption DEF TypeOK, Tip

\* upsert touches one entry, and only to put a slot that is not older there.
LEMMA UpsertEffect ==
    ASSUME TypeOK, NEW k \in Keys, NEW data \in Data, NEW slot \in 0..Tip,
           Upsert(k, data, slot)
    PROVE  /\ store' \in [Keys -> [data : Data, slot : Slots \cup {-1}]]
           /\ last_slot' \in 0..Tip
           /\ \A j \in Keys :
                  \/ store'[j] = store[j]
                  \/ /\ j = k
                     /\ store'[j] = [data |-> data, slot |-> slot]
                     /\ slot >= store[j].slot
           /\ store'[k].slot >= slot
           /\ StampedInThePast => \A j \in Keys : store'[j].slot <= Tip
  <1>. Tip \in Nat /\ Tip <= MaxSlot /\ MaxSlot \in Nat /\ slot \in Slots
    BY TipIsNat DEF Slots
  <1>. store[k].slot \in Slots \cup {-1}
    BY DEF TypeOK
  <1>1. CASE Accepts(store[k], slot)
    <2>1. store' = [store EXCEPT ![k] = [data |-> data, slot |-> slot]]
      BY <1>1 DEF Upsert
    <2>2. last_slot' \in {slot, last_slot}
      BY <1>1 DEF Upsert
    <2>. QED
      BY <1>1, <2>1, <2>2 DEF TypeOK, Accepts, Slots, StampedInThePast
  <1>2. CASE ~Accepts(store[k], slot)
    BY <1>2 DEF Upsert, storeVars, Accepts, TypeOK, Slots, StampedInThePast
  <1>. QED
    BY <1>1, <1>2

\* An RPC answer is well typed, and as fresh as a stamp that is not past the
\* slot it was read at.
LEMMA AnswerEffect ==
    ASSUME TypeOK, NEW read \in 0..Tip, NEW keys \in SUBSET Keys,
           NEW stamp \in 0..read, NEW answer, AnswerAt(read, keys, stamp, answer)
    PROVE  /\ answer \in Answers
           /\ answer.slot = stamp
           /\ \A k \in answer.todo :
                  AsFreshAs(k, [data |-> answer.data[k], slot |-> answer.slot])
  <1>. Tip \in Nat /\ Tip <= MaxSlot /\ MaxSlot \in Nat
    BY TipIsNat
  <1>1. PICK data \in [Keys -> 0..read] :
            /\ \A k \in keys : LastWrite(k, read, data[k])
            /\ answer = [todo |-> keys, slot |-> stamp, data |-> data]
    BY DEF AnswerAt
  <1>2. data \in [Keys -> Data] /\ stamp \in Slots
    BY DEF Data, Slots
  <1>3. ASSUME NEW k \in keys, NEW s \in 1..stamp, k \in chain[s]
        PROVE  s <= data[k]
    <2>1. data[k] \in 0..read /\ s \in 1..read
      OBVIOUS
    <2>2. \A later \in data[k] + 1 .. read : k \notin chain[later]
      BY <1>1 DEF LastWrite
    <2>. QED
      BY <1>3, <2>1, <2>2
  <1>. QED
    BY <1>1, <1>2, <1>3 DEF Answers, AsFreshAs

\* A new slot is past every stamp, so nothing stored or on its way gets older.
LEMMA ChainGrows ==
    ASSUME TypeOK, NEW written \in SUBSET Keys, NewSlot(written)
    PROVE  /\ Tip' = Tip + 1
           /\ chain' \in Seq(SUBSET Keys)
           /\ \A s \in 1..Tip : chain'[s] = chain[s]
  BY DEF TypeOK, NewSlot, Tip

\* Every step keeps the types, and the stamps within the chain.
LEMMA TypeStep ==
    ASSUME TypeOK, StampedInThePast, [Next]_vars
    PROVE  TypeOK' /\ StampedInThePast'
  <1>. Tip \in Nat /\ Tip <= MaxSlot /\ 1 <= Tip /\ MaxSlot \in Nat
    BY TipIsNat
  <1>1. ASSUME NEW written \in SUBSET Keys, NewSlot(written)
        PROVE  TypeOK' /\ StampedInThePast'
    <2>1. Tip' = Tip + 1 /\ chain' \in Seq(SUBSET Keys)
      BY <1>1, ChainGrows
    <2>2. UNCHANGED <<replays, streamVars, storeVars, rpcVars>> /\ Tip < MaxSlot
      BY <1>1 DEF NewSlot
    <2>3. TypeOK'
      BY <2>1, <2>2 DEF TypeOK, streamVars, storeVars, rpcVars
    <2>4. /\ poll.slot \in Int /\ scan.slot \in Int
          /\ \A k \in Keys : store[k].slot \in Int
      BY DEF TypeOK, Answers, Slots
    <2>. QED
      BY <2>1, <2>2, <2>3, <2>4 DEF StampedInThePast, storeVars, rpcVars
  <1>2. ASSUME Connect PROVE TypeOK' /\ StampedInThePast'
    BY <1>2 DEF TypeOK, StampedInThePast, Connect, storeVars, rpcVars, Tip, None
  <1>3. ASSUME Subscribe PROVE TypeOK' /\ StampedInThePast'
    <2>1. Start \in 0..MaxSlot + 1
      BY DEF Start, TypeOK, None
    <2>. QED
      BY <1>3, <2>1 DEF TypeOK, StampedInThePast, Subscribe, storeVars, rpcVars, Tip
  <1>4. ASSUME NEW k \in Keys, Deliver(k) PROVE TypeOK' /\ StampedInThePast'
    <2>1. cursor \in 0..Tip /\ cursor \in Slots /\ Tip' = Tip
      BY <1>4 DEF Deliver, TypeOK, Slots, Tip
    <2>2. Upsert(k, cursor, cursor)
      BY <1>4 DEF Deliver
    <2>3. /\ store' \in [Keys -> [data : Data, slot : Slots \cup {-1}]]
          /\ last_slot' \in 0..Tip
          /\ \A j \in Keys : store'[j].slot <= Tip
      BY <2>1, <2>2, UpsertEffect DEF Data
    <2>. QED
      BY <1>4, <2>1, <2>3 DEF TypeOK, StampedInThePast, Deliver, rpcVars
  <1>5. ASSUME NextSlot PROVE TypeOK' /\ StampedInThePast'
    BY <1>5 DEF TypeOK, StampedInThePast, NextSlot, storeVars, rpcVars, Tip
  <1>6. ASSUME EndOk PROVE TypeOK' /\ StampedInThePast'
    BY <1>6 DEF TypeOK, StampedInThePast, EndOk, storeVars, rpcVars, Tip
  <1>7. ASSUME EndErr PROVE TypeOK' /\ StampedInThePast'
    BY <1>7 DEF TypeOK, StampedInThePast, EndErr, storeVars, rpcVars, Tip
  <1>8. ASSUME PollAnswer PROVE TypeOK' /\ StampedInThePast'
    <2>1. PICK slot \in 0..Tip : AnswerAt(slot, Polled, slot, poll')
      BY <1>8, FeedAssumption DEF PollAnswer
    <2>2. poll' \in Answers /\ poll'.slot = slot
      <3>1. slot \in 0..slot /\ Polled \in SUBSET Keys
        BY FeedAssumption
      <3>. QED
        BY <2>1, <3>1, AnswerEffect
    <2>. QED
      BY <1>8, <2>2 DEF TypeOK, StampedInThePast, PollAnswer, streamVars, storeVars, Tip
  <1>9. ASSUME NEW k \in Keys, PollStore(k) PROVE TypeOK' /\ StampedInThePast'
    <2>1. poll.slot \in 0..Tip /\ poll.data[k] \in Data /\ Tip' = Tip
      BY <1>9 DEF PollStore, TypeOK, StampedInThePast, Answers, Slots, Tip
    <2>2. /\ store' \in [Keys -> [data : Data, slot : Slots \cup {-1}]]
          /\ last_slot' \in 0..Tip
          /\ \A j \in Keys : store'[j].slot <= Tip
      <3>1. Upsert(k, poll.data[k], poll.slot)
        BY <1>9 DEF PollStore
      <3>. QED
        BY <2>1, <3>1, UpsertEffect
    <2>3. poll' \in Answers /\ poll'.slot = poll.slot
      BY <1>9 DEF PollStore, Stored, TypeOK, Answers, Data, Slots
    <2>. QED
      BY <1>9, <2>1, <2>2, <2>3 DEF TypeOK, StampedInThePast, PollStore, streamVars
  <1>10. ASSUME ScanSlot PROVE TypeOK' /\ StampedInThePast'
    <2>1. PICK slot \in {0, Tip} : scan' = [scan EXCEPT !.slot = slot]
      BY <1>10 DEF ScanSlot
    <2>2. scan \in Answers /\ slot \in Slots
      BY DEF TypeOK, Slots
    <2>3. scan' \in Answers /\ scan'.slot = slot
      BY <2>1, <2>2 DEF Answers
    <2>. QED
      BY <1>10, <2>3 DEF TypeOK, StampedInThePast, ScanSlot, streamVars, storeVars, Tip
  <1>11. ASSUME ScanAnswer PROVE TypeOK' /\ StampedInThePast'
    <2>1. scan.slot \in 0..Tip
      BY DEF TypeOK, StampedInThePast, Answers, Slots
    <2>2. scan' \in Answers /\ scan'.slot = scan.slot
      <3>1. Tip \in 0..Tip /\ Scanned \in SUBSET Keys
        BY FeedAssumption
      <3>2. AnswerAt(Tip, Scanned, scan.slot, scan')
        BY <1>11 DEF ScanAnswer
      <3>. QED
        BY <2>1, <3>1, <3>2, AnswerEffect
    <2>. QED
      BY <1>11, <2>1, <2>2 DEF TypeOK, StampedInThePast, ScanAnswer, streamVars, storeVars, Tip
  <1>12. ASSUME NEW k \in Keys, ScanStore(k) PROVE TypeOK' /\ StampedInThePast'
    <2>1. scan.slot \in 0..Tip /\ scan.data[k] \in Data /\ Tip' = Tip
      BY <1>12 DEF ScanStore, TypeOK, StampedInThePast, Answers, Slots, Tip
    <2>2. /\ store' \in [Keys -> [data : Data, slot : Slots \cup {-1}]]
          /\ last_slot' \in 0..Tip
          /\ \A j \in Keys : store'[j].slot <= Tip
      <3>1. Upsert(k, scan.data[k], scan.slot)
        BY <1>12 DEF ScanStore
      <3>. QED
        BY <2>1, <3>1, UpsertEffect
    <2>3. scan' \in Answers /\ scan'.slot = scan.slot
      BY <1>12 DEF ScanStore, Stored, TypeOK, Answers, Data, Slots
    <2>. QED
      BY <1>12, <2>1, <2>2, <2>3 DEF TypeOK, StampedInThePast, ScanStore, streamVars
  <1>13. CASE UNCHANGED vars
    BY <1>13 DEF TypeOK, StampedInThePast, vars, streamVars, storeVars, rpcVars, Tip
  <1>. QED
    BY <1>1, <1>2, <1>3, <1>4, <1>5, <1>6, <1>7, <1>8, <1>9, <1>10, <1>11, <1>12, <1>13
       DEF Next

\* The empty store at the first slot.
LEMMA InitTypes == Init => TypeOK /\ StampedInThePast
  <1>. SUFFICES ASSUME Init PROVE TypeOK /\ StampedInThePast
    OBVIOUS
  <1>1. chain \in Seq(SUBSET Keys) /\ Tip = 1
    BY DEF Init, Tip
  <1>2. 0 \in Slots /\ 1 \in 1..MaxSlot /\ MaxSlot \in Nat
    BY FeedAssumption DEF Slots
  <1>3. NoAnswer \in Answers /\ NoAnswer.slot = 0
    BY <1>2 DEF NoAnswer, Answers, Data
  <1>. QED
    BY <1>1, <1>2, <1>3 DEF Init, TypeOK, StampedInThePast, Absent, None, Data

\* Every reachable state of the feed is well typed.
THEOREM TypeCorrect == Spec => []TypeOK
  <1>1. TypeOK /\ StampedInThePast => TypeOK
    OBVIOUS
  <1>. QED
    BY <1>1, InitTypes, TypeStep, PTL DEF Spec

-----------------------------------------------------------------------------
\* Storing something as fresh as its stamp keeps every stamp a lower bound,
\* and moves no account to an older stamp.
LEMMA UpsertKeeps ==
    ASSUME IInv, NEW k \in Keys, NEW data \in Data, NEW slot \in 0..Tip,
           AsFreshAs(k, [data |-> data, slot |-> slot]), Upsert(k, data, slot),
           chain' = chain
    PROVE  /\ StampIsLowerBound'
           /\ \A j \in Keys : store'[j].slot >= store[j].slot
  <1>1. ASSUME NEW j \in Keys PROVE AsFreshAs(j, store'[j])
    <2>1. \/ store'[j] = store[j]
          \/ j = k /\ store'[j] = [data |-> data, slot |-> slot]
      BY UpsertEffect DEF IInv
    <2>. QED
      BY <2>1 DEF IInv, StampIsLowerBound
  <1>2. ASSUME NEW j \in Keys PROVE store'[j].slot >= store[j].slot
    <2>1. store[j].slot \in Int
      BY DEF IInv, TypeOK, Slots
    <2>. QED
      BY <2>1, UpsertEffect DEF IInv
  <1>. QED
    BY <1>1, <1>2 DEF StampIsLowerBound, AsFreshAs

\* A stamp within the chain stays a lower bound when a slot is added.
LEMMA FreshWhenChainGrows ==
    ASSUME TypeOK, NEW written \in SUBSET Keys, NewSlot(written),
           NEW k \in Keys, NEW entry, entry.slot \in Int, entry.slot <= Tip,
           AsFreshAs(k, entry)
    PROVE  \A s \in 1..entry.slot : k \in chain'[s] => s <= entry.data
  <1>. Tip \in Nat
    BY TipIsNat
  <1>. QED
    BY ChainGrows DEF AsFreshAs

\* An answer with one account less, or with another stamp it still deserves,
\* is as fresh as before for the accounts left in it.
LEMMA StoredKeepsFresh ==
    ASSUME NEW answer \in Answers, NEW k \in Keys,
           \A j \in answer.todo :
               AsFreshAs(j, [data |-> answer.data[j], slot |-> answer.slot])
    PROVE  \A j \in Stored(answer, k).todo :
               AsFreshAs(j, [data |-> Stored(answer, k).data[j],
                             slot |-> Stored(answer, k).slot])
  BY DEF Stored, Answers, AsFreshAs

\* What the last update streamed for an account guarantees survives any step
\* that stores under no older stamp and delivers nothing.
LEMMA StreamedKept ==
    ASSUME IInv, chain' = chain, delivered' = delivered,
           \A j \in Keys : store'[j].slot >= store[j].slot,
           \A j \in Keys : store'[j].slot \in Int
    PROVE  StreamedIsStamped'
  <1>1. \A j \in Keys : store[j].slot \in Int /\ delivered[j] \in Int
    BY DEF IInv, TypeOK, Slots
  <1>. QED
    BY <1>1 DEF IInv, StreamedIsStamped

\* Every step keeps the inductive invariant.
LEMMA InvStep == IInv /\ [Next]_vars => IInv'
  <1>. SUFFICES ASSUME IInv, [Next]_vars PROVE IInv'
    OBVIOUS
  <1>. DEFINE Goal == /\ StampIsLowerBound' /\ AnswersAreFresh'
                 /\ ScanStartsEmpty' /\ StreamedIsStamped'
  <1>. TypeOK /\ StampedInThePast
    BY DEF IInv
  <1>t. TypeOK' /\ StampedInThePast'
    BY TypeStep
  <1>i. /\ poll \in Answers /\ scan \in Answers
        /\ poll.slot \in 0..Tip /\ scan.slot \in 0..Tip /\ Tip \in Nat
        /\ \A k \in Keys : store[k].slot \in Int /\ store'[k].slot \in Int
    <2>1. /\ Tip \in Nat /\ Tip <= MaxSlot /\ MaxSlot \in Nat
      BY TipIsNat
    <2>2. /\ poll \in Answers /\ scan \in Answers
          /\ poll.slot <= Tip /\ scan.slot <= Tip
      BY DEF TypeOK, StampedInThePast
    <2>3. poll.slot \in 0..MaxSlot /\ scan.slot \in 0..MaxSlot
      BY <2>2 DEF Answers, Slots
    <2>4. \A k \in Keys : store[k].slot \in Slots \cup {-1}
      BY DEF TypeOK
    <2>5. \A k \in Keys : store'[k].slot \in Slots \cup {-1}
      BY <1>t DEF TypeOK
    <2>6. \A n \in Slots \cup {-1} : n \in Int
      BY <2>1 DEF Slots
    <2>. QED
      BY <2>1, <2>2, <2>3, <2>4, <2>5, <2>6
  <1>s. ASSUME UNCHANGED <<chain, storeVars, rpcVars, delivered>> PROVE Goal
    BY <1>s, <1>i DEF IInv, storeVars, rpcVars, StampIsLowerBound, AnswersAreFresh, ScanStartsEmpty,
                      StreamedIsStamped, AsFreshAs
  <1>1. ASSUME NEW written \in SUBSET Keys, NewSlot(written) PROVE Goal
    <2>1. UNCHANGED <<store, poll, scan, delivered>>
      BY <1>1 DEF NewSlot, storeVars, rpcVars, streamVars
    <2>2. StampIsLowerBound'
      <3>1. \A k \in Keys : store[k].slot <= Tip /\ AsFreshAs(k, store[k])
        BY DEF StampedInThePast, IInv, StampIsLowerBound
      <3>. QED
        BY <1>1, <1>i, <2>1, <3>1, FreshWhenChainGrows DEF StampIsLowerBound, AsFreshAs
    <2>3. AnswersAreFresh'
      <3>. SUFFICES ASSUME NEW answer \in {poll, scan}, NEW k \in answer.todo,
                           NEW s \in 1..answer.slot, k \in chain'[s]
                    PROVE  s <= answer.data[k]
        BY <2>1 DEF AnswersAreFresh, AsFreshAs
      <3>1. AsFreshAs(k, [data |-> answer.data[k], slot |-> answer.slot])
        BY DEF IInv, AnswersAreFresh
      <3>2. s \in 1..Tip
        BY <1>i
      <3>. QED
        BY <1>1, <3>1, <3>2, ChainGrows DEF AsFreshAs
    <2>4. StreamedIsStamped'
      <3>1. ASSUME NEW k \in Keys, delivered[k] # 0
            PROVE  delivered[k] \in 1..Tip
        BY <1>i, <3>1 DEF TypeOK, IInv, StreamedIsStamped, Slots, StampedInThePast
      <3>. QED
        BY <1>1, <2>1, <3>1, ChainGrows DEF IInv, StreamedIsStamped
    <2>. QED
      BY <1>1, <2>2, <2>3, <2>4 DEF NewSlot, rpcVars, IInv, ScanStartsEmpty
  <1>2. ASSUME Connect PROVE Goal
    BY <1>2, <1>s DEF Connect
  <1>3. ASSUME Subscribe PROVE Goal
    BY <1>3, <1>s DEF Subscribe
  <1>4. ASSUME NEW k \in Keys, Deliver(k) PROVE Goal
    <2>1. /\ cursor \in 0..Tip /\ cursor \in Data /\ k \in chain[cursor]
          /\ Upsert(k, cursor, cursor) /\ UNCHANGED <<chain, poll, scan>>
      BY <1>4, TipIsNat DEF Deliver, TypeOK, Data, Slots, rpcVars
    <2>2. AsFreshAs(k, [data |-> cursor, slot |-> cursor])
      BY <2>1 DEF AsFreshAs
    <2>3. /\ StampIsLowerBound'
          /\ \A j \in Keys : store'[j].slot >= store[j].slot
      BY <2>1, <2>2, UpsertKeeps
    <2>4. store'[k].slot >= cursor
      BY <2>1, UpsertEffect
    <2>5. ASSUME NEW j \in Keys, delivered'[j] # 0
          PROVE  delivered'[j] <= store'[j].slot /\ j \in chain'[delivered'[j]]
      <3>1. delivered \in [Keys -> Slots]
        BY DEF TypeOK
      <3>2. \/ delivered'[j] = delivered[j]
            \/ j = k /\ delivered'[j] = cursor
        BY <1>4, <3>1 DEF Deliver
      <3>3. CASE delivered'[j] = delivered[j]
        BY <1>i, <2>1, <2>3, <2>5, <3>1, <3>3 DEF IInv, StreamedIsStamped, Slots
      <3>4. CASE j = k /\ delivered'[j] = cursor
        BY <2>1, <2>4, <3>4
      <3>. QED
        BY <3>2, <3>3, <3>4
    <2>6. AnswersAreFresh'
      BY <2>1 DEF IInv, AnswersAreFresh, AsFreshAs
    <2>. QED
      BY <1>4, <2>3, <2>5, <2>6 DEF StreamedIsStamped, Deliver, rpcVars, IInv, ScanStartsEmpty
  <1>5. ASSUME NextSlot PROVE Goal
    BY <1>5, <1>s DEF NextSlot
  <1>6. ASSUME EndOk PROVE Goal
    BY <1>6, <1>s DEF EndOk
  <1>7. ASSUME EndErr PROVE Goal
    BY <1>7, <1>s DEF EndErr
  <1>8. ASSUME PollAnswer PROVE Goal
    <2>1. PICK slot \in 0..Tip : AnswerAt(slot, Polled, slot, poll')
      BY <1>8, <1>i, TipIsNat, FeedAssumption DEF PollAnswer
    <2>2. \A k \in poll'.todo : AsFreshAs(k, [data |-> poll'.data[k], slot |-> poll'.slot])
      <3>1. slot \in 0..slot /\ Polled \in SUBSET Keys
        BY FeedAssumption
      <3>. QED
        BY <2>1, <3>1, AnswerEffect
    <2>3. UNCHANGED <<chain, store, delivered, scan>>
      BY <1>8 DEF PollAnswer, streamVars, storeVars
    <2>. QED
      BY <1>8, <2>2, <2>3 DEF PollAnswer, IInv, StampIsLowerBound, AnswersAreFresh,
                              ScanStartsEmpty, StreamedIsStamped, AsFreshAs
  <1>9. ASSUME NEW k \in Keys, PollStore(k) PROVE Goal
    <2>1. /\ poll.data[k] \in Data /\ Upsert(k, poll.data[k], poll.slot)
          /\ poll' = Stored(poll, k) /\ UNCHANGED <<chain, delivered, scan>>
      BY <1>9, <1>i DEF PollStore, Answers, streamVars
    <2>2. AsFreshAs(k, [data |-> poll.data[k], slot |-> poll.slot])
      BY <1>9 DEF PollStore, IInv, AnswersAreFresh
    <2>3. /\ StampIsLowerBound'
          /\ \A j \in Keys : store'[j].slot >= store[j].slot
      BY <1>i, <2>1, <2>2, UpsertKeeps
    <2>4. AnswersAreFresh'
      BY <1>i, <2>1, StoredKeepsFresh DEF IInv, AnswersAreFresh, AsFreshAs
    <2>5. StreamedIsStamped'
      BY <1>i, <2>1, <2>3, StreamedKept
    <2>. QED
      BY <1>9, <2>1, <2>3, <2>4, <2>5 DEF PollStore, Stored, IInv, ScanStartsEmpty
  <1>10. ASSUME ScanSlot PROVE Goal
    <2>1. UNCHANGED <<chain, store, delivered, poll>> /\ scan_at = "slot" /\ scan'.todo = {}
      BY <1>10 DEF ScanSlot, streamVars, storeVars, IInv, ScanStartsEmpty, Answers
    <2>. QED
      BY <2>1 DEF IInv, StampIsLowerBound, AnswersAreFresh, ScanStartsEmpty,
                  StreamedIsStamped, AsFreshAs
  <1>11. ASSUME ScanAnswer PROVE Goal
    <2>1. \A k \in scan'.todo : AsFreshAs(k, [data |-> scan'.data[k], slot |-> scan'.slot])
      <3>1. Tip \in 0..Tip /\ Scanned \in SUBSET Keys
        BY <1>i, FeedAssumption
      <3>2. AnswerAt(Tip, Scanned, scan.slot, scan')
        BY <1>11 DEF ScanAnswer
      <3>. QED
        BY <1>i, <3>1, <3>2, AnswerEffect
    <2>2. UNCHANGED <<chain, store, delivered, poll>> /\ scan_at' = "store"
      BY <1>11 DEF ScanAnswer, streamVars, storeVars
    <2>. QED
      BY <2>1, <2>2 DEF IInv, StampIsLowerBound, AnswersAreFresh, ScanStartsEmpty,
                        StreamedIsStamped, AsFreshAs
  <1>12. ASSUME NEW k \in Keys, ScanStore(k) PROVE Goal
    <2>1. /\ scan.data[k] \in Data /\ Upsert(k, scan.data[k], scan.slot)
          /\ scan' = Stored(scan, k) /\ UNCHANGED <<chain, delivered, poll>>
      BY <1>12, <1>i DEF ScanStore, Answers, streamVars
    <2>2. AsFreshAs(k, [data |-> scan.data[k], slot |-> scan.slot])
      BY <1>12 DEF ScanStore, IInv, AnswersAreFresh
    <2>3. /\ StampIsLowerBound'
          /\ \A j \in Keys : store'[j].slot >= store[j].slot
      BY <1>i, <2>1, <2>2, UpsertKeeps
    <2>4. AnswersAreFresh'
      BY <1>i, <2>1, StoredKeepsFresh DEF IInv, AnswersAreFresh, AsFreshAs
    <2>5. StreamedIsStamped'
      BY <1>i, <2>1, <2>3, StreamedKept
    <2>. QED
      BY <1>12, <2>1, <2>3, <2>4, <2>5 DEF ScanStore, Stored, IInv, ScanStartsEmpty
  <1>13. ASSUME UNCHANGED vars PROVE Goal
    BY <1>13, <1>s DEF vars, streamVars
  <1>14. Goal
    BY <1>1, <1>2, <1>3, <1>4, <1>5, <1>6, <1>7, <1>8, <1>9, <1>10, <1>11, <1>12, <1>13
       DEF Next
  <1>. QED
    BY <1>t, <1>14 DEF IInv

\* The initial store is empty, and nothing is on its way.
LEMMA InvInit == Init => IInv
  <1>. SUFFICES ASSUME Init PROVE IInv
    OBVIOUS
  <1>1. TypeOK /\ StampedInThePast
    BY InitTypes
  <1>2. \A k \in Keys : store[k].slot = -1
    BY DEF Init, Absent
  <1>. QED
    BY <1>1, <1>2 DEF Init, IInv, NoAnswer, StampIsLowerBound, AsFreshAs, AnswersAreFresh,
                      ScanStartsEmpty, StreamedIsStamped

\* What is stored under a slot is at least as fresh as that slot, whichever
\* of the stream, the batches and the scan wrote it, and in whichever order.
THEOREM StampsAreLowerBounds == Spec => []StampIsLowerBound
  <1>1. IInv => StampIsLowerBound
    BY DEF IInv
  <1>. QED
    BY <1>1, InvInit, InvStep, PTL DEF Spec

\* An update that was streamed is never undone by a fetch or a replay, for
\* any number of accounts, any lag of the RPC node and any resume point.
THEOREM StreamedNeverUndone == Spec => []StreamedStays
  <1>1. IInv => StreamedStays
    <2>. SUFFICES ASSUME IInv, NEW k \in Keys PROVE store[k].data >= delivered[k]
      BY DEF StreamedStays
    <2>1. /\ store[k].data \in Nat /\ store[k].slot \in Int /\ delivered[k] \in Nat
      BY FeedAssumption DEF IInv, TypeOK, Data, Slots
    <2>2. CASE delivered[k] = 0
      BY <2>1, <2>2
    <2>3. CASE delivered[k] # 0
      <3>1. delivered[k] \in 1..store[k].slot /\ k \in chain[delivered[k]]
        BY <2>1, <2>3 DEF IInv, StreamedIsStamped
      <3>. QED
        BY <2>1, <3>1 DEF IInv, StampIsLowerBound, AsFreshAs
    <2>. QED
      BY <2>2, <2>3
  <1>. QED
    BY <1>1, InvInit, InvStep, PTL DEF Spec
=============================================================================
