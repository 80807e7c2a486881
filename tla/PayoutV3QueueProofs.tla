------------------------- MODULE PayoutV3QueueProofs -------------------------
(***************************************************************************)
(* The V3 queue, for any number of payouts, ticks, attempts, transactions  *)
(* and faults, whatever the settings.  One induction over QInv, and one    *)
(* over RecordInv for what stands from the moment a delivery is recorded;   *)
(* the action properties are read off the same steps.                      *)
(***************************************************************************)
EXTENDS PayoutV3Queue, WellFoundedInduction, TLAPS

USE PayoutsAssumption, TicksAssumption, SettingsAssumption, BoundsAssumption

(* Only a lease is in time. *)
LiveIsLeased == \A p \in Payouts : job[p].live => job[p].state = "leased"

(* Transactions are numbered as they are sent, and each is for a payout. *)
SentIsUsed == \A h \in Txs : tx[h].state # "unused" => h <= sent /\ tx[h].payout \in Payouts

(* What an activation waits for is for its payout; what it records succeeded. *)
HandsAreTrue ==
    \A t \in Ticks :
        /\ pc[t] \in {"wait", "record"} => /\ tx[mine[t].hash].payout = mine[t].payout
                                           /\ tx[mine[t].hash].state # "unused"
        /\ pc[t] = "record" => tx[mine[t].hash].state = "success"

(* Whoever still holds its payout knows its checkpoint: the one it read, and  *)
(* none once it is on the way to a broadcast.                                 *)
HolderKnowsCheckpoint ==
    \A t \in Ticks :
        (pc[t] \notin {"idle", "promote", "acquire", "submit"} /\ Holds(t, mine[t].payout)) =>
            checkpoint[mine[t].payout] = IF pc[t] = "prepare" THEN mine[t].hash ELSE NoTx

QInv == /\ TypeOK
        /\ NoStrandedPayout
        /\ RowsTellTheTruth
        /\ LiveIsLeased
        /\ SentIsUsed
        /\ HandsAreTrue
        /\ HolderKnowsCheckpoint

----------------------------------------------------------------------------
(* A set of payouts that is not empty has an oldest. *)
LEMMA OldestIsThere ==
    ASSUME NEW S \in SUBSET Payouts, S # {}
    PROVE  Min(S) \in S
<1>1. S \subseteq Nat
  OBVIOUS
<1>2. PICK x \in S : \A y \in S : <<y, x>> \notin OpToRel(<, Nat)
  BY <1>1, WFMin, NatLessThanWellFounded
<1>3. \A y, z \in Nat : <<y, z>> \notin OpToRel(<, Nat) => z <= y
  BY DEF OpToRel
<1>4. \A y \in S : x <= y
  BY <1>1, <1>2, <1>3
<1>. QED
  BY <1>4 DEF Min

LEMMA QInvInit == Init => QInv
<1> SUFFICES ASSUME Init PROVE QInv
  OBVIOUS
<1> USE DEF Init
<1>1. TypeOK
  BY DEF TypeOK, NoJob, Unheld, NoneOf, Place, Txs, NoTx
<1>2. NoStrandedPayout /\ RowsTellTheTruth /\ LiveIsLeased
  BY BoundsAssumption DEF NoStrandedPayout, RowsTellTheTruth, LiveIsLeased, NoJob, Unheld
<1>3. SentIsUsed /\ HandsAreTrue /\ HolderKnowsCheckpoint
  BY DEF SentIsUsed, HandsAreTrue, HolderKnowsCheckpoint
<1>. QED
  BY <1>1, <1>2, <1>3 DEF QInv

----------------------------------------------------------------------------
(* How a row of the queue may change, whoever acts. *)
Enqueued(p)  == job[p].state = "none" /\ adapter[p] # "funding" /\ job'[p] = Queued
Swept(p)     == p \in Exhausted /\ job'[p] = Closed(p, "review")
Unreadable(p) == /\ p \in Leasable /\ p \in setting.corrupt
                 /\ job'[p] = Unheld("review", job[p].tries + 1)
Leased(p)    == \E t \in Ticks :
    /\ p \in Leasable
    /\ job'[p] = [state |-> "leased", tries |-> job[p].tries + 1, token |-> t, live |-> TRUE]
    /\ pc'[t] = "prepare" /\ mine'[t] = [left |-> {}, payout |-> p, hash |-> checkpoint[p]]
Lapses(p)    == /\ job[p].state = "leased" /\ job[p].live
                /\ job'[p] = [job[p] EXCEPT !.live = FALSE]
HandedBack(p) == \E t \in Ticks :
    /\ Holds(t, p) /\ mine[t].payout = p /\ pc'[t] = "idle"
    /\ \/ /\ pc[t] = "prepare"
          /\ \/ job'[p] = Closed(p, "review")
             \/ ~setting.broadcast /\ job'[p] = Unheld("queued", job[p].tries - 1)
       \/ /\ pc[t] \in {"retryable", "final"}
          /\ \/ job'[p] = Closed(p, "review")
             \/ job'[p] = Closed(p, "retry") /\ job[p].tries < MaxAttempts
       \/ /\ pc[t] = "submit" /\ checkpoint[p] \in Txs
          /\ job'[p] = Closed(p, "submitted")

RowMoves(p) == \/ Enqueued(p) \/ Swept(p) \/ Unreadable(p) \/ Leased(p)
               \/ Lapses(p) \/ HandedBack(p)

(* A promotion queues the one payout it is about, after its escrow receipt. *)
LEMMA PromoteMoves ==
    ASSUME QInv, NEW t \in Ticks, Promote(t)
    PROVE  /\ pc[t] = "promote"
           /\ \/ UNCHANGED <<prep, job>>
              \/ \E p \in Payouts :
                    /\ adapter[p] # "funding"
                    /\ prep[p].state = "waiting" /\ prep[p].tries < MaxAttempts
                    /\ PromoteRow(p)
           /\ \/ Leave(t)
              \/ \E rest \in SUBSET mine[t].left :
                    \E place \in {"promote", "acquire"} :
                       Goto(t, place, [mine[t] EXCEPT !.left = rest])
           /\ UNCHANGED <<setting, checkpoint, chain, faults>>
<1> USE DEF Promote
<1> DEFINE p == Min(mine[t].left)
<1>1. mine[t] \in [left : SUBSET Payouts, payout : Payouts \cup {NoPayout}, hash : Txs \cup {NoTx}]
  BY DEF QInv, TypeOK
<1>2. CASE mine[t].left = {}
  <2>1. mine[t] = [mine[t] EXCEPT !.left = mine[t].left]
    BY <1>1
  <2>. QED
    BY <1>2, <2>1
<1>3. CASE mine[t].left # {}
  <2>1. p \in mine[t].left /\ p \in Payouts
    BY <1>1, <1>3, OldestIsThere
  <2>2. mine[t].left \ {p} \in SUBSET mine[t].left
    OBVIOUS
  <2>3. prep[p].tries \in 0..MaxAttempts /\ prep[p].state \in {"waiting", "submitted"}
    BY <2>1 DEF QInv, TypeOK
  <2> HIDE DEF p
  <2>4. CASE adapter[p] = "funding" \/ prep[p].state # "waiting" \/ prep[p].tries >= MaxAttempts
    BY <1>3, <2>2, <2>4 DEF p
  <2>5. CASE ~(adapter[p] = "funding" \/ prep[p].state # "waiting" \/ prep[p].tries >= MaxAttempts)
    <3>1. prep[p].tries < MaxAttempts
      BY <2>3, <2>5, BoundsAssumption
    <3>2. CASE p \in setting.corrupt
      BY <1>3, <2>5, <3>2 DEF p
    <3>3. CASE p \notin setting.corrupt
      BY <1>3, <2>1, <2>2, <2>5, <3>1, <3>3 DEF p
    <3>. QED
      BY <3>2, <3>3
  <2>. QED
    BY <2>4, <2>5
<1>. QED
  BY <1>2, <1>3

(* A write under the lease touches the one row, and only if it is held. *)
LEMMA WriteMoves ==
    ASSUME QInv, NEW t \in Ticks, mine[t].payout \in Payouts,
           NEW row, WriteAndLeave(t, row),
           NEW p \in Payouts, job'[p] # job[p]
    PROVE  Holds(t, p) /\ mine[t].payout = p /\ job'[p] = row /\ pc'[t] = "idle"
<1>1. job \in [Payouts -> [state : {"none", "queued", "leased", "retry", "submitted", "review"},
                           tries : 0..MaxAttempts, token : Ticks \cup {NoTick},
                           live : BOOLEAN]]
      /\ pc \in [Ticks -> Place]
  BY DEF QInv, TypeOK
<1>. QED
  BY <1>1 DEF WriteAndLeave, Leave, Goto

LEMMA JobChanges ==
    ASSUME QInv, [Next]_vars, NEW p \in Payouts, job'[p] # job[p]
    PROVE  RowMoves(p)
<1>0. /\ job \in [Payouts -> [state : {"none", "queued", "leased", "retry", "submitted", "review"},
                           tries : 0..MaxAttempts, token : Ticks \cup {NoTick},
                           live : BOOLEAN]]
      /\ pc \in [Ticks -> Place] /\ DOMAIN mine = Ticks
  BY DEF QInv, TypeOK
<1>1. CASE UNCHANGED vars
  BY <1>1 DEF vars, tables
<1>2. ASSUME NEW q \in Payouts, Enqueue(q) PROVE RowMoves(p)
  BY <1>0, <1>2 DEF Enqueue, RowMoves, Enqueued
<1>3. ASSUME NEW q \in Payouts, Lapse(q) PROVE RowMoves(p)
  BY <1>0, <1>3 DEF Lapse, RowMoves, Lapses
<1>4. ASSUME NEW q \in Payouts, ConfirmReceipt(q) PROVE FALSE
  BY <1>4 DEF ConfirmReceipt, tables
<1>5. ASSUME NEW h \in Txs, Mine(h) PROVE FALSE
  BY <1>5 DEF Mine, tables
<1>6. ASSUME NEW t \in Ticks, Throw(t) \/ StartTick(t) \/ Renew(t) \/ Send(t) \/ Await(t)
                             \/ RecordConfirmed(t)
      PROVE  FALSE
  BY <1>6 DEF Throw, StartTick, Renew, Send, Await, RecordConfirmed, tables
<1>7. ASSUME NEW t \in Ticks, Promote(t) PROVE RowMoves(p)
  <2>1. PICK q \in Payouts : adapter[q] # "funding" /\ PromoteRow(q)
    BY <1>7, PromoteMoves
  <2>. QED
    BY <1>0, <2>1 DEF PromoteRow, RowMoves, Enqueued
<1>8. ASSUME NEW t \in Ticks, Acquire(t) PROVE RowMoves(p)
  <2> DEFINE q == Min(Leasable)
             swept == [r \in Payouts |-> IF r \in Exhausted THEN Closed(r, "review") ELSE job[r]]
  <2>1. Leasable # {} => q \in Leasable /\ q \in Payouts
    BY OldestIsThere DEF Leasable
  <2>2. swept[p] # job[p] => p \in Exhausted /\ swept[p] = Closed(p, "review")
    OBVIOUS
  <2>3. swept \in [Payouts -> {swept[r] : r \in Payouts}]
    OBVIOUS
  <2>4. CASE Leasable = {}
    <3>1. job' = swept
      BY <1>8, <2>4 DEF Acquire
    <3>. QED
      BY <2>2, <3>1 DEF RowMoves, Swept
  <2>5. CASE Leasable # {} /\ q \in setting.corrupt
    <3>1. job' = [swept EXCEPT ![q] = Unheld("review", job[q].tries + 1)]
      BY <1>8, <2>5 DEF Acquire
    <3>2. CASE p = q
      BY <2>1, <2>3, <2>5, <3>1, <3>2 DEF RowMoves, Unreadable
    <3>3. CASE p # q
      BY <2>2, <2>3, <3>1, <3>3 DEF RowMoves, Swept
    <3>. QED
      BY <3>2, <3>3
  <2>6. CASE Leasable # {} /\ q \notin setting.corrupt
    <3>1. /\ job' = [swept EXCEPT ![q] = [state |-> "leased", tries |-> job[q].tries + 1,
                                         token |-> t, live |-> TRUE]]
          /\ Goto(t, "prepare", [left |-> {}, payout |-> q, hash |-> checkpoint[q]])
      BY <1>8, <2>6 DEF Acquire
    <3>2. CASE p = q
      <4>1. pc'[t] = "prepare" /\ mine'[t] = [left |-> {}, payout |-> p, hash |-> checkpoint[p]]
        BY <1>0, <3>1, <3>2 DEF Goto, NoneOf
      <4>. QED
        BY <2>1, <2>3, <2>6, <3>1, <3>2, <4>1 DEF RowMoves, Leased
    <3>3. CASE p # q
      BY <2>2, <2>3, <3>1, <3>3 DEF RowMoves, Swept
    <3>. QED
      BY <3>2, <3>3
  <2>. QED
    BY <2>4, <2>5, <2>6
<1>9. ASSUME NEW t \in Ticks, Prepare(t) PROVE RowMoves(p)
  <2>1. pc[t] = "prepare" /\ mine[t].payout \in Payouts
    BY <1>9 DEF Prepare, QInv, TypeOK
  <2>2. PICK row : /\ \/ row = Closed(mine[t].payout, "review")
                      \/ ~setting.broadcast /\ row = Unheld("queued", job[mine[t].payout].tries - 1)
                   /\ WriteAndLeave(t, row)
    BY <1>9 DEF Prepare
  <2>3. Holds(t, p) /\ mine[t].payout = p /\ job'[p] = row /\ pc'[t] = "idle"
    BY <2>1, <2>2, WriteMoves
  <2>4. \/ job'[p] = Closed(p, "review")
        \/ ~setting.broadcast /\ job'[p] = Unheld("queued", job[p].tries - 1)
    BY <2>2, <2>3
  <2>. QED
    BY <2>1, <2>3, <2>4 DEF RowMoves, HandedBack
<1>10. ASSUME NEW t \in Ticks, RecordFailed(t) PROVE RowMoves(p)
  <2>1. pc[t] \in {"retryable", "final"} /\ mine[t].payout \in Payouts
    BY <1>10 DEF RecordFailed, QInv, TypeOK
  <2>2. PICK state : /\ state \in {"retry", "review"}
                     /\ state = "retry" => job[mine[t].payout].tries < MaxAttempts
                     /\ WriteAndLeave(t, Closed(mine[t].payout, state))
    BY <1>10 DEF RecordFailed
  <2> DEFINE row == Closed(mine[t].payout, state)
  <2>3. Holds(t, p) /\ mine[t].payout = p /\ job'[p] = row /\ pc'[t] = "idle"
    <3>1. WriteAndLeave(t, row)
      BY <2>2
    <3> HIDE DEF row
    <3>. QED
      BY <2>1, <3>1, WriteMoves
  <2>4. job'[p] = Closed(p, "review") \/ (job'[p] = Closed(p, "retry") /\ job[p].tries < MaxAttempts)
    BY <2>2, <2>3
  <2>. QED
    BY <2>1, <2>3, <2>4 DEF RowMoves, HandedBack
<1>11. ASSUME NEW t \in Ticks, RecordSubmitted(t) PROVE RowMoves(p)
  <2>1. pc[t] = "submit" /\ mine[t].payout \in Payouts /\ mine[t].hash \in Txs
    BY <1>11 DEF RecordSubmitted, QInv, TypeOK
  <2>2. /\ checkpoint[mine[t].payout] = mine[t].hash
        /\ WriteAndLeave(t, Closed(mine[t].payout, "submitted"))
    BY <1>11 DEF RecordSubmitted
  <2>3. /\ Holds(t, p) /\ mine[t].payout = p /\ pc'[t] = "idle"
        /\ job'[p] = Closed(mine[t].payout, "submitted")
    BY <2>1, <2>2, WriteMoves
  <2>. QED
    BY <2>1, <2>2, <2>3 DEF RowMoves, HandedBack
<1>. QED
  BY <1>1, <1>2, <1>3, <1>4, <1>5, <1>6, <1>7, <1>8, <1>9, <1>10, <1>11 DEF Next, TickStep

----------------------------------------------------------------------------
(* A row that moves keeps the shape of a row, and is parked nowhere. *)
JobRow == [state : {"none", "queued", "leased", "retry", "submitted", "review"},
           tries : 0..MaxAttempts, token : Ticks \cup {NoTick}, live : BOOLEAN]

RowShape(row) ==
    /\ row \in JobRow /\ row.state # "none"
    /\ row.live => row.state = "leased"
    /\ row.state \in {"queued", "retry"} => row.tries < MaxAttempts
    /\ row.state = "leased" => row.tries > 0

LEMMA RowsKeepShape ==
    ASSUME QInv, NEW p \in Payouts, RowMoves(p)
    PROVE  RowShape(job'[p])
<1> USE DEF RowShape
<1>1. job[p] \in JobRow
  BY DEF QInv, TypeOK, JobRow
<1>2. /\ job[p].live => job[p].state = "leased"
      /\ job[p].state \in {"queued", "retry"} => job[p].tries < MaxAttempts
      /\ job[p].state = "leased" => job[p].tries > 0
  BY DEF QInv, LiveIsLeased, NoStrandedPayout
<1>3. job[p].tries \in 0..MaxAttempts
  BY <1>1 DEF JobRow
<1>4. ASSUME NEW state \in {"queued", "retry", "submitted", "review"}, NEW n \in 0..MaxAttempts,
             job'[p] = Unheld(state, n), state \in {"queued", "retry"} => n < MaxAttempts
      PROVE  RowShape(job'[p])
  BY <1>4 DEF Unheld, JobRow
<1>5. ASSUME NEW f \in BOOLEAN
      PROVE  [job[p] EXCEPT !.live = f] \in JobRow
  BY <1>1 DEF JobRow
<1>6. CASE Enqueued(p)
  BY <1>4, <1>6, BoundsAssumption DEF Enqueued, Queued
<1>7. CASE Swept(p)
  BY <1>3, <1>4, <1>7 DEF Swept, Closed
<1>8. CASE Unreadable(p)
  <2>1. job[p].tries + 1 \in 0..MaxAttempts
    BY <1>3, <1>8, BoundsAssumption DEF Unreadable, Leasable
  <2>. QED
    BY <1>4, <1>8, <2>1 DEF Unreadable
<1>9. CASE Leased(p)
  <2>1. job[p].tries + 1 \in 0..MaxAttempts /\ job[p].tries + 1 > 0
    BY <1>3, <1>9, BoundsAssumption DEF Leased, Leasable
  <2>2. PICK t \in Ticks :
           job'[p] = [state |-> "leased", tries |-> job[p].tries + 1, token |-> t, live |-> TRUE]
    BY <1>9 DEF Leased
  <2>. QED
    BY <2>1, <2>2 DEF JobRow
<1>10. CASE Lapses(p)
  <2>1. job'[p] \in JobRow
    BY <1>5, <1>10 DEF Lapses
  <2>. QED
    BY <1>1, <1>2, <1>10, <2>1 DEF Lapses, JobRow
<1>11. CASE HandedBack(p)
  <2>1. job[p].state = "leased" /\ job[p].tries > 0
    BY <1>2, <1>11 DEF HandedBack, Holds
  <2>2. job[p].tries - 1 \in 0..MaxAttempts /\ job[p].tries - 1 < MaxAttempts
    BY <1>3, <2>1, BoundsAssumption
  <2>3. \/ job'[p] = Unheld("queued", job[p].tries - 1)
        \/ job'[p] = Unheld("review", job[p].tries)
        \/ job'[p] = Unheld("submitted", job[p].tries)
        \/ job'[p] = Unheld("retry", job[p].tries) /\ job[p].tries < MaxAttempts
    BY <1>11 DEF HandedBack, Closed
  <2>. QED
    BY <1>3, <1>4, <2>2, <2>3
<1>. QED
  BY <1>6, <1>7, <1>8, <1>9, <1>10, <1>11 DEF RowMoves

(* What the chain, the adapter and the preparations never take back. *)
TxsStand ==
    \A h \in Txs : tx[h].state # "unused" =>
        /\ tx'[h].payout = tx[h].payout /\ tx'[h].state # "unused"
        /\ tx[h].state = "success" => tx'[h].state = "success"

AdapterStands ==
    \A p \in Payouts : /\ adapter[p] # "funding" => adapter'[p] # "funding"
                       /\ adapter[p] = "submitted" => adapter'[p] = "submitted"

NothingTakenBack ==
    /\ TxsStand
    /\ AdapterStands
    /\ \A p \in Payouts : job[p].state # "none" => job'[p].state # "none"

LEMMA HistoryStands ==
    ASSUME QInv, [Next]_vars
    PROVE  NothingTakenBack
<1>1. TxsStand
  <2> USE DEF TxsStand
  <2>1. tx \in [Txs -> [state : {"unused", "mempool", "success", "failed"},
                       payout : Payouts \cup {NoPayout}]] /\ sent \in Nat
    BY DEF QInv, TypeOK
  <2>2. ASSUME NEW t \in Ticks, Send(t) PROVE  TxsStand
    <3>1. CASE UNCHANGED tx
      BY <3>1
    <3>2. CASE tx' # tx
      <4>1. /\ sent + 1 \in Txs
            /\ tx' = [tx EXCEPT ![sent + 1] = [state |-> "mempool", payout |-> mine[t].payout]]
        BY <2>2, <3>2 DEF Send
      <4>2. tx[sent + 1].state = "unused"
        BY <2>1, <4>1 DEF QInv, SentIsUsed, Txs
      <4>. QED
        BY <2>1, <4>1, <4>2
    <3>. QED
      BY <3>1, <3>2
  <2>3. ASSUME NEW h \in Txs, Mine(h) PROVE  TxsStand
    BY <2>1, <2>3 DEF Mine
  <2>4. ASSUME NEW t \in Ticks, Throw(t) \/ TickStep(t), ~Send(t) PROVE UNCHANGED tx
    BY <2>4 DEF Throw, TickStep, StartTick, Promote, Acquire, Prepare, Renew, Await,
                RecordFailed, RecordConfirmed, RecordSubmitted, chain
  <2>5. ASSUME NEW p \in Payouts, Enqueue(p) \/ Lapse(p) \/ ConfirmReceipt(p) PROVE UNCHANGED tx
    BY <2>5 DEF Enqueue, Lapse, ConfirmReceipt, chain
  <2>6. CASE UNCHANGED vars
    BY <2>6 DEF vars, chain
  <2>. QED
    BY <2>2, <2>3, <2>4, <2>5, <2>6 DEF Next
<1>2. AdapterStands
  <2> USE DEF AdapterStands
  <2>1. adapter \in [Payouts -> {"funding", "confirmed", "submitted"}]
    BY DEF QInv, TypeOK
  <2>2. ASSUME NEW h \in Txs, Mine(h) PROVE  AdapterStands
    BY <2>1, <2>2 DEF Mine
  <2>3. ASSUME NEW p \in Payouts, Enqueue(p) \/ Lapse(p) \/ ConfirmReceipt(p) PROVE  AdapterStands
    BY <2>1, <2>3 DEF Enqueue, Lapse, ConfirmReceipt, chain
  <2>4. ASSUME NEW t \in Ticks, Throw(t) \/ TickStep(t) PROVE UNCHANGED adapter
    BY <2>4 DEF Throw, TickStep, StartTick, Promote, Acquire, Prepare, Renew, Await, Send,
                RecordFailed, RecordConfirmed, RecordSubmitted, chain
  <2>5. CASE UNCHANGED vars
    BY <2>5 DEF vars, chain
  <2>. QED
    BY <2>2, <2>3, <2>4, <2>5 DEF Next
<1>3. ASSUME NEW p \in Payouts, job[p].state # "none" PROVE job'[p].state # "none"
  <2>1. CASE job'[p] = job[p]
    BY <1>3, <2>1
  <2>2. CASE job'[p] # job[p]
    <3>1. RowMoves(p)
      BY <2>2, JobChanges
    <3>. QED
      BY <3>1, RowsKeepShape DEF RowShape
  <2>. QED
    BY <2>1, <2>2
<1>. QED
  BY <1>1, <1>2, <1>3 DEF NothingTakenBack

----------------------------------------------------------------------------
(* How an activation may move: everyone else stays where they are. *)
Own == [left : SUBSET Payouts, payout : Payouts \cup {NoPayout}, hash : Txs \cup {NoTx}]
Mover(t, place, rec) == pc' = [pc EXCEPT ![t] = place] /\ mine' = [mine EXCEPT ![t] = rec]

Leaves(t)   == Mover(t, "idle", NoneOf) /\ UNCHANGED <<checkpoint, chain>>
Looks(t)    == \E rec \in Own, place \in {"promote", "acquire"} :
                  Mover(t, place, rec) /\ UNCHANGED <<checkpoint, chain>>
Takes(t)    == \E p \in Payouts \ setting.corrupt :
    /\ Mover(t, "prepare", [left |-> {}, payout |-> p, hash |-> checkpoint[p]])
    /\ UNCHANGED <<checkpoint, chain>>
Goes(t)     == \E place \in {"renew", "submit", "send", "record", "retryable", "final"} :
    /\ Mover(t, place, mine[t]) /\ UNCHANGED <<job, checkpoint, adapter>>
    /\ mine[t].payout \in Payouts
    /\ pc[t] = "prepare" => /\ place = IF mine[t].hash # NoTx THEN "submit" ELSE "renew"
                            /\ setting.broadcast
    /\ pc[t] # "prepare" => pc[t] \in {"renew", "send", "wait"} /\ place \notin {"renew", "submit"}
    /\ place = "record" => pc[t] = "wait" /\ tx[mine[t].hash].state = "success" /\ UNCHANGED tx
Sends(t)    == \E h \in Txs :
    /\ pc[t] = "send" /\ h = sent + 1 /\ sent' = h
    /\ Mover(t, "wait", [mine[t] EXCEPT !.hash = h])
    /\ tx' = [tx EXCEPT ![h] = [state |-> "mempool", payout |-> mine[t].payout]]
    /\ UNCHANGED <<job, checkpoint, adapter>>
Confirms(t) ==
    /\ pc[t] = "record" /\ Holds(t, mine[t].payout)
    /\ checkpoint' = [checkpoint EXCEPT ![mine[t].payout] = mine[t].hash]
    /\ Mover(t, "submit", mine[t])
    /\ UNCHANGED <<job, chain>>

Moves(t) == Leaves(t) \/ Looks(t) \/ Takes(t) \/ Goes(t) \/ Sends(t) \/ Confirms(t)

LEMMA TicksMove ==
    ASSUME QInv, NEW t \in Ticks, TickStep(t) \/ Throw(t)
    PROVE  Moves(t)
<1> USE DEF Moves, Goto, Leave, Mover
<1>0. /\ mine[t] \in Own
      /\ pc[t] \notin {"idle", "promote", "acquire"} => mine[t].payout \in Payouts
  BY DEF QInv, TypeOK, Own
<1>1. CASE Throw(t)
  BY <1>1 DEF Throw, Leaves, tables, chain
<1>2. CASE StartTick(t)
  <2>1. [NoneOf EXCEPT !.left = Listed] \in Own
    BY DEF NoneOf, Own, Listed, Candidates
  <2>. QED
    BY <1>2, <2>1 DEF StartTick, Looks, tables, chain
<1>3. CASE Promote(t)
  <2>1. \A rest \in SUBSET mine[t].left : [mine[t] EXCEPT !.left = rest] \in Own
    BY <1>0 DEF Own
  <2>. QED
    BY <1>3, <2>1, PromoteMoves DEF Looks, Leaves
<1>4. CASE Acquire(t)
  <2>1. Leasable # {} => Min(Leasable) \in Payouts
    BY OldestIsThere DEF Leasable
  <2>2. CASE Leasable # {} /\ Min(Leasable) \notin setting.corrupt
    <3>1. /\ Goto(t, "prepare", [left |-> {}, payout |-> Min(Leasable), hash |-> checkpoint[Min(Leasable)]])
          /\ UNCHANGED <<checkpoint, chain>>
      BY <1>4, <2>2 DEF Acquire
    <3>. QED
      BY <2>1, <2>2, <3>1 DEF Takes
  <2>3. CASE ~(Leasable # {} /\ Min(Leasable) \notin setting.corrupt)
    BY <1>4, <2>3 DEF Acquire, Leaves
  <2>. QED
    BY <2>2, <2>3
<1>5. CASE Prepare(t)
  BY <1>0, <1>5 DEF Prepare, WriteAndLeave, Goes, Leaves, chain
<1>6. CASE Renew(t)
  BY <1>0, <1>6 DEF Renew, Goes, Leaves, tables, chain
<1>7. CASE Send(t)
  BY <1>0, <1>7 DEF Send, Goes, Sends, tables
<1>8. CASE Await(t)
  BY <1>0, <1>8 DEF Await, Goes, tables, chain
<1>9. CASE RecordFailed(t) \/ RecordSubmitted(t)
  BY <1>9 DEF RecordFailed, RecordSubmitted, WriteAndLeave, Leaves
<1>10. CASE RecordConfirmed(t)
  BY <1>10 DEF RecordConfirmed, Confirms, Leaves
<1>. QED
  BY <1>1, <1>2, <1>3, <1>4, <1>5, <1>6, <1>7, <1>8, <1>9, <1>10 DEF TickStep

----------------------------------------------------------------------------
(* The types. *)
LEMMA JobTyped ==
    ASSUME QInv, [Next]_vars
    PROVE  job' \in [Payouts -> JobRow]
<1>1. job \in [Payouts -> JobRow]
  BY DEF QInv, TypeOK, JobRow
<1> DEFINE IsTable == job' = [p \in Payouts |-> job'[p]]
<1>2. IsTable
  <2>1. ASSUME NEW t \in Ticks, Promote(t) PROVE IsTable
    BY <1>1, <2>1, PromoteMoves DEF PromoteRow
  <2>2. ASSUME NEW t \in Ticks, Acquire(t) PROVE IsTable
    BY <2>2 DEF Acquire
  <2>3. ASSUME NEW t \in Ticks, Prepare(t) \/ RecordFailed(t) \/ RecordSubmitted(t) PROVE IsTable
    BY <1>1, <2>3 DEF Prepare, RecordFailed, RecordSubmitted, WriteAndLeave
  <2>4. ASSUME NEW p \in Payouts, Enqueue(p) \/ Lapse(p) PROVE IsTable
    BY <1>1, <2>4 DEF Enqueue, Lapse
  <2>5. ASSUME NEW t \in Ticks, Throw(t) \/ StartTick(t) \/ Renew(t) \/ Send(t) \/ Await(t)
                               \/ RecordConfirmed(t)
        PROVE  IsTable
    BY <1>1, <2>5 DEF Throw, StartTick, Renew, Send, Await, RecordConfirmed, tables
  <2>6. ASSUME \/ \E p \in Payouts : ConfirmReceipt(p)
               \/ \E h \in Txs : Mine(h)
               \/ UNCHANGED vars
        PROVE  IsTable
    BY <1>1, <2>6 DEF ConfirmReceipt, Mine, vars, tables
  <2>. QED
    BY <2>1, <2>2, <2>3, <2>4, <2>5, <2>6 DEF Next, TickStep
<1>3. ASSUME NEW p \in Payouts PROVE job'[p] \in JobRow
  BY <1>1, JobChanges, RowsKeepShape DEF RowShape
<1>. QED
  BY <1>2, <1>3

LEMMA HandsTyped ==
    ASSUME QInv, [Next]_vars
    PROVE  /\ pc' \in [Ticks -> Place] /\ mine' \in [Ticks -> Own]
           /\ \A t \in Ticks : pc'[t] \notin {"idle", "promote", "acquire"} => mine'[t].payout \in Payouts
           /\ \A t \in Ticks : pc'[t] \in {"wait", "record", "submit"} => mine'[t].hash \in Txs
<1>1. /\ pc \in [Ticks -> Place] /\ mine \in [Ticks -> Own]
      /\ \A t \in Ticks : pc[t] \notin {"idle", "promote", "acquire"} => mine[t].payout \in Payouts
      /\ \A t \in Ticks : pc[t] \in {"wait", "record", "submit"} => mine[t].hash \in Txs
      /\ checkpoint \in [Payouts -> Txs \cup {NoTx}]
  BY DEF QInv, TypeOK, Own
<1> DEFINE Typed(t, place, rec) ==
             /\ place \in Place /\ rec \in Own
             /\ place \notin {"idle", "promote", "acquire"} => rec.payout \in Payouts
             /\ place \in {"wait", "record", "submit"} => rec.hash \in Txs
<1>2. ASSUME NEW t \in Ticks, Moves(t)
      PROVE  \E place, rec : Mover(t, place, rec) /\ Typed(t, place, rec)
  <2>1. CASE Leaves(t)
    <3>1. NoneOf \in Own
      BY DEF NoneOf, Own
    <3>. QED
      BY <2>1, <3>1 DEF Leaves, Place
  <2>2. CASE Looks(t)
    BY <2>2 DEF Looks, Place
  <2>3. CASE Takes(t)
    <3>1. PICK p \in Payouts : Mover(t, "prepare", [left |-> {}, payout |-> p, hash |-> checkpoint[p]])
      BY <2>3 DEF Takes
    <3>2. [left |-> {}, payout |-> p, hash |-> checkpoint[p]] \in Own
      BY <1>1 DEF Own
    <3>. QED
      BY <3>1, <3>2 DEF Place
  <2>4. CASE Goes(t)
    BY <1>1, <2>4 DEF Goes, Place, Own
  <2>5. CASE Sends(t)
    <3>1. PICK h \in Txs : pc[t] = "send" /\ Mover(t, "wait", [mine[t] EXCEPT !.hash = h])
      BY <2>5 DEF Sends
    <3>2. [mine[t] EXCEPT !.hash = h] \in Own
      BY <1>1 DEF Own
    <3>3. [mine[t] EXCEPT !.hash = h].payout \in Payouts /\ [mine[t] EXCEPT !.hash = h].hash = h
      BY <1>1, <3>1 DEF Own
    <3>. QED
      BY <3>1, <3>2, <3>3 DEF Place
  <2>6. CASE Confirms(t)
    BY <1>1, <2>6 DEF Confirms, Place
  <2>. QED
    BY <1>2, <2>1, <2>2, <2>3, <2>4, <2>5, <2>6 DEF Moves
<1>3. CASE UNCHANGED <<pc, mine>>
  BY <1>1, <1>3
<1>4. ASSUME NEW t \in Ticks, Moves(t)
      PROVE  /\ pc' \in [Ticks -> Place] /\ mine' \in [Ticks -> Own]
             /\ \A u \in Ticks : pc'[u] \notin {"idle", "promote", "acquire"} => mine'[u].payout \in Payouts
             /\ \A u \in Ticks : pc'[u] \in {"wait", "record", "submit"} => mine'[u].hash \in Txs
  <2>1. PICK place, rec : Mover(t, place, rec) /\ Typed(t, place, rec)
    BY <1>2, <1>4
  <2>. QED
    BY <1>1, <2>1 DEF Mover
<1>. QED
  BY <1>3, <1>4, TicksMove DEF Next, Enqueue, Lapse, ConfirmReceipt, Mine, vars

(* Only a tick that holds the payout and saw its transaction succeed writes  *)
(* the checkpoint.                                                           *)
LEMMA CheckpointMoves ==
    ASSUME QInv, [Next]_vars
    PROVE  \/ UNCHANGED checkpoint
           \/ \E t \in Ticks : Confirms(t)
<1>1. ASSUME NEW t \in Ticks, Moves(t) PROVE UNCHANGED checkpoint \/ Confirms(t)
  BY <1>1 DEF Moves, Leaves, Looks, Takes, Goes, Sends
<1>. QED
  BY <1>1, TicksMove DEF Next, Enqueue, Lapse, ConfirmReceipt, Mine, vars, tables

LEMMA TypesKept ==
    ASSUME QInv, [Next]_vars
    PROVE  TypeOK'
<1>1. TypeOK
  BY DEF QInv
<1> DEFINE PrepRow == [state : {"waiting", "submitted"}, tries : 0..MaxAttempts]
           TxRow == [state : {"unused", "mempool", "success", "failed"},
                     payout : Payouts \cup {NoPayout}]
<1>2. setting' \in Settings
  BY <1>1 DEF TypeOK, Next, TickStep, Throw, StartTick, Promote, Acquire, Prepare, Renew, Send, Await,
              RecordFailed, RecordConfirmed, RecordSubmitted, Enqueue, Lapse, ConfirmReceipt, Mine, vars
<1>3. prep' \in [Payouts -> PrepRow]
  <2>1. prep \in [Payouts -> PrepRow]
    BY <1>1 DEF TypeOK
  <2>2. ASSUME NEW t \in Ticks, Promote(t) PROVE prep' \in [Payouts -> PrepRow]
    <3>1. CASE UNCHANGED prep
      BY <2>1, <3>1
    <3>2. CASE prep' # prep
      <4>1. PICK p \in Payouts :
               /\ prep[p].tries < MaxAttempts
               /\ prep' = [prep EXCEPT ![p] = [state |-> "submitted", tries |-> @.tries + 1]]
        BY <2>2, <3>2, PromoteMoves DEF PromoteRow
      <4>2. prep[p].tries + 1 \in 0..MaxAttempts
        BY <2>1, <4>1, BoundsAssumption
      <4>. QED
        BY <2>1, <4>1, <4>2
    <3>. QED
      BY <3>1, <3>2
  <2>3. ASSUME NEW t \in Ticks, Throw(t) \/ TickStep(t), ~Promote(t) PROVE UNCHANGED prep
    BY <2>3 DEF TickStep, Throw, StartTick, Acquire, Prepare, Renew, Send, Await,
                RecordFailed, RecordConfirmed, RecordSubmitted, tables
  <2>4. ASSUME \/ \E p \in Payouts : Enqueue(p) \/ Lapse(p) \/ ConfirmReceipt(p)
               \/ \E h \in Txs : Mine(h)
               \/ UNCHANGED vars
        PROVE  UNCHANGED prep
    BY <2>4 DEF Enqueue, Lapse, ConfirmReceipt, Mine, vars, tables
  <2>. QED
    BY <2>1, <2>2, <2>3, <2>4 DEF Next
<1>4. checkpoint' \in [Payouts -> Txs \cup {NoTx}]
  <2>1. ASSUME NEW t \in Ticks, Confirms(t) PROVE mine[t].hash \in Txs
    BY <1>1, <2>1 DEF TypeOK, Confirms
  <2>. QED
    BY <1>1, <2>1, CheckpointMoves DEF TypeOK, Confirms
<1>5. /\ adapter' \in [Payouts -> {"funding", "confirmed", "submitted"}]
      /\ tx' \in [Txs -> TxRow] /\ sent' \in 0..MaxSent /\ faults' \in 0..MaxFaults
  <2>1. /\ adapter \in [Payouts -> {"funding", "confirmed", "submitted"}]
        /\ tx \in [Txs -> TxRow] /\ sent \in 0..MaxSent /\ faults \in 0..MaxFaults
    BY <1>1 DEF TypeOK
  <2> DEFINE Chained == /\ adapter' \in [Payouts -> {"funding", "confirmed", "submitted"}]
                        /\ tx' \in [Txs -> TxRow] /\ sent' \in 0..MaxSent
             Counted == faults' \in 0..MaxFaults
  <2>2. ASSUME UNCHANGED chain PROVE Chained
    BY <2>1, <2>2 DEF chain
  <2>3. ASSUME UNCHANGED faults \/ Fault PROVE Counted
    BY <2>1, <2>3, BoundsAssumption DEF Fault
  <2>4. ASSUME NEW h \in Txs, Mine(h) PROVE Chained
    BY <2>1, <2>4 DEF Mine
  <2>5. ASSUME NEW t \in Ticks, Send(t) PROVE Chained
    <3>1. mine[t].payout \in Payouts
      BY <1>1, <2>5 DEF Send, TypeOK
    <3>2. CASE UNCHANGED <<tx, sent>>
      BY <2>1, <2>5, <3>2 DEF Send
    <3>3. CASE ~UNCHANGED <<tx, sent>>
      <4>1. /\ sent + 1 \in Txs /\ sent' = sent + 1 /\ UNCHANGED adapter
            /\ tx' = [tx EXCEPT ![sent + 1] = [state |-> "mempool", payout |-> mine[t].payout]]
        BY <2>5, <3>3 DEF Send
      <4>. QED
        BY <2>1, <3>1, <4>1, BoundsAssumption DEF Txs
    <3>. QED
      BY <3>2, <3>3
  <2>6. ASSUME NEW p \in Payouts, ConfirmReceipt(p) PROVE Chained
    BY <2>1, <2>6 DEF ConfirmReceipt
  <2>7. ASSUME NEW t \in Ticks, Throw(t) \/ TickStep(t), ~Send(t) PROVE UNCHANGED chain
    BY <2>7 DEF TickStep, Throw, StartTick, Promote, Acquire, Prepare, Renew, Await,
                RecordFailed, RecordConfirmed, RecordSubmitted, chain
  <2>8. ASSUME UNCHANGED vars \/ \E p \in Payouts : Enqueue(p) \/ Lapse(p)
        PROVE  UNCHANGED chain
    BY <2>8 DEF Enqueue, Lapse, vars, chain
  <2>9. UNCHANGED faults \/ Fault
    BY DEF Next, TickStep, Throw, StartTick, Promote, Acquire, Prepare, Renew, Send, Await,
           RecordFailed, RecordConfirmed, RecordSubmitted, Enqueue, Lapse, ConfirmReceipt, Mine, vars
  <2>10. Chained
    BY <2>2, <2>4, <2>5, <2>6, <2>7, <2>8 DEF Next
  <2>. QED
    BY <2>3, <2>9, <2>10
<1>. QED
  BY <1>2, <1>3, <1>4, <1>5, JobTyped, HandsTyped DEF TypeOK, JobRow, Own

----------------------------------------------------------------------------
(* The invariants. *)
LEMMA QueueKept ==
    ASSUME QInv, [Next]_vars
    PROVE  NoStrandedPayout' /\ LiveIsLeased'
<1>1. ASSUME NEW p \in Payouts
      PROVE  /\ job'[p].state \in {"queued", "retry"} => job'[p].tries < MaxAttempts
             /\ job'[p].state = "leased" => job'[p].tries > 0
             /\ job'[p].live => job'[p].state = "leased"
  <2>1. CASE job'[p] = job[p]
    BY <2>1 DEF QInv, NoStrandedPayout, LiveIsLeased
  <2>2. CASE job'[p] # job[p]
    BY <2>2, JobChanges, RowsKeepShape DEF RowShape
  <2>. QED
    BY <2>1, <2>2
<1>. QED
  BY <1>1 DEF NoStrandedPayout, LiveIsLeased

LEMMA TablesKept ==
    ASSUME QInv, [Next]_vars
    PROVE  RowsTellTheTruth'
<1>1. /\ TypeOK /\ RowsTellTheTruth /\ HandsAreTrue /\ NothingTakenBack /\ TypeOK'
  BY HistoryStands, TypesKept DEF QInv
<1>2. ASSUME NEW p \in Payouts, prep'[p].state = "submitted" PROVE job'[p].state # "none"
  <2>1. CASE UNCHANGED prep
    BY <1>1, <1>2, <2>1 DEF RowsTellTheTruth, NothingTakenBack
  <2>2. ASSUME NEW t \in Ticks, Promote(t) PROVE job'[p].state # "none"
    <3>1. CASE UNCHANGED prep
      BY <2>1, <3>1
    <3>2. CASE prep' # prep
      <4>1. PICK q \in Payouts : PromoteRow(q)
        BY <2>2, <3>2, PromoteMoves
      <4>2. CASE q = p
        <5>1. job'[p] = Queued \/ job[p].state # "none"
          BY <1>1, <4>1, <4>2 DEF PromoteRow, TypeOK
        <5>. QED
          BY <1>1, <5>1 DEF Queued, Unheld, NothingTakenBack
      <4>3. CASE q # p
        <5>1. prep'[p] = prep[p]
          BY <1>1, <4>1, <4>3 DEF PromoteRow, TypeOK
        <5>. QED
          BY <1>1, <1>2, <5>1 DEF RowsTellTheTruth, NothingTakenBack
      <4>. QED
        BY <4>2, <4>3
    <3>. QED
      BY <3>1, <3>2
  <2>3. ASSUME NEW t \in Ticks, Throw(t) \/ TickStep(t), ~Promote(t) PROVE UNCHANGED prep
    BY <2>3 DEF TickStep, Throw, StartTick, Acquire, Prepare, Renew, Send, Await,
                RecordFailed, RecordConfirmed, RecordSubmitted, tables
  <2>. QED
    BY <2>1, <2>2, <2>3 DEF Next, Enqueue, Lapse, ConfirmReceipt, Mine, vars, tables
<1>0. ASSUME NEW p \in Payouts, adapter[p] # "funding" PROVE adapter'[p] # "funding"
  BY <1>0, <1>1 DEF NothingTakenBack, AdapterStands
<1>3. ASSUME NEW p \in Payouts, job'[p].state # "none" PROVE adapter'[p] # "funding"
  <2>1. CASE job[p].state # "none"
    <3>1. adapter[p] # "funding"
      BY <1>1, <2>1 DEF RowsTellTheTruth
    <3>. QED
      BY <1>0, <3>1
  <2>2. CASE job[p].state = "none"
    <3>1. RowMoves(p)
      BY <1>3, <2>2, JobChanges
    <3>2. Enqueued(p)
      BY <2>2, <3>1 DEF RowMoves, Swept, Exhausted, Unreadable, Leased, Leasable, Lapsed, Lapses,
                        HandedBack, Holds
    <3>. QED
      BY <1>0, <3>2 DEF Enqueued
  <2>. QED
    BY <2>1, <2>2
<1>4. ASSUME NEW p \in Payouts, checkpoint[p] # NoTx
      PROVE  checkpoint'[p] # NoTx
  BY <1>1, <1>4, CheckpointMoves DEF Confirms, TypeOK, Txs, NoTx
<1>5. ASSUME NEW p \in Payouts, checkpoint'[p] # NoTx
      PROVE  tx'[checkpoint'[p]] = [state |-> "success", payout |-> p]
  <2>1. CASE checkpoint'[p] = checkpoint[p]
    <3>1. checkpoint[p] \in Txs /\ tx[checkpoint[p]].state = "success" /\ tx[checkpoint[p]].payout = p
      <4>1. checkpoint[p] # NoTx /\ checkpoint[p] \in Txs \cup {NoTx}
        BY <1>1, <1>5, <2>1 DEF TypeOK
      <4>2. tx[checkpoint[p]] = [state |-> "success", payout |-> p]
        BY <1>1, <4>1 DEF RowsTellTheTruth
      <4>. QED
        BY <4>1, <4>2
    <3>2. tx'[checkpoint[p]].state = "success" /\ tx'[checkpoint[p]].payout = p
      BY <1>1, <3>1 DEF NothingTakenBack, TxsStand
    <3>. QED
      BY <1>1, <2>1, <3>1, <3>2 DEF TypeOK
  <2>2. CASE checkpoint'[p] # checkpoint[p]
    <3>1. PICK t \in Ticks : Confirms(t)
      BY <2>2, CheckpointMoves
    <3>2. p = mine[t].payout /\ checkpoint'[p] = mine[t].hash /\ mine[t].hash \in Txs /\ tx' = tx
      BY <1>1, <2>2, <3>1 DEF Confirms, TypeOK, chain
    <3>3. tx[mine[t].hash].state = "success" /\ tx[mine[t].hash].payout = p
      BY <1>1, <3>1, <3>2 DEF HandsAreTrue, Confirms
    <3>. QED
      BY <1>1, <3>2, <3>3 DEF TypeOK
  <2>. QED
    BY <2>1, <2>2
<1>6. ASSUME NEW p \in Payouts, job'[p].state = "submitted" PROVE checkpoint'[p] # NoTx
  <2>1. CASE job[p].state = "submitted"
    BY <1>1, <1>4, <2>1 DEF RowsTellTheTruth
  <2>2. CASE job[p].state # "submitted"
    <3>1. RowMoves(p)
      BY <1>6, <2>2, JobChanges
    <3>2. ~Lapses(p)
      BY <1>1, <1>6, <2>2 DEF Lapses, TypeOK
    <3>3. ~Enqueued(p) /\ ~Swept(p)
      BY <1>6 DEF Enqueued, Queued, Swept, Closed, Unheld
    <3>4. ~Unreadable(p) /\ ~Leased(p)
      <4>1. Unreadable(p) => job'[p].state = "review"
        BY DEF Unreadable, Unheld
      <4>2. Leased(p) => job'[p].state = "leased"
        BY DEF Leased
      <4>. QED
        BY <1>6, <4>1, <4>2
    <3>5. HandedBack(p)
      BY <3>1, <3>2, <3>3, <3>4 DEF RowMoves
    <3>6. checkpoint[p] \in Txs
      BY <1>6, <3>5 DEF HandedBack, Closed, Unheld
    <3>. QED
      BY <1>4, <3>6 DEF Txs, NoTx
  <2>. QED
    BY <2>1, <2>2
<1>. QED
  BY <1>2, <1>3, <1>5, <1>6 DEF RowsTellTheTruth

LEMMA SentKept ==
    ASSUME QInv, [Next]_vars
    PROVE  SentIsUsed'
<1>1. TypeOK /\ SentIsUsed /\ (TypeOK)'
  BY TypesKept DEF QInv
<1>2. ASSUME NEW t \in Ticks, Send(t) PROVE SentIsUsed'
  <2>1. mine[t].payout \in Payouts
    BY <1>1, <1>2 DEF Send, TypeOK
  <2>2. CASE UNCHANGED <<tx, sent>>
    BY <1>1, <2>2 DEF SentIsUsed
  <2>3. CASE ~UNCHANGED <<tx, sent>>
    <3>1. /\ sent + 1 \in Txs /\ sent' = sent + 1
          /\ tx' = [tx EXCEPT ![sent + 1] = [state |-> "mempool", payout |-> mine[t].payout]]
      BY <1>2, <2>3 DEF Send
    <3>. QED
      BY <1>1, <2>1, <3>1, BoundsAssumption DEF SentIsUsed, TypeOK, Txs
  <2>. QED
    BY <2>2, <2>3
<1>3. ASSUME NEW h \in Txs, Mine(h) PROVE SentIsUsed'
  <2>1. /\ tx[h].state # "unused" /\ UNCHANGED sent
        /\ \E state \in {"success", "failed"} : tx' = [tx EXCEPT ![h].state = state]
    BY <1>3 DEF Mine
  <2>2. \A g \in Txs : tx'[g].payout = tx[g].payout /\ (g # h => tx'[g] = tx[g])
    BY <1>1, <2>1 DEF TypeOK
  <2>. QED
    BY <1>1, <2>1, <2>2 DEF SentIsUsed
<1>4. ASSUME NEW t \in Ticks, Throw(t) \/ TickStep(t), ~Send(t) PROVE UNCHANGED chain
  BY <1>4 DEF TickStep, Throw, StartTick, Promote, Acquire, Prepare, Renew, Await,
              RecordFailed, RecordConfirmed, RecordSubmitted, chain
<1>5. ASSUME \/ \E p \in Payouts : Enqueue(p) \/ Lapse(p) \/ ConfirmReceipt(p)
             \/ UNCHANGED vars
      PROVE  UNCHANGED <<tx, sent>>
  BY <1>5 DEF Enqueue, Lapse, ConfirmReceipt, vars, chain
<1>6. CASE UNCHANGED <<tx, sent>>
  BY <1>1, <1>6 DEF SentIsUsed
<1>. QED
  BY <1>2, <1>3, <1>4, <1>5, <1>6 DEF Next, chain

LEMMA HandsKept ==
    ASSUME QInv, [Next]_vars
    PROVE  HandsAreTrue'
<1>1. TypeOK /\ HandsAreTrue /\ TxsStand /\ SentIsUsed
  BY HistoryStands DEF QInv, NothingTakenBack
<1> DEFINE True(u) ==
             /\ pc'[u] \in {"wait", "record"} => /\ tx'[mine'[u].hash].payout = mine'[u].payout
                                                /\ tx'[mine'[u].hash].state # "unused"
             /\ pc'[u] = "record" => tx'[mine'[u].hash].state = "success"
<1>2. ASSUME NEW u \in Ticks, pc'[u] = pc[u], mine'[u] = mine[u] PROVE True(u)
  <2>1. pc[u] \in {"wait", "record"} => mine[u].hash \in Txs
    BY <1>1 DEF TypeOK
  <2>. QED
    BY <1>1, <1>2, <2>1 DEF HandsAreTrue, TxsStand
<1>3. ASSUME NEW t \in Ticks, Moves(t) PROVE \A u \in Ticks : True(u)
  <2>1. \A place, rec : Mover(t, place, rec) =>
           /\ pc'[t] = place /\ mine'[t] = rec
           /\ \A u \in Ticks \ {t} : pc'[u] = pc[u] /\ mine'[u] = mine[u]
    BY <1>1 DEF Mover, TypeOK
  <2>2. \E place, rec : Mover(t, place, rec)
    BY <1>3 DEF Moves, Leaves, Looks, Takes, Goes, Sends, Confirms
  <2>3. True(t)
    <3>1. CASE Leaves(t) \/ Looks(t) \/ Takes(t) \/ Confirms(t)
      <4>1. \E rec : \E place \in {"idle", "promote", "acquire", "prepare", "submit"} :
               Mover(t, place, rec)
        BY <3>1 DEF Leaves, Looks, Takes, Confirms
      <4>2. pc'[t] \in {"idle", "promote", "acquire", "prepare", "submit"}
        BY <2>1, <4>1
      <4>. QED
        BY <4>2
    <3>2. CASE Sends(t)
      <4>1. PICK h \in Txs :
               /\ Mover(t, "wait", [mine[t] EXCEPT !.hash = h])
               /\ tx' = [tx EXCEPT ![h] = [state |-> "mempool", payout |-> mine[t].payout]]
        BY <3>2 DEF Sends
      <4>2. mine'[t].hash = h /\ mine'[t].payout = mine[t].payout /\ pc'[t] = "wait"
        BY <1>1, <2>1, <4>1 DEF TypeOK
      <4>3. tx'[h].state = "mempool" /\ tx'[h].payout = mine[t].payout
        BY <1>1, <4>1 DEF TypeOK
      <4>. QED
        BY <4>2, <4>3
    <3>3. CASE Goes(t)
      <4>1. PICK place \in {"renew", "submit", "send", "record", "retryable", "final"} :
               /\ Mover(t, place, mine[t])
               /\ place = "record" => pc[t] = "wait" /\ tx[mine[t].hash].state = "success" /\ UNCHANGED tx
        BY <3>3 DEF Goes
      <4>2. pc'[t] = place /\ mine'[t] = mine[t]
        BY <2>1, <4>1
      <4>3. CASE place = "record"
        <5>1. tx[mine[t].hash].payout = mine[t].payout
          BY <1>1, <4>1, <4>3 DEF HandsAreTrue
        <5>. QED
          BY <4>1, <4>2, <4>3, <5>1
      <4>4. CASE place # "record"
        BY <4>2, <4>4
      <4>. QED
        BY <4>3, <4>4
    <3>. QED
      BY <1>3, <3>1, <3>2, <3>3 DEF Moves
  <2>. QED
    BY <1>2, <2>1, <2>2, <2>3
<1>4. ASSUME UNCHANGED <<pc, mine>> PROVE \A u \in Ticks : True(u)
  BY <1>2, <1>4
<1>5. \A u \in Ticks : True(u)
  BY <1>3, <1>4, TicksMove DEF Next, Enqueue, Lapse, ConfirmReceipt, Mine, vars
<1>. QED
  BY <1>5 DEF HandsAreTrue

(* Nobody takes a lease in time away, and nobody but its holder checkpoints. *)
LEMMA CheckpointKnown ==
    ASSUME QInv, [Next]_vars
    PROVE  HolderKnowsCheckpoint'
<1>1. TypeOK /\ HolderKnowsCheckpoint /\ TypeOK'
  BY TypesKept DEF QInv
<1> SUFFICES ASSUME NEW u \in Ticks,
                    pc'[u] \notin {"idle", "promote", "acquire", "submit"},
                    Holds(u, mine[u].payout)'
             PROVE  checkpoint'[mine'[u].payout] = IF pc'[u] = "prepare" THEN mine'[u].hash ELSE NoTx
  BY DEF HolderKnowsCheckpoint
<1> DEFINE p == mine'[u].payout
<1>2. p \in Payouts
  BY <1>1 DEF TypeOK
<1>3. job'[p].state = "leased" /\ job'[p].token = u /\ job'[p].live
  BY DEF Holds
<1>4. ASSUME job'[p] = job[p] PROVE Holds(u, p)
  BY <1>3, <1>4 DEF Holds
<1>5. ASSUME job'[p] # job[p]
      PROVE  /\ pc'[u] = "prepare" /\ mine'[u].hash = checkpoint[p]
  <2>1. RowMoves(p)
    BY <1>2, <1>5, JobChanges
  <2>2. ~Enqueued(p) /\ ~Swept(p) /\ ~Unreadable(p) /\ ~HandedBack(p)
    <3>1. Enqueued(p) \/ Swept(p) \/ Unreadable(p) \/ HandedBack(p) => job'[p].state # "leased"
      BY DEF Enqueued, Queued, Swept, Unreadable, HandedBack, Closed, Unheld
    <3>. QED
      BY <1>3, <3>1
  <2>3. ~Lapses(p)
    BY <1>1, <1>2, <1>3 DEF Lapses, TypeOK
  <2>4. PICK t \in Ticks :
           /\ job'[p] = [state |-> "leased", tries |-> job[p].tries + 1, token |-> t, live |-> TRUE]
           /\ pc'[t] = "prepare"
           /\ mine'[t] = [left |-> {}, payout |-> p, hash |-> checkpoint[p]]
    BY <2>1, <2>2, <2>3 DEF RowMoves, Leased
  <2>5. t = u
    BY <1>3, <2>4
  <2>. QED
    BY <2>4, <2>5
<1>6. ASSUME NEW t \in Ticks, Confirms(t), checkpoint'[p] # checkpoint[p]
      PROVE  FALSE
  <2>1. mine[t].payout = p /\ job' = job /\ Holds(t, p) /\ pc'[t] = "submit"
    BY <1>1, <1>2, <1>6 DEF Confirms, Mover, TypeOK
  <2>2. t = u
    BY <1>3, <2>1 DEF Holds
  <2>. QED
    BY <2>1, <2>2
<1>7. checkpoint'[p] = checkpoint[p]
  BY <1>6, CheckpointMoves
<1>8. CASE job'[p] # job[p]
  BY <1>5, <1>7, <1>8
<1>9. CASE job'[p] = job[p]
  <2>1. CASE pc'[u] = pc[u] /\ mine'[u] = mine[u]
    BY <1>1, <1>4, <1>7, <1>9, <2>1 DEF HolderKnowsCheckpoint
  <2>2. CASE ~(pc'[u] = pc[u] /\ mine'[u] = mine[u])
    <3>1. PICK t \in Ticks : Moves(t)
      BY <2>2, TicksMove DEF Next, Enqueue, Lapse, ConfirmReceipt, Mine, vars
    <3>2. t = u
      BY <1>1, <2>2, <3>1 DEF Moves, Leaves, Looks, Takes, Goes, Sends, Confirms, Mover, TypeOK
    <3>3. CASE Leaves(u) \/ Looks(u) \/ Confirms(u)
      BY <1>1, <3>3 DEF Leaves, Looks, Confirms, Mover, TypeOK
    <3>4. CASE Takes(u)
      <4>1. PICK q \in Payouts : Mover(u, "prepare", [left |-> {}, payout |-> q, hash |-> checkpoint[q]])
        BY <3>4 DEF Takes
      <4>2. pc'[u] = "prepare" /\ mine'[u].hash = checkpoint[p]
        BY <1>1, <4>1 DEF Mover, TypeOK
      <4>. QED
        BY <1>7, <4>2
    <3>5. CASE Goes(u)
      <4>1. PICK place \in {"renew", "submit", "send", "record", "retryable", "final"} :
               /\ Mover(u, place, mine[u])
               /\ pc[u] = "prepare" => place = IF mine[u].hash # NoTx THEN "submit" ELSE "renew"
               /\ pc[u] # "prepare" => pc[u] \in {"renew", "send", "wait"}
        BY <3>5 DEF Goes
      <4>2. pc'[u] = place /\ mine'[u] = mine[u]
        BY <1>1, <4>1 DEF Mover, TypeOK
      <4>3. Holds(u, mine[u].payout) /\ pc[u] \notin {"idle", "promote", "acquire", "submit"}
        BY <1>4, <1>9, <4>1, <4>2
      <4>4. checkpoint[p] = NoTx
        BY <1>1, <4>1, <4>2, <4>3 DEF HolderKnowsCheckpoint
      <4>. QED
        BY <1>7, <4>1, <4>2, <4>4
    <3>6. CASE Sends(u)
      <4>1. pc[u] = "send" /\ pc'[u] = "wait" /\ mine[u].payout = p
        BY <1>1, <3>6 DEF Sends, Mover, TypeOK
      <4>2. checkpoint[p] = NoTx
        BY <1>1, <1>4, <1>9, <4>1 DEF HolderKnowsCheckpoint
      <4>. QED
        BY <1>7, <4>1, <4>2
    <3>. QED
      BY <3>1, <3>2, <3>3, <3>4, <3>5, <3>6 DEF Moves
  <2>. QED
    BY <2>1, <2>2
<1>. QED
  BY <1>8, <1>9

LEMMA QInvNext == QInv /\ [Next]_vars => QInv'
BY TypesKept, QueueKept, TablesKept, SentKept, HandsKept, CheckpointKnown DEF QInv

LEMMA QInvHolds == Spec => []QInv
BY QInvInit, QInvNext, PTL DEF Spec

(* A lease in time ends with its time, or by a write of its holder. *)
LEMMA LeaseEnds ==
    ASSUME QInv, [Next]_vars, NEW p \in Payouts, job[p].live, job'[p] # job[p]
    PROVE  Lapses(p) \/ HandedBack(p)
<1>1. job[p].state = "leased"
  BY DEF QInv, LiveIsLeased
<1>2. RowMoves(p)
  BY JobChanges
<1>3. ~Enqueued(p) /\ ~Swept(p) /\ ~Unreadable(p) /\ ~Leased(p)
  BY <1>1 DEF Enqueued, Swept, Exhausted, Unreadable, Leased, Leasable, Lapsed
<1>. QED
  BY <1>2, <1>3 DEF RowMoves

----------------------------------------------------------------------------
(* The rows, local variables and transactions of the V3 queue keep their     *)
(* types (TypeOK): no attempt is counted below zero or beyond max_attempts.  *)
THEOREM TypeCorrect == Spec => []TypeOK
<1>1. QInv => TypeOK
  BY DEF QInv
<1>. QED
  BY QInvHolds, <1>1, PTL

(* No payout is parked where neither query of the acquire finds it           *)
(* (acquirePayoutV3ExecutionJob, recordPayoutV3ExecutionFailed).             *)
THEOREM NothingStranded == Spec => []NoStrandedPayout
<1>1. QInv => NoStrandedPayout
  BY DEF QInv
<1>. QED
  BY QInvHolds, <1>1, PTL

(* What the V3 tables say has happened has: promotions are confirmed, a      *)
(* checkpoint succeeded for its payout, a submitted payout is checkpointed.  *)
THEOREM TablesAreTrue == Spec => []RowsTellTheTruth
<1>1. QInv => RowsTellTheTruth
  BY DEF QInv
<1>. QED
  BY QInvHolds, <1>1, PTL

(* The token and time in the WHERE of every write fence a lease, whatever    *)
(* ticks overlap (recordPayoutV3Execution..., acquirePayoutV3ExecutionJob).  *)
THEOREM LeaseFences == Spec => OnlyTheHolderWrites
<1>1. ASSUME QInv, [Next]_vars, NEW p \in Payouts,
             job[p].state = "leased", job[p].live, job'[p] # job[p]
      PROVE  \/ job'[p] = [job[p] EXCEPT !.live = FALSE]
             \/ mine[job[p].token].payout = p /\ pc'[job[p].token] = "idle"
  BY <1>1, LeaseEnds DEF Lapses, HandedBack, Holds
<1>2. QInv /\ [Next]_vars =>
        [\A p \in Payouts :
           (job[p].state = "leased" /\ job[p].live /\ job'[p] # job[p]) =>
              \/ job'[p] = [job[p] EXCEPT !.live = FALSE]
              \/ mine[job[p].token].payout = p /\ pc'[job[p].token] = "idle"]_vars
  BY <1>1
<1>. QED
  BY QInvHolds, <1>2, PTL DEF Spec, OnlyTheHolderWrites

----------------------------------------------------------------------------
(* What a transaction that succeeded delivered, the adapter knows. *)
Delivered == \A h \in Txs : tx[h].state = "success" => adapter[tx[h].payout] = "submitted"

(* What is leased decrypts, and nobody gets past the gates of a dry run. *)
HeldIsOpen ==
    \A t \in Ticks :
        /\ pc[t] \notin {"idle", "promote", "acquire"} => mine[t].payout \notin setting.corrupt
        /\ pc[t] \notin {"idle", "promote", "acquire", "prepare"} => setting.broadcast

(* ... so a payout with a checkpoint has a row that decrypts, and no gate. *)
RecordedIsOpen ==
    \A p \in Payouts : checkpoint[p] # NoTx =>
        job[p].state # "none" /\ p \notin setting.corrupt /\ setting.broadcast

RecordInv == QInv /\ Delivered /\ HeldIsOpen /\ RecordedIsOpen

LEMMA SettingStands == ASSUME [Next]_vars PROVE setting' = setting
BY DEF Next, TickStep, Throw, StartTick, Promote, Acquire, Prepare, Renew, Send, Await,
       RecordFailed, RecordConfirmed, RecordSubmitted, Enqueue, Lapse, ConfirmReceipt, Mine, vars

LEMMA DeliveredKept ==
    ASSUME RecordInv, [Next]_vars
    PROVE  Delivered'
<1>1. TypeOK /\ SentIsUsed /\ Delivered /\ NothingTakenBack
  BY HistoryStands DEF RecordInv, QInv
<1> SUFFICES ASSUME NEW h \in Txs, tx'[h].state = "success"
             PROVE  adapter'[tx'[h].payout] = "submitted"
  BY DEF Delivered
<1>2. CASE tx[h].state = "success"
  <2>1. tx'[h].payout = tx[h].payout /\ tx[h].payout \in Payouts
    BY <1>1, <1>2 DEF NothingTakenBack, TxsStand, SentIsUsed
  <2>2. adapter[tx[h].payout] = "submitted"
    BY <1>1, <1>2 DEF Delivered
  <2>3. AdapterStands
    BY <1>1 DEF NothingTakenBack
  <2>4. adapter'[tx[h].payout] = "submitted"
    BY <2>1, <2>2, <2>3 DEF AdapterStands
  <2>. QED
    BY <2>1, <2>4
<1>3. CASE tx[h].state # "success"
  <2>1. ASSUME NEW t \in Ticks, Send(t) PROVE FALSE
    BY <1>1, <1>3, <2>1 DEF Send, TypeOK
  <2>2. ASSUME NEW t \in Ticks, Throw(t) \/ TickStep(t), ~Send(t) PROVE UNCHANGED tx
    BY <2>2 DEF TickStep, Throw, StartTick, Promote, Acquire, Prepare, Renew, Await,
                RecordFailed, RecordConfirmed, RecordSubmitted, chain
  <2>3. ASSUME \/ \E p \in Payouts : Enqueue(p) \/ Lapse(p) \/ ConfirmReceipt(p)
               \/ UNCHANGED vars
        PROVE  UNCHANGED tx
    BY <2>3 DEF Enqueue, Lapse, ConfirmReceipt, vars, chain
  <2>4. ASSUME NEW g \in Txs, Mine(g) PROVE adapter'[tx'[h].payout] = "submitted"
    <3>1. g = h
      BY <1>1, <1>3, <2>4 DEF Mine, TypeOK
    <3>2. tx[h].payout \in Payouts /\ tx'[h].payout = tx[h].payout
      BY <1>1, <2>4, <3>1 DEF Mine, TypeOK, SentIsUsed
    <3>3. adapter[tx[h].payout] = "confirmed"
      BY <1>1, <2>4, <3>1 DEF Mine, TypeOK
    <3>. QED
      BY <1>1, <2>4, <3>1, <3>2, <3>3 DEF Mine, TypeOK
  <2>. QED
    BY <1>3, <2>1, <2>2, <2>3, <2>4 DEF Next
<1>. QED
  BY <1>2, <1>3

LEMMA OpenKept ==
    ASSUME RecordInv, [Next]_vars
    PROVE  HeldIsOpen' /\ RecordedIsOpen'
<1>1. /\ TypeOK /\ HeldIsOpen /\ RecordedIsOpen /\ NothingTakenBack /\ setting' = setting
  BY HistoryStands, SettingStands DEF RecordInv, QInv
<1>2. ASSUME NEW t \in Ticks, Moves(t) PROVE HeldIsOpen'
  <2>1. \A place, rec : Mover(t, place, rec) =>
           /\ pc'[t] = place /\ mine'[t] = rec
           /\ \A u \in Ticks \ {t} : pc'[u] = pc[u] /\ mine'[u] = mine[u]
    BY <1>1 DEF Mover, TypeOK
  <2>2. \E place, rec : Mover(t, place, rec)
    BY <1>2 DEF Moves, Leaves, Looks, Takes, Goes, Sends, Confirms
  <2>3. /\ pc'[t] \notin {"idle", "promote", "acquire"} => mine'[t].payout \notin setting.corrupt
        /\ pc'[t] \notin {"idle", "promote", "acquire", "prepare"} => setting.broadcast
    <3>1. CASE Leaves(t) \/ Looks(t)
      BY <2>1, <3>1 DEF Leaves, Looks
    <3>2. CASE Takes(t)
      BY <2>1, <3>2 DEF Takes
    <3>3. CASE Goes(t)
      <4>1. PICK place : /\ Mover(t, place, mine[t])
                         /\ pc[t] = "prepare" => setting.broadcast
                         /\ pc[t] # "prepare" => pc[t] \in {"renew", "send", "wait"}
        BY <3>3 DEF Goes
      <4>. QED
        BY <1>1, <2>1, <4>1 DEF HeldIsOpen
    <3>4. CASE Sends(t)
      <4>1. PICK h \in Txs : pc[t] = "send" /\ Mover(t, "wait", [mine[t] EXCEPT !.hash = h])
        BY <3>4 DEF Sends
      <4>2. mine'[t].payout = mine[t].payout
        BY <1>1, <2>1, <4>1 DEF TypeOK
      <4>. QED
        BY <1>1, <4>1, <4>2 DEF HeldIsOpen
    <3>5. CASE Confirms(t)
      <4>1. pc[t] = "record" /\ mine'[t] = mine[t]
        BY <2>1, <3>5 DEF Confirms
      <4>. QED
        BY <1>1, <4>1 DEF HeldIsOpen
    <3>. QED
      BY <1>2, <3>1, <3>2, <3>3, <3>4, <3>5 DEF Moves
  <2>. QED
    BY <1>1, <2>1, <2>2, <2>3 DEF HeldIsOpen
<1>3. ASSUME UNCHANGED <<pc, mine>> PROVE HeldIsOpen'
  <2>1. pc' = pc /\ mine' = mine /\ setting' = setting /\ HeldIsOpen
    BY <1>1, <1>3
  <2>. QED
    BY <2>1 DEF HeldIsOpen
<1>4. HeldIsOpen'
  BY <1>2, <1>3, TicksMove DEF RecordInv, Next, Enqueue, Lapse, ConfirmReceipt, Mine, vars
<1>5. ASSUME NEW p \in Payouts, checkpoint'[p] # NoTx
      PROVE  job[p].state # "none" /\ p \notin setting.corrupt /\ setting.broadcast
  <2>1. CASE checkpoint[p] # NoTx
    BY <1>1, <2>1 DEF RecordedIsOpen
  <2>2. CASE checkpoint[p] = NoTx
    <3>1. PICK t \in Ticks : Confirms(t)
      BY <1>5, <2>2, CheckpointMoves DEF RecordInv
    <3>2. mine[t].payout = p
      BY <1>1, <1>5, <2>2, <3>1 DEF Confirms, TypeOK
    <3>. QED
      BY <1>1, <3>1, <3>2 DEF Confirms, Holds, HeldIsOpen
  <2>. QED
    BY <2>1, <2>2
<1>6. RecordedIsOpen'
  BY <1>1, <1>5 DEF RecordedIsOpen, NothingTakenBack
<1>. QED
  BY <1>4, <1>6

LEMMA RecordInvHolds == Spec => []RecordInv
<1>1. Init => RecordInv
  <2> SUFFICES ASSUME Init PROVE Delivered /\ HeldIsOpen /\ RecordedIsOpen
    BY QInvInit DEF RecordInv
  <2>. QED
    BY DEF Init, Delivered, HeldIsOpen, RecordedIsOpen
<1>2. RecordInv /\ [Next]_vars => RecordInv'
  BY QInvNext, DeliveredKept, OpenKept DEF RecordInv
<1>. QED
  BY <1>1, <1>2, PTL DEF Spec

(* A recorded delivery is not undone, whoever takes the payout over: its      *)
(* record stays, nothing more is broadcast for it, and its row ends           *)
(* submitted, or in review by the two ways the property names                *)
(* (runPayoutV3ExecutionOnce, acquirePayoutV3ExecutionJob).                   *)
THEOREM RecordStands == Spec => RecordedDeliveryStands
<1> DEFINE Stands(p) ==
             /\ checkpoint'[p] = checkpoint[p]
             /\ \A h \in Txs : tx'[h].payout = p => tx[h].payout = p
             /\ job'[p] # job[p] =>
                   \/ job'[p].state \in {"leased", "submitted"}
                   \/ job'[p].state = "review" /\ (p \in Exhausted \/ pc[job[p].token] = "prepare")
<1>1. ASSUME RecordInv, [Next]_vars, NEW p \in Payouts, checkpoint[p] # NoTx
      PROVE  Stands(p)
  <2>1. TypeOK /\ HolderKnowsCheckpoint /\ RowsTellTheTruth /\ Delivered /\ RecordedIsOpen
    BY <1>1 DEF RecordInv, QInv
  <2>2. checkpoint'[p] = checkpoint[p]
    <3>1. ASSUME NEW t \in Ticks, Confirms(t), checkpoint'[p] # checkpoint[p] PROVE FALSE
      <4>1. mine[t].payout = p
        BY <2>1, <3>1 DEF Confirms, TypeOK
      <4>. QED
        BY <1>1, <2>1, <3>1, <4>1 DEF Confirms, HolderKnowsCheckpoint
    <3>. QED
      BY <1>1, <3>1, CheckpointMoves DEF RecordInv
  <2>3. ASSUME NEW h \in Txs, tx'[h].payout = p PROVE tx[h].payout = p
    <3>1. adapter[p] = "submitted"
      <4>1. checkpoint[p] \in Txs /\ tx[checkpoint[p]] = [state |-> "success", payout |-> p]
        BY <1>1, <2>1 DEF TypeOK, RowsTellTheTruth
      <4>. QED
        BY <2>1, <4>1 DEF Delivered
    <3>2. ASSUME NEW t \in Ticks, Send(t) PROVE tx[h].payout = p
      BY <2>1, <2>3, <3>1, <3>2 DEF Send, TypeOK
    <3>3. ASSUME NEW t \in Ticks, Throw(t) \/ TickStep(t), ~Send(t) PROVE UNCHANGED tx
      BY <3>3 DEF TickStep, Throw, StartTick, Promote, Acquire, Prepare, Renew, Await,
                  RecordFailed, RecordConfirmed, RecordSubmitted, chain
    <3>4. ASSUME NEW g \in Txs, Mine(g) PROVE tx[h].payout = p
      <4>1. tx'[h].payout = tx[h].payout
        <5>1. \E state \in {"success", "failed"} : tx' = [tx EXCEPT ![g].state = state]
          BY <3>4 DEF Mine
        <5>. QED
          BY <2>1, <5>1 DEF TypeOK
      <4>. QED
        BY <2>3, <4>1
    <3>5. ASSUME \/ \E q \in Payouts : Enqueue(q) \/ Lapse(q) \/ ConfirmReceipt(q)
                 \/ UNCHANGED vars
          PROVE  UNCHANGED tx
      BY <3>5 DEF Enqueue, Lapse, ConfirmReceipt, vars, chain
    <3>. QED
      BY <1>1, <2>3, <3>2, <3>3, <3>4, <3>5 DEF Next
  <2>4. ASSUME job'[p] # job[p]
        PROVE  \/ job'[p].state \in {"leased", "submitted"}
               \/ job'[p].state = "review" /\ (p \in Exhausted \/ pc[job[p].token] = "prepare")
    <3>1. RowMoves(p)
      BY <1>1, <2>4, JobChanges DEF RecordInv
    <3>2. ~Enqueued(p) /\ ~Unreadable(p)
      BY <1>1, <2>1 DEF RecordedIsOpen, Enqueued, Unreadable
    <3>3. CASE Swept(p)
      BY <3>3 DEF Swept, Closed, Unheld
    <3>4. CASE Leased(p)
      BY <3>4 DEF Leased
    <3>5. CASE Lapses(p)
      BY <2>1, <3>5 DEF Lapses, TypeOK
    <3>6. CASE HandedBack(p)
      <4>1. PICK t \in Ticks :
               /\ Holds(t, p) /\ mine[t].payout = p
               /\ \/ /\ pc[t] = "prepare"
                     /\ \/ job'[p] = Closed(p, "review")
                        \/ ~setting.broadcast
                  \/ pc[t] \in {"retryable", "final"}
                  \/ job'[p] = Closed(p, "submitted")
        BY <3>6 DEF HandedBack
      <4>2. pc[t] \notin {"retryable", "final"}
        BY <1>1, <2>1, <4>1 DEF HolderKnowsCheckpoint
      <4>3. setting.broadcast
        BY <1>1, <2>1 DEF RecordedIsOpen
      <4>. QED
        BY <4>1, <4>2, <4>3 DEF Holds, Closed, Unheld
    <3>. QED
      BY <3>1, <3>2, <3>3, <3>4, <3>5, <3>6 DEF RowMoves
  <2>. QED
    BY <2>2, <2>3, <2>4
<1>2. RecordInv /\ [Next]_vars => [\A p \in Payouts : checkpoint[p] # NoTx => Stands(p)]_vars
  BY <1>1
<1>. QED
  BY RecordInvHolds, <1>2, PTL DEF Spec, RecordedDeliveryStands
=============================================================================
