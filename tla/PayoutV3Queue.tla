---------------------------- MODULE PayoutV3Queue ----------------------------
(***************************************************************************)
(* The payouts of version 3: tables payout_preparation_payloads,           *)
(* payout_execution_payloads and payout_execution_checkpoints, and the      *)
(* worker loop over them (payout-execution-worker.ts).  A tick promotes     *)
(* the oldest preparations whose escrow receipt the adapter has confirmed,  *)
(* then leases the oldest waiting payout, broadcasts submitPayout and       *)
(* records how it went.  setInterval does not wait for the last tick, so    *)
(* ticks overlap.                                                           *)
(*                                                                         *)
(* Payouts are numbered in the order of created_at.  A lease token is       *)
(* random: the activation that drew it stands for it.  A lease may lapse at *)
(* any moment (Lapse).  External: who writes the preparations, the adapter, *)
(* the chain.                                                              *)
(***************************************************************************)
EXTENDS Naturals, FiniteSets, FiniteSetsExt

CONSTANTS Payouts,          \* payout ids, numbers in the order of created_at
          Ticks,            \* activations of the worker loop
          NoTick,
          NoPayout,
          MaxAttempts,      \* max_attempts of every row
          PromotionLimit,   \* preparationPromotionLimit
          Settings,         \* [broadcast, corrupt, direct] records Init chooses from
          MaxSent,          \* bound on the transactions that are broadcast
          MaxFaults         \* bound on exceptions, timeouts and lost answers

ASSUME PayoutsAssumption == Payouts \subseteq Nat \ {0} /\ NoPayout \notin Payouts
ASSUME TicksAssumption == NoTick \notin Ticks
ASSUME SettingsAssumption ==
    Settings \subseteq [broadcast : BOOLEAN, corrupt : SUBSET Payouts, direct : SUBSET Payouts]
ASSUME BoundsAssumption == /\ MaxAttempts \in Nat \ {0} /\ PromotionLimit \in Nat \ {0}
                           /\ MaxSent \in Nat /\ MaxFaults \in Nat

Txs == 1..MaxSent
NoTx == 0

VARIABLES
    setting,     \* broadcast: the gates are open (config.broadcast); corrupt: payouts
                 \* whose payload does not decrypt; direct: payouts that a writer may
                 \* also enqueue without their preparation
    prep,        \* the preparation rows; "waiting" is any status that is a candidate
    job,         \* the execution rows
    checkpoint,  \* the transaction_hash of the checkpoint row
    adapter,     \* the adapter's record of the payout (external)
    tx, sent,    \* the transactions (external)
    pc, mine,    \* where each activation stands, and its local variables
    faults

tables == <<prep, job, checkpoint>>
chain  == <<adapter, tx, sent>>
vars   == <<setting, tables, chain, pc, mine, faults>>

Unheld(state, n) == [state |-> state, tries |-> n, token |-> NoTick, live |-> FALSE]
NoJob  == Unheld("none", 0)
Queued == Unheld("queued", 0)
NoneOf == [left |-> {}, payout |-> NoPayout, hash |-> NoTx]

Place == {"idle", "promote", "acquire", "prepare", "renew", "send", "wait",
          "record", "submit", "retryable", "final"}

TypeOK ==
    /\ setting \in Settings
    /\ prep \in [Payouts -> [state : {"waiting", "submitted"}, tries : 0..MaxAttempts]]
    /\ job \in [Payouts -> [state : {"none", "queued", "leased", "retry", "submitted", "review"},
                            tries : 0..MaxAttempts, token : Ticks \cup {NoTick},
                            live : BOOLEAN]]
    /\ checkpoint \in [Payouts -> Txs \cup {NoTx}]
    /\ adapter \in [Payouts -> {"funding", "confirmed", "submitted"}]
    /\ tx \in [Txs -> [state : {"unused", "mempool", "success", "failed"},
                       payout : Payouts \cup {NoPayout}]]
    /\ sent \in 0..MaxSent
    /\ pc \in [Ticks -> Place]
    /\ mine \in [Ticks -> [left : SUBSET Payouts, payout : Payouts \cup {NoPayout},
                           hash : Txs \cup {NoTx}]]
    /\ \A t \in Ticks : pc[t] \notin {"idle", "promote", "acquire"} => mine[t].payout \in Payouts
    /\ \A t \in Ticks : pc[t] \in {"wait", "record", "submit"} => mine[t].hash \in Txs
    /\ faults \in 0..MaxFaults

Init ==
    /\ setting \in Settings
    /\ prep = [p \in Payouts |-> [state |-> "waiting", tries |-> 0]]
    /\ job = [p \in Payouts |-> NoJob]
    /\ checkpoint = [p \in Payouts |-> NoTx]
    /\ adapter = [p \in Payouts |-> "funding"]
    /\ tx = [h \in Txs |-> [state |-> "unused", payout |-> NoPayout]]
    /\ sent = 0
    /\ pc = [t \in Ticks |-> "idle"]
    /\ mine = [t \in Ticks |-> NoneOf]
    /\ faults = 0

----------------------------------------------------------------------------
(* The tables *)

Candidates == {p \in Payouts : /\ job[p].state = "none"
                               /\ prep[p].state = "waiting" /\ prep[p].tries < MaxAttempts}

(* listPayoutV3PreparationCandidates: the oldest first, up to the limit. *)
Listed == {p \in Candidates : Cardinality({q \in Candidates : q < p}) < PromotionLimit}

(* promotePayoutV3PreparationToExecution, one transaction. *)
PromoteRow(p) ==
    /\ prep' = [prep EXCEPT ![p] = [state |-> "submitted", tries |-> @.tries + 1]]
    /\ job' = IF job[p].state = "none" THEN [job EXCEPT ![p] = Queued] ELSE job

(* Leases that ended with the last attempt. *)
Exhausted == {p \in Payouts : /\ job[p].state = "leased" /\ ~job[p].live
                              /\ job[p].tries >= MaxAttempts}

(* Fault: a lapsed lease is left to the sweep. *)
LapsedNever(p) == FALSE

(* Fault: a lease is taken over before it has lapsed. *)
LapsedOrNot(p) == job[p].state = "leased"

Lapsed(p) == job[p].state = "leased" /\ ~job[p].live

Leasable == {p \in Payouts : /\ job[p].tries < MaxAttempts
                             /\ job[p].state \in {"queued", "retry"} \/ Lapsed(p)}

Closed(p, state) == Unheld(state, job[p].tries)

(* The guard of every write of a holder: its token, and a lease in time. *)
Holds(t, p) == job[p].state = "leased" /\ job[p].token = t /\ job[p].live

----------------------------------------------------------------------------
(* A tick *)

Goto(t, place, rec) ==
    /\ pc' = [pc EXCEPT ![t] = place]
    /\ mine' = [mine EXCEPT ![t] = rec]

Leave(t) == Goto(t, "idle", NoneOf)

Fault == faults < MaxFaults /\ faults' = faults + 1

StartTick(t) ==
    /\ pc[t] = "idle"
    /\ Goto(t, "promote", [NoneOf EXCEPT !.left = Listed])
    /\ UNCHANGED <<setting, tables, chain, faults>>

(* Fault: the adapter is not asked. *)
PromoteUnread(t) ==
    LET p == Min(mine[t].left)
    IN /\ pc[t] = "promote"
       /\ IF mine[t].left = {}
          THEN Goto(t, "acquire", mine[t]) /\ UNCHANGED <<prep, job>>
          ELSE Goto(t, "promote", [mine[t] EXCEPT !.left = @ \ {p}]) /\ PromoteRow(p)
       /\ UNCHANGED <<setting, checkpoint, chain, faults>>

(* The next candidate: passed over until the adapter has confirmed its       *)
(* escrow receipt.  A preparation that does not decrypt is marked for review *)
(* by the catch block, which throws: the transaction is rolled back and the  *)
(* tick is over.                                                             *)
Promote(t) ==
    LET p == Min(mine[t].left)
        rest == [mine[t] EXCEPT !.left = @ \ {p}]
    IN /\ pc[t] = "promote"
       /\ IF mine[t].left = {}
          THEN Goto(t, "acquire", mine[t]) /\ UNCHANGED <<prep, job>>
          ELSE IF adapter[p] = "funding" \/ prep[p].state # "waiting" \/ prep[p].tries >= MaxAttempts
          THEN Goto(t, "promote", rest) /\ UNCHANGED <<prep, job>>
          ELSE IF p \in setting.corrupt
          THEN Leave(t) /\ UNCHANGED <<prep, job>>
          ELSE Goto(t, "promote", rest) /\ PromoteRow(p)
       /\ UNCHANGED <<setting, checkpoint, chain, faults>>

(* acquirePayoutV3ExecutionJob: exhausted leases go to review, the oldest    *)
(* leasable payout is leased; a payload that does not decrypt goes to review *)
(* at once, and that is committed.                                           *)
Acquire(t) ==
    LET p == Min(Leasable)
        swept == [q \in Payouts |-> IF q \in Exhausted THEN Closed(q, "review") ELSE job[q]]
        leased == [state |-> "leased", tries |-> job[p].tries + 1, token |-> t, live |-> TRUE]
    IN /\ pc[t] = "acquire"
       /\ IF Leasable = {}
          THEN job' = swept /\ Leave(t)
          ELSE IF p \in setting.corrupt
          THEN job' = [swept EXCEPT ![p] = Unheld("review", job[p].tries + 1)] /\ Leave(t)
          ELSE /\ job' = [swept EXCEPT ![p] = leased]
               /\ Goto(t, "prepare", [left |-> {}, payout |-> p, hash |-> checkpoint[p]])
       /\ UNCHANGED <<setting, prep, checkpoint, chain, faults>>

(* A write under the lease, after which the tick is over; a stale lease is   *)
(* an exception.                                                             *)
WriteAndLeave(t, row) ==
    LET p == mine[t].payout
    IN /\ Leave(t)
       /\ job' = IF Holds(t, p) THEN [job EXCEPT ![p] = row] ELSE job

(* Fault: the checkpoint of an earlier attempt is not looked at. *)
PrepareAfresh(t) ==
    /\ pc[t] = "prepare" /\ setting.broadcast
    /\ Goto(t, "renew", mine[t])
    /\ UNCHANGED <<setting, tables, chain, faults>>

(* preparePayoutV3SubmitPayoutTransaction: an ineligible operator, and also  *)
(* a node that cannot say whether it is eligible, quarantine the payout.     *)
Prepare(t) ==
    LET p == mine[t].payout
    IN /\ pc[t] = "prepare"
       /\ \/ WriteAndLeave(t, Closed(p, "review")) /\ Fault
          \/ /\ ~setting.broadcast
             /\ WriteAndLeave(t, Unheld("queued", job[p].tries - 1))
             /\ UNCHANGED faults
          \/ /\ setting.broadcast
             /\ Goto(t, IF mine[t].hash # NoTx THEN "submit" ELSE "renew", mine[t])
             /\ UNCHANGED <<job, faults>>
       /\ UNCHANGED <<setting, prep, checkpoint, chain>>

Renew(t) ==
    /\ pc[t] = "renew"
    /\ IF Holds(t, mine[t].payout) THEN Goto(t, "send", mine[t]) ELSE Leave(t)
    /\ UNCHANGED <<setting, tables, chain, faults>>

(* broadcastPreparedTransaction up to the node's answer.  The gas estimation *)
(* refuses what the adapter would refuse.                                    *)
Send(t) ==
    LET p == mine[t].payout
        h == sent + 1
    IN /\ pc[t] = "send"
       /\ IF adapter[p] # "confirmed"
          THEN Goto(t, "retryable", mine[t]) /\ UNCHANGED <<tx, sent, faults>>
          ELSE /\ h \in Txs
               /\ sent' = h
               /\ tx' = [tx EXCEPT ![h] = [state |-> "mempool", payout |-> p]]
               /\ \/ Goto(t, "wait", [mine[t] EXCEPT !.hash = h]) /\ UNCHANGED faults
                  \/ Goto(t, "retryable", mine[t]) /\ Fault
       /\ UNCHANGED <<setting, tables, adapter>>

(* Fault: a mined transaction is taken for a successful one. *)
AwaitMined(t) ==
    /\ pc[t] = "wait" /\ tx[mine[t].hash].state \in {"success", "failed"}
    /\ Goto(t, "record", mine[t])
    /\ UNCHANGED <<setting, tables, chain, faults>>

(* ... and its receipt, which may not come in time. *)
Await(t) ==
    LET state == tx[mine[t].hash].state
    IN /\ pc[t] = "wait"
       /\ \/ state = "success" /\ Goto(t, "record", mine[t]) /\ UNCHANGED faults
          \/ state = "failed" /\ Goto(t, "final", mine[t]) /\ UNCHANGED faults
          \/ Goto(t, "retryable", mine[t]) /\ Fault
       /\ UNCHANGED <<setting, tables, chain>>

(* Fault: the last attempt is parked like any other. *)
RecordFailedUncounted(t) ==
    /\ pc[t] \in {"retryable", "final"}
    /\ WriteAndLeave(t, Closed(mine[t].payout, IF pc[t] = "retryable" THEN "retry" ELSE "review"))
    /\ UNCHANGED <<setting, prep, checkpoint, chain, faults>>

(* recordPayoutV3ExecutionFailed with broadcast_failed or transaction_reverted. *)
RecordFailed(t) ==
    LET p == mine[t].payout
    IN /\ pc[t] \in {"retryable", "final"}
       /\ WriteAndLeave(t, Closed(p, IF pc[t] = "retryable" /\ job[p].tries < MaxAttempts
                                     THEN "retry" ELSE "review"))
       /\ UNCHANGED <<setting, prep, checkpoint, chain, faults>>

RecordConfirmed(t) ==
    LET p == mine[t].payout
    IN /\ pc[t] = "record"
       /\ IF Holds(t, p)
          THEN checkpoint' = [checkpoint EXCEPT ![p] = mine[t].hash] /\ Goto(t, "submit", mine[t])
          ELSE Leave(t) /\ UNCHANGED checkpoint
       /\ UNCHANGED <<setting, prep, job, chain, faults>>

RecordSubmitted(t) ==
    LET p == mine[t].payout
    IN /\ pc[t] = "submit"
       /\ IF checkpoint[p] = mine[t].hash THEN WriteAndLeave(t, Closed(p, "submitted"))
          ELSE Leave(t) /\ UNCHANGED job
       /\ UNCHANGED <<setting, prep, checkpoint, chain, faults>>

(* Any await may throw, or the process die; the catch of tick logs it. *)
Throw(t) ==
    /\ pc[t] # "idle" /\ Leave(t) /\ Fault
    /\ UNCHANGED <<setting, tables, chain>>

----------------------------------------------------------------------------
(* The environment *)

(* enqueuePayoutV3ExecutionPayload; a payout that has its row is left alone. *)
Enqueue(p) ==
    /\ p \in setting.direct
    /\ job[p].state = "none" /\ adapter[p] # "funding"
    /\ job' = [job EXCEPT ![p] = Queued]
    /\ UNCHANGED <<setting, prep, checkpoint, chain, pc, mine, faults>>

Lapse(p) ==
    /\ job[p].state = "leased" /\ job[p].live
    /\ job' = [job EXCEPT ![p].live = FALSE]
    /\ UNCHANGED <<setting, prep, checkpoint, chain, pc, mine, faults>>

ConfirmReceipt(p) ==
    /\ adapter[p] = "funding"
    /\ adapter' = [adapter EXCEPT ![p] = "confirmed"]
    /\ UNCHANGED <<setting, tables, tx, sent, pc, mine, faults>>

Mine(h) ==
    LET p == tx[h].payout
    IN /\ tx[h].state = "mempool"
       /\ IF adapter[p] = "confirmed"
          THEN /\ tx' = [tx EXCEPT ![h].state = "success"]
               /\ adapter' = [adapter EXCEPT ![p] = "submitted"]
          ELSE tx' = [tx EXCEPT ![h].state = "failed"] /\ UNCHANGED adapter
       /\ UNCHANGED <<setting, tables, sent, pc, mine, faults>>

----------------------------------------------------------------------------
TickStep(t) ==
    \/ StartTick(t) \/ Promote(t) \/ Acquire(t) \/ Prepare(t) \/ Renew(t) \/ Send(t)
    \/ Await(t) \/ RecordFailed(t) \/ RecordConfirmed(t) \/ RecordSubmitted(t)

Next ==
    \/ \E t \in Ticks : TickStep(t) \/ Throw(t)
    \/ \E p \in Payouts : Enqueue(p) \/ Lapse(p) \/ ConfirmReceipt(p)
    \/ \E h \in Txs : Mine(h)

Spec == Init /\ [][Next]_vars

(* Ticks start for ever and run on, leases end with time, the chain includes *)
(* what is in the mempool.  Nothing obliges an escrow receipt to come.       *)
Fairness ==
    /\ \A t \in Ticks : WF_vars(TickStep(t))
    /\ \A p \in Payouts : WF_vars(Lapse(p))
    /\ \A h \in Txs : WF_vars(Mine(h))

FairSpec == Spec /\ Fairness

----------------------------------------------------------------------------
(* Properties *)

(* No payout is parked where neither query of the acquire finds it: what     *)
(* waits has an attempt left, what is leased has counted its attempt.        *)
NoStrandedPayout ==
    \A p \in Payouts :
        /\ job[p].state \in {"queued", "retry"} => job[p].tries < MaxAttempts
        /\ job[p].state = "leased" => job[p].tries > 0

(* What the tables say has happened has.  Promotion is all or nothing, and   *)
(* only after the escrow receipt; a checkpoint is a transaction that         *)
(* succeeded for this payout, and only on that ground is it called submitted.*)
RowsTellTheTruth ==
    \A p \in Payouts :
        /\ prep[p].state = "submitted" => job[p].state # "none"
        /\ job[p].state # "none" => adapter[p] # "funding"
        /\ checkpoint[p] # NoTx => tx[checkpoint[p]] = [state |-> "success", payout |-> p]
        /\ job[p].state = "submitted" => checkpoint[p] # NoTx

(* While a lease is in time nobody but its holder changes the row: not a     *)
(* tick that lost it earlier, not the sweep, not another acquire.            *)
OnlyTheHolderWrites ==
    [][\A p \in Payouts :
          (job[p].state = "leased" /\ job[p].live /\ job'[p] # job[p]) =>
              \/ job'[p] = [job[p] EXCEPT !.live = FALSE]
              \/ mine[job[p].token].payout = p /\ pc'[job[p].token] = "idle"]_vars

(* From the moment a delivery is in the checkpoint table nothing undoes it,   *)
(* whatever ticks crash, lapse and overlap: the record stays, nothing more is *)
(* broadcast for the payout, and its row goes on to submitted or is taken up  *)
(* again, never back to the queue.  A person gets it in two cases: the last   *)
(* lease ran out before the row was written (the sweep), or the operator is   *)
(* found ineligible when the payout is taken up again.  A delivery that no    *)
(* tick recorded is outside: it ends as a failed attempt.                     *)
RecordedDeliveryStands ==
    [][\A p \in Payouts : checkpoint[p] # NoTx =>
          /\ checkpoint'[p] = checkpoint[p]
          /\ \A h \in Txs : tx'[h].payout = p => tx[h].payout = p
          /\ job'[p] # job[p] =>
                \/ job'[p].state \in {"leased", "submitted"}
                \/ job'[p].state = "review" /\ (p \in Exhausted \/ pc[job[p].token] = "prepare")]_vars

(* A payout whose escrow receipt is confirmed, with fewer than limit older   *)
(* preparations still waiting, is submitted or put before a person.  It is   *)
(* asked of a store that decrypts: one corrupt preparation stops every tick. *)
ConfirmedPayoutEnds ==
    (setting.broadcast /\ setting.corrupt = {}) =>
        \A p \in Payouts :
            (adapter[p] # "funding" /\ p \in Listed) ~> job[p].state \in {"submitted", "review"}
=============================================================================
