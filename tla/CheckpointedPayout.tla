------------------------- MODULE CheckpointedPayout -------------------------
(***************************************************************************)
(* The checkpointed payouts of versions 4, 5 and 6: a payout of one or     *)
(* several intents is taken through acceptQuote, one shared poolWithdraw,  *)
(* and per intent confirmEscrowReceipt, submitPayout and completion or     *)
(* refund.  Each step is a transaction: sent, recorded as a submission,    *)
(* awaited, then checkpointed locally and (V4, V5) at the authority.  After *)
(* an exception or a crash the payout is started over, and what was done is *)
(* recognised from the adapter's status and the journal.                    *)
(*                                                                         *)
(* Init chooses the version and the number of intents.  A worker is an     *)
(* activation in one bot process: a V4 bundle taken from the inbox, or a   *)
(* tick of the V5 or V6 loop.  Each action is the code from one await that *)
(* matters to the next; the awaits between them may all throw (Throw).     *)
(* External: the chain with the adapter contract, the authority, and the   *)
(* attesters who certify how an intent ended.                              *)
(***************************************************************************)
EXTENDS CheckpointJournal, FiniteSets, FiniteSetsExt

CONSTANTS Workers,     \* activations that process V4 bundles
          Loop5And6,   \* ... and the one that runs the V5 and V6 loops
          Plans,       \* [version, size] records Init chooses from
          NoIntent,
          MaxFaults    \* bound on exceptions, crashes and lost answers

ASSUME IntentsAssumption == Intents \subseteq Nat /\ NoIntent \notin Intents
ASSUME WorkersAssumption == Loop5And6 \in Workers
ASSUME PlansAssumption ==
    \A p \in Plans : p.version \in 4..6 /\ p.size \in Nat \ {0} /\ 1..p.size \subseteq Intents
ASSUME FaultsAssumption == MaxFaults \in Nat

VARIABLES
    plan,       \* the payout: its version, and how many intents it has
    status,     \* the adapter's status of each intent (external)
    spent,      \* the Pool withdrawal happened: its inputs are spent (external)
    verdict,    \* what the attesters will certify (external)
    tx, sent,   \* the chain's transactions, and how many were sent (external)
    remote,     \* the checkpoints the authority knows
    pc, job,    \* where each worker stands, and its local variables
    busy,       \* the intents are in inFlightPayoutV4Intents / running is set
    closed,     \* workers whose inbox record was marked processed (V4)
    faults

chainVars  == <<status, spent, verdict, tx, sent>>
workerVars == <<pc, job, busy, closed>>
vars == <<journalVars, plan, chainVars, remote, workerVars, faults>>

Batch    == plan.size > 1
Payout   == 1..plan.size
NoTx     == [state |-> "unused", step |-> "acceptQuote", intents |-> {}]
NoJob    == [child |-> NoIntent, left |-> {}, step |-> "acceptQuote", key |-> NoIntent,
             keys |-> {}, hash |-> NoHash, todo |-> {}, send |-> FALSE, all |-> FALSE,
             seen |-> {}, down |-> FALSE, more |-> FALSE]

(* Who has the withdrawal in its journal: every intent of a V4 or V5 payout, *)
(* the leased intent of a V6 payout.                                         *)
Sharers == IF plan.version = 6 THEN {1} ELSE Payout

Bearers(s, i) == IF s = "poolWithdraw" THEN Sharers ELSE {i}

Place == {"idle", "accept", "check", "loop", "replay", "send", "sent", "receipt", "local",
          "remote"}
OptHash == Hashes \cup {NoHash}

TypeOK ==
    /\ JournalTypeOK
    /\ plan \in Plans
    /\ status \in [Intents -> 0..6]
    /\ spent \in BOOLEAN
    /\ verdict \in [Intents -> {"open", "delivered", "refundable"}]
    /\ tx \in [Hashes -> [state : {"unused", "mempool", "success", "failed"},
                          step : Steps, intents : SUBSET Intents]]
    /\ sent \in Nat
    /\ remote \in [Intents -> [Steps -> OptHash]]
    /\ pc \in [Workers -> Place]
    /\ job \in [Workers -> [child : Intents \cup {NoIntent}, left : SUBSET Intents,
                            step : Steps, key : Intents \cup {NoIntent},
                            keys : SUBSET Intents, hash : OptHash, todo : SUBSET Hashes,
                            send : BOOLEAN, all : BOOLEAN, seen : SUBSET Intents,
                            down : BOOLEAN, more : BOOLEAN]]
    /\ \A w \in Workers : pc[w] \in {"sent", "receipt", "local", "remote"} =>
          job[w].hash \in Hashes /\ job[w].key \in Intents
    /\ busy \in BOOLEAN /\ closed \subseteq Workers /\ faults \in 0..MaxFaults

Init ==
    /\ JournalInit
    /\ plan \in Plans
    /\ status = [i \in Intents |-> 0]
    /\ spent = FALSE
    /\ verdict = [i \in Intents |-> "open"]
    /\ tx = [h \in Hashes |-> NoTx]
    /\ sent = 0
    /\ remote = [i \in Intents |-> [s \in Steps |-> NoHash]]
    /\ pc = [w \in Workers |-> "idle"]
    /\ job = [w \in Workers |-> NoJob]
    /\ busy = FALSE
    /\ closed = {}
    /\ faults = 0

----------------------------------------------------------------------------
(* Ends and continuations *)

Goto(w, place, rec) ==
    /\ pc' = [pc EXCEPT ![w] = place]
    /\ job' = [job EXCEPT ![w] = rec]
    /\ UNCHANGED <<busy, closed>>

Leave(w) ==
    /\ pc' = [pc EXCEPT ![w] = "idle"]
    /\ job' = [job EXCEPT ![w] = NoJob]
    /\ busy' = FALSE

(* An exception: the finally block runs, the payout will be tried again. *)
Fail(w) == Leave(w) /\ UNCHANGED closed

(* Fault: awaiting_proof_quorum does not defer the inbox record. *)
EndUndeferred(w) ==
    Leave(w) /\ closed' = IF plan.version = 4 THEN closed \cup {w} ELSE closed

(* A normal return.  The inbox record of a V4 bundle is then processed,      *)
(* unless an intent awaits its proof quorum (RelayInboxDeferredError).       *)
End(w) ==
    /\ Leave(w)
    /\ closed' = IF plan.version = 4 /\ ~job[w].more THEN closed \cup {w} ELSE closed

(* A write took effect and its answer was lost, or the process died there. *)
Lost(w) == faults < MaxFaults /\ faults' = faults + 1 /\ Fail(w)

(* Record the hash for the keys of the step, one after the other. *)
RecordAll(w, i, s, h, place) ==
    LET keys == Bearers(s, i)
    IN Goto(w, place, [job[w] EXCEPT !.child = i, !.step = s, !.hash = h, !.key = Min(keys),
                                     !.keys = keys \ {Min(keys)}, !.todo = {}, !.all = TRUE])

(* The step is done: on with the loop it belongs to. *)
Done(w, j) ==
    LET next == [NoJob EXCEPT !.down = j.down, !.more = j.more, !.seen = j.seen]
    IN CASE j.step = "acceptQuote"  -> Goto(w, "accept", [next EXCEPT !.left = j.left \ {j.child}])
         [] j.step = "poolWithdraw" -> Goto(w, "loop", [next EXCEPT !.left = Payout, !.seen = {}])
         [] j.step = "confirmEscrowReceipt" -> Goto(w, "loop", [next EXCEPT !.left = j.left])
         [] j.step = "submitPayout" ->
              Goto(w, "loop", [next EXCEPT !.left =
                  IF plan.version = 4 \/ (plan.version = 5 /\ ~Batch) THEN j.left
                  ELSE j.left \ {j.child}])
         [] OTHER -> Goto(w, "loop", [next EXCEPT !.left = j.left \ {j.child}])

(* Look through the submissions of the step before sending it (replay-      *)
(* SubmittedCheckpoint, recoverSubmitted).                                  *)
Replaying(w, i, s, maySend) ==
    LET keys == Bearers(s, i)
    IN Goto(w, "replay", [job[w] EXCEPT !.child = i, !.step = s, !.send = maySend,
                              !.key = Min(keys), !.keys = keys \ {Min(keys)}, !.hash = NoHash,
                              !.todo = submitted[Min(keys)][s], !.all = FALSE])

(* checkpointOrBroadcast (V4) repeats the remote checkpoint of a step it     *)
(* finds recorded; runTransaction (V5, V6) just goes on.                     *)
Perform(w, i, s) ==
    IF Recorded(i, s)
    THEN IF plan.version = 4 THEN RecordAll(w, i, s, checkpoint[i][s], "remote")
         ELSE Done(w, [job[w] EXCEPT !.child = i, !.step = s])
    ELSE Replaying(w, i, s, TRUE)

----------------------------------------------------------------------------
(* The source side *)

(* The payout is taken up, nothing of it being in flight, and its statuses   *)
(* are read.  Statuses that make the code throw or return at once leave no   *)
(* trace and are no step.  seen: the intents read as not yet accepted.       *)
Unaccepted == {i \in Payout : status[i] = 0}
Funded == {i \in Payout : status[i] >= 2}

TakeUp(w, place, left) ==
    /\ pc[w] = "idle" /\ w \notin closed /\ ~busy
    /\ busy' = TRUE
    /\ pc' = [pc EXCEPT ![w] = place]
    /\ job' = [job EXCEPT ![w] = [NoJob EXCEPT !.left = left, !.seen = Unaccepted]]
    /\ UNCHANGED <<journalVars, plan, chainVars, remote, closed, faults>>

BeginV4(w) ==
    /\ plan.version = 4 /\ Funded \in {{}, Payout}
    /\ TakeUp(w, IF Funded = {} THEN "accept" ELSE "loop", Payout)

BeginV5(w) ==
    /\ plan.version = 5 /\ w = Loop5And6
    /\ ~(Batch /\ Unaccepted # {} /\ Funded # {})
    /\ TakeUp(w, IF Unaccepted = {} THEN "check" ELSE "accept", Unaccepted)

BeginV6(w) ==
    /\ plan.version = 6 /\ w = Loop5And6
    /\ TakeUp(w, "accept", Unaccepted)

Begin(w) == BeginV4(w) \/ BeginV5(w) \/ BeginV6(w)

(* The next intent to accept.  V4 keeps its checkpoint in step with the      *)
(* adapter and stops where they disagree; its batch reads the status again.  *)
Accept(w) ==
    LET i == Min(job[w].left)
        fresh == IF plan.version = 4 /\ Batch THEN status[i] = 0 ELSE i \in job[w].seen
    IN /\ pc[w] = "accept"
       /\ IF job[w].left = {} THEN Goto(w, "check", NoJob)
          ELSE IF plan.version # 4 THEN Perform(w, i, "acceptQuote")
          ELSE IF fresh THEN IF Recorded(i, "acceptQuote") THEN Fail(w)
                             ELSE Replaying(w, i, "acceptQuote", TRUE)
          ELSE IF Recorded(i, "acceptQuote") THEN Perform(w, i, "acceptQuote")
               ELSE Replaying(w, i, "acceptQuote", FALSE)
       /\ UNCHANGED <<journalVars, plan, chainVars, remote, faults>>

(* The shared withdrawal.  A checkpoint some intents have is given to the   *)
(* others (in V4 only if each has submitted that hash).                     *)
Withdraw(w, maySend) ==
    LET s == "poolWithdraw"
        known == {checkpoint[k][s] : k \in Sharers} \ {NoHash}
        h == CHOOSE g \in known : TRUE
    IN CASE known = {} -> Replaying(w, 1, s, maySend)
         [] Cardinality(known) > 1 -> Fail(w)
         [] OTHER ->
              IF Cardinality(Sharers) = 1 THEN Perform(w, 1, s)
              ELSE IF plan.version = 4 /\ \E k \in Sharers : ~Recorded(k, s) /\ h \notin submitted[k][s]
              THEN Fail(w)
              ELSE RecordAll(w, 1, s, h, "local")

(* Fault: a withdrawal that happened needs no checkpoint any more. *)
CheckSpent(w) ==
    /\ pc[w] = "check"
    /\ IF spent THEN Goto(w, "loop", [NoJob EXCEPT !.left = Payout])
       ELSE IF \E i \in Payout : status[i] # 1 THEN Fail(w)
       ELSE Withdraw(w, TRUE)
    /\ UNCHANGED <<journalVars, plan, chainVars, remote, faults>>

(* The statuses are read again: every quote must be accepted, no intent      *)
(* further than the withdrawal can explain.  escrowFundedAt of V6 is spent.  *)
Deliver(w) == Goto(w, "loop", [NoJob EXCEPT !.left = Payout])

CheckV4(w) == IF Funded = Payout THEN Deliver(w)
              ELSE IF Funded # {} \/ Unaccepted # {} THEN Fail(w)
              ELSE Withdraw(w, TRUE)

CheckV5(w) == IF Unaccepted # {} THEN End(w)
              ELSE IF Funded # {} THEN Deliver(w)
              ELSE Withdraw(w, TRUE)

CheckV5Batch(w) == IF Unaccepted # {} THEN Fail(w) ELSE Withdraw(w, Funded = {})

CheckV6(w) == IF Unaccepted # {} THEN Fail(w) ELSE Withdraw(w, ~spent)

Check(w) ==
    /\ pc[w] = "check"
    /\ CASE plan.version = 4 -> CheckV4(w)
         [] plan.version = 5 -> IF Batch THEN CheckV5Batch(w) ELSE CheckV5(w)
         [] plan.version = 6 -> CheckV6(w)
    /\ UNCHANGED <<journalVars, plan, chainVars, remote, faults>>

----------------------------------------------------------------------------
(* Escrow, delivery and the end of each intent *)

(* completePayout or proveRelayRefund, whichever the attesters certify for   *)
(* the recorded submission; nothing while their quorum is not complete.      *)
Certified(i) ==
    CASE verdict[i] = "delivered"  -> "completePayout"
      [] verdict[i] = "refundable" -> "proveRelayRefund"
      [] OTHER -> "none"

Skip(w, i, awaiting) ==
    Goto(w, "loop", [job[w] EXCEPT !.left = @ \ {i}, !.more = @ \/ awaiting])

(* One intent of runPayoutV4DownstreamForBinding: submissions of submitPayout *)
(* are not looked at once the adapter says submitted.                         *)
VisitV4(w, i) ==
    CASE status[i] >= 4 -> Skip(w, i, FALSE)
      [] status[i] < 4 /\ ~Recorded(i, "poolWithdraw") -> Fail(w)
      [] status[i] = 1 /\ Recorded(i, "poolWithdraw") -> Perform(w, i, "confirmEscrowReceipt")
      [] status[i] = 2 /\ Recorded(i, "poolWithdraw") -> Perform(w, i, "submitPayout")
      [] OTHER -> IF ~Recorded(i, "submitPayout") THEN Fail(w)
                  ELSE \/ Certified(i) = "completePayout" /\ Perform(w, i, "completePayout")
                       \/ Skip(w, i, TRUE)

(* One intent in the V5 worker of a single payout, which also looks at the  *)
(* completion of an intent that is past its delivery.                        *)
VisitV5(w, i) ==
    CASE status[i] = 1 -> Perform(w, i, "confirmEscrowReceipt")
      [] status[i] = 2 -> Perform(w, i, "submitPayout")
      [] OTHER ->
           IF status[i] # 4 /\ ~Recorded(i, "submitPayout") THEN Fail(w)
           ELSE \/ status[i] # 4 /\ Certified(i) # "none" /\ Perform(w, i, Certified(i))
                \/ Skip(w, i, FALSE)

(* One intent in the V5 batch worker or the V6 source worker. *)
VisitSource(w, i) ==
    CASE status[i] = 1 -> Perform(w, i, "confirmEscrowReceipt")
      [] status[i] = 2 -> Perform(w, i, "submitPayout")
      [] OTHER -> Skip(w, i, FALSE)

(* The intent of a downstream job. *)
VisitDownstream(w, i) ==
    \/ status[i] = 3 /\ Certified(i) # "none" /\ Perform(w, i, Certified(i))
    \/ Skip(w, i, FALSE)

Visit(w, i) ==
    CASE plan.version = 4 -> VisitV4(w, i)
      [] plan.version # 4 /\ job[w].down -> VisitDownstream(w, i)
      [] plan.version = 5 /\ ~job[w].down /\ ~Batch -> VisitV5(w, i)
      [] OTHER -> VisitSource(w, i)

Loop(w) ==
    /\ pc[w] = "loop"
    /\ IF job[w].left = {} THEN End(w)
       ELSE Visit(w, Min(job[w].left))
    /\ UNCHANGED <<journalVars, plan, chainVars, remote, faults>>

(* A downstream job of the V5 loop (listed by the authority, which knows the *)
(* submission) or the V6 loop (listed from the journal).  An intent that is  *)
(* not at 3 leaves no trace.                                                 *)
BeginDownstream(w, i) ==
    /\ pc[w] = "idle" /\ w = Loop5And6 /\ ~busy /\ i \in Payout /\ status[i] = 3
    /\ \/ plan.version = 5 /\ remote[i]["submitPayout"] # NoHash
       \/ plan.version = 6 /\ AwaitsDelivery(i)
    /\ busy' = TRUE
    /\ pc' = [pc EXCEPT ![w] = "loop"]
    /\ job' = [job EXCEPT ![w] = [NoJob EXCEPT !.left = {i}, !.down = TRUE]]
    /\ UNCHANGED <<journalVars, plan, chainVars, remote, closed, faults>>

----------------------------------------------------------------------------
(* One step: replay, send, record, await, checkpoint *)

(* What the contracts accept, and so what gas estimation lets through. *)
Executable(s, intents) ==
    \A i \in intents :
        CASE s = "acceptQuote"          -> status[i] = 0
          [] s = "poolWithdraw"         -> ~spent
          [] s = "confirmEscrowReceipt" -> status[i] = 1 /\ spent
          [] s = "submitPayout"         -> status[i] = 2
          [] OTHER                      -> status[i] = 3 /\ Certified(i) = s

(* Fault: only the newest submission is looked at. *)
ReplayNewest(w) ==
    LET j == job[w]
    IN /\ pc[w] = "replay"
       /\ IF j.todo # {} /\ tx[Max(j.todo)].state = "success"
          THEN Goto(w, "local", [j EXCEPT !.hash = Max(j.todo)])
          ELSE IF j.send THEN Goto(w, "send", j) ELSE Fail(w)
       /\ UNCHANGED <<journalVars, plan, chainVars, remote, faults>>

(* Fault: with nothing to replay, a step that may be sent is given up. *)
ReplayTimid(w) ==
    LET j == job[w]
    IN /\ pc[w] = "replay"
       /\ IF j.todo = {} THEN IF j.send THEN Goto(w, "send", j) ELSE Fail(w) ELSE Fail(w)
       /\ UNCHANGED <<journalVars, plan, chainVars, remote, faults>>

(* No submission to recover: the step is sent, if it may be. *)
NothingFound(w, j) == IF j.send THEN Goto(w, "send", j) ELSE Fail(w)

(* The newest submission not yet looked at: pending stops everything, a      *)
(* success is checkpointed, a failure leads to the next one.  A withdrawal   *)
(* shared by a batch is looked for under every intent.                       *)
Replay(w) ==
    LET j == job[w]
        h == Max(j.todo)
        k == Min(j.keys)
    IN /\ pc[w] = "replay"
       /\ CASE j.todo # {} /\ tx[h].state = "success" ->
                 IF j.hash \in {NoHash, h} THEN Goto(w, "local", [j EXCEPT !.hash = h]) ELSE Fail(w)
            [] j.todo # {} /\ tx[h].state = "failed" -> Goto(w, "replay", [j EXCEPT !.todo = @ \ {h}])
            [] j.todo # {} /\ tx[h].state = "mempool" -> Fail(w)
            [] j.todo = {} /\ j.keys # {} ->
                 Goto(w, "replay", [j EXCEPT !.key = k, !.keys = @ \ {k}, !.todo = submitted[k][j.step]])
            [] j.todo = {} /\ j.keys = {} ->
                 IF j.hash # NoHash THEN RecordAll(w, j.child, j.step, j.hash, "local")
                 ELSE NothingFound(w, j)
       /\ UNCHANGED <<journalVars, plan, chainVars, remote, faults>>

(* sendTransaction; the node's answer may be lost. *)
Send(w) ==
    LET j == job[w]
        h == sent + 1
        intents == IF j.step = "poolWithdraw" THEN Payout ELSE {j.child}
    IN /\ pc[w] = "send"
       /\ IF ~Executable(j.step, intents) THEN Fail(w) /\ UNCHANGED <<tx, sent, faults>>
          ELSE /\ h \in Hashes
               /\ sent' = h
               /\ tx' = [tx EXCEPT ![h] = [state |-> "mempool", step |-> j.step, intents |-> intents]]
               /\ \/ RecordAll(w, j.child, j.step, h, "sent") /\ UNCHANGED faults
                  \/ Lost(w)
       /\ UNCHANGED <<journalVars, plan, status, spent, verdict, remote>>

(* onSubmitted. *)
RecordSent(w) ==
    LET j == job[w]
        k == Min(j.keys)
    IN /\ pc[w] = "sent"
       /\ RecordSubmission(j.key, j.step, j.hash)
       /\ \/ /\ IF j.keys = {} THEN Goto(w, "receipt", j)
                ELSE Goto(w, "sent", [j EXCEPT !.key = k, !.keys = @ \ {k}])
             /\ UNCHANGED faults
          \/ Lost(w)
       /\ UNCHANGED <<plan, chainVars, remote>>

(* Fault: any receipt will do. *)
ReceiptUnread(w) ==
    /\ pc[w] = "receipt" /\ tx[job[w].hash].state \in {"success", "failed"}
    /\ RecordAll(w, job[w].child, job[w].step, job[w].hash, "local")
    /\ UNCHANGED <<journalVars, plan, chainVars, remote, faults>>

(* waitForTransactionReceipt; a reverted transaction is an exception. *)
Receipt(w) ==
    LET j == job[w]
    IN /\ pc[w] = "receipt"
       /\ \/ tx[j.hash].state = "success" /\ RecordAll(w, j.child, j.step, j.hash, "local")
          \/ tx[j.hash].state = "failed" /\ Fail(w)
       /\ UNCHANGED <<journalVars, plan, chainVars, remote, faults>>

(* After the checkpoints of one key: the next key of the withdrawal, the     *)
(* round over all keys after a replay, or the end of the step.               *)
NextKey(w) ==
    LET j == job[w]
        k == Min(j.keys)
    IN IF j.keys # {}
       THEN IF j.all THEN Goto(w, "local", [j EXCEPT !.key = k, !.keys = @ \ {k}])
            ELSE Goto(w, "replay", [j EXCEPT !.key = k, !.keys = @ \ {k}, !.todo = submitted[k][j.step]])
       ELSE IF j.all \/ Cardinality(Bearers(j.step, j.child)) = 1 THEN Done(w, j)
            ELSE RecordAll(w, j.child, j.step, j.hash, "local")

(* Fault: the authority is told first. *)
RecordRemoteFirst(w) ==
    LET j == job[w]
    IN /\ pc[w] = "local"
       /\ remote' = IF plan.version = 6 THEN remote ELSE [remote EXCEPT ![j.key][j.step] = j.hash]
       /\ \/ CanCheckpoint(j.key, j.step, j.hash) /\ Goto(w, "remote", j) /\ UNCHANGED faults
          \/ Lost(w)
       /\ UNCHANGED <<journalVars, plan, chainVars>>

(* recordLocalCheckpoint, which may throw on what it finds. *)
RecordLocal(w) ==
    LET j == job[w]
    IN /\ pc[w] = "local"
       /\ IF ~CanCheckpoint(j.key, j.step, j.hash)
          THEN Fail(w) /\ UNCHANGED <<journalVars, faults>>
          ELSE /\ RecordCheckpoint(j.key, j.step, j.hash)
               /\ \/ /\ IF plan.version = 6 THEN NextKey(w) ELSE Goto(w, "remote", j)
                     /\ UNCHANGED faults
                  \/ Lost(w)
       /\ UNCHANGED <<plan, chainVars, remote>>

(* recordRemoteCheckpoint. *)
RecordRemote(w) ==
    LET j == job[w]
    IN /\ pc[w] = "remote"
       /\ remote' = [remote EXCEPT ![j.key][j.step] = j.hash]
       /\ \/ NextKey(w) /\ UNCHANGED faults
          \/ Lost(w)
       /\ UNCHANGED <<journalVars, plan, chainVars>>

(* Any await may throw: a database, a node, an authority or an attester that *)
(* does not answer, a claim or validation that is refused, an expired lease, *)
(* a receipt that does not come in time, or the process dies.                *)
Throw(w) ==
    /\ pc[w] # "idle"
    /\ Lost(w)
    /\ UNCHANGED <<journalVars, plan, chainVars, remote>>

----------------------------------------------------------------------------
(* The environment *)

After(s, i) ==
    CASE s = "acceptQuote" -> 1
      [] s = "confirmEscrowReceipt" -> 2
      [] s = "submitPayout" -> 3
      [] s = "completePayout" -> 4
      [] s = "proveRelayRefund" -> 5
      [] OTHER -> status[i]

Mine(h) ==
    LET t == tx[h]
    IN /\ t.state = "mempool"
       /\ \/ /\ Executable(t.step, t.intents)
             /\ tx' = [tx EXCEPT ![h].state = "success"]
             /\ status' = [i \in Intents |-> IF i \in t.intents THEN After(t.step, i) ELSE status[i]]
             /\ spent' = (spent \/ t.step = "poolWithdraw")
          \/ tx' = [tx EXCEPT ![h].state = "failed"] /\ UNCHANGED <<status, spent>>
       /\ UNCHANGED <<journalVars, plan, verdict, sent, remote, workerVars, faults>>

(* The provider delivers, or fails for good; the attesters will certify it. *)
Settle(i, v) ==
    /\ status[i] = 3 /\ verdict[i] = "open"
    /\ v = "delivered" \/ plan.version # 4
    /\ verdict' = [verdict EXCEPT ![i] = v]
    /\ UNCHANGED <<journalVars, plan, status, spent, tx, sent, remote, workerVars, faults>>

ClaimRefund(i) ==
    /\ status[i] = 5
    /\ status' = [status EXCEPT ![i] = 6]
    /\ UNCHANGED <<journalVars, plan, spent, verdict, tx, sent, remote, workerVars, faults>>

----------------------------------------------------------------------------
WorkerStep(w) ==
    \/ Begin(w) \/ Accept(w) \/ Check(w) \/ Loop(w)
    \/ Replay(w) \/ Send(w) \/ RecordSent(w) \/ Receipt(w) \/ RecordLocal(w) \/ RecordRemote(w)
    \/ \E i \in Intents : BeginDownstream(w, i)

Next ==
    \/ \E w \in Workers : WorkerStep(w) \/ Throw(w)
    \/ \E h \in Hashes : Mine(h)
    \/ \E i \in Intents : ClaimRefund(i) \/ \E v \in {"delivered", "refundable"} : Settle(i, v)

Spec == Init /\ [][Next]_vars

(* Polls and ticks are started for ever, a started one runs on, the V5 and   *)
(* V6 loops come to the source jobs again and again, and what is in the      *)
(* mempool is mined, one way or the other.                                   *)
Fairness ==
    /\ WF_vars(\E w \in Workers : WorkerStep(w))
    /\ SF_vars(\E w \in Workers : Begin(w))
    /\ \A h \in Hashes : WF_vars(Mine(h))

FairSpec == Spec /\ Fairness

----------------------------------------------------------------------------
(* Properties *)

(* A checkpoint is evidence of success: its transaction was mined, did not  *)
(* revert, and performs this very step of this very intent.                 *)
CheckpointIsASuccess ==
    \A i \in Intents, s \in Steps : Recorded(i, s) =>
        LET t == tx[checkpoint[i][s]]
        IN t.state = "success" /\ t.step = s /\ i \in t.intents

(* The authority never knows of a step what the journal does not: after a   *)
(* restart the local checkpoint can always be compared with the remote one. *)
RemoteFollowsLocal ==
    \A i \in Intents, s \in Steps :
        remote[i][s] # NoHash => remote[i][s] = checkpoint[i][s]

(* No step after the withdrawal is broadcast before the withdrawal is in the *)
(* journal of every intent that needs it: a crash between the two is always  *)
(* made good first.                                                          *)
DeliveryIsBacked ==
    \A h \in Hashes :
        tx[h].state = "unused" \/ tx[h].step \in {"acceptQuote", "poolWithdraw"}
            \/ \A i \in Sharers : Recorded(i, "poolWithdraw")

(* An inbox record of a V4 payout is closed only when every intent ended. *)
ClosedMeansEnded == closed # {} => \A i \in Payout : status[i] >= 4

(* "Retries inspect its receipt before deciding whether a replacement       *)
(* transaction is safe": a step is broadcast only when it has no checkpoint *)
(* and every submission recorded for it has failed.                         *)
NoRebroadcastOverRecorded ==
    [][\A h \in Hashes : (tx[h].state = "unused" /\ tx'[h].state # "unused") =>
          \A i \in tx'[h].intents :
              /\ ~Recorded(i, tx'[h].step)
              /\ \A g \in submitted[i][tx'[h].step] : tx[g].state = "failed"]_vars

(* The payouts keep the promise of PayoutPromise: a call is handed over when  *)
(* nothing known of its step is done or open and what it rests on is done,    *)
(* checkpoints are successes and final, the authority is told checkpoints,    *)
(* each step succeeds once, in order, and records close at the end.          *)
Promise == INSTANCE PayoutPromise
    WITH payout <- Payout, bearers <- Sharers, call <- tx, noted <- submitted,
         done <- checkpoint, told <- remote, settled <- (closed # {})
ImplementsPromise == Promise!PromiseSpec

(* A withdrawal whose submission was recorded for an intent, and which       *)
(* succeeded, is checkpointed for that intent in the end, whatever is lost.  *)
EvidenceIsKept(i) ==
    \A h \in Hashes :
        (h \in submitted[i]["poolWithdraw"] /\ tx[h].state = "success")
            ~> checkpoint[i]["poolWithdraw"] = h

(* ... for a payout whose withdrawal stands under one intent (a single      *)
(* payout, and every V6 payout).                                             *)
WithdrawalIsRecovered == (Cardinality(Sharers) = 1) => EvidenceIsKept(1)

(* ... for every intent of a batch. *)
EveryChildIsRecovered == \A i \in Intents : EvidenceIsKept(i)
=============================================================================
