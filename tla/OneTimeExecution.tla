-------------------------- MODULE OneTimeExecution --------------------------
(***************************************************************************)
(* runRelayerOwnedOneTimeExecutionOnce (phase3/index.ts) over the leased    *)
(* job table: a worker activation takes a job and executes its steps       *)
(* (register the attempt, record the observation, finalize the deposit),   *)
(* each checkpointed before the next.  A job of payment method 2 is        *)
(* native: receiving-runtime-v4.ts retains its signed transactions before  *)
(* it sends them and hands the job back while one is pending.  Any other   *)
(* job is sent afresh by the bot's broadcaster, which awaits the receipt.  *)
(*                                                                         *)
(* A worker is one slot for activations: setInterval starts one whether or *)
(* not the last has returned (only a bot bound to the receiving runtime    *)
(* checks tickRunning), and a second process may be up.  An activation     *)
(* that throws, or whose process dies, leaves its slot idle (Throw).       *)
(* The chain is external; a transaction of a step succeeds when the step   *)
(* before it is done and it itself is not.                                 *)
(***************************************************************************)
EXTENDS ExecutionStore

CONSTANTS Workers,      \* slots for worker activations
          DryRuns,      \* a process may run with broadcasts disabled
          Native,       \* jobs executed by the receiving runtime
          Served,       \* jobs whose transactions the chain includes in the end
          NoJob, NoTx

ASSUME WorkersAssumption == Workers = Holders /\ DryRuns \in BOOLEAN
ASSUME NativeAssumption == Native \subseteq Jobs /\ Served \subseteq Jobs
ASSUME SentinelsAssumption == NoJob \notin Jobs /\ NoTx \notin Hashes

VARIABLES
    pc, work,   \* where each activation stands; its job, its hashes, its transaction
    journal,    \* receiving_native_jobs_v4: signed transactions per job and step
    txOf,       \* <<job, step>> a transaction carries
    txState, deep  \* where it is; minimumConfirmations reached

workerVars == <<pc, work>>
chainVars  == <<txOf, txState, deep>>
vars == <<storeVars, workerVars, journal, chainVars>>

Steps   == 1..NumSteps
Idle    == [job |-> NoJob, hashes |-> << >>, tx |-> NoTx]
Place   == {"idle", "plan", "step", "look", "prepare", "resume", "send", "receipt",
            "checkpoint", "defer", "failed", "reverted"}
TxState == {"unused", "signed", "mempool", "success", "reverted"}

Work == [job : Jobs \cup {NoJob}, hashes : Seq(Hashes), tx : Hashes \cup {NoTx}]

WorkerTypeOK ==
    /\ pc \in [Workers -> Place]
    /\ work \in [Workers -> Work]
    /\ \A w \in Workers : pc[w] # "idle" => work[w].job \in Jobs

ChainTypeOK ==
    /\ journal \in [Jobs -> [Steps -> SUBSET Hashes]]
    /\ txOf \in [Hashes -> (Jobs \cup {NoJob}) \X (Steps \cup {0})]
    /\ txState \in [Hashes -> TxState]
    /\ deep \subseteq Hashes

TypeOK == StoreTypeOK /\ WorkerTypeOK /\ ChainTypeOK

Init ==
    /\ StoreInit
    /\ pc = [w \in Workers |-> "idle"]
    /\ work = [w \in Workers |-> Idle]
    /\ journal = [j \in Jobs |-> [k \in Steps |-> {}]]
    /\ txOf = [h \in Hashes |-> <<NoJob, 0>>]
    /\ txState = [h \in Hashes |-> "unused"]
    /\ deep = {}

----------------------------------------------------------------------------
Job(w)      == work[w].job
StepOf(w)   == Len(work[w].hashes) + 1
Finalize(w) == StepOf(w) = NumSteps

(* What the contracts say of a step (attemptUserTagHash, ...). *)
Done(j, k) == \E h \in Hashes : txOf[h] = <<j, k>> /\ txState[h] = "success"

(* Fault: the height of the head is not read. *)
SettledAtOnce(h) == txState[h] = "success"

(* canonicalReceipt: a success at its height, with enough blocks above it. *)
Settled(h) == txState[h] = "success" /\ h \in deep

Goto(w, place) == pc' = [pc EXCEPT ![w] = place] /\ UNCHANGED work

HoldTx(w, h, place) ==
    /\ pc' = [pc EXCEPT ![w] = place]
    /\ work' = [work EXCEPT ![w] = [@ EXCEPT !.tx = h]]

Return(w) ==
    /\ pc' = [pc EXCEPT ![w] = "idle"]
    /\ work' = [work EXCEPT ![w] = Idle]

----------------------------------------------------------------------------
(* Leasing *)

Take(w, j) ==
    /\ pc[w] = "idle"
    /\ Acquire(w, j)
    /\ IF j \in Corrupt THEN UNCHANGED workerVars
       ELSE /\ pc' = [pc EXCEPT ![w] = "plan"]
            /\ work' = [work EXCEPT ![w] = [job |-> j, hashes |-> checkpoints[j], tx |-> NoTx]]
    /\ UNCHANGED <<journal, chainVars>>

(* The tick finds no job. *)
Sweep(w) ==
    /\ pc[w] = "idle"
    /\ AcquireNone
    /\ UNCHANGED <<workerVars, journal, chainVars>>

(* The job becomes a plan: handed back by a dry run, sent to review when the *)
(* plan cannot be prepared.                                                 *)
Plan(w) ==
    /\ pc[w] = "plan"
    /\ \/ DryRuns /\ HandBack(w, Job(w)) /\ Return(w)
       \/ Goto(w, "step") /\ UNCHANGED storeVars
       \/ FailJob(w, Job(w), FALSE) /\ Return(w)
    /\ UNCHANGED <<journal, chainVars>>

(* The lease is renewed before each step. *)
BeginStep(w) ==
    /\ pc[w] = "step" /\ StepOf(w) \in Steps
    /\ Renew(w, Job(w))
    /\ Goto(w, IF Job(w) \in Native THEN "look" ELSE "send")
    /\ UNCHANGED <<journal, chainVars>>

(* withExecutionLease renews on a timer while the receiving runtime works. *)
RenewByTimer(w) ==
    /\ pc[w] \in {"look", "prepare", "resume"}
    /\ Renew(w, Job(w))
    /\ UNCHANGED <<workerVars, journal, chainVars>>

MarkSubmitted(w) ==
    /\ pc[w] = "step" /\ StepOf(w) = NumSteps + 1
    /\ Submit(w, Job(w), work[w].hashes)
    /\ Return(w)
    /\ UNCHANGED <<journal, chainVars>>

RecordConfirmed(w) ==
    /\ pc[w] = "checkpoint"
    /\ Checkpoint(w, Job(w), StepOf(w), work[w].tx)
    /\ pc' = [pc EXCEPT ![w] = "step"]
    /\ work' = [work EXCEPT ![w] =
                    [job |-> @.job, hashes |-> Append(@.hashes, @.tx), tx |-> NoTx]]
    /\ UNCHANGED <<journal, chainVars>>

(* receipt.status is "pending". *)
DeferJob(w) ==
    /\ pc[w] = "defer"
    /\ HandBack(w, Job(w))
    /\ Return(w)
    /\ UNCHANGED <<journal, chainVars>>

(* broadcast_failed may be retried, transaction_reverted may not. *)
RecordFailed(w) ==
    /\ pc[w] \in {"failed", "reverted"}
    /\ FailJob(w, Job(w), pc[w] = "failed")
    /\ Return(w)
    /\ UNCHANGED <<journal, chainVars>>

(* The activation ends by an exception nobody records: the lease is no longer *)
(* its own, the database is unreachable, the process dies.                   *)
Throw(w) ==
    /\ pc[w] # "idle"
    /\ Return(w)
    /\ UNCHANGED <<storeVars, journal, chainVars>>

(* An exception inside the try of a step: recorded as broadcast_failed. *)
FailStep(w) ==
    /\ pc[w] \in {"look", "prepare", "resume", "send", "receipt"}
    /\ Goto(w, "failed")
    /\ UNCHANGED <<storeVars, journal, chainVars>>

----------------------------------------------------------------------------
(* The bot's broadcaster *)

(* The answer of the node may be lost (FailStep follows from "receipt"). *)
Send(w, h) ==
    /\ pc[w] = "send" /\ txState[h] = "unused"
    /\ txOf' = [txOf EXCEPT ![h] = <<Job(w), StepOf(w)>>]
    /\ txState' = [txState EXCEPT ![h] = "mempool"]
    /\ HoldTx(w, h, "receipt")
    /\ UNCHANGED <<storeVars, journal, deep>>

(* waitForTransactionReceipt; it may as well time out (FailStep). *)
Receipt(w) ==
    /\ pc[w] = "receipt" /\ txState[work[w].tx] \in {"success", "reverted"}
    /\ Goto(w, IF txState[work[w].tx] = "success" THEN "checkpoint" ELSE "reverted")
    /\ UNCHANGED <<storeVars, journal, chainVars>>

----------------------------------------------------------------------------
(* The receiving runtime *)

Retained(w)  == journal[Job(w)][StepOf(w)]
Succeeded(w) == {h \in Retained(w) : txState[h] = "success"}

(* executeTransaction finds the step done by somebody else's transaction and *)
(* recovers it from the logs (recoverPrefix), or waits for its depth.       *)
(* refreshFinalization settles on the envelope of its own successful        *)
(* revision; a finalization by somebody else has none and throws (FailStep). *)
Look(w) ==
    /\ pc[w] = "look"
    /\ \/ /\ ~Finalize(w) /\ Done(Job(w), StepOf(w)) /\ Succeeded(w) = {}
          /\ \E h \in Hashes :
                /\ txOf[h] = <<Job(w), StepOf(w)>> /\ txState[h] = "success"
                /\ IF h \in deep THEN HoldTx(w, h, "checkpoint") ELSE Goto(w, "defer")
       \/ /\ ~Finalize(w) /\ (~Done(Job(w), StepOf(w)) \/ Succeeded(w) # {})
          /\ Goto(w, "prepare")
       \/ /\ Finalize(w) /\ ~Done(Job(w), StepOf(w))
          /\ Goto(w, "prepare")
       \/ /\ Finalize(w)
          /\ \E h \in Succeeded(w) : HoldTx(w, h, "resume")
    /\ UNCHANGED <<storeVars, journal, chainVars>>

(* Fault: the retained row is not read under the lock. *)
PrepareAfresh(w, h) ==
    /\ pc[w] = "prepare" /\ txState[h] = "unused"
    /\ journal' = [journal EXCEPT ![Job(w)][StepOf(w)] = @ \cup {h}]
    /\ txOf' = [txOf EXCEPT ![h] = <<Job(w), StepOf(w)>>]
    /\ txState' = [txState EXCEPT ![h] = "signed"]
    /\ HoldTx(w, h, "resume")
    /\ UNCHANGED <<storeVars, deep>>

(* prepare, under the advisory lock of the step's nonce lane: the retained   *)
(* transaction, or a new one, signed and inserted; the step may have been   *)
(* satisfied meanwhile.  A finalization has a lane per revision of its       *)
(* envelope, and the refresh may return an old revision or a new one.       *)
Prepare(w, h) ==
    /\ pc[w] = "prepare"
    /\ \/ /\ h \in Retained(w)
          /\ HoldTx(w, h, "resume")
          /\ UNCHANGED <<journal, chainVars>>
       \/ /\ Retained(w) = {} \/ Finalize(w)
          /\ txState[h] = "unused"
          /\ journal' = [journal EXCEPT ![Job(w)][StepOf(w)] = @ \cup {h}]
          /\ txOf' = [txOf EXCEPT ![h] = <<Job(w), StepOf(w)>>]
          /\ txState' = [txState EXCEPT ![h] = "signed"]
          /\ HoldTx(w, h, "resume")
          /\ UNCHANGED deep
       \/ /\ Retained(w) = {} \/ Finalize(w)
          /\ Done(Job(w), StepOf(w))
          /\ Goto(w, "defer")
          /\ UNCHANGED <<journal, chainVars>>
    /\ UNCHANGED storeVars

(* Fault: what the node has forgotten stays forgotten. *)
ResumeBlind(w) ==
    LET h == work[w].tx
    IN /\ pc[w] = "resume"
       /\ CASE txState[h] = "success"  -> Goto(w, IF h \in deep THEN "checkpoint" ELSE "defer")
            [] txState[h] = "reverted" -> Goto(w, "failed")
            [] OTHER                   -> Goto(w, "defer")
       /\ UNCHANGED <<storeVars, journal, chainVars>>

(* resume: a deep success confirms, a shallow one is pending, a reverted     *)
(* receipt throws; with no receipt the transaction is known and pending, or  *)
(* its very bytes are sent (again) unless the step is satisfied.            *)
Resume(w) ==
    LET h == work[w].tx
    IN /\ pc[w] = "resume"
       /\ CASE txState[h] = "success"  -> Goto(w, IF Settled(h) THEN "checkpoint" ELSE "defer")
                                          /\ UNCHANGED txState
            [] txState[h] = "reverted" -> Goto(w, "failed") /\ UNCHANGED txState
            [] txState[h] = "mempool"  -> Goto(w, "defer") /\ UNCHANGED txState
            [] txState[h] = "signed"   ->
                 /\ Goto(w, "defer")
                 /\ txState' = IF Done(Job(w), StepOf(w)) THEN txState
                               ELSE [txState EXCEPT ![h] = "mempool"]
       /\ UNCHANGED <<storeVars, journal, txOf, deep>>

----------------------------------------------------------------------------
(* The environment *)

Enqueue(j) == EnqueueJob(j) /\ UNCHANGED <<workerVars, journal, chainVars>>

Lapse(j) == LeaseEnds(j) /\ UNCHANGED <<workerVars, journal, chainVars>>

ConfirmJob(j) ==
    /\ \E h \in Hashes : Confirm(j, h)
    /\ UNCHANGED <<workerVars, journal, chainVars>>

(* Another account executes a step (registration and observation take the   *)
(* same signatures from anybody).                                           *)
ForeignStep(j, k, h) ==
    /\ txState[h] = "unused"
    /\ k = 1 \/ Done(j, k - 1)
    /\ ~Done(j, k)
    /\ txOf' = [txOf EXCEPT ![h] = <<j, k>>]
    /\ txState' = [txState EXCEPT ![h] = "success"]
    /\ UNCHANGED <<storeVars, workerVars, journal, deep>>

Mine(h) ==
    LET j == txOf[h][1]
        k == txOf[h][2]
    IN /\ txState[h] = "mempool"
       /\ \/ /\ (k = 1 \/ Done(j, k - 1)) /\ ~Done(j, k)
             /\ txState' = [txState EXCEPT ![h] = "success"]
          \/ txState' = [txState EXCEPT ![h] = "reverted"]
       /\ UNCHANGED <<storeVars, workerVars, journal, txOf, deep>>

(* Blocks are undone from the top. *)
Reorganise(h) ==
    /\ txState[h] \in {"success", "reverted"} /\ h \notin deep
    /\ txState[h] = "success" => txOf[h][2] = NumSteps \/ ~Done(txOf[h][1], txOf[h][2] + 1)
    /\ txState' = [txState EXCEPT ![h] = "mempool"]
    /\ UNCHANGED <<storeVars, workerVars, journal, txOf, deep>>

(* ... and become deep from the bottom. *)
Deepen(h) ==
    /\ txState[h] \in {"success", "reverted"}
    /\ (txState[h] = "success" /\ txOf[h][2] > 1) =>
          \E g \in deep : txState[g] = "success" /\ txOf[g] = <<txOf[h][1], txOf[h][2] - 1>>
    /\ deep' = deep \cup {h}
    /\ UNCHANGED <<storeVars, workerVars, journal, txOf, txState>>

(* The node forgets a transaction it could not include. *)
Drop(h) ==
    /\ txState[h] = "mempool"
    /\ txState' = [txState EXCEPT ![h] = "signed"]
    /\ UNCHANGED <<storeVars, workerVars, journal, txOf, deep>>

----------------------------------------------------------------------------
WorkerStep(w) ==
    \/ Plan(w) \/ BeginStep(w) \/ MarkSubmitted(w) \/ RecordConfirmed(w) \/ DeferJob(w)
    \/ RecordFailed(w) \/ Receipt(w) \/ Look(w) \/ Resume(w) \/ FailStep(w) \/ Throw(w)
    \/ \E j \in Jobs : Take(w, j)
    \/ \E h \in Hashes : Send(w, h) \/ Prepare(w, h)

ChainStep ==
    \/ \E h \in Hashes : Mine(h) \/ Reorganise(h) \/ Deepen(h) \/ Drop(h)
    \/ \E j \in Jobs, k \in Steps, h \in Hashes : ForeignStep(j, k, h)

Next ==
    \/ \E w \in Workers : WorkerStep(w) \/ Sweep(w) \/ RenewByTimer(w)
    \/ \E j \in Jobs : Enqueue(j) \/ Lapse(j) \/ ConfirmJob(j)
    \/ ChainStep

Spec == Init /\ [][Next]_vars

----------------------------------------------------------------------------
(* Safety *)

(* Whoever holds a live lease remembers exactly the hashes the table has: no *)
(* activation that lost its lease adds a checkpoint behind the back of the  *)
(* one that took the job over.                                              *)
HolderKnowsTheTable ==
    \A w \in Workers :
        (pc[w] # "idle" /\ Holds(w, Job(w))) => work[w].hashes = checkpoints[Job(w)]

(* The k-th checkpoint of a job is a transaction of its k-th step, and for a *)
(* native job one that succeeded and is beyond reorganisation, whoever sent *)
(* it.                                                                      *)
CheckpointsAreTheSteps ==
    \A j \in Jobs : \A k \in 1..Len(checkpoints[j]) :
        LET h == checkpoints[j][k]
        IN txOf[h] = <<j, k>> /\ (j \in Native => txState[h] = "success" /\ h \in deep)

(* One signed transaction per step: whatever crashes, however often the    *)
(* job changes hands, a step before the finalization has one transaction,   *)
(* so it cannot be paid for twice; and what native workers hold to send is  *)
(* in the journal.                                                          *)
OneTransactionPerStep ==
    /\ \A j \in Native : \A k \in 1..(NumSteps - 1) : Cardinality(journal[j][k]) <= 1
    /\ \A w \in Workers : pc[w] = "resume" => work[w].tx \in Retained(w)

(* Why they hold.  An activation inside a step knows which step it is and,   *)
(* once it has one, a transaction that carries it; only native jobs take    *)
(* the runtime's way; the journal and the chain agree on what a transaction *)
(* carries; and who is about to checkpoint a native job has seen the        *)
(* settlement.                                                              *)
InStep == {"look", "prepare", "resume", "send", "receipt", "checkpoint"}

KnowsItsStep(w) ==
    /\ pc[w] \in InStep => StepOf(w) \in Steps
    /\ pc[w] \in {"send", "receipt"} => Job(w) \notin Native
    /\ pc[w] \in {"resume", "receipt", "checkpoint"} =>
          work[w].tx \in Hashes /\ txOf[work[w].tx] = <<Job(w), StepOf(w)>>
    /\ (pc[w] = "checkpoint" /\ Job(w) \in Native) =>
          txState[work[w].tx] = "success" /\ work[w].tx \in deep

ActivationsKnowTheirStep == \A w \in Workers : KnowsItsStep(w)

JournalIsTrue ==
    /\ \A h \in Hashes : txOf[h] = <<NoJob, 0>> <=> txState[h] = "unused"
    /\ \A h \in deep : txState[h] \in {"success", "reverted"}
    /\ \A j \in Jobs, k \in Steps : \A h \in journal[j][k] : txOf[h] = <<j, k>>

IInv ==
    /\ TypeOK
    /\ NoStrandedJob
    /\ ActivationsKnowTheirStep
    /\ JournalIsTrue
    /\ HolderKnowsTheTable
    /\ CheckpointsAreTheSteps
    /\ OneTransactionPerStep

----------------------------------------------------------------------------
(* Liveness *)

(* Ticks come for ever and an activation ends; one that is tried again and   *)
(* again does not always throw.  The chain takes in the transactions of     *)
(* served jobs; it owes the others nothing.                                 *)
Fairness ==
    /\ \A w \in Workers :
          /\ WF_vars(WorkerStep(w))
          /\ WF_vars(Sweep(w))
          /\ \A j \in Jobs : SF_vars(Take(w, j))
    /\ \A j \in Jobs : WF_vars(Lapse(j))
    /\ \A h \in Hashes :
          /\ SF_vars(txOf[h][1] \in Served /\ Mine(h))
          /\ SF_vars(txOf[h][1] \in Served /\ Deepen(h))

FairSpec == Spec /\ Fairness

(* A served native job is submitted or sent to review in the end, although   *)
(* activations throw, leases lapse, the node forgets transactions, and the  *)
(* jobs before it in the queue may wait for ever for theirs: "pending jobs  *)
(* must rotate behind ready work".                                          *)
ServedJobsEnd ==
    \A j \in Served \cap Native :
        status[j] = "queued" ~> status[j] \in {"submitted", "confirmed", "manual_review"}
=============================================================================
