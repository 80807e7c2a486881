----------------------- MODULE OneTimeExecutionProofs -----------------------
(***************************************************************************)
(* The worker over the store, for any number of jobs, activations, steps,  *)
(* attempts and transactions.  A step of the system is a step of the store *)
(* (or leaves it alone), so what the store keeps is kept; the rest is one   *)
(* induction over IInv.                                                    *)
(***************************************************************************)
EXTENDS OneTimeExecution, FiniteSetTheorems, TLAPS

----------------------------------------------------------------------------
(* The store, whatever its clients do: a job of the table can be acquired    *)
(* for as long as it waits, and its journal only advances.                   *)

(* No attempt is counted before the INSERT. *)
FreshJobs == \A j \in Jobs : status[j] = "absent" => attempts[j] = 0

StoreInv == StoreTypeOK /\ NoStrandedJob /\ FreshJobs

USE StepsAssumption

LEMMA StoreInvInit == StoreInit => StoreInv
BY DEF StoreInit, StoreInv, StoreTypeOK, NoStrandedJob, FreshJobs, JobState, Waiting

(* An acquirer takes a row with attempts to spare and counts one. *)
LEMMA AcquireKeeps ==
    ASSUME NEW w \in Holders, NEW j \in Jobs, StoreInv, Acquire(w, j)
    PROVE  StoreInv'
<1> USE DEF StoreInv, StoreTypeOK
<1>1. attempts[j] \in Nat /\ attempts[j] < MaxAttempts
  BY DEF Acquire, Candidates
<1>2. /\ status' \in [Jobs -> JobState]
      /\ holder' \in [Jobs -> Holders \cup {NoHolder}]
      /\ live' \subseteq Jobs
      /\ attempts' \in [Jobs -> 0..MaxAttempts]
      /\ checkpoints' \in [Jobs -> Seq(Hashes)]
      /\ older' \subseteq Jobs \X Jobs
  BY <1>1 DEF Acquire, Touch, JobState
<1>3. NoStrandedJob'
  <2>1. attempts'[j] = attempts[j] + 1 /\ \A i \in Jobs : i # j => attempts'[i] = attempts[i]
    BY DEF Acquire
  <2>2. status'[j] \notin Waiting
    BY DEF Acquire, Waiting
  <2>3. \A i \in Jobs : i # j => status'[i] = status[i] \/ status'[i] = "manual_review"
    BY DEF Acquire
  <2>4. ASSUME NEW i \in Jobs
        PROVE  /\ status'[i] \in Waiting => attempts'[i] < MaxAttempts
               /\ status'[i] = "leased" => attempts'[i] > 0
    <3>1. CASE i = j
      BY <3>1, <1>1, <2>1, <2>2
    <3>2. CASE i # j
      BY <3>2, <2>1, <2>3 DEF NoStrandedJob, Waiting
    <3>. QED  BY <3>1, <3>2
  <2>. QED
    BY <2>4 DEF NoStrandedJob
<1>4. FreshJobs'
  BY DEF Acquire, Candidates, Waiting, FreshJobs
<1>. QED
  BY <1>2, <1>3, <1>4

(* A row gives its lease up only while it holds one. *)
LEMMA ReleaseKeeps ==
    ASSUME NEW w \in Holders, NEW j \in Jobs, StoreInv, Holds(w, j),
           HandBack(w, j) \/ (\E r \in BOOLEAN : FailJob(w, j, r)) \/ Submit(w, j, checkpoints[j])
    PROVE  StoreInv'
<1> USE DEF StoreInv, StoreTypeOK
<1>1. status[j] = "leased" /\ attempts[j] \in 1..MaxAttempts
  BY DEF Holds, NoStrandedJob
<1>2. CASE HandBack(w, j)
  <2>1. attempts' = [attempts EXCEPT ![j] = @ - 1] /\ attempts[j] - 1 \in 0..MaxAttempts
    BY <1>1, <1>2 DEF HandBack
  <2>2. StoreTypeOK'
    BY <2>1, <1>2 DEF HandBack, Release, Touch, JobState, Waiting
  <2>3. NoStrandedJob' /\ FreshJobs'
    BY <1>1, <2>1, <1>2 DEF HandBack, Release, NoStrandedJob, FreshJobs, Waiting
  <2>. QED  BY <2>2, <2>3
<1>3. CASE \E r \in BOOLEAN : FailJob(w, j, r)
  <2>1. StoreTypeOK'
    BY <1>3 DEF FailJob, Release, Touch, JobState, Waiting
  <2>2. NoStrandedJob' /\ FreshJobs'
    BY <1>1, <1>3 DEF FailJob, Release, NoStrandedJob, FreshJobs, Waiting
  <2>. QED  BY <2>1, <2>2
<1>4. CASE Submit(w, j, checkpoints[j])
  <2>1. StoreTypeOK'
    BY <1>4 DEF Submit, Release, Touch, JobState, Waiting
  <2>2. NoStrandedJob' /\ FreshJobs'
    BY <1>1, <1>4 DEF Submit, Release, NoStrandedJob, FreshJobs, Waiting
  <2>. QED  BY <2>1, <2>2
<1>. QED
  BY <1>2, <1>3, <1>4

LEMMA StoreInvStep == StoreInv /\ [StoreNext]_storeVars => StoreInv'
<1> SUFFICES ASSUME StoreInv, [StoreNext]_storeVars PROVE StoreInv'
  OBVIOUS
<1> USE DEF StoreInv, StoreTypeOK
<1>1. CASE UNCHANGED storeVars
  BY <1>1 DEF storeVars, NoStrandedJob, FreshJobs
<1>2. CASE AcquireNone
  <2>1. StoreTypeOK'
    BY <1>2 DEF AcquireNone, JobState
  <2>2. NoStrandedJob' /\ FreshJobs'
    BY <1>2 DEF AcquireNone, NoStrandedJob, FreshJobs, Waiting
  <2>. QED  BY <2>1, <2>2
<1>3. ASSUME NEW j \in Jobs, EnqueueJob(j) PROVE StoreInv'
  <2>1. StoreTypeOK'
    BY <1>3 DEF EnqueueJob, Touch, JobState, Waiting
  <2>2. NoStrandedJob' /\ FreshJobs'
    BY <1>3 DEF EnqueueJob, NoStrandedJob, FreshJobs, Waiting
  <2>. QED  BY <2>1, <2>2
<1>4. ASSUME NEW j \in Jobs, LeaseEnds(j) PROVE StoreInv'
  BY <1>4 DEF LeaseEnds, NoStrandedJob, FreshJobs
<1>5. ASSUME NEW j \in Jobs, NEW h \in Hashes, Confirm(j, h) PROVE StoreInv'
  <2>1. StoreTypeOK'
    BY <1>5 DEF Confirm, Touch, JobState
  <2>2. NoStrandedJob' /\ FreshJobs'
    BY <1>5 DEF Confirm, NoStrandedJob, FreshJobs, Waiting
  <2>. QED  BY <2>1, <2>2
<1>6. ASSUME NEW j \in Jobs, NEW w \in Holders, Renew(w, j) PROVE StoreInv'
  BY <1>6 DEF Renew, Touch, NoStrandedJob, FreshJobs
<1>7. ASSUME NEW j \in Jobs, NEW w \in Holders, NEW k \in 1..NumSteps, NEW h \in Hashes,
             Checkpoint(w, j, k, h)
      PROVE  StoreInv'
  <2>1. Append(checkpoints[j], h) \in Seq(Hashes)
    BY DEF StoreTypeOK
  <2>. QED
    BY <1>7, <2>1 DEF Checkpoint, NoStrandedJob, FreshJobs
<1>. QED
  BY <1>1, <1>2, <1>3, <1>4, <1>5, <1>6, <1>7, AcquireKeeps, ReleaseKeeps
     DEF StoreNext, HandBack, FailJob, Submit

(* The type invariant of the store, and that no job is stranded: for every   *)
(* number of jobs, workers, steps and attempts.                             *)
THEOREM StoreInvAlways == StoreSpec => []StoreInv
<1>1. StoreInit => StoreInv
  BY StoreInvInit
<1>2. StoreInv /\ [StoreNext]_storeVars => StoreInv'
  BY StoreInvStep
<1>. QED
  BY <1>1, <1>2, PTL DEF StoreSpec

THEOREM NothingStranded == StoreSpec => []NoStrandedJob
<1>1. StoreInv => NoStrandedJob
  BY DEF StoreInv
<1>. QED
  BY <1>1, StoreInvAlways, PTL

(* What a step of the store does to the journal of a job. *)
Advances(j) ==
    /\ Len(checkpoints'[j]) >= Len(checkpoints[j])
    /\ \A k \in 1..Len(checkpoints[j]) : checkpoints'[j][k] = checkpoints[j][k]
    /\ status[j] = "submitted" => status'[j] \in {"submitted", "confirmed"}
    /\ status'[j] = "confirmed" => status[j] \in {"submitted", "confirmed"}
    /\ status[j] \in {"confirmed", "manual_review"} =>
          status'[j] = status[j] /\ checkpoints'[j] = checkpoints[j]

LEMMA AdvanceStep ==
    ASSUME StoreInv, StoreNext, NEW j \in Jobs
    PROVE  Advances(j)
<1> USE DEF StoreInv, StoreTypeOK, Advances
<1>0. Len(checkpoints[j]) \in Nat
  OBVIOUS
<1>1. CASE AcquireNone
  BY <1>0, <1>1 DEF AcquireNone, Exhausted
<1>2. ASSUME NEW i \in Jobs, EnqueueJob(i) PROVE Advances(j)
  BY <1>0, <1>2 DEF EnqueueJob
<1>3. ASSUME NEW i \in Jobs, LeaseEnds(i) PROVE Advances(j)
  BY <1>0, <1>3 DEF LeaseEnds
<1>4. ASSUME NEW i \in Jobs, NEW h \in Hashes, Confirm(i, h) PROVE Advances(j)
  BY <1>0, <1>4 DEF Confirm
<1>5. ASSUME NEW i \in Jobs, NEW w \in Holders, Renew(w, i) PROVE Advances(j)
  BY <1>0, <1>5 DEF Renew
<1>6. ASSUME NEW i \in Jobs, NEW w \in Holders, Acquire(w, i) PROVE Advances(j)
  BY <1>0, <1>6 DEF Acquire, Candidates, Exhausted, Waiting
<1>7. ASSUME NEW i \in Jobs, NEW w \in Holders, NEW k \in 1..NumSteps, NEW h \in Hashes,
             Checkpoint(w, i, k, h)
      PROVE  Advances(j)
  <2>1. CASE i = j
    <3>1. checkpoints'[j] = Append(checkpoints[j], h) /\ status' = status /\ status[j] = "leased"
      BY <1>7, <2>1 DEF Checkpoint, Holds
    <3>2. checkpoints[j] \in Seq(Hashes)
      OBVIOUS
    <3>. QED
      BY <1>0, <3>1, <3>2
  <2>2. CASE i # j
    BY <1>0, <1>7, <2>2 DEF Checkpoint
  <2>. QED  BY <2>1, <2>2
<1>8. ASSUME NEW i \in Jobs, NEW w \in Holders,
             HandBack(w, i) \/ (\E r \in BOOLEAN : FailJob(w, i, r)) \/ Submit(w, i, checkpoints[i])
      PROVE  Advances(j)
  BY <1>0, <1>8 DEF HandBack, FailJob, Submit, Holds, Release
<1>. QED
  BY <1>1, <1>2, <1>3, <1>4, <1>5, <1>6, <1>7, <1>8 DEF StoreNext

(* A job only advances, and only a submitted one is confirmed, whatever the   *)
(* clients of the store do.                                                  *)
THEOREM StoreAdvances == StoreSpec => JobsOnlyAdvance
<1>1. StoreInv /\ [StoreNext]_storeVars => [\A j \in Jobs : Advances(j)]_storeVars
  BY AdvanceStep
<1>. QED
  BY <1>1, StoreInvAlways, PTL DEF StoreSpec, JobsOnlyAdvance, Advances

----------------------------------------------------------------------------
(* The worker over the store *)

USE WorkersAssumption, SentinelsAssumption

WorkerInv ==
    /\ WorkerTypeOK
    /\ ChainTypeOK
    /\ ActivationsKnowTheirStep
    /\ JournalIsTrue
    /\ HolderKnowsTheTable
    /\ CheckpointsAreTheSteps
    /\ OneTransactionPerStep

LEMMA WorkerInvInit == Init => WorkerInv
<1> SUFFICES ASSUME Init PROVE WorkerInv
  OBVIOUS
<1> USE DEF Init
<1>1. WorkerTypeOK /\ ChainTypeOK
  BY DEF WorkerTypeOK, ChainTypeOK, Work, Place, Idle, TxState, Steps
<1>2. ActivationsKnowTheirStep /\ HolderKnowsTheTable
  BY DEF ActivationsKnowTheirStep, KnowsItsStep, HolderKnowsTheTable, InStep
<1>3. JournalIsTrue
  BY DEF JournalIsTrue, Steps
<1>4. CheckpointsAreTheSteps
  <2>1. \A j \in Jobs : checkpoints[j] = << >>
    BY DEF StoreInit
  <2>2. \A j \in Jobs : 1..Len(checkpoints[j]) = {}
    BY <2>1
  <2>. QED
    BY <2>2 DEF CheckpointsAreTheSteps
<1>5. OneTransactionPerStep
  <2>1. ASSUME NEW j \in Native, NEW k \in 1..(NumSteps - 1)
        PROVE  Cardinality(journal[j][k]) <= 1
    <3>1. j \in Jobs /\ k \in Steps
      BY NativeAssumption, StepsAssumption DEF Steps
    <3>2. journal[j][k] = {}
      BY <3>1
    <3>3. Cardinality(journal[j][k]) = 0
      BY <3>2, FS_EmptySet, Zenon
    <3>. QED
      BY <3>3
  <2>2. \A w \in Workers : pc[w] # "resume"
    OBVIOUS
  <2>. QED
    BY <2>1, <2>2 DEF OneTransactionPerStep
<1>. QED
  BY <1>1, <1>2, <1>3, <1>4, <1>5 DEF WorkerInv

(* Every step of the system is one transaction of the store, or none. *)
LEMMA StoreStep ==
    ASSUME WorkerInv, [Next]_vars
    PROVE  [StoreNext]_storeVars
<1> USE DEF WorkerInv, WorkerTypeOK
<1>1. CASE UNCHANGED vars
  BY <1>1 DEF vars
<1>2. ASSUME NEW j \in Jobs, Enqueue(j) \/ Lapse(j) \/ ConfirmJob(j) PROVE StoreNext
  BY <1>2 DEF Enqueue, Lapse, ConfirmJob, StoreNext
<1>3. CASE ChainStep
  BY <1>3 DEF ChainStep, Mine, Reorganise, Deepen, Drop, ForeignStep
<1>4. ASSUME NEW w \in Workers, WorkerStep(w) \/ Sweep(w) \/ RenewByTimer(w)
      PROVE  [StoreNext]_storeVars
  <2>1. pc[w] # "idle" => Job(w) \in Jobs
    BY DEF Job
  <2>2. ASSUME NEW j \in Jobs, Take(w, j) PROVE StoreNext
    BY <2>2 DEF Take, StoreNext
  <2>3. CASE Plan(w)
    BY <2>1, <2>3 DEF Plan, StoreNext
  <2>4. CASE BeginStep(w) \/ RenewByTimer(w)
    BY <2>1, <2>4 DEF BeginStep, RenewByTimer, StoreNext
  <2>5. CASE MarkSubmitted(w)
    <3>1. Submit(w, Job(w), checkpoints[Job(w)])
      BY <2>5 DEF MarkSubmitted, Submit
    <3>. QED
      BY <2>1, <2>5, <3>1 DEF MarkSubmitted, StoreNext
  <2>6. CASE RecordConfirmed(w)
    <3>1. work[w].tx \in Hashes /\ StepOf(w) \in 1..NumSteps
      BY <2>6 DEF RecordConfirmed, ActivationsKnowTheirStep, KnowsItsStep, InStep, Steps
    <3>. QED
      BY <2>1, <2>6, <3>1 DEF RecordConfirmed, StoreNext
  <2>7. CASE DeferJob(w)
    BY <2>1, <2>7 DEF DeferJob, StoreNext
  <2>8. CASE RecordFailed(w)
    BY <2>1, <2>8 DEF RecordFailed, StoreNext
  <2>9. CASE Sweep(w)
    BY <2>9 DEF Sweep, StoreNext
  <2>10. CASE Receipt(w) \/ Look(w) \/ Resume(w) \/ FailStep(w) \/ Throw(w)
    BY <2>10 DEF Receipt, Look, Resume, FailStep, Throw
  <2>11. ASSUME NEW h \in Hashes, Send(w, h) \/ Prepare(w, h) PROVE UNCHANGED storeVars
    BY <2>11 DEF Send, Prepare
  <2>. QED
    BY <1>4, <2>2, <2>3, <2>4, <2>5, <2>6, <2>7, <2>8, <2>9, <2>10, <2>11 DEF WorkerStep
<1>. QED
  BY <1>1, <1>2, <1>3, <1>4 DEF Next

(* A step of resume, read off its cases: it moves a transaction only from  *)
(* "signed" to "mempool".                                                  *)
LEMMA ResumeMoves ==
    ASSUME WorkerInv, NEW w \in Workers, Resume(w)
    PROVE  /\ pc[w] = "resume" /\ work[w].tx \in Hashes
           /\ UNCHANGED <<storeVars, work, journal, txOf, deep>>
           /\ txState' = txState \/ (txState[work[w].tx] = "signed"
                                     /\ txState' = [txState EXCEPT ![work[w].tx] = "mempool"])
           /\ \/ pc' = [pc EXCEPT ![w] = "defer"]
              \/ pc' = [pc EXCEPT ![w] = "failed"]
              \/ pc' = [pc EXCEPT ![w] = "checkpoint"] /\ Settled(work[w].tx) /\ UNCHANGED txState
<1> DEFINE h == work[w].tx
<1>1. pc[w] = "resume" /\ UNCHANGED <<storeVars, journal, txOf, deep>>
  BY DEF Resume
<1>2. h \in Hashes /\ txOf[h] = <<Job(w), StepOf(w)>> /\ Job(w) \in Jobs
  BY <1>1 DEF WorkerInv, ActivationsKnowTheirStep, KnowsItsStep, WorkerTypeOK, Job
<1>3. txState[h] \in {"signed", "mempool", "success", "reverted"}
  BY <1>2, SentinelsAssumption DEF WorkerInv, ChainTypeOK, TxState, JournalIsTrue
<1>4. CASE txState[h] = "success"
  BY <1>1, <1>2, <1>4 DEF Resume, Goto
<1>5. CASE txState[h] = "reverted"
  BY <1>1, <1>2, <1>5 DEF Resume, Goto
<1>6. CASE txState[h] = "mempool"
  BY <1>1, <1>2, <1>6 DEF Resume, Goto
<1>7. CASE txState[h] = "signed"
  BY <1>1, <1>2, <1>7 DEF Resume, Goto
<1>. QED
  BY <1>3, <1>4, <1>5, <1>6, <1>7

(* What a transaction carries never changes, nor what is deep; the journal  *)
(* keeps its rows.                                                          *)
ChainGrows ==
    /\ \A h \in Hashes : txOf[h] # <<NoJob, 0>> => txOf'[h] = txOf[h]
    /\ \A h \in deep : h \in deep' /\ (txState[h] = "success" => txState'[h] = "success")

LEMMA ChainOnlyGrows ==
    ASSUME WorkerInv, [Next]_vars
    PROVE  ChainGrows
<1> USE DEF WorkerInv, ChainTypeOK, ChainGrows, JournalIsTrue
<1>1. CASE UNCHANGED vars
  BY <1>1 DEF vars, chainVars
<1>2. ASSUME NEW j \in Jobs, Enqueue(j) \/ Lapse(j) \/ ConfirmJob(j) PROVE ChainGrows
  BY <1>2 DEF Enqueue, Lapse, ConfirmJob, chainVars
<1>3. CASE ChainStep
  <2>1. ASSUME NEW h \in Hashes, Mine(h) PROVE ChainGrows
    BY <2>1 DEF Mine
  <2>2. ASSUME NEW h \in Hashes, Reorganise(h) PROVE ChainGrows
    BY <2>2 DEF Reorganise
  <2>3. ASSUME NEW h \in Hashes, Deepen(h) PROVE ChainGrows
    BY <2>3 DEF Deepen
  <2>4. ASSUME NEW h \in Hashes, Drop(h) PROVE ChainGrows
    BY <2>4 DEF Drop
  <2>5. ASSUME NEW j \in Jobs, NEW k \in Steps, NEW h \in Hashes, ForeignStep(j, k, h)
        PROVE  ChainGrows
    BY <2>5 DEF ForeignStep
  <2>. QED
    BY <1>3, <2>1, <2>2, <2>3, <2>4, <2>5 DEF ChainStep
<1>4. ASSUME NEW w \in Workers, WorkerStep(w) \/ Sweep(w) \/ RenewByTimer(w) PROVE ChainGrows
  <2>1. CASE \/ \E j \in Jobs : Take(w, j)
             \/ Plan(w) \/ BeginStep(w) \/ RenewByTimer(w) \/ MarkSubmitted(w)
             \/ RecordConfirmed(w) \/ DeferJob(w) \/ RecordFailed(w) \/ Sweep(w)
             \/ Receipt(w) \/ Look(w) \/ FailStep(w) \/ Throw(w)
    <3>1. UNCHANGED chainVars
      BY <2>1 DEF Take, Plan, BeginStep, RenewByTimer, MarkSubmitted, RecordConfirmed,
                  DeferJob,
                  RecordFailed, Sweep, Receipt, Look, FailStep, Throw
    <3>. QED
      BY <3>1 DEF chainVars
  <2>2. CASE Resume(w)
    BY <2>2, ResumeMoves
  <2>3. ASSUME NEW h \in Hashes, Send(w, h) PROVE ChainGrows
    BY <2>3 DEF Send
  <2>4. ASSUME NEW h \in Hashes, Prepare(w, h) PROVE ChainGrows
    BY <2>4 DEF Prepare, chainVars
  <2>. QED
    BY <1>4, <2>1, <2>2, <2>3, <2>4 DEF WorkerStep
<1>. QED
  BY <1>1, <1>2, <1>3, <1>4 DEF Next
(* An activation keeps to its slot; the rest of the system to the tables     *)
(* and the chain.                                                           *)
LEMMA OwnSlotOnly ==
    ASSUME WorkerInv, NEW w \in Workers, WorkerStep(w) \/ Sweep(w) \/ RenewByTimer(w),
           NEW v \in Workers, v # w
    PROVE  pc'[v] = pc[v] /\ work'[v] = work[v]
<1> USE DEF WorkerInv, WorkerTypeOK
<1>1. CASE \E j \in Jobs : Take(w, j)
  BY <1>1 DEF Take, workerVars
<1>2. CASE Plan(w) \/ BeginStep(w) \/ MarkSubmitted(w) \/ RecordConfirmed(w) \/ DeferJob(w)
           \/ RecordFailed(w) \/ Receipt(w) \/ FailStep(w) \/ Throw(w)
  BY <1>2 DEF Plan, BeginStep, MarkSubmitted, RecordConfirmed, DeferJob, RecordFailed, Receipt,
              FailStep, Throw, Goto, Return
<1>3. CASE Sweep(w) \/ RenewByTimer(w)
  BY <1>3 DEF Sweep, RenewByTimer, workerVars
<1>4. CASE Resume(w)
  BY <1>4, ResumeMoves
<1>5. CASE Look(w)
  BY <1>5 DEF Look, Goto, HoldTx
<1>6. ASSUME NEW h \in Hashes, Send(w, h) \/ Prepare(w, h) PROVE pc'[v] = pc[v] /\ work'[v] = work[v]
  BY <1>6 DEF Send, Prepare, Goto, HoldTx
<1>. QED
  BY <1>1, <1>2, <1>3, <1>4, <1>5, <1>6 DEF WorkerStep

LEMMA EnvironmentKeepsSlots ==
    ASSUME ChainStep \/ (\E j \in Jobs : Enqueue(j) \/ Lapse(j) \/ ConfirmJob(j))
    PROVE  UNCHANGED workerVars /\ UNCHANGED journal
BY DEF ChainStep, Mine, Reorganise, Deepen, Drop, ForeignStep, Enqueue, Lapse, ConfirmJob

(* Each step leaves its own slot well typed. *)
LEMMA SlotTyped ==
    ASSUME WorkerInv, StoreInv, NEW w \in Workers, WorkerStep(w) \/ Sweep(w) \/ RenewByTimer(w)
    PROVE  WorkerTypeOK'
<1> USE DEF WorkerInv, WorkerTypeOK, Place
<1>1. CASE \E j \in Jobs : Take(w, j)
  <2> PICK j \in Jobs : Take(w, j)
    BY <1>1
  <2>1. [job |-> j, hashes |-> checkpoints[j], tx |-> NoTx] \in Work
    BY DEF Work, StoreInv, StoreTypeOK
  <2>. QED
    BY <2>1 DEF Take, workerVars
<1>2. CASE Plan(w) \/ MarkSubmitted(w) \/ DeferJob(w) \/ RecordFailed(w) \/ Throw(w)
           \/ BeginStep(w) \/ Receipt(w) \/ FailStep(w)
  <2>1. Idle \in Work
    BY DEF Idle, Work
  <2>2. CASE Return(w)
    BY <2>1, <2>2 DEF Return
  <2>3. CASE pc[w] # "idle" /\ \E place \in Place \ {"idle"} : Goto(w, place)
    BY <2>3 DEF Goto
  <2>. QED
    BY <1>2, <2>2, <2>3 DEF Plan, MarkSubmitted, DeferJob, RecordFailed, Throw, BeginStep, Receipt,
                            FailStep, Goto
<1>3. CASE RecordConfirmed(w)
  <2>1. work[w] \in Work /\ work[w].tx \in Hashes
    BY <1>3 DEF RecordConfirmed, ActivationsKnowTheirStep, KnowsItsStep
  <2>2. Append(work[w].hashes, work[w].tx) \in Seq(Hashes)
    BY <2>1 DEF Work
  <2> DEFINE r == [job |-> work[w].job, hashes |-> Append(work[w].hashes, work[w].tx), tx |-> NoTx]
  <2>3. r \in Work /\ r.job = work[w].job
    BY <2>1, <2>2 DEF Work
  <2>4. work' = [work EXCEPT ![w] = r]
    BY <1>3 DEF RecordConfirmed
  <2>5. pc' = [pc EXCEPT ![w] = "step"] /\ pc[w] # "idle"
    BY <1>3 DEF RecordConfirmed
  <2> HIDE DEF r
  <2>. QED
    BY <2>3, <2>4, <2>5
<1>4. CASE Sweep(w) \/ RenewByTimer(w)
  BY <1>4 DEF Sweep, RenewByTimer, workerVars
<1>5. CASE Resume(w)
  BY <1>5, ResumeMoves
<1>6. ASSUME NEW h \in Hashes, NEW place \in Place, HoldTx(w, h, place), pc[w] # "idle"
      PROVE  WorkerTypeOK'
  <2>1. [work[w] EXCEPT !.tx = h] \in Work /\ [work[w] EXCEPT !.tx = h].job = work[w].job
    BY DEF Work
  <2>. QED
    BY <1>6, <2>1 DEF HoldTx
<1>7. CASE Look(w)
  <2>1. ASSUME Goto(w, "prepare") \/ Goto(w, "defer") PROVE WorkerTypeOK'
    BY <1>7, <2>1 DEF Look, Goto
  <2>2. pc[w] # "idle"
    BY <1>7 DEF Look
  <2>3. Succeeded(w) \subseteq Hashes
    <3>1. Job(w) \in Jobs /\ StepOf(w) \in Steps
      BY <1>7 DEF Look, Job, ActivationsKnowTheirStep, KnowsItsStep, InStep
    <3>. QED
      BY <3>1 DEF Succeeded, Retained, ChainTypeOK
  <2>4. \/ Goto(w, "prepare") \/ Goto(w, "defer")
        \/ \E h \in Hashes : HoldTx(w, h, "checkpoint") \/ HoldTx(w, h, "resume")
    BY <1>7, <2>3 DEF Look
  <2>. QED
    BY <1>6, <2>1, <2>2, <2>4
<1>8. ASSUME NEW h \in Hashes, Send(w, h) PROVE WorkerTypeOK'
  BY <1>6, <1>8 DEF Send
<1>9. ASSUME NEW h \in Hashes, Prepare(w, h) PROVE WorkerTypeOK'
  <2>1. CASE HoldTx(w, h, "resume")
    BY <1>6, <1>9, <2>1 DEF Prepare
  <2>2. CASE Goto(w, "defer")
    BY <1>9, <2>2 DEF Prepare, Goto
  <2>. QED
    BY <1>9, <2>1, <2>2 DEF Prepare
<1>. QED
  BY <1>1, <1>2, <1>3, <1>4, <1>5, <1>7, <1>8, <1>9 DEF WorkerStep
(* Who knows its step before a step of another, or of the chain, knows it   *)
(* after it.                                                                *)
LEMMA StillKnows ==
    ASSUME ChainGrows, SentinelsAssumption, NEW v \in Workers, WorkerTypeOK, KnowsItsStep(v),
           pc'[v] = pc[v], work'[v] = work[v]
    PROVE  KnowsItsStep(v)'
<1>1. pc[v] \in {"resume", "receipt", "checkpoint"} =>
          txOf[work[v].tx] # <<NoJob, 0>> /\ work[v].tx \in Hashes
  BY DEF KnowsItsStep, Job, WorkerTypeOK
<1>. QED
  BY <1>1 DEF KnowsItsStep, ChainGrows, Job, StepOf, InStep

(* The journal, and what transactions carry, after each step. *)
LEMMA JournalStep ==
    ASSUME WorkerInv, [Next]_vars
    PROVE  ChainTypeOK' /\ JournalIsTrue'
<1> USE DEF WorkerInv, ChainTypeOK, JournalIsTrue
<1>1. ASSUME UNCHANGED journal, UNCHANGED chainVars PROVE ChainTypeOK' /\ JournalIsTrue'
  BY <1>1 DEF chainVars
<1>2. ASSUME NEW j \in Jobs, NEW k \in Steps, NEW h \in Hashes, NEW s \in TxState \ {"unused"},
             txState[h] = "unused", txOf' = [txOf EXCEPT ![h] = <<j, k>>],
             txState' = [txState EXCEPT ![h] = s], deep' = deep,
             \/ journal' = journal
             \/ journal' = [journal EXCEPT ![j][k] = @ \cup {h}]
      PROVE  ChainTypeOK' /\ JournalIsTrue'
  <2>1. ChainTypeOK'
    <3>1. <<j, k>> \in (Jobs \cup {NoJob}) \X (Steps \cup {0})
      BY <1>2
    <3>2. txOf' \in [Hashes -> (Jobs \cup {NoJob}) \X (Steps \cup {0})]
      BY <1>2, <3>1
    <3>3. journal' \in [Jobs -> [Steps -> SUBSET Hashes]]
      <4>1. journal[j] \in [Steps -> SUBSET Hashes] /\ journal[j][k] \cup {h} \in SUBSET Hashes
        BY <1>2
      <4> DEFINE row == [journal[j] EXCEPT ![k] = journal[j][k] \cup {h}]
      <4>2. row \in [Steps -> SUBSET Hashes]
        BY <4>1
      <4>3. journal' = journal \/ journal' = [journal EXCEPT ![j] = row]
        BY <1>2
      <4> HIDE DEF row
      <4>. QED
        BY <4>2, <4>3
    <3>4. txState' \in [Hashes -> TxState] /\ deep' \subseteq Hashes
      BY <1>2
    <3>. QED
      BY <3>2, <3>3, <3>4
  <2>2. h \notin deep /\ \A i \in Jobs, n \in Steps : h \notin journal[i][n]
    BY <1>2, SentinelsAssumption
  <2>3. \A g \in Hashes : txOf'[g] = <<NoJob, 0>> <=> txState'[g] = "unused"
    BY <1>2, SentinelsAssumption
  <2>4. \A g \in deep' : txState'[g] \in {"success", "reverted"}
    BY <1>2, <2>2
  <2>5. \A i \in Jobs, n \in Steps : \A g \in journal'[i][n] : txOf'[g] = <<i, n>>
    <3>1. ASSUME NEW i \in Jobs, NEW n \in Steps, NEW g \in journal'[i][n]
          PROVE  txOf'[g] = <<i, n>>
      <4>1. g \in journal[i][n] \/ (g = h /\ i = j /\ n = k)
        BY <1>2, <3>1
      <4>. QED
        BY <1>2, <2>2, <4>1
    <3>. QED
      BY <3>1
  <2>. QED
    BY <2>1, <2>3, <2>4, <2>5
<1>3. ASSUME NEW h \in Hashes, NEW s \in TxState \ {"unused"}, txState[h] # "unused",
             h \in deep => s = txState[h], txState' = [txState EXCEPT ![h] = s],
             UNCHANGED <<journal, txOf, deep>>
      PROVE  ChainTypeOK' /\ JournalIsTrue'
  BY <1>3
<1>4. CASE UNCHANGED vars
  BY <1>1, <1>4 DEF vars
<1>5. ASSUME NEW j \in Jobs, Enqueue(j) \/ Lapse(j) \/ ConfirmJob(j)
      PROVE  ChainTypeOK' /\ JournalIsTrue'
  BY <1>1, <1>5 DEF Enqueue, Lapse, ConfirmJob
<1>6. CASE ChainStep
  <2>1. ASSUME NEW h \in Hashes, Mine(h) PROVE ChainTypeOK' /\ JournalIsTrue'
    <3>1. txState[h] = "mempool" /\ h \notin deep /\ UNCHANGED <<journal, txOf, deep>>
      BY <2>1 DEF Mine
    <3>2. \E s \in {"success", "reverted"} : txState' = [txState EXCEPT ![h] = s]
      BY <2>1 DEF Mine
    <3>. QED
      BY <1>3, <3>1, <3>2 DEF TxState
  <2>2. ASSUME NEW h \in Hashes, Reorganise(h) PROVE ChainTypeOK' /\ JournalIsTrue'
    BY <1>3, <2>2 DEF Reorganise, TxState
  <2>3. ASSUME NEW h \in Hashes, Deepen(h) PROVE ChainTypeOK' /\ JournalIsTrue'
    BY <2>3 DEF Deepen
  <2>4. ASSUME NEW h \in Hashes, Drop(h) PROVE ChainTypeOK' /\ JournalIsTrue'
    BY <1>3, <2>4 DEF Drop, TxState
  <2>5. ASSUME NEW j \in Jobs, NEW k \in Steps, NEW h \in Hashes, ForeignStep(j, k, h)
        PROVE  ChainTypeOK' /\ JournalIsTrue'
    BY <1>2, <2>5 DEF ForeignStep, TxState
  <2>. QED
    BY <1>6, <2>1, <2>2, <2>3, <2>4, <2>5 DEF ChainStep
<1>7. ASSUME NEW w \in Workers, WorkerStep(w) \/ Sweep(w) \/ RenewByTimer(w)
      PROVE  ChainTypeOK' /\ JournalIsTrue'
  <2>1. CASE \/ \E j \in Jobs : Take(w, j)
             \/ Plan(w) \/ BeginStep(w) \/ RenewByTimer(w) \/ MarkSubmitted(w)
             \/ RecordConfirmed(w) \/ DeferJob(w) \/ RecordFailed(w) \/ Sweep(w)
             \/ Receipt(w) \/ Look(w) \/ FailStep(w) \/ Throw(w)
    <3>1. UNCHANGED journal /\ UNCHANGED chainVars
      BY <2>1 DEF Take, Plan, BeginStep, RenewByTimer, MarkSubmitted, RecordConfirmed,
                  DeferJob, RecordFailed, Sweep, Receipt, Look, FailStep, Throw
    <3>. QED
      BY <1>1, <3>1
  <2>2. CASE Resume(w)
    <3>1. CASE txState' = txState
      BY <1>1, <2>2, <3>1, ResumeMoves DEF chainVars
    <3>2. CASE txState' # txState
      <4>1. /\ work[w].tx \in Hashes /\ txState[work[w].tx] = "signed"
            /\ txState' = [txState EXCEPT ![work[w].tx] = "mempool"]
            /\ UNCHANGED <<journal, txOf, deep>>
        BY <2>2, <3>2, ResumeMoves
      <4>. QED
        BY <1>3, <4>1 DEF TxState
    <3>. QED  BY <3>1, <3>2
  <2>3. ASSUME pc[w] \in {"send", "prepare"} PROVE Job(w) \in Jobs /\ StepOf(w) \in Steps
    BY <2>3 DEF ActivationsKnowTheirStep, KnowsItsStep, InStep, WorkerTypeOK, Job
  <2>4. ASSUME NEW h \in Hashes, Send(w, h) PROVE ChainTypeOK' /\ JournalIsTrue'
    BY <1>2, <2>3, <2>4 DEF Send, TxState
  <2>5. ASSUME NEW h \in Hashes, Prepare(w, h) PROVE ChainTypeOK' /\ JournalIsTrue'
    <3>1. pc[w] = "prepare" /\ "signed" \in TxState \ {"unused"}
      BY <2>5 DEF Prepare, TxState
    <3>2. CASE UNCHANGED <<journal, chainVars>>
      BY <1>1, <3>2
    <3>3. CASE ~UNCHANGED <<journal, chainVars>>
      <4>1. /\ txState[h] = "unused" /\ deep' = deep
            /\ journal' = [journal EXCEPT ![Job(w)][StepOf(w)] = @ \cup {h}]
            /\ txOf' = [txOf EXCEPT ![h] = <<Job(w), StepOf(w)>>]
            /\ txState' = [txState EXCEPT ![h] = "signed"]
        BY <2>5, <3>3 DEF Prepare
      <4>. QED
        BY <1>2, <2>3, <3>1, <4>1
    <3>. QED  BY <3>2, <3>3
  <2>. QED
    BY <1>7, <2>1, <2>2, <2>4, <2>5 DEF WorkerStep
<1>. QED
  BY <1>4, <1>5, <1>6, <1>7 DEF Next
LEMMA HoldTxHolds ==
    ASSUME WorkerTypeOK, NEW w \in Workers, NEW h, NEW place, HoldTx(w, h, place)
    PROVE  /\ pc'[w] = place /\ work'[w].tx = h
           /\ work'[w].job = work[w].job /\ work'[w].hashes = work[w].hashes
<1>1. work[w] \in Work
  BY DEF WorkerTypeOK
<1>2. work'[w] = [work[w] EXCEPT !.tx = h] /\ pc'[w] = place
  BY DEF HoldTx, WorkerTypeOK
<1>. QED
  BY <1>1, <1>2 DEF Work

(* Each step leaves its own activation knowing its step. *)
LEMMA SlotKnows ==
    ASSUME WorkerInv, ChainGrows, NEW w \in Workers, WorkerStep(w) \/ Sweep(w) \/ RenewByTimer(w)
    PROVE  KnowsItsStep(w)'
<1> USE DEF WorkerInv
<1>1. ASSUME NEW place, pc'[w] = place, place \notin InStep PROVE KnowsItsStep(w)'
  BY <1>1 DEF KnowsItsStep, InStep
<1>2. ASSUME NEW place \in {"look", "prepare", "resume"}, pc[w] = place
      PROVE  StepOf(w) \in Steps /\ Job(w) \in Jobs
  BY <1>2 DEF ActivationsKnowTheirStep, KnowsItsStep, InStep, WorkerTypeOK, Job
<1>3. ASSUME NEW h \in Hashes, HoldTx(w, h, "checkpoint") \/ HoldTx(w, h, "resume"),
             StepOf(w) \in Steps, txOf'[h] = <<Job(w), StepOf(w)>>,
             HoldTx(w, h, "checkpoint") => txState'[h] = "success" /\ h \in deep'
      PROVE  KnowsItsStep(w)'
  <2>1. /\ pc'[w] \in {"checkpoint", "resume"} /\ work'[w].tx = h
        /\ work'[w].job = work[w].job /\ work'[w].hashes = work[w].hashes
    BY <1>3, HoldTxHolds
  <2>2. pc'[w] = "checkpoint" => txState'[h] = "success" /\ h \in deep'
    BY <1>3, HoldTxHolds
  <2>3. Job(w)' = Job(w) /\ StepOf(w)' = StepOf(w)
    BY <2>1 DEF Job, StepOf
  <2>. QED
    BY <1>3, <2>1, <2>2, <2>3 DEF KnowsItsStep
<1>4. CASE \E j \in Jobs : Take(w, j)
  <2>1. PICK j \in Jobs : Take(w, j)
    BY <1>4
  <2>2. pc'[w] = "plan" \/ pc'[w] = "idle"
    BY <2>1 DEF Take, workerVars, WorkerTypeOK
  <2>. QED
    BY <1>1, <2>2 DEF InStep
<1>5. CASE Plan(w) \/ MarkSubmitted(w) \/ RecordConfirmed(w) \/ DeferJob(w) \/ RecordFailed(w)
           \/ FailStep(w) \/ Throw(w)
  <2>1. pc'[w] \in {"idle", "step", "failed"}
    BY <1>5 DEF Plan, MarkSubmitted, RecordConfirmed, DeferJob, RecordFailed, FailStep, Throw,
                Return, Goto, WorkerTypeOK
  <2>. QED
    BY <1>1, <2>1 DEF InStep
<1>6. CASE BeginStep(w)
  <2>1. /\ StepOf(w) \in Steps /\ work' = work
        /\ pc'[w] = IF Job(w) \in Native THEN "look" ELSE "send"
    BY <1>6 DEF BeginStep, Goto, WorkerTypeOK
  <2>2. Job(w)' = Job(w) /\ StepOf(w)' = StepOf(w)
    BY <2>1 DEF Job, StepOf
  <2>. QED
    BY <2>1, <2>2 DEF KnowsItsStep
<1>7. CASE Sweep(w) \/ RenewByTimer(w)
  BY <1>7, StillKnows DEF Sweep, RenewByTimer, workerVars, ActivationsKnowTheirStep
<1>8. CASE Receipt(w)
  <2>1. pc[w] = "receipt" /\ pc'[w] \in {"checkpoint", "reverted"}
        /\ UNCHANGED <<work, txOf, txState, deep>>
    BY <1>8 DEF Receipt, Goto, WorkerTypeOK, chainVars
  <2>2. KnowsItsStep(w) /\ Job(w)' = Job(w) /\ StepOf(w)' = StepOf(w)
    BY <2>1 DEF Job, StepOf, ActivationsKnowTheirStep
  <2>. QED
    BY <2>1, <2>2 DEF KnowsItsStep, InStep
<1>9. CASE Look(w)
  <2>1. StepOf(w) \in Steps /\ Job(w) \in Jobs /\ pc[w] = "look"
        /\ UNCHANGED <<journal, txOf, txState, deep>>
    BY <1>2, <1>9 DEF Look, chainVars
  <2>2. CASE Goto(w, "prepare")
    <3>1. pc'[w] = "prepare" /\ work' = work
      BY <2>2 DEF Goto, WorkerTypeOK
    <3>2. StepOf(w)' = StepOf(w)
      BY <3>1 DEF StepOf
    <3>. QED
      BY <2>1, <3>1, <3>2 DEF KnowsItsStep
  <2>3. CASE Goto(w, "defer")
    BY <1>1, <2>3 DEF Goto, InStep, WorkerTypeOK
  <2>4. ASSUME NEW h \in Hashes, txOf[h] = <<Job(w), StepOf(w)>>, txState[h] = "success",
               h \in deep, HoldTx(w, h, "checkpoint")
        PROVE  KnowsItsStep(w)'
    BY <1>3, <2>1, <2>4
  <2>5. ASSUME NEW h \in Succeeded(w), HoldTx(w, h, "resume") PROVE KnowsItsStep(w)'
    <3>1. h \in journal[Job(w)][StepOf(w)]
      BY <2>5 DEF Succeeded, Retained
    <3>2. h \in Hashes /\ txOf[h] = <<Job(w), StepOf(w)>>
      BY <2>1, <3>1 DEF JournalIsTrue, ChainTypeOK
    <3>3. ~HoldTx(w, h, "checkpoint")
      BY <2>5, HoldTxHolds
    <3>. QED
      BY <1>3, <2>1, <2>5, <3>2, <3>3
  <2>. QED
    BY <1>9, <2>2, <2>3, <2>4, <2>5 DEF Look
<1>10. CASE Resume(w)
  <2>1. StepOf(w) \in Steps /\ KnowsItsStep(w) /\ pc[w] = "resume"
    BY <1>2, <1>10, ResumeMoves DEF ActivationsKnowTheirStep
  <2>2. CASE pc' = [pc EXCEPT ![w] = "checkpoint"] /\ Settled(work[w].tx) /\ UNCHANGED txState
    <3>1. pc'[w] = "checkpoint" /\ UNCHANGED <<work, txOf, txState, deep>>
      BY <1>10, <2>2, ResumeMoves DEF WorkerTypeOK
    <3>2. Job(w)' = Job(w) /\ StepOf(w)' = StepOf(w)
      BY <3>1 DEF Job, StepOf
    <3>. QED
      BY <2>1, <2>2, <3>1, <3>2 DEF KnowsItsStep, Settled
  <2>3. CASE pc'[w] \in {"defer", "failed"}
    BY <1>1, <2>3 DEF InStep
  <2>. QED
    BY <1>10, <2>2, <2>3, ResumeMoves DEF WorkerTypeOK
<1>11. ASSUME NEW h \in Hashes, Send(w, h) PROVE KnowsItsStep(w)'
  <2>1. StepOf(w) \in Steps /\ Job(w) \notin Native /\ txOf'[h] = <<Job(w), StepOf(w)>>
    BY <1>11 DEF Send, ActivationsKnowTheirStep, KnowsItsStep, InStep, ChainTypeOK
  <2>2. /\ pc'[w] = "receipt" /\ work'[w].tx = h
        /\ work'[w].job = work[w].job /\ work'[w].hashes = work[w].hashes
    BY <1>11, HoldTxHolds DEF Send
  <2>3. Job(w)' = Job(w) /\ StepOf(w)' = StepOf(w)
    BY <2>2 DEF Job, StepOf
  <2>. QED
    BY <2>1, <2>2, <2>3 DEF KnowsItsStep
<1>12. ASSUME NEW h \in Hashes, Prepare(w, h) PROVE KnowsItsStep(w)'
  <2>1. StepOf(w) \in Steps /\ Job(w) \in Jobs
    BY <1>2, <1>12 DEF Prepare
  <2>2. CASE HoldTx(w, h, "resume")
    <3>1. h \in Retained(w) \/ txOf' = [txOf EXCEPT ![h] = <<Job(w), StepOf(w)>>]
      BY <1>12, <2>2, HoldTxHolds DEF Prepare, Goto, WorkerTypeOK
    <3>2. h \in Retained(w) => txOf[h] = <<Job(w), StepOf(w)>> /\ txOf[h] # <<NoJob, 0>>
      BY <2>1, SentinelsAssumption DEF Retained, JournalIsTrue
    <3>3. txOf'[h] = <<Job(w), StepOf(w)>>
      BY <3>1, <3>2 DEF ChainTypeOK, ChainGrows
    <3>4. ~HoldTx(w, h, "checkpoint")
      BY <2>2, HoldTxHolds
    <3>. QED
      BY <1>3, <2>1, <2>2, <3>3, <3>4
  <2>3. CASE Goto(w, "defer")
    BY <1>1, <2>3 DEF Goto, InStep, WorkerTypeOK
  <2>. QED
    BY <1>12, <2>2, <2>3 DEF Prepare
<1>. QED
  BY <1>4, <1>5, <1>6, <1>7, <1>8, <1>9, <1>10, <1>11, <1>12 DEF WorkerStep
(* Nobody comes to hold a job, and no checkpoint is added to a job somebody  *)
(* holds, but by its own Acquire and its own Checkpoint.                    *)
LEMMA OthersDoNotInterfere ==
    ASSUME StoreInv, NEW v \in Holders, NEW j \in Jobs, Holds(v, j)',
           \/ UNCHANGED storeVars
           \/ AcquireNone
           \/ \E i \in Jobs : EnqueueJob(i) \/ LeaseEnds(i) \/ (\E h \in Hashes : Confirm(i, h))
           \/ \E i \in Jobs, w \in Holders :
                 \/ Renew(w, i) \/ HandBack(w, i) \/ Submit(w, i, checkpoints[i])
                 \/ \E r \in BOOLEAN : FailJob(w, i, r)
                 \/ w # v /\ Acquire(w, i)
                 \/ w # v /\ \E k \in 1..NumSteps, h \in Hashes : Checkpoint(w, i, k, h)
    PROVE  Holds(v, j) /\ checkpoints'[j] = checkpoints[j]
<1> USE LeaseAssumption DEF StoreInv, StoreTypeOK, Holds
<1>1. CASE UNCHANGED storeVars
  BY <1>1 DEF storeVars
<1>2. CASE AcquireNone
  BY <1>2 DEF AcquireNone
<1>3. ASSUME NEW i \in Jobs, EnqueueJob(i) \/ LeaseEnds(i) \/ (\E h \in Hashes : Confirm(i, h))
      PROVE  Holds(v, j) /\ checkpoints'[j] = checkpoints[j]
  BY <1>3 DEF EnqueueJob, LeaseEnds, Confirm
<1>4. ASSUME NEW i \in Jobs, NEW w \in Holders,
             Renew(w, i) \/ HandBack(w, i) \/ Submit(w, i, checkpoints[i])
             \/ (\E r \in BOOLEAN : FailJob(w, i, r))
      PROVE  Holds(v, j) /\ checkpoints'[j] = checkpoints[j]
  <2>1. CASE Renew(w, i)
    BY <2>1 DEF Renew
  <2>2. CASE \E s \in JobState : Release(i, s) /\ UNCHANGED checkpoints
    BY <2>2 DEF Release
  <2>. QED
    BY <1>4, <2>1, <2>2 DEF HandBack, Submit, FailJob, JobState, Waiting
<1>5. ASSUME NEW i \in Jobs, NEW w \in Holders \ {v}, Acquire(w, i)
      PROVE  Holds(v, j) /\ checkpoints'[j] = checkpoints[j]
  <2>1. /\ status'[j] = "leased" => i = j \/ status[j] = "leased"
        /\ holder'[j] = v => i # j /\ holder[j] = v
        /\ live' \subseteq live \cup {i} /\ checkpoints' = checkpoints
    BY <1>5 DEF Acquire
  <2>. QED
    BY <2>1
<1>6. ASSUME NEW i \in Jobs, NEW w \in Holders \ {v}, NEW k \in 1..NumSteps, NEW h \in Hashes,
             Checkpoint(w, i, k, h)
      PROVE  Holds(v, j) /\ checkpoints'[j] = checkpoints[j]
  <2>1. holder[i] = w /\ UNCHANGED <<status, holder, live>>
        /\ checkpoints' = [checkpoints EXCEPT ![i] = Append(checkpoints[i], h)]
    BY <1>6 DEF Checkpoint
  <2>. QED
    BY <2>1
<1>. QED
  BY <1>1, <1>2, <1>3, <1>4, <1>5, <1>6

LEMMA HolderStep ==
    ASSUME StoreInv, WorkerInv, [Next]_vars, WorkerTypeOK'
    PROVE  HolderKnowsTheTable'
<1> USE DEF WorkerInv
<1> SUFFICES ASSUME NEW v \in Workers, pc'[v] # "idle", Holds(v, Job(v))'
             PROVE  work'[v].hashes = checkpoints'[work'[v].job]
  BY DEF HolderKnowsTheTable, Job
<1> DEFINE Knows == work'[v].hashes = checkpoints'[work'[v].job]
<1>0. Job(v)' \in Jobs /\ Job(v)' = work'[v].job
  BY DEF Job, WorkerTypeOK
(* The activation's slot, its job and its checkpoints stay. *)
<1>1. ASSUME work'[v] = work[v], pc[v] # "idle",
             Holds(v, Job(v)) /\ checkpoints'[Job(v)] = checkpoints[Job(v)]
      PROVE  Knows
  BY <1>1 DEF HolderKnowsTheTable, Job
<1>2. ASSUME UNCHANGED storeVars, work'[v] = work[v], pc[v] # "idle" PROVE Knows
  BY <1>0, <1>1, <1>2, OthersDoNotInterfere DEF Job
<1>3. CASE UNCHANGED vars
  BY <1>2, <1>3 DEF vars, workerVars
<1>4. ASSUME NEW j \in Jobs, Enqueue(j) \/ Lapse(j) \/ ConfirmJob(j) PROVE Knows
  <2>1. UNCHANGED workerVars
    BY <1>4, EnvironmentKeepsSlots
  <2>2. EnqueueJob(j) \/ LeaseEnds(j) \/ \E h \in Hashes : Confirm(j, h)
    BY <1>4 DEF Enqueue, Lapse, ConfirmJob
  <2>. QED
    BY <1>0, <1>1, <2>1, <2>2, OthersDoNotInterfere DEF Job, workerVars
<1>5. CASE ChainStep
  BY <1>2, <1>5, EnvironmentKeepsSlots
     DEF ChainStep, Mine, Reorganise, Deepen, Drop, ForeignStep, workerVars
<1>6. ASSUME NEW w \in Workers, WorkerStep(w) \/ Sweep(w) \/ RenewByTimer(w), w # v PROVE Knows
  <2>1. work'[v] = work[v] /\ pc[v] # "idle" /\ Job(v)' = Job(v)
    BY <1>6, OwnSlotOnly DEF Job
  <2>2. pc[w] # "idle" => Job(w) \in Jobs
    BY DEF Job, WorkerTypeOK
  <2>3. ASSUME NEW j \in Jobs, Take(w, j) PROVE Knows
    BY <1>0, <1>1, <1>6, <2>1, <2>3, OthersDoNotInterfere DEF Take
  <2>4. CASE Plan(w) \/ BeginStep(w) \/ RenewByTimer(w) \/ DeferJob(w) \/ RecordFailed(w)
    <3>1. pc[w] # "idle"
      BY <2>4 DEF Plan, BeginStep, RenewByTimer, DeferJob, RecordFailed
    <3>2. \/ UNCHANGED storeVars \/ Renew(w, Job(w)) \/ HandBack(w, Job(w))
          \/ \E r \in BOOLEAN : FailJob(w, Job(w), r)
      BY <2>4 DEF Plan, BeginStep, RenewByTimer, DeferJob, RecordFailed
    <3>. QED
      BY <1>0, <1>1, <1>2, <2>1, <2>2, <3>1, <3>2, OthersDoNotInterfere
  <2>5. CASE MarkSubmitted(w)
    <3>1. pc[w] # "idle" /\ Submit(w, Job(w), checkpoints[Job(w)])
      BY <2>5 DEF MarkSubmitted, Submit
    <3>. QED
      BY <1>0, <1>1, <2>1, <2>2, <3>1, OthersDoNotInterfere
  <2>6. CASE RecordConfirmed(w)
    <3>1. work[w].tx \in Hashes /\ StepOf(w) \in 1..NumSteps /\ pc[w] # "idle"
      BY <2>6 DEF RecordConfirmed, ActivationsKnowTheirStep, KnowsItsStep, InStep, Steps
    <3>2. Checkpoint(w, Job(w), StepOf(w), work[w].tx)
      BY <2>6 DEF RecordConfirmed
    <3>. QED
      BY <1>0, <1>1, <1>6, <2>1, <2>2, <3>1, <3>2, OthersDoNotInterfere
  <2>7. CASE Sweep(w)
    BY <1>0, <1>1, <2>1, <2>7, OthersDoNotInterfere DEF Sweep
  <2>8. CASE Receipt(w) \/ Look(w) \/ FailStep(w) \/ Throw(w) \/ Resume(w)
             \/ \E h \in Hashes : Send(w, h) \/ Prepare(w, h)
    <3>1. UNCHANGED storeVars
      BY <2>8, ResumeMoves DEF Receipt, Look, FailStep, Throw, Send, Prepare
    <3>. QED
      BY <1>2, <2>1, <3>1
  <2>. QED
    BY <1>6, <2>3, <2>4, <2>5, <2>6, <2>7, <2>8 DEF WorkerStep
<1>7. CASE WorkerStep(v) \/ Sweep(v) \/ RenewByTimer(v)
  <2>1. ASSUME NEW j \in Jobs, Take(v, j) PROVE Knows
    <3>1. pc'[v] = "plan" /\ work'[v] = [job |-> j, hashes |-> checkpoints[j], tx |-> NoTx]
      BY <2>1 DEF Take, workerVars, WorkerTypeOK
    <3>2. checkpoints' = checkpoints
      BY <2>1 DEF Take, Acquire
    <3>. QED
      BY <3>1, <3>2 DEF Job
  <2>2. CASE Sweep(v) \/ MarkSubmitted(v) \/ DeferJob(v) \/ RecordFailed(v) \/ Throw(v)
    BY <2>2 DEF Sweep, MarkSubmitted, DeferJob, RecordFailed, Throw, Return, WorkerTypeOK, workerVars
  <2>3. CASE Plan(v) \/ Receipt(v) \/ FailStep(v)
    <3>1. UNCHANGED <<storeVars, work>> /\ pc[v] # "idle"
      BY <2>3 DEF Plan, Receipt, FailStep, Return, Goto, WorkerTypeOK
    <3>. QED
      BY <1>2, <3>1
  <2>4. CASE BeginStep(v) \/ RenewByTimer(v)
    <3>1. Renew(v, Job(v)) /\ work' = work /\ pc[v] # "idle" /\ Job(v) \in Jobs
      BY <2>4 DEF BeginStep, RenewByTimer, Goto, workerVars, WorkerTypeOK, Job
    <3>. QED
      BY <1>1, <3>1 DEF Renew
  <2>5. CASE RecordConfirmed(v)
    <3>1. /\ pc[v] # "idle"
          /\ work'[v] = [job |-> work[v].job, hashes |-> Append(work[v].hashes, work[v].tx),
                         tx |-> NoTx]
      BY <2>5 DEF RecordConfirmed, WorkerTypeOK
    <3>2. Holds(v, Job(v)) /\ Job(v) \in Jobs
          /\ checkpoints'[Job(v)] = Append(checkpoints[Job(v)], work[v].tx)
      BY <2>5, <3>1 DEF RecordConfirmed, Checkpoint, WorkerTypeOK, Job, StoreInv, StoreTypeOK
    <3>3. work[v].hashes = checkpoints[Job(v)] /\ Job(v)' = Job(v)
      BY <3>1, <3>2 DEF HolderKnowsTheTable, Job
    <3>. QED
      BY <1>0, <3>1, <3>2, <3>3
  <2>6. CASE Resume(v)
    BY <1>2, <2>6, ResumeMoves
  <2>7. ASSUME NEW h, NEW place, UNCHANGED storeVars, HoldTx(v, h, place), pc[v] # "idle" PROVE Knows
    <3>1. work'[v].job = work[v].job /\ work'[v].hashes = work[v].hashes
      BY <2>7, HoldTxHolds
    <3>2. Holds(v, Job(v)) /\ Job(v)' = Job(v) /\ checkpoints' = checkpoints
      BY <2>7, <3>1 DEF storeVars, Holds, Job
    <3>. QED
      BY <1>0, <2>7, <3>1, <3>2 DEF HolderKnowsTheTable
  <2>8. CASE Look(v) \/ \E h \in Hashes : Send(v, h) \/ Prepare(v, h)
    <3>1. UNCHANGED storeVars /\ pc[v] # "idle"
      BY <2>8 DEF Look, Send, Prepare
    <3>2. work' = work \/ \E h, place : HoldTx(v, h, place)
      BY <2>8 DEF Look, Send, Prepare, Goto
    <3>. QED
      BY <1>2, <2>7, <3>1, <3>2
  <2>. QED
    BY <1>7, <2>1, <2>2, <2>3, <2>4, <2>5, <2>6, <2>8 DEF WorkerStep
<1>. QED
  BY <1>3, <1>4, <1>5, <1>6, <1>7 DEF Next
(* A checkpoint is written by RecordConfirmed alone, of the transaction its  *)
(* activation has seen settled.                                             *)
LEMMA CheckpointStep ==
    ASSUME StoreInv, WorkerInv, ChainGrows, [Next]_vars
    PROVE  CheckpointsAreTheSteps'
<1> USE DEF WorkerInv
<1> DEFINE Right(j, k) ==
             LET h == checkpoints[j][k]
             IN txOf[h] = <<j, k>> /\ (j \in Native => txState[h] = "success" /\ h \in deep)
<1>1. ASSUME NEW j \in Jobs, checkpoints'[j] = checkpoints[j], NEW k \in 1..Len(checkpoints[j])
      PROVE  Right(j, k)'
  <2>1. Right(j, k)
    BY <1>1 DEF CheckpointsAreTheSteps
  <2>2. checkpoints[j][k] \in Hashes
    <3>1. checkpoints[j] \in Seq(Hashes)
      BY DEF StoreInv, StoreTypeOK
    <3>. QED
      BY <1>1, <3>1
  <2>3. txOf[checkpoints[j][k]] # <<NoJob, 0>>
    BY <2>1, SentinelsAssumption
  <2>. QED
    BY <1>1, <2>1, <2>2, <2>3 DEF ChainGrows
<1>2. ASSUME checkpoints' = checkpoints PROVE CheckpointsAreTheSteps'
  BY <1>1, <1>2 DEF CheckpointsAreTheSteps
<1>3. CASE UNCHANGED vars
  BY <1>2, <1>3 DEF vars, storeVars
<1>4. ASSUME NEW j \in Jobs, Enqueue(j) \/ Lapse(j) \/ ConfirmJob(j) PROVE CheckpointsAreTheSteps'
  BY <1>2, <1>4 DEF Enqueue, Lapse, ConfirmJob, EnqueueJob, LeaseEnds, Confirm
<1>5. CASE ChainStep
  BY <1>2, <1>5 DEF ChainStep, Mine, Reorganise, Deepen, Drop, ForeignStep, storeVars
<1>6. ASSUME NEW w \in Workers, RecordConfirmed(w) PROVE CheckpointsAreTheSteps'
  <2> DEFINE j == Job(w)
             h == work[w].tx
  <2>1. pc[w] = "checkpoint" /\ Checkpoint(w, j, StepOf(w), h) /\ UNCHANGED <<txOf, txState, deep>>
    BY <1>6 DEF RecordConfirmed, chainVars
  <2>2. /\ j \in Jobs /\ h \in Hashes /\ txOf[h] = <<j, StepOf(w)>>
        /\ j \in Native => txState[h] = "success" /\ h \in deep
    BY <2>1 DEF ActivationsKnowTheirStep, KnowsItsStep, WorkerTypeOK, Job
  <2>3. checkpoints[j] \in Seq(Hashes) /\ Len(checkpoints[j]) \in Nat
    BY <2>2 DEF StoreInv, StoreTypeOK
  <2>4. /\ checkpoints'[j] = Append(checkpoints[j], h) /\ StepOf(w) = Len(checkpoints[j]) + 1
        /\ \A i \in Jobs : i # j => checkpoints'[i] = checkpoints[i]
    <3>1. /\ Len(checkpoints[j]) = StepOf(w) - 1 /\ StepOf(w) \in 1..NumSteps
          /\ checkpoints' = [checkpoints EXCEPT ![j] = Append(checkpoints[j], h)]
      BY <2>1 DEF Checkpoint
    <3>. QED
      BY <2>2, <2>3, <3>1, StepsAssumption DEF StoreInv, StoreTypeOK
  <2>5. ASSUME NEW i \in Jobs, NEW k \in 1..Len(checkpoints'[i]) PROVE Right(i, k)'
    <3>1. CASE i # j
      BY <1>1, <2>4, <3>1
    <3>2. CASE i = j /\ k \in 1..Len(checkpoints[j])
      <4>1. checkpoints'[j][k] = checkpoints[j][k]
        BY <2>2, <2>3, <2>4, <3>2
      <4>2. Right(j, k)
        BY <2>2, <3>2 DEF CheckpointsAreTheSteps
      <4>. QED
        BY <2>1, <3>2, <4>1, <4>2
    <3>3. CASE i = j /\ k = Len(checkpoints[j]) + 1
      <4>1. checkpoints'[j][k] = h
        BY <2>2, <2>3, <2>4, <3>3
      <4>. QED
        BY <2>1, <2>2, <2>4, <3>3, <4>1
    <3>. QED
      BY <2>3, <2>4, <3>1, <3>2, <3>3
  <2>. QED
    BY <2>5 DEF CheckpointsAreTheSteps
<1>7. ASSUME NEW w \in Workers, WorkerStep(w) \/ Sweep(w) \/ RenewByTimer(w)
      PROVE  CheckpointsAreTheSteps'
  <2>1. ASSUME NEW j \in Jobs, Take(w, j) PROVE checkpoints' = checkpoints
    BY <2>1 DEF Take, Acquire
  <2>2. CASE Plan(w) \/ BeginStep(w) \/ RenewByTimer(w) \/ DeferJob(w) \/ RecordFailed(w)
    <3>1. checkpoints' = checkpoints
      BY <2>2 DEF Plan, BeginStep, RenewByTimer, DeferJob, RecordFailed, storeVars, HandBack,
                  FailJob, Renew
    <3>. QED  BY <1>2, <3>1
  <2>3. CASE MarkSubmitted(w) \/ Sweep(w)
    BY <1>2, <2>3 DEF MarkSubmitted, Submit, Sweep, AcquireNone
  <2>4. CASE Receipt(w) \/ Look(w) \/ FailStep(w) \/ Throw(w) \/ Resume(w)
             \/ \E h \in Hashes : Send(w, h) \/ Prepare(w, h)
    <3>1. UNCHANGED storeVars
      BY <2>4, ResumeMoves DEF Receipt, Look, FailStep, Throw, Send, Prepare
    <3>. QED
      BY <1>2, <3>1 DEF storeVars
  <2>. QED
    BY <1>2, <1>6, <1>7, <2>1, <2>2, <2>3, <2>4 DEF WorkerStep
<1>. QED
  BY <1>3, <1>4, <1>5, <1>7 DEF Next

(* The journal of a step before the finalization is written while empty. *)
LEMMA OneTransactionStep ==
    ASSUME WorkerInv, [Next]_vars
    PROVE  OneTransactionPerStep'
<1> USE DEF WorkerInv
<1> DEFINE Grows == \A j \in Jobs, k \in Steps : journal[j][k] \subseteq journal'[j][k]
<1>1. ASSUME Grows, \A j \in Native, k \in 1..(NumSteps - 1) :
                        journal'[j][k] = journal[j][k] \/ \E h : journal'[j][k] = {h},
             \A v \in Workers : pc'[v] = "resume" =>
                 \/ pc[v] = "resume" /\ work'[v] = work[v]
                 \/ work'[v].tx \in Retained(v)'
      PROVE  OneTransactionPerStep'
  <2>1. ASSUME NEW j \in Native, NEW k \in 1..(NumSteps - 1)
        PROVE  Cardinality(journal'[j][k]) <= 1
    <3>1. CASE journal'[j][k] = journal[j][k]
      BY <3>1 DEF OneTransactionPerStep
    <3>2. ASSUME NEW h, journal'[j][k] = {h} PROVE Cardinality(journal'[j][k]) <= 1
      <4>1. Cardinality(journal'[j][k]) = 1
        BY <3>2, FS_Singleton, Zenon
      <4>. QED
        BY <4>1
    <3>. QED
      BY <1>1, <3>1, <3>2
  <2>2. ASSUME NEW v \in Workers, pc'[v] = "resume" PROVE work'[v].tx \in Retained(v)'
    <3>1. CASE pc[v] = "resume" /\ work'[v] = work[v]
      <4>1. work[v].tx \in journal[Job(v)][StepOf(v)] /\ Job(v) \in Jobs /\ StepOf(v) \in Steps
        BY <3>1 DEF OneTransactionPerStep, Retained, ActivationsKnowTheirStep, KnowsItsStep, InStep,
                    WorkerTypeOK, Job
      <4>2. Job(v)' = Job(v) /\ StepOf(v)' = StepOf(v)
        BY <3>1 DEF Job, StepOf
      <4>. QED
        BY <1>1, <3>1, <4>1, <4>2 DEF Retained
    <3>. QED
      BY <1>1, <2>2, <3>1
  <2>. QED
    BY <2>1, <2>2 DEF OneTransactionPerStep
<1>2. ASSUME UNCHANGED journal, \A v \in Workers : pc'[v] = "resume" =>
                 \/ pc[v] = "resume" /\ work'[v] = work[v]
                 \/ work'[v].tx \in Retained(v)'
      PROVE  OneTransactionPerStep'
  BY <1>1, <1>2
<1>3. CASE UNCHANGED vars
  BY <1>2, <1>3 DEF vars, workerVars
<1>4. CASE ChainStep \/ \E j \in Jobs : Enqueue(j) \/ Lapse(j) \/ ConfirmJob(j)
  BY <1>2, <1>4, EnvironmentKeepsSlots DEF workerVars
<1>5. ASSUME NEW w \in Workers, WorkerStep(w) \/ Sweep(w) \/ RenewByTimer(w)
      PROVE  OneTransactionPerStep'
  <2>1. \A v \in Workers : v # w => pc'[v] = pc[v] /\ work'[v] = work[v]
    BY <1>5, OwnSlotOnly
  <2>2. ASSUME UNCHANGED journal, pc'[w] # "resume" \/ (pc[w] = "resume" /\ work'[w] = work[w])
        PROVE  OneTransactionPerStep'
    BY <1>2, <2>1, <2>2
  <2>3. ASSUME NEW j \in Jobs, Take(w, j) PROVE OneTransactionPerStep'
    BY <2>2, <2>3 DEF Take, workerVars, WorkerTypeOK
  <2>4. CASE Plan(w) \/ BeginStep(w) \/ MarkSubmitted(w) \/ RecordConfirmed(w) \/ DeferJob(w)
             \/ RecordFailed(w) \/ Receipt(w) \/ FailStep(w) \/ Throw(w)
    <3>1. UNCHANGED journal /\ pc'[w] # "resume"
      BY <2>4 DEF Plan, BeginStep, MarkSubmitted, RecordConfirmed, DeferJob, RecordFailed, Receipt,
                  FailStep, Throw, Goto, Return, WorkerTypeOK
    <3>. QED
      BY <2>2, <3>1
  <2>5. CASE Sweep(w) \/ RenewByTimer(w)
    BY <1>2, <2>5 DEF Sweep, RenewByTimer, workerVars
  <2>6. CASE Resume(w)
    BY <2>2, <2>6, ResumeMoves DEF WorkerTypeOK
  <2>7. ASSUME NEW h \in Hashes, Send(w, h) PROVE OneTransactionPerStep'
    BY <2>2, <2>7, HoldTxHolds DEF Send
  <2>8. ASSUME NEW h, HoldTx(w, h, "resume"), h \in journal'[Job(w)][StepOf(w)]
        PROVE  work'[w].tx \in Retained(w)'
    <3>1. work'[w].tx = h /\ Job(w)' = Job(w) /\ StepOf(w)' = StepOf(w)
      BY <2>8, HoldTxHolds DEF Job, StepOf
    <3>. QED
      BY <2>8, <3>1 DEF Retained
  <2>9. CASE Look(w)
    <3>1. UNCHANGED journal
      BY <2>9 DEF Look
    <3>2. ASSUME NEW h, HoldTx(w, h, "checkpoint") PROVE OneTransactionPerStep'
      BY <2>2, <3>1, <3>2, HoldTxHolds
    <3>3. CASE Goto(w, "defer") \/ Goto(w, "prepare")
      BY <2>2, <3>1, <3>3 DEF Goto, WorkerTypeOK
    <3>4. ASSUME NEW h \in Succeeded(w), HoldTx(w, h, "resume") PROVE OneTransactionPerStep'
      BY <1>2, <2>1, <2>8, <3>1, <3>4 DEF Succeeded, Retained
    <3>. QED
      BY <2>9, <3>2, <3>3, <3>4 DEF Look
  <2>10. ASSUME NEW h \in Hashes, Prepare(w, h) PROVE OneTransactionPerStep'
    <3>1. Job(w) \in Jobs /\ StepOf(w) \in Steps
      BY <2>10 DEF Prepare, ActivationsKnowTheirStep, KnowsItsStep, InStep, WorkerTypeOK, Job
    <3>2. CASE Goto(w, "defer") /\ UNCHANGED journal
      BY <2>2, <3>2 DEF Goto, WorkerTypeOK
    <3>3. CASE h \in Retained(w) /\ HoldTx(w, h, "resume") /\ UNCHANGED journal
      BY <1>2, <2>1, <2>8, <3>3 DEF Retained
    <3>4. CASE /\ Retained(w) = {} \/ Finalize(w)
               /\ journal' = [journal EXCEPT ![Job(w)][StepOf(w)] = @ \cup {h}]
               /\ HoldTx(w, h, "resume")
      <4>1. /\ journal'[Job(w)][StepOf(w)] = journal[Job(w)][StepOf(w)] \cup {h}
            /\ \A j \in Jobs, k \in Steps :
                  <<j, k>> # <<Job(w), StepOf(w)>> => journal'[j][k] = journal[j][k]
        BY <3>1, <3>4 DEF ChainTypeOK
      <4>2. Grows
        BY <4>1
      <4>3. ASSUME NEW j \in Native, NEW k \in 1..(NumSteps - 1)
            PROVE  journal'[j][k] = journal[j][k] \/ \E g : journal'[j][k] = {g}
        <5>1. j \in Jobs /\ k \in Steps /\ k # NumSteps
          BY NativeAssumption, StepsAssumption DEF Steps
        <5>2. CASE <<j, k>> # <<Job(w), StepOf(w)>>
          BY <4>1, <5>1, <5>2
        <5>3. CASE j = Job(w) /\ k = StepOf(w)
          BY <3>4, <4>1, <5>1, <5>3 DEF Finalize, Retained
        <5>. QED
          BY <5>2, <5>3
      <4>4. work'[w].tx \in Retained(w)'
        BY <2>8, <3>4, <4>1
      <4>. QED
        BY <1>1, <2>1, <4>2, <4>3, <4>4
    <3>. QED
      BY <2>10, <3>2, <3>3, <3>4 DEF Prepare
  <2>. QED
    BY <1>5, <2>3, <2>4, <2>5, <2>6, <2>7, <2>9, <2>10 DEF WorkerStep
<1>. QED
  BY <1>3, <1>4, <1>5 DEF Next
LEMMA WorkerInvStep ==
    ASSUME StoreInv, WorkerInv, [Next]_vars
    PROVE  StoreInv' /\ WorkerInv'
<1>1. ChainGrows /\ StoreInv'
  BY ChainOnlyGrows, StoreStep, StoreInvStep
<1>2. WorkerTypeOK'
  <2>1. CASE UNCHANGED vars
    BY <2>1 DEF vars, workerVars, WorkerTypeOK, WorkerInv
  <2>2. CASE ChainStep \/ \E j \in Jobs : Enqueue(j) \/ Lapse(j) \/ ConfirmJob(j)
    BY <2>2, EnvironmentKeepsSlots DEF workerVars, WorkerTypeOK, WorkerInv
  <2>3. CASE \E w \in Workers : WorkerStep(w) \/ Sweep(w) \/ RenewByTimer(w)
    BY <2>3, SlotTyped
  <2>. QED
    BY <2>1, <2>2, <2>3 DEF Next
<1>3. ActivationsKnowTheirStep'
  <2> SUFFICES ASSUME NEW v \in Workers PROVE KnowsItsStep(v)'
    BY DEF ActivationsKnowTheirStep
  <2> USE DEF WorkerInv, ActivationsKnowTheirStep
  <2>1. CASE UNCHANGED workerVars
    BY <1>1, <2>1, StillKnows, SentinelsAssumption DEF workerVars
  <2>2. CASE UNCHANGED vars
    BY <2>1, <2>2 DEF vars
  <2>3. CASE ChainStep \/ \E j \in Jobs : Enqueue(j) \/ Lapse(j) \/ ConfirmJob(j)
    BY <2>1, <2>3, EnvironmentKeepsSlots
  <2>4. ASSUME NEW w \in Workers, WorkerStep(w) \/ Sweep(w) \/ RenewByTimer(w)
        PROVE  KnowsItsStep(v)'
    <3>1. CASE v = w
      BY <1>1, <2>4, <3>1, SlotKnows
    <3>2. CASE v # w
      BY <1>1, <2>4, <3>2, OwnSlotOnly, StillKnows, SentinelsAssumption
    <3>. QED  BY <3>1, <3>2
  <2>. QED
    BY <2>2, <2>3, <2>4 DEF Next
<1>. QED
  BY <1>1, <1>2, <1>3, JournalStep, HolderStep, CheckpointStep, OneTransactionStep DEF WorkerInv

(* The inductive invariant holds in every reachable state. *)
THEOREM WorkerInvAlways == Spec => [](StoreInv /\ WorkerInv)
<1>1. Init => StoreInv /\ WorkerInv
  BY StoreInvInit, WorkerInvInit DEF Init
<1>2. (StoreInv /\ WorkerInv) /\ [Next]_vars => (StoreInv /\ WorkerInv)'
  BY WorkerInvStep
<1>. QED
  BY <1>1, <1>2, PTL DEF Spec

(* The strengthening that the runs check as an invariant. *)
THEOREM IInvAlways == Spec => []IInv
<1>1. StoreInv /\ WorkerInv => IInv
  BY DEF StoreInv, WorkerInv, IInv, TypeOK
<1>. QED
  BY <1>1, WorkerInvAlways, PTL

(* Every variable keeps its type, for any number of jobs and activations. *)
THEOREM TypeCorrect == Spec => []TypeOK
<1>1. IInv => TypeOK
  BY DEF IInv
<1>. QED
  BY <1>1, IInvAlways, PTL

(* No activation that lost its lease adds a checkpoint to the job another   *)
(* one has taken over.                                                      *)
THEOREM LeaseFences == Spec => []HolderKnowsTheTable
<1>1. IInv => HolderKnowsTheTable
  BY DEF IInv
<1>. QED
  BY <1>1, IInvAlways, PTL

(* Checkpoint k is a settled transaction of step k. *)
THEOREM CheckpointsTrue == Spec => []CheckpointsAreTheSteps
<1>1. IInv => CheckpointsAreTheSteps
  BY DEF IInv
<1>. QED
  BY <1>1, IInvAlways, PTL

(* However often a native job changes hands, each of its steps before the   *)
(* finalization is signed once.                                             *)
THEOREM SignedOnce == Spec => []OneTransactionPerStep
<1>1. IInv => OneTransactionPerStep
  BY DEF IInv
<1>. QED
  BY <1>1, IInvAlways, PTL

(* The worker and its chain implement the store: every step is one of its    *)
(* transactions or leaves the tables alone.                                 *)
THEOREM WorkerImplementsStore == Spec => StoreSpec
<1>1. Init => StoreInit
  BY DEF Init
<1>2. WorkerInv /\ [Next]_vars => [StoreNext]_storeVars
  BY StoreStep
<1>. QED
  BY <1>1, <1>2, WorkerInvAlways, PTL DEF Spec, StoreSpec

(* Hence its jobs are never stranded, and their journals only advance. *)
THEOREM WorkerStrandsNothing == Spec => []NoStrandedJob
BY WorkerImplementsStore, NothingStranded, PTL

THEOREM WorkerOnlyAdvances == Spec => JobsOnlyAdvance
BY WorkerImplementsStore, StoreAdvances, PTL
=============================================================================
