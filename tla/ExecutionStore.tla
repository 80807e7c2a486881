--------------------------- MODULE ExecutionStore ---------------------------
(***************************************************************************)
(* The table phase3_private.relayer_execution_payloads and its checkpoints *)
(* (execution-payload-store.ts): encrypted jobs that workers lease, renew, *)
(* checkpoint and hand back.                                               *)
(*                                                                         *)
(* A lease is a fresh random token whose hash is in the row.  A token is   *)
(* known to one activation of a worker, so the row names the activation    *)
(* (the holder) instead.  Each operator is one transaction of the code     *)
(* (withTransaction, or a single UPDATE); FOR UPDATE SKIP LOCKED makes     *)
(* concurrent acquirers skip a row that is being written, which is the     *)
(* order in which the acquirer came first.                                 *)
(***************************************************************************)
EXTENDS Naturals, Sequences, FiniteSets

CONSTANTS Jobs,
          Holders,      \* activations that may hold a lease
          NoHolder,     \* lease_token_hash IS NULL
          Hashes,       \* transaction hashes
          NumSteps,     \* length of FUNCTION_ORDER (3 in the code)
          MaxAttempts,  \* max_attempts of every job (1 to 20 in the code)
          Corrupt       \* jobs whose ciphertext does not decrypt to their payload

ASSUME LeaseAssumption == NoHolder \notin Holders
ASSUME StepsAssumption == NumSteps \in Nat \ {0} /\ MaxAttempts \in Nat \ {0}
ASSUME CorruptAssumption == Corrupt \subseteq Jobs

VARIABLES status,       \* status column, "absent" before the INSERT
          holder,       \* whose token the row has
          live,         \* leased rows with locked_until >= CURRENT_TIMESTAMP
          attempts,     \* attempt_number
          checkpoints,  \* transaction hashes of the rows of ..._checkpoints
          older         \* <<i, j>>: row i was updated before row j (ORDER BY updated_at)

storeVars == <<status, holder, live, attempts, checkpoints, older>>

Waiting  == {"queued", "failed_retryable"}
JobState == Waiting \cup {"absent", "leased", "submitted", "confirmed", "manual_review"}

StoreTypeOK ==
    /\ status \in [Jobs -> JobState]
    /\ holder \in [Jobs -> Holders \cup {NoHolder}]
    /\ live \subseteq Jobs
    /\ attempts \in [Jobs -> 0..MaxAttempts]
    /\ checkpoints \in [Jobs -> Seq(Hashes)]
    /\ older \subseteq Jobs \X Jobs

StoreInit ==
    /\ status = [j \in Jobs |-> "absent"]
    /\ holder = [j \in Jobs |-> NoHolder]
    /\ live = {}
    /\ attempts = [j \in Jobs |-> 0]
    /\ checkpoints = [j \in Jobs |-> << >>]
    /\ older = {}

----------------------------------------------------------------------------
(* Every guarded UPDATE: job_id, lease_token_hash, status = 'leased' and     *)
(* locked_until >= CURRENT_TIMESTAMP.                                       *)
Holds(w, j) == status[j] = "leased" /\ holder[j] = w /\ j \in live

(* Fault: rows are offered in the order of created_at. *)
TouchOnlyNew(j) ==
    older' = IF status[j] = "absent"
             THEN older \cup {<<i, j>> : i \in {k \in Jobs \ {j} : status[k] # "absent"}}
             ELSE older

(* updated_at = CURRENT_TIMESTAMP: the row becomes the youngest. *)
Touch(j) == older' = {p \in older : p[1] # j} \cup {<<i, j>> : i \in Jobs \ {j}}

(* The row loses its lease. *)
Release(j, s) ==
    /\ status' = [status EXCEPT ![j] = s]
    /\ holder' = [holder EXCEPT ![j] = NoHolder]
    /\ live' = live \ {j}
    /\ Touch(j)

(* enqueueRelayerOwnedOneTimeExecutionPayload: one row per attempt. *)
EnqueueJob(j) ==
    /\ status[j] = "absent"
    /\ status' = [status EXCEPT ![j] = "queued"]
    /\ Touch(j)
    /\ UNCHANGED <<holder, live, attempts, checkpoints>>

(* Leases that ended with no attempt left ... *)
Exhausted == {j \in Jobs : status[j] = "leased" /\ j \notin live /\ attempts[j] >= MaxAttempts}

(* ... and the rows an acquirer may take. *)
Candidates ==
    {j \in Jobs : attempts[j] < MaxAttempts
                  /\ (status[j] \in Waiting \/ (status[j] = "leased" /\ j \notin live))}

(* acquireRelayerOwnedOneTimeExecutionJob sends the exhausted rows to review *)
(* and leases the candidate updated longest ago.  A corrupt payload is found *)
(* inside the transaction, which commits its review and then throws.        *)
Acquire(w, j) ==
    LET dropped == Exhausted \cup ({j} \cap Corrupt)
    IN /\ j \in Candidates
       /\ \A i \in Candidates : <<j, i>> \in older \/ i = j
       /\ status' = [i \in Jobs |-> IF i \in dropped THEN "manual_review"
                                    ELSE IF i = j THEN "leased" ELSE status[i]]
       /\ holder' = [i \in Jobs |-> IF i \in dropped THEN NoHolder
                                    ELSE IF i = j THEN w ELSE holder[i]]
       /\ live' = (live \cup {j}) \ dropped
       /\ attempts' = [attempts EXCEPT ![j] = @ + 1]
       /\ Touch(j)
       /\ UNCHANGED checkpoints

(* ... and when there is no candidate it commits the reviews and returns null. *)
AcquireNone ==
    /\ Candidates = {}
    /\ status' = [i \in Jobs |-> IF i \in Exhausted THEN "manual_review" ELSE status[i]]
    /\ holder' = [i \in Jobs |-> IF i \in Exhausted THEN NoHolder ELSE holder[i]]
    /\ UNCHANGED <<live, attempts, checkpoints, older>>

(* renewRelayerOwnedOneTimeExecutionLease *)
Renew(w, j) ==
    /\ Holds(w, j)
    /\ Touch(j)
    /\ UNCHANGED <<status, holder, live, attempts, checkpoints>>

(* recordRelayerOwnedOneTimeExecutionDryRun and defer...Job: the row goes to *)
(* the back of the queue and the attempt does not count.                    *)
HandBack(w, j) ==
    /\ Holds(w, j)
    /\ Release(j, "queued")
    /\ attempts' = [attempts EXCEPT ![j] = @ - 1]
    /\ UNCHANGED checkpoints

(* Fault: the lease is not looked at. *)
CheckpointUnfenced(w, j, k, h) ==
    /\ status[j] = "leased"
    /\ Len(checkpoints[j]) = k - 1
    /\ checkpoints' = [checkpoints EXCEPT ![j] = Append(@, h)]
    /\ UNCHANGED <<status, holder, live, attempts, older>>

(* recordRelayerOwnedOneTimeExecutionTransactionConfirmed, step k from 1. *)
Checkpoint(w, j, k, h) ==
    /\ Holds(w, j)
    /\ k \in 1..NumSteps
    /\ Len(checkpoints[j]) = k - 1
    /\ checkpoints' = [checkpoints EXCEPT ![j] = Append(@, h)]
    /\ UNCHANGED <<status, holder, live, attempts, older>>

(* Fault: a retryable failure is queued again whatever the attempts. *)
FailUncounted(w, j, retryable) ==
    /\ Holds(w, j)
    /\ Release(j, IF retryable THEN "failed_retryable" ELSE "manual_review")
    /\ UNCHANGED <<attempts, checkpoints>>

(* recordRelayerOwnedOneTimeExecutionFailed; ...PayloadInvalid is the same  *)
(* without the retry.                                                       *)
FailJob(w, j, retryable) ==
    /\ Holds(w, j)
    /\ Release(j, IF retryable /\ attempts[j] < MaxAttempts THEN "failed_retryable"
                  ELSE "manual_review")
    /\ UNCHANGED <<attempts, checkpoints>>

(* recordRelayerOwnedOneTimeExecutionSubmitted *)
Submit(w, j, hashes) ==
    /\ Holds(w, j)
    /\ Len(hashes) = NumSteps /\ hashes = checkpoints[j]
    /\ Release(j, "submitted")
    /\ UNCHANGED <<attempts, checkpoints>>

(* Fault: the status is not in the WHERE clause. *)
ConfirmUnread(j, h) ==
    /\ Len(checkpoints[j]) = NumSteps /\ checkpoints[j][NumSteps] = h
    /\ status' = [status EXCEPT ![j] = "confirmed"]
    /\ Touch(j)
    /\ UNCHANGED <<holder, live, attempts, checkpoints>>

(* confirmRelayerOwnedOneTimeExecution *)
Confirm(j, h) ==
    /\ status[j] = "submitted" /\ checkpoints[j][NumSteps] = h
    /\ status' = [status EXCEPT ![j] = "confirmed"]
    /\ Touch(j)
    /\ UNCHANGED <<holder, live, attempts, checkpoints>>

(* locked_until passes.  The acquirer computes it from its own clock, so it *)
(* may have passed at once.                                                 *)
LeaseEnds(j) ==
    /\ j \in live
    /\ live' = live \ {j}
    /\ UNCHANGED <<status, holder, attempts, checkpoints, older>>

StoreNext ==
    \/ AcquireNone
    \/ \E j \in Jobs :
        \/ EnqueueJob(j) \/ LeaseEnds(j)
        \/ \E h \in Hashes : Confirm(j, h)
        \/ \E w \in Holders :
            \/ Acquire(w, j) \/ Renew(w, j) \/ HandBack(w, j)
            \/ \E retryable \in BOOLEAN : FailJob(w, j, retryable)
            \/ \E k \in 1..NumSteps, h \in Hashes : Checkpoint(w, j, k, h)
            \/ Submit(w, j, checkpoints[j])

(* What any client of the store may do to the tables. *)
StoreSpec == StoreInit /\ [][StoreNext]_storeVars

----------------------------------------------------------------------------
(* A waiting job can still be acquired: none is parked as retryable with its *)
(* attempts used up, where no query would ever pick it again; and a leased  *)
(* job has counted its attempt, so that handing it back never takes one it  *)
(* did not spend (GREATEST(attempt_number - 1, 0) never clamps).            *)
NoStrandedJob ==
    \A j \in Jobs :
        /\ status[j] \in Waiting => attempts[j] < MaxAttempts
        /\ status[j] = "leased" => attempts[j] > 0

(* A submitted job has all its steps checkpointed, a waiting or leased one   *)
(* no more than there are.                                                  *)
SubmittedIsComplete ==
    \A j \in Jobs :
        /\ Len(checkpoints[j]) <= NumSteps
        /\ status[j] \in {"submitted", "confirmed"} => Len(checkpoints[j]) = NumSteps

(* The journal of a job only advances: checkpoints are appended and never   *)
(* replaced, a confirmation from outside closes only what was submitted (no *)
(* job that is leased or under review), and a job that reached an end is    *)
(* not executed again.                                                      *)
JobsOnlyAdvance ==
    [][\A j \in Jobs :
          /\ Len(checkpoints'[j]) >= Len(checkpoints[j])
          /\ \A k \in 1..Len(checkpoints[j]) : checkpoints'[j][k] = checkpoints[j][k]
          /\ status[j] = "submitted" => status'[j] \in {"submitted", "confirmed"}
          /\ status'[j] = "confirmed" => status[j] \in {"submitted", "confirmed"}
          /\ status[j] \in {"confirmed", "manual_review"} =>
                status'[j] = status[j] /\ checkpoints'[j] = checkpoints[j]]_storeVars
=============================================================================
