--------------------------- MODULE RetentionStore ---------------------------
(***************************************************************************)
(* The table relay_pool_v4_executions of pending-store.ts: one row per     *)
(* pool call (callHash is the primary key), retained before the call may   *)
(* be broadcast, given a transaction hash once the node has answered, and  *)
(* released only by the retirement of an expired V7 source lock.           *)
(*                                                                         *)
(* Every function of the store that touches the table is one transaction   *)
(* that starts by taking the advisory locks of all its nullifiers in       *)
(* sorted order, so each is one atomic operator here.  A nullifier stands  *)
(* for the pair (pool, nullifier) the locks and the row's columns name,    *)
(* and the table is that of one relayer account.                           *)
(***************************************************************************)
EXTENDS FiniteSets

CONSTANTS Calls, Nullifiers, InputsOf, Hashes, NoHash

(* A call consumes one to four inputs (validatePoolV4ProofPayload). *)
ASSUME InputsAssumption == InputsOf \in [Calls -> (SUBSET Nullifiers) \ {{}}]
ASSUME NoHashAssumption == NoHash \notin Hashes

VARIABLES rowStatus,    \* "absent", "retained" or "released", per call
          rowHash       \* transaction_hash of the row, NoHash when NULL

storeVars == <<rowStatus, rowHash>>

RowStatus == {"absent", "retained", "released"}

StoreTypeOK ==
    /\ rowStatus \in [Calls -> RowStatus]
    /\ rowHash \in [Calls -> Hashes \cup {NoHash}]

StoreInit ==
    /\ rowStatus = [c \in Calls |-> "absent"]
    /\ rowHash = [c \in Calls |-> NoHash]

(* Fault: rows are compared by their whole nullifier set, as processPool-   *)
(* V3Bundle's replayKey does.                                               *)
OverlappingAsReplayKey(c) ==
    {d \in Calls : rowStatus[d] = "retained" /\ InputsOf[c] = InputsOf[d]}

(* The unreleased rows whose nullifiers overlap those of c. *)
Overlapping(c) ==
    {d \in Calls : rowStatus[d] = "retained" /\ InputsOf[c] \cap InputsOf[d] # {}}

(* retainPoolV4RelayExecution(c, reserve): the four ways it can answer. *)
IsRetired(c)  == rowStatus[c] = "released"
IsFresh(c)    == ~IsRetired(c) /\ Overlapping(c) = {}
IsPrior(c)    == ~IsRetired(c) /\ Overlapping(c) = {c}
IsConflict(c) == ~IsRetired(c) /\ Overlapping(c) \notin {{}, {c}}

(* ... with reserve, a fresh call gets its row. *)
Reserve(c) ==
    /\ IsFresh(c)
    /\ rowStatus' = [rowStatus EXCEPT ![c] = "retained"]
    /\ rowHash' = [rowHash EXCEPT ![c] = NoHash]

(* recordPoolV4RelaySubmission: its UPDATE matches a row with no hash or    *)
(* with this very hash.                                                     *)
CanRecord(c, h) == rowStatus[c] # "absent" /\ rowHash[c] \in {NoHash, h}

RecordSubmission(c, h) ==
    /\ CanRecord(c, h)
    /\ rowHash' = [rowHash EXCEPT ![c] = h]
    /\ UNCHANGED rowStatus

(* retirePayoutV7SourceLock once its verifier has answered: the row is      *)
(* released, or inserted released when there was none.                      *)
Retire(c) ==
    /\ ~IsRetired(c)
    /\ rowStatus' = [rowStatus EXCEPT ![c] = "released"]
    /\ UNCHANGED rowHash

StoreNext ==
    \E c \in Calls :
        \/ Reserve(c)
        \/ \E h \in Hashes : RecordSubmission(c, h)
        \/ Retire(c)

(* What any client of the store may do to the table. *)
StoreSpec == StoreInit /\ [][StoreNext]_storeVars

----------------------------------------------------------------------------
(* No two unreleased rows of the table share a nullifier, although the      *)
(* schema has no constraint that says so: only the advisory locks and the   *)
(* overlap query of retainPoolV4RelayExecution keep it.                     *)
FencesDisjoint ==
    \A c, d \in Calls :
        (rowStatus[c] = "retained" /\ rowStatus[d] = "retained" /\ c # d)
            => InputsOf[c] \cap InputsOf[d] = {}

(* The journal of a row is append-only: a row is never deleted, a release   *)
(* is for good, and a recorded transaction hash is never replaced.          *)
JournalOnlyGrows ==
    [][\A c \in Calls :
          /\ rowStatus[c] # "absent" => rowStatus'[c] # "absent"
          /\ rowStatus[c] = "released" => rowStatus'[c] = "released"
          /\ rowHash[c] # NoHash => rowHash'[c] = rowHash[c]]_storeVars
=============================================================================
