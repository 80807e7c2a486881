------------------------ MODULE RetentionStoreProofs ------------------------
(***************************************************************************)
(* Theorems about relay_pool_v4_executions that hold for any clients of    *)
(* its functions: the PoolV4 relay, the V7 payout worker, both at once.    *)
(***************************************************************************)
EXTENDS RetentionStore, TLAPS

(* The table's own laws, for whoever calls it. *)
LEMMA ReserveDisjoint ==
    ASSUME StoreTypeOK, FencesDisjoint, NEW c \in Calls, Reserve(c)
    PROVE  /\ FencesDisjoint'
           /\ rowStatus[c] # "retained" /\ rowStatus'[c] = "retained" /\ rowHash'[c] = NoHash
           /\ \A d \in Calls : d # c => rowStatus'[d] = rowStatus[d] /\ rowHash'[d] = rowHash[d]
<1>1. rowStatus' = [rowStatus EXCEPT ![c] = "retained"] /\ rowHash' = [rowHash EXCEPT ![c] = NoHash]
  BY DEF Reserve
<1>2. \A d \in Calls : rowStatus[d] = "retained" => InputsOf[c] \cap InputsOf[d] = {}
  BY DEF Reserve, IsFresh, Overlapping
<1>3. rowStatus[c] # "retained"
  BY <1>2, InputsAssumption
<1>4. FencesDisjoint'
  BY <1>1, <1>2 DEF FencesDisjoint, StoreTypeOK
<1> QED BY <1>1, <1>3, <1>4 DEF StoreTypeOK

LEMMA StoreTypeInit == StoreInit => StoreTypeOK
  BY DEF StoreInit, StoreTypeOK, RowStatus

LEMMA StoreTypeStep == StoreTypeOK /\ [StoreNext]_storeVars => StoreTypeOK'
<1> SUFFICES ASSUME StoreTypeOK, [StoreNext]_storeVars PROVE StoreTypeOK'
  OBVIOUS
<1>1. ASSUME NEW c \in Calls, Reserve(c) \/ Retire(c) PROVE StoreTypeOK'
  BY <1>1 DEF StoreTypeOK, Reserve, Retire, RowStatus
<1>2. ASSUME NEW c \in Calls, NEW h \in Hashes, RecordSubmission(c, h) PROVE StoreTypeOK'
  BY <1>2 DEF StoreTypeOK, RecordSubmission
<1>3. CASE UNCHANGED storeVars
  BY <1>3 DEF StoreTypeOK, storeVars
<1> QED BY <1>1, <1>2, <1>3 DEF StoreNext

(* A hash is only ever recorded on a row that exists. *)
HashHasItsRow == \A c \in Calls : rowHash[c] # NoHash => rowStatus[c] # "absent"

StoreInv == StoreTypeOK /\ FencesDisjoint /\ HashHasItsRow

LEMMA StoreInvInit == StoreInit => StoreInv
  BY StoreTypeInit DEF StoreInit, StoreInv, FencesDisjoint, HashHasItsRow

LEMMA StoreInvStep == StoreInv /\ [StoreNext]_storeVars => StoreInv'
<1> SUFFICES ASSUME StoreInv, [StoreNext]_storeVars PROVE StoreInv'
  OBVIOUS
<1>0. StoreTypeOK /\ StoreTypeOK'
  BY StoreTypeStep DEF StoreInv
<1>1. ASSUME NEW c \in Calls, Reserve(c) PROVE StoreInv'
  BY <1>0, <1>1, ReserveDisjoint DEF StoreInv, HashHasItsRow
<1>2. ASSUME NEW c \in Calls, NEW h \in Hashes, RecordSubmission(c, h) PROVE StoreInv'
  BY <1>0, <1>2 DEF RecordSubmission, CanRecord, StoreInv, StoreTypeOK, FencesDisjoint, HashHasItsRow
<1>3. ASSUME NEW c \in Calls, Retire(c) PROVE StoreInv'
  BY <1>0, <1>3 DEF Retire, StoreInv, StoreTypeOK, FencesDisjoint, HashHasItsRow
<1>4. CASE UNCHANGED storeVars
  BY <1>0, <1>4 DEF storeVars, StoreInv, FencesDisjoint, HashHasItsRow
<1> QED BY <1>1, <1>2, <1>3, <1>4 DEF StoreNext

THEOREM StoreInvAlways == StoreSpec => []StoreInv
  BY StoreInvInit, StoreInvStep, PTL DEF StoreSpec

(* Two rows in force never compete for a nullifier, whoever calls the       *)
(* functions of pending-store.ts, in whatever order.                        *)
THEOREM StoreFences == StoreSpec => []FencesDisjoint
<1>1. StoreInv => FencesDisjoint
  BY DEF StoreInv
<1> QED BY <1>1, StoreInvAlways, PTL

(* The journal is append-only for any clients: what Reserve clears was not  *)
(* there, since a fresh call has no row and a row's absence has no hash.    *)
LEMMA JournalStep ==
    StoreInv /\ [StoreNext]_storeVars =>
      [\A c \in Calls :
          /\ rowStatus[c] # "absent" => rowStatus'[c] # "absent"
          /\ rowStatus[c] = "released" => rowStatus'[c] = "released"
          /\ rowHash[c] # NoHash => rowHash'[c] = rowHash[c]]_storeVars
<1> SUFFICES ASSUME StoreInv, StoreNext, NEW c \in Calls
             PROVE  /\ rowStatus[c] # "absent" => rowStatus'[c] # "absent"
                    /\ rowStatus[c] = "released" => rowStatus'[c] = "released"
                    /\ rowHash[c] # NoHash => rowHash'[c] = rowHash[c]
  OBVIOUS
<1>1. ASSUME NEW d \in Calls, Reserve(d) PROVE rowStatus[d] = "absent"
  BY <1>1, ReserveDisjoint DEF Reserve, IsFresh, IsRetired, StoreInv, StoreTypeOK, RowStatus
<1>2. ASSUME NEW d \in Calls, Reserve(d)
      PROVE  (c = d => rowStatus[c] = "absent" /\ rowHash[c] = NoHash) /\
             (c # d => rowStatus'[c] = rowStatus[c] /\ rowHash'[c] = rowHash[c])
  BY <1>1, <1>2, ReserveDisjoint DEF StoreInv, HashHasItsRow
<1>3. ASSUME NEW d \in Calls, NEW h \in Hashes, RecordSubmission(d, h)
      PROVE  rowStatus'[c] = rowStatus[c] /\ (rowHash[c] # NoHash => rowHash'[c] = rowHash[c])
  BY <1>3 DEF RecordSubmission, CanRecord, StoreInv, StoreTypeOK
<1>4. ASSUME NEW d \in Calls, Retire(d)
      PROVE  rowHash'[c] = rowHash[c] /\ rowStatus'[c] \in {rowStatus[c], "released"}
  BY <1>4 DEF Retire, StoreInv, StoreTypeOK
<1> QED BY <1>2, <1>3, <1>4 DEF StoreNext

THEOREM StoreJournal == StoreSpec => JournalOnlyGrows
  BY StoreInvAlways, JournalStep, PTL DEF StoreSpec, JournalOnlyGrows
=============================================================================
