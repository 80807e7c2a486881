-------------------------- MODULE PoolV4RelayProofs --------------------------
(***************************************************************************)
(* Theorems about the PoolV4 relay for any number of calls, bundles,       *)
(* threads, processes, transaction hashes and crashes.                     *)
(***************************************************************************)
EXTENDS PoolV4Relay, RetentionStoreProofs, FiniteSetTheorems

----------------------------------------------------------------------------
(* Type correctness *)

(* The end of an execution, in the finally block and after it, leaves the   *)
(* threads' state well typed: the code's exits from processPoolV4Bundle.    *)
LEMMA EndTyped ==
    ASSUME ThreadTypeOK, NEW t \in Threads, pc[t] \in Active,
           NEW verdict \in Note, NEW where \in {"mark", "reset"}, End(t, verdict, where)
    PROVE  ThreadTypeOK'
<1>1. pc' \in [Threads -> Place] /\ queue' \in [Threads -> SUBSET Bundles]
  BY DEF ThreadTypeOK, End, Goto, Place, Active
<1>2. job' \in [Threads -> Job]
  <2>1. NoJob \in Job
    BY DEF NoJob, Job, Note
  <2>2. [job[t] EXCEPT !.hash = NoHash, !.verdict = verdict] \in Job
    <3>1. job[t] \in Job
      BY DEF ThreadTypeOK
    <3> QED BY <3>1 DEF Job
  <2>3. \/ job' = [job EXCEPT ![t] = NoJob]
        \/ job' = [job EXCEPT ![t] = [job[t] EXCEPT !.hash = NoHash, !.verdict = verdict]]
    BY DEF End
  <2> QED BY <2>1, <2>2, <2>3 DEF ThreadTypeOK
<1>3. \A u \in Threads : pc'[u] \notin {"idle", "next"} => job'[u].bundle \in Bundles
  BY DEF ThreadTypeOK, End, Goto, NoJob, Active, Job
<1>4. inFlight' \in [Procs -> SUBSET Nullifiers]
  BY ThreadsAssumption DEF ThreadTypeOK, End, LeaveFlight
<1> QED BY <1>1, <1>2, <1>3, <1>4 DEF ThreadTypeOK

LEMMA FailTyped ==
    ASSUME ThreadTypeOK, NEW t \in Threads, pc[t] \in Active, Fail(t)
    PROVE  ThreadTypeOK'
  BY EndTyped DEF Fail, Note

(* The identity of the call a working thread processes. *)
LEMMA CallTyped ==
    ASSUME ThreadTypeOK, NEW t \in Threads, pc[t] \notin {"idle", "next"}
    PROVE  job[t].bundle \in Bundles /\ Call(t) \in Calls /\ Inputs(t) \subseteq Nullifiers
  BY BundlesAssumption, InputsAssumption DEF ThreadTypeOK, Call, Inputs

LEMMA TypeInit == Init => TypeOK
  BY NoHashAssumption DEF Init, TypeOK, StoreInit, StoreTypeOK, RowStatus, InboxTypeOK, Row, NoRow, RowState,
     Note, ThreadTypeOK, Place, Active, Job, NoJob, ChainTypeOK, TxState

LEMMA TypeStep == TypeOK /\ [Next]_vars => TypeOK'
<1> SUFFICES ASSUME TypeOK, [Next]_vars PROVE TypeOK'
  OBVIOUS
<1> USE DEF inboxVars, threadVars, chainVars, storeVars
<1>0. /\ NoJob \in Job
      /\ Active \subseteq Place /\ {"idle", "next", "mark", "reset"} \subseteq Place
  BY DEF NoJob, Job, Note, Active, Place
<1>1. ASSUME NEW b \in Bundles, Enqueue(b) PROVE TypeOK'
  <2>1. [inbox[b] EXCEPT !.status = "pending", !.due = TRUE] \in Row
    <3>1. inbox[b] \in Row
      BY DEF TypeOK, InboxTypeOK
    <3> QED BY <3>1 DEF Row, RowState
  <2>2. Cardinality({d \in Bundles : inbox[d].status # "absent"}) \in Nat
    BY BundlesAssumption, FS_Subset, FS_CardinalityType
  <2>3. InboxTypeOK'
    BY <1>1, <2>1, <2>2 DEF TypeOK, InboxTypeOK, Enqueue
  <2> QED BY <1>1, <2>3 DEF TypeOK, StoreTypeOK, ThreadTypeOK, ChainTypeOK, Enqueue
<1>2. ASSUME NEW b \in Bundles, BecomeDue(b) PROVE TypeOK'
  <2>1. InboxTypeOK'
    BY <1>2 DEF TypeOK, InboxTypeOK, BecomeDue, Row
  <2> QED BY <1>2, <2>1 DEF TypeOK, StoreTypeOK, ThreadTypeOK, ChainTypeOK, BecomeDue
<1>3. ASSUME NEW t \in Threads, ClaimBatch(t) PROVE TypeOK'
  <2> PICK S \in SUBSET Bundles :
        /\ inbox' = [b \in Bundles |->
                       IF b \in S THEN [inbox[b] EXCEPT !.status = "processing", !.due = FALSE,
                                                        !.note = "none"]
                                  ELSE inbox[b]]
        /\ queue' = [queue EXCEPT ![t] = S]
    BY <1>3 DEF ClaimBatch, DuePending
  <2>1. \A b \in Bundles : inbox'[b] \in Row
    <3>1. \A b \in Bundles : inbox[b] \in Row
      BY DEF TypeOK, InboxTypeOK
    <3> QED BY <3>1 DEF Row, RowState, Note
  <2>2. InboxTypeOK'
    BY <1>3, <2>1 DEF TypeOK, InboxTypeOK, ClaimBatch
  <2>3. ThreadTypeOK'
    BY <1>3 DEF TypeOK, ThreadTypeOK, ClaimBatch, Goto, Place
  <2> QED BY <1>3, <2>2, <2>3 DEF TypeOK, StoreTypeOK, ChainTypeOK, ClaimBatch
<1>4. ASSUME NEW t \in Threads, NEW b \in Bundles, OpenRecord(t, b) \/ DeliverByWaku(t, b)
      PROVE  TypeOK'
  <2>1. /\ [NoJob EXCEPT !.bundle = b, !.source = "inbox"] \in Job
        /\ [NoJob EXCEPT !.bundle = b, !.source = "waku"] \in Job
    BY <1>0 DEF Job
  <2>2. job' \in [Threads -> Job]
    BY <1>4, <2>1 DEF TypeOK, ThreadTypeOK, OpenRecord, DeliverByWaku
  <2>3. job'[t].bundle = b /\ \A u \in Threads : u # t => job'[u] = job[u] /\ pc'[u] = pc[u]
    <3>1. /\ [NoJob EXCEPT !.bundle = b, !.source = "inbox"].bundle = b
          /\ [NoJob EXCEPT !.bundle = b, !.source = "waku"].bundle = b
      BY DEF NoJob
    <3>2. \E j \in Job : j.bundle = b /\ job' = [job EXCEPT ![t] = j]
      BY <1>4, <2>1, <3>1 DEF OpenRecord, DeliverByWaku
    <3>3. \E place : pc' = [pc EXCEPT ![t] = place]
      BY <1>4 DEF OpenRecord, DeliverByWaku, Goto
    <3> QED BY <3>2, <3>3 DEF TypeOK, ThreadTypeOK
  <2>4. pc' \in [Threads -> Place] /\ queue' \in [Threads -> SUBSET Bundles]
    BY <1>4 DEF TypeOK, ThreadTypeOK, OpenRecord, DeliverByWaku, Goto, Place, Active
  <2>5. inFlight' \in [Procs -> SUBSET Nullifiers]
    <3>1. InputsOf[CallOf[b]] \subseteq Nullifiers
      BY BundlesAssumption, InputsAssumption
    <3> QED BY <1>4, <3>1, ThreadsAssumption DEF TypeOK, ThreadTypeOK, OpenRecord, DeliverByWaku
  <2>6. ThreadTypeOK'
    BY <2>2, <2>3, <2>4, <2>5 DEF TypeOK, ThreadTypeOK
  <2> QED BY <1>4, <2>6 DEF TypeOK, StoreTypeOK, InboxTypeOK, ChainTypeOK, OpenRecord, DeliverByWaku
<1>5. ASSUME NEW t \in Threads, EndBatch(t) PROVE TypeOK'
  <2>1. ThreadTypeOK'
    BY <1>0, <1>5 DEF TypeOK, ThreadTypeOK, EndBatch, Abort, Goto
  <2> QED BY <1>5, <2>1 DEF TypeOK, StoreTypeOK, InboxTypeOK, ChainTypeOK, EndBatch
<1>6. ASSUME NEW t \in Threads, Mark(t) \/ ResetClaim(t) PROVE TypeOK'
  <2> DEFINE b == job[t].bundle
  <2>1. b \in Bundles /\ job[t] \in Job /\ inbox[b] \in Row
    BY <1>6 DEF TypeOK, ThreadTypeOK, InboxTypeOK, Mark, ResetClaim
  <2>2. /\ [inbox[b] EXCEPT !.status = "processed", !.note = job[t].verdict] \in Row
        /\ [inbox[b] EXCEPT !.status = "pending", !.due = FALSE, !.note = "none"] \in Row
        /\ [job[t] EXCEPT !.verdict = "none"] \in Job
    BY <2>1 DEF Row, Job, RowState, Note
  <2>3. InboxTypeOK'
    BY <1>6, <2>1, <2>2 DEF TypeOK, InboxTypeOK, Mark, ResetClaim
  <2>4. job' \in [Threads -> Job]
    BY <1>0, <1>6, <2>2 DEF TypeOK, ThreadTypeOK, Mark, ResetClaim, Abort
  <2>5. pc' \in [Threads -> Place] /\ queue' \in [Threads -> SUBSET Bundles]
    BY <1>6 DEF TypeOK, ThreadTypeOK, Mark, ResetClaim, Abort, Goto, Place
  <2>6. \A u \in Threads : pc'[u] \notin {"idle", "next"} => job'[u].bundle \in Bundles
    <3>1. \/ pc'[t] \in {"idle", "next"}
          \/ job'[t] = [job[t] EXCEPT !.verdict = "none"]
      BY <1>6 DEF TypeOK, ThreadTypeOK, Mark, ResetClaim, Abort, Goto
    <3>2. \A u \in Threads : u # t => job'[u] = job[u] /\ pc'[u] = pc[u]
      BY <1>6 DEF TypeOK, ThreadTypeOK, Mark, ResetClaim, Abort, Goto
    <3> QED BY <2>1, <3>1, <3>2 DEF TypeOK, ThreadTypeOK, Job
  <2>7. ThreadTypeOK'
    BY <1>6, <2>4, <2>5, <2>6 DEF TypeOK, ThreadTypeOK, Mark, ResetClaim
  <2> QED BY <1>6, <2>3, <2>7 DEF TypeOK, StoreTypeOK, ChainTypeOK, Mark, ResetClaim
<1>7. ASSUME NEW t \in Threads, Probe(t) PROVE TypeOK'
  <2>1. ThreadTypeOK'
    <3>1. CASE Goto(t, "ready") /\ UNCHANGED <<queue, job, inFlight>>
      BY <1>7, <3>1 DEF TypeOK, ThreadTypeOK, Probe, Goto, Place, Active
    <3>2. CASE Goto(t, "record") /\ job' = [job EXCEPT ![t].hash = rowHash[Call(t)]]
               /\ UNCHANGED <<queue, inFlight>>
      <4>1. job[t] \in Job /\ rowHash[Call(t)] \in Hashes \cup {NoHash}
        BY <1>7, CallTyped DEF TypeOK, StoreTypeOK, ThreadTypeOK, Probe
      <4>2. [job[t] EXCEPT !.hash = rowHash[Call(t)]] \in Job
        BY <4>1 DEF Job
      <4> QED BY <1>7, <3>2, <4>1, <4>2 DEF TypeOK, ThreadTypeOK, Probe, Goto, Place, Active, Job
    <3>3. CASE Fail(t)
      BY <1>7, <3>3, FailTyped DEF TypeOK, Probe, Active
    <3> QED BY <1>7, <3>1, <3>2, <3>3 DEF Probe
  <2> QED BY <1>7, <2>1 DEF TypeOK, StoreTypeOK, InboxTypeOK, ChainTypeOK, Probe
<1>8. ASSUME NEW t \in Threads, Ready(t) PROVE TypeOK'
  <2>1. ThreadTypeOK'
    <3>1. CASE Fail(t) \/ End(t, "expired", "mark")
      BY <1>8, <3>1, FailTyped, EndTyped DEF TypeOK, Ready, Active, Note
    <3>2. CASE Goto(t, "reserve") /\ UNCHANGED <<queue, job, inFlight>>
      BY <1>8, <3>2 DEF TypeOK, ThreadTypeOK, Ready, Goto, Place, Active
    <3> QED BY <1>8, <3>1, <3>2 DEF Ready
  <2> QED BY <1>8, <2>1 DEF TypeOK, StoreTypeOK, InboxTypeOK, ChainTypeOK, Ready
<1>9. ASSUME NEW t \in Threads, ReserveRow(t) PROVE TypeOK'
  <2>1. ThreadTypeOK'
    <3>1. CASE Fail(t)
      BY <1>9, <3>1, FailTyped DEF TypeOK, ReserveRow, Active
    <3>2. CASE Goto(t, "send") /\ UNCHANGED <<queue, job, inFlight>>
      BY <1>9, <3>2 DEF TypeOK, ThreadTypeOK, ReserveRow, Goto, Place, Active
    <3> QED BY <1>9, <3>1, <3>2 DEF ReserveRow
  <2>2. StoreTypeOK'
    BY <1>9 DEF TypeOK, StoreTypeOK, ReserveRow, Reserve, RowStatus
  <2> QED BY <1>9, <2>1, <2>2 DEF TypeOK, InboxTypeOK, ChainTypeOK, ReserveRow
<1>10. ASSUME NEW t \in Threads, NEW h \in Hashes, Send(t, h) PROVE TypeOK'
  <2>1. ThreadTypeOK'
    <3>1. CASE Fail(t)
      BY <1>10, <3>1, FailTyped DEF TypeOK, Send, Active
    <3>2. CASE Goto(t, "recordSent") /\ job' = [job EXCEPT ![t].hash = h]
               /\ UNCHANGED <<queue, inFlight>>
      <4>1. job[t] \in Job /\ [job[t] EXCEPT !.hash = h] \in Job
        BY DEF TypeOK, ThreadTypeOK, Job
      <4> QED BY <1>10, <3>2, <4>1 DEF TypeOK, ThreadTypeOK, Send, Goto, Place, Active, Job
    <3> QED BY <1>10, <3>1, <3>2 DEF Send
  <2>2. ChainTypeOK'
    <3>1. Call(t) \in Calls
      BY <1>10, CallTyped DEF TypeOK, Send
    <3> QED BY <1>10, <3>1 DEF TypeOK, ChainTypeOK, Send, TxState
  <2> QED BY <1>10, <2>1, <2>2 DEF TypeOK, StoreTypeOK, InboxTypeOK, Send
<1>11. ASSUME NEW t \in Threads, RecordHash(t) PROVE TypeOK'
  <2>1. ThreadTypeOK'
    <3>1. CASE Fail(t)
      BY <1>11, <3>1, FailTyped DEF TypeOK, RecordHash, Active
    <3>2. CASE Goto(t, IF pc[t] = "recordSent" THEN "receipt" ELSE "canonical")
               /\ UNCHANGED <<queue, job, inFlight>>
      BY <1>11, <3>2 DEF TypeOK, ThreadTypeOK, RecordHash, Goto, Place, Active
    <3> QED BY <1>11, <3>1, <3>2 DEF RecordHash
  <2>2. job[t].hash \in Hashes \cup {NoHash} /\ job[t].bundle \in Bundles /\ Call(t) \in Calls
    BY <1>11, CallTyped DEF TypeOK, ThreadTypeOK, Job, RecordHash
  <2>3. StoreTypeOK'
    BY <1>11, <2>2 DEF TypeOK, StoreTypeOK, RecordHash, RecordSubmission
  <2>4. InboxTypeOK'
    BY <1>11, <2>2 DEF TypeOK, InboxTypeOK, RecordHash, Row
  <2> QED BY <1>11, <2>1, <2>3, <2>4 DEF TypeOK, ChainTypeOK, RecordHash
<1>12. ASSUME NEW t \in Threads, Receipt(t) PROVE TypeOK'
  <2>1. ThreadTypeOK'
    BY <1>12 DEF TypeOK, ThreadTypeOK, Receipt, Goto, Place, Active
  <2> QED BY <1>12, <2>1 DEF TypeOK, StoreTypeOK, InboxTypeOK, ChainTypeOK, Receipt
<1>13. ASSUME NEW t \in Threads, Canonical(t) \/ Throw(t) PROVE TypeOK'
  <2>1. \/ Fail(t)
        \/ End(t, IF txState[job[t].hash] = "success" THEN "ok" ELSE "reverted", "mark")
    BY <1>13 DEF Canonical, Throw
  <2>2. pc[t] \in Active
    BY <1>13 DEF Canonical, Throw, Active
  <2>3. ThreadTypeOK'
    BY <2>1, <2>2, FailTyped, EndTyped DEF TypeOK, Note
  <2> QED BY <1>13, <2>3 DEF TypeOK, StoreTypeOK, InboxTypeOK, ChainTypeOK, Canonical, Throw
<1>14. ASSUME NEW p \in Procs, Crash(p) PROVE TypeOK'
  <2>1. ThreadTypeOK'
    BY <1>0, <1>14 DEF TypeOK, ThreadTypeOK, Crash, Place
  <2> QED BY <1>14, <2>1, BoundsAssumption DEF TypeOK, StoreTypeOK, InboxTypeOK, ChainTypeOK, Crash
<1>15. ASSUME NEW c \in Calls, Expire(c) PROVE TypeOK'
  BY <1>15 DEF TypeOK, StoreTypeOK, InboxTypeOK, ThreadTypeOK, ChainTypeOK, Expire
<1>16. CASE ChainStep
  <2>1. ChainTypeOK'
    BY <1>16 DEF TypeOK, ChainTypeOK, ChainStep, Mine, Reorganise, Finalise, ForeignSpend, TxState
  <2> QED BY <1>16, <2>1 DEF TypeOK, StoreTypeOK, InboxTypeOK, ThreadTypeOK, ChainStep, Mine, Reorganise,
        Finalise, ForeignSpend
<1>17. CASE UNCHANGED vars
  BY <1>17 DEF TypeOK, StoreTypeOK, InboxTypeOK, ThreadTypeOK, ChainTypeOK, vars
<1> QED BY <1>1, <1>2, <1>3, <1>4, <1>5, <1>6, <1>7, <1>8, <1>9, <1>10, <1>11, <1>12, <1>13, <1>14,
          <1>15, <1>16, <1>17 DEF Next, ThreadStep, BundleStep

(* Every reachable state is well typed, for every value of the constants:   *)
(* no exit of pollRelayInbox or processPoolV4Bundle leaves a thread working *)
(* on no bundle.                                                            *)
THEOREM TypeCorrect == Spec => []TypeOK
  BY TypeInit, TypeStep, PTL DEF Spec

----------------------------------------------------------------------------
(* The fence *)

Remembering == {"recordSent", "receipt", "record", "canonical"}

LEMMA IInvInit == Init => IInv
<1> SUFFICES ASSUME Init PROVE IInv
  OBVIOUS
<1>1. TypeOK
  BY TypeInit
<1>2. FencesDisjoint /\ SendersOwnTheirRow /\ ThreadsRememberTheirCall
  BY DEF Init, StoreInit, FencesDisjoint, SendersOwnTheirRow, ThreadsRememberTheirCall
<1>3. BroadcastsAreRetained /\ OneTransactionPerCall
  BY DEF Init, BroadcastsAreRetained, OneTransactionPerCall, Sent
<1>4. RecordedHashIsTheCalls
  BY DEF Init, StoreInit, NoRow, RecordedHashIsTheCalls
<1> QED BY <1>1, <1>2, <1>3, <1>4 DEF IInv

(* A step that changes neither the table nor what was broadcast, and moves  *)
(* threads only where they promise nothing or with what they remembered.    *)
LEMMA QuietStep ==
    ASSUME IInv, TypeOK', UNCHANGED <<rowStatus, rowHash, txCall>>,
           \A h \in Hashes : Sent(h)' <=> Sent(h),
           \A b \in Bundles : inbox'[b].hash = inbox[b].hash,
           \A u \in Threads :
              \/ pc'[u] = pc[u] /\ job'[u] = job[u]
              \/ pc'[u] \notin Remembering \cup {"send"}
              \/ pc[u] \in Remembering /\ pc'[u] \in Remembering /\ job'[u] = job[u]
    PROVE  IInv'
<1>1. \A u \in Threads : pc'[u] = "send" => pc[u] = "send" /\ Call(u)' = Call(u)
  BY DEF Remembering, Call
<1>2. \A u \in Threads : pc'[u] \in Remembering =>
        pc[u] \in Remembering /\ job'[u] = job[u] /\ Call(u)' = Call(u)
  BY DEF Remembering, Call
<1>3. FencesDisjoint' /\ BroadcastsAreRetained' /\ OneTransactionPerCall'
  BY DEF IInv, FencesDisjoint, BroadcastsAreRetained, OneTransactionPerCall
<1>4. SendersOwnTheirRow'
  BY <1>1 DEF IInv, SendersOwnTheirRow
<1>5. ThreadsRememberTheirCall'
  BY <1>2 DEF IInv, ThreadsRememberTheirCall, Remembering
<1>6. RecordedHashIsTheCalls'
  BY DEF IInv, RecordedHashIsTheCalls
<1> QED BY <1>3, <1>4, <1>5, <1>6 DEF IInv

(* Where the end of an execution takes the thread, and nobody else. *)
LEMMA EndQuiet ==
    ASSUME TypeOK, NEW t \in Threads, NEW verdict, NEW where \in {"mark", "reset"},
           End(t, verdict, where)
    PROVE  \A u \in Threads :
              \/ pc'[u] = pc[u] /\ job'[u] = job[u]
              \/ pc'[u] \notin Remembering \cup {"send"}
<1>1. pc'[t] \in {"mark", "reset", "idle"}
  BY DEF End, Goto, TypeOK, ThreadTypeOK
<1>2. \A u \in Threads : u # t => pc'[u] = pc[u] /\ job'[u] = job[u]
  BY DEF End, Goto, TypeOK, ThreadTypeOK
<1> QED BY <1>1, <1>2 DEF Remembering

LEMMA SentIsItsCalls ==
    ASSUME IInv, NEW h \in Hashes
    PROVE  /\ Sent(h) => txCall[h] \in Calls /\ rowStatus[txCall[h]] = "retained"
           /\ ~Sent(h) => txCall[h] = NoCall
  BY DEF IInv, BroadcastsAreRetained

LEMMA ProbeKeepsIInv ==
    ASSUME IInv, TypeOK', NEW t \in Threads, Probe(t)
    PROVE  IInv'
<1> USE DEF inboxVars, threadVars, chainVars, storeVars
<1>1. UNCHANGED <<rowStatus, rowHash, txCall, inbox>> /\ \A h \in Hashes : Sent(h)' <=> Sent(h)
  BY DEF Probe, Sent
<1>2. CASE Fail(t)
  BY <1>1, <1>2, EndQuiet, QuietStep DEF Fail, IInv
<1>3. CASE Goto(t, "ready") /\ UNCHANGED <<queue, job, inFlight>>
  <2>1. \A u \in Threads :
          \/ pc'[u] = pc[u] /\ job'[u] = job[u]
          \/ pc'[u] \notin Remembering \cup {"send"}
    BY <1>3 DEF Goto, Remembering, IInv, TypeOK, ThreadTypeOK
  <2> QED BY <1>1, <2>1, QuietStep
<1>4. CASE /\ rowHash[Call(t)] # NoHash /\ Goto(t, "record")
           /\ job' = [job EXCEPT ![t].hash = rowHash[Call(t)]]
  <2>1. job[t] \in Job /\ Call(t) \in Calls
    BY CallTyped DEF IInv, TypeOK, ThreadTypeOK, Probe
  <2>2. pc'[t] = "record" /\ job'[t].hash = rowHash[Call(t)] /\ job'[t].bundle = job[t].bundle
    BY <1>4, <2>1 DEF Goto, Job, IInv, TypeOK, ThreadTypeOK
  <2>3. \A u \in Threads : u # t => pc'[u] = pc[u] /\ job'[u] = job[u]
    BY <1>4 DEF Goto, IInv, TypeOK, ThreadTypeOK
  <2>4. \A u \in Threads : Call(u)' = Call(u)
    BY <2>2, <2>3 DEF Call
  <2>5. SendersOwnTheirRow'
    <3>1. \A u \in Threads : pc'[u] = "send" => pc[u] = "send"
      BY <2>2, <2>3
    <3> QED BY <1>1, <2>4, <3>1 DEF IInv, SendersOwnTheirRow
  <2>6. ThreadsRememberTheirCall'
    <3>1. rowHash[Call(t)] \in Hashes /\ txCall[rowHash[Call(t)]] = Call(t)
      BY <1>4, <2>1 DEF IInv, TypeOK, StoreTypeOK, RecordedHashIsTheCalls
    <3> QED BY <1>1, <2>2, <2>3, <2>4, <3>1 DEF IInv, ThreadsRememberTheirCall
  <2>7. FencesDisjoint' /\ BroadcastsAreRetained' /\ OneTransactionPerCall' /\ RecordedHashIsTheCalls'
    BY <1>1 DEF IInv, FencesDisjoint, BroadcastsAreRetained, OneTransactionPerCall, RecordedHashIsTheCalls
  <2> QED BY <2>5, <2>6, <2>7 DEF IInv
<1> QED BY <1>2, <1>3, <1>4 DEF Probe

LEMMA ReserveRowKeepsIInv ==
    ASSUME IInv, TypeOK', NEW t \in Threads, ReserveRow(t)
    PROVE  IInv'
<1> USE DEF inboxVars, threadVars, chainVars, storeVars
<1>1. UNCHANGED <<txCall, inbox>> /\ \A h \in Hashes : Sent(h)' <=> Sent(h)
  BY DEF ReserveRow, Sent
<1>2. CASE UNCHANGED storeVars /\ Fail(t)
  BY <1>1, <1>2, EndQuiet, QuietStep DEF Fail, IInv
<1>3. CASE Reserve(Call(t))
  <2> DEFINE c == Call(t)
  <2>1. c \in Calls
    BY CallTyped DEF IInv, TypeOK, ReserveRow
  <2>2. /\ FencesDisjoint'
        /\ rowStatus[c] # "retained" /\ rowStatus'[c] = "retained" /\ rowHash'[c] = NoHash
        /\ \A d \in Calls : d # c => rowStatus'[d] = rowStatus[d] /\ rowHash'[d] = rowHash[d]
    BY <1>3, <2>1, ReserveDisjoint DEF IInv, TypeOK
  <2>3. \A h \in Hashes : txCall[h] # c
    BY <2>1, <2>2, SentIsItsCalls, SentinelsAssumption
  <2>4. rowHash[c] = NoHash
    BY <2>1, <2>3 DEF IInv, TypeOK, StoreTypeOK, RecordedHashIsTheCalls
  <2>5. rowHash' = rowHash
    BY <1>3, <2>1, <2>4 DEF Reserve, IInv, TypeOK, StoreTypeOK
  <2>6. BroadcastsAreRetained'
    BY <1>1, <2>2 DEF IInv, BroadcastsAreRetained
  <2>7. OneTransactionPerCall' /\ RecordedHashIsTheCalls'
    BY <1>1, <2>5 DEF IInv, OneTransactionPerCall, RecordedHashIsTheCalls
  <2>8. \A u \in Threads : u # t => pc'[u] = pc[u] /\ job'[u] = job[u] /\ Call(u)' = Call(u)
    BY <1>3 DEF ReserveRow, Fail, End, Goto, Call, IInv, TypeOK, ThreadTypeOK
  <2>9. \/ pc'[t] = "send" /\ Call(t)' = c
        \/ pc'[t] \notin Remembering \cup {"send"}
    BY <1>3 DEF ReserveRow, Fail, End, Goto, Call, Remembering, IInv, TypeOK, ThreadTypeOK
  <2>10. \A u \in Threads : pc[u] = "send" => rowStatus[Call(u)] = "retained" /\ Call(u) \in Calls
    BY CallTyped DEF IInv, TypeOK, SendersOwnTheirRow
  <2>11. SendersOwnTheirRow'
    <3> SUFFICES ASSUME NEW u \in Threads, pc'[u] = "send"
                 PROVE  /\ rowStatus'[Call(u)'] = "retained"
                        /\ \A h \in Hashes : txCall[h] # Call(u)'
                        /\ \A v \in Threads : (v # u /\ pc'[v] = "send") => Call(v)' # Call(u)'
      BY <1>1 DEF SendersOwnTheirRow
    <3>1. CASE u = t
      BY <3>1, <2>2, <2>3, <2>8, <2>9, <2>10
    <3>2. CASE u # t
      BY <3>2, <2>2, <2>8, <2>9, <2>10 DEF IInv, SendersOwnTheirRow
    <3> QED BY <3>1, <3>2
  <2>12. ThreadsRememberTheirCall'
    BY <1>1, <2>8, <2>9 DEF IInv, ThreadsRememberTheirCall, Remembering
  <2> QED BY <2>2, <2>6, <2>7, <2>11, <2>12 DEF IInv
<1> QED BY <1>2, <1>3 DEF ReserveRow

LEMMA SendKeepsIInv ==
    ASSUME IInv, TypeOK', NEW t \in Threads, NEW h \in Hashes, Send(t, h)
    PROVE  IInv'
<1> USE DEF inboxVars, threadVars, chainVars, storeVars
<1> DEFINE c == Call(t)
<1>1. c \in Calls /\ pc[t] = "send" /\ ~Sent(h) /\ UNCHANGED <<rowStatus, rowHash, inbox>>
  BY CallTyped DEF IInv, TypeOK, Send, Sent
<1>2. /\ rowStatus[c] = "retained" /\ \A g \in Hashes : txCall[g] # c
      /\ \A u \in Threads : (u # t /\ pc[u] = "send") => Call(u) # c
  BY <1>1 DEF IInv, SendersOwnTheirRow
<1>3. /\ txCall'[h] = c /\ Sent(h)'
      /\ \A g \in Hashes : g # h => txCall'[g] = txCall[g] /\ (Sent(g)' <=> Sent(g))
  BY DEF Send, Sent, IInv, TypeOK, ChainTypeOK
<1>4. txCall[h] = NoCall
  BY <1>1, SentIsItsCalls
<1>5. \A u \in Threads : u # t => pc'[u] = pc[u] /\ job'[u] = job[u] /\ Call(u)' = Call(u)
  BY DEF Send, Fail, End, Goto, Call, IInv, TypeOK, ThreadTypeOK
<1>6. \/ pc'[t] = "recordSent" /\ Call(t)' = c /\ job'[t].hash = h
      \/ pc'[t] \notin Remembering \cup {"send"}
  <2>1. job[t] \in Job
    BY DEF IInv, TypeOK, ThreadTypeOK
  <2> QED BY <2>1 DEF Send, Fail, End, Goto, Call, Remembering, Job, IInv, TypeOK, ThreadTypeOK
<1>7. FencesDisjoint'
  BY <1>1 DEF IInv, FencesDisjoint
<1>8. BroadcastsAreRetained'
  BY <1>1, <1>2, <1>3 DEF IInv, BroadcastsAreRetained
<1>9. OneTransactionPerCall'
  BY <1>2, <1>3 DEF IInv, OneTransactionPerCall
<1>10. SendersOwnTheirRow'
  BY <1>1, <1>2, <1>3, <1>5, <1>6 DEF IInv, SendersOwnTheirRow
<1>11. ThreadsRememberTheirCall'
  <2> SUFFICES ASSUME NEW u \in Threads, pc'[u] \in Remembering
               PROVE  job'[u].hash \in Hashes /\ txCall'[job'[u].hash] = Call(u)'
    BY DEF ThreadsRememberTheirCall, Remembering
  <2>1. CASE u = t
    BY <2>1, <1>3, <1>6 DEF Remembering
  <2>2. CASE u # t
    <3>1. Call(u) \in Calls
      BY <2>2, <1>5, CallTyped DEF IInv, TypeOK, Remembering
    <3> QED BY <2>2, <3>1, <1>3, <1>4, <1>5, SentinelsAssumption DEF IInv, ThreadsRememberTheirCall, Remembering
  <2> QED BY <2>1, <2>2
<1>12. RecordedHashIsTheCalls'
  <2>1. \A d \in Calls : rowHash[d] # NoHash => rowHash[d] \in Hashes /\ txCall'[rowHash[d]] = d
    BY <1>3, <1>4, SentinelsAssumption DEF IInv, TypeOK, StoreTypeOK, RecordedHashIsTheCalls
  <2> QED BY <1>1, <2>1 DEF IInv, RecordedHashIsTheCalls
<1> QED BY <1>7, <1>8, <1>9, <1>10, <1>11, <1>12 DEF IInv

LEMMA RecordHashKeepsIInv ==
    ASSUME IInv, TypeOK', NEW t \in Threads, RecordHash(t)
    PROVE  IInv'
<1> USE DEF inboxVars, threadVars, chainVars, storeVars
<1> DEFINE c == Call(t)
           h == job[t].hash
<1>1. c \in Calls /\ h \in Hashes /\ txCall[h] = c
  BY CallTyped DEF IInv, TypeOK, RecordHash, ThreadsRememberTheirCall
<1>2. /\ rowHash[c] \in {NoHash, h} /\ rowHash'[c] = h
      /\ \A d \in Calls : d # c => rowHash'[d] = rowHash[d]
  BY <1>1 DEF RecordHash, RecordSubmission, CanRecord, IInv, TypeOK, StoreTypeOK
<1>3. UNCHANGED <<rowStatus, txCall>> /\ \A g \in Hashes : Sent(g)' <=> Sent(g)
  BY DEF RecordHash, RecordSubmission, Sent
<1>4. \A u \in Threads : u # t => pc'[u] = pc[u] /\ job'[u] = job[u] /\ Call(u)' = Call(u)
  BY DEF RecordHash, Fail, End, Goto, Call, IInv, TypeOK, ThreadTypeOK
<1>5. \/ pc'[t] \in Remembering /\ job'[t] = job[t] /\ Call(t)' = c
      \/ pc'[t] \notin Remembering \cup {"send"}
  BY DEF RecordHash, Fail, End, Goto, Call, Remembering, IInv, TypeOK, ThreadTypeOK
<1>6. FencesDisjoint' /\ BroadcastsAreRetained' /\ OneTransactionPerCall'
  BY <1>3 DEF IInv, FencesDisjoint, BroadcastsAreRetained, OneTransactionPerCall
<1>7. SendersOwnTheirRow'
  <2>1. \A u \in Threads : pc'[u] = "send" => u # t
    BY <1>5 DEF Remembering
  <2> QED BY <1>3, <1>4, <2>1 DEF IInv, SendersOwnTheirRow
<1>8. ThreadsRememberTheirCall'
  BY <1>1, <1>3, <1>4, <1>5 DEF IInv, ThreadsRememberTheirCall, Remembering
<1>9. RecordedHashIsTheCalls'
  <2>1. \A d \in Calls : rowHash'[d] # NoHash => txCall'[rowHash'[d]] = d
    BY <1>1, <1>2, <1>3 DEF IInv, RecordedHashIsTheCalls
  <2>2. \A b \in Bundles : inbox'[b].hash # NoHash => inbox'[b].hash = rowHash'[CallOf[b]]
    <3> SUFFICES ASSUME NEW b \in Bundles, inbox'[b].hash # NoHash
                 PROVE  inbox'[b].hash = rowHash'[CallOf[b]]
      OBVIOUS
    <3>1. job[t].bundle \in Bundles /\ CallOf[job[t].bundle] = c /\ CallOf[b] \in Calls
      BY BundlesAssumption DEF IInv, TypeOK, ThreadTypeOK, RecordHash, Call
    <3>2. inbox[b] \in Row /\ inbox[job[t].bundle] \in Row
      BY <3>1 DEF IInv, TypeOK, InboxTypeOK
    <3>3. \/ inbox'[b].hash = inbox[b].hash
          \/ b = job[t].bundle /\ inbox'[b].hash = h
      BY <3>1, <3>2 DEF RecordHash, IInv, TypeOK, InboxTypeOK, Row
    <3>4. CASE inbox'[b].hash = inbox[b].hash
      <4>1. inbox[b].hash = rowHash[CallOf[b]]
        BY <3>4 DEF IInv, RecordedHashIsTheCalls
      <4> QED BY <3>1, <3>4, <4>1, <1>2
    <3> QED BY <1>2, <3>1, <3>3, <3>4
  <2> QED BY <2>1, <2>2 DEF RecordedHashIsTheCalls
<1> QED BY <1>6, <1>7, <1>8, <1>9 DEF IInv

LEMMA IInvStep == IInv /\ [Next]_vars => IInv'
<1> SUFFICES ASSUME IInv, [Next]_vars PROVE IInv'
  OBVIOUS
<1> USE DEF inboxVars, threadVars, chainVars, storeVars
<1>0. TypeOK /\ TypeOK'
  BY TypeStep DEF IInv
<1>1. ASSUME NEW b \in Bundles, Enqueue(b) \/ BecomeDue(b) PROVE IInv'
  <2>1. inbox[b] \in Row
    BY <1>0 DEF TypeOK, InboxTypeOK
  <2>2. \A d \in Bundles : inbox'[d].hash = inbox[d].hash
    <3>1. /\ [inbox[b] EXCEPT !.status = "pending", !.due = TRUE].hash = inbox[b].hash
          /\ [inbox[b] EXCEPT !.due = TRUE].hash = inbox[b].hash
      BY <2>1 DEF Row
    <3>2. \E r : r.hash = inbox[b].hash /\ inbox' = [inbox EXCEPT ![b] = r]
      BY <1>1, <3>1 DEF Enqueue, BecomeDue
    <3> QED BY <1>0, <3>2 DEF TypeOK, InboxTypeOK
  <2> QED BY <1>0, <1>1, <2>2, QuietStep DEF Enqueue, BecomeDue, Sent
<1>2. ASSUME NEW t \in Threads, ClaimBatch(t) PROVE IInv'
  <2>1. \A d \in Bundles : inbox[d] \in Row
    BY <1>0 DEF TypeOK, InboxTypeOK
  <2>2. \A d \in Bundles : inbox'[d].hash = inbox[d].hash
    <3>1. \A d \in Bundles :
            [inbox[d] EXCEPT !.status = "processing", !.due = FALSE, !.note = "none"].hash
              = inbox[d].hash
      BY <2>1 DEF Row
    <3> QED BY <1>2, <3>1 DEF ClaimBatch
  <2>3. \A u \in Threads : \/ pc'[u] = pc[u] /\ job'[u] = job[u]
                           \/ pc'[u] \notin Remembering \cup {"send"}
    BY <1>0, <1>2 DEF ClaimBatch, Goto, Remembering, TypeOK, ThreadTypeOK
  <2> QED BY <1>0, <1>2, <2>2, <2>3, QuietStep DEF ClaimBatch, Sent
<1>3. ASSUME NEW t \in Threads,
             EndBatch(t) \/ \E b \in Bundles : OpenRecord(t, b) \/ DeliverByWaku(t, b)
      PROVE  IInv'
  <2>1. \A u \in Threads : \/ pc'[u] = pc[u] /\ job'[u] = job[u]
                           \/ pc'[u] \notin Remembering \cup {"send"}
    <3>1. \E j, place : /\ job' = [job EXCEPT ![t] = j] /\ pc' = [pc EXCEPT ![t] = place]
                        /\ place \in {"idle", "probe", "reset"}
      BY <1>3 DEF EndBatch, Abort, OpenRecord, DeliverByWaku, Goto
    <3> QED BY <1>0, <3>1 DEF Remembering, TypeOK, ThreadTypeOK
  <2> QED BY <1>0, <1>3, <2>1, QuietStep DEF EndBatch, OpenRecord, DeliverByWaku, Sent
<1>4. ASSUME NEW t \in Threads, Mark(t) \/ ResetClaim(t) PROVE IInv'
  <2>1. job[t].bundle \in Bundles /\ inbox[job[t].bundle] \in Row
    BY <1>0, <1>4 DEF TypeOK, ThreadTypeOK, InboxTypeOK, Mark, ResetClaim
  <2>2. \A d \in Bundles : inbox'[d].hash = inbox[d].hash
    <3>1. /\ [inbox[job[t].bundle] EXCEPT !.status = "processed", !.note = job[t].verdict].hash
               = inbox[job[t].bundle].hash
          /\ [inbox[job[t].bundle] EXCEPT !.status = "pending", !.due = FALSE, !.note = "none"].hash
               = inbox[job[t].bundle].hash
      BY <2>1 DEF Row
    <3> QED BY <1>0, <1>4, <3>1 DEF Mark, ResetClaim, TypeOK, InboxTypeOK
  <2>3. \A u \in Threads : \/ pc'[u] = pc[u] /\ job'[u] = job[u]
                           \/ pc'[u] \notin Remembering \cup {"send"}
    BY <1>0, <1>4 DEF Mark, ResetClaim, Abort, Goto, Remembering, TypeOK, ThreadTypeOK
  <2> QED BY <1>0, <1>4, <2>2, <2>3, QuietStep DEF Mark, ResetClaim, Sent
<1>5. ASSUME NEW t \in Threads, Ready(t) \/ Receipt(t) PROVE IInv'
  <2>1. \A u \in Threads :
           \/ pc'[u] = pc[u] /\ job'[u] = job[u]
           \/ pc'[u] \notin Remembering \cup {"send"}
           \/ pc[u] \in Remembering /\ pc'[u] \in Remembering /\ job'[u] = job[u]
    <3>1. CASE Fail(t) \/ End(t, "expired", "mark")
      BY <1>0, <3>1, EndQuiet DEF Fail
    <3>2. CASE Goto(t, "reserve") /\ UNCHANGED job
      BY <1>0, <3>2 DEF Goto, Remembering, TypeOK, ThreadTypeOK
    <3>3. CASE pc[t] = "receipt" /\ Goto(t, "record") /\ UNCHANGED job
      BY <1>0, <3>3 DEF Goto, Remembering, TypeOK, ThreadTypeOK
    <3> QED BY <1>5, <3>1, <3>2, <3>3 DEF Ready, Receipt
  <2> QED BY <1>0, <1>5, <2>1, QuietStep DEF Ready, Receipt, Sent
<1>6. ASSUME NEW t \in Threads, Canonical(t) \/ Throw(t) PROVE IInv'
  <2>1. \/ Fail(t)
        \/ End(t, IF txState[job[t].hash] = "success" THEN "ok" ELSE "reverted", "mark")
    BY <1>6 DEF Canonical, Throw
  <2>2. \A u \in Threads : \/ pc'[u] = pc[u] /\ job'[u] = job[u]
                           \/ pc'[u] \notin Remembering \cup {"send"}
    BY <1>0, <2>1, EndQuiet DEF Fail
  <2> QED BY <1>0, <1>6, <2>2, QuietStep DEF Canonical, Throw, Sent
<1>7. ASSUME NEW p \in Procs, Crash(p) PROVE IInv'
  <2>1. \A u \in Threads : \/ pc'[u] = pc[u] /\ job'[u] = job[u]
                           \/ pc'[u] \notin Remembering \cup {"send"}
    BY <1>0, <1>7 DEF Crash, Remembering, TypeOK, ThreadTypeOK
  <2> QED BY <1>0, <1>7, <2>1, QuietStep DEF Crash, Sent
<1>8. ASSUME NEW c \in Calls, Expire(c) PROVE IInv'
  BY <1>0, <1>8, QuietStep DEF Expire, Sent
<1>9. CASE ChainStep
  <2>1. \A h \in Hashes : Sent(h)' <=> Sent(h)
    BY <1>0, <1>9 DEF ChainStep, Mine, Reorganise, Finalise, ForeignSpend, Mined, Sent, TypeOK, ChainTypeOK
  <2> QED BY <1>0, <1>9, <2>1, QuietStep DEF ChainStep, Mine, Reorganise, Finalise, ForeignSpend
<1>10. CASE UNCHANGED vars
  BY <1>0, <1>10, QuietStep DEF vars, Sent
<1> QED BY <1>0, <1>1, <1>2, <1>3, <1>4, <1>5, <1>6, <1>7, <1>8, <1>9, <1>10, ProbeKeepsIInv,
          ReserveRowKeepsIInv, SendKeepsIInv, RecordHashKeepsIInv DEF Next, ThreadStep, BundleStep

THEOREM IInvAlways == Spec => []IInv
  BY IInvInit, IInvStep, PTL DEF Spec

(* "A lost send response never authorizes another broadcast": no input is   *)
(* ever broadcast twice, with any number of bot processes.                  *)
THEOREM BroadcastOnce == Spec => []OneBroadcastPerInput
<1>1. IInv => OneBroadcastPerInput
  BY DEF IInv, OneBroadcastPerInput, OneTransactionPerCall, BroadcastsAreRetained, FencesDisjoint
<1> QED BY <1>1, IInvAlways, PTL

(* "Retention precedes submission." *)
THEOREM RetainedFirst == Spec => []RetentionPrecedesSubmission
<1>1. IInv => RetentionPrecedesSubmission
  BY DEF IInv, RetentionPrecedesSubmission, BroadcastsAreRetained
<1> QED BY <1>1, IInvAlways, PTL

(* The rows in force compete for no nullifier, and the hash a row records   *)
(* is that of a transaction that carries its call.                          *)
THEOREM TableIsTrue == Spec => [](FencesDisjoint /\ RecordedHashIsTheCalls)
<1>1. IInv => FencesDisjoint /\ RecordedHashIsTheCalls
  BY DEF IInv
<1> QED BY <1>1, IInvAlways, PTL

----------------------------------------------------------------------------
(* The relay implements the fence *)

Held   == {c \in Calls : rowStatus[c] = "retained"}
Handed == {pair \in Hashes \X Calls : Sent(pair[1]) /\ txCall[pair[1]] = pair[2]}

LEMMA FenceInitial == Init => Fence!FenceInit
  BY DEF Init, StoreInit, Fence!FenceInit, Sent

(* The insertion of a row takes the call's fence. *)
LEMMA ReservationTakes ==
    ASSUME IInv, NEW t \in Threads, Reserve(Call(t)), Call(t) \in Calls, UNCHANGED <<txCall, txState>>
    PROVE  Fence!Take(Call(t))
<1>1. \A d \in Held : InputsOf[Call(t)] \cap InputsOf[d] = {}
  BY DEF Reserve, IsFresh, Overlapping, Held
<1>2. Held' = Held \cup {Call(t)}
  BY DEF Reserve, Held, IInv, TypeOK, StoreTypeOK
<1>3. Handed' = Handed
  BY DEF Handed, Sent
<1> QED BY <1>1, <1>2, <1>3 DEF Fence!Take, Held, Handed

(* sendTransaction hands the call over, for the first time. *)
LEMMA SendHandsOver ==
    ASSUME IInv, NEW t \in Threads, NEW h \in Hashes, Send(t, h)
    PROVE  Fence!HandOver(Call(t), h)
<1> USE DEF storeVars
<1>1. Call(t) \in Calls /\ ~Sent(h) /\ UNCHANGED rowStatus
  BY CallTyped DEF IInv, TypeOK, Send, Sent
<1>2. rowStatus[Call(t)] = "retained" /\ \A g \in Hashes : txCall[g] # Call(t)
  BY DEF IInv, SendersOwnTheirRow, Send
<1>3. Call(t) \in Held /\ Held' = Held
  BY <1>1, <1>2 DEF Held
<1>4. \A pair \in Handed : pair[1] # h /\ pair[2] # Call(t)
  BY <1>1, <1>2 DEF Handed
<1>5. /\ txCall'[h] = Call(t) /\ Sent(h)'
      /\ \A g \in Hashes : g # h => txCall'[g] = txCall[g] /\ (Sent(g)' <=> Sent(g))
  BY DEF Send, Sent, IInv, TypeOK, ChainTypeOK
<1>6. Handed' = Handed \cup {<<h, Call(t)>>}
  <2>1. ASSUME NEW g \in Hashes, NEW c \in Calls
        PROVE  <<g, c>> \in Handed' <=> (<<g, c>> \in Handed \/ <<g, c>> = <<h, Call(t)>>)
    BY <2>1, <1>1, <1>5 DEF Handed
  <2>2. Handed' \subseteq Hashes \X Calls /\ Handed \cup {<<h, Call(t)>>} \subseteq Hashes \X Calls
    BY <1>1 DEF Handed
  <2> QED BY <2>1, <2>2
<1> QED BY <1>3, <1>4, <1>6 DEF Fence!HandOver, Held, Handed

LEMMA FenceStep == IInv /\ [Next]_vars => [Fence!FenceNext]_(Fence!fenceVars)
<1> SUFFICES ASSUME IInv, [Next]_vars PROVE [Fence!FenceNext]_(Fence!fenceVars)
  OBVIOUS
<1> USE DEF inboxVars, threadVars, chainVars, storeVars
<1>1. ASSUME UNCHANGED <<rowStatus, txCall>>, \A h \in Hashes : Sent(h)' <=> Sent(h)
      PROVE  UNCHANGED Fence!fenceVars
  BY <1>1 DEF Fence!fenceVars, Sent
<1>2. ASSUME NEW b \in Bundles, Enqueue(b) \/ BecomeDue(b) PROVE UNCHANGED Fence!fenceVars
  BY <1>1, <1>2 DEF Enqueue, BecomeDue, Sent
<1>3. ASSUME NEW t \in Threads,
             \/ ClaimBatch(t) \/ EndBatch(t) \/ Mark(t) \/ ResetClaim(t)
             \/ \E b \in Bundles : OpenRecord(t, b) \/ DeliverByWaku(t, b)
      PROVE  UNCHANGED Fence!fenceVars
  BY <1>1, <1>3 DEF ClaimBatch, EndBatch, Mark, ResetClaim, OpenRecord, DeliverByWaku, Sent
<1>4. ASSUME NEW t \in Threads, \/ Probe(t) \/ Ready(t) \/ Receipt(t) \/ Canonical(t) \/ Throw(t)
                                \/ RecordHash(t)
      PROVE  UNCHANGED Fence!fenceVars
  BY <1>1, <1>4 DEF Probe, Ready, Receipt, Canonical, Throw, RecordHash, RecordSubmission, Sent
<1>5. ASSUME NEW t \in Threads, ReserveRow(t) PROVE [Fence!FenceNext]_(Fence!fenceVars)
  <2>1. Call(t) \in Calls
    BY <1>5, CallTyped DEF IInv, TypeOK, ReserveRow
  <2>2. CASE Reserve(Call(t))
    <3>1. UNCHANGED <<txCall, txState>>
      BY <1>5 DEF ReserveRow
    <3>2. Fence!Take(Call(t))
      BY <2>1, <2>2, <3>1, ReservationTakes
    <3>3. \E c \in Calls : Fence!Take(c)
      BY <2>1, <3>2 DEF Fence!Take
    <3> QED BY <3>3 DEF Fence!FenceNext
  <2>3. CASE UNCHANGED storeVars
    BY <1>1, <1>5, <2>3 DEF ReserveRow, Sent
  <2> QED BY <1>5, <2>2, <2>3 DEF ReserveRow
<1>6. ASSUME NEW t \in Threads, NEW h \in Hashes, Send(t, h) PROVE Fence!FenceNext
  <2>1. Call(t) \in Calls
    BY <1>6, CallTyped DEF IInv, TypeOK, Send
  <2> QED BY <1>6, <2>1, SendHandsOver DEF Fence!FenceNext
<1>7. ASSUME NEW p \in Procs, Crash(p) PROVE UNCHANGED Fence!fenceVars
  BY <1>1, <1>7 DEF Crash, Sent
<1>8. ASSUME NEW c \in Calls, Expire(c) PROVE UNCHANGED Fence!fenceVars
  BY <1>1, <1>8 DEF Expire, Sent
<1>9. CASE ChainStep
  <2>1. \A h \in Hashes : Sent(h)' <=> Sent(h)
    BY <1>9 DEF ChainStep, Mine, Reorganise, Finalise, ForeignSpend, Mined, Sent, IInv, TypeOK, ChainTypeOK
  <2> QED BY <1>1, <1>9, <2>1 DEF ChainStep, Mine, Reorganise, Finalise, ForeignSpend
<1>10. CASE UNCHANGED vars
  BY <1>1, <1>10 DEF vars, Sent
<1> QED BY <1>2, <1>3, <1>4, <1>5, <1>6, <1>7, <1>8, <1>9, <1>10 DEF Next, ThreadStep, BundleStep

(* Every behaviour of the relay, crashes, lost answers and all, is one of   *)
(* the abstract fence: disjoint fences, one hand-over each.                 *)
THEOREM RelayImplementsFence == Spec => ImplementsFence
  BY FenceInitial, FenceStep, IInvAlways, PTL DEF Spec, ImplementsFence, Fence!FenceSpec

----------------------------------------------------------------------------
(* The relay is a client of the table *)

LEMMA RelayStepIsStoreStep == IInv /\ [Next]_vars => [StoreNext]_storeVars
<1> SUFFICES ASSUME IInv, [Next]_vars PROVE [StoreNext]_storeVars
  OBVIOUS
<1>1. ASSUME NEW t \in Threads, ReserveRow(t) PROVE [StoreNext]_storeVars
  <2>1. Call(t) \in Calls
    BY <1>1, CallTyped DEF IInv, TypeOK, ReserveRow
  <2> QED BY <1>1, <2>1 DEF ReserveRow, StoreNext
<1>2. ASSUME NEW t \in Threads, RecordHash(t) PROVE [StoreNext]_storeVars
  <2>1. Call(t) \in Calls /\ job[t].hash \in Hashes
    BY <1>2, CallTyped DEF IInv, TypeOK, RecordHash, ThreadsRememberTheirCall
  <2> QED BY <1>2, <2>1 DEF RecordHash, StoreNext
<1>3. ASSUME NEW t \in Threads,
             \/ ClaimBatch(t) \/ EndBatch(t) \/ Mark(t) \/ ResetClaim(t) \/ Throw(t)
             \/ Probe(t) \/ Ready(t) \/ Receipt(t) \/ Canonical(t)
             \/ \E h \in Hashes : Send(t, h)
             \/ \E b \in Bundles : OpenRecord(t, b) \/ DeliverByWaku(t, b)
      PROVE  UNCHANGED storeVars
  BY <1>3 DEF ClaimBatch, EndBatch, Mark, ResetClaim, Throw, Probe, Ready, Receipt, Canonical, Send,
     OpenRecord, DeliverByWaku
<1>4. ASSUME \/ \E b \in Bundles : Enqueue(b) \/ BecomeDue(b)
             \/ \E q \in Procs : Crash(q)
             \/ \E c \in Calls : Expire(c)
             \/ ChainStep
             \/ UNCHANGED vars
      PROVE  UNCHANGED storeVars
  BY <1>4 DEF Enqueue, BecomeDue, Crash, Expire, ChainStep, Mine, Reorganise, Finalise, ForeignSpend, vars
<1> QED BY <1>1, <1>2, <1>3, <1>4 DEF Next, ThreadStep, BundleStep

(* The relay only does to the table what its functions allow, so the table  *)
(* stays a journal: no row disappears, no release is undone, no recorded    *)
(* hash is replaced.                                                        *)
THEOREM RelayKeepsJournal == Spec => JournalOnlyGrows
<1>1. Init => StoreInit
  BY DEF Init
<1>2. Spec => StoreSpec
  BY <1>1, RelayStepIsStoreStep, IInvAlways, PTL DEF Spec, StoreSpec
<1> QED BY <1>2, StoreJournal
----------------------------------------------------------------------------
(* The inputs in flight *)

(* A claim takes due pending rows, and nothing else changes hands.          *)
LEMMA ClaimTakes ==
    ASSUME NEW t \in Threads, ClaimBatch(t)
    PROVE  \E S \in SUBSET DuePending :
              /\ inbox' = [b \in Bundles |->
                             IF b \in S THEN [inbox[b] EXCEPT !.status = "processing", !.due = FALSE,
                                                              !.note = "none"]
                                        ELSE inbox[b]]
              /\ queue' = [queue EXCEPT ![t] = S]
<1>1. PICK S \in (SUBSET DuePending) \ {{}} :
        /\ Cardinality(S) = BatchLimit \/ (S = DuePending /\ Cardinality(S) < BatchLimit)
        /\ \A b \in S, d \in DuePending \ S : arrival[b] < arrival[d]
        /\ inbox' = [b \in Bundles |->
                        IF b \in S THEN [inbox[b] EXCEPT !.status = "processing", !.due = FALSE,
                                                         !.note = "none"]
                                   ELSE inbox[b]]
        /\ queue' = [queue EXCEPT ![t] = S]
  BY Zenon DEF ClaimBatch
<1>2. S \in SUBSET DuePending
  OBVIOUS
<1> QED BY <1>1, <1>2, Zenon

(* What a step of a thread leaves alone: the memory of every other thread.  *)
LEMMA ThreadStepIsLocal ==
    ASSUME TypeOK, NEW t \in Threads, ThreadStep(t), NEW u \in Threads, u # t
    PROVE  /\ pc'[u] = pc[u] /\ queue'[u] = queue[u] /\ job'[u] = job[u]
           /\ Call(u)' = Call(u) /\ Inputs(u)' = Inputs(u)
<1>1. ASSUME NEW place, Goto(t, place) PROVE pc'[u] = pc[u]
  BY <1>1 DEF Goto, TypeOK, ThreadTypeOK
<1>2. ASSUME UNCHANGED <<queue, job>> PROVE queue'[u] = queue[u] /\ job'[u] = job[u]
  BY <1>2
<1>3. ASSUME NEW verdict, NEW where, End(t, verdict, where)
      PROVE  pc'[u] = pc[u] /\ queue'[u] = queue[u] /\ job'[u] = job[u]
  BY <1>3 DEF End, Goto, TypeOK, ThreadTypeOK
<1>4. ASSUME Abort(t) PROVE pc'[u] = pc[u] /\ queue'[u] = queue[u] /\ job'[u] = job[u]
  BY <1>4 DEF Abort, Goto, TypeOK, ThreadTypeOK
<1>5. pc'[u] = pc[u] /\ queue'[u] = queue[u] /\ job'[u] = job[u]
  <2>1. CASE ClaimBatch(t) \/ Mark(t) \/ ResetClaim(t) \/ EndBatch(t)
    <3>1. CASE ClaimBatch(t)
      <4>1. PICK S \in SUBSET DuePending : queue' = [queue EXCEPT ![t] = S]
        BY <3>1, ClaimTakes, Zenon
      <4>2. Goto(t, "next") /\ job' = job
        BY <3>1, Zenon DEF ClaimBatch
      <4> QED BY <4>1, <4>2 DEF Goto, TypeOK, ThreadTypeOK
    <3>2. CASE Mark(t) \/ ResetClaim(t)
      BY <3>2, <1>1, <1>4 DEF Mark, ResetClaim, TypeOK, ThreadTypeOK
    <3> QED BY <2>1, <3>1, <3>2, <1>4 DEF EndBatch
  <2>2. CASE \E b \in Bundles : OpenRecord(t, b) \/ DeliverByWaku(t, b)
    BY <2>2 DEF OpenRecord, DeliverByWaku, Goto, TypeOK, ThreadTypeOK
  <2>3. CASE Probe(t) \/ Ready(t) \/ ReserveRow(t) \/ Throw(t)
    BY <2>3, <1>1, <1>3 DEF Probe, Ready, ReserveRow, Throw, Fail, TypeOK, ThreadTypeOK
  <2>4. CASE RecordHash(t) \/ Receipt(t) \/ Canonical(t) \/ \E h \in Hashes : Send(t, h)
    BY <2>4, <1>1, <1>3 DEF RecordHash, Receipt, Canonical, Send, Fail, TypeOK, ThreadTypeOK
  <2> QED BY <2>1, <2>2, <2>3, <2>4 DEF ThreadStep, BundleStep
<1> QED BY <1>5 DEF Call, Inputs

(* InFlightIsExact, nullifier by nullifier. *)
Holding(p, n) == \E u \in Threads : ProcOf[u] = p /\ pc[u] \in Active /\ n \in Inputs(u)

FlightIsHeld ==
    /\ \A p \in Procs, n \in Nullifiers : n \in inFlight[p] <=> Holding(p, n)
    /\ \A t, u \in Threads :
          (t # u /\ ProcOf[t] = ProcOf[u] /\ pc[t] \in Active /\ pc[u] \in Active)
              => Inputs(t) \cap Inputs(u) = {}

LEMMA FlightByMember == TypeOK => (InFlightIsExact <=> FlightIsHeld)
<1> SUFFICES ASSUME TypeOK PROVE InFlightIsExact <=> FlightIsHeld
  OBVIOUS
<1>1. ASSUME NEW u \in Threads, pc[u] \in Active PROVE Inputs(u) \subseteq Nullifiers
  BY <1>1, CallTyped DEF TypeOK, Active
<1>2. ASSUME NEW p \in Procs
      PROVE  inFlight[p] = UNION {Inputs(t) : t \in {u \in Threads : ProcOf[u] = p /\ pc[u] \in Active}}
               <=> \A n \in Nullifiers : n \in inFlight[p] <=> Holding(p, n)
  <2> DEFINE held == UNION {Inputs(t) : t \in {u \in Threads : ProcOf[u] = p /\ pc[u] \in Active}}
  <2>1. held \subseteq Nullifiers /\ inFlight[p] \subseteq Nullifiers
    BY <1>1 DEF TypeOK, ThreadTypeOK
  <2>2. \A n : n \in held <=> Holding(p, n)
    BY DEF Holding
  <2> QED BY <2>1, <2>2
<1> QED BY <1>2 DEF InFlightIsExact, FlightIsHeld

(* A thread that was in no execution enters one whose inputs are free.      *)
LEMMA EnterFlight ==
    ASSUME TypeOK, FlightIsHeld, NEW t \in Threads, pc[t] \notin Active,
           \A u \in Threads : u # t => pc'[u] = pc[u] /\ Inputs(u)' = Inputs(u),
           Inputs(t)' \cap inFlight[ProcOf[t]] = {}, Inputs(t)' \subseteq Nullifiers,
           pc'[t] \in Active,
           inFlight' = [inFlight EXCEPT ![ProcOf[t]] = @ \cup Inputs(t)']
    PROVE  FlightIsHeld'
<1>1. /\ inFlight'[ProcOf[t]] = inFlight[ProcOf[t]] \cup Inputs(t)'
      /\ \A p \in Procs : p # ProcOf[t] => inFlight'[p] = inFlight[p]
  BY ThreadsAssumption DEF TypeOK, ThreadTypeOK
<1>2. ASSUME NEW p \in Procs, NEW n \in Nullifiers PROVE n \in inFlight'[p] <=> Holding(p, n)'
  <2>1. n \in inFlight[p] <=> Holding(p, n)
    BY DEF FlightIsHeld
  <2>2. Holding(p, n)' <=> (Holding(p, n) \/ (ProcOf[t] = p /\ n \in Inputs(t)'))
    BY DEF Holding
  <2> QED BY <1>1, <2>1, <2>2
<1>3. ASSUME NEW u \in Threads, u # t, ProcOf[u] = ProcOf[t], pc[u] \in Active
      PROVE  Inputs(u) \cap Inputs(t)' = {}
  <2>1. Inputs(u) \subseteq Nullifiers
    BY <1>3, CallTyped DEF TypeOK, Active
  <2>2. \A n \in Inputs(u) : n \in inFlight[ProcOf[t]]
    BY <1>3, <2>1, ThreadsAssumption DEF FlightIsHeld, Holding
  <2> QED BY <2>2
<1>4. ASSUME NEW v \in Threads, NEW u \in Threads, v # u, ProcOf[v] = ProcOf[u],
             pc'[v] \in Active, pc'[u] \in Active
      PROVE  Inputs(v)' \cap Inputs(u)' = {}
  <2>1. CASE v # t /\ u # t
    BY <1>4, <2>1 DEF FlightIsHeld
  <2>2. CASE v = t
    BY <1>4, <2>2, <1>3
  <2>3. CASE u = t
    BY <1>4, <2>3, <1>3
  <2> QED BY <2>1, <2>2, <2>3
<1> QED BY <1>2, <1>4 DEF FlightIsHeld

(* The finally block takes a thread's inputs out, and nobody else's.        *)
LEMMA QuitFlight ==
    ASSUME TypeOK, FlightIsHeld, NEW t \in Threads, pc[t] \in Active,
           \A u \in Threads : u # t => pc'[u] = pc[u] /\ Inputs(u)' = Inputs(u),
           pc'[t] \notin Active, LeaveFlight(t)
    PROVE  FlightIsHeld'
<1>1. /\ inFlight'[ProcOf[t]] = inFlight[ProcOf[t]] \ Inputs(t)
      /\ \A p \in Procs : p # ProcOf[t] => inFlight'[p] = inFlight[p]
  BY ThreadsAssumption DEF TypeOK, ThreadTypeOK, LeaveFlight
<1>2. ASSUME NEW p \in Procs, NEW n \in Nullifiers PROVE n \in inFlight'[p] <=> Holding(p, n)'
  <2>1. n \in inFlight[p] <=> Holding(p, n)
    BY DEF FlightIsHeld
  <2>2. Holding(p, n)' <=>
          \E u \in Threads : u # t /\ ProcOf[u] = p /\ pc[u] \in Active /\ n \in Inputs(u)
    BY DEF Holding
  <2>3. CASE p # ProcOf[t]
    BY <1>1, <2>1, <2>2, <2>3 DEF Holding
  <2>4. CASE p = ProcOf[t] /\ n \in Inputs(t)
    BY <1>1, <2>2, <2>4 DEF FlightIsHeld
  <2>5. CASE p = ProcOf[t] /\ n \notin Inputs(t)
    BY <1>1, <2>1, <2>2, <2>5 DEF Holding
  <2> QED BY <2>3, <2>4, <2>5
<1>3. \A v, u \in Threads :
         (v # u /\ ProcOf[v] = ProcOf[u] /\ pc'[v] \in Active /\ pc'[u] \in Active)
             => Inputs(v)' \cap Inputs(u)' = {}
  BY DEF FlightIsHeld
<1> QED BY <1>2, <1>3 DEF FlightIsHeld

LEMMA StayInFlight ==
    ASSUME FlightIsHeld, UNCHANGED inFlight,
           \A u \in Threads : /\ pc'[u] \in Active <=> pc[u] \in Active
                              /\ pc[u] \in Active => Inputs(u)' = Inputs(u)
    PROVE  FlightIsHeld'
<1>1. \A p, n : Holding(p, n)' <=> Holding(p, n)
  BY DEF Holding
<1> QED BY <1>1 DEF FlightIsHeld

(* Where the exits of an execution lead: out of it, with its inputs.        *)
LEMMA EndLeaves ==
    ASSUME TypeOK, NEW t \in Threads, NEW verdict, NEW where \in {"mark", "reset"},
           End(t, verdict, where)
    PROVE  LeaveFlight(t) /\ pc'[t] \notin Active
  BY DEF End, Goto, Active, TypeOK, ThreadTypeOK

(* A step inside an execution that does not end it keeps its bundle.        *)
LEMMA MoveKeepsInputs ==
    ASSUME TypeOK, NEW t \in Threads, pc[t] \in Active, NEW place \in Active, Goto(t, place),
           \/ UNCHANGED job
           \/ \E h \in Hashes \cup {NoHash} : job' = [job EXCEPT ![t].hash = h]
    PROVE  pc'[t] = place /\ Inputs(t)' = Inputs(t) /\ Call(t)' = Call(t)
             /\ job'[t].bundle = job[t].bundle /\ job'[t].source = job[t].source
<1>1. job[t] \in Job
  BY DEF TypeOK, ThreadTypeOK
<1>2. job'[t].bundle = job[t].bundle /\ job'[t].source = job[t].source
  BY <1>1 DEF TypeOK, ThreadTypeOK, Job
<1> QED BY <1>2 DEF Goto, Inputs, Call, TypeOK, ThreadTypeOK

LEMMA FlightInit == Init => FlightIsHeld
  BY DEF Init, FlightIsHeld, Holding, Active

LEMMA FlightStep == TypeOK /\ FlightIsHeld /\ [Next]_vars => FlightIsHeld'
<1> SUFFICES ASSUME TypeOK, FlightIsHeld, [Next]_vars PROVE FlightIsHeld'
  OBVIOUS
<1> USE DEF inboxVars, threadVars, chainVars
<1>1. ASSUME NEW t \in Threads, ThreadStep(t) PROVE FlightIsHeld'
  <2>0. \A u \in Threads : u # t => pc'[u] = pc[u] /\ Inputs(u)' = Inputs(u)
    BY <1>1, ThreadStepIsLocal
  <2>1. ASSUME NEW verdict, NEW where \in {"mark", "reset"}, End(t, verdict, where), pc[t] \in Active
        PROVE  FlightIsHeld'
    BY <2>0, <2>1, EndLeaves, QuitFlight
  <2>2. ASSUME Fail(t), pc[t] \in Active PROVE FlightIsHeld'
    BY <2>1, <2>2 DEF Fail
  <2>3. ASSUME NEW place \in Active, pc[t] \in Active, Goto(t, place), UNCHANGED inFlight,
               \/ UNCHANGED job
               \/ \E h \in Hashes \cup {NoHash} : job' = [job EXCEPT ![t].hash = h]
        PROVE  FlightIsHeld'
    <3>1. pc'[t] = place /\ Inputs(t)' = Inputs(t)
      BY <2>3, MoveKeepsInputs
    <3> QED BY <2>0, <2>3, <3>1, StayInFlight
  <2>4. ASSUME pc[t] \notin Active, pc'[t] \notin Active, UNCHANGED inFlight
        PROVE  FlightIsHeld'
    BY <2>0, <2>4, StayInFlight
  <2>5. CASE ClaimBatch(t) \/ EndBatch(t) \/ Mark(t) \/ ResetClaim(t)
    <3>1. pc[t] \notin Active /\ UNCHANGED inFlight
      BY <2>5 DEF ClaimBatch, EndBatch, Mark, ResetClaim, Active
    <3>2. \E place \in {"next", "idle", "reset"} : Goto(t, place)
      BY <2>5 DEF ClaimBatch, EndBatch, Mark, ResetClaim, Abort
    <3>3. pc'[t] \notin Active
      BY <3>2 DEF Goto, Active, TypeOK, ThreadTypeOK
    <3> QED BY <2>4, <3>1, <3>3
  <2>6. ASSUME NEW b \in Bundles, OpenRecord(t, b) \/ DeliverByWaku(t, b) PROVE FlightIsHeld'
    <3>1. pc[t] \notin Active
      BY <2>6 DEF OpenRecord, DeliverByWaku, Active
    <3>2. job'[t].bundle = b
      <4>1. /\ [NoJob EXCEPT !.bundle = b, !.source = "inbox"].bundle = b
            /\ [NoJob EXCEPT !.bundle = b, !.source = "waku"].bundle = b
        BY DEF NoJob
      <4>2. \E j : j.bundle = b /\ job' = [job EXCEPT ![t] = j]
        BY <2>6, <4>1 DEF OpenRecord, DeliverByWaku
      <4> QED BY <4>2 DEF TypeOK, ThreadTypeOK
    <3>3. Inputs(t)' = InputsOf[CallOf[b]] /\ Inputs(t)' \subseteq Nullifiers
      BY <3>2, BundlesAssumption, InputsAssumption DEF Inputs, Call
    <3>4. CASE Goto(t, "reset") /\ UNCHANGED inFlight
      BY <3>1, <3>4, <2>4 DEF Goto, Active, TypeOK, ThreadTypeOK
    <3>5. CASE /\ InputsOf[CallOf[b]] \cap inFlight[ProcOf[t]] = {} /\ Goto(t, "probe")
               /\ inFlight' = [inFlight EXCEPT ![ProcOf[t]] = @ \cup InputsOf[CallOf[b]]]
      <4>1. pc'[t] \in Active
        BY <3>5 DEF Goto, Active, TypeOK, ThreadTypeOK
      <4> QED BY <2>0, <3>1, <3>3, <3>5, <4>1, EnterFlight
    <3> QED BY <2>6, <3>4, <3>5 DEF OpenRecord, DeliverByWaku
  <2>7. CASE Probe(t)
    <3>1. pc[t] \in Active /\ "ready" \in Active /\ "record" \in Active
      BY <2>7 DEF Probe, Active
    <3>2. rowHash[Call(t)] \in Hashes \cup {NoHash}
      BY <2>7, CallTyped DEF Probe, TypeOK, StoreTypeOK
    <3> QED BY <2>7, <2>2, <2>3, <3>1, <3>2 DEF Probe
  <2>8. CASE Ready(t) \/ ReserveRow(t) \/ Receipt(t) \/ Throw(t)
    <3>1. pc[t] \in Active /\ {"reserve", "send", "record"} \subseteq Active
      BY <2>8 DEF Ready, ReserveRow, Receipt, Throw, Active
    <3> QED BY <2>8, <2>1, <2>2, <2>3, <3>1 DEF Ready, ReserveRow, Receipt, Throw
  <2>9. ASSUME NEW h \in Hashes, Send(t, h) PROVE FlightIsHeld'
    <3>1. pc[t] \in Active /\ "recordSent" \in Active
      BY <2>9 DEF Send, Active
    <3> QED BY <2>9, <2>2, <2>3, <3>1 DEF Send
  <2>10. CASE RecordHash(t)
    <3>1. pc[t] \in Active /\ {"receipt", "canonical"} \subseteq Active
      BY <2>10 DEF RecordHash, Active
    <3> QED BY <2>10, <2>2, <2>3, <3>1 DEF RecordHash
  <2>11. CASE Canonical(t)
    <3>1. pc[t] \in Active
      BY <2>11 DEF Canonical, Active
    <3> QED BY <2>11, <2>1, <3>1 DEF Canonical
  <2> QED BY <1>1, <2>5, <2>6, <2>7, <2>8, <2>9, <2>10, <2>11 DEF ThreadStep, BundleStep
<1>2. ASSUME NEW p \in Procs, Crash(p) PROVE FlightIsHeld'
  <2>1. \A u \in Threads : IF ProcOf[u] = p THEN pc'[u] = "idle"
                                            ELSE pc'[u] = pc[u] /\ Inputs(u)' = Inputs(u)
    BY <1>2 DEF Crash, Inputs, Call
  <2>2. inFlight'[p] = {} /\ \A q \in Procs : q # p => inFlight'[q] = inFlight[q]
    BY <1>2 DEF Crash, TypeOK, ThreadTypeOK
  <2>3. \A q \in Procs, n \in Nullifiers : n \in inFlight'[q] <=> Holding(q, n)'
    BY <2>1, <2>2 DEF FlightIsHeld, Holding, Active
  <2> QED BY <2>1, <2>3 DEF FlightIsHeld, Active
<1>3. ASSUME \/ \E b \in Bundles : Enqueue(b) \/ BecomeDue(b)
             \/ \E c \in Calls : Expire(c)
             \/ ChainStep \/ UNCHANGED vars
      PROVE  FlightIsHeld'
  <2>1. UNCHANGED <<pc, job, inFlight>>
    BY <1>3 DEF Enqueue, BecomeDue, Expire, ChainStep, Mine, Reorganise, Finalise, ForeignSpend, vars
  <2>2. \A u \in Threads : Inputs(u)' = Inputs(u)
    BY <2>1 DEF Inputs, Call
  <2> QED BY <2>1, <2>2, StayInFlight
<1> QED BY <1>1, <1>2, <1>3 DEF Next

(* inFlightNullifiers never leaks an entry and never loses one, with any    *)
(* number of overlapping polls, exceptions and crashes, and no two          *)
(* executions of a process share an input.                                  *)
THEOREM InFlightExact == Spec => []InFlightIsExact
<1>1. TypeOK /\ FlightIsHeld => InFlightIsExact
  BY FlightByMember
<1> QED BY <1>1, TypeCorrect, FlightInit, FlightStep, PTL DEF Spec

----------------------------------------------------------------------------
(* The claims *)

(* A record is given back only by the poll that opened it, which no longer  *)
(* has it in its queue.                                                     *)
ClaimsInv ==
    /\ ClaimsAreExclusive
    /\ \A t \in Threads : pc[t] \in {"mark", "reset"} => job[t].source = "inbox"
    /\ \A t \in Threads : job[t].source = "inbox" => job[t].bundle \in Bundles \ queue[t]

LEMMA ClaimsInit == Init => ClaimsInv
  BY DEF Init, ClaimsInv, ClaimsAreExclusive, HeldBy, NoJob

(* Threads only let go of records, and rows in hand stay in hand.           *)
LEMMA LettingGoIsSafe ==
    ASSUME ClaimsInv,
           \A u \in Threads : HeldBy(u)' \subseteq HeldBy(u),
           \A u \in Threads : \A b \in HeldBy(u)' :
              inbox[b].status \in {"processing", "processed"}
                 => inbox'[b].status \in {"processing", "processed"},
           \A u \in Threads : \/ pc'[u] = pc[u] /\ job'[u] = job[u] /\ queue'[u] = queue[u]
                              \/ /\ pc'[u] \in {"mark", "reset"} => job'[u].source = "inbox"
                                 /\ job'[u].source = "inbox" => job'[u].bundle \in Bundles \ queue'[u]
    PROVE  ClaimsInv'
<1>1. ClaimsAreExclusive'
  <2>1. \A t, u \in Threads : t # u => HeldBy(t)' \cap HeldBy(u)' = {}
    BY DEF ClaimsInv, ClaimsAreExclusive
  <2>2. \A t \in Threads : \A b \in HeldBy(t)' : inbox'[b].status \in {"processing", "processed"}
    BY DEF ClaimsInv, ClaimsAreExclusive
  <2> QED BY <2>1, <2>2 DEF ClaimsAreExclusive
<1>2. \A t \in Threads : pc'[t] \in {"mark", "reset"} => job'[t].source = "inbox"
  BY DEF ClaimsInv
<1>3. \A t \in Threads : job'[t].source = "inbox" => job'[t].bundle \in Bundles \ queue'[t]
  BY DEF ClaimsInv
<1> QED BY <1>1, <1>2, <1>3 DEF ClaimsInv

(* The exits of an execution leave the record with the thread that had it.  *)
LEMMA EndKeepsClaim ==
    ASSUME TypeOK, NEW t \in Threads, NEW verdict, NEW where \in {"mark", "reset"},
           End(t, verdict, where)
    PROVE  /\ queue'[t] = queue[t]
           /\ \/ /\ job[t].source = "inbox" /\ pc'[t] = where /\ job'[t].verdict = verdict
                 /\ job'[t].source = "inbox" /\ job'[t].bundle = job[t].bundle
              \/ job[t].source # "inbox" /\ pc'[t] = "idle" /\ job'[t] = NoJob
<1>1. job[t] \in Job
  BY DEF TypeOK, ThreadTypeOK
<1>2. CASE job[t].source = "inbox"
  <2>1. /\ [job[t] EXCEPT !.hash = NoHash, !.verdict = verdict].source = job[t].source
        /\ [job[t] EXCEPT !.hash = NoHash, !.verdict = verdict].bundle = job[t].bundle
        /\ [job[t] EXCEPT !.hash = NoHash, !.verdict = verdict].verdict = verdict
    BY <1>1 DEF Job
  <2>2. job'[t] = [job[t] EXCEPT !.hash = NoHash, !.verdict = verdict]
    BY <1>2 DEF End, TypeOK, ThreadTypeOK
  <2> QED BY <1>2, <2>1, <2>2 DEF End, Goto, TypeOK, ThreadTypeOK
<1>3. CASE job[t].source # "inbox"
  BY <1>3 DEF End, Goto, TypeOK, ThreadTypeOK
<1> QED BY <1>2, <1>3

LEMMA ClaimBatchKeepsClaims ==
    ASSUME TypeOK, ClaimsInv, NEW t \in Threads, ClaimBatch(t)
    PROVE  ClaimsInv'
<1> PICK S \in SUBSET DuePending :
      /\ inbox' = [b \in Bundles |->
                     IF b \in S THEN [inbox[b] EXCEPT !.status = "processing", !.due = FALSE,
                                                      !.note = "none"]
                                ELSE inbox[b]]
      /\ queue' = [queue EXCEPT ![t] = S]
  BY ClaimTakes, Zenon
<1>1. Goto(t, "next") /\ UNCHANGED job /\ pc[t] = "idle"
  BY Zenon DEF ClaimBatch
<1>2. \A b \in S : b \in Bundles /\ inbox[b].status = "pending"
  BY DEF DuePending
<1>3. \A b \in Bundles : inbox'[b].status = IF b \in S THEN "processing" ELSE inbox[b].status
  <2>1. ASSUME NEW b \in Bundles
        PROVE  [inbox[b] EXCEPT !.status = "processing", !.due = FALSE, !.note = "none"].status
                 = "processing"
    <3>1. inbox[b] \in Row
      BY DEF TypeOK, InboxTypeOK
    <3> QED BY <3>1 DEF Row
  <2> QED BY <2>1
<1>4. queue'[t] = S /\ \A u \in Threads : u # t => queue'[u] = queue[u]
  BY DEF TypeOK, ThreadTypeOK
<1>5. \A u \in Threads : HeldBy(u) \cap S = {}
  BY <1>2 DEF ClaimsInv, ClaimsAreExclusive
<1>6. HeldBy(t)' \subseteq HeldBy(t) \cup S /\ \A u \in Threads : u # t => HeldBy(u)' = HeldBy(u)
  BY <1>1, <1>4 DEF HeldBy
<1>7. \A u \in Threads : HeldBy(u) \subseteq Bundles
  BY DEF HeldBy, ClaimsInv, TypeOK, ThreadTypeOK
<1>8. \A u \in Threads : \A b \in HeldBy(u)' : inbox'[b].status \in {"processing", "processed"}
  BY <1>2, <1>3, <1>6, <1>7 DEF ClaimsInv, ClaimsAreExclusive
<1>9. \A v, u \in Threads : v # u => HeldBy(v)' \cap HeldBy(u)' = {}
  <2>1. \A v, u \in Threads : v # u => HeldBy(v) \cap HeldBy(u) = {}
    BY DEF ClaimsInv, ClaimsAreExclusive
  <2>2. ASSUME NEW u \in Threads, u # t PROVE HeldBy(t)' \cap HeldBy(u)' = {}
    <3>1. HeldBy(t) \cap HeldBy(u) = {} /\ S \cap HeldBy(u) = {} /\ HeldBy(u)' = HeldBy(u)
      BY <1>5, <1>6, <2>1, <2>2
    <3> QED BY <1>6, <3>1
  <2> QED BY <1>6, <2>1, <2>2
<1>10. \A u \in Threads : pc'[u] \in {"mark", "reset"} => job'[u].source = "inbox"
  BY <1>1 DEF ClaimsInv, Goto, TypeOK, ThreadTypeOK
<1>11. \A u \in Threads : job'[u].source = "inbox" => job'[u].bundle \in Bundles \ queue'[u]
  <2>1. job[t].source = "inbox" => job[t].bundle \in Bundles \ S
    BY <1>5 DEF ClaimsInv, HeldBy
  <2> QED BY <1>1, <1>4, <2>1 DEF ClaimsInv
<1> QED BY <1>8, <1>9, <1>10, <1>11 DEF ClaimsInv, ClaimsAreExclusive

(* A record that ends, or goes back to the table, is in its poll's hands    *)
(* alone.                                                                   *)
LEMMA MarkKeepsClaims ==
    ASSUME TypeOK, ClaimsInv, NEW t \in Threads, Mark(t) \/ ResetClaim(t)
    PROVE  ClaimsInv'
<1> DEFINE b == job[t].bundle
<1>1. b \in Bundles \ queue[t] /\ job[t] \in Job /\ b \in HeldBy(t) /\ job[t].source = "inbox"
  BY DEF Mark, ResetClaim, TypeOK, ThreadTypeOK, ClaimsInv, HeldBy
<1>2. /\ \A d \in Bundles : d # b => inbox'[d] = inbox[d]
      /\ inbox'[b].status \in {inbox[b].status, "processed", "pending"}
      /\ inbox'[b].status = "pending" => inbox[b].status = "pending" \/ ResetClaim(t)
  <2>1. /\ [inbox[b] EXCEPT !.status = "processed", !.note = job[t].verdict].status = "processed"
        /\ [inbox[b] EXCEPT !.status = "pending", !.due = FALSE, !.note = "none"].status = "pending"
    <3>1. inbox[b] \in Row
      BY <1>1 DEF TypeOK, InboxTypeOK
    <3> QED BY <3>1 DEF Row
  <2>2. CASE Mark(t)
    <3>1. \/ inbox' = inbox
          \/ inbox' = [inbox EXCEPT ![b] = [inbox[b] EXCEPT !.status = "processed", !.note = job[t].verdict]]
      BY <2>2 DEF Mark
    <3> QED BY <1>1, <2>1, <3>1 DEF TypeOK, InboxTypeOK
  <2>3. CASE ResetClaim(t)
    <3>1. \/ inbox' = inbox
          \/ inbox' = [inbox EXCEPT ![b] = [inbox[b] EXCEPT !.status = "pending", !.due = FALSE, !.note = "none"]]
      BY <2>3 DEF ResetClaim
    <3> QED BY <1>1, <2>1, <2>3, <3>1 DEF TypeOK, InboxTypeOK
  <2> QED BY <2>2, <2>3
<1>3. \A u \in Threads : u # t => pc'[u] = pc[u] /\ queue'[u] = queue[u] /\ job'[u] = job[u]
  BY ThreadStepIsLocal DEF ThreadStep
<1>4. \/ /\ job'[t] = NoJob /\ queue'[t] \subseteq queue[t] /\ pc'[t] \in {"next", "idle"}
      \/ /\ Mark(t) /\ pc'[t] = "reset" /\ queue'[t] = queue[t]
         /\ job'[t].source = job[t].source /\ job'[t].bundle = b
  <2>1. /\ [job[t] EXCEPT !.verdict = "none"].source = job[t].source
        /\ [job[t] EXCEPT !.verdict = "none"].bundle = job[t].bundle
    BY <1>1 DEF Job
  <2>2. CASE Abort(t)
    BY <2>2 DEF Abort, Goto, TypeOK, ThreadTypeOK
  <2>3. CASE Goto(t, "next") /\ job' = [job EXCEPT ![t] = NoJob] /\ UNCHANGED queue
    BY <2>3 DEF Goto, TypeOK, ThreadTypeOK
  <2>4. CASE /\ Mark(t) /\ Goto(t, "reset") /\ UNCHANGED queue
             /\ job' = [job EXCEPT ![t] = [job[t] EXCEPT !.verdict = "none"]]
    <3>1. job'[t] = [job[t] EXCEPT !.verdict = "none"] /\ pc'[t] = "reset" /\ queue'[t] = queue[t]
      BY <2>4 DEF Goto, TypeOK, ThreadTypeOK
    <3> QED BY <2>1, <2>4, <3>1
  <2>5. CASE Mark(t)
    BY <2>2, <2>3, <2>4, <2>5 DEF Mark
  <2>6. CASE ResetClaim(t)
    BY <2>2, <2>3, <2>6 DEF ResetClaim
  <2> QED BY <2>5, <2>6
<1>5. HeldBy(t)' \subseteq HeldBy(t) /\ (ResetClaim(t) => b \notin HeldBy(t)')
  <2>1. CASE job'[t] = NoJob /\ queue'[t] \subseteq queue[t]
    BY <1>1, <2>1 DEF HeldBy, NoJob
  <2>2. CASE Mark(t) /\ queue'[t] = queue[t] /\ job'[t].source = job[t].source /\ job'[t].bundle = b
    BY <1>1, <2>2 DEF HeldBy, Mark, ResetClaim
  <2> QED BY <1>4, <2>1, <2>2
<1>6. \A u \in Threads : u # t => HeldBy(u)' = HeldBy(u) /\ b \notin HeldBy(u)'
  <2>1. \A u \in Threads : u # t => HeldBy(u)' = HeldBy(u)
    BY <1>3 DEF HeldBy
  <2>2. \A u \in Threads : u # t => b \notin HeldBy(u)
    BY <1>1 DEF ClaimsInv, ClaimsAreExclusive
  <2> QED BY <2>1, <2>2
<1>7. \A u \in Threads : HeldBy(u) \subseteq Bundles
  BY DEF HeldBy, ClaimsInv, TypeOK, ThreadTypeOK
<1>8. \A u \in Threads : \A d \in HeldBy(u)' :
         inbox[d].status \in {"processing", "processed"}
            => inbox'[d].status \in {"processing", "processed"}
  <2> SUFFICES ASSUME NEW u \in Threads, NEW d \in HeldBy(u)',
                      inbox[d].status \in {"processing", "processed"}
               PROVE  inbox'[d].status \in {"processing", "processed"}
    OBVIOUS
  <2>1. d \in Bundles
    BY <1>5, <1>6, <1>7
  <2>2. CASE d = b
    BY <1>2, <1>5, <1>6, <2>2
  <2> QED BY <1>2, <2>1, <2>2
<1>9. \A u \in Threads : \/ pc'[u] = pc[u] /\ job'[u] = job[u] /\ queue'[u] = queue[u]
                         \/ /\ pc'[u] \in {"mark", "reset"} => job'[u].source = "inbox"
                            /\ job'[u].source = "inbox" => job'[u].bundle \in Bundles \ queue'[u]
  <2>1. NoJob.source # "inbox"
    BY DEF NoJob
  <2> QED BY <1>1, <1>3, <1>4, <2>1
<1> QED BY <1>5, <1>6, <1>8, <1>9, LettingGoIsSafe

LEMMA ClaimsStep == TypeOK /\ ClaimsInv /\ [Next]_vars => ClaimsInv'
<1> SUFFICES ASSUME TypeOK, ClaimsInv, [Next]_vars PROVE ClaimsInv'
  OBVIOUS
<1> USE DEF inboxVars, threadVars, chainVars
<1>1. ASSUME NEW t \in Threads, ThreadStep(t), HeldBy(t)' \subseteq HeldBy(t),
             \A b \in Bundles : inbox'[b].status = inbox[b].status,
             \/ pc'[t] = pc[t] /\ job'[t] = job[t] /\ queue'[t] = queue[t]
             \/ /\ pc'[t] \in {"mark", "reset"} => job'[t].source = "inbox"
                /\ job'[t].source = "inbox" => job'[t].bundle \in Bundles \ queue'[t]
      PROVE  ClaimsInv'
  <2>1. \A u \in Threads : u # t => pc'[u] = pc[u] /\ queue'[u] = queue[u] /\ job'[u] = job[u]
    BY <1>1, ThreadStepIsLocal
  <2>2. \A u \in Threads : u # t => HeldBy(u)' = HeldBy(u)
    BY <2>1 DEF HeldBy
  <2>3. \A u \in Threads : HeldBy(u)' \subseteq Bundles
    BY <1>1, <2>2 DEF HeldBy, ClaimsInv, TypeOK, ThreadTypeOK
  <2>4. \A u \in Threads : HeldBy(u)' \subseteq HeldBy(u)
    BY <1>1, <2>2
  <2>5. \A u \in Threads : \A b \in HeldBy(u)' : inbox'[b].status = inbox[b].status
    BY <1>1, <2>3
  <2> QED BY <1>1, <2>1, <2>4, <2>5, LettingGoIsSafe
<1>2. ASSUME NEW t \in Threads, EndBatch(t) PROVE ClaimsInv'
  <2>1. job'[t] = NoJob /\ queue'[t] = {} /\ UNCHANGED inbox
    BY <1>2 DEF EndBatch, Abort, TypeOK, ThreadTypeOK
  <2>2. pc'[t] = "idle"
    BY <1>2 DEF EndBatch, Abort, Goto, TypeOK, ThreadTypeOK
  <2> QED BY <1>1, <1>2, <2>1, <2>2 DEF HeldBy, NoJob, ThreadStep
<1>3. ASSUME NEW t \in Threads, NEW b \in Bundles, OpenRecord(t, b) PROVE ClaimsInv'
  <2>1. /\ [NoJob EXCEPT !.bundle = b, !.source = "inbox"].bundle = b
        /\ [NoJob EXCEPT !.bundle = b, !.source = "inbox"].source = "inbox"
    BY DEF NoJob
  <2>2. /\ job'[t].bundle = b /\ job'[t].source = "inbox"
        /\ queue'[t] = queue[t] \ {b} /\ b \in queue[t] /\ UNCHANGED inbox
    BY <1>3, <2>1 DEF OpenRecord, TypeOK, ThreadTypeOK
  <2>3. HeldBy(t)' \subseteq HeldBy(t)
    BY <2>2 DEF HeldBy
  <2> QED BY <1>1, <1>3, <2>2, <2>3 DEF ThreadStep
<1>4. ASSUME NEW t \in Threads, NEW b \in Bundles, DeliverByWaku(t, b) PROVE ClaimsInv'
  <2>1. [NoJob EXCEPT !.bundle = b, !.source = "waku"].source = "waku"
    BY DEF NoJob
  <2>2. /\ job'[t].source = "waku" /\ pc'[t] = "probe" /\ queue'[t] = queue[t] /\ UNCHANGED inbox
    BY <1>4, <2>1 DEF DeliverByWaku, Goto, TypeOK, ThreadTypeOK
  <2> QED BY <1>1, <1>4, <2>2 DEF HeldBy, ThreadStep
<1>5. ASSUME NEW t \in Threads, BundleStep(t) \/ Throw(t),
             NEW verdict, NEW where \in {"mark", "reset"}, End(t, verdict, where),
             \A b \in Bundles : inbox'[b].status = inbox[b].status
      PROVE  ClaimsInv'
  <2>1. HeldBy(t)' \subseteq HeldBy(t)
    BY <1>5, EndKeepsClaim DEF HeldBy, NoJob
  <2>2. \/ job'[t].source = "inbox" /\ job'[t].bundle = job[t].bundle /\ queue'[t] = queue[t]
             /\ job[t].source = "inbox"
        \/ pc'[t] = "idle" /\ job'[t].source # "inbox"
    BY <1>5, EndKeepsClaim DEF NoJob
  <2>3. job'[t].source = "inbox" => job'[t].bundle \in Bundles \ queue'[t]
    BY <2>2 DEF ClaimsInv
  <2> QED BY <1>1, <1>5, <2>1, <2>2, <2>3 DEF ThreadStep
<1>6. ASSUME NEW t \in Threads, BundleStep(t), pc[t] \in Active, UNCHANGED queue,
             \A b \in Bundles : inbox'[b].status = inbox[b].status,
             NEW place \in Active, Goto(t, place),
             \/ UNCHANGED job
             \/ \E h \in Hashes \cup {NoHash} : job' = [job EXCEPT ![t].hash = h]
      PROVE  ClaimsInv'
  <2>1. pc'[t] = place /\ job'[t].bundle = job[t].bundle /\ job'[t].source = job[t].source
    BY <1>6, MoveKeepsInputs
  <2>2. HeldBy(t)' = HeldBy(t) /\ queue'[t] = queue[t]
    BY <1>6, <2>1 DEF HeldBy
  <2> QED BY <1>1, <1>6, <2>1, <2>2 DEF ClaimsInv, ThreadStep, Active
<1>7. ASSUME NEW t \in Threads, BundleStep(t) \/ Throw(t), ~RecordHash(t) PROVE ClaimsInv'
  <2>1. \A b \in Bundles : inbox'[b].status = inbox[b].status
    BY <1>7 DEF BundleStep, Probe, Ready, ReserveRow, Send, Receipt, Canonical, Throw
  <2>2. pc[t] \in Active
    BY <1>7 DEF BundleStep, Probe, Ready, ReserveRow, Send, Receipt, Canonical, Throw, Active
  <2>3. \/ \E verdict \in Note, where \in {"mark", "reset"} : End(t, verdict, where)
        \/ /\ UNCHANGED queue
           /\ \E place \in Active : Goto(t, place)
           /\ \/ UNCHANGED job
              \/ \E h \in Hashes \cup {NoHash} : job' = [job EXCEPT ![t].hash = h]
    <3>1. CASE Probe(t)
      <4>1. rowHash[Call(t)] \in Hashes \cup {NoHash}
        BY <3>1, CallTyped DEF Probe, TypeOK, StoreTypeOK
      <4> QED BY <3>1, <4>1 DEF Probe, Fail, Note, Active
    <3>2. CASE Ready(t) \/ ReserveRow(t) \/ Receipt(t) \/ Canonical(t) \/ Throw(t)
      BY <3>2 DEF Ready, ReserveRow, Receipt, Canonical, Throw, Fail, Note, Active
    <3>3. CASE \E h \in Hashes : Send(t, h)
      BY <3>3 DEF Send, Fail, Note, Active
    <3> QED BY <1>7, <3>1, <3>2, <3>3 DEF BundleStep
  <2>4. BundleStep(t) \/ \E verdict \in Note, where \in {"mark", "reset"} : End(t, verdict, where)
    BY <1>7 DEF Throw, Fail, Note
  <2> QED BY <1>5, <1>6, <1>7, <2>1, <2>2, <2>3, <2>4
<1>8. ASSUME NEW t \in Threads, RecordHash(t) PROVE ClaimsInv'
  <2>1. \A b \in Bundles : inbox'[b].status = inbox[b].status
    <3>1. job[t].bundle \in Bundles /\ inbox[job[t].bundle] \in Row
      BY <1>8 DEF RecordHash, TypeOK, ThreadTypeOK, InboxTypeOK
    <3>2. [inbox[job[t].bundle] EXCEPT !.hash = job[t].hash].status = inbox[job[t].bundle].status
      BY <3>1 DEF Row
    <3> QED BY <1>8, <3>1, <3>2 DEF RecordHash, TypeOK, InboxTypeOK
  <2>2. pc[t] \in Active /\ BundleStep(t)
    BY <1>8 DEF RecordHash, BundleStep, Active
  <2>3. \/ End(t, "none", "reset")
        \/ UNCHANGED <<queue, job>> /\ \E place \in Active : Goto(t, place)
    BY <1>8 DEF RecordHash, Fail, Active
  <2> QED BY <1>5, <1>6, <2>1, <2>2, <2>3
<1>9. ASSUME NEW p \in Procs, Crash(p) PROVE ClaimsInv'
  <2>1. \A u \in Threads : \/ pc'[u] = pc[u] /\ job'[u] = job[u] /\ queue'[u] = queue[u]
                           \/ pc'[u] = "idle" /\ job'[u] = NoJob /\ queue'[u] = {}
    BY <1>9 DEF Crash
  <2>2. \A u \in Threads : HeldBy(u)' \subseteq HeldBy(u)
    BY <2>1 DEF HeldBy, NoJob
  <2> QED BY <1>9, <2>1, <2>2, LettingGoIsSafe DEF Crash, NoJob
<1>10. ASSUME NEW b \in Bundles, Enqueue(b) \/ BecomeDue(b) PROVE ClaimsInv'
  <2>1. inbox[b].status \notin {"processing", "processed"} /\ UNCHANGED <<pc, queue, job>>
    BY <1>10 DEF Enqueue, BecomeDue
  <2>2. \A u \in Threads : HeldBy(u)' = HeldBy(u) /\ b \notin HeldBy(u)
    BY <2>1 DEF HeldBy, ClaimsInv, ClaimsAreExclusive
  <2>3. \A d \in Bundles : d # b => inbox'[d] = inbox[d]
    BY <1>10 DEF Enqueue, BecomeDue, TypeOK, InboxTypeOK
  <2>4. \A u \in Threads : HeldBy(u) \subseteq Bundles
    BY DEF HeldBy, ClaimsInv, TypeOK, ThreadTypeOK
  <2> QED BY <2>1, <2>2, <2>3, <2>4, LettingGoIsSafe
<1>11. ASSUME (\E c \in Calls : Expire(c)) \/ ChainStep \/ UNCHANGED vars PROVE ClaimsInv'
  <2>1. UNCHANGED <<inbox, pc, queue, job>>
    BY <1>11 DEF Expire, ChainStep, Mine, Reorganise, Finalise, ForeignSpend, vars
  <2>2. \A u \in Threads : HeldBy(u)' = HeldBy(u)
    BY <2>1 DEF HeldBy
  <2> QED BY <2>1, <2>2, LettingGoIsSafe
<1> QED BY <1>2, <1>3, <1>4, <1>7, <1>8, <1>9, <1>10, <1>11, ClaimBatchKeepsClaims, MarkKeepsClaims
        DEF Next, ThreadStep

(* However polls overlap, fail and restart, a record is in the hands of one *)
(* poll at most, and a record in hand cannot be claimed: the lease-free     *)
(* claim of relay_private_inbox needs no lock beyond its UPDATE.            *)
THEOREM ClaimsExclusive == Spec => []ClaimsAreExclusive
<1>1. ClaimsInv => ClaimsAreExclusive
  BY DEF ClaimsInv
<1> QED BY <1>1, TypeCorrect, ClaimsInit, ClaimsStep, PTL DEF Spec

----------------------------------------------------------------------------
(* What the inbox says of an end *)

OneProcess == \A p, q \in Procs : p = q

(* Nobody has broadcast c, and nobody who could is past the expiry check.   *)
Dead(c) ==
    /\ c \in expired /\ rowStatus[c] = "absent"
    /\ \A u \in Threads : pc[u] = "reserve" => Call(u) # c

(* What a verdict claims about a call. *)
Truth(c, note) ==
    /\ note = "ok"       => rowHash[c] \in final /\ txState[rowHash[c]] = "success"
    /\ note = "reverted" => rowHash[c] \in final /\ txState[rowHash[c]] = "reverted"
    /\ note = "expired" /\ OneProcess => Dead(c)

(* Rows and threads that know a verdict know a true one; a thread that      *)
(* waits for a settlement reads it through the hash of its row; and one     *)
(* that is about to check the expiry has no row, as nobody else can have    *)
(* made one while it held the inputs.                                       *)
TruthInv ==
    /\ \A b \in Bundles : inbox[b].status = "processed" => Truth(CallOf[b], inbox[b].note)
    /\ \A t \in Threads : pc[t] = "mark" => Truth(Call(t), job[t].verdict)
    /\ \A t \in Threads : pc[t] \in {"receipt", "record", "canonical"} =>
          rowHash[Call(t)] = job[t].hash
    /\ OneProcess => \A t \in Threads : pc[t] = "ready" => rowStatus[Call(t)] = "absent"
    /\ \A c \in Calls : rowStatus[c] # "released"
    /\ \A h \in final : Mined(h)

LEMMA TruthInit == Init => TruthInv
  BY DEF Init, StoreInit, TruthInv, NoRow

LEMMA WhoMoves ==
    ASSUME TypeOK, [Next]_vars, NEW u \in Threads
    PROVE  \/ pc'[u] = pc[u] /\ job'[u] = job[u] /\ Call(u)' = Call(u)
           \/ ThreadStep(u)
           \/ pc'[u] = "idle"
<1> USE DEF inboxVars, threadVars, chainVars
<1>1. ASSUME NEW t \in Threads, ThreadStep(t), t # u
      PROVE  pc'[u] = pc[u] /\ job'[u] = job[u] /\ Call(u)' = Call(u)
  BY <1>1, ThreadStepIsLocal
<1>2. ASSUME NEW p \in Procs, Crash(p)
      PROVE  pc'[u] = "idle" \/ (pc'[u] = pc[u] /\ job'[u] = job[u] /\ Call(u)' = Call(u))
  BY <1>2 DEF Crash, Call
<1>3. ASSUME \/ \E b \in Bundles : Enqueue(b) \/ BecomeDue(b)
             \/ \E c \in Calls : Expire(c)
             \/ ChainStep \/ UNCHANGED vars
      PROVE  pc'[u] = pc[u] /\ job'[u] = job[u] /\ Call(u)' = Call(u)
  BY <1>3 DEF Enqueue, BecomeDue, Expire, ChainStep, Mine, Reorganise, Finalise, ForeignSpend, vars, Call
<1> QED BY <1>1, <1>2, <1>3 DEF Next

(* The table between two states: a step inserts the row of one reserving    *)
(* thread, or records a hash where there was none, or changes nothing.      *)
LEMMA TableStep ==
    ASSUME IInv, TruthInv, [Next]_vars, NEW c \in Calls
    PROVE  /\ rowHash[c] # NoHash => rowHash'[c] = rowHash[c]
           /\ \/ rowStatus'[c] = rowStatus[c]
              \/ \E t \in Threads : pc[t] = "reserve" /\ Call(t) = c /\ ReserveRow(t)
           /\ rowStatus'[c] # "released"
<1> USE DEF storeVars, inboxVars, threadVars, chainVars
<1>0. rowStatus[c] # "released"
  BY DEF TruthInv
<1>1. ASSUME NEW t \in Threads, ReserveRow(t), Reserve(Call(t))
      PROVE  /\ rowHash'[c] = rowHash[c]
             /\ rowStatus'[c] = rowStatus[c] \/ Call(t) = c
             /\ rowStatus'[c] # "released"
  <2>1. Call(t) \in Calls
    BY <1>1, CallTyped DEF IInv, TypeOK, ReserveRow
  <2>2. /\ rowStatus[Call(t)] # "retained" /\ rowStatus'[Call(t)] = "retained" /\ rowHash'[Call(t)] = NoHash
        /\ \A d \in Calls : d # Call(t) => rowStatus'[d] = rowStatus[d] /\ rowHash'[d] = rowHash[d]
    BY <1>1, <2>1, ReserveDisjoint DEF IInv, TypeOK
  <2>3. \A h \in Hashes : txCall[h] # Call(t)
    BY <2>1, <2>2, SentIsItsCalls, SentinelsAssumption
  <2>4. rowHash[Call(t)] = NoHash
    BY <2>1, <2>3 DEF IInv, TypeOK, StoreTypeOK, RecordedHashIsTheCalls
  <2> QED BY <1>0, <2>2, <2>4
<1>2. ASSUME NEW t \in Threads, RecordHash(t)
      PROVE  UNCHANGED rowStatus /\ (rowHash[c] # NoHash => rowHash'[c] = rowHash[c])
  <2>1. job[t].hash \in Hashes
    BY <1>2 DEF RecordHash, IInv, ThreadsRememberTheirCall
  <2> QED BY <1>2, <2>1 DEF RecordHash, RecordSubmission, CanRecord, IInv, TypeOK, StoreTypeOK
<1>3. ASSUME NEW t \in Threads, ReserveRow(t)
      PROVE  Reserve(Call(t)) \/ UNCHANGED storeVars
  BY <1>3 DEF ReserveRow
<1>4. ASSUME NEW t \in Threads,
             \/ ClaimBatch(t) \/ EndBatch(t) \/ Mark(t) \/ ResetClaim(t) \/ Throw(t)
             \/ Probe(t) \/ Ready(t) \/ Receipt(t) \/ Canonical(t)
             \/ \E h \in Hashes : Send(t, h)
             \/ \E b \in Bundles : OpenRecord(t, b) \/ DeliverByWaku(t, b)
      PROVE  UNCHANGED storeVars
  BY <1>4 DEF ClaimBatch, EndBatch, Mark, ResetClaim, Throw, Probe, Ready, Receipt, Canonical, Send,
     OpenRecord, DeliverByWaku
<1>5. ASSUME \/ \E b \in Bundles : Enqueue(b) \/ BecomeDue(b)
             \/ \E q \in Procs : Crash(q)
             \/ \E d \in Calls : Expire(d)
             \/ ChainStep
             \/ UNCHANGED vars
      PROVE  UNCHANGED storeVars
  BY <1>5 DEF Enqueue, BecomeDue, Crash, Expire, ChainStep, Mine, Reorganise, Finalise, ForeignSpend, vars
<1>6. \/ \E t \in Threads : ReserveRow(t) /\ Reserve(Call(t))
      \/ \E t \in Threads : RecordHash(t)
      \/ UNCHANGED storeVars
  BY <1>3, <1>4, <1>5 DEF Next, ThreadStep, BundleStep
<1> QED BY <1>0, <1>1, <1>2, <1>6 DEF ReserveRow

(* The chain between two states: what is final stays as it is.              *)
LEMMA FinalStays ==
    ASSUME TypeOK, [Next]_vars, NEW h \in final, Mined(h)
    PROVE  h \in final' /\ txState'[h] = txState[h]
<1> USE DEF chainVars
<1>1. h \in Hashes
  BY DEF TypeOK, ChainTypeOK
<1>2. ASSUME NEW g \in Hashes, Mine(g) \/ Reorganise(g) \/ Finalise(g) \/ \E t \in Threads : Send(t, g)
      PROVE  h \in final' /\ txState'[h] = txState[h]
  BY <1>1, <1>2 DEF Mine, Reorganise, Finalise, Send, Mined, TypeOK, ChainTypeOK
<1>3. ASSUME NEW t \in Threads,
             \/ ClaimBatch(t) \/ EndBatch(t) \/ Mark(t) \/ ResetClaim(t) \/ Throw(t) \/ ReserveRow(t)
             \/ Probe(t) \/ Ready(t) \/ RecordHash(t) \/ Receipt(t) \/ Canonical(t)
             \/ \E b \in Bundles : OpenRecord(t, b) \/ DeliverByWaku(t, b)
      PROVE  UNCHANGED <<txState, final>>
  BY <1>3 DEF ClaimBatch, EndBatch, Mark, ResetClaim, Throw, Probe, Ready, Receipt, Canonical, ReserveRow,
     RecordHash, OpenRecord, DeliverByWaku
<1>4. ASSUME \/ \E b \in Bundles : Enqueue(b) \/ BecomeDue(b)
             \/ \E q \in Procs : Crash(q)
             \/ \E d \in Calls : Expire(d)
             \/ \E n \in Nullifiers : ForeignSpend(n)
             \/ UNCHANGED vars
      PROVE  UNCHANGED <<txState, final>>
  BY <1>4 DEF Enqueue, BecomeDue, Crash, Expire, ForeignSpend, vars
<1> QED BY <1>2, <1>3, <1>4 DEF Next, ThreadStep, BundleStep, ChainStep

LEMMA FinalIsMined ==
    ASSUME TypeOK, \A h \in final : Mined(h), [Next]_vars, NEW h \in final'
    PROVE  Mined(h)'
<1> USE DEF chainVars
<1>1. ASSUME h \in final PROVE Mined(h)'
  BY <1>1, FinalStays DEF Mined
<1>2. ASSUME NEW g \in Hashes, Finalise(g) PROVE Mined(h)'
  BY <1>1, <1>2 DEF Finalise, Mined
<1>3. ASSUME \A g \in Hashes : ~Finalise(g) PROVE final' = final
  <2>1. ASSUME NEW t \in Threads, ThreadStep(t) PROVE UNCHANGED final
    BY <2>1 DEF ThreadStep, BundleStep, ClaimBatch, EndBatch, Mark, ResetClaim, Throw, Probe, Ready, Receipt,
       Canonical, ReserveRow, RecordHash, Send, OpenRecord, DeliverByWaku
  <2>2. ASSUME \/ \E b \in Bundles : Enqueue(b) \/ BecomeDue(b)
               \/ \E q \in Procs : Crash(q)
               \/ \E d \in Calls : Expire(d)
               \/ \E n \in Nullifiers : ForeignSpend(n)
               \/ \E g \in Hashes : Mine(g) \/ Reorganise(g)
               \/ UNCHANGED vars
        PROVE  UNCHANGED final
    BY <2>2 DEF Enqueue, BecomeDue, Crash, Expire, ForeignSpend, Mine, Reorganise, vars
  <2> QED BY <1>3, <2>1, <2>2 DEF Next, ChainStep
<1> QED BY <1>1, <1>2, <1>3

LEMMA ExpiryStays ==
    ASSUME TypeOK, [Next]_vars
    PROVE  expired \subseteq expired'
<1>1. ASSUME NEW t \in Threads, ThreadStep(t) PROVE UNCHANGED expired
  BY <1>1 DEF ThreadStep, BundleStep, ClaimBatch, EndBatch, Mark, ResetClaim, Throw, Probe, Ready, Receipt,
     Canonical, ReserveRow, RecordHash, Send, OpenRecord, DeliverByWaku
<1>2. ASSUME ChainStep \/ (\E b \in Bundles : Enqueue(b) \/ BecomeDue(b)) \/ (\E q \in Procs : Crash(q))
             \/ UNCHANGED vars
      PROVE  UNCHANGED expired
  BY <1>2 DEF Enqueue, BecomeDue, Crash, ChainStep, Mine, Reorganise, Finalise, ForeignSpend, vars
<1> QED BY <1>1, <1>2 DEF Next, Expire

(* A thread gets to the reservation only by an expiry check it passed.      *)
LEMMA ToReserve ==
    ASSUME TypeOK, NEW t \in Threads, ThreadStep(t), pc'[t] = "reserve"
    PROVE  Call(t) \notin expired /\ Call(t)' = Call(t)
<1>1. ASSUME NEW verdict, NEW where \in {"mark", "reset"}, End(t, verdict, where) PROVE FALSE
  BY <1>1 DEF End, Goto, TypeOK, ThreadTypeOK
<1>2. ASSUME NEW place \in Place, place # "reserve", Goto(t, place) PROVE FALSE
  BY <1>2 DEF Goto, TypeOK, ThreadTypeOK
<1>3. ~(ClaimBatch(t) \/ EndBatch(t) \/ Mark(t) \/ ResetClaim(t))
  BY <1>2 DEF ClaimBatch, EndBatch, Mark, ResetClaim, Abort, Place
<1>4. ~\E b \in Bundles : OpenRecord(t, b) \/ DeliverByWaku(t, b)
  BY <1>2 DEF OpenRecord, DeliverByWaku, Place, Active
<1>5. ~(Probe(t) \/ ReserveRow(t) \/ Receipt(t) \/ Canonical(t) \/ Throw(t) \/ \E h \in Hashes : Send(t, h))
  BY <1>1, <1>2 DEF Probe, ReserveRow, Receipt, Canonical, Throw, Send, Fail, Place, Active
<1>6. ~RecordHash(t)
  BY <1>1, <1>2 DEF RecordHash, Fail, Place, Active
<1>7. Ready(t)
  BY <1>3, <1>4, <1>5, <1>6 DEF ThreadStep, BundleStep
<1>8. Call(t) \notin expired /\ UNCHANGED job
  BY <1>1, <1>7 DEF Ready, Fail
<1> QED BY <1>8 DEF Call

(* A verdict, once true, stays true: what is final is never unmined, what   *)
(* is recorded is never replaced, and a dead call stays dead.               *)
LEMMA TruthStays ==
    ASSUME IInv, TruthInv, [Next]_vars, NEW c \in Calls, NEW note, Truth(c, note)
    PROVE  Truth(c, note)'
<1>0. TypeOK
  BY DEF IInv
<1>1. ASSUME rowHash[c] \in final, Mined(rowHash[c])
      PROVE  /\ rowHash'[c] = rowHash[c]
             /\ rowHash'[c] \in final' /\ txState'[rowHash'[c]] = txState[rowHash[c]]
  <2>1. rowHash[c] # NoHash
    BY <1>0, <1>1, NoHashAssumption DEF TypeOK, ChainTypeOK
  <2> QED BY <1>0, <1>1, <2>1, TableStep, FinalStays
<1>2. ASSUME Dead(c) PROVE Dead(c)'
  <2>1. c \in expired'
    BY <1>0, <1>2, ExpiryStays DEF Dead
  <2>2. rowStatus'[c] = "absent"
    BY <1>2, TableStep DEF Dead
  <2>3. ASSUME NEW u \in Threads, pc'[u] = "reserve" PROVE Call(u)' # c
    BY <1>0, <1>2, <2>3, WhoMoves, ToReserve DEF Dead
  <2> QED BY <2>1, <2>2, <2>3 DEF Dead
<1> QED BY <1>1, <1>2 DEF Truth, Mined

(* A thread gets to mark a record by an expired schedule or by a final      *)
(* receipt of the hash its row records.                                     *)
LEMMA ToMark ==
    ASSUME TypeOK, NEW t \in Threads, ThreadStep(t), pc'[t] = "mark"
    PROVE  /\ job'[t].bundle = job[t].bundle /\ Call(t)' = Call(t)
           /\ \/ pc[t] = "ready" /\ Call(t) \in expired /\ job'[t].verdict = "expired"
                 /\ UNCHANGED <<storeVars, expired>>
              \/ /\ pc[t] = "canonical" /\ job[t].hash \in final /\ UNCHANGED <<storeVars, chainVars>>
                 /\ job'[t].verdict = IF txState[job[t].hash] = "success" THEN "ok" ELSE "reverted"
<1>1. ASSUME NEW verdict, NEW where \in {"mark", "reset"}, End(t, verdict, where)
      PROVE  where = "mark" /\ job'[t].bundle = job[t].bundle /\ job'[t].verdict = verdict
  BY <1>1, EndKeepsClaim
<1>2. ASSUME NEW place \in Place, place # "mark", Goto(t, place) PROVE FALSE
  BY <1>2 DEF Goto, TypeOK, ThreadTypeOK
<1>3. ~Fail(t)
  BY <1>1 DEF Fail
<1>4. ~(ClaimBatch(t) \/ EndBatch(t) \/ Mark(t) \/ ResetClaim(t))
  BY <1>2 DEF ClaimBatch, EndBatch, Mark, ResetClaim, Abort, Place
<1>5. ~\E b \in Bundles : OpenRecord(t, b) \/ DeliverByWaku(t, b)
  BY <1>2 DEF OpenRecord, DeliverByWaku, Place, Active
<1>6. ~(Probe(t) \/ ReserveRow(t) \/ Receipt(t) \/ Throw(t) \/ \E h \in Hashes : Send(t, h))
  BY <1>2, <1>3 DEF Probe, ReserveRow, Receipt, Throw, Send, Place, Active
<1>7. ~RecordHash(t)
  BY <1>2, <1>3 DEF RecordHash, Place, Active
<1>8. CASE Ready(t)
  <2>1. End(t, "expired", "mark") /\ Call(t) \in expired /\ pc[t] = "ready"
    BY <1>2, <1>3, <1>8 DEF Ready, Place, Active
  <2>2. job'[t].bundle = job[t].bundle /\ job'[t].verdict = "expired"
    BY <2>1, <1>1
  <2> QED BY <1>8, <2>1, <2>2 DEF Ready, Call
<1>9. CASE Canonical(t)
  <2>1. job'[t].bundle = job[t].bundle
        /\ job'[t].verdict = IF txState[job[t].hash] = "success" THEN "ok" ELSE "reverted"
    BY <1>1, <1>9 DEF Canonical
  <2> QED BY <1>9, <2>1 DEF Canonical, Call
<1> QED BY <1>4, <1>5, <1>6, <1>7, <1>8, <1>9 DEF ThreadStep, BundleStep

(* ... to one of the steps that read a settlement, with the row's hash.     *)
LEMMA ToSettlement ==
    ASSUME IInv, NEW t \in Threads, ThreadStep(t), pc'[t] \in {"receipt", "record", "canonical"},
           pc[t] \in {"receipt", "record", "canonical"} => rowHash[Call(t)] = job[t].hash
    PROVE  rowHash'[Call(t)'] = job'[t].hash
<1> USE DEF storeVars
<1>0. TypeOK
  BY DEF IInv
<1>1. ASSUME NEW verdict, NEW where \in {"mark", "reset"}, End(t, verdict, where) PROVE FALSE
  BY <1>0, <1>1 DEF End, Goto, TypeOK, ThreadTypeOK
<1>2. ASSUME NEW place \in Place \ {"receipt", "record", "canonical"}, Goto(t, place) PROVE FALSE
  BY <1>0, <1>2 DEF Goto, TypeOK, ThreadTypeOK
<1>3. ~Fail(t)
  BY <1>1 DEF Fail
<1>4. ~(ClaimBatch(t) \/ EndBatch(t) \/ Mark(t) \/ ResetClaim(t))
  BY <1>2 DEF ClaimBatch, EndBatch, Mark, ResetClaim, Abort, Place
<1>5. ~\E b \in Bundles : OpenRecord(t, b) \/ DeliverByWaku(t, b)
  BY <1>2 DEF OpenRecord, DeliverByWaku, Place, Active
<1>6. ~(Ready(t) \/ ReserveRow(t) \/ Canonical(t) \/ Throw(t) \/ \E h \in Hashes : Send(t, h))
  BY <1>1, <1>2, <1>3 DEF Ready, ReserveRow, Canonical, Throw, Send, Place, Active
<1>7. CASE Probe(t)
  <2>1. job' = [job EXCEPT ![t].hash = rowHash[Call(t)]] /\ UNCHANGED rowHash
    BY <1>2, <1>3, <1>7 DEF Probe, Place, Active
  <2>2. job[t] \in Job
    BY <1>0 DEF TypeOK, ThreadTypeOK
  <2>3. job'[t].hash = rowHash[Call(t)] /\ job'[t].bundle = job[t].bundle
    BY <1>0, <2>1, <2>2 DEF TypeOK, ThreadTypeOK, Job
  <2> QED BY <2>1, <2>3 DEF Call
<1>8. CASE Receipt(t)
  BY <1>8 DEF Receipt, Call, IInv, RecordedHashIsTheCalls
<1>9. CASE RecordHash(t)
  <2>1. Call(t) \in Calls
    BY <1>0, <1>9, CallTyped DEF RecordHash, TypeOK
  <2>2. UNCHANGED job /\ rowHash' = [rowHash EXCEPT ![Call(t)] = job[t].hash]
    BY <1>3, <1>9 DEF RecordHash, RecordSubmission
  <2> QED BY <1>0, <2>1, <2>2 DEF Call, TypeOK, StoreTypeOK
<1> QED BY <1>4, <1>5, <1>6, <1>7, <1>8, <1>9 DEF ThreadStep, BundleStep

(* ... and before the expiry check by a probe that found no row.            *)
LEMMA ToReady ==
    ASSUME IInv, TruthInv, NEW t \in Threads, ThreadStep(t), pc'[t] = "ready"
    PROVE  rowStatus'[Call(t)'] = "absent"
<1> USE DEF storeVars
<1>0. TypeOK
  BY DEF IInv
<1>1. ASSUME NEW verdict, NEW where \in {"mark", "reset"}, End(t, verdict, where) PROVE FALSE
  BY <1>0, <1>1 DEF End, Goto, TypeOK, ThreadTypeOK
<1>2. ASSUME NEW place \in Place \ {"ready"}, Goto(t, place) PROVE FALSE
  BY <1>0, <1>2 DEF Goto, TypeOK, ThreadTypeOK
<1>3. ~Fail(t)
  BY <1>1 DEF Fail
<1>4. ~(ClaimBatch(t) \/ EndBatch(t) \/ Mark(t) \/ ResetClaim(t))
  BY <1>2 DEF ClaimBatch, EndBatch, Mark, ResetClaim, Abort, Place
<1>5. ~\E b \in Bundles : OpenRecord(t, b) \/ DeliverByWaku(t, b)
  BY <1>2 DEF OpenRecord, DeliverByWaku, Place, Active
<1>6. ~(Ready(t) \/ ReserveRow(t) \/ Receipt(t) \/ Canonical(t) \/ Throw(t) \/ \E h \in Hashes : Send(t, h))
  BY <1>1, <1>2, <1>3 DEF Ready, ReserveRow, Receipt, Canonical, Throw, Send, Place, Active
<1>7. ~RecordHash(t)
  BY <1>2, <1>3 DEF RecordHash, Place, Active
<1>8. Probe(t)
  BY <1>4, <1>5, <1>6, <1>7 DEF ThreadStep, BundleStep
<1>9. IsFresh(Call(t)) /\ UNCHANGED <<job, rowStatus>>
  BY <1>2, <1>3, <1>8 DEF Probe, Place, Active
<1>10. Call(t) \in Calls
  BY <1>0, <1>8, CallTyped DEF Probe, TypeOK
<1>11. rowStatus[Call(t)] # "retained"
  BY <1>9, <1>10, InputsAssumption DEF IsFresh, Overlapping
<1>12. rowStatus[Call(t)] = "absent"
  BY <1>0, <1>10, <1>11 DEF TruthInv, TypeOK, StoreTypeOK, RowStatus
<1> QED BY <1>9, <1>12 DEF Call

(* How a row comes to say "processed". *)
LEMMA RowStep ==
    ASSUME TypeOK, [Next]_vars, NEW b \in Bundles, inbox'[b].status = "processed"
    PROVE  \/ inbox[b].status = "processed" /\ inbox'[b].note = inbox[b].note
           \/ \E t \in Threads : /\ pc[t] = "mark" /\ job[t].bundle = b /\ Mark(t)
                                 /\ inbox'[b].note = job[t].verdict
<1> USE DEF inboxVars, threadVars, chainVars
<1>0. inbox[b] \in Row
  BY DEF TypeOK, InboxTypeOK
<1>1. ASSUME NEW d \in Bundles, Enqueue(d) \/ BecomeDue(d)
      PROVE  inbox'[b] = inbox[b]
  <2>1. inbox[d] \in Row
    BY DEF TypeOK, InboxTypeOK
  <2>2. /\ [inbox[d] EXCEPT !.status = "pending", !.due = TRUE].status = "pending"
        /\ [inbox[d] EXCEPT !.due = TRUE].status = inbox[d].status
    BY <2>1 DEF Row
  <2>3. CASE Enqueue(d)
    BY <2>2, <2>3 DEF Enqueue, TypeOK, InboxTypeOK
  <2>4. CASE BecomeDue(d)
    BY <2>2, <2>4 DEF BecomeDue, TypeOK, InboxTypeOK
  <2> QED BY <1>1, <2>3, <2>4
<1>2. ASSUME NEW t \in Threads, ClaimBatch(t) PROVE inbox'[b] = inbox[b]
  <2>1. PICK S \in SUBSET DuePending :
          inbox' = [d \in Bundles |->
                      IF d \in S THEN [inbox[d] EXCEPT !.status = "processing", !.due = FALSE, !.note = "none"]
                                 ELSE inbox[d]]
    BY <1>2, ClaimTakes, Zenon
  <2>2. [inbox[b] EXCEPT !.status = "processing", !.due = FALSE, !.note = "none"].status = "processing"
    BY <1>0 DEF Row
  <2> QED BY <2>1, <2>2
<1>3. ASSUME NEW t \in Threads, RecordHash(t)
      PROVE  inbox'[b].status = inbox[b].status /\ inbox'[b].note = inbox[b].note
  <2>1. /\ [inbox[b] EXCEPT !.hash = job[t].hash].status = inbox[b].status
        /\ [inbox[b] EXCEPT !.hash = job[t].hash].note = inbox[b].note
    BY <1>0 DEF Row
  <2>2. \/ inbox' = inbox
        \/ inbox' = [inbox EXCEPT ![job[t].bundle] = [inbox[job[t].bundle] EXCEPT !.hash = job[t].hash]]
    BY <1>3 DEF RecordHash
  <2> QED BY <2>1, <2>2 DEF TypeOK, InboxTypeOK
<1>4. ASSUME NEW t \in Threads, ResetClaim(t) PROVE inbox'[b] = inbox[b]
  <2>1. [inbox[b] EXCEPT !.status = "pending", !.due = FALSE, !.note = "none"].status = "pending"
    BY <1>0 DEF Row
  <2>2. \/ inbox' = inbox
        \/ inbox' = [inbox EXCEPT ![job[t].bundle] =
                       [inbox[job[t].bundle] EXCEPT !.status = "pending", !.due = FALSE, !.note = "none"]]
    BY <1>4 DEF ResetClaim
  <2> QED BY <2>1, <2>2 DEF TypeOK, InboxTypeOK
<1>5. ASSUME NEW t \in Threads, Mark(t)
      PROVE  inbox'[b] = inbox[b] \/ (job[t].bundle = b /\ inbox'[b].note = job[t].verdict)
  <2>1. [inbox[b] EXCEPT !.status = "processed", !.note = job[t].verdict].note = job[t].verdict
    BY <1>0 DEF Row
  <2>2. \/ inbox' = inbox
        \/ inbox' = [inbox EXCEPT ![job[t].bundle] =
                       [inbox[job[t].bundle] EXCEPT !.status = "processed", !.note = job[t].verdict]]
    BY <1>5 DEF Mark
  <2> QED BY <2>1, <2>2 DEF TypeOK, InboxTypeOK
<1>6. ASSUME NEW t \in Threads,
             \/ EndBatch(t) \/ Probe(t) \/ Ready(t) \/ ReserveRow(t) \/ Receipt(t) \/ Canonical(t) \/ Throw(t)
             \/ \E h \in Hashes : Send(t, h)
             \/ \E d \in Bundles : OpenRecord(t, d) \/ DeliverByWaku(t, d)
      PROVE  inbox'[b] = inbox[b]
  BY <1>6 DEF EndBatch, Probe, Ready, ReserveRow, Receipt, Canonical, Throw, Send, OpenRecord, DeliverByWaku
<1>7. ASSUME \/ \E q \in Procs : Crash(q)
             \/ \E d \in Calls : Expire(d)
             \/ ChainStep \/ UNCHANGED vars
      PROVE  inbox'[b] = inbox[b]
  BY <1>7 DEF Crash, Expire, ChainStep, Mine, Reorganise, Finalise, ForeignSpend, vars
<1>8. \A t \in Threads : Mark(t) => pc[t] = "mark"
  BY DEF Mark
<1> QED BY <1>1, <1>2, <1>3, <1>4, <1>5, <1>6, <1>7, <1>8 DEF Next, ThreadStep, BundleStep

LEMMA TruthStep == IInv /\ FlightIsHeld /\ TruthInv /\ [Next]_vars => TruthInv'
<1> SUFFICES ASSUME IInv, FlightIsHeld, TruthInv, [Next]_vars PROVE TruthInv'
  OBVIOUS
<1>0. TypeOK
  BY DEF IInv
<1>1. ASSUME NEW b \in Bundles, inbox'[b].status = "processed" PROVE Truth(CallOf[b], inbox[b].note)'
  <2>1. CallOf[b] \in Calls
    BY BundlesAssumption
  <2>2. CASE inbox[b].status = "processed" /\ inbox'[b].note = inbox[b].note
    <3>1. Truth(CallOf[b], inbox[b].note)
      BY <2>2 DEF TruthInv
    <3>2. \A note : Truth(CallOf[b], note) => Truth(CallOf[b], note)'
      BY <2>1, TruthStays
    <3> QED BY <2>2, <3>1, <3>2 DEF Truth, Dead, Call
  <2>3. CASE \E t \in Threads : /\ pc[t] = "mark" /\ job[t].bundle = b
                                /\ inbox'[b].note = job[t].verdict
    <3>1. PICK t \in Threads : pc[t] = "mark" /\ job[t].bundle = b /\ inbox'[b].note = job[t].verdict
      BY <2>3
    <3>2. Truth(CallOf[b], job[t].verdict)
      BY <3>1 DEF TruthInv, Call
    <3>3. \A note : Truth(CallOf[b], note) => Truth(CallOf[b], note)'
      BY <2>1, TruthStays
    <3> QED BY <3>1, <3>2, <3>3 DEF Truth, Dead, Call
  <2> QED BY <1>0, <1>1, <2>2, <2>3, RowStep
<1>2. ASSUME NEW t \in Threads, pc'[t] = "mark" PROVE Truth(Call(t), job[t].verdict)'
  <2>0. Call(t)' = Call(t) /\ Call(t) \in Calls
    <3>1. pc'[t] \notin {"idle", "next"} => job'[t].bundle \in Bundles
      BY <1>0, TypeStep DEF TypeOK, ThreadTypeOK
    <3>2. Call(t)' = Call(t)
      BY <1>0, <1>2, WhoMoves, ToMark
    <3> QED BY <1>2, <3>1, <3>2, BundlesAssumption DEF Call
  <2>1. ASSUME NEW note, Truth(Call(t), note), job'[t].verdict = note PROVE Truth(Call(t), job[t].verdict)'
    <3>1. \A c \in Calls : Truth(c, note) => Truth(c, note)'
      BY TruthStays
    <3>2. \A c \in Calls : Truth(c, note)' => (c = Call(t)' => Truth(Call(t), job[t].verdict)')
      BY <2>1 DEF Truth, Dead
    <3> QED BY <2>0, <2>1, <3>1, <3>2
  <2>2. CASE pc[t] = "mark" /\ job'[t] = job[t]
    BY <2>1, <2>2 DEF TruthInv
  <2>3. CASE pc[t] = "ready" /\ Call(t) \in expired /\ job'[t].verdict = "expired"
    <3>1. ASSUME OneProcess, NEW u \in Threads, pc[u] = "reserve" PROVE Call(u) # Call(t)
      <4>1. u # t /\ ProcOf[u] = ProcOf[t] /\ pc[t] \in Active /\ pc[u] \in Active
        BY <2>3, <3>1, ThreadsAssumption DEF OneProcess, Active
      <4>2. Inputs(u) \cap Inputs(t) = {}
        BY <4>1 DEF FlightIsHeld
      <4> QED BY <2>0, <4>2, InputsAssumption DEF Inputs
    <3>2. OneProcess => Dead(Call(t))
      BY <2>3, <3>1 DEF Dead, TruthInv
    <3> QED BY <2>1, <2>3, <3>2 DEF Truth
  <2>4. CASE /\ pc[t] = "canonical" /\ job[t].hash \in final
             /\ job'[t].verdict = IF txState[job[t].hash] = "success" THEN "ok" ELSE "reverted"
    <3>1. rowHash[Call(t)] = job[t].hash
      BY <2>4 DEF TruthInv
    <3>2. Mined(job[t].hash)
      BY <2>4 DEF TruthInv
    <3> QED BY <2>1, <2>4, <3>1, <3>2 DEF Truth, Mined
  <2> QED BY <1>0, <1>2, <2>2, <2>3, <2>4, WhoMoves, ToMark
<1>3. ASSUME NEW t \in Threads, pc'[t] \in {"receipt", "record", "canonical"}
      PROVE  rowHash'[Call(t)'] = job'[t].hash
  <2>1. CASE pc'[t] = pc[t] /\ job'[t] = job[t] /\ Call(t)' = Call(t)
    <3>1. rowHash[Call(t)] = job[t].hash /\ job[t].hash # NoHash /\ Call(t) \in Calls
      BY <1>3, <2>1, CallTyped, NoHashAssumption DEF TruthInv, IInv, ThreadsRememberTheirCall, TypeOK
    <3> QED BY <2>1, <3>1, TableStep
  <2>2. CASE ThreadStep(t)
    BY <1>3, <2>2, ToSettlement DEF TruthInv
  <2> QED BY <1>0, <1>3, <2>1, <2>2, WhoMoves
<1>4. ASSUME OneProcess, NEW t \in Threads, pc'[t] = "ready" PROVE rowStatus'[Call(t)'] = "absent"
  <2>1. CASE pc'[t] = pc[t] /\ Call(t)' = Call(t)
    <3>1. rowStatus[Call(t)] = "absent" /\ Call(t) \in Calls
      BY <1>0, <1>4, <2>1, CallTyped DEF TruthInv, TypeOK
    <3>2. ASSUME NEW u \in Threads, pc[u] = "reserve" PROVE Call(u) # Call(t)
      <4>1. u # t /\ ProcOf[u] = ProcOf[t] /\ pc[t] \in Active /\ pc[u] \in Active
        BY <1>4, <2>1, <3>2, ThreadsAssumption DEF OneProcess, Active
      <4>2. Inputs(u) \cap Inputs(t) = {}
        BY <4>1 DEF FlightIsHeld
      <4> QED BY <3>1, <4>2, InputsAssumption DEF Inputs
    <3> QED BY <2>1, <3>1, <3>2, TableStep
  <2>2. CASE ThreadStep(t)
    BY <1>4, <2>2, ToReady
  <2> QED BY <1>0, <1>4, <2>1, <2>2, WhoMoves
<1>5. \A c \in Calls : rowStatus'[c] # "released"
  BY TableStep
<1>6. \A h \in final' : Mined(h)'
  BY <1>0, FinalIsMined DEF TruthInv
<1> QED BY <1>1, <1>2, <1>3, <1>4, <1>5, <1>6 DEF TruthInv

LEMMA TruthAlways == Spec => []TruthInv
  BY TruthInit, TruthStep, TypeCorrect, FlightInit, FlightStep, IInvAlways, PTL DEF Spec

(* An inbox row that was closed with a settlement tells the truth about the *)
(* chain for ever, with any number of bot processes.                        *)
THEOREM SettlementsAreTrue ==
    Spec => [](\A b \in Bundles : inbox[b].status = "processed" =>
                  LET h == rowHash[CallOf[b]]
                  IN /\ inbox[b].note = "ok" => h \in final /\ txState[h] = "success"
                     /\ inbox[b].note = "reverted" => h \in final /\ txState[h] = "reverted")
<1>1. TruthInv => \A b \in Bundles : inbox[b].status = "processed" =>
                  LET h == rowHash[CallOf[b]]
                  IN /\ inbox[b].note = "ok" => h \in final /\ txState[h] = "success"
                     /\ inbox[b].note = "reverted" => h \in final /\ txState[h] = "reverted"
  BY DEF TruthInv, Truth
<1> QED BY <1>1, TruthAlways, PTL

(* ... and with a single process, which is how the bot is deployed between  *)
(* restarts, a record dropped as expired was not and will not be broadcast. *)
THEOREM ClosedRowsTellTheTruth ==
    ASSUME OneProcess
    PROVE  Spec => []ProcessedTellsTheTruth
<1>1. IInv /\ TruthInv => ProcessedTellsTheTruth
  <2> SUFFICES ASSUME IInv, TruthInv, NEW b \in Bundles, inbox[b].status = "processed"
               PROVE  LET h == rowHash[CallOf[b]]
                      IN CASE inbox[b].note = "ok"       -> h \in final /\ txState[h] = "success"
                           [] inbox[b].note = "reverted" -> h \in final /\ txState[h] = "reverted"
                           [] inbox[b].note = "expired"  -> \A sent \in Hashes : txCall[sent] # CallOf[b]
                           [] OTHER -> TRUE
    BY DEF ProcessedTellsTheTruth
  <2>1. Truth(CallOf[b], inbox[b].note) /\ CallOf[b] \in Calls
    BY BundlesAssumption DEF TruthInv
  <2>2. CASE inbox[b].note = "expired"
    <3>1. rowStatus[CallOf[b]] = "absent"
      BY <2>1, <2>2, OneProcess DEF Truth, Dead
    <3>2. \A h \in Hashes : txCall[h] # CallOf[b]
      BY <2>1, <3>1, SentIsItsCalls, SentinelsAssumption
    <3> QED BY <2>2, <3>2
  <2>3. CASE inbox[b].note # "expired"
    BY <2>1, <2>3 DEF Truth
  <2> QED BY <2>2, <2>3
<1> QED BY <1>1, TruthAlways, IInvAlways, PTL
=============================================================================
