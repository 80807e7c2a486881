----------------------------- MODULE PoolV4Relay -----------------------------
(***************************************************************************)
(* The relay of private PoolV4 spends: bundles reach the bot through the   *)
(* Postgres inbox (relay_private_inbox) or over Waku, and processPoolV4-   *)
(* Bundle of bot.ts takes each through retention, broadcast and settlement *)
(* while other polls, other Waku callbacks and other bot processes do the  *)
(* same, any of which may crash between two steps.                         *)
(*                                                                         *)
(* A thread is one activation of pollRelayInbox (setInterval starts one    *)
(* whether or not the last has returned) or one Waku callback.  Each       *)
(* action is the code from one await to the next.  The chain is external:  *)
(* a transaction waits in the mempool, is mined, may be unmined by a       *)
(* reorganisation, and becomes final; outsiders spend nullifiers too.      *)
(* Bundles are those the box key opens to a valid V4 payload.              *)
(***************************************************************************)
EXTENDS RetentionStore, Naturals

CONSTANTS Bundles,      \* raw bundles, one inbox row each (bundle_key)
          CallOf,       \* CallOf[b] is the pool call the payload of b prepares
          WakuBundles,  \* those that also travel over Waku
          Procs,        \* bot processes that share the database
          Threads,      \* polls and Waku callbacks
          ProcOf,       \* ProcOf[t] is the process t runs in
          NoBundle, NoCall,
          BatchLimit,   \* limit of claimRelayInboxBatch (10 in the code)
          MaxCrashes    \* bound on process crashes

ASSUME BundlesAssumption ==
    IsFiniteSet(Bundles) /\ CallOf \in [Bundles -> Calls] /\ WakuBundles \subseteq Bundles
ASSUME ThreadsAssumption == ProcOf \in [Threads -> Procs]
ASSUME SentinelsAssumption == NoBundle \notin Bundles /\ NoCall \notin Calls
ASSUME BoundsAssumption == BatchLimit \in Nat \ {0} /\ MaxCrashes \in Nat

VARIABLES
    inbox,      \* the rows of relay_private_inbox
    arrival,    \* received_at of each row, as a rank
    pc,         \* where each thread stands
    queue,      \* claimed records the thread's for loop has still to process
    job,        \* the bundle the thread is processing
    inFlight,   \* inFlightNullifiers, per process
    expired,    \* calls whose fee schedule has expired
    txCall, txState, final,     \* the chain: what a transaction carries, where it is
    foreign,    \* nullifiers spent by transactions that are not this relayer's
    crashes

inboxVars  == <<inbox, arrival>>
threadVars == <<pc, queue, job, inFlight>>
chainVars  == <<txCall, txState, final, foreign>>
vars == <<storeVars, inboxVars, threadVars, chainVars, expired, crashes>>

RowState == {"absent", "pending", "processing", "processed"}
Note     == {"none", "ok", "reverted", "expired"}
Row      == [status : RowState, due : BOOLEAN, note : Note, hash : Hashes \cup {NoHash}]
NoRow    == [status |-> "absent", due |-> FALSE, note |-> "none", hash |-> NoHash]
Job      == [bundle : Bundles \cup {NoBundle}, source : {"none", "inbox", "waku"},
             hash : Hashes \cup {NoHash}, verdict : Note]
NoJob    == [bundle |-> NoBundle, source |-> "none", hash |-> NoHash, verdict |-> "none"]
TxState  == {"unused", "mempool", "success", "reverted"}

(* From the in-flight check to the finally of processPoolV4Bundle. *)
Active == {"probe", "ready", "reserve", "send", "recordSent", "receipt", "record", "canonical"}
Place  == Active \cup {"idle", "next", "mark", "reset"}

InboxTypeOK ==
    /\ inbox \in [Bundles -> Row]
    /\ arrival \in [Bundles -> Nat]

ThreadTypeOK ==
    /\ pc \in [Threads -> Place]
    /\ queue \in [Threads -> SUBSET Bundles]
    /\ job \in [Threads -> Job]
    /\ \A t \in Threads : pc[t] \notin {"idle", "next"} => job[t].bundle \in Bundles
    /\ inFlight \in [Procs -> SUBSET Nullifiers]

ChainTypeOK ==
    /\ txCall \in [Hashes -> Calls \cup {NoCall}]
    /\ txState \in [Hashes -> TxState]
    /\ final \subseteq Hashes
    /\ foreign \subseteq Nullifiers

TypeOK ==
    /\ StoreTypeOK
    /\ InboxTypeOK
    /\ ThreadTypeOK
    /\ ChainTypeOK
    /\ expired \subseteq Calls
    /\ crashes \in Nat

Init ==
    /\ StoreInit
    /\ inbox = [b \in Bundles |-> NoRow]
    /\ arrival = [b \in Bundles |-> 0]
    /\ pc = [t \in Threads |-> "idle"]
    /\ queue = [t \in Threads |-> {}]
    /\ job = [t \in Threads |-> NoJob]
    /\ inFlight = [p \in Procs |-> {}]
    /\ expired = {}
    /\ txCall = [h \in Hashes |-> NoCall]
    /\ txState = [h \in Hashes |-> "unused"]
    /\ final = {}
    /\ foreign = {}
    /\ crashes = 0

----------------------------------------------------------------------------
(* Helpers *)

Call(t)   == CallOf[job[t].bundle]
Inputs(t) == InputsOf[Call(t)]

Mined(h) == txState[h] \in {"success", "reverted"}

ChainSpent ==
    foreign \cup UNION {InputsOf[txCall[h]] : h \in {g \in Hashes : txState[g] = "success"}}

(* Fault: the claim query forgot that a processing row is taken. *)
DueUnfinished == {b \in Bundles : inbox[b].status = "processing" \/
                                  (inbox[b].status = "pending" /\ inbox[b].due)}

DuePending == {b \in Bundles : inbox[b].status = "pending" /\ inbox[b].due}

Goto(t, place) == pc' = [pc EXCEPT ![t] = place]

(* The finally block: the thread takes its own inputs out of the set. *)
LeaveFlight(t) == inFlight' = [inFlight EXCEPT ![ProcOf[t]] = @ \ Inputs(t)]

(* processPoolV4Bundle ends with a verdict.  An inbox record goes on to     *)
(* where, a bundle from Waku is done (its errors are logged and dropped).   *)
End(t, verdict, where) ==
    /\ LeaveFlight(t)
    /\ UNCHANGED queue
    /\ IF job[t].source = "inbox"
       THEN /\ Goto(t, where)
            /\ job' = [job EXCEPT ![t] = [@ EXCEPT !.hash = NoHash, !.verdict = verdict]]
       ELSE /\ Goto(t, "idle")
            /\ job' = [job EXCEPT ![t] = NoJob]

(* ... by an exception that asks for the record to be retried later. *)
Fail(t) == End(t, "none", "reset")

(* The thread dies with its loop: an exception leaves pollRelayInbox. *)
Abort(t) ==
    /\ Goto(t, "idle")
    /\ queue' = [queue EXCEPT ![t] = {}]
    /\ job' = [job EXCEPT ![t] = NoJob]

----------------------------------------------------------------------------
(* The inbox *)

(* enqueueRelayInboxBundle, here or in the web API: ON CONFLICT DO NOTHING. *)
Enqueue(b) ==
    /\ inbox[b].status = "absent"
    /\ inbox' = [inbox EXCEPT ![b] = [@ EXCEPT !.status = "pending", !.due = TRUE]]
    /\ arrival' = [arrival EXCEPT
                     ![b] = Cardinality({d \in Bundles : inbox[d].status # "absent"}) + 1]
    /\ UNCHANGED <<storeVars, threadVars, chainVars, expired, crashes>>

(* next_attempt_at of a reset row passes. *)
BecomeDue(b) ==
    /\ inbox[b].status = "pending" /\ ~inbox[b].due
    /\ inbox' = [inbox EXCEPT ![b].due = TRUE]
    /\ UNCHANGED <<storeVars, arrival, threadVars, chainVars, expired, crashes>>

(* claimRelayInboxBatch: the first BatchLimit due rows in order of arrival.  *)
(* (due only matters to a pending row, so a claim clears it.)               *)
ClaimBatch(t) ==
    /\ pc[t] = "idle"
    /\ \E S \in (SUBSET DuePending) \ {{}} :
        /\ Cardinality(S) = BatchLimit \/ (S = DuePending /\ Cardinality(S) < BatchLimit)
        /\ \A b \in S, d \in DuePending \ S : arrival[b] < arrival[d]
        /\ inbox' = [b \in Bundles |->
                        IF b \in S THEN [inbox[b] EXCEPT !.status = "processing", !.due = FALSE,
                                                         !.note = "none"]
                                   ELSE inbox[b]]
        /\ queue' = [queue EXCEPT ![t] = S]
    /\ Goto(t, "next")
    /\ UNCHANGED <<storeVars, arrival, job, inFlight, chainVars, expired, crashes>>

(* The loop takes a record (in whatever order RETURNING gave them) and opens *)
(* it; an input already in flight in this process defers the record.         *)
OpenRecord(t, b) ==
    /\ pc[t] = "next" /\ b \in queue[t]
    /\ queue' = [queue EXCEPT ![t] = @ \ {b}]
    /\ job' = [job EXCEPT ![t] = [NoJob EXCEPT !.bundle = b, !.source = "inbox"]]
    /\ IF InputsOf[CallOf[b]] \cap inFlight[ProcOf[t]] = {}
       THEN /\ Goto(t, "probe")
            /\ inFlight' = [inFlight EXCEPT ![ProcOf[t]] = @ \cup InputsOf[CallOf[b]]]
       ELSE Goto(t, "reset") /\ UNCHANGED inFlight
    /\ UNCHANGED <<storeVars, inboxVars, chainVars, expired, crashes>>

EndBatch(t) ==
    /\ pc[t] = "next" /\ queue[t] = {}
    /\ Abort(t)
    /\ UNCHANGED <<storeVars, inboxVars, inFlight, chainVars, expired, crashes>>

(* Fault: a Waku payload skips the in-flight check. *)
DeliverUnchecked(t, b) ==
    /\ pc[t] = "idle" /\ b \in WakuBundles
    /\ Goto(t, "probe")
    /\ job' = [job EXCEPT ![t] = [NoJob EXCEPT !.bundle = b, !.source = "waku"]]
    /\ inFlight' = [inFlight EXCEPT ![ProcOf[t]] = @ \cup InputsOf[CallOf[b]]]
    /\ UNCHANGED <<storeVars, inboxVars, queue, chainVars, expired, crashes>>

(* A Waku payload: processed at once, and dropped when an input is in flight. *)
DeliverByWaku(t, b) ==
    /\ pc[t] = "idle" /\ b \in WakuBundles
    /\ InputsOf[CallOf[b]] \cap inFlight[ProcOf[t]] = {}
    /\ Goto(t, "probe")
    /\ job' = [job EXCEPT ![t] = [NoJob EXCEPT !.bundle = b, !.source = "waku"]]
    /\ inFlight' = [inFlight EXCEPT ![ProcOf[t]] = @ \cup InputsOf[CallOf[b]]]
    /\ UNCHANGED <<storeVars, inboxVars, queue, chainVars, expired, crashes>>

(* markRelayInboxProcessed.  When it fails, a settled record is caught and  *)
(* reset, but a reverted or expired one is marked inside the catch block:   *)
(* the exception leaves the loop.  The UPDATE may have committed anyway.    *)
Mark(t) ==
    LET b == job[t].bundle
        marked == [inbox EXCEPT ![b] = [@ EXCEPT !.status = "processed", !.note = job[t].verdict]]
    IN /\ pc[t] = "mark"
       /\ \/ inbox' = marked /\ Goto(t, "next") /\ job' = [job EXCEPT ![t] = NoJob]
             /\ UNCHANGED queue
          \/ inbox' \in {inbox, marked}
             /\ IF job[t].verdict = "ok"
                THEN /\ Goto(t, "reset") /\ UNCHANGED queue
                     /\ job' = [job EXCEPT ![t] = [@ EXCEPT !.verdict = "none"]]
                ELSE Abort(t)
       /\ UNCHANGED <<storeVars, arrival, inFlight, chainVars, expired, crashes>>

(* resetRelayInboxClaim, in the catch block: a failure leaves the loop. *)
ResetClaim(t) ==
    LET b == job[t].bundle
        reset == [inbox EXCEPT ![b] = [@ EXCEPT !.status = "pending", !.due = FALSE, !.note = "none"]]
    IN /\ pc[t] = "reset"
       /\ \/ inbox' = reset /\ Goto(t, "next") /\ job' = [job EXCEPT ![t] = NoJob]
             /\ UNCHANGED queue
          \/ inbox' \in {inbox, reset} /\ Abort(t)
       /\ UNCHANGED <<storeVars, arrival, inFlight, chainVars, expired, crashes>>

----------------------------------------------------------------------------
(* processPoolV4Bundle *)

(* Fault: a retained row is deferred whether or not it has its hash. *)
ProbeBlind(t) ==
    /\ pc[t] = "probe"
    /\ \/ IsFresh(Call(t)) /\ Goto(t, "ready") /\ UNCHANGED <<queue, job, inFlight>>
       \/ ~IsFresh(Call(t)) /\ Fail(t)
    /\ UNCHANGED <<storeVars, inboxVars, chainVars, expired, crashes>>

(* Fault: the fee schedule is checked before the table is asked. *)
ProbeExpiryFirst(t) ==
    /\ pc[t] = "probe"
    /\ \/ Call(t) \in expired /\ End(t, "expired", "mark")
       \/ Call(t) \notin expired /\ IsFresh(Call(t)) /\ Goto(t, "ready")
          /\ UNCHANGED <<queue, job, inFlight>>
    /\ UNCHANGED <<storeVars, inboxVars, chainVars, expired, crashes>>

(* retainPoolV4RelayExecution(identity, false).  A retained row without a   *)
(* hash is "uncertain and remains retained": the record is deferred.        *)
Probe(t) ==
    /\ pc[t] = "probe"
    /\ \/ IsFresh(Call(t)) /\ Goto(t, "ready") /\ UNCHANGED <<queue, job, inFlight>>
       \/ /\ IsPrior(Call(t)) /\ rowHash[Call(t)] # NoHash
          /\ Goto(t, "record")
          /\ job' = [job EXCEPT ![t].hash = rowHash[Call(t)]]
          /\ UNCHANGED <<queue, inFlight>>
       \/ IsPrior(Call(t)) /\ rowHash[Call(t)] = NoHash /\ Fail(t)
       \/ (IsConflict(Call(t)) \/ IsRetired(Call(t))) /\ Fail(t)
    /\ UNCHANGED <<storeVars, inboxVars, chainVars, expired, crashes>>

(* Fault: the call is broadcast on the probe alone, with no row inserted. *)
ReadyUnreserved(t) ==
    /\ pc[t] = "ready" /\ Inputs(t) \cap ChainSpent = {} /\ Goto(t, "send")
    /\ UNCHANGED <<storeVars, inboxVars, queue, job, inFlight, chainVars, expired, crashes>>

(* assertPoolV4ExecutionReady at the latest block: spent inputs first, then *)
(* the fee schedule, whose expiry ends an inbox record.                     *)
Ready(t) ==
    /\ pc[t] = "ready"
    /\ IF Inputs(t) \cap ChainSpent # {} THEN Fail(t)
       ELSE IF Call(t) \in expired THEN End(t, "expired", "mark")
       ELSE Goto(t, "reserve") /\ UNCHANGED <<queue, job, inFlight>>
    /\ UNCHANGED <<storeVars, inboxVars, chainVars, expired, crashes>>

(* Fault: claimed.fresh is not looked at. *)
ReserveRowUnread(t) ==
    /\ pc[t] = "reserve"
    /\ Reserve(Call(t)) \/ (IsPrior(Call(t)) /\ UNCHANGED storeVars)
    /\ Goto(t, "send")
    /\ UNCHANGED <<inboxVars, queue, job, inFlight, chainVars, expired, crashes>>

(* retainPoolV4RelayExecution(identity): the row is inserted, or another    *)
(* thread was faster.  The INSERT may commit and its answer be lost.        *)
ReserveRow(t) ==
    /\ pc[t] = "reserve"
    /\ \/ /\ Reserve(Call(t))
          /\ Goto(t, "send") /\ UNCHANGED <<queue, job, inFlight>>
       \/ Reserve(Call(t)) /\ Fail(t)
       \/ ~IsFresh(Call(t)) /\ Fail(t) /\ UNCHANGED storeVars
    /\ UNCHANGED <<inboxVars, chainVars, expired, crashes>>

(* sendTransaction: the node takes the transaction; its answer may be lost. *)
Send(t, h) ==
    /\ pc[t] = "send" /\ txState[h] = "unused"
    /\ txState' = [txState EXCEPT ![h] = "mempool"]
    /\ txCall' = [txCall EXCEPT ![h] = Call(t)]
    /\ \/ /\ Goto(t, "recordSent")
          /\ job' = [job EXCEPT ![t].hash = h]
          /\ UNCHANGED <<queue, inFlight>>
       \/ Fail(t)
    /\ UNCHANGED <<storeVars, inboxVars, final, foreign, expired, crashes>>

(* Fault: no transaction around the two UPDATEs, the inbox first. *)
RecordHashInPieces(t) ==
    LET b == job[t].bundle
    IN /\ pc[t] \in {"recordSent", "record"} /\ CanRecord(Call(t), job[t].hash)
       /\ inbox' = IF inbox[b].status = "absent" THEN inbox
                   ELSE [inbox EXCEPT ![b].hash = job[t].hash]
       /\ Fail(t)
       /\ UNCHANGED <<storeVars, arrival, chainVars, expired, crashes>>

(* recordPoolV4RelaySubmission: from onSubmitted, and again before the      *)
(* settlement is read.  One transaction updates the row and the inbox.      *)
RecordHash(t) ==
    LET b == job[t].bundle
        h == job[t].hash
    IN /\ pc[t] \in {"recordSent", "record"}
       /\ RecordSubmission(Call(t), h)
       /\ inbox' = IF inbox[b].status # "absent" /\ inbox[b].hash \in {NoHash, h}
                   THEN [inbox EXCEPT ![b].hash = h] ELSE inbox
       /\ \/ /\ Goto(t, IF pc[t] = "recordSent" THEN "receipt" ELSE "canonical")
             /\ UNCHANGED <<queue, job, inFlight>>
          \/ Fail(t)
       /\ UNCHANGED <<arrival, chainVars, expired, crashes>>

(* waitForTransactionReceipt returns a receipt, final or not. *)
Receipt(t) ==
    /\ pc[t] = "receipt" /\ Mined(job[t].hash)
    /\ Goto(t, "record")
    /\ UNCHANGED <<storeVars, inboxVars, queue, job, inFlight, chainVars, expired, crashes>>

(* Fault: the receipt is believed before its block is final. *)
CanonicalUnfinal(t) ==
    LET h == job[t].hash
    IN /\ pc[t] = "canonical" /\ Mined(h) /\ txCall[h] = Call(t)
       /\ End(t, IF txState[h] = "success" THEN "ok" ELSE "reverted", "mark")
       /\ UNCHANGED <<storeVars, inboxVars, chainVars, expired, crashes>>

(* readPoolV4CanonicalReceipt: only a final transaction that carries this   *)
(* very call settles; everything else is pending (Throw).                   *)
Canonical(t) ==
    LET h == job[t].hash
    IN /\ pc[t] = "canonical" /\ h \in final /\ txCall[h] = Call(t)
       /\ End(t, IF txState[h] = "success" THEN "ok" ELSE "reverted", "mark")
       /\ UNCHANGED <<storeVars, inboxVars, chainVars, expired, crashes>>

(* Any await may throw instead: the database or the node is unreachable, a  *)
(* gate is closed, a receipt does not come in time or is not yet canonical, *)
(* the submission no longer matches its row.                                *)
Throw(t) ==
    /\ pc[t] \in Active
    /\ Fail(t)
    /\ UNCHANGED <<storeVars, inboxVars, chainVars, expired, crashes>>

----------------------------------------------------------------------------
(* The environment *)

(* A process dies: its memory goes, the database and the chain stay. *)
Crash(p) ==
    LET mine == {t \in Threads : ProcOf[t] = p}
    IN /\ crashes < MaxCrashes
       /\ crashes' = crashes + 1
       /\ pc' = [t \in Threads |-> IF t \in mine THEN "idle" ELSE pc[t]]
       /\ queue' = [t \in Threads |-> IF t \in mine THEN {} ELSE queue[t]]
       /\ job' = [t \in Threads |-> IF t \in mine THEN NoJob ELSE job[t]]
       /\ inFlight' = [inFlight EXCEPT ![p] = {}]
       /\ UNCHANGED <<storeVars, inboxVars, chainVars, expired>>

Expire(c) ==
    /\ expired' = expired \cup {c}
    /\ UNCHANGED <<storeVars, inboxVars, threadVars, chainVars, crashes>>

Mine(h) ==
    /\ txState[h] = "mempool"
    /\ \/ /\ InputsOf[txCall[h]] \cap ChainSpent = {}
          /\ txState' = [txState EXCEPT ![h] = "success"]
       \/ txState' = [txState EXCEPT ![h] = "reverted"]
    /\ UNCHANGED <<storeVars, inboxVars, threadVars, txCall, final, foreign, expired, crashes>>

Reorganise(h) ==
    /\ Mined(h) /\ h \notin final
    /\ txState' = [txState EXCEPT ![h] = "mempool"]
    /\ UNCHANGED <<storeVars, inboxVars, threadVars, txCall, final, foreign, expired, crashes>>

Finalise(h) ==
    /\ Mined(h)
    /\ final' = final \cup {h}
    /\ UNCHANGED <<storeVars, inboxVars, threadVars, txCall, txState, foreign, expired, crashes>>

ForeignSpend(n) ==
    /\ n \notin ChainSpent
    /\ foreign' = foreign \cup {n}
    /\ UNCHANGED <<storeVars, inboxVars, threadVars, txCall, txState, final, expired, crashes>>

----------------------------------------------------------------------------
BundleStep(t) ==
    \/ Probe(t) \/ Ready(t) \/ ReserveRow(t) \/ RecordHash(t) \/ Receipt(t) \/ Canonical(t)
    \/ \E h \in Hashes : Send(t, h)

ThreadStep(t) ==
    \/ ClaimBatch(t) \/ EndBatch(t) \/ Mark(t) \/ ResetClaim(t) \/ BundleStep(t) \/ Throw(t)
    \/ \E b \in Bundles : OpenRecord(t, b) \/ DeliverByWaku(t, b)

ChainStep ==
    \/ \E h \in Hashes : Mine(h) \/ Reorganise(h) \/ Finalise(h)
    \/ \E n \in Nullifiers : ForeignSpend(n)

Next ==
    \/ \E t \in Threads : ThreadStep(t)
    \/ \E b \in Bundles : Enqueue(b) \/ BecomeDue(b)
    \/ \E p \in Procs : Crash(p)
    \/ \E c \in Calls : Expire(c)
    \/ ChainStep

Spec == Init /\ [][Next]_vars

----------------------------------------------------------------------------
(* Safety *)

Sent(h) == txState[h] # "unused"

(* An input nullifier is broadcast by this relayer at most once, whatever   *)
(* crashes, loses an answer or is delivered twice: "A lost send response    *)
(* never authorizes another broadcast."                                     *)
OneBroadcastPerInput ==
    \A g, h \in Hashes :
        (g # h /\ Sent(g) /\ Sent(h)) => InputsOf[txCall[g]] \cap InputsOf[txCall[h]] = {}

(* "Retention precedes submission": a transaction on its way to the chain   *)
(* has its row in the table, so that a restart finds it fenced.             *)
RetentionPrecedesSubmission ==
    \A h \in Hashes : Sent(h) => rowStatus[txCall[h]] = "retained"

(* The hash a row records is a transaction that carries this row's call, so *)
(* the settlement read through it is about the right spend; the inbox never *)
(* shows another hash than the table.                                       *)
RecordedHashIsTheCalls ==
    /\ \A c \in Calls : rowHash[c] # NoHash => txCall[rowHash[c]] = c
    /\ \A b \in Bundles : inbox[b].hash # NoHash => inbox[b].hash = rowHash[CallOf[b]]

(* What an inbox row says of its end is true: "processed" without an error  *)
(* only when the spend is on the chain for good, POOL_V4_CANONICAL_REVERT   *)
(* only when it never will be by this transaction, and ROUTE_EXPIRED only   *)
(* when it was not and will not be broadcast.  The last holds of one        *)
(* process; with two, the other may have passed its check of the expiry.    *)
ProcessedTellsTheTruth ==
    \A b \in Bundles : inbox[b].status = "processed" =>
        LET h == rowHash[CallOf[b]]
        IN CASE inbox[b].note = "ok"       -> h \in final /\ txState[h] = "success"
             [] inbox[b].note = "reverted" -> h \in final /\ txState[h] = "reverted"
             [] inbox[b].note = "expired"  -> \A sent \in Hashes : txCall[sent] # CallOf[b]
             [] OTHER -> TRUE

(* inFlightNullifiers is exactly what the live executions of the process    *)
(* hold, and no two of them hold the same input: each finally block removes *)
(* its own keys and nobody else's.                                          *)
InFlightIsExact ==
    /\ \A p \in Procs :
          inFlight[p] = UNION {Inputs(t) : t \in {u \in Threads : ProcOf[u] = p /\ pc[u] \in Active}}
    /\ \A t, u \in Threads :
          (t # u /\ ProcOf[t] = ProcOf[u] /\ pc[t] \in Active /\ pc[u] \in Active)
              => Inputs(t) \cap Inputs(u) = {}

(* The records a poll has claimed and not finished. *)
HeldBy(t) == queue[t] \cup (IF job[t].source = "inbox" THEN {job[t].bundle} ELSE {})

(* No record is in the hands of two polls, and none that is in hand can be  *)
(* claimed again, although polls overlap and resets are unconditional.      *)
ClaimsAreExclusive ==
    /\ \A t, u \in Threads : t # u => HeldBy(t) \cap HeldBy(u) = {}
    /\ \A t \in Threads : \A b \in HeldBy(t) : inbox[b].status \in {"processing", "processed"}

(* The relay implements the fence: retained rows hold it, and a transaction *)
(* that reached the node was handed over.                                   *)
Fence == INSTANCE SpendFence
           WITH held <- {c \in Calls : rowStatus[c] = "retained"},
                handed <- {pair \in Hashes \X Calls : Sent(pair[1]) /\ txCall[pair[1]] = pair[2]}

(* Every behaviour of the relay is one the fence allows. *)
ImplementsFence == Fence!FenceSpec

(* Why the fence holds.  Retention, the chain and the threads' memory tell  *)
(* one story: who stands before sendTransaction owns a row nobody has       *)
(* broadcast for; every broadcast call has its row and only one             *)
(* transaction; and every hash a thread or a row remembers carries its call.*)
SendersOwnTheirRow ==
    \A t \in Threads : pc[t] = "send" =>
        /\ rowStatus[Call(t)] = "retained"
        /\ \A h \in Hashes : txCall[h] # Call(t)
        /\ \A u \in Threads : (u # t /\ pc[u] = "send") => Call(u) # Call(t)

BroadcastsAreRetained ==
    \A h \in Hashes :
        IF Sent(h) THEN txCall[h] \in Calls /\ rowStatus[txCall[h]] = "retained"
                   ELSE txCall[h] = NoCall

OneTransactionPerCall ==
    \A g, h \in Hashes : (Sent(g) /\ Sent(h) /\ txCall[g] = txCall[h]) => g = h

ThreadsRememberTheirCall ==
    \A t \in Threads : pc[t] \in {"recordSent", "receipt", "record", "canonical"} =>
        job[t].hash \in Hashes /\ txCall[job[t].hash] = Call(t)

IInv ==
    /\ TypeOK
    /\ FencesDisjoint
    /\ SendersOwnTheirRow
    /\ BroadcastsAreRetained
    /\ OneTransactionPerCall
    /\ ThreadsRememberTheirCall
    /\ RecordedHashIsTheCalls

----------------------------------------------------------------------------
(* Liveness *)

(* A poll lost its claim: the row says processing and no thread has it. *)
Orphaned(b) == inbox[b].status = "processing" /\ \A t \in Threads : b \notin HeldBy(t)

(* Timers fire, threads run, and what is tried again and again succeeds     *)
(* again and again: a database write that commits and answers, a step that  *)
(* does not throw, a transaction that is mined and stays.                   *)
Fairness ==
    /\ \A t \in Threads :
          /\ WF_vars(ThreadStep(t))
          /\ SF_vars(ClaimBatch(t))
          /\ SF_vars(Probe(t))
          /\ SF_vars(RecordHash(t) /\ pc'[t] \in Active)
          /\ SF_vars(Canonical(t))
          /\ SF_vars(Mark(t) /\ pc'[t] = "next")
          /\ SF_vars(ResetClaim(t) /\ pc'[t] = "next")
    /\ \A b \in Bundles : WF_vars(BecomeDue(b))
    /\ \A h \in Hashes : WF_vars(Mine(h)) /\ SF_vars(Finalise(h))

FairSpec == Spec /\ Fairness

(* Once the transaction of a call is recorded, every record of that call is *)
(* settled, through any number of exceptions, lost answers, reorganisations *)
(* and deferrals, unless its claim is orphaned.                             *)
RecordedSpendSettles ==
    \A b \in Bundles :
        (inbox[b].status \in {"pending", "processing"} /\ rowHash[CallOf[b]] # NoHash)
            ~> (inbox[b].status = "processed" \/ Orphaned(b))

(* "Queued ... for durable relayer execution": a claimed record does not    *)
(* stay claimed for ever.                                                   *)
ClaimsEnd ==
    \A b \in Bundles : inbox[b].status = "processing" ~> inbox[b].status # "processing"
=============================================================================
