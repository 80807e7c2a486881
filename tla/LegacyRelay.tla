----------------------------- MODULE LegacyRelay -----------------------------
(***************************************************************************)
(* The relay of V1/V2 bundles ("legacy") and of PoolV3 bundles (bot.ts,     *)
(* processBundle and processPoolV3Bundle), the table of pending executions  *)
(* and the reconciler, a second process that empties it.                    *)
(*                                                                         *)
(* A worker is an activation of processBundle: the callback of a Waku       *)
(* payload, which takes its bundles one after the other, or the timer of a  *)
(* retry.  Activations interleave at every await; the sets seen and         *)
(* inFlight are their shared memory, lost in a crash.  Approvals of         *)
(* cross-chain fees are left out: a bundle that would need one is dropped   *)
(* before the quote, so that code is never reached.  External: the chain,   *)
(* other spenders, Waku.                                                    *)
(***************************************************************************)
EXTENDS Naturals, Sequences, FiniteSets, Functions

CONSTANTS Legacy, V3,       \* the bundles
          Nullifiers,
          NotesOf,          \* the nullifiers of a bundle, in order
          Payloads,         \* what Waku may deliver: sequences of bundles
          Workers, NoBundle,
          RetryLimit,       \* RELAYER_PRE_SUBMIT_RETRY_LIMIT
          MaxTx,            \* bound on transactions
          MaxDeliveries,    \* bound on payloads
          MaxFaults         \* bound on exceptions, lost answers, replacements and crashes

Bundles == Legacy \cup V3

ASSUME BundlesAssumption ==
    /\ Legacy \cap V3 = {} /\ NoBundle \notin Bundles
    /\ NotesOf \in [Bundles -> Seq(Nullifiers)]
    /\ \A b \in Legacy : Len(NotesOf[b]) = 1
    /\ \A b \in V3 : NotesOf[b] # <<>>
ASSUME BoundsAssumption ==
    /\ Payloads \subseteq Seq(Bundles)
    /\ {RetryLimit, MaxTx, MaxDeliveries, MaxFaults} \subseteq Nat

Txs == 1..MaxTx
NoTx == 0

(* A nullifier of a legacy bundle, and the key of a bundle in inFlight: its  *)
(* nullifiers joined.  A pending execution is stored under its transaction,  *)
(* or under its nullifier when it has none (buildPersistenceKey).            *)
Note(b)  == NotesOf[b][1]
Notes(b) == Range(NotesOf[b])
Key(b)   == NotesOf[b]
LegacyNotes == {Note(b) : b \in Legacy}
Keys == ({"nullifier"} \X LegacyNotes) \cup ({"submitted"} \X Txs)

(* A nullifier is a hash over the secrets of a note of one of the two pools. *)
ASSUME PoolsAssumption == \A b \in Legacy, v \in V3 : Notes(b) \cap Notes(v) = {}

Resolutions == {"confirmed_success", "confirmed_failure",
                "external_success_without_receipt", "pre_submit_terminal_failure"}

VARIABLES
    pc, job,          \* where each worker stands, and its local variables
    timers,           \* the retries that wait: how many for a bundle and attempt
    seen, inFlight,   \* seenNullifiers, inFlightNullifiers
    pending, archive, \* relay_pending_executions, relay_pending_execution_archive
    rec,              \* the reconciler
    tx, foreign,      \* the transactions; nullifiers spent by somebody else (external)
    lost,             \* transactions whose hash was lost with a process, an answer or an INSERT
    deliveries, faults

memory == <<pc, job, timers, seen, inFlight>>
store  == <<pending, archive>>
chain  == <<tx, foreign>>
vars   == <<memory, store, rec, chain, lost, deliveries, faults>>

NoJob == [rest |-> <<>>, bundle |-> NoBundle, attempt |-> 0, hash |-> NoTx, timer |-> FALSE]
Unused == [state |-> "unused", bundle |-> NoBundle, by |-> NoTx]
Resting == [place |-> "off", todo |-> {}, key |-> <<>>, verdict |-> "none"]

TypeOK ==
    /\ pc \in [Workers -> {"idle", "take", "check", "send", "wait", "persist"}]
    /\ job \in [Workers -> [rest : Seq(Bundles), bundle : Bundles \cup {NoBundle},
                            attempt : 0..RetryLimit, hash : Txs \cup {NoTx}, timer : BOOLEAN]]
    /\ \A w \in Workers :
          /\ pc[w] \notin {"idle", "take"} => job[w].bundle \in Bundles
          /\ pc[w] = "wait" => job[w].hash \in Txs
          /\ pc[w] = "persist" => job[w].bundle \in Legacy
    /\ timers \in [Legacy \X (1..RetryLimit) -> Nat]
    /\ seen \subseteq Nullifiers
    /\ inFlight \subseteq {Key(b) : b \in Bundles}
    /\ pending \subseteq Keys
    /\ archive \in [Keys -> Resolutions \cup {"none"}]
    /\ rec \in [place : {"off", "pass", "archive"}, todo : SUBSET Keys,
                key : Keys \cup {<<>>}, verdict : Resolutions \cup {"none"}]
    /\ rec.place = "archive" => rec.key \in pending /\ rec.verdict # "none"
    /\ tx \in [Txs -> [state : {"unused", "mempool", "success", "failed", "replaced", "repriced"},
                       bundle : Bundles \cup {NoBundle}, by : Txs \cup {NoTx}]]
    /\ foreign \subseteq Nullifiers /\ lost \subseteq Txs
    /\ deliveries \in 0..MaxDeliveries /\ faults \in 0..MaxFaults

Init ==
    /\ pc = [w \in Workers |-> "idle"] /\ job = [w \in Workers |-> NoJob]
    /\ timers = [k \in Legacy \X (1..RetryLimit) |-> 0]
    /\ seen = {} /\ inFlight = {}
    /\ pending = {} /\ archive = [k \in Keys |-> "none"]
    /\ rec = Resting
    /\ tx = [h \in Txs |-> Unused] /\ foreign = {} /\ lost = {}
    /\ deliveries = 0 /\ faults = 0

----------------------------------------------------------------------------
(* The chain, as far as the code reads it *)

Spent == foreign \cup UNION {Notes(tx[h].bundle) : h \in {i \in Txs : tx[i].state = "success"}}

(* The transaction whose receipt waitForTransactionReceipt returns for h. *)
Mined(h) == IF tx[h].state = "repriced" THEN tx[h].by ELSE h

(* The receipt is that of whatever used the nonce: a stranger's succeeded. *)
Landed(h) == tx[Mined(h)].state \in {"success", "replaced"}
Reverted(h) == tx[Mined(h)].state = "failed"

----------------------------------------------------------------------------
(* A worker *)

Goto(w, place, rc) ==
    /\ pc' = [pc EXCEPT ![w] = place]
    /\ job' = [job EXCEPT ![w] = rc]

(* The finally clause, and on to the next bundle of the payload. *)
Done(w) ==
    /\ Goto(w, "take", [NoJob EXCEPT !.rest = job[w].rest, !.timer = job[w].timer])
    /\ inFlight' = inFlight \ {Key(job[w].bundle)}

IsLegacy(w) == job[w].bundle \in Legacy
Fault == faults < MaxFaults /\ faults' = faults + 1

(* The process dies: what it only had in memory is gone. *)
Die ==
    /\ pc' = [w \in Workers |-> "idle"] /\ job' = [w \in Workers |-> NoJob]
    /\ timers' = [k \in Legacy \X (1..RetryLimit) |-> 0]
    /\ seen' = {} /\ inFlight' = {}
    /\ lost' = lost \cup ({job[w].hash : w \in Workers} \ {NoTx})

Deliver(w, payload) ==
    /\ pc[w] = "idle" /\ deliveries < MaxDeliveries
    /\ deliveries' = deliveries + 1
    /\ Goto(w, "take", [NoJob EXCEPT !.rest = payload])
    /\ UNCHANGED <<timers, seen, inFlight, store, rec, chain, lost, faults>>

Fire(w, b, n) ==
    /\ pc[w] = "idle" /\ timers[<<b, n>>] > 0
    /\ timers' = [timers EXCEPT ![<<b, n>>] = @ - 1]
    /\ Goto(w, "take", [NoJob EXCEPT !.rest = <<b>>, !.attempt = n, !.timer = TRUE])
    /\ UNCHANGED <<seen, inFlight, store, rec, chain, lost, deliveries, faults>>

(* The bundle is opened; no await lies between the look at seen and inFlight *)
(* and the mark.  A legacy bundle that finds its key in flight is ignored,   *)
(* and its finally clause deletes the mark of the one that runs.             *)
Take(w) ==
    LET b == Head(job[w].rest)
        next == [job[w] EXCEPT !.rest = Tail(@)]
    IN /\ pc[w] = "take"
       /\ IF job[w].rest = <<>> THEN Goto(w, "idle", NoJob) /\ UNCHANGED inFlight
          ELSE IF b \in Legacy /\ Note(b) \in seen THEN Goto(w, "take", next) /\ UNCHANGED inFlight
          ELSE IF Key(b) \in inFlight
          THEN /\ Goto(w, "take", next)
               /\ inFlight' = IF b \in Legacy THEN inFlight \ {Key(b)} ELSE inFlight
          ELSE /\ Goto(w, "check", [next EXCEPT !.bundle = b])
               /\ inFlight' = inFlight \cup {Key(b)}
       /\ UNCHANGED <<timers, seen, store, rec, chain, lost, deliveries, faults>>

(* nullifierHashes of the pool. *)
Check(w) ==
    LET b == job[w].bundle
    IN /\ pc[w] = "check"
       /\ IF Notes(b) \cap Spent = {}
          THEN Goto(w, "send", job[w]) /\ UNCHANGED <<seen, inFlight>>
          ELSE Done(w) /\ seen' = IF b \in Legacy THEN seen \cup Notes(b) ELSE seen
       /\ UNCHANGED <<timers, store, rec, chain, lost, deliveries, faults>>

(* A guard drops the bundle: another relayer's, cross-chain, a zero          *)
(* recipient, a fee below the floor, a fee schedule that does not hold, the  *)
(* broadcast gate.                                                           *)
Refuse(w) ==
    /\ pc[w] = "check" /\ Done(w)
    /\ UNCHANGED <<timers, seen, store, rec, chain, lost, deliveries, faults>>

(* The catch block before a hash is known, for an error called transient: a  *)
(* timer runs the bundle again, until the limit.                             *)
GiveUpOrRetry(w) ==
    IF job[w].attempt < RetryLimit
    THEN timers' = [timers EXCEPT ![<<job[w].bundle, job[w].attempt + 1>>] = @ + 1] /\ Done(w)
    ELSE Goto(w, "persist", job[w]) /\ UNCHANGED <<timers, inFlight>>

(* ... and for any other error, or a PoolV3 bundle, the bundle is dropped. *)
Catch(w) ==
    \/ IsLegacy(w) /\ GiveUpOrRetry(w)
    \/ Done(w) /\ UNCHANGED timers

Throw(w) ==
    /\ pc[w] \in {"check", "send"} /\ Catch(w) /\ Fault
    /\ UNCHANGED <<seen, store, rec, chain, lost, deliveries>>

(* The simulation refuses what is spent by now.  The node takes the          *)
(* transaction and its answer may be lost: then no hash is known.            *)
Send(w) ==
    LET b == job[w].bundle
    IN /\ pc[w] = "send"
       /\ IF Notes(b) \cap Spent # {}
          THEN Done(w) /\ UNCHANGED <<timers, tx, lost, faults>>
          ELSE \E h \in Txs :
                  /\ tx[h].state = "unused" /\ \A i \in 1..(h - 1) : tx[i].state # "unused"
                  /\ tx' = [tx EXCEPT ![h] = [state |-> "mempool", bundle |-> b, by |-> NoTx]]
                  /\ \/ /\ Goto(w, "wait", [job[w] EXCEPT !.hash = h])
                        /\ UNCHANGED <<timers, inFlight, lost, faults>>
                     \/ Catch(w) /\ lost' = lost \cup {h} /\ Fault
       /\ UNCHANGED <<seen, store, rec, foreign, deliveries>>

(* Fault: onReplaced is not given, a replacement counts as the execution. *)
AwaitAnyReceipt(w) ==
    LET h == job[w].hash
    IN /\ pc[w] = "wait"
       /\ \/ Landed(h) /\ Done(w) /\ seen' = seen \cup Notes(job[w].bundle)
          \/ Reverted(h) /\ Done(w) /\ UNCHANGED seen
       /\ UNCHANGED <<timers, store, rec, chain, lost, deliveries, faults>>

(* Fault: an error while the receipt is awaited is treated like one before   *)
(* the submission.                                                           *)
AwaitOrRetry(w) ==
    /\ pc[w] = "wait" /\ Catch(w) /\ Fault
    /\ UNCHANGED <<seen, store, rec, chain, lost, deliveries>>

(* waitForTransactionReceipt.  A legacy worker looks at why a transaction    *)
(* was replaced, a PoolV3 worker does not.  A timeout or an error parks the  *)
(* legacy execution and drops the PoolV3 one.                                *)
Await(w) ==
    LET h == job[w].hash
    IN /\ pc[w] = "wait"
       /\ \/ /\ Landed(h) /\ ~(IsLegacy(w) /\ tx[h].state = "replaced")
             /\ Done(w) /\ seen' = seen \cup Notes(job[w].bundle) /\ UNCHANGED faults
          \/ /\ Reverted(h) \/ (IsLegacy(w) /\ tx[h].state = "replaced")
             /\ Done(w) /\ UNCHANGED <<seen, faults>>
          \/ /\ IsLegacy(w) /\ Goto(w, "persist", job[w]) /\ Fault
             /\ UNCHANGED <<seen, inFlight>>
          \/ ~IsLegacy(w) /\ Done(w) /\ Fault /\ UNCHANGED seen
       /\ UNCHANGED <<timers, store, rec, chain, lost, deliveries>>

PersistenceKey(w) == IF job[w].hash = NoTx THEN <<"nullifier", Note(job[w].bundle)>>
                                           ELSE <<"submitted", job[w].hash>>

(* persistPendingExecution inside the catch block.  When it fails, the       *)
(* exception ends the whole payload; in a timer nobody catches it and the    *)
(* process ends.                                                             *)
Persist(w) ==
    LET key == PersistenceKey(w)
    IN /\ pc[w] = "persist"
       /\ \/ pending' = pending \cup {key} /\ Done(w) /\ UNCHANGED <<timers, seen, lost, faults>>
          \/ /\ pending' \in {pending, pending \cup {key}} /\ Fault
             /\ IF job[w].timer THEN Die
                ELSE /\ Goto(w, "idle", NoJob)
                     /\ inFlight' = inFlight \ {Key(job[w].bundle)}
                     /\ lost' = lost \cup ({job[w].hash} \ {NoTx})
                     /\ UNCHANGED <<timers, seen>>
       /\ UNCHANGED <<archive, rec, chain, deliveries>>

Crash ==
    /\ Die /\ Fault
    /\ UNCHANGED <<store, rec, chain, deliveries>>

----------------------------------------------------------------------------
(* The reconciler *)

(* The advisory lock is taken and the table read once. *)
StartPass ==
    /\ rec.place = "off" /\ pending # {}
    /\ rec' = [Resting EXCEPT !.place = "pass", !.todo = pending]
    /\ UNCHANGED <<memory, store, chain, lost, deliveries, faults>>

EndPass ==
    /\ rec.place = "pass" /\ rec.todo = {}
    /\ rec' = Resting
    /\ UNCHANGED <<memory, store, chain, lost, deliveries, faults>>

NoteOf(key) == IF key[1] = "nullifier" THEN key[2] ELSE Note(tx[key[2]].bundle)

Receipt(key) == IF key[1] = "submitted" THEN tx[key[2]].state ELSE "unused"

Decide(key, verdict) ==
    rec' = [rec EXCEPT !.todo = @ \ {key}, !.place = "archive", !.key = key, !.verdict = verdict]

Keep(key) == rec' = [rec EXCEPT !.todo = @ \ {key}]

(* Without a receipt the pool is asked. *)
WithoutReceipt(key) ==
    IF NoteOf(key) \in Spent THEN Decide(key, "external_success_without_receipt")
    ELSE IF key[1] = "nullifier" THEN Decide(key, "pre_submit_terminal_failure")
    ELSE Keep(key)

(* Fault: any receipt will do. *)
InspectMined(key) ==
    /\ rec.place = "pass" /\ key \in rec.todo
    /\ IF Receipt(key) \in {"success", "failed"} THEN Decide(key, "confirmed_success")
                                                ELSE WithoutReceipt(key)
    /\ UNCHANGED <<memory, store, chain, lost, deliveries, faults>>

(* Fault: no receipt means that it is not mined yet. *)
InspectReceiptOnly(key) ==
    /\ rec.place = "pass" /\ key \in rec.todo
    /\ \/ Receipt(key) = "success" /\ Decide(key, "confirmed_success")
       \/ Receipt(key) = "failed" /\ Decide(key, "confirmed_failure")
       \/ Receipt(key) \notin {"success", "failed"} /\ key[1] = "submitted" /\ Keep(key)
       \/ key[1] = "nullifier" /\ WithoutReceipt(key)
    /\ UNCHANGED <<memory, store, chain, lost, deliveries, faults>>

(* resolveRecord.  A node that does not answer for a receipt reads like one  *)
(* that has none.                                                            *)
Inspect(key) ==
    /\ rec.place = "pass" /\ key \in rec.todo
    /\ \/ Receipt(key) = "success" /\ Decide(key, "confirmed_success") /\ UNCHANGED faults
       \/ Receipt(key) = "failed" /\ Decide(key, "confirmed_failure") /\ UNCHANGED faults
       \/ Receipt(key) \notin {"success", "failed"} /\ WithoutReceipt(key) /\ UNCHANGED faults
       \/ Receipt(key) \in {"success", "failed"} /\ WithoutReceipt(key) /\ Fault
    /\ UNCHANGED <<memory, store, chain, lost, deliveries>>

(* archiveResolvedPendingExecution: one transaction, the first resolution of *)
(* a key stays.                                                              *)
Archive ==
    /\ rec.place = "archive"
    /\ archive' = IF archive[rec.key] = "none" THEN [archive EXCEPT ![rec.key] = rec.verdict]
                                               ELSE archive
    /\ pending' = pending \ {rec.key}
    /\ rec' = [Resting EXCEPT !.place = "pass", !.todo = rec.todo]
    /\ UNCHANGED <<memory, chain, lost, deliveries, faults>>

(* An error leaves the pass; the lock is released and the loop goes on. *)
AbortPass ==
    /\ rec.place # "off" /\ rec' = Resting /\ Fault
    /\ UNCHANGED <<memory, store, chain, lost, deliveries>>

----------------------------------------------------------------------------
(* The environment *)

(* A withdrawal of what is spent fails, any other may (gas, a paused token). *)
Outcomes(b) == IF Notes(b) \cap Spent = {} THEN {"success", "failed"} ELSE {"failed"}

Mine(h) ==
    /\ tx[h].state = "mempool"
    /\ \E outcome \in Outcomes(tx[h].bundle) : tx' = [tx EXCEPT ![h].state = outcome]
    /\ UNCHANGED <<memory, store, rec, foreign, lost, deliveries, faults>>

(* Another transaction of the account takes the nonce: a different one, or   *)
(* the same call at another price, which is mined as g.                      *)
Replace(h) ==
    /\ tx[h].state = "mempool" /\ Fault
    /\ \/ tx' = [tx EXCEPT ![h].state = "replaced"]
       \/ \E g \in Txs, outcome \in Outcomes(tx[h].bundle) :
             /\ tx[g].state = "unused"
             /\ tx' = [tx EXCEPT ![h].state = "repriced", ![h].by = g,
                          ![g] = [state |-> outcome, bundle |-> tx[h].bundle, by |-> NoTx]]
    /\ UNCHANGED <<memory, store, rec, foreign, lost, deliveries>>

SpendElsewhere(n) ==
    /\ n \notin Spent /\ Fault
    /\ foreign' = foreign \cup {n}
    /\ UNCHANGED <<memory, store, rec, tx, lost, deliveries>>

----------------------------------------------------------------------------
WorkerStep(w) ==
    \/ Take(w) \/ Check(w) \/ Refuse(w) \/ Throw(w) \/ Send(w) \/ Await(w) \/ Persist(w)

ReconcilerStep == StartPass \/ EndPass \/ Archive \/ \E key \in Keys : Inspect(key)

Next ==
    \/ \E w \in Workers : \/ WorkerStep(w)
                          \/ \E p \in Payloads : Deliver(w, p)
                          \/ \E b \in Legacy, n \in 1..RetryLimit : Fire(w, b, n)
    \/ ReconcilerStep \/ AbortPass \/ Crash
    \/ \E h \in Txs : Mine(h) \/ Replace(h)
    \/ \E n \in Nullifiers : SpendElsewhere(n)

Spec == Init /\ [][Next]_vars

(* Only the reconciler's loop is relied on: it never returns, whatever a     *)
(* pass throws.                                                              *)
FairSpec == Spec /\ WF_vars(ReconcilerStep)

----------------------------------------------------------------------------
(* Properties *)

(* The two sets in memory tell the truth: seen holds no unspent nullifier of *)
(* a legacy bundle, which would refuse it until the next restart, and a mark *)
(* in flight belongs to an activation that runs.                             *)
MarksAreTrue ==
    /\ seen \cap LegacyNotes \subseteq Spent
    /\ \A k \in inFlight : \E w \in Workers : job[w].bundle # NoBundle /\ Key(job[w].bundle) = k

(* What the archive says of an execution is so: a success is a success on    *)
(* chain and a failure one of that very transaction.  It says nothing of     *)
(* pre_submit_terminal_failure, which may be archived of a spent nullifier.  *)
ArchiveIsTrue ==
    \A key \in Keys :
        /\ archive[key] \in {"confirmed_success", "external_success_without_receipt"}
              => NoteOf(key) \in Spent
        /\ archive[key] = "confirmed_failure" => Receipt(key) = "failed"

(* A legacy transaction that may still be mined is awaited by a worker or    *)
(* stored for the reconciler, which drops it only when its nullifier is      *)
(* spent, unless its hash was lost with a process, an answer or an INSERT.   *)
NoSubmissionForgotten ==
    \A h \in Txs \ lost :
        (tx[h].state = "mempool" /\ tx[h].bundle \in Legacy) =>
            \/ \E w \in Workers : pc[w] \in {"wait", "persist"} /\ job[w].hash = h
            \/ <<"submitted", h>> \in pending
            \/ Note(tx[h].bundle) \in Spent

(* A pending execution whose fate is known leaves the table: its receipt     *)
(* exists, its nullifier is spent, or it was never submitted.                *)
ResolvableIsArchived ==
    \A key \in Keys :
        (key \in pending /\ (\/ key[1] = "nullifier"
                             \/ Receipt(key) \in {"success", "failed"}
                             \/ NoteOf(key) \in Spent)) ~> key \notin pending
=============================================================================
