# Verification of the Parly relayer

Models, model-checking runs and machine-checked proofs about the relayer of this
repository (`apps/relayer`). The repository's code is the reference: each
definition is translated from the lines `PROJECT.json` names under "map".

## 1. The system

Two programs share one Postgres database and one chain: the **bot**
(`bot.ts`, one or, during a restart, two processes) and the **reconciler**
(`reconcile-pending.ts`). The bot takes encrypted relay bundles from Waku and
from a durable inbox and turns them into pool withdrawals and payouts; its worker
loops execute encrypted jobs of the execution tables and recover payouts. The
indexer library observes deposits and produces those jobs.

| component | state | operations | what must hold |
|---|---|---|---|
| PoolV4 private relay (`bot.ts` 632-662, `pool-v4-runtime.ts`) | `inFlightNullifiers` in memory; `relay_pool_v4_executions` | retain, ready check, broadcast, record, settle | an input is broadcast at most once; a broadcast is retained first; a row settles only on a final receipt of its own call |
| Relay inbox (`pending-store.ts` 782-945, `bot.ts` 1976-2004) | `relay_private_inbox` | enqueue, claim batch, mark, reset | one poll holds a record; a closed row tells the truth; claims end |
| Execution stores (`execution-payload-store.ts`) | `relayer_execution_payloads`, `payout_execution_payloads` and their checkpoints: status, lease, attempts, hashes | acquire, renew, checkpoint, submit, defer, fail, confirm, promote | a lease fences every write; steps are checkpointed in order; no job is stranded or starved |
| One-time execution worker (`phase3/index.ts` 1828-2045, `execution-worker.ts`) | a lease held in memory | per step: renew, broadcast, receipt, checkpoint; then mark submitted | the table's hashes are the job's steps, in order |
| Native receiving backend (`receiving-runtime-v4.ts`, `receiving-jobs-v4.ts`, `receiving-funded-worker-v4.ts`) | `receiving_native_jobs_v4`, `receiving_funded_work_v4` | retain signed transaction, send, resume, refresh finalization | one transaction per step; the journal precedes the broadcast |
| PayoutV3 execution (`payout-execution-worker.ts`, `index.ts` 988-1120) | the V3 table, preparation promotions | promote, acquire, broadcast, record | a lease fences every write; a recorded delivery is neither undone nor repeated; no payout is stranded |
| Payout V4/V5/V6 checkpointed workers | local checkpoints and submissions, remote authority checkpoints | step by step, replay a submission | no step twice; recovery from a crash at any point |
| Payout V7 (`payout-v7-*.ts`) | `relay_v7_signed_calls`, shares `relay_pool_v4_executions` | prepare, retain, broadcast, retire | a retirement never frees the source of a payout that may still be broadcast |
| Legacy V1 relay and reconciler (`bot.ts` 1665-1974, `reconcile-pending*.ts`) | `inFlightNullifiers`, `relay_pending_executions`, archive | broadcast with retries, persist, resolve, archive | in-flight marks are exact; an archived success or failure is one on the chain |
| Deposit observation (`internal/indexer/*`) | deposit observations, tag registry | observe, classify, re-evaluate, reorg | no transfer is booked in two deposits; a clean payment is the only one; a reorganised payment is demoted |
| Payload producer (`execution-payload-producer.ts`) | the execution table | insert once | one job per request, immutable |
| Fee schedules and rewards (`relay-execution-fee-schedule-v2.ts`, `relay-reward*.ts`) | none | validate | caps and rounding |
| Authority and attester clients, registry sync, Waku transport, crypto and ABI packages | none of their own | requests, encodings | pure I/O and encoding |

What is hard here: polls start on a timer whether or not the last one returned;
every `await` may throw after its effect took place; memory and database must agree
after a crash; leases expire while a broadcast is pending; a transaction may be
mined, unmined, replaced or never mined.

## 2. The modules

| module | models | extends / uses |
|---|---|---|
| `SpendFence` | abstract: what the relayer promises about a private spend | |
| `RetentionStore` | table `relay_pool_v4_executions` (`pending-store.ts` 847-898) | |
| `PoolV4Relay` | `processPoolV4Bundle`, the inbox, its polls, Waku callbacks, crashes, the chain | `RetentionStore`; refines `SpendFence` |
| `ExecutionStore` | the V1 job table and its checkpoints (`execution-payload-store.ts`) | |
| `OneTimeExecution` | `runRelayerOwnedOneTimeExecutionOnce`, the bot's broadcaster, the native receiving runtime, the chain | `ExecutionStore`, which it refines |
| `CheckpointJournal` | the local checkpoints and submissions of versions 4 to 6 (`pending-store.ts`) | |
| `PayoutPromise` | abstract: which calls a checkpointed payout may make, note, checkpoint and tell, and when | |
| `CheckpointedPayout` | the V4, V5 and V6 workers, single and batch, with their downstream loops | `CheckpointJournal`; refines `PayoutPromise` |
| `PayoutLifecycle` | the public record of a payout (`shared-types`): transitions, the adapters' events | |
| `PayoutRecords` | the composition: what the adapter emits while the workers run goes through the public record | `CheckpointedPayout`, `PayoutLifecycle` |
| `PayoutV3Queue` | the V3 tables and `runPayoutV3ExecutionOnce` with overlapping ticks | |
| `PayoutV7` | the V7 runtime: one-shot signed calls, finality, retirement | `RetentionStore` |
| `LegacyRelay` | `processBundle`, `processPoolV3Bundle`, the pending records and the reconciler | |
| `FundedWork` | the funded-work queue of the native receiving backend, costs, publication, payload | |
| `DepositPairing` | pairing and booking of TIP-1022 deposits (`internal/indexer/index.ts`, `observation-worker.ts`) | |
| `FundedDeposits` | the composition: the deposits that fund the attempts | `FundedWork`, `DepositPairing` |
| `ProofQuorum` | what the answers of two attesters amount to | |
| `ExecutionPayloads` | which proofs, bundles and packages of others are accepted | |
| `FeeSchedules` | published fee schedules and rewards | |
| `RelaySchedules` | the composition: the schedules under which PoolV3 bundles are relayed | `LegacyRelay`, `FeeSchedules` |
| `MC...` | instances, small inputs and symmetries for TLC | |
| `RetentionStoreProofs`, `PoolV4RelayProofs`, `OneTimeExecutionProofs`, `PayoutV3QueueProofs`, `PayoutV7Proofs`, `LegacyRelayProofs` (also of `RelaySchedules`), `FundedWorkProofs` (also of `FundedDeposits`), `CheckpointedPayoutProofs` (also of `PayoutRecords`, `ProofQuorum`, `ExecutionPayloads`) | theorems checked by TLAPS | the module each is named after |

A definition named "Fault: ..." is a plausible mistake in the operation that follows
it. No specification uses one; each property is shown to be violated when the fault
takes the operation's place (`PROJECT.json`, "mutants"). `PayoutLifecycle`, `DepositPairing`,
`ProofQuorum`, `ExecutionPayloads` and `FeeSchedules` have no state: their operators are pure
functions of the code, evaluated by TLC on small inputs and reasoned about next to the system
that uses them.

### 2.1 RetentionStore and SpendFence

A row of the table is `rowStatus[c]`, `rowHash[c]` of a *call* (`callHash`). Each
store function runs in one transaction that first takes the advisory locks of all its
nullifiers in sorted order, so each is one operator: `Reserve`
(`retainPoolV4RelayExecution`), `RecordSubmission` (`recordPoolV4RelaySubmission`),
`Retire` (`retirePayoutV7SourceLock`). `StoreSpec` is what any client may do.

`SpendFence` is the promise of the comment at `bot.ts` 643: *"Retention precedes
submission. A lost send response never authorizes another broadcast."* A call takes a
fence over its inputs, fences held together are disjoint, a fenced call is handed to
the network once.

### 2.2 PoolV4Relay

| model | code |
|---|---|
| `inbox[b]`, `arrival[b]` | a row of `relay_private_inbox`; `received_at` |
| `pc`, `queue`, `job` of a thread | one activation of `pollRelayInbox` (or one Waku callback): the records it claimed and has not reached, the one it works on |
| `inFlight[p]` | `inFlightNullifiers` of process `p`, lost in `Crash(p)` |
| `ClaimBatch`, `OpenRecord`, `Mark`, `ResetClaim`, `EndBatch` | the statements of `pollRelayInbox` (1976-2004), one action per await |
| `DeliverByWaku` | a Waku callback reaching `processPoolV4Bundle` |
| `Probe`, `Ready`, `ReserveRow`, `Send`, `RecordHash`, `Receipt`, `Canonical` | `processPoolV4Bundle` 632-662, each from one await to the next |
| `Throw` | an await that throws: the catch and finally blocks run |
| `Mine`, `Reorganise`, `Finalise`, `ForeignSpend` | the chain (external) |

Awaits that write and then throw (a commit whose answer is lost) are their own
disjuncts of `Mark`, `ResetClaim` and `RecordHash`. Validation of the payload, its
signatures and the fee schedule are abstracted: a bundle is a valid one, and its
schedule may expire at any moment (`Expire`).

### 2.3 ExecutionStore and OneTimeExecution

| model | code |
|---|---|
| `status`, `attempts` | columns of `relayer_execution_payloads` |
| `holder[j]` | `lease_token_hash`. A token is random and known to one activation, so the model names the activation |
| `live` | rows whose `locked_until` has not passed; `LeaseEnds` passes it, at any moment |
| `older` | the order of `updated_at`, by which `Acquire` picks the candidate (`Touch` makes a row the youngest) |
| `checkpoints[j]` | rows of the `..._checkpoints` table in step order |
| `pc`, `work` of a worker | where an activation stands; its job, its confirmed hashes, its transaction |
| `journal[j][k]` | `receiving_native_jobs_v4`: signed transactions of a step |
| `txOf`, `txState`, `deep` | the chain: what a transaction does, where it is, whether it has `minimumConfirmations` |

`Take` to `RecordFailed` are the statements of `runRelayerOwnedOneTimeExecutionOnce`
(`index.ts` 1889-2045); `Look`, `Prepare` and `Resume` those of
`receiving-runtime-v4.ts` and `receiving-jobs-v4.ts`; `Send` and `Receipt` the bot's
broadcaster. A `Throw` ends an activation without a trace in the table: an exception
that is only logged, a database that is gone, a dead process.

Abstractions. A job is three steps of known content, and its encryption is the set
`Corrupt`. Step `k` succeeds on the chain when step `k - 1` is done and `k` is not; the
model has `NumSteps`, two in the runs (a step that may be done by others and a
finalization; the third of the code is a second of the first kind). A finalization may
be retained in several revisions; the number the cost budget allows is left open. Left
out: the event log, the limit of 8192 blocks on the recovery from logs, the candidate
path for test chains (`receivingCandidate`), and the lease check between signing and
the INSERT of a transaction (`Prepare` needs no lease: the model allows more).

### 2.4 CheckpointJournal, CheckpointedPayout, PayoutPromise and PayoutRecords

| model | code |
|---|---|
| `checkpoint[i][s]`, `submitted[i][s]` | rows of `relay_v4_execution_checkpoints` and `..._submissions` (V5 and V6: their own tables), with `UNIQUE (transaction_hash)` in V4 and V5 |
| `remote` | what `recordRemoteCheckpoint` told the authority |
| `status`, `spent` | the adapter's status of an intent; the shared pool withdrawal (external) |
| `pc`, `job` of a worker | an activation: a V4 bundle from the inbox, or a tick of the V5 or V6 loop (`running` is `busy`) |
| `Begin` ... `Loop`, `Visit...` | the order of steps in each worker, from the adapter's status and the journal |
| `Replay`, `Send`, `RecordSent`, `Receipt`, `RecordLocal`, `RecordRemote` | one step of any worker, from await to await |
| `BeginDownstream` | a job of the V5 (authority) or V6 (journal) downstream list |

`Init` chooses version and size, so one module covers the eight workers where they agree
and a CASE where they differ. `PublicStatus` reads the public record off the chain;
`PublicRecordFollows` says that the record takes each event and arrives there. Left out:
the leases of a claim and validation (an exception may come at any await), one bot
process only, no reorganisation, a node without the receipt counts as `pending`.

`PayoutPromise` is what the comments of the workers promise ("only after the irreversible Pool
withdrawal has a durable checkpoint", "without ever rebroadcasting the private Pool withdrawal"),
with versions, workers, replays and faults left out. It knows calls, submissions, checkpoints and
what the authority was told, and no status: a quote is accepted when an `acceptQuote` has
succeeded. `HandOver` asks that nothing known of the step is open or done and that what it rests on
is; `Win` says in which order, and how often, steps succeed. The mapping takes `tx` for the calls and
the journal for what is noted and done.

### 2.5 PayoutV3Queue

`prep` and `job` are rows of `payout_preparation_payloads` and
`payout_execution_payloads`, numbered by `created_at`; `checkpoint` the row of the hash.
`StartTick`, `Promote`, `Acquire`, `Prepare`, `Renew`, `Send`, `Await`, `RecordFailed`,
`RecordConfirmed`, `RecordSubmitted` are the awaits of a tick. `setInterval` does not
wait, so ticks overlap; a lease may lapse at any moment. A promotion that throws leaves
no trace: the review mark is rolled back with its transaction. `Settings` chooses open or
closed gates, payloads that do not decrypt, and rows enqueued without a preparation.

`RecordedDeliveryStands` begins with the row of `payout_execution_checkpoints`, which is written after
the receipt. A delivery that has no such row is a failed attempt to everything that follows, and
the property says nothing of it (5).

### 2.6 PayoutV7

`signed` is `relay_v7_signed_calls`; the INSERT (`Claim`) is the one-shot right to
broadcast, and precedes the fence. `head` and `final` are the chain and its finalized
part; a worker reads only `final`. `LockInputs` and `Verify` are the retirement: the
locks, the rows of the job, the proof of expiry, `Retire` of `RetentionStore`. A crash
between `Claim` and `Send` is never made good, by design
(`payout-v7-worker-tests.mjs:15`). External: the web API, which gives one lease per call,
the contracts, which enforce the expiry of lease and quote, and the attesters. Left out:
prices and Relay recovery.

### 2.7 LegacyRelay

A worker is an activation of `processBundle` (a Waku payload's bundles in turn, or a
retry's timer) or of `processPoolV3Bundle`; `seen` and `inFlight` are the sets in memory;
`rec` is the reconciler, a second process that reads the table once per pass under an
advisory lock. `Persist` may fail inside the catch block, which ends the payload or, in a
timer, the process (an unhandled rejection). A transaction may be replaced or repriced:
the legacy path looks at the reason, the PoolV3 path takes any receipt. Left out: the
approval code (a bundle that needs one is dropped before it), simulation apart from
`write`; the order of the reconciler's records is arbitrary.

### 2.8 FundedWork and DepositPairing

`obs` are classified payments; a member of `Transfers` is one observation in one block, so a payment
that a reorganisation moves to another block is another member. `Reevaluate` follows
`reevaluatePhase3Tip1022Confirmation`: it confirms a payment that waits, and sends a confirmed one back to
waiting or to review; the latter counts with the faults. `work` are the rows of `receiving_funded_work_v4` in the order
`fresh`, `older` of `checked_at NULLS FIRST`, each with the observation and block it was inserted
with (`work[a].obs`), which every later query compares (`Bound`); `cost`, `signed`, `revisions`,
`payload` the tables of the receiving runtime up to the queued payload, where
`OneTimeExecution` goes on. Processes overlap only by `Deploy`, a restart in the middle of a tick.
Another account may have registered a publication before, or does so later. `Read` and `Act` split
`resume` where the node is asked. Two attempts may share a publication, and one of them
pays for it.

`DepositPairing` says which two transfers of a transaction are a deposit
(`Observable`, `Selected`) and what an attempt's observations add up to (`Booked`). It is
as the code has it: dust after a payment is a duplicate here and dust to the feeder, an
exact payment after an underpayment leaves the review standing, a redelivery is counted.
`FundedDeposits` puts the two together: its constants are the transactions and the sequences of
observations the indexer may be handed, of which the code keeps no state of its own.

### 2.9 ProofQuorum, ExecutionPayloads, FeeSchedules, PayoutLifecycle

Operators named after their functions. A hash is what was hashed, an encoded call its
arguments; formats, transport and unsealing are left out. Where versions differ, so do the
operators: version 4 trusts its one attester's `ready`, version 5 does not verify a
signature, version 6 recovers the signer. In `FeeSchedules` the V4 quotes of
`relay-reward-v4.ts` are what the file computes; the bot does not use them yet. `RelaySchedules`
joins the publication of a heartbeat to the relay that validates its bundles against it; its
constants are the offers a heartbeat may publish.

## 3. What the runs check

| run | instance | properties |
|---|---|---|
| `poolv4_one_process` | 1 process, 2 threads, 2 calls sharing an input, 2 bundles, 2 hashes, 1 crash | `ProcessedTellsTheTruth`, `InFlightIsExact`, `ClaimsAreExclusive` |
| `poolv4_two_processes` | 2 processes of one thread (a restart that overlaps), the same calls | `OneBroadcastPerInput`, `RetentionPrecedesSubmission`, `RecordedHashIsTheCalls`, `ImplementsFence` |
| `poolv4_settles` | one call whose payload arrives twice in the inbox, 1 process, 1 crash; fairness, no Waku delivery | `RecordedSpendSettles` |
| `poolv4_orphaned_claim` | the same specification | `ClaimsEnd`, **violated** (5) |
| `execution_leases` | a native and a plain job, 2 workers, 2 hashes, 2 attempts | `CheckpointsAreTheSteps`, `OneTransactionPerStep`, `HolderKnowsTheTable`, `NoStrandedJob`, `JobsOnlyAdvance` |
| `execution_served` | two native jobs, 1 worker, 1 attempt; fairness, the chain owes one of the jobs nothing | `ServedJobsEnd` |
| `checkpointed_payouts` | versions 4, 5, 6, sizes 1 and 2, 2 workers, 7 hashes, 1 fault | `CheckpointIsASuccess`, `RemoteFollowsLocal`, `ClosedMeansEnded`, `NoRebroadcastOverRecorded`, `WithdrawalIsRecovered`, `PublicRecordFollows`, `ImplementsPromise` |
| `checkpointed_batches` | versions 4 and 5, batches of 2 | `EveryChildIsRecovered`, **violated** (5) |
| `payout_v3_queue` | 2 payouts, 2 ticks, 2 attempts, promotion limit 1, 4 transactions, 1 fault, three settings | `RowsTellTheTruth`, `NoStrandedPayout`, `RecordedDeliveryStands`, `OnlyTheHolderWrites`, `ConfirmedPayoutEnds` |
| `legacy_relay` | 4 bundles over 3 notes, 2 workers, 3 transactions, 2 faults | `MarksAreTrue`, `ArchiveIsTrue`, `NoSubmissionForgotten`, `ResolvableIsArchived`, `PublishedIsHonoured` |
| `payouts_v7` | 2 calls sharing an input, 2 workers, times 0 to 2, 1 fault | `RetiredIsDead`, `GroundsAreFinal`, `ExpiredIsRetired` |
| `funded_preparation` | 2 attempts sharing a publication, 3 payments (one confirmed, one seen, one not seen at first), 2 processes, 1 fault; fairness | `PublicationPaidOnce`, `LeaseEndsByHolder`, `PayloadNeverChanges`, `FundedIsPrepared`, `DepositsAreDistinct`, `CleanPaymentIsSingle` |

**What the properties say.** In words, beside each definition. The ones to read first:
`OneBroadcastPerInput` and `ImplementsFence` (a private input is spent once, whatever
crashes), `RetiredIsDead` (a fence is released only when nothing sent can still be
executed), `NoRebroadcastOverRecorded` (a recorded submission is looked at before the step
is sent again) and `ImplementsPromise` (nothing is sent out of turn, of whichever version and after
whichever fault), `HolderKnowsTheTable` and `OnlyTheHolderWrites` (a lease fences stale
activations), `ArchiveIsTrue` (a success or failure the reconciler archives is one on chain),
`PayloadNeverChanges`, and the liveness properties, which say what recovery is worth.

`DepositsAreDistinct`, `CleanPaymentIsSingle` and `PublishedIsHonoured` evaluate pure
operators over bounded inputs (all transactions of up to four transfers between a payer, two virtual
addresses and the master, with refunds and a second amount; all sequences of up to three
observations; all small templates, budgets and prices), in the runs of the systems that use
them. `PublicRecordFollows` leaves out `relay_refund_proven` of version 5, see 5.

**Bounds.** Two threads are what every hazard here needs: one that has checked and one
that acts in between. Two calls that share one of their inputs but not all show the
difference between a fence per nullifier and one per set (the PoolV3 key compares the
set; in `LegacyRelay` two PoolV3 bundles overlap in one of two notes). Two hashes allow a
second broadcast, seven a whole single payout with one step sent again. One fault (crash,
exception, lost answer, reorganisation; in `FundedWork` also a later registration by another account, the demotion of a
confirmed payment and the end of an attempt's time; `MaxFaults`) leaves every state a fault can leave, further faults start from
such states; `LegacyRelay` has two, as a lost answer and a crash meet there. Two attempts
have a first and a last. Of the three payments two are of one attempt: it may be paid twice, or its
row be made for one and the other take its place. `BatchLimit` is 2 where the code has 10, `PromotionLimit` 1 where it is configured:
as many rows as an instance has, or one fewer. A batch of `CheckpointedPayout` has two intents; its
hashes do not suffice to deliver both, single payouts run to their end. Transactions are not
reused, jobs end: those runs do not check for deadlock (`payout_v3_queue` does).
Symmetry is used over hashes and over threads or workers in safety runs only.

**Fairness.** Timers start polls and ticks for ever (`setInterval`), so the steps of a
thread or worker are weakly fair. What is tried again and again is assumed to succeed
again and again (strong fairness): a claim or acquire that competes, a database write
that commits and answers, a receipt that is read, the turn of a job in the V7 rotation. The chain:
in `PoolV4Relay` a mempool transaction is mined and in the end stays; in
`OneTimeExecution` only transactions of `Served` jobs are, so that `ServedJobsEnd` is about the
queue; in `CheckpointedPayout`, `PayoutV3Queue` and `FundedWork` what the node keeps is mined; in
`PayoutV7` nothing obliges it; in `LegacyRelay` only the reconciler's loop is relied on. Leases end
with time. Assumptions to know: in the liveness runs of PoolV4 Waku delivers nothing
(endless redelivery could keep an input in flight at every poll); the schema of the store was
created (`ensurePendingExecutionSchema` keeps a rejected promise until a restart); the
activations of one worker do not all throw; `ConfirmedPayoutEnds` holds of a store that
decrypts and with fewer older preparations than the limit; `FundedIsPrepared` asks nothing of a row that was
made for another payment (`Bound`) and excuses the attempts that are `Stranded`, and such states exist.

## 4. What is proved

TLAPS proves the following for every number of processes, threads, bundles, calls,
hashes, jobs, workers, steps and attempts; the assumptions are those of the modules
(`InputsAssumption`, `BundlesAssumption`, ... : sentinels outside their sets, sets of the
stated types, each call with an input, each plan with at least one intent). Every safety
invariant, action property and refinement that a passing run checks is a theorem of its
specification. Each induction has its own invariant, which TLC checked on the run's instance
before it was proved; what it adds to the properties is the reason they hold.

**PoolV4.** `OneBroadcastPerInput` is not inductive. `IInv` adds why it holds: who stands
before `sendTransaction` has a retained row nobody has broadcast for and is alone
with it (`SendersOwnTheirRow`); every broadcast call has its row
(`BroadcastsAreRetained`) and one transaction (`OneTransactionPerCall`); what threads
remember carries their call (`ThreadsRememberTheirCall`). `FencesDisjoint` is proved of
`RetentionStore` alone (`StoreFences`) and lifted. Theorems: `TypeCorrect`,
`BroadcastOnce`, `RetainedFirst`, `TableIsTrue`, `RelayKeepsJournal`, and
`RelayImplementsFence` (`Spec => Fence!FenceSpec`). Three more inductions stand on it.
`InFlightExact`: the threads between probe and finally hold their inputs in the set of
their process, no two the same one, and nothing else is in it (`FlightIsHeld`).
`ClaimsExclusive`: a poll that marks or resets has its record in hand and no longer in its
queue (`ClaimsInv`). `SettlementsAreTrue`: a verdict is read through the hash of the row and
final (`TruthInv`). That an *expired* record is never broadcast holds of one process only, as
two do overlap in a restart: `ClosedRowsTellTheTruth` assumes `OneProcess` and says so.

**Execution.** Of the store alone, whatever its clients do: `NothingStranded` and
`StoreAdvances`, from the invariant `StoreInv` (no attempt is counted before the
INSERT). The workers refine the store (`WorkerImplementsStore`: `Spec => StoreSpec`), which gives both
properties for them. Their own invariant `WorkerInv` adds to the properties that an
activation inside a step knows which step and holds a transaction that carries it, that only
native jobs take the runtime's way, and that journal and chain agree
(`ActivationsKnowTheirStep`, `JournalIsTrue`). The step is proved conjunct by conjunct:
`ChainOnlyGrows` (what a transaction carries and what is deep never change) disposes of
the activations that do not move, `OthersDoNotInterfere` of the leases. Theorems:
`TypeCorrect`, `LeaseFences`, `CheckpointsTrue`, `SignedOnce`, `WorkerOnlyAdvances`,
`WorkerStrandsNothing`.

**Payouts of version 3.** One induction over `QInv`. To the properties it
adds `SentIsUsed` (transactions are numbered as they are sent, so a checkpointed one is never
overwritten), `HandsAreTrue` (what an activation waits for carries its payout, what it records
succeeded) and `HolderKnowsCheckpoint`: whoever still holds its payout knows its checkpoint, and
there is none once it is on the way to a broadcast. The steps are read once, by row (`JobChanges`:
the six ways a row may move) and by activation (`TicksMove`); `HistoryStands` says what chain and
tables never take back. That the oldest payout exists (`OldestIsThere`) rests on the well-foundedness of
the naturals. A second induction, `RecordInv`, says what stands from the checkpoint on: the adapter knows what
succeeded (`Delivered`), so no further send passes its gas estimation, and the payout's row decrypts and
is past the gates of a dry run (`HeldIsOpen`, `RecordedIsOpen`), so neither can divert it. Theorems:
`TypeCorrect`, `NothingStranded`, `TablesAreTrue`, `LeaseFences`, `RecordStands`.

**Payouts of versions 4, 5 and 6.** All eight workers share one induction. `IInv` says

- what the rows mean (`JournalTrue`): only the bearers of a step have rows of it, a submission
  carries that step of that intent, a checkpoint succeeded. Without the bearers, a shared
  withdrawal would have to be argued about per intent;
- what was sent when (`ChainTrue`): a withdrawal after every quote was accepted, a delivery
  after the withdrawal is in every journal that needs it, and a completion that was mined has
  ended its intent;
- that one activation runs at a time (`Alone`: `inFlightPayoutV4Intents`, `running`);
- where it may stand (`WorkersAt`): inside a step it holds a key that bears the step; while it
  looks through the submissions, those behind it have failed (`BlankSoFar`), so before `Send` all
  have (`Blank`); in a round over the intents of a batch those behind it are checkpointed
  (`RoundDone`), so a loop of deliveries is entered only when all are; and what a V4 bundle has
  passed over has ended or will be deferred (`Accounted`);
- and the properties `RemoteFollowsLocal` and `ClosedMeansEnded` themselves.

The steps fall in two groups: those that only read (`Turn`: one worker moves to a place it may
stand at) and those that write, of which `Grows` says what the others rely on: rows are added,
transactions settle once, statuses rise. Theorems: `TypeCorrect`, `CheckpointsAreSuccesses`,
`RemoteIsBehind`, `DeliveriesAreBacked` (an ordering of the journal that the promise below contains,
so no run checks it apart), `ClosedIsEnded`, `NothingIsSentAgain`, and
`RecordsFollowTheChain`, which composes the workers with the public record: the chain moves an
intent in six ways only (`StatusMoves`, for which a spent withdrawal must have been accepted by all,
`SpentIsAccepted`), and for each the fold over the one or two public events of the adapter's event
(`FoldOne`, `FoldTwo`) is accepted (`RecordFollows`).

`PayoutIsPromised` (`Spec => ImplementsPromise`) is the refinement. The workers read the adapter's
status where the promise speaks of calls, so a second induction, `ChainShows`, ties the two: what
succeeded shows in the status (`Shows`), and what the status shows is owed to a call that succeeded
(`Owes`). One lemma maps each kind of step: a broadcast is a call handed over when due
(`PromiseHandOver`, from `Blank`, `AllAccepted` and `AllBacked` of `IInv`), `PromiseMines` a call won
in its order or lost, `PromiseNotes`, `PromiseCheckpoints` and `PromiseTells` the writes; what only
reads closes an ended payout or does nothing (`PromiseQuiet`).

**Payouts of version 7.** The worker is a client of the fence table (`WorkerIsClient`:
`Spec => StoreSpec`), which gives `PayoutFences`. `IInv` adds that the final chain is behind the
head and takes each child through its states in order (`ChainsInv`); that a worker before a claim or a
send has its grounds in the final chain, which only grows (`WorkersFit`), and has claimed what it sends
(`SignedInv`); and, for the retirement (`RetiredInv`), that while it holds the locks it has seen
every withdrawal that was launched, and that what was launched for a released fence has a lease
that finality has passed. Theorems: `TypeCorrect`, `SentOnFinalGrounds`, `RetiredStaysDead`, `SentIsSigned`.

**Legacy and PoolV3 relay.** `IInv` adds to the properties what a worker at each place has in
hand (`WorkersAt`), that a transaction carries its bundle for good (`TxInv`), that a stored
execution with a hash is that of a legacy transaction and an archived verdict is so (`StoreInv`), and
that the reconciler, which is alone under its advisory lock, still finds what it has read
(`RecInv`). One assumption was met here and is stated: `PoolsAssumption`, a V1 and a PoolV3 bundle
never share a nullifier, which a set keyed by nullifier takes for granted. Theorems:
`TypeCorrect`, `MarksTrue`, `ArchiveTrue`, `SubmissionsKept`. Of `FeeSchedules`, for every price and
policy: `PublicationIsHonoured`, from the monotonicity of `costCoveringRelayReward`,
`RiseRefusesSchedules`, `OfferedV4IsAcceptable`, `ChildQuoteAddsUp`. `PublishedHonoured` carries the
first over to the specification: `PublishedIsHonoured` holds for every set of offers
(`OffersAssumption`: sequences of templates with a nonce each, natural amounts).

**Funded work.** `IInv` adds what a worker signs for (its own preparation or the publication its
attempt shares), that `older` orders the rows that were checked (`RowsOK`), that nothing is
signed for a publication before one attempt was charged (`PaidOnce`), and that a prepared row has
its payload (`PreparedIsQueued`). Theorems: `TypeCorrect`, `PaidByOne`, `LeasesAreFenced`,
`PayloadIsFinal`. Of the deposits: `DepositsDistinct`, that `DepositsAreDistinct` holds for every set of
transactions, from distinct log indices alone (`PairsAreDisjoint`), and `CleanPaymentSingle`, that
`CleanPaymentIsSingle` holds for sequences of observations of any length. The second needs an
induction over the sequence, which the library's theorem cannot give here; it is done by the least
counterexample instead (`WFMin` on the naturals): the fold `Booked` exists step by step
(`BookedByStep`), one more observation keeps what is known of the state (`OneMoreObservation`), and
`OnePaymentIsClean` reads the result off. `BookingOnlyHardens` says that a booked payment and a
review stay.

**Quorum, payloads and public record**, for every value of their arguments
(`CheckpointedPayoutProofs`). Quorum: `ReadyNeedsBoth`, `ThresholdAboveTwo`, `StrangersDoNotCount`,
`QuorumIsKept`, `ConflictIsForEver`, `V6QuorumIsAuthentic`, along `AtMostTwo` (at most two signers
count). Payloads: `EveryEscrowIsPaidOnce`, from the bijection of bindings and authorities and a count
of the outputs, `LeaseFixesExecution`, `ChildrenAreTheLeased`, `PayoutProofIsNotRelayed`. Record:
`RecordsOnlyAdvance`, by a rank every transition raises, and `RedeliveryIsHarmless`. The assumptions of
`MCCheckpointedPayout` (`QuorumOfTwo`, `BundlePasses`, `PackagePasses`) show on examples that the
conditions these theorems assume can be met, and what they stop.

**Only model-checked.** Liveness (`RecordedSpendSettles`, `ServedJobsEnd`, `WithdrawalIsRecovered`,
`ConfirmedPayoutEnds`, `ResolvableIsArchived`, `ExpiredIsRetired`, `FundedIsPrepared`): fairness and
ENABLED are beyond the prover, so they are shown on the instances of their runs only.

## 5. Findings

`ClaimsEnd`: *a claimed inbox record does not stay claimed for ever* is violated.
`claimRelayInboxBatch` selects rows with `status = 'pending'` only, and nothing but the
poll that claimed a row takes it out of `processing`. After a crash between the claim
and the end of the row, or a database error inside the catch block of the poll (which
also abandons the rest of the batch), the record is never processed, although it was
queued "for durable relayer execution" (`bot.ts` 1662).

`EveryChildIsRecovered`: *a withdrawal whose submission was recorded for an intent is
checkpointed for that intent in the end* is violated for batches. `transaction_hash` is UNIQUE
over the whole checkpoint table (`pending-store.ts` 188, 229), and a batch has one withdrawal for all its
intents: the INSERT for the second throws at every retry, and the withdrawn batch is never
confirmed or delivered. The comment at `pending-store.ts` 182-184 promises the retry. The batch
test (`script/phase3-payout-v4-batch-tests.mjs` 74-84) records checkpoints in a Map keyed by intent
and step, without the constraint.

Met while modelling, and excused by the properties named:

- A submission that was mined before it was checkpointed (a timeout or crash in between) leaves
  status 3 without evidence: V4 throws at every retry, a V5 single payout too, and a V5 batch or a
  V6 payout is not listed downstream (`WithdrawalIsRecovered` speaks of the withdrawal only).
- A V5 checkpoint lost between the local and the remote record is not told again
  (`RemoteFollowsLocal` is one-sided).
- A crash between the node's answer and the record of the submission leaves a step nobody
  recognises; of the quote, V4 says "accepted the quote without a durable local quote
  checkpoint" for ever.
- `relay_refund_proven` (V5) is an event of a submitted payout, and `payout_submitted` does not take
  `refund_available`: the public record refuses it (`PublicRecordFollows` leaves it out).
- A V3 delivery that no tick recorded (the receipt came after the timeout, the answer of the node was
  lost, or the lease lapsed before the INSERT of the checkpoint) is a failed attempt: at the next one
  the adapter refuses the gas estimation, and the payout that was delivered ends in manual review. A
  checkpointed payout whose last lease lapses before its row is marked is swept to review as well
  (`RecordedDeliveryStands` names this second case and is silent on the first).
- A V3 preparation that does not decrypt, once its receipt is confirmed, ends every tick before anything
  is leased: its review mark is rolled back (`ConfirmedPayoutEnds` assumes there is none).
- A funded row keeps the observation and block it was inserted with (`ON CONFLICT DO NOTHING`). If that
  payment is demoted and another of the attempt is confirmed, no query finds the row again
  (`FundedIsPrepared` excludes it by `Bound`).
- The reconciler may archive `pre_submit_terminal_failure` of a nullifier that was spent (`ArchiveIsTrue`
  does not speak of it).
- In `processBundle` a duplicate delivery deletes the in-flight mark of the call that runs
  (`MarksAreTrue` asks the other direction only).
- The first rise of the gas price refuses all schedules in circulation (`RiseRefusesSchedules`).

## 6. Not modelled, and the plan

`PROJECT.json` lists every component and hazard. Not modelled: the registry synchronisation
(its calls are an operator's; overlapping runs repeat idempotent writes), V7 Relay recovery (it asks a third party for
a refund and keeps one row, written and deleted in one tick), transport, encodings,
cryptography, the HTTP routes, configuration and registration tools, the start-up of the bot, and labels and
messages of the shared types. Why a hazard has no
property is said in its note.

Next:

1. Proofs of what the inductions already contain and no run asks yet: of `PayoutV7`, that a child
   ends once; of `PoolV4Relay`, what an expired record still promises when two processes overlap.
2. The receipt of a replaced transaction in `CheckpointedPayout`, and two processes there.
