---------------------------- MODULE FeeSchedules ----------------------------
(***************************************************************************)
(* The fee schedules a relayer publishes with its heartbeat and honours when *)
(* a proof comes back with one (bot.ts, relay-execution-fee-schedule-v2.ts), *)
(* and the rewards they are made of (relay-reward.ts, relay-reward-v4.ts,     *)
(* relay-reward-policy-v4.ts).                                               *)
(*                                                                         *)
(* A shape is [pool, mode, inputs, outputs]: mode 0 withdraws, 1 consolidates.*)
(* A template is [shape, fee, ceiling], a schedule [shape, fee, ceiling,      *)
(* chain, nonce, validAfter, expiry, relayer], signed [schedule, hash, by].   *)
(* A hash is what was hashed.  Reading fields and formats is left out.       *)
(***************************************************************************)
EXTENDS Integers, Sequences

CONSTANTS RewardDivisor,  \* attodollars in a microdollar, times 100 per cent
          ZeroNonce,
          Refusal         \* an exception

ASSUME RewardDivisorAssumption == RewardDivisor \in Nat \ {0}

Larger(a, b) == IF a > b THEN a ELSE b

(* 110 per cent of the cost of the gas, rounded up. *)
costCoveringRelayReward(gas, gasPrice) ==
    (gas * gasPrice * 110 + RewardDivisor - 1) \div RewardDivisor

CostCovered(reward, gas, gasPrice) ==
    gas > 0 /\ gasPrice > 0 /\ reward >= costCoveringRelayReward(gas, gasPrice)

----------------------------------------------------------------------------
(* The policy of versions 4: [single, batch, child, quote]. *)

SingleCeiling == 5000
BatchCeiling == 10000
ChildCeiling == 20000

ValidPolicy(policy) ==
    /\ policy.single \in 0..SingleCeiling /\ policy.batch \in 0..BatchCeiling
    /\ policy.child \in 0..ChildCeiling /\ policy.quote \in 0..ChildCeiling
    /\ policy.quote <= policy.child

(* readRelayRewardPolicyV4: everything is read at one block, whose hash and   *)
(* chain are read again at the end.  A view is [chain, hash, code, policy,     *)
(* immutables, revision].                                                    *)
ReadPolicy(target, before, after) ==
    IF /\ before.chain = target.chain /\ before.code = target.code
       /\ ValidPolicy(before.policy) /\ before.immutables = <<SingleCeiling, BatchCeiling, ChildCeiling>>
       /\ before.revision >= 1
       /\ after.chain = target.chain /\ after.hash = before.hash
    THEN before.policy ELSE Refusal

(* quoteSourceRewardV4 refuses a reward over the maximum of the source. *)
SourceMaximum(count, policy) == IF count = 1 THEN policy.single ELSE policy.batch

SourceQuotable(gas, gasPrice, count, policy) ==
    /\ ValidPolicy(policy) /\ count \in 1..10 /\ gas > 0 /\ gasPrice > 0
    /\ costCoveringRelayReward(gas, gasPrice) <= SourceMaximum(count, policy)

(* quoteCrossChainRewardsV4: the share of the k-th child (from 0) of the      *)
(* source reward, and how its quote is split.  gas is [acceptance,           *)
(* confirmation, submission, completion].                                    *)
Allocation(reward, count, k) ==
    reward \div count + (IF k < reward % count THEN 1 ELSE 0)

Reimbursement(gas, gasPrice) ==
    costCoveringRelayReward(gas.acceptance, gasPrice)
        + costCoveringRelayReward(gas.confirmation, gasPrice)
        + costCoveringRelayReward(gas.submission, gasPrice)

ChildQuote(reward, count, k, gas, gasPrice, policy) ==
    LET allocation == Allocation(reward, count, k)
        reimbursement == Reimbursement(gas, gasPrice)
    IN IF allocation + reimbursement + costCoveringRelayReward(gas.completion, gasPrice) > policy.quote
       THEN Refusal
       ELSE [allocation |-> allocation, reimbursement |-> reimbursement,
             delivery |-> policy.quote - allocation - reimbursement,
             maximum |-> policy.child, total |-> policy.quote]

----------------------------------------------------------------------------
(* Templates *)

ValidShape(shape) ==
    /\ shape.mode \in {0, 1} /\ shape.inputs \in 1..4 /\ shape.outputs \in 0..10
    /\ shape.mode = 0 <=> shape.outputs >= 1

Template(pools) ==
    {t \in [shape : [pool : pools, mode : {0, 1}, inputs : 1..4, outputs : 0..10],
             fee : Nat \ {0}, ceiling : Nat \ {0}] : ValidShape(t.shape)}

(* readRelayExecutionFeeScheduleTemplatesV2. *)
ReadableTemplates(templates, pools, maximum) ==
    /\ Len(templates) \in 1..82
    /\ \A k \in DOMAIN templates :
          LET t == templates[k]
          IN /\ t.shape.pool \in pools /\ ValidShape(t.shape)
             /\ t.fee > 0 /\ t.fee <= maximum[t.shape.mode] /\ t.ceiling > 0
    /\ \A k, l \in DOMAIN templates : templates[k].shape = templates[l].shape => k = l

(* Without a gas budget (0) the templates are published as they are; with    *)
(* one the reward covers the budget, and the ceiling is today's gas price.    *)
Priceable(t, budget, gasPrice, maximum) ==
    budget = 0 \/ /\ gasPrice > 0 /\ gasPrice <= t.ceiling
                  /\ Larger(t.fee, costCoveringRelayReward(budget, gasPrice)) <= maximum[t.shape.mode]

(* Fault: the ceiling of the template is kept. *)
PricedUnderCeiling(t, budget, gasPrice) ==
    IF budget = 0 THEN t
    ELSE [t EXCEPT !.fee = Larger(@, costCoveringRelayReward(budget, gasPrice))]

Priced(t, budget, gasPrice) ==
    IF budget = 0 THEN t
    ELSE [t EXCEPT !.fee = Larger(@, costCoveringRelayReward(budget, gasPrice)), !.ceiling = gasPrice]

(* The time to live of the PoolV3 schedules; -1 stands for an unset variable. *)
Ttl(configured, validity) ==
    IF configured >= 0 THEN configured ELSE IF validity < 300 THEN validity ELSE 300

PublishableV3(templates, pools, maximum, budget, gasPrice, configured, validity) ==
    /\ Ttl(configured, validity) <= validity
    /\ ReadableTemplates(templates, pools, maximum)
    /\ \A k \in DOMAIN templates : Priceable(templates[k], budget, gasPrice, maximum)

(* The PoolV4 templates: what the policy does not pay for is not offered.     *)
TemplatesV4(pools, reward, batchReward, gasPrice, policy) ==
    LET fee(n) == IF n = 1 THEN reward ELSE batchReward
    IN {[shape |-> [pool |-> p, mode |-> 0, inputs |-> i, outputs |-> n],
         fee |-> fee(n), ceiling |-> gasPrice] :
            p \in pools, i \in 1..4, n \in {m \in 1..10 : fee(m) <= SourceMaximum(m, policy)}}
       \cup
       {[shape |-> [pool |-> p, mode |-> 1, inputs |-> i, outputs |-> 0],
         fee |-> batchReward, ceiling |-> gasPrice] :
            p \in pools, i \in {m \in 2..4 : batchReward <= policy.batch}}

----------------------------------------------------------------------------
(* Schedules *)

(* normalizeSchedule. *)
ValidSchedule(s) ==
    /\ ValidShape(s.shape)
    /\ s.fee > 0 /\ s.ceiling > 0 /\ s.nonce # ZeroNonce
    /\ s.validAfter >= 1 /\ s.expiry >= 1

(* buildSignedRelayExecutionFeeSchedulesV2, for one template; the nonces of   *)
(* one publication are distinct.                                             *)
Buildable(validAfter, ttl, nonces) ==
    /\ validAfter >= 1 /\ ttl \in 30..900
    /\ \A k, l \in DOMAIN nonces : nonces[k] = nonces[l] => k = l
    /\ \A k \in DOMAIN nonces : nonces[k] # ZeroNonce

Built(t, chain, account, nonce, validAfter, ttl) ==
    [shape |-> t.shape, fee |-> t.fee, ceiling |-> t.ceiling, chain |-> chain, nonce |-> nonce,
     validAfter |-> validAfter, expiry |-> validAfter + ttl, relayer |-> account]

(* signRelayExecutionFeeScheduleV2 refuses a schedule of another relayer. *)
Sign(s, account) ==
    IF ValidSchedule(s) /\ s.relayer = account
    THEN [schedule |-> s, hash |-> s, by |-> account] ELSE Refusal

(* normalizeSignedRelayExecutionFeeScheduleV2. *)
Intact(signed) == ValidSchedule(signed.schedule) /\ signed.hash = signed.schedule

(* validateRelayExecutionFeeScheduleV2 accepts a schedule for the tuple of a  *)
(* proof, [shape, fee, chain, relayer], at a time and a gas price.            *)
Honoured(signed, tuple, maximum, validity, gasPrice, now) ==
    LET s == signed.schedule
    IN /\ Intact(signed)
       /\ s.chain = tuple.chain /\ s.shape = tuple.shape /\ s.fee = tuple.fee
       /\ s.relayer = tuple.relayer
       /\ s.fee <= maximum
       /\ s.expiry > s.validAfter /\ s.expiry - s.validAfter <= validity
       /\ now >= s.validAfter /\ now <= s.expiry
       /\ gasPrice <= s.ceiling
       /\ signed.by = tuple.relayer

(* The proof made for a schedule. *)
ProofTuple(s) == [shape |-> s.shape, fee |-> s.fee, chain |-> s.chain, relayer |-> s.relayer]

(* The ceilings of a withdrawal in version 4 (assertPoolV4ExecutionReady). *)
MaximumV4(shape) == IF shape.outputs = 1 THEN SingleCeiling ELSE BatchCeiling

(* syncRelayerRegistryKey: the heartbeat carries what could be published; a  *)
(* failure of one version leaves the other's schedules.                      *)
Heartbeat(v3, v4) == {x \in {v3, v4} : x # Refusal}

----------------------------------------------------------------------------
(* What a publication promises: the proof made for a schedule is honoured    *)
(* from the first second to the last at every gas price up to the ceiling,    *)
(* and then pays for all the gas that was budgeted for.                      *)
HonouredThroughout(t, maximum, budget, gasPrice, ttl, validity, account, chain, nonce, start) ==
    LET signed == Sign(Built(Priced(t, budget, gasPrice), chain, account, nonce, start, ttl), account)
    IN \A now \in start..(start + ttl), later \in 1..signed.schedule.ceiling :
          /\ Honoured(signed, ProofTuple(signed.schedule), maximum[t.shape.mode], validity, later, now)
          /\ \A gas \in 1..budget : CostCovered(signed.schedule.fee, gas, later)
=============================================================================
