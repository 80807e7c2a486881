-------------------------- MODULE ExecutionPayloads --------------------------
(***************************************************************************)
(* What the relayer checks before it acts on a payload somebody else made:   *)
(* the proof of a PoolV3 withdrawal (pool-v3-runtime.ts), the authorities of   *)
(* a V4 bundle (phase3/index.ts), and the packages the payout authority       *)
(* hands out with a lease (payout-v4-, -v5- and -v6-authority-client.ts).      *)
(*                                                                         *)
(* A hash is what was hashed, an encoded call its arguments; unsealing,       *)
(* formats and the reading of fields are left out.  The operators say when    *)
(* a payload is accepted; otherwise the code throws.                         *)
(***************************************************************************)
EXTENDS Integers, Sequences, FiniteSets, Folds

Total(numbers) == MapThenFoldSet(+, 0, LAMBDA k : numbers[k],
                                 LAMBDA S : CHOOSE k \in S : TRUE, DOMAIN numbers)

Distinct(sequence) == \A k, l \in DOMAIN sequence : sequence[k] = sequence[l] => k = l

----------------------------------------------------------------------------
(* A PoolV3 proof: [artifact, mode, pool, recipients, amounts, domains,       *)
(* change, envelope, fee, schedule, signals].  The signals are public inputs *)
(* of the proof, and what stands beside them must agree with them.           *)

Nothing == 0
Slots == 1..4

ActiveInputs(p) == {k \in Slots : p.signals.nullifiers[k] # Nothing}

ProofIsForUs(p, config) ==
    /\ p.pool \in DOMAIN config.artifacts /\ p.artifact = config.artifacts[p.pool]
    /\ p.signals.domain = config.domain /\ p.signals.chain = config.chain
    /\ p.signals.pool = p.pool /\ p.signals.version = 3
    /\ p.mode \in {0, 1} /\ p.signals.mode = p.mode
    /\ p.signals.executor = config.executor

InputsAreDistinct(p) ==
    /\ ActiveInputs(p) # {} /\ p.signals.inputs = Cardinality(ActiveInputs(p))
    /\ \A k, l \in ActiveInputs(p) : p.signals.nullifiers[k] = p.signals.nullifiers[l] => k = l

OutputsAgree(p, config) ==
    /\ Len(p.amounts) = 10
    /\ p.signals.recipients = p.recipients /\ p.signals.amounts = p.amounts
    /\ p.signals.domains = p.domains
    /\ \A k \in 1..10 : p.domains[k] = config.domain
                        /\ (p.amounts[k] = 0 <=> p.recipients[k] = Nothing)

ChangeAgrees(p) ==
    /\ p.signals.change = p.change
    /\ IF p.change = Nothing THEN p.signals.envelope = Nothing /\ p.envelope = Nothing
       ELSE p.envelope # Nothing /\ p.signals.envelope = p.envelope

ModeAllows(p) ==
    IF p.mode = 0 THEN \E k \in 1..10 : p.amounts[k] # 0
    ELSE /\ Cardinality(ActiveInputs(p)) >= 2 /\ \A k \in 1..10 : p.amounts[k] = 0
         /\ p.signals.protocolFee = 0 /\ p.change # Nothing

(* validatePoolV3ProofPayload. *)
ValidPoolV3Proof(p, config) ==
    /\ ProofIsForUs(p, config) /\ InputsAreDistinct(p) /\ OutputsAgree(p, config)
    /\ p.fee # 0 /\ p.signals.fee = p.fee
    /\ ChangeAgrees(p) /\ ModeAllows(p)

(* preparePoolV3Transaction: nothing but the proof goes into the call. *)
PoolCall(p) ==
    [selector |-> "batchWithdrawV3", pool |-> p.pool, signals |-> p.signals,
     recipients |-> p.recipients, amounts |-> p.amounts, domains |-> p.domains,
     change |-> p.change, envelope |-> p.envelope]

----------------------------------------------------------------------------
(* A V4 bundle: [pool, fee, relayer, domain, recipients, amounts, domains,     *)
(* bindings]; an authority is [intent, quote, adapter, escrow, authority,      *)
(* intentAuthority, amount, pool, token, asset].                             *)

BindingAgrees(b, a, bundle, relayer) ==
    /\ a.intent = b.intent /\ a.quote = a.intent
    /\ b.adapter = a.adapter /\ b.escrow = a.escrow
    /\ b.authority = a.intentAuthority /\ a.authority = a.intentAuthority
    /\ a.intentAuthority = relayer
    /\ b.amount = a.amount /\ bundle.pool = a.pool

(* The authorities, in the order of the bindings. *)
Sorted(bundle, authorities) ==
    [k \in DOMAIN bundle.bindings |->
        CHOOSE a \in authorities : a.intent = bundle.bindings[k].intent]

Outputs(bundle) == {k \in DOMAIN bundle.amounts : bundle.amounts[k] > 0}

(* Every output pays an escrow of the bundle exactly its amount, and every   *)
(* escrow is paid once.                                                      *)
EscrowsArePaid(bundle, authorities) ==
    LET escrows == {a.escrow : a \in authorities}
        paid == {bundle.recipients[k] : k \in Outputs(bundle)}
    IN /\ Cardinality(Outputs(bundle)) = Cardinality(escrows)
       /\ \A k \in Outputs(bundle) : \E a \in authorities :
             a.escrow = bundle.recipients[k] /\ a.amount = bundle.amounts[k]
       /\ \A k, l \in Outputs(bundle) : bundle.recipients[k] = bundle.recipients[l] => k = l
       /\ Cardinality(paid) = Cardinality(escrows)

(* validatePayoutV4PrivateBundleBindings. *)
ValidV4Bundle(bundle, authorities, relayer, domain) ==
    /\ bundle.fee = 0 /\ bundle.relayer = relayer /\ bundle.domain = domain
    /\ \A k \in DOMAIN bundle.domains : bundle.domains[k] = domain
    /\ Len(bundle.bindings) \in 1..10 /\ Len(bundle.bindings) = Cardinality(authorities)
    /\ \A a, c \in authorities : a.intent = c.intent => a = c
    /\ \A k \in DOMAIN bundle.bindings :
          /\ \E a \in authorities : a.intent = bundle.bindings[k].intent
          /\ BindingAgrees(bundle.bindings[k], Sorted(bundle, authorities)[k], bundle, relayer)
    /\ \A k, l \in DOMAIN bundle.bindings :
          LET a == Sorted(bundle, authorities)[k]
              c == Sorted(bundle, authorities)[l]
          IN /\ a.pool = c.pool /\ a.token = c.token /\ a.asset = c.asset
             /\ (a.escrow = c.escrow \/ a.intent = c.intent) => k = l
    /\ EscrowsArePaid(bundle, authorities)

(* validatePayoutV4PrivateBundleBinding: a single payout. *)
ValidV4Single(bundle, authority, relayer, domain) ==
    /\ Len(bundle.bindings) = 1 /\ Cardinality(Outputs(bundle)) = 1
    /\ ValidV4Bundle(bundle, {authority}, relayer, domain)

(* readAuthorityClaimResponse, readAuthorityPayload. *)
ValidV4Claim(response, payload, intent, account) ==
    /\ response.intent = intent
    /\ payload.version = 4 /\ payload.intent = intent /\ payload.authority = account

(* recordPayoutV4RelayerCheckpoint: the answer echoes the checkpoint. *)
CheckpointAnswered(answer, intent, step, hash) ==
    answer.intent = intent /\ answer.step = step /\ answer.hash = hash

----------------------------------------------------------------------------
(* A V5 package: [lease, call, preparations]; a preparation is [intent,       *)
(* quote, escrow, amount, proof], a binding of its proof [intent, adapter,     *)
(* executor, escrow, amount, fee].                                           *)

PreparationAgrees(b, preparation, lease) ==
    /\ preparation.intent = b.intent
    /\ b.adapter = lease.adapter /\ b.executor # lease.adapter
    /\ b.escrow = preparation.escrow /\ b.amount = preparation.amount

ValidV5Single(package, intent) ==
    LET preparation == package.preparations[1]
        b == preparation.proof.bindings[1]
    IN /\ package.lease.intent = intent /\ b.intent = intent
       /\ PreparationAgrees(b, preparation, package.lease)
       /\ preparation.proof.pool = package.lease.pool
       /\ b.fee = package.lease.maximum

V5Group(bindings) == [k \in DOMAIN bindings |-> bindings[k].intent]

(* The last preparation of an intent is the one a binding is compared with   *)
(* (a Map); that the bindings are distinct is not asked.                      *)
ValidV5Batch(package, intent) ==
    LET prepared == package.preparations
        bindings == prepared[1].proof.bindings
    IN /\ Len(prepared) \in 2..10 /\ Len(bindings) = Len(prepared)
       /\ package.lease.intent = V5Group(bindings)
       /\ intent = V5Group(bindings) \/ \E k \in DOMAIN bindings : bindings[k].intent = intent
       /\ prepared[1].proof.pool = package.lease.pool
       /\ Total([k \in DOMAIN bindings |-> bindings[k].fee]) = package.lease.maximum
       /\ \A k \in DOMAIN bindings : \E l \in DOMAIN prepared :
             /\ prepared[l].quote = bindings[k].intent
             /\ PreparationAgrees(bindings[k], prepared[l], package.lease)
             /\ prepared[l].proof = prepared[1].proof
             /\ \A m \in DOMAIN prepared : m > l => prepared[m].intent # bindings[k].intent

ValidV5Package(package, intent, account, batch) ==
    /\ package.lease.operator = account /\ package.lease.call = package.call
    /\ IF batch THEN ValidV5Batch(package, intent) ELSE ValidV5Single(package, intent)

(* A job that cannot be read is passed over among the ready ones, ...        *)
ReadyJobs(jobs, readable) == SelectSeq(jobs, LAMBDA job : job \in readable)

(* ... but among the downstream ones it hides all the others (an exception). *)
DownstreamJobs(jobs, readable) ==
    IF \A k \in DOMAIN jobs : jobs[k] \in readable THEN jobs ELSE <<>>

----------------------------------------------------------------------------
(* A V6 package: [manifest, adapter, executor, lease, proof, intents,          *)
(* allocations, children]; a child is [intent, sourceCall, data, dataHash,     *)
(* recipient, recipientHash].                                                *)

IntentGroup(intents) == IF Len(intents) = 1 THEN intents[1] ELSE <<"batch", intents>>

PayloadHash(call, intents, allocations) == <<call, intents, allocations>>

LeaseIsForUs(package, config, now) ==
    /\ package.adapter = config.adapter /\ package.executor = config.executor
    /\ package.lease.adapter = config.adapter /\ package.lease.operator = config.relayer
    /\ package.lease.pool \in config.pools
    /\ package.lease.expiry >= now

(* validatePayoutV6ExecutionPayload. *)
ValidV6Payload(package, config, now) ==
    LET call == PoolCall(package.proof)
        lease == package.lease
    IN /\ LeaseIsForUs(package, config, now)
       /\ call.signals.pool = lease.pool /\ call.signals.version = 3 /\ call.signals.mode = 0
       /\ call.signals.executor = package.executor
       /\ Len(package.intents) \in 1..10 /\ Len(package.allocations) = Len(package.intents)
       /\ Distinct(package.intents)
       /\ lease.intent = IntentGroup(package.intents)
       /\ lease.payload = PayloadHash(call, package.intents, package.allocations)
       /\ Total(package.allocations) = call.signals.fee
       /\ lease.maximum >= call.signals.fee

(* executionChildren: bound to the intents, in order, and to the source call. *)
ValidChildren(package) ==
    /\ Len(package.children) = Len(package.intents)
    /\ \A k \in DOMAIN package.children :
          LET child == package.children[k]
          IN /\ child.intent = package.intents[k]
             /\ child.sourceCall = PoolCall(package.proof)
             /\ child.data = child.dataHash /\ child.recipient = child.recipientHash

(* claimPayoutV6Execution, executionPackage. *)
ValidV6Package(package, manifest, config, pool, now) ==
    /\ package.manifest = manifest
    /\ ValidPoolV3Proof(package.proof, [pool EXCEPT !.executor = config.executor])
    /\ ValidV6Payload(package, config, now)
    /\ ValidChildren(package)
=============================================================================
