------------------------ MODULE MCCheckpointedPayout ------------------------
(* Instances of CheckpointedPayout, with its public records, for TLC; and    *)
(* what the conditions of ProofQuorum and ExecutionPayloads let pass and stop, *)
(* on small answers and packages.                                            *)
EXTENDS PayoutRecords

Quorums == INSTANCE ProofQuorum
Packages == INSTANCE ExecutionPayloads

AllPlans == [version : 4..6, size : {1, 2}]
BatchPlans == [version : {4, 5}, size : {2}]
TwoIntents == 1..2
SomeHashes == 1..7

----------------------------------------------------------------------------
(* Two attesters, each with a signature or none, and perhaps a second one of *)
(* the first signer.                                                         *)
Config == [urls |-> <<"a.org", "b.org">>, expected |-> <<"a", "b">>]

Answer(signer, nth) ==
    [intent |-> 1, proof |-> "p", threshold |-> 2, epoch |-> 1, digest |-> "d",
     signers |-> <<signer>>, signatures |-> <<[by |-> signer, over |-> "d", nth |-> nth]>>,
     ready |-> FALSE]

Silent == [Answer("a", 1) EXCEPT !.signers = <<>>, !.signatures = <<>>]

ASSUME QuorumOfTwo ==
    /\ Quorums!RequestV6Attestation(<<Answer("a", 1), Answer("b", 1)>>, Config, 1).ready
    /\ ~Quorums!RequestV6Attestation(<<Answer("a", 1), Answer("a", 1)>>, Config, 1).ready
    /\ ~Quorums!ReadQuorum(<<Answer("a", 1), Silent>>, Config).ready
    /\ ~Quorums!ReadQuorum(<<Answer("a", 1), Answer("a", 2)>>, Config).ready

(* A withdrawal to two escrows, with what belongs to it in version 4 and in  *)
(* version 6.                                                                *)
Ten(first, second) == [k \in 1..10 |-> IF k = 1 THEN first ELSE IF k = 2 THEN second ELSE 0]

Bundle ==
    [pool |-> 7, fee |-> 0, relayer |-> 9, domain |-> 1, recipients |-> Ten(11, 12),
     amounts |-> Ten(100, 200), domains |-> [k \in 1..10 |-> 1],
     bindings |-> [k \in 1..2 |-> [intent |-> k, adapter |-> 5, escrow |-> 10 + k,
                                   authority |-> 9, amount |-> 100 * k]]]

Authority(k) ==
    [intent |-> k, quote |-> k, adapter |-> 5, escrow |-> 10 + k, authority |-> 9,
     intentAuthority |-> 9, amount |-> 100 * k, pool |-> 7, token |-> 3, asset |-> 4]

ASSUME BundlePasses ==
    /\ Packages!ValidV4Bundle(Bundle, {Authority(1), Authority(2)}, 9, 1)
    /\ ~Packages!ValidV4Bundle([Bundle EXCEPT !.amounts = Ten(200, 100)],
                               {Authority(1), Authority(2)}, 9, 1)
    /\ ~Packages!ValidV4Bundle([Bundle EXCEPT !.recipients = Ten(11, 11), !.amounts = Ten(100, 100)],
                               {Authority(1), Authority(2)}, 9, 1)

Proof ==
    [artifact |-> "hash", mode |-> 0, pool |-> 7, recipients |-> Ten(11, 12),
     amounts |-> Ten(100, 200), domains |-> [k \in 1..10 |-> 1], change |-> 0, envelope |-> 0,
     fee |-> 5, schedule |-> "s",
     signals |-> [domain |-> 1, chain |-> 1, pool |-> 7, version |-> 3, mode |-> 0, executor |-> 6,
                  inputs |-> 1, nullifiers |-> <<21, 0, 0, 0>>, recipients |-> Ten(11, 12),
                  amounts |-> Ten(100, 200), domains |-> [k \in 1..10 |-> 1], change |-> 0,
                  envelope |-> 0, fee |-> 5, protocolFee |-> 0]]

Package(allocations) ==
    [manifest |-> "m", adapter |-> 5, executor |-> 6, proof |-> Proof, intents |-> <<1, 2>>,
     allocations |-> allocations,
     lease |-> [adapter |-> 5, operator |-> 9, pool |-> 7, expiry |-> 3, maximum |-> 5,
                intent |-> Packages!IntentGroup(<<1, 2>>),
                payload |-> Packages!PayloadHash(Packages!PoolCall(Proof), <<1, 2>>, allocations)],
     children |-> [k \in 1..2 |-> [intent |-> k, sourceCall |-> Packages!PoolCall(Proof),
                                   data |-> k, dataHash |-> k, recipient |-> k, recipientHash |-> k]]]

V6Config == [adapter |-> 5, executor |-> 6, relayer |-> 9, pools |-> {7}]
Pool == [artifacts |-> [q \in {7} |-> "hash"], domain |-> 1, chain |-> 1, executor |-> 9]

ASSUME PackagePasses ==
    /\ Packages!ValidV6Package(Package(<<2, 3>>), "m", V6Config, Pool, 3)
    /\ ~Packages!ValidV6Package(Package(<<2, 2>>), "m", V6Config, Pool, 3)
    /\ ~Packages!ValidV6Package(Package(<<2, 3>>), "m", V6Config, Pool, 4)
    /\ ~Packages!ValidPoolV3Proof(Proof, Pool)
=============================================================================
