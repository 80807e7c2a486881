----------------------------- MODULE ProofQuorum -----------------------------
(***************************************************************************)
(* What the attesters' answers amount to                                    *)
(* (phase3/payout-v4-attester-client.ts).  From version 5 on two attesters    *)
(* are asked and their answers are put together; a payout is completed or   *)
(* refunded only when the result is ready.                                  *)
(*                                                                         *)
(* An answer is [intent, proof, threshold, epoch, digest, signers,            *)
(* signatures, ready]: the two sequences go together.  A signature is        *)
(* [by, over, nth]: who made it, over which digest; nth tells apart two       *)
(* signatures of one digest.  A config is [urls, expected], pairs.            *)
(* Formats and transport are left out: an attester that answers with a       *)
(* failure, or not at all, is an exception.                                  *)
(***************************************************************************)
EXTENDS Integers, FiniteSets

(* requireHttpsUrl, requireToken, assertAddress: what each version must find *)
(* in its environment; reading it throws if anything is missing.             *)
Settings(version) ==
    {"provenanceUrl", "proofUrl", "token"}
        \cup (IF version = 4 THEN {} ELSE {"secondUrl", "signerA", "signerB"})

ReadConfig(version, enabled, valid) ==
    CASE ~enabled -> "disabled"
      [] enabled /\ Settings(version) \subseteq valid -> "enabled"
      [] OTHER -> "throws"

(* proofUrls: two services, two identities. *)
Separate(config) ==
    config.urls[1] # config.urls[2] /\ config.expected[1] # config.expected[2]

(* parseQuorum, parseRefundQuorum: one signer for each signature. *)
WellFormed(answer) == DOMAIN answer.signers = DOMAIN answer.signatures

(* The signatures the answers hold of a signer. *)
Said(answers, signer) ==
    UNION {{a.signatures[n] : n \in {l \in DOMAIN a.signers : a.signers[l] = signer}}
             : a \in {answers[1], answers[2]}}

Agree(answers) ==
    /\ answers[1].proof = answers[2].proof
    /\ answers[1].threshold = answers[2].threshold
    /\ answers[1].epoch = answers[2].epoch
    /\ answers[1].digest = answers[2].digest

Expected(config) == {config.expected[1], config.expected[2]}

Conflicting(answers, config) ==
    \E s \in Expected(config) : \E x, y \in Said(answers, s) : x # y

(* The expected signers whose signature is there. *)
Signed(answers, config) == {s \in Expected(config) : Said(answers, s) # {}}

(* An exception. *)
NoQuorum == [ready |-> FALSE, proof |-> "none", digest |-> "none", threshold |-> 0,
             signatures |-> <<>>]

(* aggregateQuorums.  The attesters' own verdict (ready) is not looked at. *)
AggregateQuorums(answers, config) ==
    IF ~Agree(answers) \/ Conflicting(answers, config) THEN NoQuorum
    ELSE [ready      |-> /\ Signed(answers, config) = Expected(config)
                         /\ Cardinality(Signed(answers, config)) >= answers[1].threshold,
          proof      |-> answers[1].proof,
          digest     |-> answers[1].digest,
          threshold  |-> answers[1].threshold,
          signatures |-> [s \in Signed(answers, config) |->
                            CHOOSE x \in Said(answers, s) : TRUE]]

(* readPayoutV4ProofQuorum: one attester, whose verdict is taken. *)
ReadV4Quorum(answer) == IF WellFormed(answer) THEN answer.ready ELSE FALSE

(* readPayoutV5ProofQuorum, readPayoutV5RefundQuorum (V5 and later). *)
ReadQuorum(answers, config) ==
    IF Separate(config) /\ WellFormed(answers[1]) /\ WellFormed(answers[2])
    THEN AggregateQuorums(answers, config) ELSE NoQuorum

(* requestPayoutV5ProofAttestation, requestPayoutV5RefundAttestation: both    *)
(* are made to sign, each as itself.  The signature is not verified.          *)
Attests(answers, config) ==
    /\ Separate(config)
    /\ answers[1].proof = answers[2].proof
    /\ \A k \in {1, 2} : answers[k].signers[1] = config.expected[k]

(* requestPayoutV6ProofAttestation (V6, V7): each signs as itself, for this   *)
(* intent, and its signature is recovered.                                    *)
Authentic(answer, signer, intent) ==
    /\ answer.intent = intent /\ answer.threshold # 0
    /\ DOMAIN answer.signers = {1} /\ DOMAIN answer.signatures = {1}
    /\ answer.signers[1] = signer
    /\ answer.signatures[1].by = signer /\ answer.signatures[1].over = answer.digest

RequestV6Attestation(answers, config, intent) ==
    IF Separate(config) /\ \A k \in {1, 2} : Authentic(answers[k], config.expected[k], intent)
    THEN AggregateQuorums(answers, config) ELSE NoQuorum
=============================================================================
