-------------------------- MODULE CheckpointJournal --------------------------
(***************************************************************************)
(* The local journal of the checkpointed payouts: the tables               *)
(* relay_v4_, relay_v5_ and relay_v6_execution_checkpoints and             *)
(* ..._submissions of pending-store.ts, which have one shape.  A checkpoint *)
(* is the transaction that performed a step of an intent; a submission is   *)
(* evidence that a transaction was handed to the node.  Hashes are numbered *)
(* in the order of their broadcast, so "ORDER BY created_at DESC" is the    *)
(* order from the largest down.                                             *)
(***************************************************************************)
EXTENDS Naturals

CONSTANTS Intents,    \* intent hashes
          Hashes,     \* transaction hashes, 1, 2, ... in order of broadcast
          NoHash

ASSUME HashesAssumption == Hashes \subseteq Nat /\ NoHash \notin Hashes

VARIABLES checkpoint,   \* checkpoint[i][s]: transaction_hash of the row (i, s)
          submitted     \* submitted[i][s]: the hashes of the rows (i, s, _)

journalVars == <<checkpoint, submitted>>

(* V5 and V6 call the fifth step proveCompletion. *)
Steps == {"acceptQuote", "poolWithdraw", "confirmEscrowReceipt", "submitPayout",
          "completePayout", "proveRelayRefund"}

JournalTypeOK ==
    /\ checkpoint \in [Intents -> [Steps -> Hashes \cup {NoHash}]]
    /\ submitted \in [Intents -> [Steps -> SUBSET Hashes]]

JournalInit ==
    /\ checkpoint = [i \in Intents |-> [s \in Steps |-> NoHash]]
    /\ submitted = [i \in Intents |-> [s \in Steps |-> {}]]

Recorded(i, s) == checkpoint[i][s] # NoHash

(* transaction_hash is UNIQUE over the whole table. *)
TakenElsewhere(i, s, h) ==
    \E j \in Intents, t \in Steps : <<j, t>> # <<i, s>> /\ checkpoint[j][t] = h

(* recordPayoutV.LocalCheckpoint either inserts, or finds the very same row; *)
(* it throws on another hash in the row and, since ON CONFLICT names         *)
(* (intent_hash, step) only, on a hash that another row has.                 *)
CanCheckpoint(i, s, h) ==
    \/ checkpoint[i][s] = h
    \/ ~Recorded(i, s) /\ ~TakenElsewhere(i, s, h)

RecordCheckpoint(i, s, h) ==
    /\ CanCheckpoint(i, s, h)
    /\ checkpoint' = [checkpoint EXCEPT ![i][s] = h]
    /\ UNCHANGED submitted

(* recordPayoutV.LocalSubmission: append only. *)
RecordSubmission(i, s, h) ==
    /\ submitted' = [submitted EXCEPT ![i][s] = @ \cup {h}]
    /\ UNCHANGED checkpoint

(* listPayoutV6DownstreamCheckpoints (its LIMIT 50 is above any instance). *)
AwaitsDelivery(i) ==
    /\ Recorded(i, "submitPayout")
    /\ ~Recorded(i, "completePayout") /\ ~Recorded(i, "proveRelayRefund")
=============================================================================
