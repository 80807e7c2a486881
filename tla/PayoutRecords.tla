---------------------------- MODULE PayoutRecords ----------------------------
(***************************************************************************)
(* The public records of the payouts of CheckpointedPayout: what the adapter *)
(* of versions 4 and 5 emits when a transaction is mined goes through        *)
(* PayoutLifecycle.  A record is a function of the chain, so nothing is      *)
(* added to the state: the property says that following every event leads    *)
(* there.                                                                   *)
(***************************************************************************)
EXTENDS CheckpointedPayout, PayoutLifecycle

(* The status of the record of an intent whose every event was applied. *)
PublicStatus(i) ==
    CASE status[i] = 0 -> "payout_requested"
      [] status[i] = 1 -> IF spent THEN "pool_withdrawal_pending" ELSE "escrow_address_reserved"
      [] status[i] = 2 -> "escrow_receipt_confirmed"
      [] status[i] = 3 -> "payout_submitted"
      [] status[i] = 4 -> "payout_completed"
      [] status[i] = 5 -> "refund_available"
      [] OTHER         -> "refunded"

(* What the adapter emits for an intent that reached this public status. *)
Emitted(publicStatus) ==
    CASE publicStatus = "escrow_address_reserved"  -> "quote_accepted"
      [] publicStatus = "pool_withdrawal_pending"  -> "pool_withdrawal_confirmed"
      [] publicStatus = "refund_available"         -> "relay_refund_proven"
      [] publicStatus = "refunded"                 -> "refund_claimed"
      [] OTHER                                     -> publicStatus

(* The record of an intent takes every event the adapter emits, in the order *)
(* the chain makes them, and ends where the chain is: no event is refused    *)
(* and none leaves the record behind.  The refund a relay proves after the   *)
(* submission (version 5) is left out: payout_submitted does not take it.    *)
PublicRecordFollows ==
    [][plan.version \in {4, 5} =>
         \A i \in Payout :
            LET from == PublicStatus(i)
                to == PublicStatus(i)'
            IN from = to \/ to = "refund_available"
               \/ Record(plan.version, Emitted(to), 0, TRUE, [status |-> from, seen |-> {}]).status
                     = to]_vars
=============================================================================
