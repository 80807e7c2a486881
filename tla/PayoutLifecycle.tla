--------------------------- MODULE PayoutLifecycle ---------------------------
(***************************************************************************)
(* The public record of a payout (shared-types/src/index.ts): its statuses,  *)
(* what each may turn into, and which of them the events of the payout       *)
(* adapters of versions 3, 4 and 5 stand for.                               *)
(*                                                                         *)
(* A record is [status, seen]: seen is auditEventIds.  A public event is     *)
(* [id, status, reason]: reason says whether it carries a reason hash.       *)
(* Labels, authorities and times are left out.                              *)
(***************************************************************************)
EXTENDS Naturals, SequencesExt

Statuses == {"payout_requested", "quote_accepted", "escrow_address_reserved",
             "pool_withdrawal_pending", "escrow_receipt_confirmed", "payout_pending",
             "payout_submitted", "payout_completed", "payout_expired", "provider_failed",
             "manual_review", "refund_available", "refunded"}

(* What may go wrong from the withdrawal to the submission. *)
Troubles == {"payout_expired", "manual_review", "provider_failed"}

(* PHASE3_PAYOUT_TRANSITIONS. *)
Transitions ==
    [payout_requested         |-> {"quote_accepted"},
     quote_accepted           |-> {"escrow_address_reserved"},
     escrow_address_reserved  |-> {"pool_withdrawal_pending", "payout_expired"},
     pool_withdrawal_pending  |-> {"escrow_receipt_confirmed"} \cup Troubles,
     escrow_receipt_confirmed |-> {"payout_pending"} \cup Troubles,
     payout_pending           |-> {"payout_submitted"} \cup Troubles,
     payout_submitted         |-> {"payout_completed"} \cup Troubles,
     payout_completed         |-> {},
     payout_expired           |-> {"refund_available"},
     provider_failed          |-> {"payout_expired", "refund_available"},
     manual_review            |-> {"payout_completed", "provider_failed", "refund_available"},
     refund_available         |-> {"refunded"},
     refunded                 |-> {}]

NeedReason == {"provider_failed", "manual_review", "refunded"}

(* What is left of a record when applyPhase3PayoutLifecycleEvent throws. *)
Refused == [status |-> "refused", seen |-> {}]

Accepts(record, event) ==
    /\ event.status \in Transitions[record.status]
    /\ event.status \in NeedReason => event.reason

(* A redelivered event changes nothing. *)
Apply(record, event) ==
    CASE record = Refused \/ event.id \in record.seen -> record
      [] record # Refused /\ event.id \notin record.seen /\ Accepts(record, event) ->
           [status |-> event.status, seen |-> record.seen \cup {event.id}]
      [] OTHER -> Refused

----------------------------------------------------------------------------
(* The public statuses of an event of the adapter. *)

Expiry == <<"payout_expired", "refund_available">>

EventsV3 ==
    [quote_accepted           |-> <<"quote_accepted", "escrow_address_reserved">>,
     escrow_receipt_confirmed |-> <<"pool_withdrawal_pending", "escrow_receipt_confirmed">>,
     payout_submitted         |-> <<"payout_pending", "payout_submitted">>,
     payout_completed         |-> <<"payout_completed">>,
     escrow_refund_available  |-> Expiry,
     refund_available         |-> Expiry,
     refund_claimed           |-> <<"refunded">>]

(* Fault: the withdrawal is reported with the receipt, as in version 3. *)
EventsLikeV3 == EventsV3 @@ [pool_withdrawal_confirmed |-> <<>>]

EventsV4 ==
    [quote_accepted            |-> <<"quote_accepted", "escrow_address_reserved">>,
     pool_withdrawal_confirmed |-> <<"pool_withdrawal_pending">>,
     escrow_receipt_confirmed  |-> <<"escrow_receipt_confirmed">>,
     payout_submitted          |-> <<"payout_pending", "payout_submitted">>,
     payout_completed          |-> <<"payout_completed">>,
     escrow_refund_available   |-> Expiry,
     refund_available          |-> Expiry,
     refund_claimed            |-> <<"refunded">>]

EventsV5 ==
    [quote_accepted                  |-> <<"quote_accepted", "escrow_address_reserved">>,
     pool_withdrawal_confirmed       |-> <<"pool_withdrawal_pending">>,
     escrow_receipt_confirmed        |-> <<"escrow_receipt_confirmed">>,
     payout_submitted                |-> <<"payout_pending", "payout_submitted">>,
     payout_completed                |-> <<"payout_completed">>,
     pre_submission_refund_available |-> Expiry,
     relay_refund_proven             |-> <<"refund_available">>,
     refund_claimed                  |-> <<"refunded">>,
     residual_refund_claimed         |-> <<>>]

EventsOf(version) == CASE version = 3 -> EventsV3 [] version = 4 -> EventsV4 [] OTHER -> EventsV5

(* The mapping throws without evidence. *)
NeedEvidence(version) ==
    IF version = 5
    THEN {"payout_completed", "relay_refund_proven", "refund_claimed", "residual_refund_claimed"}
    ELSE {"refund_claimed"}

(* The statuses the evidence is the reason of. *)
Reasoned(version) ==
    {"payout_expired", "refunded"}
        \cup (IF version = 5 THEN {"payout_completed", "refund_available"} ELSE {})

(* The public events of one adapter event with identifier id. *)
PublicEvents(version, type, id, evidence) ==
    LET statuses == EventsOf(version)[type]
    IN [k \in DOMAIN statuses |->
          [id |-> <<id, k>>, status |-> statuses[k],
           reason |-> evidence /\ statuses[k] \in Reasoned(version)]]

(* The record after an adapter event. *)
Record(version, type, id, evidence, record) ==
    IF type \in NeedEvidence(version) /\ ~evidence THEN Refused
    ELSE FoldLeft(Apply, record, PublicEvents(version, type, id, evidence))

(* What else the projection asks of the datasource. *)
Effects(version, type) ==
    CASE type = "payout_submitted" ->
           IF version = 5 THEN {"relay_state=processing"} ELSE {"liability=active"}
      [] type = "payout_completed" ->
           IF version = 5 THEN {"terminal_path=completed"} ELSE {"liability=released"}
      [] type = "escrow_refund_available" -> {"liability=unreserved"}
      [] type = "refund_available" -> {"liability=slashed"}
      [] type = "relay_refund_proven" -> {"proof_kind=relay_refund"}
      [] type = "refund_claimed" ->
           IF version = 5 THEN {"terminal_path=refunded"} ELSE {"terminal_path=terminal"}
      [] type = "residual_refund_claimed" -> {"residual_refund_claimed"}
      [] OTHER -> {}
=============================================================================
