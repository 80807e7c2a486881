---------------------------- MODULE DepositPairing ----------------------------
(***************************************************************************)
(* How a deposit to a TIP-1022 virtual address is recognised and booked     *)
(* (internal/indexer/index.ts and observation-worker.ts).  The token makes  *)
(* two transfers of a deposit, payer to virtual address and virtual address *)
(* to the master; the indexer is handed one transaction's transfers and     *)
(* pairs them up again.                                                     *)
(*                                                                         *)
(* A transfer is [log, token, from, to, amount]; a transaction is a set of  *)
(* transfers with different log indices.  Identifiers and hashes are left   *)
(* out: a pair is its own identifier.                                       *)
(***************************************************************************)
EXTENDS Naturals, FiniteSets, SequencesExt

(* Fault: only what leaves the virtual address is taken for ambiguous. *)
TouchesLeaving(t, first, second) ==
    /\ t.log > first.log /\ t.log < second.log
    /\ t.token = first.token
    /\ t.from = first.to

(* A transfer that touches the virtual address between the two logs of a     *)
(* pair makes the pair ambiguous.                                            *)
Touches(t, first, second) ==
    /\ t.log > first.log /\ t.log < second.log
    /\ t.token = first.token
    /\ t.from = first.to \/ t.to = first.to

(* assertTip1022TransactionContext. *)
Unambiguous(T, first, second) == \A t \in T : ~Touches(t, first, second)

(* createTip1022Observation accepts the pair. *)
Observable(T, master, first, second) ==
    /\ first \in T /\ second \in T
    /\ first.token = second.token /\ first.amount = second.amount
    /\ second.from = first.to /\ second.to = master
    /\ second.log > first.log
    /\ first.from # master
    /\ Unambiguous(T, first, second)

(* What selectTip1022TransferPair may take for the ingress of a transfer to  *)
(* the master: logs after the previous forward of that address and token.    *)
Ingress(T, master, second) ==
    {t \in T : /\ t.token = second.token /\ t.to = second.from /\ t.amount = second.amount
               /\ t.log < second.log
               /\ \A e \in T : (e.to = master /\ e.token = second.token /\ e.from = second.from
                                  /\ e.log < second.log) => e.log < t.log}

(* The pairs selectTip1022TransferPair returns; it throws for any other       *)
(* transfer to the master.                                                   *)
Selected(T, master) ==
    {p \in T \X T : p[2].to = master /\ Ingress(T, master, p[2]) = {p[1]}}

----------------------------------------------------------------------------
(* The state of a payment attempt (VirtualDepositAttemptState).  An           *)
(* observation is [id, class, late]: its token and amount, compared with the  *)
(* attempt's, and whether it was seen after expiresAt.                        *)

NoPayment == 0
ObservationClasses == {"wrong_token", "dust", "low", "exact", "high"}
Observation == [id : Nat \ {NoPayment}, class : ObservationClasses, late : BOOLEAN]
Awaiting == [status |-> "awaiting_payment", seen |-> {}, canonical |-> NoPayment,
             match |-> "none", review |-> FALSE]

(* The outcomes after the first exact payment, in the order they are tested. *)
Match(state, o) ==
    CASE state.canonical # NoPayment -> "duplicate_payment"
      [] state.canonical = NoPayment /\ o.class = "wrong_token" -> "wrong_token"
      [] state.canonical = NoPayment /\ o.class = "dust" -> "ignored_dust"
      [] state.canonical = NoPayment /\ o.class \in {"low", "exact", "high"} ->
           IF o.late THEN "late"
           ELSE IF o.class = "low" THEN "underpayment"
           ELSE IF o.class = "high" THEN "overpayment" ELSE "exact"

(* Fault: an exact payment settles the attempt and clears its review. *)
ApplyClearing(state, o) ==
    LET match == Match(state, o)
    IN [status    |-> CASE match = "exact" -> "payment_detected"
                        [] match \in {"duplicate_payment", "ignored_dust"} -> state.status
                        [] OTHER -> "manual_review",
        seen      |-> state.seen \cup {o.id},
        canonical |-> IF match = "exact" THEN o.id ELSE state.canonical,
        match     |-> match,
        review    |-> match # "exact" /\ (state.review \/ match # "ignored_dust")]

(* applyVirtualDepositObservation. *)
ApplyVirtualDepositObservation(state, o) ==
    LET match == Match(state, o)
    IN [status    |-> CASE match = "exact" -> "payment_detected"
                        [] match \in {"duplicate_payment", "ignored_dust"} -> state.status
                        [] OTHER -> "manual_review",
        seen      |-> state.seen \cup {o.id},
        canonical |-> IF match = "exact" THEN o.id ELSE state.canonical,
        match     |-> match,
        review    |-> state.review \/ match \notin {"exact", "ignored_dust"}]

Booked(observations) == FoldLeft(ApplyVirtualDepositObservation, Awaiting, observations)

----------------------------------------------------------------------------
(* Properties, of one transaction and of one sequence of observations *)

(* No transfer is booked twice, whichever logs the caller selects; the money *)
(* comes from outside; and what the worker selects itself is the only pair   *)
(* its forward can be observed in.                                           *)
DistinctIn(T, master) ==
    LET pairs == {p \in T \X T : Observable(T, master, p[1], p[2])}
    IN /\ \A p, q \in pairs : p = q \/ (p[1] # q[1] /\ p[2] # q[2])
       /\ \A p \in pairs : p[1].from # master
       /\ \A p \in pairs, q \in Selected(T, master) : p[2] = q[2] => p = q

(* A payment stands without a review exactly if the observations are one     *)
(* exact payment in time, with nothing but dust before it and nothing, not   *)
(* even its own redelivery, after it.                                        *)
CleanIn(observations) ==
    LET end == Booked(observations)
        n == Len(observations)
    IN (end.status = "payment_detected" /\ ~end.review) <=>
         /\ n > 0 /\ observations[n].class = "exact" /\ ~observations[n].late
         /\ \A k \in 1..(n - 1) : observations[k].class = "dust"
=============================================================================
