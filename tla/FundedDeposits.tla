---------------------------- MODULE FundedDeposits ----------------------------
(***************************************************************************)
(* The deposits that fund the attempts of FundedWork: what the indexer may   *)
(* make of the transactions it is handed, and what a payment attempt becomes *)
(* under the observations that reach it (DepositPairing).  Both are read     *)
(* whole by the code, so nothing is added to the state.                      *)
(***************************************************************************)
EXTENDS FundedWork, DepositPairing

CONSTANTS Master,       \* the address the virtual addresses forward to
          Transactions, \* what the chain may hold: sets of transfers
          Bookings      \* what may be observed of an attempt, in order

(* A log index is unique in its transaction. *)
ASSUME TransactionsAssumption ==
    \A T \in Transactions :
        /\ \A t \in T : t.log \in Nat
        /\ \A t, u \in T : t.log = u.log => t = u
ASSUME BookingsAssumption == Bookings \subseteq Seq(Observation)

AllDistinct == \A T \in Transactions : DistinctIn(T, Master)
AllClean == \A observations \in Bookings : CleanIn(observations)
Observing == \E t \in Transfers : obs[t] # "unseen"

(* What the indexer observes in a transaction are distinct deposits: no       *)
(* transfer log is booked in two pairs, whichever logs are selected.          *)
DepositsAreDistinct == Observing => AllDistinct

(* An attempt is paid without a review by one exact payment in time, after   *)
(* nothing but dust, and by nothing else.                                    *)
CleanPaymentIsSingle == Observing => AllClean
=============================================================================
