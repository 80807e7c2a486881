----------------------------- MODULE MCPayoutV7 -----------------------------
(* Instances of PayoutV7 for TLC: two calls that share an input; c1 is short *)
(* of time, c2 outlives it.                                                  *)
EXTENDS PayoutV7, TLC

CONSTANTS c1, c2, n1

MCInputsOf == (c1 :> {n1}) @@ (c2 :> {n1})
MCChildrenOf == (c1 :> {1}) @@ (c2 :> {2})
MCQuoteEnd == (c1 :> 1) @@ (c2 :> 3)
MCLeases == (c1 :> {1, 3}) @@ (c2 :> {3})
=============================================================================
