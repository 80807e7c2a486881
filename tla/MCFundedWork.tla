---------------------------- MODULE MCFundedWork ----------------------------
(* An instance of FundedWork for TLC: two attempts share a publication; and  *)
(* small transactions and observation sequences for DepositPairing.          *)
EXTENDS FundedDeposits, TLC

CONSTANTS a1, a2, t1, t2, t3, p1

MCPubOf == (a1 :> p1) @@ (a2 :> p1)
MCAttemptOf == [t \in Transfers |-> IF t = t1 THEN a1 ELSE a2]

(* At each of four log indices nothing, or a transfer of one token between   *)
(* a payer, two virtual addresses and the master.                            *)
Routes == {<<"payer", "v1">>, <<"v1", "master">>, <<"payer", "v2">>, <<"v2", "master">>,
           <<"master", "v1">>, <<"v1", "payer">>}
Slots == {<<>>} \cup (Routes \X {1}) \cup ({<<"payer", "v1">>, <<"v1", "master">>} \X {2})
SmallTransactions ==
    {{[log |-> k, token |-> "usdc", from |-> s[k][1][1], to |-> s[k][1][2], amount |-> s[k][2]]
        : k \in {l \in 1..4 : s[l] # <<>>}} : s \in [1..4 -> Slots]}

SmallBookings ==
    UNION {[1..n -> [id : 1..2, class : ObservationClasses, late : BOOLEAN]] : n \in 0..3}
=============================================================================
