---------------------------- MODULE MCLegacyRelay ----------------------------
(* Instances of LegacyRelay for TLC: b1 and b2 are two proofs over one note; *)
(* v1 spends n2 and n3, v2 only n3.  And small fee schedules for FeeSchedules: *)
(* one or two shapes, ceilings and budgets of a few units.                    *)
EXTENDS RelaySchedules, TLC

CONSTANTS b1, b2, v1, v2, n1, n2, n3

MCNotesOf == (b1 :> <<n1>>) @@ (b2 :> <<n1>>) @@ (v1 :> <<n2, n3>>) @@ (v2 :> <<n3>>)
MCPayloads == {<<b1>>, <<b2, v1>>, <<v2>>}

Withdrawal == [pool |-> "pool", mode |-> 0, inputs |-> 2, outputs |-> 1]
Consolidation == [pool |-> "pool", mode |-> 1, inputs |-> 3, outputs |-> 0]
Templates(shape, highest) == [shape : {shape}, fee : 1..highest, ceiling : 1..highest]
SmallTemplates == {<<t>> : t \in Templates(Withdrawal, 3)}
                    \cup {<<t, u>> : t \in Templates(Withdrawal, 2), u \in Templates(Consolidation, 2)}
                    \cup {<<t, t>> : t \in Templates(Withdrawal, 1)}
SmallMaximum == [m \in {0, 1} |-> 8 - m]
SmallOffers ==
    {[templates |-> l, budget |-> b, gasPrice |-> g, configured |-> c, start |-> 5,
      nonces |-> [k \in DOMAIN l |-> k]] :
        l \in SmallTemplates, b \in 0..3, g \in 1..3, c \in {-1, 0, 30, 60, 61}}
=============================================================================
