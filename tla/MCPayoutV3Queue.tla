--------------------------- MODULE MCPayoutV3Queue ---------------------------
(* Instances of PayoutV3Queue for TLC. *)
EXTENDS PayoutV3Queue

TwoPayouts == 1..2

Setting(b, c, d) == [broadcast |-> b, corrupt |-> c, direct |-> d]
SomeSettings == {Setting(TRUE, {}, {}), Setting(TRUE, {1}, {1, 2}), Setting(FALSE, {}, {2})}
=============================================================================
