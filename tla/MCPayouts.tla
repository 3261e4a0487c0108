------------------------------ MODULE MCPayouts ------------------------------
(* Instances of Payouts for TLC. *)
EXTENDS PayoutsCustody, TLC

CONSTANTS w1, w2

OneRequest == {w1}
TwoRequests == {w1, w2}
Ones == [w \in Withdrawals |-> 1]
=============================================================================
