--------------------------- MODULE PayoutsCustody ----------------------------
(***************************************************************************)
(* Payouts implements Custody.                                             *)
(***************************************************************************)
EXTENDS Payouts

\* Where the amount of a withdrawal is, by the ledger and the bank; the status
\* of the request has no say.
PlaceOf(w) ==
  CASE w \in disturbed -> "unknown"
    [] w \notin disturbed /\ w \notin debited -> "wallet"
    [] w \notin disturbed /\ w \in debited /\ refunds[w] = 0 /\ Paid(w) = 0 -> "held"
    [] w \notin disturbed /\ w \in debited /\ refunds[w] = 0 /\ Paid(w) = 1 -> "paid"
    [] w \notin disturbed /\ w \in debited /\ refunds[w] = 1 /\ Paid(w) = 0 -> "returned"
    [] OTHER -> "both"

Abstract == INSTANCE Custody WITH place <- [w \in Withdrawals |-> PlaceOf(w)]

\* Every behaviour of the requests, the transfers and their webhooks moves each
\* amount from the wallet to the driver, or back to the wallet, one step at a
\* time, and the balance by just that: nothing is debited twice, paid twice,
\* refunded twice, refunded while it is paid, or paid after it was refunded;
\* unless the withdrawal was disturbed, and then the others keep the promise.
WithdrawalsKept == Abstract!Spec
=============================================================================
