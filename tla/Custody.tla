------------------------------- MODULE Custody -------------------------------
(***************************************************************************)
(* What withdrawals promise, without requests, transfers or webhooks: the  *)
(* amount of a withdrawal is in one place at a time, and the balance of    *)
(* the wallet tells.  Payouts is shown to implement it.                    *)
(***************************************************************************)
EXTENDS Integers

CONSTANTS
  Withdrawals,
  Amount,         \* [Withdrawals -> Nat]
  InitialBalance

VARIABLES
  balance,  \* of the wallet
  place     \* of each amount; "unknown" where nothing is promised

Place == {"wallet", "held", "paid", "returned", "unknown"}

Init ==
  /\ balance = InitialBalance
  /\ place = [w \in Withdrawals |-> "wallet"]

Moves(w, from, to, delta) ==
  /\ place[w] = from
  /\ place' = [place EXCEPT ![w] = to]
  /\ balance' = balance + delta

\* Held, only if the wallet covers it; then paid out, or given back.
Hold(w) == Amount[w] <= balance /\ Moves(w, "wallet", "held", -Amount[w])
Pay(w) == Moves(w, "held", "paid", 0)
GiveBack(w) == Moves(w, "held", "returned", Amount[w])

\* The bank sends the money back.
Bounce(w) == Moves(w, "paid", "held", 0)

\* Other movements of the wallet.
Other(delta) == balance' = balance + delta /\ UNCHANGED place

\* Nothing is promised any more of some withdrawals; they may still take their
\* amounts and give them back, as often as they like.
GiveUp(ws) ==
  /\ place' = [w \in Withdrawals |-> IF w \in ws THEN "unknown" ELSE place[w]]
  /\ UNCHANGED balance
Stray(w) ==
  /\ place[w] = "unknown" /\ UNCHANGED place
  /\ balance' \in {balance - Amount[w], balance + Amount[w]}

Next ==
  \/ \E w \in Withdrawals : Hold(w) \/ Pay(w) \/ GiveBack(w) \/ Bounce(w) \/ Stray(w)
  \/ \E delta \in {-1, 1} : Other(delta)
  \/ \E ws \in SUBSET Withdrawals : GiveUp(ws)

Spec == Init /\ [][Next]_<<balance, place>>
=============================================================================
