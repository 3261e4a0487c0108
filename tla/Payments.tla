------------------------------ MODULE Payments -------------------------------
(***************************************************************************)
(* The payments table and the two gateways that fill it: HDFC's redirect,  *)
(* Cashfree checkouts, the UPI QR and the payment link a rider shows at    *)
(* the door, and customers' wallet top-ups.  One booking; its end and what *)
(* that pays the driver are in Settlement.                                 *)
(*                                                                         *)
(* A row is an order at a gateway (cash has none).  An order may see       *)
(* failed attempts before it is paid, is paid once, and stays payable when *)
(* the row no longer is pending.  Webhooks and redirects come late, in any *)
(* order, again, or never: a success at any time after the payment, a      *)
(* failure at any time.                                                    *)
(***************************************************************************)
EXTENDS Integers, FiniteSets, Sequences

CONSTANTS
  MaxRows,    \* bound: rows of the payments table
  MaxCalls,   \* bound: handlers in flight at once
  MaxCrashes  \* bound: restarts of the server process

VARIABLES
  trip,       \* the booking's status
  via,        \* rows of the table, in order: how each is paid
  status,     \* and its payment_status
  paid,       \* orders paid at the gateway
  credited,   \* wallet rows whose amount was added to users.wallet_balance
  calls,      \* handlers that have awaited
  crashes     \* restarts so far

Rows == 1..MaxRows
Online == {"hdfc", "order", "link"}  \* orders for the booking
Cashfree == {"order", "link"}
Status == {"pending", "completed", "failed"}
Op == {"hdfc", "checkout", "qr", "mint", "save_qr", "mark", "save_cash", "save_offer",
       "save_online", "settle", "commission", "commission_offer", "deduct", "deduct_offer", "cash_row", "clear",
       "earnings", "credit"}
Call == [op : Op, r : Rows \cup {0}, n : 1..MaxCalls]

payments == <<via, status>>

HasRow(r) == r \in DOMAIN via
Latest == Len(via)
Completed(r) == HasRow(r) /\ status[r] = "completed"
ForBooking(r) == via[r] # "wallet"
PendingOnline == {r \in DOMAIN via : via[r] \in Online /\ status[r] = "pending"}
BookingPaid == \E r \in DOMAIN via : ForBooking(r) /\ Completed(r)

Insert(how, st) ==
  /\ Len(via) < MaxRows
  /\ via' = Append(via, how) /\ status' = Append(status, st)
SetStatus(r, st) == status' = [status EXCEPT ![r] = st] /\ UNCHANGED via

\* A handler has the least n that is free: it tells apart calls at one point.
Start(op, r) ==
  \E n \in 1..MaxCalls :
    /\ \A m \in 1..n : (\E c \in calls : c.n = m) <=> m # n
    /\ calls' = calls \cup {[op |-> op, r |-> r, n |-> n]}
Continue(c, op) == calls' = (calls \ {c}) \cup {[c EXCEPT !.op = op]}
Return(c) == calls' = calls \ {c}

(***************************************************************************)
(* Orders are made.                                                        *)
(***************************************************************************)

\* initiatePayment and initiateCashfree read: not cancelled, not paid.  The
\* pending row initiatePayment finds, one of them, is used again if it is HDFC's.
Initiate(op) ==
  /\ trip # "cancelled" /\ ~BookingPaid
  /\ op = "hdfc" => PendingOnline = {} \/ \E r \in PendingOnline : via[r] # "hdfc"
  /\ Start(op, 0)
  /\ UNCHANGED <<trip, payments, paid, credited, crashes>>

SaveOrder(c) ==
  /\ c \in calls /\ c.op \in {"hdfc", "checkout", "save_qr"}
  /\ Insert(IF c.op = "hdfc" THEN "hdfc" ELSE "order", "pending")
  /\ Return(c)
  /\ UNCHANGED <<trip, paid, credited, crashes>>

\* createBookingPaymentLink.
RequestLink ==
  /\ ~BookingPaid
  /\ Start("qr", 0)
  /\ UNCHANGED <<trip, payments, paid, credited, crashes>>

\* If a row is pending, the latest is confirmed first should it be paid
\* (verifyPendingLinkForBooking): then there is nothing to show.
LatestIsPaid ==
  Latest > 0 /\ via[Latest] \in Cashfree /\ status[Latest] = "pending" /\ Latest \in paid

LinkReconciled(c) ==
  /\ c \in calls /\ c.op = "qr" /\ LatestIsPaid
  /\ calls' = (calls \ {c}) \cup {[c EXCEPT !.op = "mark", !.r = Latest]}
  /\ UNCHANGED <<trip, payments, paid, credited, crashes>>

\* It is not, nothing is pending, or Cashfree does not answer: the call goes on
\* unless the booking is paid by now, which it asks only if a row was pending.
NotReconciled(c) ==
  /\ c \in calls /\ c.op = "qr"
  /\ \/ (BookingPaid => PendingOnline = {}) /\ Continue(c, "mint")
     \/ BookingPaid /\ Return(c)
  /\ UNCHANGED <<trip, payments, paid, credited, crashes>>

\* A SoftPOS or UPI QR could be had: its order supersedes the pending ones.
Supersede(c) ==
  /\ c \in calls /\ c.op = "mint"
  /\ status' = [r \in DOMAIN via |-> IF r \in PendingOnline THEN "failed" ELSE status[r]]
  /\ Continue(c, "save_qr")
  /\ UNCHANGED <<trip, via, paid, credited, crashes>>

\* Neither could: a link, the pending one if there is one.
MintLink(c) ==
  /\ c \in calls /\ c.op = "mint"
  /\ \/ Insert("link", "pending")
     \/ UNCHANGED payments /\ \E r \in PendingOnline : via[r] = "link"
  /\ Return(c)
  /\ UNCHANGED <<trip, paid, credited, crashes>>

\* initiateCashfreeWallet: a row of no booking.  One is enough, before the
\* others (a bound).
InitiateWallet ==
  /\ via = <<>>
  /\ Insert("wallet", "pending")
  /\ UNCHANGED <<trip, paid, credited, calls, crashes>>

(***************************************************************************)
(* The customer pays.                                                      *)
(***************************************************************************)

Pay(r) ==
  /\ HasRow(r) /\ via[r] # "cash" /\ r \notin paid
  /\ paid' = paid \cup {r}
  /\ UNCHANGED <<trip, payments, credited, calls, crashes>>

(***************************************************************************)
(* The payment is confirmed.                                               *)
(***************************************************************************)

\* handleHdfcResponse and handleCashfreeWebhook hear of a success: read the
\* row, go on to mark it unless it is completed.  The webhook of a link's
\* payment names an order, not the link, and may find no row.  Nor would
\* handleHdfcResponse: the row was saved before the app heard where to pay.
Succeeded(r) ==
  /\ r \in paid /\ ForBooking(r)
  /\ status[r] # "completed" /\ Start("mark", r)
  /\ UNCHANGED <<trip, payments, paid, credited, crashes>>

\* A failure fails the row, whatever has become of it.
Failed(r) ==
  /\ HasRow(r) /\ via[r] # "cash"
  /\ SetStatus(r, "failed")
  /\ UNCHANGED <<trip, paid, credited, calls, crashes>>

FaultyReturned(r) ==  \* does not ask Cashfree
  /\ HasRow(r) /\ via[r] \in {"order", "wallet"}
  /\ status[r] # "completed" /\ Start("mark", r)
  /\ UNCHANGED <<trip, payments, paid, credited, crashes>>

\* handleCashfreeReturn: the browser comes back, Cashfree is asked.  A wallet
\* order's return URL is the same.
Returned(r) ==
  /\ HasRow(r) /\ via[r] \in {"order", "wallet"} /\ r \in paid
  /\ status[r] # "completed" /\ Start("mark", r)
  /\ UNCHANGED <<trip, payments, paid, credited, crashes>>

\* getPaymentStatus, polled by the customer, confirms a link;
\* verifyPendingLinkForBooking, polled by the driver, confirms an order too.
Polled ==
  /\ LatestIsPaid
  /\ Start("mark", Latest)
  /\ UNCHANGED <<trip, payments, paid, credited, crashes>>

\* The save of markBookingPaymentComplete and markCashfreePaymentComplete.
Mark(c) ==
  /\ c \in calls /\ c.op = "mark"
  /\ SetStatus(c.r, "completed")
  /\ Return(c)
  /\ UNCHANGED <<trip, paid, credited, crashes>>

\* creditWalletForCashfreeOrder, one transaction: turning the row from pending
\* to completed allows the credit.
CreditWallet(r) ==
  \/ /\ status[r] = "pending"
     /\ credited' = [credited EXCEPT ![r] = @ + 1]
     /\ SetStatus(r, "completed")
  \/ status[r] # "pending" /\ UNCHANGED <<payments, credited>>

\* The webhook, and verifyCashfreeWallet after asking Cashfree.
WalletConfirmed(r) ==
  /\ r \in paid /\ via[r] = "wallet"
  /\ CreditWallet(r)
  /\ UNCHANGED <<trip, paid, calls, crashes>>

PaymentCallStep(c) ==
  \/ SaveOrder(c) \/ LinkReconciled(c) \/ NotReconciled(c)
  \/ Supersede(c) \/ MintLink(c) \/ Mark(c)

PaymentStep ==
  \/ \E op \in {"hdfc", "checkout"} : Initiate(op)
  \/ RequestLink \/ InitiateWallet \/ Polled
  \/ \E r \in Rows :
       Pay(r) \/ Succeeded(r) \/ Failed(r) \/ Returned(r) \/ WalletConfirmed(r)
  \/ \E c \in calls : PaymentCallStep(c)
=============================================================================
