----------------------------- MODULE Settlement ------------------------------
(***************************************************************************)
(* The end of a trip and its money: completeTrip saves the booking, then   *)
(* looks whether it is paid and either recovers the commission of a cash   *)
(* trip from the driver's wallet or credits the earnings to it, while      *)
(* customer, driver and gateways work on the payments of the booking.      *)
(***************************************************************************)
EXTENDS Payments

VARIABLES
  earned,     \* TRIP_EARNINGS_CREDIT entries of the booking
  charged,    \* CASH_COMMISSION_DEDUCTION entries of the booking
  disturbed   \* for properties only: see Complete and Crash

ledger == <<earned, charged>>
vars == <<trip, payments, paid, credited, calls, crashes, ledger, disturbed>>

Ways == {"save_cash", "save_offer", "save_online"}  \* "save_offer": in cash, by the offer's id
Completion == Ways \cup {"settle", "commission", "commission_offer", "deduct", "deduct_offer",
                        "cash_row", "clear", "earnings", "credit"}
Completing == {c \in calls : c.op \in Completion}

Init ==
  /\ trip = "ongoing"
  /\ via = <<>> /\ status = <<>>
  /\ paid = {}
  /\ credited = [r \in Rows |-> 0]
  /\ calls = {} /\ crashes = 0
  /\ earned = 0 /\ charged = 0
  /\ disturbed = FALSE

(***************************************************************************)
(* completeTrip.                                                           *)
(***************************************************************************)

FaultyComplete(how) ==  \* a completed trip may be completed again
  /\ trip # "cancelled"
  /\ Start(how, 0)
  /\ disturbed' = (disturbed \/ Completing # {})
  /\ UNCHANGED <<trip, payments, paid, credited, crashes, ledger>>

\* The booking read is ongoing.  Two calls at once both find it so.
Complete(how) ==
  /\ trip = "ongoing"
  /\ Start(how, 0)
  /\ disturbed' = (disturbed \/ Completing # {})
  /\ UNCHANGED <<trip, payments, paid, credited, crashes, ledger>>

\* A driver's app may know the booking by its offer's id.  completeTrip finds the
\* row by it, and goes on with the id it was given: no payment is found under
\* that, so a cash trip is charged for whatever was paid.
SaveTrip(c) ==
  /\ c \in calls /\ c.op \in Ways
  /\ trip' = "completed"
  /\ \/ c.op = "save_cash" /\ Continue(c, "settle")
     \/ c.op = "save_offer" /\ Continue(c, "commission_offer")
     \/ c.op = "save_online" /\ Continue(c, "earnings")
  /\ UNCHANGED <<payments, paid, credited, crashes, ledger, disturbed>>

\* Whether the booking is paid matters to a cash trip only; if it is, nothing
\* moves.
Settle(c) ==
  /\ c \in calls /\ c.op = "settle"
  /\ IF BookingPaid THEN Return(c) ELSE Continue(c, "commission")
  /\ UNCHANGED <<trip, payments, paid, credited, crashes, ledger, disturbed>>

\* deductCashCommission and creditTripEarnings look for an earlier entry, then
\* make theirs in a transaction.  An entry of a completion by the other id is not
\* found.
CheckEntry(c) ==
  /\ c \in calls
  /\ \/ c.op = "commission" /\ Continue(c, "deduct")
     \/ c.op = "commission" /\ charged > 0 /\ Continue(c, "cash_row")
     \/ c.op = "commission_offer" /\ Continue(c, "deduct_offer")
     \/ c.op = "commission_offer" /\ charged > 0 /\ Return(c)
     \/ c.op = "earnings" /\ Continue(c, "credit")
     \/ c.op = "earnings" /\ earned > 0 /\ Return(c)
  /\ UNCHANGED <<trip, payments, paid, credited, crashes, ledger, disturbed>>

\* payments.booking_id refers to bookings: the cash row of an offer's id is
\* refused, and the call ends there.
DeductCommission(c) ==
  /\ c \in calls /\ c.op \in {"deduct", "deduct_offer"}
  /\ charged' = charged + 1
  /\ IF c.op = "deduct" THEN Continue(c, "cash_row") ELSE Return(c)
  /\ UNCHANGED <<trip, payments, paid, credited, crashes, earned, disturbed>>

CreditEarnings(c) ==
  /\ c \in calls /\ c.op = "credit"
  /\ earned' = earned + 1
  /\ Return(c)
  /\ UNCHANGED <<trip, payments, paid, credited, crashes, charged, disturbed>>

CashRow(c) ==
  /\ c \in calls /\ c.op = "cash_row"
  /\ Insert("cash", "completed")
  /\ Continue(c, "clear")
  /\ UNCHANGED <<trip, paid, credited, crashes, ledger, disturbed>>

\* "Settled in cash": the pending online rows fail.  An order under way is
\* saved afterwards, pending.
ClearPending(c) ==
  /\ c \in calls /\ c.op = "clear"
  /\ status' = [r \in DOMAIN via |-> IF r \in PendingOnline THEN "failed" ELSE status[r]]
  /\ Return(c)
  /\ UNCHANGED <<trip, via, paid, credited, crashes, ledger, disturbed>>

(***************************************************************************)
(* Other ends, and restarts.                                               *)
(***************************************************************************)

\* recordCashPayment adds a row, whatever rows there are.
RecordCash ==
  /\ trip = "completed"
  /\ Insert("cash", "completed")
  /\ UNCHANGED <<trip, paid, credited, calls, crashes, ledger, disturbed>>

\* By the customer or an admin; no payment is touched.
CancelTrip ==
  /\ trip = "ongoing" /\ trip' = "cancelled"
  /\ UNCHANGED <<payments, paid, credited, calls, crashes, ledger, disturbed>>

\* Handlers are HTTP calls: none is run again.  A restart at another time only
\* ends calls that might as well never go on.
Crash ==
  /\ crashes < MaxCrashes /\ Completing # {}
  /\ crashes' = crashes + 1
  /\ calls' = {}
  /\ disturbed' = TRUE
  /\ UNCHANGED <<trip, payments, paid, credited, ledger>>

CompletionStep(c) ==
  \/ SaveTrip(c) \/ Settle(c) \/ CheckEntry(c) \/ DeductCommission(c) \/ CreditEarnings(c)
  \/ CashRow(c) \/ ClearPending(c)

Next ==
  \/ PaymentStep /\ UNCHANGED <<ledger, disturbed>>
  \/ \E how \in Ways : Complete(how)
  \/ \E c \in calls : CompletionStep(c)
  \/ RecordCash \/ CancelTrip \/ Crash

Spec == Init /\ [][Next]_vars

(***************************************************************************)
(* Properties.                                                             *)
(***************************************************************************)

\* Every variable has its type.
TypeOK ==
  /\ trip \in {"ongoing", "completed", "cancelled"}
  /\ via \in Seq(Online \cup {"wallet", "cash"}) /\ Len(via) <= MaxRows
  /\ status \in [DOMAIN via -> Status]
  /\ paid \subseteq Rows
  /\ credited \in [Rows -> Nat]
  /\ calls \subseteq Call /\ crashes \in Nat
  /\ earned \in Nat /\ charged \in Nat
  /\ disturbed \in BOOLEAN

\* The driver of a completed trip is credited the earnings or charged the
\* commission, once, and not both, however the customer pays meanwhile; neither
\* happens only to a cash trip the customer had paid online, or whose cash was
\* recorded by recordCashPayment between completeTrip's save and its look at the
\* payments.  Two completions at once and a restart during one break this.
SettledOnce ==
  ~disturbed =>
    /\ earned + charged <= 1
    /\ trip = "completed" /\ Completing = {} =>
         \/ earned + charged = 1
         \/ (\E r \in paid : ForBooking(r)) \/ \E r \in DOMAIN via : via[r] = "cash"

\* A row is completed only if its order was paid at the gateway (or it is
\* cash), and a wallet top-up is credited at most once, and only if it was paid:
\* late failures, repeated webhooks, redirects, polls and superseded orders do
\* not change that.
CompletedWasPaid ==
  \A r \in DOMAIN via :
    /\ Completed(r) /\ via[r] # "cash" => r \in paid
    /\ credited[r] <= (IF r \in paid THEN 1 ELSE 0)
=============================================================================
