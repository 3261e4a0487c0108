------------------------------- MODULE Topups --------------------------------
(***************************************************************************)
(* A driver adds money to the wallet.  A row of driver_topup_requests is   *)
(* identified by its utr_number, which is unique: a UTR the driver typed   *)
(* in, what a UPI app answered, an order of Razorpay or Cashfree, or a     *)
(* Razorpay payment link.  The wallet is credited by whoever turns the row *)
(* from pending to approved: the app's verify call, its poll, Cashfree's   *)
(* webhook, or an admin.                                                   *)
(*                                                                         *)
(* Every row asks for the same amount, so credits[r] counts the entries    *)
(* that topUp or adminCredit made for it.                                  *)
(***************************************************************************)
EXTENDS Integers, FiniteSets

CONSTANTS
  Refs,       \* rows, by utr_number
  MaxCalls,   \* bound: handlers of one row in flight at once
  MaxCrashes  \* bound: restarts of the server process

VARIABLES
  via,        \* how each row comes to be; never changes
  row,        \* status of each row, "none" if there is none
  linked,     \* link rows whose utr_number is the link's id
  paid,       \* what the driver has really paid
  hooks,      \* Cashfree's webhooks under way
  credits,    \* entries in driver_wallet_transactions for each row
  calls,      \* handlers that have awaited
  crashes,    \* restarts so far
  disturbed   \* for properties only: see Start

vars == <<via, row, linked, paid, hooks, credits, calls, crashes, disturbed>>

Channel == {"utr", "upi_app", "razorpay", "cashfree", "link"}
Status == {"none", "pending", "approved", "rejected", "removed"}
Op == {"insert", "create_link", "save_link", "remove", "flip", "credit", "approve", "reject"}
Call == [op : Op, r : Refs, n : 1..MaxCalls]  \* n tells one from another

Init ==
  /\ via \in [Refs -> Channel]
  /\ row = [r \in Refs |-> "none"]
  /\ linked = {} /\ paid = {} /\ hooks = {}
  /\ credits = [r \in Refs |-> 0]
  /\ calls = {} /\ crashes = 0 /\ disturbed = {}

CallsOn(r) == {c \in calls : c.r = r}
Decision == {"approve", "reject"}

\* A row is disturbed when an admin decides on it while another handler works
\* on it, or a restart cuts a handler short.
Start(op, r) ==
  /\ \E n \in (1..MaxCalls) \ {c.n : c \in CallsOn(r)} :
       calls' = calls \cup {[op |-> op, r |-> r, n |-> n]}
  /\ disturbed' = IF \E c \in CallsOn(r) : c.op \in Decision \/ op \in Decision
                  THEN disturbed \cup {r} ELSE disturbed
Continue(c, op) == calls' = (calls \ {c}) \cup {[c EXCEPT !.op = op]}
Return(c) == calls' = calls \ {c}

(***************************************************************************)
(* Rows are made.                                                          *)
(***************************************************************************)

\* submitTopupRequest, autoVerifyUpiTopup: no row has that reference yet.
\* createTopupOrder, createCashfreeTopupOrder: the gateway has given an id.
Submit(r) ==
  /\ via[r] # "link" /\ row[r] = "none" /\ CallsOn(r) = {}
  /\ via[r] = "upi_app" => r \in paid
  /\ Start("insert", r)
  /\ UNCHANGED <<via, row, linked, paid, hooks, credits, crashes>>

\* What the UPI app calls a success is approved at once and then credited.
\* The same is done with everything while Razorpay's test keys are in use.
InsertApproved(c) ==
  /\ c \in calls /\ c.op = "insert" /\ via[c.r] = "upi_app"
  /\ row' = [row EXCEPT ![c.r] = "approved"]
  /\ Continue(c, "credit")
  /\ UNCHANGED <<via, linked, paid, hooks, credits, crashes, disturbed>>

InsertPending(c) ==
  /\ c \in calls /\ c.op = "insert" /\ via[c.r] # "upi_app"
  /\ row' = [row EXCEPT ![c.r] = "pending"]
  /\ Return(c)
  /\ UNCHANGED <<via, linked, paid, hooks, credits, crashes, disturbed>>

\* createWalletTopupLink inserts a row under a placeholder, then asks Razorpay
\* for a link that names the row ...
PlaceLink(r) ==
  /\ via[r] = "link" /\ row[r] = "none" /\ CallsOn(r) = {}
  /\ row' = [row EXCEPT ![r] = "pending"]
  /\ Start("create_link", r)
  /\ UNCHANGED <<via, linked, paid, hooks, credits, crashes>>

LinkCreated(c) ==
  /\ c \in calls /\ c.op = "create_link"
  /\ \E op \in {"save_link", "remove"} : Continue(c, op)
  /\ UNCHANGED <<via, row, linked, paid, hooks, credits, crashes, disturbed>>

\* ... and saves the row it has, status included, with the link's id.
SaveLink(c) ==
  /\ c \in calls /\ c.op = "save_link"
  /\ row' = [row EXCEPT ![c.r] = "pending"]
  /\ linked' = linked \cup {c.r}
  /\ Return(c)
  /\ UNCHANGED <<via, paid, hooks, credits, crashes, disturbed>>

RemoveLink(c) ==
  /\ c \in calls /\ c.op = "remove"
  /\ row' = [row EXCEPT ![c.r] = "removed"]
  /\ Return(c)
  /\ UNCHANGED <<via, linked, paid, hooks, credits, crashes, disturbed>>

(***************************************************************************)
(* The driver pays.                                                        *)
(***************************************************************************)

\* A checkout needs what the creating call returned; a bank transfer or a UPI
\* payment needs nothing of the server.
Pay(r) ==
  /\ r \notin paid
  /\ via[r] \in {"razorpay", "cashfree"} => row[r] # "none"
  /\ via[r] = "link" => r \in linked
  /\ paid' = paid \cup {r}
  /\ hooks' = IF via[r] = "cashfree" THEN hooks \cup {r} ELSE hooks
  /\ UNCHANGED <<via, row, linked, credits, calls, crashes, disturbed>>

(***************************************************************************)
(* The payment is confirmed.                                               *)
(***************************************************************************)

\* verifyTopupPayment (a signature shows the payment), verifyCashfreeTopup and
\* getTopupRequestStatus (the gateway is asked and says paid).
Verify(r) ==
  /\ via[r] \in {"razorpay", "cashfree", "link"} /\ r \in paid
  /\ row[r] = "pending" \/ (row[r] = "rejected" /\ via[r] # "link")
  /\ Start("flip", r)
  /\ UNCHANGED <<via, row, linked, paid, hooks, credits, crashes>>

FaultyWebhook(r) ==  \* any order that is not for a booking is only logged
  /\ r \in hooks
  /\ hooks' \in {hooks, hooks \ {r}}
  /\ UNCHANGED <<via, row, linked, paid, credits, calls, crashes, disturbed>>

\* handleCashfreeWebhook hands an order with purpose driver_topup to
\* creditCashfreeTopupFromWebhook, and may be called again.
Webhook(r) ==
  /\ r \in hooks
  /\ hooks' \in {hooks, hooks \ {r}}
  /\ \/ row[r] \in {"pending", "rejected"} /\ Start("flip", r)
     \/ row[r] = "approved" /\ UNCHANGED <<calls, disturbed>>
  /\ UNCHANGED <<via, row, linked, paid, credits, crashes>>

FaultyFlip(c) ==  \* updates whatever the status
  /\ c \in calls /\ c.op = "flip" /\ row[c.r] # "removed"
  /\ row' = [row EXCEPT ![c.r] = "approved"]
  /\ Continue(c, "credit")
  /\ UNCHANGED <<via, linked, paid, hooks, credits, crashes, disturbed>>

\* "Only the caller that flips PENDING to APPROVED credits the wallet."
Flip(c) ==
  /\ c \in calls /\ c.op = "flip" /\ row[c.r] = "pending"
  /\ row' = [row EXCEPT ![c.r] = "approved"]
  /\ Continue(c, "credit")
  /\ UNCHANGED <<via, linked, paid, hooks, credits, crashes, disturbed>>

FlippedBefore(c) ==
  /\ c \in calls /\ c.op = "flip" /\ row[c.r] # "pending"
  /\ Return(c)
  /\ UNCHANGED <<via, row, linked, paid, hooks, credits, crashes, disturbed>>

\* topUp, and adminCredit: an entry and the balance, in one transaction.
Credit(c) ==
  /\ c \in calls /\ c.op = "credit"
  /\ credits' = [credits EXCEPT ![c.r] = @ + 1]
  /\ Return(c)
  /\ UNCHANGED <<via, row, linked, paid, hooks, crashes, disturbed>>

(***************************************************************************)
(* An admin decides, having read a pending row; the update asks nothing.   *)
(***************************************************************************)

Decide(op, r) ==
  /\ row[r] = "pending"
  /\ Start(op, r)
  /\ UNCHANGED <<via, row, linked, paid, hooks, credits, crashes>>

approveTopupRequest(c) ==
  /\ c \in calls /\ c.op = "approve"
  /\ row' = [row EXCEPT ![c.r] = "approved"]
  /\ Continue(c, "credit")
  /\ UNCHANGED <<via, linked, paid, hooks, credits, crashes, disturbed>>

rejectTopupRequest(c) ==
  /\ c \in calls /\ c.op = "reject"
  /\ row' = [row EXCEPT ![c.r] = "rejected"]
  /\ Return(c)
  /\ UNCHANGED <<via, linked, paid, hooks, credits, crashes, disturbed>>

\* Handlers are HTTP calls: none is run again.
Crash ==
  /\ crashes < MaxCrashes /\ crashes' = crashes + 1
  /\ calls' = {}
  /\ disturbed' = disturbed \cup {c.r : c \in calls}
  /\ UNCHANGED <<via, row, linked, paid, hooks, credits>>

CallStep(c) ==
  \/ InsertApproved(c) \/ InsertPending(c)
  \/ LinkCreated(c) \/ SaveLink(c) \/ RemoveLink(c)
  \/ Flip(c) \/ FlippedBefore(c) \/ Credit(c)
  \/ approveTopupRequest(c) \/ rejectTopupRequest(c)

Next ==
  \/ \E r \in Refs :
       \/ Submit(r) \/ PlaceLink(r) \/ Pay(r) \/ Verify(r) \/ Webhook(r)
       \/ \E op \in Decision : Decide(op, r)
  \/ \E c \in calls : CallStep(c)
  \/ Crash

Spec == Init /\ [][Next]_vars

\* An awaited call answers, and Cashfree calls the webhook.
Fairness ==
  \A r \in Refs : WF_vars(\E c \in calls : c.r = r /\ CallStep(c)) /\ WF_vars(Webhook(r))

FairSpec == Spec /\ Fairness

(***************************************************************************)
(* Properties.                                                             *)
(***************************************************************************)

\* Every variable has its type.
TypeOK ==
  /\ via \in [Refs -> Channel] /\ row \in [Refs -> Status] /\ linked \subseteq Refs /\ paid \subseteq Refs
  /\ hooks \subseteq Refs /\ credits \in [Refs -> Nat]
  /\ calls \subseteq Call /\ crashes \in Nat /\ disturbed \subseteq Refs

\* "at most once": the app's verify, its polls and the webhook may all confirm
\* a payment at once, and a late one may find it approved, rejected or removed:
\* the wallet is credited once for an approved row and not at all otherwise,
\* unless an admin or a restart disturbed the row.
CreditedOnce ==
  \A r \in Refs \ disturbed :
    /\ credits[r] <= 1
    /\ CallsOn(r) = {} => (credits[r] = 1 <=> row[r] = "approved")

\* A top-up paid through Cashfree reaches the wallet although the app never
\* verifies it, once the webhook comes: unless an admin rejected it.
PaidIsCredited ==
  \A r \in Refs : r \in hooks ~> credits[r] > 0 \/ row[r] = "rejected" \/ r \in disturbed
=============================================================================
