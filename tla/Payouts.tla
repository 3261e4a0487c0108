------------------------------- MODULE Payouts -------------------------------
(***************************************************************************)
(* A driver's withdrawals: a request row, the debit of the wallet, the     *)
(* bank transfer made by Cashfree Payouts, its webhook, and an admin who   *)
(* approves or rejects.  The wallet is one driver's; drivers share nothing *)
(* here.                                                                   *)
(*                                                                         *)
(* A handler that has awaited is a record of "calls".  Repository.update   *)
(* writes the columns it names; save also puts back the other columns the  *)
(* handler read (snap).  An adjustment of the wallet is one database       *)
(* transaction under SELECT FOR UPDATE and so one step; the search for an  *)
(* earlier entry with the same reference_id is outside it, a step before.  *)
(*                                                                         *)
(* A definition named Faulty... is a variant no specification uses: the    *)
(* definition after it with one plausible mistake, kept to show that a     *)
(* property notices the mistake.                                           *)
(***************************************************************************)
EXTENDS Integers, FiniteSets

CONSTANTS
  Withdrawals,    \* ids of rows of driver_withdrawal_requests
  Amount,         \* [Withdrawals -> Nat]: what each asks for
  InitialBalance, \* driver_profiles.wallet_balance
  MaxCalls,       \* bound: handlers in flight at once
  MaxMoves,       \* bound: other movements of the wallet, of 1 each
  Delivery,       \* what may befall a webhook: "lost", "repeated"
  Reversals,      \* bound: may a bank send a settled transfer back
  MaxCrashes      \* bound: restarts of the server process

VARIABLES
  balance,        \* driver_profiles.wallet_balance
  frozen,         \* driver_profiles.wallet_frozen
  moves,          \* other movements so far
  request,        \* table driver_withdrawal_requests: status, payout_id stored
  debited,        \* rows with reference_id ID in driver_wallet_transactions
  refunds,        \* number of those with reference_id refund_ID
  transfer,       \* Cashfree's transfer of each withdrawal
  hooks,          \* webhook events under way
  manual,         \* number of transfers an admin makes by hand
  calls,          \* handlers that have awaited
  crashes,        \* restarts so far
  disturbed       \* for properties only: see Disturb

wallet == <<balance, debited, refunds>>
bank == <<transfer, hooks, manual>>
vars == <<wallet, frozen, moves, request, bank, calls, crashes, disturbed>>

Status == {"none", "pending", "processing", "completed", "rejected"}
Row == [status : Status, payout : BOOLEAN]
Transfer == {"none", "sent", "success", "failed"}
Event == Withdrawals \X {"success", "failure"}

Op == {"insert", "debit", "send", "store", "void", "send_again", "save_sent", "save_manual",
       "complete", "fail", "refund_check", "refund", "save_rejected"}
\* by tells whose refund it is: only rejectWithdrawal goes on after it.
Call == [op : Op, w : Withdrawals, snap : Row, by : {"driver", "approve", "reject", "webhook"}]

ASSUME PayoutsAssumption ==
  /\ IsFiniteSet(Withdrawals) /\ Amount \in [Withdrawals -> Nat \ {0}]
  /\ InitialBalance \in Nat /\ MaxCalls \in Nat /\ MaxMoves \in Nat /\ MaxCrashes \in Nat
  /\ Delivery \subseteq {"lost", "repeated"} /\ Reversals \in BOOLEAN

Init ==
  /\ balance = InitialBalance /\ frozen = FALSE /\ moves = 0
  /\ request = [w \in Withdrawals |-> [status |-> "none", payout |-> FALSE]]
  /\ debited = {} /\ refunds = [w \in Withdrawals |-> 0]
  /\ transfer = [w \in Withdrawals |-> "none"] /\ hooks = {}
  /\ manual = [w \in Withdrawals |-> 0]
  /\ calls = {} /\ crashes = 0 /\ disturbed = {}

CallsOn(w) == {c \in calls : c.w = w}
Open(w) == request[w].status \in {"pending", "processing"}
Paying(w) == transfer[w] \in {"sent", "success"}

\* A withdrawal is disturbed when two handlers work on it at once, when an
\* admin decides on it while Cashfree is paying it, when a webhook comes after
\* a later one, or when a restart cuts a handler short.
Disturb(when, w) == disturbed' = IF when THEN disturbed \cup {w} ELSE disturbed

Begin(op, w, by, when) ==
  /\ Cardinality(calls) < MaxCalls
  /\ calls' = calls \cup {[op |-> op, w |-> w, snap |-> request[w], by |-> by]}
  /\ Disturb(when \/ CallsOn(w) # {}, w)
Continue(c, op) == calls' = (calls \ {c}) \cup {[c EXCEPT !.op = op]}
Return(c) == calls' = calls \ {c}

(***************************************************************************)
(* requestWithdrawal.                                                      *)
(***************************************************************************)

\* The checks: not frozen, covered by the balance, no other request open.
Request(w) ==
  /\ request[w].status = "none" /\ CallsOn(w) = {}
  /\ ~frozen /\ Amount[w] <= balance
  /\ \A v \in Withdrawals : ~Open(v)
  /\ Begin("insert", w, "driver", FALSE)
  /\ UNCHANGED <<wallet, frozen, moves, request, bank, crashes>>

Insert(c) ==
  /\ c \in calls /\ c.op = "insert"
  /\ request' = [request EXCEPT ![c.w].status = "pending"]
  /\ Continue(c, "debit")
  /\ UNCHANGED <<wallet, frozen, moves, bank, crashes, disturbed>>

FaultyDebit(c) ==  \* trusts the balance read before
  /\ c \in calls /\ c.op = "debit"
  /\ balance' = balance - Amount[c.w]
  /\ debited' = debited \cup {c.w}
  /\ Continue(c, "send")
  /\ UNCHANGED <<refunds, frozen, moves, request, bank, crashes, disturbed>>

\* withdrawalDebit reads the balance again under its lock.
Debit(c) ==
  /\ c \in calls /\ c.op = "debit"
  /\ Amount[c.w] <= balance
  /\ balance' = balance - Amount[c.w]
  /\ debited' = debited \cup {c.w}
  /\ Continue(c, "send")
  /\ UNCHANGED <<refunds, frozen, moves, request, bank, crashes, disturbed>>

\* A debit that finds too little voids the request.
DebitFails(c) ==
  /\ c \in calls /\ c.op = "debit"
  /\ Amount[c.w] > balance
  /\ request' = [request EXCEPT ![c.w].status = "rejected"]
  /\ Return(c)
  /\ UNCHANGED <<wallet, frozen, moves, bank, crashes, disturbed>>

\* createTransfer.  Its id is derived from the withdrawal's, so Cashfree
\* accepts it once.
Sent(w) == transfer[w] = "none" /\ transfer' = [transfer EXCEPT ![w] = "sent"]
\* A call that throws has reached Cashfree or not.
Thrown(w) == Sent(w) \/ UNCHANGED transfer

SendAccepted(c) ==
  /\ c \in calls /\ c.op = "send" /\ Sent(c.w)
  /\ Continue(c, "store")
  /\ UNCHANGED <<wallet, frozen, moves, request, hooks, manual, crashes, disturbed>>

SendRefused(c) ==
  /\ c \in calls /\ c.op = "send" /\ transfer[c.w] = "none"
  /\ transfer' = [transfer EXCEPT ![c.w] = "failed"]
  /\ Continue(c, "void")
  /\ UNCHANGED <<wallet, frozen, moves, request, hooks, manual, crashes, disturbed>>

\* Payouts are not configured, there is no bank account, or the call threw:
\* the request stays as it is.
SendSkipped(c) ==
  /\ c \in calls /\ c.op = "send" /\ Thrown(c.w)
  /\ Return(c)
  /\ UNCHANGED <<wallet, frozen, moves, request, hooks, manual, crashes, disturbed>>

FaultyStorePayout(c) ==  \* stores Cashfree's status
  /\ c \in calls /\ c.op = "store"
  /\ request' = [request EXCEPT ![c.w] = [status |-> transfer[c.w], payout |-> TRUE]]
  /\ Return(c)
  /\ UNCHANGED <<wallet, frozen, moves, bank, crashes, disturbed>>

StorePayout(c) ==
  /\ c \in calls /\ c.op = "store"
  /\ request' = [request EXCEPT ![c.w] = [status |-> "processing", payout |-> TRUE]]
  /\ Return(c)
  /\ UNCHANGED <<wallet, frozen, moves, bank, crashes, disturbed>>

\* failWithdrawalAndRefund.
Void(c) ==
  /\ c \in calls /\ c.op = "void"
  /\ request' = [request EXCEPT ![c.w].status = "rejected"]
  /\ Continue(c, "refund_check")
  /\ UNCHANGED <<wallet, frozen, moves, bank, crashes, disturbed>>

(***************************************************************************)
(* withdrawalRefund, called by three handlers.                             *)
(***************************************************************************)

Refunded(c) == IF c.by = "reject" THEN Continue(c, "save_rejected") ELSE Return(c)

RefundMissing(c) ==
  /\ c \in calls /\ c.op = "refund_check" /\ refunds[c.w] = 0
  /\ Continue(c, "refund")
  /\ UNCHANGED <<wallet, frozen, moves, request, bank, crashes, disturbed>>

RefundExists(c) ==
  /\ c \in calls /\ c.op = "refund_check" /\ refunds[c.w] > 0
  /\ Refunded(c)
  /\ UNCHANGED <<wallet, frozen, moves, request, bank, crashes, disturbed>>

Refund(c) ==
  /\ c \in calls /\ c.op = "refund"
  /\ balance' = balance + Amount[c.w]
  /\ refunds' = [refunds EXCEPT ![c.w] = @ + 1]
  /\ Refunded(c)
  /\ UNCHANGED <<debited, frozen, moves, request, bank, crashes, disturbed>>

(***************************************************************************)
(* The admin.                                                              *)
(***************************************************************************)

\* approveWithdrawal, of a request whose payout is not known to be under way.
Approve(w) ==
  /\ Open(w) /\ ~(request[w].status = "processing" /\ request[w].payout)
  /\ Begin("send_again", w, "approve", Paying(w))
  /\ UNCHANGED <<wallet, frozen, moves, request, bank, crashes>>

\* The status in Cashfree's answer is not looked at.
ApproveSent(c) ==
  /\ c \in calls /\ c.op = "send_again"
  /\ transfer[c.w] = "none"
  /\ \/ Sent(c.w) /\ UNCHANGED hooks
     \/ /\ transfer' = [transfer EXCEPT ![c.w] = "failed"]
        /\ hooks' = hooks \cup {<<c.w, "failure">>}
  /\ Continue(c, "save_sent")
  /\ UNCHANGED <<wallet, frozen, moves, request, manual, crashes, disturbed>>

\* Payouts are not configured, or the call threw: the admin pays by hand.
ApproveFallsBack(c) ==
  /\ c \in calls /\ c.op = "send_again" /\ Thrown(c.w)
  /\ Disturb(transfer'[c.w] # transfer[c.w], c.w)
  /\ Continue(c, "save_manual")
  /\ UNCHANGED <<wallet, frozen, moves, request, hooks, manual, crashes>>

ApproveSave(c) ==
  /\ c \in calls /\ c.op = "save_sent"
  /\ request' = [request EXCEPT ![c.w] = [status |-> "processing", payout |-> TRUE]]
  /\ Return(c)
  /\ UNCHANGED <<wallet, frozen, moves, bank, crashes, disturbed>>

ApproveManual(c) ==
  /\ c \in calls /\ c.op = "save_manual"
  /\ request' = [request EXCEPT ![c.w] = [c.snap EXCEPT !.status = "completed"]]
  /\ manual' = [manual EXCEPT ![c.w] = @ + 1]
  /\ Return(c)
  /\ UNCHANGED <<wallet, frozen, moves, transfer, hooks, crashes, disturbed>>

FaultyReject(w) ==  \* also a completed request
  /\ Open(w) \/ request[w].status = "completed"
  /\ Begin("refund_check", w, "reject", Open(w) /\ Paying(w))
  /\ UNCHANGED <<wallet, frozen, moves, request, bank, crashes>>

\* rejectWithdrawal refunds first; a payout under way does not stop it.
Reject(w) ==
  /\ Open(w)
  /\ Begin("refund_check", w, "reject", Paying(w))
  /\ UNCHANGED <<wallet, frozen, moves, request, bank, crashes>>

RejectSave(c) ==
  /\ c \in calls /\ c.op = "save_rejected"
  /\ request' = [request EXCEPT ![c.w] = [c.snap EXCEPT !.status = "rejected"]]
  /\ Return(c)
  /\ UNCHANGED <<wallet, frozen, moves, bank, crashes, disturbed>>

(***************************************************************************)
(* Cashfree and its webhook.                                               *)
(***************************************************************************)

Settle(w, outcome) ==
  /\ transfer[w] = "sent"
  /\ transfer' = [transfer EXCEPT ![w] = IF outcome = "success" THEN "success" ELSE "failed"]
  /\ hooks' = hooks \cup {<<w, outcome>>}
  /\ UNCHANGED <<wallet, frozen, moves, request, manual, calls, crashes, disturbed>>

Reverse(w) ==
  /\ Reversals /\ transfer[w] = "success"
  /\ transfer' = [transfer EXCEPT ![w] = "failed"]
  /\ hooks' = hooks \cup {<<w, "failure">>}
  /\ UNCHANGED <<wallet, frozen, moves, request, manual, calls, crashes, disturbed>>

LoseHook(e) ==
  /\ "lost" \in Delivery /\ e \in hooks
  /\ hooks' = hooks \ {e}
  /\ UNCHANGED <<wallet, frozen, moves, request, transfer, manual, calls, crashes, disturbed>>

\* An event is delivered, and may be delivered again.
Deliver(e) ==
  /\ e \in hooks
  /\ hooks' = hooks \ {e} \/ ("repeated" \in Delivery /\ UNCHANGED hooks)

\* handlePayoutWebhook finds no row with that payout_id, or one that is
\* already in the state the event asks for.
HookIgnored(e) ==
  LET r == request[e[1]]
  IN /\ Deliver(e)
     /\ ~r.payout \/ r.status = (IF e[2] = "success" THEN "completed" ELSE "rejected")
     /\ UNCHANGED <<wallet, frozen, moves, request, transfer, manual, calls, crashes, disturbed>>

HookRead(e) ==
  LET r == request[e[1]]
  IN /\ Deliver(e)
     /\ r.payout /\ r.status # (IF e[2] = "success" THEN "completed" ELSE "rejected")
     /\ Begin(IF e[2] = "success" THEN "complete" ELSE "fail", e[1], "webhook",
              e[2] = "success" /\ transfer[e[1]] = "failed")
     /\ UNCHANGED <<wallet, frozen, moves, request, transfer, manual, crashes>>

HookComplete(c) ==
  /\ c \in calls /\ c.op = "complete"
  /\ request' = [request EXCEPT ![c.w] = [c.snap EXCEPT !.status = "completed"]]
  /\ Return(c)
  /\ UNCHANGED <<wallet, frozen, moves, bank, crashes, disturbed>>

FaultyHookFail(c) ==  \* no refund
  /\ c \in calls /\ c.op = "fail"
  /\ request' = [request EXCEPT ![c.w] = [c.snap EXCEPT !.status = "rejected"]]
  /\ Return(c)
  /\ UNCHANGED <<wallet, frozen, moves, bank, crashes, disturbed>>

HookFail(c) ==
  /\ c \in calls /\ c.op = "fail"
  /\ request' = [request EXCEPT ![c.w] = [c.snap EXCEPT !.status = "rejected"]]
  /\ Continue(c, "refund_check")
  /\ UNCHANGED <<wallet, frozen, moves, bank, crashes, disturbed>>

(***************************************************************************)
(* Everything else that touches the wallet, and restarts.                  *)
(***************************************************************************)

\* Trip earnings, cash commission, top-ups, admin credits and debits.
Move(delta) ==
  /\ moves < MaxMoves /\ moves' = moves + 1
  /\ balance' = balance + delta
  /\ UNCHANGED <<debited, refunds, frozen, request, bank, calls, crashes, disturbed>>

\* An incident freezes the wallet, an admin thaws it.
Freeze ==
  /\ frozen' = ~frozen
  /\ UNCHANGED <<wallet, moves, request, bank, calls, crashes, disturbed>>

\* Handlers are HTTP calls: none is run again.
Crash ==
  /\ crashes < MaxCrashes /\ crashes' = crashes + 1
  /\ calls' = {}
  /\ disturbed' = disturbed \cup {c.w : c \in calls}
  /\ UNCHANGED <<wallet, frozen, moves, request, bank>>

CallStep(c) ==
  \/ Insert(c) \/ Debit(c) \/ DebitFails(c)
  \/ SendAccepted(c) \/ SendRefused(c) \/ SendSkipped(c) \/ StorePayout(c) \/ Void(c)
  \/ RefundMissing(c) \/ RefundExists(c) \/ Refund(c)
  \/ ApproveSent(c) \/ ApproveFallsBack(c) \/ ApproveSave(c) \/ ApproveManual(c) \/ RejectSave(c)
  \/ HookComplete(c) \/ HookFail(c)

BankStep ==
  \/ \E w \in Withdrawals :
       (\E outcome \in {"success", "failure"} : Settle(w, outcome)) \/ Reverse(w)
  \/ \E e \in hooks : LoseHook(e) \/ HookIgnored(e) \/ HookRead(e)

Next ==
  \/ \E w \in Withdrawals : Request(w) \/ Approve(w) \/ Reject(w)
  \/ \E c \in calls : CallStep(c)
  \/ BankStep
  \/ (\E delta \in {-1, 1} : Move(delta)) \/ Freeze \/ Crash

Spec == Init /\ [][Next]_vars

\* An awaited call answers, and Cashfree calls the webhook.
Fairness ==
  \A w \in Withdrawals :
    /\ WF_vars(\E c \in calls : c.w = w /\ CallStep(c))
    /\ \A o \in {"success", "failure"} : WF_vars(HookIgnored(<<w, o>>) \/ HookRead(<<w, o>>))

FairSpec == Spec /\ Fairness

(***************************************************************************)
(* Properties.                                                             *)
(***************************************************************************)

\* Every variable has its type.
TypeOK ==
  /\ balance \in Int /\ frozen \in BOOLEAN /\ moves \in Nat
  /\ request \in [Withdrawals -> Row]
  /\ debited \subseteq Withdrawals
  /\ refunds \in [Withdrawals -> Nat]
  /\ transfer \in [Withdrawals -> Transfer]
  /\ hooks \subseteq Event
  /\ manual \in [Withdrawals -> Nat]
  /\ calls \subseteq Call
  /\ crashes \in Nat
  /\ disturbed \subseteq Withdrawals

\* What a withdrawal comes to once no handler works on it.
Paid(w) == manual[w] + (IF transfer[w] = "success" THEN 1 ELSE 0)
Settled(w) ==
  LET status == request[w].status
  IN /\ status = "rejected" =>
          refunds[w] = (IF w \in debited THEN 1 ELSE 0) /\ Paid(w) = 0 /\ transfer[w] # "sent"
     /\ status = "completed" =>
          w \in debited /\ refunds[w] = 0
            /\ (Paid(w) = 1 \/ (Paid(w) = 0 /\ transfer[w] = "failed"))
     /\ Open(w) => w \in debited /\ refunds[w] = 0 /\ manual[w] = 0

\* Money and status agree, unless the withdrawal was disturbed: a rejected
\* withdrawal was paid back once if it was debited and is not paid out, a
\* completed one was debited and paid out once (or the bank sent it back) and
\* not refunded, an open one is debited.  Two requests at a time, lost and
\* repeated webhooks, refused transfers and failing debits do not change that.
MoneyMatchesStatus == \A w \in Withdrawals \ disturbed : CallsOn(w) = {} => Settled(w)

\* No withdrawal takes more than the wallet holds, although each checks the
\* balance long before it is debited and the driver may ask twice at once: the
\* balance falls below zero by other movements only (moves bounds their number,
\* each is of 1).
NoOverdraft == balance >= -moves

\* A payout that fails is paid back to the wallet, if Cashfree says so after
\* its payout_id was stored.
FailureIsRefunded ==
  \A w \in Withdrawals :
    <<w, "failure">> \in hooks /\ request[w].payout ~> refunds[w] > 0 \/ w \in disturbed

\* handlePayoutWebhook "finalizes or refunds the withdrawal.  Idempotent.": a request
\* that it finalizes (no admin has paid by hand) has not been refunded.
FinalizedOrRefunded ==
  \A w \in Withdrawals : request[w].status = "completed" /\ manual[w] = 0 => refunds[w] = 0
=============================================================================
