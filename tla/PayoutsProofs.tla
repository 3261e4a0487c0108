---------------------------- MODULE PayoutsProofs ----------------------------
(* Theorems about Payouts and Custody, for every value of their constants. *)
EXTENDS PayoutsCustody, TLAPS

\* Amounts are positive, and the wallet starts with no debt.
LEMMA Amounts == (\A w \in Withdrawals : Amount[w] \in Nat \ {0}) /\ InitialBalance \in Nat
  BY PayoutsAssumption DEF PayoutsAssumption

\* At start every variable has its type.
LEMMA TypedInit == Init => TypeOK
  <1> SUFFICES ASSUME Init PROVE TypeOK
    OBVIOUS
  <1>0. frozen \in BOOLEAN
    BY DEF Init
  <1>1. balance \in Int /\ moves \in Nat /\ crashes \in Nat
    BY Amounts DEF Init
  <1>2. request \in [Withdrawals -> Row]
    BY DEF Init, Row, Status
  <1>3. /\ transfer \in [Withdrawals -> Transfer]
        /\ refunds \in [Withdrawals -> Nat] /\ manual \in [Withdrawals -> Nat]
    BY DEF Init, Transfer
  <1>4. /\ debited \subseteq Withdrawals /\ disturbed \subseteq Withdrawals
        /\ hooks \subseteq Event /\ calls \subseteq Call
    BY DEF Init
  <1> QED BY <1>0, <1>1, <1>2, <1>3, <1>4 DEF TypeOK

\* No step of a driver's request, an admin, Cashfree, its webhook, another
\* movement of the wallet or a restart spoils a type.
LEMMA TypedNext == TypeOK /\ [Next]_vars => TypeOK'
  <1> SUFFICES ASSUME TypeOK, [Next]_vars PROVE TypeOK'
    OBVIOUS
  <1> USE DEF TypeOK, Row, Status, Transfer, Event, Op, Call, wallet, bank
  <1>1. ASSUME NEW w \in Withdrawals, Request(w)
        PROVE  TypeOK'
    BY <1>1 DEF Request, Begin, Disturb
  <1>2. ASSUME NEW w \in Withdrawals, Approve(w)
        PROVE  TypeOK'
    BY <1>2 DEF Approve, Begin, Disturb
  <1>3. ASSUME NEW w \in Withdrawals, Reject(w)
        PROVE  TypeOK'
    BY <1>3 DEF Reject, Begin, Disturb
  <1>4. ASSUME NEW c \in calls, Insert(c)
        PROVE  TypeOK'
    BY <1>4 DEF Insert, Continue
  <1>5. ASSUME NEW c \in calls, Debit(c)
        PROVE  TypeOK'
    <2>1. c.w \in Withdrawals
      OBVIOUS
    <2>2. balance' \in Int /\ debited' \subseteq Withdrawals
      BY <1>5, <2>1, Amounts DEF Debit
    <2>3. calls' \subseteq Call
      BY <1>5 DEF Debit, Continue
    <2> QED BY <1>5, <2>2, <2>3 DEF Debit
  <1>6. ASSUME NEW c \in calls, DebitFails(c)
        PROVE  TypeOK'
    BY <1>6 DEF DebitFails, Return
  <1>7. ASSUME NEW c \in calls, SendAccepted(c)
        PROVE  TypeOK'
    BY <1>7 DEF SendAccepted, Sent, Continue
  <1>8. ASSUME NEW c \in calls, SendRefused(c)
        PROVE  TypeOK'
    BY <1>8 DEF SendRefused, Continue
  <1>9. ASSUME NEW c \in calls, SendSkipped(c)
        PROVE  TypeOK'
    BY <1>9 DEF SendSkipped, Thrown, Sent, Return
  <1>10. ASSUME NEW c \in calls, StorePayout(c)
        PROVE  TypeOK'
    BY <1>10 DEF StorePayout, Return
  <1>11. ASSUME NEW c \in calls, Void(c)
        PROVE  TypeOK'
    BY <1>11 DEF Void, Continue
  <1>12. ASSUME NEW c \in calls, RefundMissing(c)
        PROVE  TypeOK'
    BY <1>12 DEF RefundMissing, Continue
  <1>13. ASSUME NEW c \in calls, RefundExists(c)
        PROVE  TypeOK'
    BY <1>13 DEF RefundExists, Refunded, Continue, Return
  <1>14. ASSUME NEW c \in calls, Refund(c)
        PROVE  TypeOK'
    <2>1. c.w \in Withdrawals
      OBVIOUS
    <2>2. balance' \in Int /\ refunds' \in [Withdrawals -> Nat]
      BY <1>14, <2>1, Amounts DEF Refund
    <2>3. calls' \subseteq Call
      BY <1>14 DEF Refund, Refunded, Continue, Return
    <2> QED BY <1>14, <2>2, <2>3 DEF Refund
  <1>15. ASSUME NEW c \in calls, ApproveSent(c)
        PROVE  TypeOK'
    <2>1. transfer' \in [Withdrawals -> Transfer] /\ hooks' \subseteq Event
      <3>1. CASE Sent(c.w) /\ UNCHANGED hooks
        BY <3>1 DEF Sent
      <3>2. CASE /\ transfer' = [transfer EXCEPT ![c.w] = "failed"]
                 /\ hooks' = hooks \cup {<<c.w, "failure">>}
        BY <3>2
      <3> QED BY <1>15, <3>1, <3>2 DEF ApproveSent
    <2>2. calls' \subseteq Call
      BY <1>15 DEF ApproveSent, Continue
    <2> QED BY <1>15, <2>1, <2>2 DEF ApproveSent
  <1>16. ASSUME NEW c \in calls, ApproveFallsBack(c)
        PROVE  TypeOK'
    BY <1>16 DEF ApproveFallsBack, Thrown, Sent, Disturb, Continue
  <1>17. ASSUME NEW c \in calls, ApproveSave(c)
        PROVE  TypeOK'
    BY <1>17 DEF ApproveSave, Return
  <1>18. ASSUME NEW c \in calls, ApproveManual(c)
        PROVE  TypeOK'
    BY <1>18 DEF ApproveManual, Return
  <1>19. ASSUME NEW c \in calls, RejectSave(c)
        PROVE  TypeOK'
    BY <1>19 DEF RejectSave, Return
  <1>20. ASSUME NEW c \in calls, HookComplete(c)
        PROVE  TypeOK'
    BY <1>20 DEF HookComplete, Return
  <1>21. ASSUME NEW c \in calls, HookFail(c)
        PROVE  TypeOK'
    BY <1>21 DEF HookFail, Continue
  <1>22. ASSUME NEW w \in Withdrawals, NEW outcome \in {"success", "failure"}, Settle(w, outcome)
        PROVE  TypeOK'
    BY <1>22 DEF Settle
  <1>23. ASSUME NEW w \in Withdrawals, Reverse(w)
        PROVE  TypeOK'
    BY <1>23 DEF Reverse
  <1>24. ASSUME NEW e \in hooks, LoseHook(e)
        PROVE  TypeOK'
    BY <1>24 DEF LoseHook
  <1>25. ASSUME NEW e \in hooks, HookIgnored(e)
        PROVE  TypeOK'
    BY <1>25 DEF HookIgnored, Deliver
  <1>26. ASSUME NEW e \in hooks, HookRead(e)
        PROVE  TypeOK'
    BY <1>26 DEF HookRead, Deliver, Begin, Disturb
  <1>27. ASSUME NEW delta \in {-1, 1}, Move(delta)
        PROVE  TypeOK'
    BY <1>27 DEF Move
  <1>28. ASSUME Freeze
        PROVE  TypeOK'
    BY <1>28 DEF Freeze
  <1>29. ASSUME Crash
        PROVE  TypeOK'
    BY <1>29 DEF Crash
  <1>30. CASE UNCHANGED vars
    BY <1>30 DEF vars
  <1> QED
    BY <1>1, <1>2, <1>3, <1>4, <1>5, <1>6, <1>7, <1>8, <1>9, <1>10, <1>11, <1>12,
       <1>13, <1>14, <1>15, <1>16, <1>17, <1>18, <1>19, <1>20, <1>21, <1>22, <1>23, <1>24,
       <1>25, <1>26, <1>27, <1>28, <1>29, <1>30
    DEF Next, CallStep, BankStep

\* Type correctness: rows, transfers, webhook events and calls keep their shape
\* whatever fails, repeats or restarts.
THEOREM TypeCorrect == Spec => []TypeOK
  BY TypedInit, TypedNext, PTL DEF Spec

-----------------------------------------------------------------------------

\* The wallet is covered at start ...
LEMMA CoveredInit == Init => NoOverdraft
  BY Amounts DEF Init, NoOverdraft

\* ... and stays so: a withdrawal debits what the balance read under its lock
\* covers, a refund adds, and another movement takes 1 and is counted.
LEMMA CoveredNext == TypeOK /\ NoOverdraft /\ [Next]_vars => NoOverdraft'
  <1> SUFFICES ASSUME TypeOK, NoOverdraft, [Next]_vars PROVE NoOverdraft'
    OBVIOUS
  <1> USE Amounts DEF NoOverdraft, wallet, bank
  <1> balance \in Int /\ moves \in Nat /\ \A c \in calls : c.w \in Withdrawals
    BY DEF TypeOK, Call
  <1> HIDE DEF TypeOK
  <1>1. ASSUME NEW w \in Withdrawals, Request(w)
        PROVE  NoOverdraft'
    BY <1>1 DEF Request
  <1>2. ASSUME NEW w \in Withdrawals, Approve(w)
        PROVE  NoOverdraft'
    BY <1>2 DEF Approve
  <1>3. ASSUME NEW w \in Withdrawals, Reject(w)
        PROVE  NoOverdraft'
    BY <1>3 DEF Reject
  <1>4. ASSUME NEW c \in calls, Insert(c)
        PROVE  NoOverdraft'
    BY <1>4 DEF Insert
  <1>5. ASSUME NEW c \in calls, Debit(c)
        PROVE  NoOverdraft'
    BY <1>5 DEF Debit
  <1>6. ASSUME NEW c \in calls, DebitFails(c)
        PROVE  NoOverdraft'
    BY <1>6 DEF DebitFails
  <1>7. ASSUME NEW c \in calls, SendAccepted(c)
        PROVE  NoOverdraft'
    BY <1>7 DEF SendAccepted
  <1>8. ASSUME NEW c \in calls, SendRefused(c)
        PROVE  NoOverdraft'
    BY <1>8 DEF SendRefused
  <1>9. ASSUME NEW c \in calls, SendSkipped(c)
        PROVE  NoOverdraft'
    BY <1>9 DEF SendSkipped
  <1>10. ASSUME NEW c \in calls, StorePayout(c)
        PROVE  NoOverdraft'
    BY <1>10 DEF StorePayout
  <1>11. ASSUME NEW c \in calls, Void(c)
        PROVE  NoOverdraft'
    BY <1>11 DEF Void
  <1>12. ASSUME NEW c \in calls, RefundMissing(c)
        PROVE  NoOverdraft'
    BY <1>12 DEF RefundMissing
  <1>13. ASSUME NEW c \in calls, RefundExists(c)
        PROVE  NoOverdraft'
    BY <1>13 DEF RefundExists
  <1>14. ASSUME NEW c \in calls, Refund(c)
        PROVE  NoOverdraft'
    BY <1>14 DEF Refund
  <1>15. ASSUME NEW c \in calls, ApproveSent(c)
        PROVE  NoOverdraft'
    BY <1>15 DEF ApproveSent
  <1>16. ASSUME NEW c \in calls, ApproveFallsBack(c)
        PROVE  NoOverdraft'
    BY <1>16 DEF ApproveFallsBack
  <1>17. ASSUME NEW c \in calls, ApproveSave(c)
        PROVE  NoOverdraft'
    BY <1>17 DEF ApproveSave
  <1>18. ASSUME NEW c \in calls, ApproveManual(c)
        PROVE  NoOverdraft'
    BY <1>18 DEF ApproveManual
  <1>19. ASSUME NEW c \in calls, RejectSave(c)
        PROVE  NoOverdraft'
    BY <1>19 DEF RejectSave
  <1>20. ASSUME NEW c \in calls, HookComplete(c)
        PROVE  NoOverdraft'
    BY <1>20 DEF HookComplete
  <1>21. ASSUME NEW c \in calls, HookFail(c)
        PROVE  NoOverdraft'
    BY <1>21 DEF HookFail
  <1>22. ASSUME NEW w \in Withdrawals, NEW outcome \in {"success", "failure"}, Settle(w, outcome)
        PROVE  NoOverdraft'
    BY <1>22 DEF Settle
  <1>23. ASSUME NEW w \in Withdrawals, Reverse(w)
        PROVE  NoOverdraft'
    BY <1>23 DEF Reverse
  <1>24. ASSUME NEW e \in hooks, LoseHook(e)
        PROVE  NoOverdraft'
    BY <1>24 DEF LoseHook
  <1>25. ASSUME NEW e \in hooks, HookIgnored(e)
        PROVE  NoOverdraft'
    BY <1>25 DEF HookIgnored
  <1>26. ASSUME NEW e \in hooks, HookRead(e)
        PROVE  NoOverdraft'
    BY <1>26 DEF HookRead
  <1>27. ASSUME NEW delta \in {-1, 1}, Move(delta)
        PROVE  NoOverdraft'
    BY <1>27 DEF Move
  <1>28. ASSUME Freeze
        PROVE  NoOverdraft'
    BY <1>28 DEF Freeze
  <1>29. ASSUME Crash
        PROVE  NoOverdraft'
    BY <1>29 DEF Crash
  <1>30. CASE UNCHANGED vars
    BY <1>30 DEF vars
  <1> QED
    BY <1>1, <1>2, <1>3, <1>4, <1>5, <1>6, <1>7, <1>8, <1>9, <1>10, <1>11, <1>12,
       <1>13, <1>14, <1>15, <1>16, <1>17, <1>18, <1>19, <1>20, <1>21, <1>22, <1>23, <1>24,
       <1>25, <1>26, <1>27, <1>28, <1>29, <1>30
    DEF Next, CallStep, BankStep

\* No overdraft: any number of withdrawals of any amounts, requested and paid
\* in any order with any failures, never takes more than the wallet holds.
THEOREM WalletCovered == Spec => []NoOverdraft
  <1>1. Spec => [](TypeOK /\ NoOverdraft)
    BY TypedInit, TypedNext, CoveredInit, CoveredNext, PTL DEF Spec
  <1> QED BY <1>1, PTL

-----------------------------------------------------------------------------
(***************************************************************************)
(* Money and status agree.  The inductive invariant says, for each stage   *)
(* of the one handler that works on an undisturbed withdrawal, where its   *)
(* money is.                                                               *)
(***************************************************************************)

Untouched(w) ==
  w \notin debited /\ refunds[w] = 0 /\ manual[w] = 0 /\ transfer[w] = "none" /\ ~request[w].payout
Held(w) == w \in debited /\ refunds[w] = 0 /\ manual[w] = 0
Unpaid(w) == transfer[w] \in {"none", "failed"}
Answered(w) == transfer[w] \in {"success", "failed"}
Submitted(w) == transfer[w] \in {"sent", "success", "failed"}

\* Nobody works on it.
Idle(w) ==
  LET status == request[w].status
      payout == request[w].payout
  IN /\ status = "none" => Untouched(w)
     /\ status = "pending" => Held(w) /\ ~payout
     /\ status = "processing" => Held(w) /\ payout /\ Submitted(w)
     /\ status = "completed" =>
          /\ w \in debited /\ refunds[w] = 0
          /\ \/ manual[w] = 0 /\ payout /\ Answered(w)
             \/ manual[w] = 1 /\ ~payout /\ Unpaid(w)
     /\ status = "rejected" => manual[w] = 0 /\ Unpaid(w) /\ refunds[w] = (IF w \in debited THEN 1 ELSE 0)

\* Handler c works on it.
Busy(c) ==
  LET w == c.w
      status == request[w].status
      payout == request[w].payout
  IN /\ c.op = "insert" => status = "none" /\ Untouched(w)
     /\ c.op = "debit" => status = "pending" /\ Untouched(w)
     /\ c.op \in {"send", "store", "void", "send_again", "save_sent", "save_manual"} =>
          status = "pending" /\ Held(w) /\ ~payout
     /\ c.op = "send" => transfer[w] = "none"
     /\ c.op \in {"store", "save_sent"} => Submitted(w)
     /\ c.op \in {"void", "fail"} => transfer[w] = "failed"
     /\ c.op \in {"send_again", "save_manual", "refund_check", "refund", "save_rejected"} => Unpaid(w)
     /\ c.op \in {"send_again", "save_manual", "complete", "fail"} => c.snap = request[w]
     /\ c.op = "complete" => status = "processing" /\ Held(w) /\ payout /\ Answered(w)
     /\ c.op = "fail" => status \in {"processing", "completed"} /\ Held(w) /\ payout
     /\ c.op \in {"refund_check", "refund"} =>
          /\ Held(w)
          /\ IF c.by = "reject" THEN Open(w) /\ c.snap = request[w] ELSE status = "rejected"
     /\ c.by = "reject" => c.op \in {"refund_check", "refund", "save_rejected"}
     /\ c.op = "save_rejected" =>
          w \in debited /\ refunds[w] = 1 /\ manual[w] = 0 /\ Open(w) /\ c.snap = request[w]

\* One handler at a time; webhooks tell what Cashfree has decided.
Kept(w) ==
  /\ \A c, e \in CallsOn(w) : c = e
  /\ CallsOn(w) = {} => Idle(w)
  /\ \A c \in CallsOn(w) : Busy(c)
Told(w) ==
  /\ <<w, "success">> \in hooks => Answered(w)
  /\ <<w, "failure">> \in hooks => transfer[w] = "failed"
MoneyInv == \A w \in Withdrawals : Told(w) /\ (w \notin disturbed => Kept(w))

LEMMA MoneyInit == Init => MoneyInv
  <1> SUFFICES ASSUME Init, NEW w \in Withdrawals
               PROVE  Told(w) /\ Kept(w)
    BY DEF MoneyInv
  <1>1. CallsOn(w) = {}
    BY DEF Init, CallsOn
  <1>2. Idle(w)
    BY DEF Init, Idle, Untouched
  <1> QED BY <1>1, <1>2 DEF Init, Kept, Told

\* Nothing of a withdrawal has changed.
Same(w) ==
  /\ CallsOn(w)' = CallsOn(w)
  /\ request'[w] = request[w] /\ (w \in debited' <=> w \in debited)
  /\ refunds'[w] = refunds[w] /\ transfer'[w] = transfer[w] /\ manual'[w] = manual[w]

LEMMA SameKept ==
  ASSUME NEW w \in Withdrawals, Same(w), Kept(w)
  PROVE  Kept(w)'
  <1>1. Idle(w)' <=> Idle(w)
    BY DEF Same, Idle, Untouched, Held, Unpaid, Answered, Submitted
  <1>2. \A c \in CallsOn(w) : Busy(c)' <=> Busy(c)
    BY DEF Same, CallsOn, Busy, Untouched, Held, Unpaid, Answered, Submitted, Open
  <1> QED BY <1>1, <1>2 DEF Same, Kept

\* How the calls on a withdrawal change: one begins, if undisturbed alone ...
LEMMA BegunOn ==
  ASSUME TypeOK, NEW w \in Withdrawals, NEW op \in Op, NEW by, NEW when, Begin(op, w, by, when)
  PROVE  /\ disturbed \subseteq disturbed'
         /\ \A v \in Withdrawals : v # w => CallsOn(v)' = CallsOn(v) /\ (v \in disturbed' <=> v \in disturbed)
         /\ w \notin disturbed' =>
              /\ ~when /\ CallsOn(w) = {}
              /\ \E e : /\ CallsOn(w)' = {e}
                        /\ e.op = op /\ e.w = w /\ e.snap = request[w] /\ e.by = by
  <1> DEFINE e == [op |-> op, w |-> w, snap |-> request[w], by |-> by]
  <1>1. e.op = op /\ e.w = w /\ e.snap = request[w] /\ e.by = by
    OBVIOUS
  <1>2. calls' = calls \cup {e}
    BY DEF Begin
  <1> HIDE DEF e
  <1>3. disturbed' = IF when \/ CallsOn(w) # {} THEN disturbed \cup {w} ELSE disturbed
    BY DEF Begin, Disturb
  <1>4. \A v \in Withdrawals : v # w => CallsOn(v)' = CallsOn(v)
    BY <1>1, <1>2 DEF CallsOn
  <1>5. CallsOn(w) = {} => CallsOn(w)' = {e}
    BY <1>1, <1>2 DEF CallsOn
  <1> QED BY <1>1, <1>3, <1>4, <1>5

\* ... goes on ...
LEMMA ContinuedOn ==
  ASSUME TypeOK, NEW c \in calls, NEW op \in Op, Continue(c, op)
  PROVE  /\ \A v \in Withdrawals : v # c.w => CallsOn(v)' = CallsOn(v)
         /\ (\A d, e \in CallsOn(c.w) : d = e) =>
              \E e : /\ CallsOn(c.w)' = {e}
                     /\ e.op = op /\ e.w = c.w /\ e.snap = c.snap /\ e.by = c.by
  <1> DEFINE e == [c EXCEPT !.op = op]
  <1>1. e.op = op /\ e.w = c.w /\ e.snap = c.snap /\ e.by = c.by
    BY DEF TypeOK, Call
  <1>2. calls' = (calls \ {c}) \cup {e}
    BY DEF Continue
  <1> HIDE DEF e
  <1>3. \A v \in Withdrawals : v # c.w => CallsOn(v)' = CallsOn(v)
    BY <1>1, <1>2 DEF CallsOn
  <1>4. (\A d, f \in CallsOn(c.w) : d = f) => CallsOn(c.w)' = {e}
    BY <1>1, <1>2 DEF CallsOn
  <1> QED BY <1>1, <1>3, <1>4

\* ... or ends.
LEMMA ReturnedOn ==
  ASSUME NEW c \in calls, Return(c)
  PROVE  /\ \A v \in Withdrawals : v # c.w => CallsOn(v)' = CallsOn(v)
         /\ (\A d, e \in CallsOn(c.w) : d = e) => CallsOn(c.w)' = {}
  BY DEF Return, CallsOn

\* A handler's step leaves other withdrawals alone.
LEMMA OthersSame ==
  ASSUME TypeOK, NEW c \in calls, CallStep(c), NEW w \in Withdrawals, w # c.w
  PROVE  Same(w) /\ (w \in disturbed' <=> w \in disturbed)
  <1> USE DEF wallet, bank
  <1>0. CallsOn(w)' = CallsOn(w)
    <2>1. ASSUME NEW op \in Op, Continue(c, op)
          PROVE  CallsOn(w)' = CallsOn(w)
      BY <2>1, ContinuedOn
    <2>2. ASSUME Return(c)
          PROVE  CallsOn(w)' = CallsOn(w)
      BY <2>2, ReturnedOn
    <2> QED
      BY <2>1, <2>2 DEF CallStep, Insert, Debit, DebitFails, SendAccepted, SendRefused, SendSkipped, StorePayout,
           Void, RefundMissing, RefundExists, Refund, Refunded, ApproveSent, ApproveFallsBack, ApproveSave,
           ApproveManual, RejectSave, HookComplete, HookFail, Op
  <1>1. c.w \in Withdrawals
    BY DEF TypeOK, Call
  <1>2. request'[w] = request[w]
    BY DEF TypeOK, CallStep, Insert, Debit, DebitFails, SendAccepted, SendRefused, SendSkipped, StorePayout,
           Void, RefundMissing, RefundExists, Refund, ApproveSent, ApproveFallsBack, ApproveSave,
           ApproveManual, RejectSave, HookComplete, HookFail
  <1>3. (w \in debited' <=> w \in debited) /\ refunds'[w] = refunds[w] /\ manual'[w] = manual[w]
    BY DEF TypeOK, CallStep, Insert, Debit, DebitFails, SendAccepted, SendRefused, SendSkipped, StorePayout,
           Void, RefundMissing, RefundExists, Refund, ApproveSent, ApproveFallsBack, ApproveSave,
           ApproveManual, RejectSave, HookComplete, HookFail
  <1>4. transfer'[w] = transfer[w]
    BY DEF TypeOK, CallStep, Insert, Debit, DebitFails, SendAccepted, SendRefused, SendSkipped, StorePayout,
           Void, RefundMissing, RefundExists, Refund, ApproveSent, ApproveFallsBack, ApproveSave,
           ApproveManual, RejectSave, HookComplete, HookFail, Sent, Thrown
  <1>5. w \in disturbed' <=> w \in disturbed
    BY DEF CallStep, Insert, Debit, DebitFails, SendAccepted, SendRefused, SendSkipped, StorePayout,
           Void, RefundMissing, RefundExists, Refund, ApproveSent, ApproveFallsBack, ApproveSave,
           ApproveManual, RejectSave, HookComplete, HookFail, Disturb
  <1> QED BY <1>0, <1>2, <1>3, <1>4, <1>5 DEF Same

\* The handler of an undisturbed withdrawal moves its money and its status
\* together.
LEMMA OwnKept ==
  ASSUME TypeOK, NEW w \in Withdrawals \ disturbed', NEW c \in calls, c.w = w, CallStep(c), Kept(w)
  PROVE  Kept(w)'
  <1> USE DEF wallet, bank
  <1>1. c \in Call /\ c.snap \in Row /\ request[w] \in Row /\ transfer[w] \in Transfer
    BY DEF TypeOK, Call
  <1>2. c \in CallsOn(w) /\ Busy(c) /\ \A d, e \in CallsOn(w) : d = e
    BY DEF Kept, CallsOn
  <1>3. ASSUME Return(c), Idle(w)'
        PROVE  Kept(w)'
    BY <1>2, <1>3, ReturnedOn DEF Kept
  <1>4. ASSUME NEW op \in Op, Continue(c, op),
               \A e : e.op = op /\ e.w = w /\ e.snap = c.snap /\ e.by = c.by => Busy(e)'
        PROVE  Kept(w)'
    <2>1. PICK e : CallsOn(w)' = {e} /\ e.op = op /\ e.w = w /\ e.snap = c.snap /\ e.by = c.by
      BY <1>2, <1>4, ContinuedOn
    <2>2. Busy(e)'
      BY <1>4, <2>1
    <2> QED BY <2>1, <2>2 DEF Kept
  <1>5. ASSUME Insert(c)
        PROVE  Kept(w)'
    <2>1. request'[w].status = "pending" /\ request'[w].payout = request[w].payout
      BY <1>1, <1>5 DEF Insert, TypeOK, Row
    <2>2. \A e : e.op = "debit" /\ e.w = w /\ e.snap = c.snap /\ e.by = c.by => Busy(e)'
      BY <1>1, <1>2, <1>5, <2>1 DEF Insert, Busy, Untouched, Held, Unpaid, Answered, Submitted, Open
    <2> QED BY <1>4, <1>5, <2>2 DEF Insert, Op
  <1>6. ASSUME Debit(c)
        PROVE  Kept(w)'
    <2>1. \A e : e.op = "send" /\ e.w = w /\ e.snap = c.snap /\ e.by = c.by => Busy(e)'
      BY <1>1, <1>2, <1>6 DEF Debit, Busy, Untouched, Held, Unpaid, Answered, Submitted, Open
    <2> QED BY <1>4, <1>6, <2>1 DEF Debit, Op
  <1>7. ASSUME DebitFails(c)
        PROVE  Kept(w)'
    <2>1. request'[w].status = "rejected" /\ request'[w].payout = request[w].payout
      BY <1>1, <1>7 DEF DebitFails, TypeOK, Row
    <2>2. Idle(w)'
      BY <1>1, <1>2, <1>7, <2>1 DEF DebitFails, Busy, Idle, Untouched, Held, Unpaid, Answered, Submitted, Open
    <2> QED BY <1>3, <1>7, <2>2 DEF DebitFails
  <1>8. ASSUME SendAccepted(c)
        PROVE  Kept(w)'
    <2>1. transfer'[w] = "sent"
      BY <1>8 DEF SendAccepted, Sent, TypeOK
    <2>2. \A e : e.op = "store" /\ e.w = w /\ e.snap = c.snap /\ e.by = c.by => Busy(e)'
      BY <1>1, <1>2, <1>8, <2>1 DEF SendAccepted, Busy, Untouched, Held, Unpaid, Answered, Submitted, Open
    <2> QED BY <1>4, <1>8, <2>2 DEF SendAccepted, Op
  <1>9. ASSUME SendRefused(c)
        PROVE  Kept(w)'
    <2>1. transfer'[w] = "failed"
      BY <1>9 DEF SendRefused, TypeOK
    <2>2. \A e : e.op = "void" /\ e.w = w /\ e.snap = c.snap /\ e.by = c.by => Busy(e)'
      BY <1>1, <1>2, <1>9, <2>1 DEF SendRefused, Busy, Untouched, Held, Unpaid, Answered, Submitted, Open
    <2> QED BY <1>4, <1>9, <2>2 DEF SendRefused, Op
  <1>10. ASSUME SendSkipped(c)
        PROVE  Kept(w)'
    <2>1. transfer'[w] \in {"none", "sent"}
      BY <1>2, <1>10 DEF SendSkipped, Thrown, Sent, TypeOK, Busy
    <2>2. Idle(w)'
      BY <1>1, <1>2, <1>10, <2>1 DEF SendSkipped, Busy, Idle, Untouched, Held, Unpaid, Answered, Submitted, Open
    <2> QED BY <1>3, <1>10, <2>2 DEF SendSkipped
  <1>11. ASSUME StorePayout(c)
        PROVE  Kept(w)'
    <2>1. request'[w].status = "processing" /\ request'[w].payout = TRUE
      BY <1>11 DEF StorePayout, TypeOK
    <2>2. Idle(w)'
      BY <1>1, <1>2, <1>11, <2>1 DEF StorePayout, Busy, Idle, Untouched, Held, Unpaid, Answered, Submitted, Open
    <2> QED BY <1>3, <1>11, <2>2 DEF StorePayout
  <1>12. ASSUME Void(c)
        PROVE  Kept(w)'
    <2>1. request'[w].status = "rejected" /\ request'[w].payout = request[w].payout
      BY <1>1, <1>12 DEF Void, TypeOK, Row
    <2>2. c.by # "reject"
      BY <1>2, <1>12 DEF Void, Busy
    <2>3. \A e : e.op = "refund_check" /\ e.w = w /\ e.snap = c.snap /\ e.by = c.by => Busy(e)'
      BY <1>1, <1>2, <1>12, <2>1, <2>2 DEF Void, Busy, Untouched, Held, Unpaid, Answered, Submitted, Open
    <2> QED BY <1>4, <1>12, <2>3 DEF Void, Op
  <1>13. ASSUME RefundMissing(c)
        PROVE  Kept(w)'
    <2>1. \A e : e.op = "refund" /\ e.w = w /\ e.snap = c.snap /\ e.by = c.by => Busy(e)'
      BY <1>1, <1>2, <1>13 DEF RefundMissing, Busy, Untouched, Held, Unpaid, Answered, Submitted, Open
    <2> QED BY <1>4, <1>13, <2>1 DEF RefundMissing, Op
  <1>14. ASSUME RefundExists(c)
        PROVE  Kept(w)'
    BY <1>1, <1>2, <1>14 DEF RefundExists, Busy, Held
  <1>15. ASSUME Refund(c)
        PROVE  Kept(w)'
    <2>1. refunds'[w] = 1 /\ request' = request /\ transfer' = transfer /\ manual' = manual /\ debited' = debited
      BY <1>2, <1>15 DEF Refund, TypeOK, Busy, Held
    <2>2. CASE c.by = "reject"
      <3>1. \A e : e.op = "save_rejected" /\ e.w = w /\ e.snap = c.snap /\ e.by = c.by => Busy(e)'
        BY <1>1, <1>2, <1>15, <2>1, <2>2 DEF Refund, Busy, Untouched, Held, Unpaid, Answered, Submitted, Open
      <3> QED BY <1>4, <1>15, <2>2, <3>1 DEF Refund, Refunded, Op
    <2>3. CASE c.by # "reject"
      <3>1. Idle(w)'
        BY <1>1, <1>2, <1>15, <2>1, <2>3 DEF Refund, Busy, Idle, Untouched, Held, Unpaid, Answered, Submitted, Open
      <3> QED BY <1>3, <1>15, <2>3, <3>1 DEF Refund, Refunded
    <2> QED BY <2>2, <2>3
  <1>16. ASSUME ApproveSent(c)
        PROVE  Kept(w)'
    <2>1. transfer'[w] \in {"sent", "failed"}
      BY <1>16 DEF ApproveSent, Sent, TypeOK
    <2>2. \A e : e.op = "save_sent" /\ e.w = w /\ e.snap = c.snap /\ e.by = c.by => Busy(e)'
      BY <1>1, <1>2, <1>16, <2>1 DEF ApproveSent, Busy, Untouched, Held, Unpaid, Answered, Submitted, Open
    <2> QED BY <1>4, <1>16, <2>2 DEF ApproveSent, Op
  <1>17. ASSUME ApproveFallsBack(c)
        PROVE  Kept(w)'
    <2>1. transfer'[w] = transfer[w]
      BY <1>17 DEF ApproveFallsBack, Disturb
    <2>2. \A e : e.op = "save_manual" /\ e.w = w /\ e.snap = c.snap /\ e.by = c.by => Busy(e)'
      BY <1>1, <1>2, <1>17, <2>1 DEF ApproveFallsBack, Busy, Untouched, Held, Unpaid, Answered, Submitted, Open
    <2> QED BY <1>4, <1>17, <2>2 DEF ApproveFallsBack, Op
  <1>18. ASSUME ApproveSave(c)
        PROVE  Kept(w)'
    <2>1. request'[w].status = "processing" /\ request'[w].payout = TRUE
      BY <1>18 DEF ApproveSave, TypeOK
    <2>2. Idle(w)'
      BY <1>1, <1>2, <1>18, <2>1 DEF ApproveSave, Busy, Idle, Untouched, Held, Unpaid, Answered, Submitted, Open
    <2> QED BY <1>3, <1>18, <2>2 DEF ApproveSave
  <1>19. ASSUME ApproveManual(c)
        PROVE  Kept(w)'
    <2>1. request'[w].status = "completed" /\ request'[w].payout = c.snap.payout
      BY <1>1, <1>19 DEF ApproveManual, TypeOK, Row
    <2>2. manual'[w] = 1
      BY <1>2, <1>19 DEF ApproveManual, TypeOK, Busy, Held
    <2>3. c.snap.payout = request[w].payout
      BY <1>2, <1>19 DEF ApproveManual, Busy
    <2>4. Idle(w)'
      BY <1>1, <1>2, <1>19, <2>1, <2>2, <2>3 DEF ApproveManual, Busy, Idle, Untouched, Held, Unpaid, Answered, Submitted, Open
    <2> QED BY <1>3, <1>19, <2>4 DEF ApproveManual
  <1>20. ASSUME RejectSave(c)
        PROVE  Kept(w)'
    <2>1. request'[w].status = "rejected" /\ request'[w].payout = c.snap.payout
      BY <1>1, <1>20 DEF RejectSave, TypeOK, Row
    <2>2. Idle(w)'
      BY <1>1, <1>2, <1>20, <2>1 DEF RejectSave, Busy, Idle, Untouched, Held, Unpaid, Answered, Submitted, Open
    <2> QED BY <1>3, <1>20, <2>2 DEF RejectSave
  <1>21. ASSUME HookComplete(c)
        PROVE  Kept(w)'
    <2>1. request'[w].status = "completed" /\ request'[w].payout = c.snap.payout
      BY <1>1, <1>21 DEF HookComplete, TypeOK, Row
    <2>2. c.snap.payout = request[w].payout
      BY <1>2, <1>21 DEF HookComplete, Busy
    <2>3. Idle(w)'
      BY <1>1, <1>2, <1>21, <2>1, <2>2 DEF HookComplete, Busy, Idle, Untouched, Held, Unpaid, Answered, Submitted, Open
    <2> QED BY <1>3, <1>21, <2>3 DEF HookComplete
  <1>22. ASSUME HookFail(c)
        PROVE  Kept(w)'
    <2>1. request'[w].status = "rejected" /\ request'[w].payout = c.snap.payout
      BY <1>1, <1>22 DEF HookFail, TypeOK, Row
    <2>2. c.by # "reject"
      BY <1>2, <1>22 DEF HookFail, Busy
    <2>3. \A e : e.op = "refund_check" /\ e.w = w /\ e.snap = c.snap /\ e.by = c.by => Busy(e)'
      BY <1>1, <1>2, <1>22, <2>1, <2>2 DEF HookFail, Busy, Untouched, Held, Unpaid, Answered, Submitted, Open
    <2> QED BY <1>4, <1>22, <2>3 DEF HookFail, Op
  <1> QED
    BY <1>5, <1>6, <1>7, <1>8, <1>9, <1>10, <1>11, <1>12, <1>13, <1>14, <1>15, <1>16, <1>17, <1>18,
       <1>19, <1>20, <1>21, <1>22
    DEF CallStep

\* Once disturbed, always disturbed.
LEMMA DisturbedStays ==
  ASSUME TypeOK, [Next]_vars
  PROVE  disturbed \subseteq disturbed'
  <1>1. ASSUME NEW c \in calls, CallStep(c)
        PROVE  disturbed \subseteq disturbed'
    BY <1>1 DEF CallStep, Insert, Debit, DebitFails, SendAccepted, SendRefused, SendSkipped, StorePayout,
           Void, RefundMissing, RefundExists, Refund, ApproveSent, ApproveFallsBack, ApproveSave,
           ApproveManual, RejectSave, HookComplete, HookFail, Disturb
  <1>2. ASSUME NEW w \in Withdrawals, Request(w) \/ Approve(w) \/ Reject(w)
        PROVE  disturbed \subseteq disturbed'
    BY <1>2 DEF Request, Approve, Reject, Begin, Disturb
  <1>3. ASSUME BankStep
        PROVE  disturbed \subseteq disturbed'
    BY <1>3 DEF BankStep, Settle, Reverse, LoseHook, HookIgnored, HookRead, Begin, Disturb
  <1>4. ASSUME (\E delta \in {-1, 1} : Move(delta)) \/ Freeze \/ Crash \/ UNCHANGED vars
        PROVE  disturbed \subseteq disturbed'
    BY <1>4 DEF Move, Freeze, Crash, vars
  <1> QED BY <1>1, <1>2, <1>3, <1>4 DEF Next

\* Webhooks keep telling what Cashfree has decided.
LEMMA ToldNext ==
  ASSUME TypeOK, NEW w \in Withdrawals, Told(w), [Next]_vars
  PROVE  Told(w)'
  <1> USE DEF wallet, bank, Told, Answered
  <1>1. ASSUME NEW c \in calls, CallStep(c)
        PROVE  Told(w)'
    <2>1. CASE UNCHANGED <<transfer, hooks>>
      BY <2>1
    <2>2. CASE /\ transfer[c.w] = "none" /\ UNCHANGED hooks
               /\ \E t \in Transfer : transfer' = [transfer EXCEPT ![c.w] = t]
      BY <2>2 DEF TypeOK
    <2>3. CASE /\ transfer[c.w] = "none" /\ hooks' = hooks \cup {<<c.w, "failure">>}
               /\ transfer' = [transfer EXCEPT ![c.w] = "failed"]
      BY <2>3 DEF TypeOK
    <2>4. \/ UNCHANGED <<transfer, hooks>>
          \/ /\ transfer[c.w] = "none" /\ UNCHANGED hooks
             /\ \E t \in Transfer : transfer' = [transfer EXCEPT ![c.w] = t]
          \/ /\ transfer[c.w] = "none" /\ hooks' = hooks \cup {<<c.w, "failure">>}
             /\ transfer' = [transfer EXCEPT ![c.w] = "failed"]
      BY <1>1 DEF CallStep, Insert, Debit, DebitFails, SendAccepted, SendRefused, SendSkipped, StorePayout,
           Void, RefundMissing, RefundExists, Refund, ApproveSent, ApproveFallsBack, ApproveSave,
           ApproveManual, RejectSave, HookComplete, HookFail, Sent, Thrown, Transfer
    <2> QED BY <2>1, <2>2, <2>3, <2>4
  <1>2. ASSUME NEW v \in Withdrawals, NEW outcome \in {"success", "failure"}, Settle(v, outcome)
        PROVE  Told(w)'
    BY <1>2 DEF Settle, TypeOK
  <1>3. ASSUME NEW v \in Withdrawals, Reverse(v)
        PROVE  Told(w)'
    BY <1>3 DEF Reverse, TypeOK
  <1>4. ASSUME NEW e \in hooks, LoseHook(e) \/ HookIgnored(e) \/ HookRead(e)
        PROVE  Told(w)'
    BY <1>4 DEF LoseHook, HookIgnored, HookRead, Deliver
  <1>5. ASSUME NEW v \in Withdrawals, Request(v) \/ Approve(v) \/ Reject(v)
        PROVE  Told(w)'
    BY <1>5 DEF Request, Approve, Reject
  <1>6. ASSUME (\E delta \in {-1, 1} : Move(delta)) \/ Freeze \/ Crash \/ UNCHANGED vars
        PROVE  Told(w)'
    BY <1>6 DEF Move, Freeze, Crash, vars
  <1> QED BY <1>1, <1>2, <1>3, <1>4, <1>5, <1>6 DEF Next, BankStep

\* A handler that begins on an undisturbed withdrawal finds it idle, and is
\* busy with it as the invariant says if what it read allows it.
LEMMA BegunKept ==
  ASSUME TypeOK, NEW w \in Withdrawals, NEW op \in Op, NEW by, NEW when, Begin(op, w, by, when),
         UNCHANGED <<request, debited, refunds, transfer, manual>>,
         Idle(w) /\ ~when =>
           \A e : e.op = op /\ e.w = w /\ e.snap = request[w] /\ e.by = by => Busy(e),
         NEW v \in Withdrawals \ disturbed', Kept(v)
  PROVE  Kept(v)'
  <1>1. CASE v # w
    <2>1. Same(v)
      BY <1>1, BegunOn DEF Same
    <2> QED BY <2>1, SameKept
  <1>2. CASE v = w
    <2>1. ~when /\ CallsOn(w) = {}
      BY <1>2, BegunOn
    <2>2. PICK e : CallsOn(w)' = {e} /\ e.op = op /\ e.w = w /\ e.snap = request[w] /\ e.by = by
      BY <1>2, BegunOn
    <2>3. Busy(e)
      BY <1>2, <2>1, <2>2 DEF Kept
    <2>4. Busy(e)'
      BY <2>3 DEF Busy, Untouched, Held, Unpaid, Answered, Submitted, Open
    <2> QED BY <1>2, <2>2, <2>4 DEF Kept
  <1> QED BY <1>1, <1>2

\* Cashfree decides on a transfer whoever works on the withdrawal.
LEMMA DecidedKept ==
  ASSUME TypeOK, NEW v \in Withdrawals, NEW w \in Withdrawals, Kept(w),
         \/ transfer[v] = "sent" /\ \E t \in {"success", "failed"} : transfer' = [transfer EXCEPT ![v] = t]
         \/ transfer[v] = "success" /\ transfer' = [transfer EXCEPT ![v] = "failed"],
         UNCHANGED <<request, debited, refunds, manual, calls>>
  PROVE  Kept(w)'
  <1>1. CASE v # w
    <2>1. Same(w)
      BY <1>1 DEF Same, CallsOn, TypeOK
    <2> QED BY <2>1, SameKept
  <1>2. CASE v = w
    <2>1. transfer[w] \in {"sent", "success"} /\ transfer'[w] \in {"success", "failed"}
      BY <1>2 DEF TypeOK
    <2>2. CallsOn(w)' = CallsOn(w)
      BY DEF CallsOn
    <2>3. ASSUME Idle(w)
          PROVE  Idle(w)'
      BY <2>1, <2>3 DEF Idle, Untouched, Held, Unpaid, Answered, Submitted
    <2>4. ASSUME NEW c \in CallsOn(w), Busy(c)
          PROVE  Busy(c)'
      <3>1. c.w = w /\ c.op \in Op
        BY DEF CallsOn, TypeOK, Call
      <3> QED BY <2>1, <2>4, <3>1 DEF Busy, Untouched, Held, Unpaid, Answered, Submitted, Open, Op
    <2> QED BY <2>2, <2>3, <2>4 DEF Kept
  <1> QED BY <1>1, <1>2

LEMMA KeptNext ==
  ASSUME TypeOK, MoneyInv, [Next]_vars, NEW w \in Withdrawals \ disturbed'
  PROVE  Kept(w)'
  <1> USE DEF wallet, bank
  <1>1. disturbed \subseteq disturbed'
    BY DisturbedStays
  <1>2. Kept(w) /\ \A v \in Withdrawals : Told(v)
    BY <1>1 DEF MoneyInv
  <1>3. ASSUME NEW c \in calls, CallStep(c)
        PROVE  Kept(w)'
    <2>1. CASE c.w = w
      BY <1>2, <1>3, <2>1, OwnKept
    <2>2. CASE c.w # w
      BY <1>2, <1>3, <2>2, OthersSame, SameKept
    <2> QED BY <2>1, <2>2
  <1>4. ASSUME NEW v \in Withdrawals, Request(v)
        PROVE  Kept(w)'
    <2>1. Begin("insert", v, "driver", FALSE) /\ UNCHANGED <<request, debited, refunds, transfer, manual>>
      BY <1>4 DEF Request
    <2>2. ASSUME Idle(v), NEW e, e.op = "insert", e.w = v, e.snap = request[v], e.by = "driver"
          PROVE  Busy(e)
      BY <1>4, <2>2 DEF Request, Idle, Busy
    <2> QED BY <1>2, <2>1, <2>2, BegunKept DEF Op
  <1>5. ASSUME NEW v \in Withdrawals, Approve(v)
        PROVE  Kept(w)'
    <2>1. Begin("send_again", v, "approve", Paying(v)) /\ UNCHANGED <<request, debited, refunds, transfer, manual>>
      BY <1>5 DEF Approve
    <2>2. ASSUME Idle(v), ~Paying(v), NEW e, e.op = "send_again", e.w = v, e.snap = request[v], e.by = "approve"
          PROVE  Busy(e)
      BY <1>5, <2>2 DEF Approve, Open, Idle, Busy, Paying, Held, Unpaid, TypeOK, Transfer
    <2> QED BY <1>2, <2>1, <2>2, BegunKept DEF Op
  <1>6. ASSUME NEW v \in Withdrawals, Reject(v)
        PROVE  Kept(w)'
    <2>1. Begin("refund_check", v, "reject", Paying(v)) /\ UNCHANGED <<request, debited, refunds, transfer, manual>>
      BY <1>6 DEF Reject
    <2>2. ASSUME Idle(v), ~Paying(v), NEW e, e.op = "refund_check", e.w = v, e.snap = request[v], e.by = "reject"
          PROVE  Busy(e)
      BY <1>6, <2>2 DEF Reject, Open, Idle, Busy, Paying, Held, Unpaid, TypeOK, Transfer
    <2> QED BY <1>2, <2>1, <2>2, BegunKept DEF Op
  <1>7. ASSUME NEW h \in hooks, HookRead(h)
        PROVE  Kept(w)'
    <2> DEFINE v == h[1]
    <2>1. v \in Withdrawals /\ h = <<v, h[2]>> /\ h[2] \in {"success", "failure"}
      BY DEF TypeOK, Event
    <2>2. request[v].payout /\ request[v].status # (IF h[2] = "success" THEN "completed" ELSE "rejected")
      BY <1>7 DEF HookRead
    <2>3. /\ Begin(IF h[2] = "success" THEN "complete" ELSE "fail", v, "webhook",
                   h[2] = "success" /\ transfer[v] = "failed")
          /\ UNCHANGED <<request, debited, refunds, transfer, manual>>
      BY <1>7 DEF HookRead
    <2> HIDE DEF v
    <2>4. request[v].status \in Status /\ Told(v)
      BY <1>2, <2>1 DEF TypeOK, Row
    <2>5. CASE h[2] = "success"
      <3>1. Begin("complete", v, "webhook", transfer[v] = "failed")
        BY <2>3, <2>5 DEF Begin, Disturb
      <3>2. ASSUME Idle(v), transfer[v] # "failed",
                   NEW e, e.op = "complete", e.w = v, e.snap = request[v], e.by = "webhook"
            PROVE  Busy(e)
        <4>1. transfer[v] = "success"
          BY <2>1, <2>4, <2>5, <3>2 DEF Told, Answered
        <4>2. request[v].status = "processing"
          BY <2>2, <2>4, <2>5, <3>2, <4>1 DEF Idle, Status, Untouched, Unpaid
        <4> QED BY <3>2, <4>1, <4>2 DEF Idle, Busy, Held, Answered
      <3> QED BY <1>2, <2>1, <2>3, <3>1, <3>2, BegunKept DEF Op
    <2>6. CASE h[2] = "failure"
      <3>1. Begin("fail", v, "webhook", FALSE)
        BY <2>3, <2>6 DEF Begin, Disturb
      <3>2. ASSUME Idle(v), NEW e, e.op = "fail", e.w = v, e.snap = request[v], e.by = "webhook"
            PROVE  Busy(e)
        <4>1. transfer[v] = "failed"
          BY <2>1, <2>4, <2>6 DEF Told
        <4>2. request[v].status \in {"processing", "completed"}
          BY <2>2, <2>4, <2>6, <3>2 DEF Idle, Status, Untouched
        <4>3. Held(v)
          BY <2>2, <3>2, <4>2 DEF Idle, Held
        <4> QED BY <2>2, <3>2, <4>1, <4>2, <4>3 DEF Busy
      <3> QED BY <1>2, <2>1, <2>3, <3>1, <3>2, BegunKept DEF Op
    <2> QED BY <2>1, <2>5, <2>6
  <1>8. ASSUME NEW v \in Withdrawals, (\E outcome \in {"success", "failure"} : Settle(v, outcome)) \/ Reverse(v)
        PROVE  Kept(w)'
    BY <1>2, <1>8, DecidedKept DEF Settle, Reverse
  <1>9. ASSUME NEW h \in hooks, LoseHook(h) \/ HookIgnored(h)
        PROVE  Kept(w)'
    <2>1. Same(w)
      BY <1>9 DEF LoseHook, HookIgnored, Same, CallsOn
    <2> QED BY <1>2, <2>1, SameKept
  <1>10. ASSUME (\E delta \in {-1, 1} : Move(delta)) \/ Freeze \/ UNCHANGED vars
         PROVE  Kept(w)'
    <2>1. Same(w)
      BY <1>10 DEF Move, Freeze, vars, Same, CallsOn
    <2> QED BY <1>2, <2>1, SameKept
  <1>11. ASSUME Crash
         PROVE  Kept(w)'
    <2>1. CallsOn(w) = {} /\ CallsOn(w)' = {}
      BY <1>11 DEF Crash, CallsOn
    <2>2. Same(w)
      BY <1>11, <2>1 DEF Crash, Same
    <2> QED BY <1>2, <2>2, SameKept
  <1> QED BY <1>3, <1>4, <1>5, <1>6, <1>7, <1>8, <1>9, <1>10, <1>11 DEF Next, BankStep

LEMMA MoneyNext == TypeOK /\ MoneyInv /\ [Next]_vars => MoneyInv'
  BY KeptNext, ToldNext DEF MoneyInv

\* Money and status agree (MoneyMatchesStatus): where nobody works on an
\* undisturbed withdrawal, the invariant settles it.
THEOREM MoneyAgrees == Spec => []MoneyMatchesStatus
  <1>1. TypeOK /\ MoneyInv => MoneyMatchesStatus
    <2> SUFFICES ASSUME TypeOK, MoneyInv, NEW w \in Withdrawals \ disturbed, CallsOn(w) = {}
                 PROVE  Settled(w)
      BY DEF MoneyMatchesStatus
    <2>1. Idle(w)
      BY DEF MoneyInv, Kept
    <2>2. transfer[w] \in Transfer /\ manual[w] \in Nat
      BY DEF TypeOK
    <2> QED BY <2>1, <2>2 DEF Idle, Untouched, Held, Unpaid, Answered, Submitted, Settled, Paid, Open, Transfer
  <1>2. Spec => [](TypeOK /\ MoneyInv)
    BY TypedInit, TypedNext, MoneyInit, MoneyNext, PTL DEF Spec
  <1> QED BY <1>1, <1>2, PTL

-----------------------------------------------------------------------------
(***************************************************************************)
(* Payouts implements Custody.                                             *)
(***************************************************************************)

\* A withdrawal that Cashfree pays, or has paid, is debited and has not been
\* given back nor paid by hand.
LEMMA PayingHeld ==
  ASSUME TypeOK, NEW w \in Withdrawals, Kept(w), Paying(w)
  PROVE  Held(w)
  <1> USE DEF Paying, Untouched, Unpaid
  <1>1. CASE CallsOn(w) = {}
    BY <1>1 DEF Kept, Idle, Held, TypeOK, Row, Status
  <1>2. ASSUME NEW c \in CallsOn(w)
        PROVE  Held(w)
    <2>1. Busy(c) /\ c.w = w /\ c.op \in Op
      BY DEF Kept, CallsOn, TypeOK, Call
    <2> QED BY <2>1 DEF Busy, Op
  <1> QED BY <1>1, <1>2

\* The steps of Custody, by the places of the withdrawals.
LEMMA OneMoves ==
  ASSUME NEW w \in Withdrawals, NEW delta \in Int, balance' = balance + delta,
         \A v \in Withdrawals : v # w => PlaceOf(v)' = PlaceOf(v)
  PROVE  Abstract!Moves(w, PlaceOf(w), PlaceOf(w)', delta)
  BY DEF Abstract!Moves

LEMMA NoneMoves ==
  ASSUME balance' = balance,
         \A v \in Withdrawals \ disturbed' : PlaceOf(v)' = PlaceOf(v)
  PROVE  Abstract!Next
  <1>1. disturbed' \cap Withdrawals \in SUBSET Withdrawals
    OBVIOUS
  <1>2. \A v \in disturbed' \cap Withdrawals : PlaceOf(v)' = "unknown"
    BY DEF PlaceOf
  <1>3. Abstract!GiveUp(disturbed' \cap Withdrawals)
    BY <1>2 DEF Abstract!GiveUp
  <1> QED BY <1>1, <1>3 DEF Abstract!Next

LEMMA OneStrays ==
  ASSUME NEW w \in disturbed, w \in Withdrawals, balance' \in {balance - Amount[w], balance + Amount[w]},
         \A v \in Withdrawals : PlaceOf(v)' = PlaceOf(v)
  PROVE  Abstract!Next
  <1>1. PlaceOf(w) = "unknown"
    BY DEF PlaceOf
  <1>2. Abstract!Stray(w)
    BY <1>1 DEF Abstract!Stray
  <1> QED BY <1>2 DEF Abstract!Next

\* A withdrawal whose ledger entries and payments stay is where it was.
LEMMA Stays ==
  ASSUME NEW w \in Withdrawals, w \in disturbed' <=> w \in disturbed,
         w \in disturbed \/ ((w \in debited' <=> w \in debited) /\ refunds'[w] = refunds[w] /\ Paid(w)' = Paid(w))
  PROVE  PlaceOf(w)' = PlaceOf(w)
  BY DEF PlaceOf

\* Where an undisturbed withdrawal is.
LEMMA Places ==
  ASSUME TypeOK, NEW w \in Withdrawals \ disturbed
  PROVE  /\ w \notin debited => PlaceOf(w) = "wallet"
         /\ Held(w) => PlaceOf(w) = (IF transfer[w] = "success" THEN "paid" ELSE "held")
         /\ w \in debited /\ refunds[w] = 0 /\ manual[w] = 1 /\ Unpaid(w) => PlaceOf(w) = "paid"
         /\ w \in debited /\ refunds[w] = 1 /\ manual[w] = 0 /\ Unpaid(w) => PlaceOf(w) = "returned"
  <1>1. manual[w] \in Nat /\ refunds[w] \in Nat
    BY DEF TypeOK
  <1> QED BY <1>1 DEF PlaceOf, Held, Paid, Unpaid

\* What a handler does to the other withdrawals.
LEMMA OthersStay ==
  ASSUME TypeOK, NEW c \in calls, CallStep(c), NEW w \in Withdrawals, w # c.w
  PROVE  PlaceOf(w)' = PlaceOf(w)
  <1>1. Same(w) /\ (w \in disturbed' <=> w \in disturbed)
    BY OthersSame
  <1>2. Paid(w)' = Paid(w)
    BY <1>1 DEF Same, Paid
  <1> QED BY <1>1, <1>2, Stays DEF Same

\* A handler moves its own withdrawal at most.
LEMMA CallImplements ==
  ASSUME TypeOK, MoneyInv, NEW c \in calls, CallStep(c)
  PROVE  Abstract!Next
  <1> DEFINE w == c.w
  <1>1. w \in Withdrawals /\ c \in CallsOn(w) /\ c.w = w
    BY DEF TypeOK, Call, CallsOn
  <1> HIDE DEF w
  <1>2. /\ w \notin disturbed => Kept(w) /\ Busy(c)
        /\ Amount[w] \in Int /\ balance \in Int /\ manual[w] \in Nat /\ refunds[w] \in Nat /\ transfer[w] \in Transfer
    BY <1>1, Amounts DEF MoneyInv, Kept, TypeOK
  <1>3. \A v \in Withdrawals : v # w => PlaceOf(v)' = PlaceOf(v)
    BY <1>1, OthersStay
  <1>4. TypeOK'
    BY TypedNext DEF Next
  <1>5. ASSUME Debit(c)
        PROVE  Abstract!Next
    <2>1. /\ Amount[w] <= balance /\ balance' = balance - Amount[w] /\ debited' = debited \cup {w}
          /\ UNCHANGED <<refunds, transfer, manual, disturbed>>
      BY <1>1, <1>5 DEF Debit, bank
    <2>2. CASE w \in disturbed
      <3>1. PlaceOf(w)' = PlaceOf(w)
        BY <1>1, <2>1, <2>2, Stays
      <3> QED BY <1>1, <1>3, <2>1, <2>2, <3>1, OneStrays
    <2>3. CASE w \notin disturbed
      <3>1. Untouched(w)
        BY <1>1, <1>2, <1>5, <2>3 DEF Debit, Busy
      <3>2. PlaceOf(w) = "wallet"
        BY <1>1, <2>3, <3>1, Places DEF Untouched
      <3>3. PlaceOf(w)' = "held"
        <4>1. w \in debited' /\ refunds'[w] = 0 /\ manual'[w] = 0 /\ transfer'[w] = "none" /\ w \notin disturbed'
          BY <2>1, <2>3, <3>1 DEF Untouched
        <4> QED BY <4>1 DEF PlaceOf, Paid
      <3>4. Abstract!Moves(w, "wallet", "held", -Amount[w])
        BY <1>1, <1>2, <1>3, <2>1, <3>2, <3>3, OneMoves
      <3> QED BY <1>1, <2>1, <3>4 DEF Abstract!Next, Abstract!Hold
    <2> QED BY <2>2, <2>3
  <1>6. ASSUME Refund(c)
        PROVE  Abstract!Next
    <2>1. /\ balance' = balance + Amount[w] /\ refunds'[w] = refunds[w] + 1
          /\ UNCHANGED <<debited, transfer, manual, disturbed>>
      BY <1>1, <1>6 DEF Refund, bank, TypeOK
    <2>2. CASE w \in disturbed
      <3>1. PlaceOf(w)' = PlaceOf(w)
        BY <1>1, <2>1, <2>2, Stays
      <3> QED BY <1>1, <1>3, <2>1, <2>2, <3>1, OneStrays
    <2>3. CASE w \notin disturbed
      <3>1. Held(w) /\ Unpaid(w)
        BY <1>1, <1>2, <1>6, <2>3 DEF Refund, Busy
      <3>2. PlaceOf(w) = "held"
        BY <1>1, <2>3, <3>1, Places DEF Unpaid
      <3>3. PlaceOf(w)' = "returned"
        <4>1. /\ w \in debited' /\ refunds'[w] = 1 /\ manual'[w] = 0 /\ transfer'[w] # "success"
              /\ w \notin disturbed'
          BY <2>1, <2>3, <3>1 DEF Held, Unpaid
        <4> QED BY <4>1 DEF PlaceOf, Paid
      <3>4. Abstract!Moves(w, "held", "returned", Amount[w])
        BY <1>1, <1>2, <1>3, <2>1, <3>2, <3>3, OneMoves
      <3> QED BY <1>1, <3>4 DEF Abstract!Next, Abstract!GiveBack
    <2> QED BY <2>2, <2>3
  <1>7. ASSUME ApproveManual(c)
        PROVE  Abstract!Next
    <2>1. /\ balance' = balance /\ manual'[w] = manual[w] + 1
          /\ UNCHANGED <<debited, refunds, transfer, disturbed>>
      BY <1>1, <1>7 DEF ApproveManual, wallet, TypeOK
    <2>2. CASE w \in disturbed
      BY <1>3, <2>1, <2>2, NoneMoves
    <2>3. CASE w \notin disturbed
      <3>1. Held(w) /\ Unpaid(w)
        BY <1>1, <1>2, <1>7, <2>3 DEF ApproveManual, Busy
      <3>2. PlaceOf(w) = "held"
        BY <1>1, <2>3, <3>1, Places DEF Unpaid
      <3>3. PlaceOf(w)' = "paid"
        <4>1. /\ w \in debited' /\ refunds'[w] = 0 /\ manual'[w] = 1 /\ transfer'[w] # "success"
              /\ w \notin disturbed'
          BY <2>1, <2>3, <3>1 DEF Held, Unpaid
        <4> QED BY <4>1 DEF PlaceOf, Paid
      <3>4. Abstract!Moves(w, "held", "paid", 0)
        BY <1>1, <1>2, <1>3, <2>1, <3>2, <3>3, OneMoves
      <3> QED BY <1>1, <3>4 DEF Abstract!Next, Abstract!Pay
    <2> QED BY <2>2, <2>3
  <1>8. ASSUME ~Debit(c), ~Refund(c), ~ApproveManual(c)
        PROVE  Abstract!Next
    <2>1. balance' = balance /\ UNCHANGED <<debited, refunds, manual>>
      BY <1>8 DEF CallStep, Insert, DebitFails, SendAccepted, SendRefused, SendSkipped, StorePayout,
           Void, RefundMissing, RefundExists, ApproveSent, ApproveFallsBack, ApproveSave,
           RejectSave, HookComplete, HookFail, wallet, bank
    <2>2. UNCHANGED transfer \/ (transfer[w] = "none" /\ transfer'[w] \in {"sent", "failed"})
      BY <1>1, <1>8 DEF CallStep, Insert, DebitFails, SendAccepted, SendRefused, SendSkipped, StorePayout,
           Void, RefundMissing, RefundExists, ApproveSent, ApproveFallsBack, ApproveSave,
           RejectSave, HookComplete, HookFail, wallet, bank, Sent, Thrown, TypeOK
    <2>3. Paid(w)' = Paid(w)
      BY <2>1, <2>2 DEF Paid
    <2>4. disturbed \subseteq disturbed'
      BY DisturbedStays DEF Next
    <2>5. ASSUME w \notin disturbed'
          PROVE  PlaceOf(w)' = PlaceOf(w)
      BY <1>1, <2>1, <2>3, <2>4, <2>5, Stays
    <2> QED BY <1>3, <2>1, <2>5, NoneMoves
  <1> QED BY <1>5, <1>6, <1>7, <1>8

\* Cashfree pays a withdrawal, or the bank sends it back.
LEMMA BankImplements ==
  ASSUME TypeOK, MoneyInv, BankStep
  PROVE  Abstract!Next
  <1> USE DEF wallet, bank
  <1>0. balance \in Int
    BY DEF TypeOK
  <1>1. ASSUME NEW w \in Withdrawals, NEW t \in {"success", "failed"}, transfer' = [transfer EXCEPT ![w] = t],
               transfer[w] = (IF t = "success" THEN "sent" ELSE "success"),
               UNCHANGED <<balance, debited, refunds, manual, disturbed>>
        PROVE  Abstract!Next
    <2>1. \A v \in Withdrawals : v # w => PlaceOf(v)' = PlaceOf(v)
      BY <1>1, Stays DEF Paid, TypeOK
    <2>2. CASE w \in disturbed
      BY <1>1, <2>1, <2>2, NoneMoves
    <2>3. CASE w \notin disturbed
      <3>1. Held(w)
        BY <1>1, <2>3, PayingHeld DEF MoneyInv, Paying
      <3>2. PlaceOf(w) = IF t = "success" THEN "held" ELSE "paid"
        BY <1>1, <2>3, <3>1, Places
      <3>3. PlaceOf(w)' = IF t = "success" THEN "paid" ELSE "held"
        <4>1. w \in debited' /\ refunds'[w] = 0 /\ manual'[w] = 0 /\ transfer'[w] = t /\ w \notin disturbed'
          BY <1>1, <2>3, <3>1 DEF Held, TypeOK
        <4> QED BY <4>1 DEF PlaceOf, Paid
      <3>4. Abstract!Moves(w, PlaceOf(w), PlaceOf(w)', 0)
        BY <1>0, <1>1, <2>1, OneMoves
      <3> QED BY <3>2, <3>3, <3>4 DEF Abstract!Next, Abstract!Pay, Abstract!Bounce
    <2> QED BY <2>2, <2>3
  <1>2. ASSUME NEW w \in Withdrawals, Settle(w, "success") \/ Reverse(w)
        PROVE  Abstract!Next
    BY <1>1, <1>2 DEF Settle, Reverse
  <1>3. ASSUME NEW w \in Withdrawals, Settle(w, "failure")
        PROVE  Abstract!Next
    <2>1. transfer[w] = "sent" /\ transfer' = [transfer EXCEPT ![w] = "failed"]
          /\ UNCHANGED <<balance, debited, refunds, manual, disturbed>>
      BY <1>3 DEF Settle
    <2>2. \A v \in Withdrawals : PlaceOf(v)' = PlaceOf(v)
      BY <2>1, Stays DEF Paid, TypeOK
    <2> QED BY <2>1, <2>2, NoneMoves
  <1>4. ASSUME NEW h \in hooks, LoseHook(h) \/ HookIgnored(h) \/ HookRead(h)
        PROVE  Abstract!Next
    <2>1. UNCHANGED <<balance, debited, refunds, manual, transfer>>
      BY <1>4 DEF LoseHook, HookIgnored, HookRead
    <2>2. disturbed \subseteq disturbed'
      BY DisturbedStays DEF Next
    <2>3. \A v \in Withdrawals \ disturbed' : PlaceOf(v)' = PlaceOf(v)
      BY <2>1, <2>2, Stays DEF Paid
    <2> QED BY <2>1, <2>3, NoneMoves
  <1> QED BY <1>2, <1>3, <1>4 DEF BankStep

LEMMA CustodyInit == Init => Abstract!Init
  <1> SUFFICES ASSUME Init PROVE Abstract!Init
    OBVIOUS
  <1>1. \A w \in Withdrawals : PlaceOf(w) = "wallet"
    BY DEF Init, PlaceOf
  <1> QED BY <1>1 DEF Init, Abstract!Init

LEMMA CustodyNext ==
  ASSUME TypeOK, MoneyInv, [Next]_vars
  PROVE  Abstract!Next \/ UNCHANGED <<balance, [w \in Withdrawals |-> PlaceOf(w)]>>
  <1>1. ASSUME NEW w \in Withdrawals, Request(w) \/ Approve(w) \/ Reject(w)
        PROVE  Abstract!Next
    <2>1. UNCHANGED <<balance, debited, refunds, manual, transfer>>
      BY <1>1 DEF Request, Approve, Reject, wallet, bank
    <2>2. \A v \in Withdrawals \ disturbed' : PlaceOf(v)' = PlaceOf(v)
      BY <2>1, DisturbedStays, Stays DEF Paid
    <2> QED BY <2>1, <2>2, NoneMoves
  <1>2. ASSUME NEW delta \in {-1, 1}, Move(delta)
        PROVE  Abstract!Next
    <2>1. balance' = balance + delta /\ UNCHANGED <<debited, refunds, manual, transfer, disturbed>>
      BY <1>2 DEF Move, bank
    <2>2. \A v \in Withdrawals : PlaceOf(v)' = PlaceOf(v)
      BY <2>1, Stays DEF Paid
    <2> QED BY <2>1, <2>2 DEF Abstract!Next, Abstract!Other
  <1>3. ASSUME Freeze \/ Crash
        PROVE  Abstract!Next
    <2>1. UNCHANGED <<balance, debited, refunds, manual, transfer>>
      BY <1>3 DEF Freeze, Crash, wallet, bank
    <2>2. \A v \in Withdrawals \ disturbed' : PlaceOf(v)' = PlaceOf(v)
      BY <2>1, DisturbedStays, Stays DEF Paid
    <2> QED BY <2>1, <2>2, NoneMoves
  <1>4. ASSUME UNCHANGED vars
        PROVE  UNCHANGED <<balance, [w \in Withdrawals |-> PlaceOf(w)]>>
    <2>1. \A w \in Withdrawals : PlaceOf(w)' = PlaceOf(w)
      BY <1>4, Stays DEF vars, wallet, bank, Paid
    <2> QED BY <1>4, <2>1 DEF vars, wallet
  <1> QED BY <1>1, <1>2, <1>3, <1>4, CallImplements, BankImplements DEF Next

\* Payouts implements Custody (WithdrawalsKept): the first state of the
\* requests, transfers and webhooks shows every amount in the wallet, and each
\* step is a step of Custody or does not show.
THEOREM ImplementsCustody == Spec => WithdrawalsKept
  <1>1. Spec => [](TypeOK /\ MoneyInv)
    BY TypedInit, TypedNext, MoneyInit, MoneyNext, PTL DEF Spec
  <1>2. TypeOK /\ MoneyInv /\ [Next]_vars => [Abstract!Next]_<<balance, [w \in Withdrawals |-> PlaceOf(w)]>>
    BY CustodyNext
  <1> QED BY <1>1, <1>2, CustodyInit, PTL DEF Spec, WithdrawalsKept, Abstract!Spec
=============================================================================
