-------------------------- MODULE SettlementProofs ---------------------------
(***************************************************************************)
(* Theorems about Payments and Settlement, for every value of their        *)
(* constants.                                                              *)
(***************************************************************************)
EXTENDS Settlement, SequenceTheorems, TLAPS

\* The bounds are numbers.
Bounds == MaxRows \in Nat /\ MaxCalls \in Nat

How == Online \cup {"wallet", "cash"}

\* The table as a sequence of rows, with a status each.
LEMMA Table ==
  ASSUME TypeOK, Bounds
  PROVE  /\ via \in Seq(How) /\ DOMAIN via = 1..Len(via) /\ Len(via) \in Nat
         /\ status \in Seq(Status) /\ Len(status) = Len(via)
         /\ \A r \in DOMAIN via : via[r] \in How /\ status[r] \in Status /\ r \in Rows
  <1>1. via \in Seq(How) /\ Len(via) <= MaxRows /\ status \in [DOMAIN via -> Status]
    BY DEF TypeOK, How
  <1>2. Len(via) \in Nat /\ DOMAIN via = 1..Len(via)
    BY <1>1, LenProperties
  <1>3. status \in Seq(Status)
    BY <1>1, <1>2, SeqDef
  <1>4. Len(status) = Len(via)
    BY <1>1, <1>2, <1>3, LenProperties
  <1>5. \A r \in DOMAIN via : via[r] \in How
    BY <1>1, <1>2, ElementOfSeq
  <1> QED BY <1>1, <1>2, <1>3, <1>4, <1>5 DEF Bounds, Rows

\* A new row is the last.
LEMMA Inserted ==
  ASSUME Bounds, TypeOK, NEW how \in How, NEW st \in Status, Insert(how, st)
  PROVE  /\ via' \in Seq(How) /\ Len(via') = Len(via) + 1 /\ Len(via') \in Rows
         /\ status' \in [DOMAIN via' -> Status]
         /\ DOMAIN via' = DOMAIN via \cup {Len(via')} /\ Len(via') \notin DOMAIN via
         /\ \A r \in DOMAIN via : via'[r] = via[r] /\ status'[r] = status[r]
         /\ via'[Len(via')] = how /\ status'[Len(via')] = st
  <1>1. via' = Append(via, how) /\ status' = Append(status, st) /\ Len(via) < MaxRows
    BY DEF Insert
  <1>2. /\ via' \in Seq(How) /\ Len(via') = Len(via) + 1
        /\ \A r \in 1..Len(via) : via'[r] = via[r]
        /\ via'[Len(via) + 1] = how
    BY <1>1, Table, AppendProperties
  <1>3. /\ status' \in Seq(Status) /\ Len(status') = Len(via) + 1
        /\ \A r \in 1..Len(via) : status'[r] = status[r]
        /\ status'[Len(via) + 1] = st
    BY <1>1, Table, AppendProperties
  <1>4. DOMAIN via' = 1..Len(via)+1 /\ status' \in [1..Len(via)+1 -> Status]
    BY <1>2, <1>3, LenProperties
  <1> QED BY <1>1, <1>2, <1>3, <1>4, Table DEF Bounds, Rows

\* A status changes.
LEMMA StatusSet ==
  ASSUME Bounds, TypeOK, NEW r \in DOMAIN via, NEW st \in Status, SetStatus(r, st)
  PROVE  /\ UNCHANGED via /\ status' \in [DOMAIN via' -> Status]
         /\ status'[r] = st /\ \A s \in DOMAIN via : s # r => status'[s] = status[s]
  BY Table DEF SetStatus, TypeOK

\* Pending online rows fail.
LEMMA Cleared ==
  ASSUME Bounds, TypeOK, UNCHANGED via,
         status' = [r \in DOMAIN via |-> IF r \in PendingOnline THEN "failed" ELSE status[r]]
  PROVE  /\ status' \in [DOMAIN via' -> Status]
         /\ \A r \in DOMAIN via : IF r \in PendingOnline THEN status'[r] = "failed" ELSE status'[r] = status[r]
  BY Table DEF Status

-----------------------------------------------------------------------------
(***************************************************************************)
(* Type correctness.                                                       *)
(***************************************************************************)

LEMMA TypedInit == Bounds /\ Init => TypeOK
  <1> SUFFICES ASSUME Bounds, Init PROVE TypeOK
    OBVIOUS
  <1>1. via \in Seq(How) /\ Len(via) = 0 /\ DOMAIN via = {}
    BY EmptySeq, LenProperties DEF Init
  <1>2. status \in [DOMAIN via -> Status]
    BY <1>1, EmptySeq, LenProperties, SeqDef DEF Init
  <1>3. Len(via) <= MaxRows /\ credited \in [Rows -> Nat]
    BY <1>1 DEF Init, Bounds
  <1> QED BY <1>1, <1>2, <1>3 DEF Init, TypeOK, How

\* How the calls change: one starts, goes on, or returns.
LEMMA Started ==
  ASSUME TypeOK, NEW op \in Op, NEW r \in Rows \cup {0}, Start(op, r)
  PROVE  calls' \subseteq Call /\ \E e \in Call : calls' = calls \cup {e} /\ e.op = op /\ e.r = r
  <1>1. PICK n \in 1..MaxCalls : calls' = calls \cup {[op |-> op, r |-> r, n |-> n]}
    BY DEF Start
  <1>2. [op |-> op, r |-> r, n |-> n] \in Call
    BY DEF Call
  <1> QED BY <1>1, <1>2 DEF TypeOK

LEMMA Continued ==
  ASSUME TypeOK, NEW c \in calls, NEW op \in Op, Continue(c, op)
  PROVE  /\ calls' \subseteq Call
         /\ \E e \in Call : calls' = (calls \ {c}) \cup {e} /\ e.op = op /\ e.r = c.r
  <1> DEFINE e == [c EXCEPT !.op = op]
  <1>1. e \in Call /\ e.op = op /\ e.r = c.r
    BY DEF TypeOK, Call
  <1>2. calls' = (calls \ {c}) \cup {e}
    BY DEF Continue
  <1> QED BY <1>1, <1>2 DEF TypeOK

LEMMA Returns ==
  ASSUME TypeOK, NEW c \in calls, Return(c)
  PROVE  calls' \subseteq Call
  BY DEF TypeOK, Return

\* What a step leaves of the types: it gives the calls and the table theirs,
\* and does not touch the rest.
LEMMA TypedRest ==
  ASSUME TypeOK, calls' \subseteq Call,
         via' \in Seq(How) /\ Len(via') <= MaxRows /\ status' \in [DOMAIN via' -> Status],
         UNCHANGED <<trip, paid, credited, crashes, earned, charged, disturbed>>
  PROVE  TypeOK'
  BY DEF TypeOK, How

LEMMA TypedPayments ==
  ASSUME Bounds, TypeOK, PaymentStep, UNCHANGED <<ledger, disturbed>>
  PROVE  TypeOK'
  <1> USE DEF payments, ledger
  <1>0. /\ via \in Seq(How) /\ Len(via) <= MaxRows /\ status \in [DOMAIN via -> Status]
        /\ UNCHANGED payments => via' \in Seq(How) /\ Len(via') <= MaxRows /\ status' \in [DOMAIN via' -> Status]
    BY DEF TypeOK, How
  <1>1. ASSUME NEW op \in {"hdfc", "checkout"}, Initiate(op)
        PROVE  TypeOK'
    <2>1. calls' \subseteq Call
      BY <1>1, Started DEF Initiate, Op
    <2> QED BY <1>0, <1>1, <2>1, TypedRest DEF Initiate
  <1>2. ASSUME RequestLink
        PROVE  TypeOK'
    <2>1. calls' \subseteq Call
      BY <1>2, Started DEF RequestLink, Op
    <2> QED BY <1>0, <1>2, <2>1, TypedRest DEF RequestLink
  <1>3. ASSUME InitiateWallet
        PROVE  TypeOK'
    <2>1. via' \in Seq(How) /\ Len(via') <= MaxRows /\ status' \in [DOMAIN via' -> Status]
      BY <1>3, Inserted DEF InitiateWallet, How, Status, Rows
    <2> QED BY <1>3, <2>1, TypedRest DEF InitiateWallet, TypeOK
  <1>4. ASSUME Polled
        PROVE  TypeOK'
    <2>1. Latest \in Rows
      BY <1>4, Table DEF Polled, LatestIsPaid, Latest, TypeOK, Rows
    <2>2. calls' \subseteq Call
      BY <1>4, <2>1, Started DEF Polled, Op
    <2> QED BY <1>0, <1>4, <2>2, TypedRest DEF Polled
  <1>5. ASSUME NEW r \in Rows, Pay(r)
        PROVE  TypeOK'
    BY <1>5 DEF Pay, TypeOK
  <1>6. ASSUME NEW r \in Rows, Succeeded(r) \/ Returned(r)
        PROVE  TypeOK'
    <2>1. calls' \subseteq Call
      BY <1>6, Started DEF Succeeded, Returned, Op
    <2> QED BY <1>0, <1>6, <2>1, TypedRest DEF Succeeded, Returned
  <1>7. ASSUME NEW r \in Rows, Failed(r)
        PROVE  TypeOK'
    <2>1. via' \in Seq(How) /\ Len(via') <= MaxRows /\ status' \in [DOMAIN via' -> Status]
      BY <1>0, <1>7, StatusSet DEF Failed, HasRow, Status
    <2> QED BY <1>7, <2>1, TypedRest DEF Failed, TypeOK
  <1>8. ASSUME NEW r \in Rows, WalletConfirmed(r)
        PROVE  TypeOK'
    <2>1. CASE UNCHANGED <<payments, credited>>
      BY <1>0, <1>8, <2>1, TypedRest DEF WalletConfirmed, TypeOK
    <2>2. CASE credited' = [credited EXCEPT ![r] = @ + 1] /\ SetStatus(r, "completed")
      <3>1. credited' \in [Rows -> Nat]
        BY <2>2 DEF TypeOK
      <3>2. via' \in Seq(How) /\ Len(via') <= MaxRows /\ status' \in [DOMAIN via' -> Status]
        BY <1>0, <2>2 DEF SetStatus, Status
      <3> QED BY <1>8, <3>1, <3>2 DEF WalletConfirmed, TypeOK, How
    <2> QED BY <1>8, <2>1, <2>2 DEF WalletConfirmed, CreditWallet
  <1>9. ASSUME NEW c \in calls, SaveOrder(c)
        PROVE  TypeOK'
    <2>1. via' \in Seq(How) /\ Len(via') <= MaxRows /\ status' \in [DOMAIN via' -> Status]
      BY <1>9, Inserted DEF SaveOrder, How, Online, Status, Rows
    <2> QED BY <1>9, <2>1, Returns, TypedRest DEF SaveOrder
  <1>10. ASSUME NEW c \in calls, LinkReconciled(c)
         PROVE  TypeOK'
    <2> DEFINE e == [c EXCEPT !.op = "mark", !.r = Latest]
    <2>1. Latest \in Rows
      BY <1>10, Table DEF LinkReconciled, LatestIsPaid, Latest, TypeOK, Rows
    <2>2. c \in Call /\ e \in Call
      BY <2>1 DEF TypeOK, Call, Op
    <2>3. calls' \subseteq Call
      BY <1>10, <2>2 DEF LinkReconciled, TypeOK
    <2> QED BY <1>0, <1>10, <2>3, TypedRest DEF LinkReconciled
  <1>11. ASSUME NEW c \in calls, NotReconciled(c)
         PROVE  TypeOK'
    <2>1. calls' \subseteq Call
      BY <1>11, Continued, Returns DEF NotReconciled, Op
    <2> QED BY <1>0, <1>11, <2>1, TypedRest DEF NotReconciled
  <1>12. ASSUME NEW c \in calls, Supersede(c)
         PROVE  TypeOK'
    <2>1. calls' \subseteq Call
      BY <1>12, Continued DEF Supersede, Op
    <2> QED BY <1>0, <1>12, <2>1, Cleared, TypedRest DEF Supersede
  <1>13. ASSUME NEW c \in calls, MintLink(c)
         PROVE  TypeOK'
    <2>1. via' \in Seq(How) /\ Len(via') <= MaxRows /\ status' \in [DOMAIN via' -> Status]
      BY <1>0, <1>13, Inserted DEF MintLink, How, Online, Status, Rows
    <2> QED BY <1>13, <2>1, Returns, TypedRest DEF MintLink
  <1>14. ASSUME NEW c \in calls, Mark(c)
         PROVE  TypeOK'
    <2>1. via' \in Seq(How) /\ Len(via') <= MaxRows /\ status' \in [DOMAIN via' -> Status]
      BY <1>0, <1>14 DEF Mark, SetStatus, Status
    <2> QED BY <1>14, <2>1, Returns, TypedRest DEF Mark
  <1> QED BY <1>1, <1>2, <1>3, <1>4, <1>5, <1>6, <1>7, <1>8, <1>9, <1>10, <1>11, <1>12, <1>13, <1>14
          DEF PaymentStep, PaymentCallStep

LEMMA TypedNext == Bounds /\ TypeOK /\ [Next]_vars => TypeOK'
  <1> SUFFICES ASSUME Bounds, TypeOK, [Next]_vars PROVE TypeOK'
    OBVIOUS
  <1> USE DEF payments, ledger
  <1>0. /\ via \in Seq(How) /\ Len(via) <= MaxRows /\ status \in [DOMAIN via -> Status]
        /\ UNCHANGED payments => via' \in Seq(How) /\ Len(via') <= MaxRows /\ status' \in [DOMAIN via' -> Status]
    BY DEF TypeOK, How
  <1>1. ASSUME NEW how \in Ways, Complete(how)
        PROVE  TypeOK'
    <2>1. calls' \subseteq Call
      BY <1>1, Started DEF Complete, Ways, Op
    <2>2. disturbed' \in BOOLEAN
      BY <1>1 DEF Complete, TypeOK
    <2> QED BY <1>1, <2>1, <2>2 DEF Complete, TypeOK
  <1>2. ASSUME NEW c \in calls, SaveTrip(c)
        PROVE  TypeOK'
    <2>1. calls' \subseteq Call
      BY <1>2, Continued DEF SaveTrip, Op
    <2> QED BY <1>2, <2>1 DEF SaveTrip, TypeOK
  <1>3. ASSUME NEW c \in calls, Settle(c) \/ CheckEntry(c)
        PROVE  TypeOK'
    <2>1. calls' \subseteq Call
      BY <1>3, Continued, Returns DEF Settle, CheckEntry, Op
    <2> QED BY <1>0, <1>3, <2>1, TypedRest DEF Settle, CheckEntry
  <1>4. ASSUME NEW c \in calls, DeductCommission(c)
        PROVE  TypeOK'
    <2>1. calls' \subseteq Call
      BY <1>4, Continued, Returns DEF DeductCommission, Op
    <2> QED BY <1>4, <2>1 DEF DeductCommission, TypeOK
  <1>5. ASSUME NEW c \in calls, CreditEarnings(c)
        PROVE  TypeOK'
    BY <1>5, Returns DEF CreditEarnings, TypeOK
  <1>6. ASSUME NEW c \in calls, CashRow(c)
        PROVE  TypeOK'
    <2>1. calls' \subseteq Call
      BY <1>6, Continued DEF CashRow, Op
    <2>2. via' \in Seq(How) /\ Len(via') <= MaxRows /\ status' \in [DOMAIN via' -> Status]
      BY <1>6, Inserted DEF CashRow, How, Status, Rows
    <2> QED BY <1>6, <2>1, <2>2, TypedRest DEF CashRow
  <1>7. ASSUME NEW c \in calls, ClearPending(c)
        PROVE  TypeOK'
    BY <1>0, <1>7, Cleared, Returns, TypedRest DEF ClearPending
  <1>8. ASSUME RecordCash
        PROVE  TypeOK'
    <2>1. via' \in Seq(How) /\ Len(via') <= MaxRows /\ status' \in [DOMAIN via' -> Status]
      BY <1>8, Inserted DEF RecordCash, How, Status, Rows
    <2> QED BY <1>8, <2>1, TypedRest DEF RecordCash, TypeOK
  <1>9. ASSUME CancelTrip \/ Crash \/ UNCHANGED vars
        PROVE  TypeOK'
    <2>1. via' = via /\ status' = status
      BY <1>9 DEF CancelTrip, Crash, vars
    <2>2. paid' = paid /\ credited' = credited /\ earned' = earned /\ charged' = charged
      BY <1>9 DEF CancelTrip, Crash, vars
    <2>3. trip' \in {"ongoing", "completed", "cancelled"} /\ calls' \subseteq Call /\ crashes' \in Nat
      BY <1>9 DEF CancelTrip, Crash, vars, TypeOK
    <2>4. disturbed' \in BOOLEAN
      BY <1>9 DEF CancelTrip, Crash, vars, TypeOK
    <2> QED BY <2>1, <2>2, <2>3, <2>4 DEF TypeOK
  <1>10. ASSUME PaymentStep /\ UNCHANGED <<ledger, disturbed>>
         PROVE  TypeOK'
    BY <1>10, TypedPayments
  <1> QED BY <1>1, <1>2, <1>3, <1>4, <1>5, <1>6, <1>7, <1>8, <1>9, <1>10 DEF Next, CompletionStep

\* Every variable has its type in every reachable state (TypeOK).
THEOREM TypeCorrect == ASSUME Bounds PROVE Spec => []TypeOK
  BY TypedInit, TypedNext, PTL DEF Spec

-----------------------------------------------------------------------------
(***************************************************************************)
(* Completed rows are paid.                                                *)
(***************************************************************************)

\* A completed row is cash or paid; a credited one is paid and no longer
\* pending, and its credit the only one.
RowsInv ==
  /\ paid \subseteq DOMAIN via
  /\ \A r \in DOMAIN via : status[r] = "completed" /\ via[r] # "cash" => r \in paid
  /\ \A r \in Rows : credited[r] = 0 \/ (credited[r] = 1 /\ r \in paid /\ status[r] # "pending")
\* A call about to complete a row has seen it paid.
MarkInv == \A c \in calls : c.op = "mark" => c.r \in paid
PaidInv == RowsInv /\ MarkInv

\* What may happen to the table: a row is added, completed only if it is cash,
\* one fails, or is completed if it is paid, or the pending ones fail.
TableStep ==
  \/ UNCHANGED payments
  \/ \E how \in How, st \in {"pending", "completed"} : Insert(how, st) /\ (st = "completed" => how = "cash")
  \/ \E r \in DOMAIN via : SetStatus(r, "failed")
  \/ \E r \in paid : SetStatus(r, "completed")
  \/ UNCHANGED via /\ status' = [r \in DOMAIN via |-> IF r \in PendingOnline THEN "failed" ELSE status[r]]

LEMMA RowsNext ==
  ASSUME Bounds, TypeOK, RowsInv, TableStep, UNCHANGED credited,
         paid \subseteq paid', paid' \subseteq DOMAIN via
  PROVE  RowsInv'
  <1>0. \A r \in Rows : credited[r] \in Nat
    BY DEF TypeOK
  <1>1. CASE UNCHANGED payments
    BY <1>1 DEF payments, RowsInv
  <1>2. ASSUME NEW how \in How, NEW st \in {"pending", "completed"}, Insert(how, st), st = "completed" => how = "cash"
        PROVE  RowsInv'
    <2>1. /\ DOMAIN via' = DOMAIN via \cup {Len(via')} /\ Len(via') \notin DOMAIN via
          /\ \A r \in DOMAIN via : via'[r] = via[r] /\ status'[r] = status[r]
          /\ via'[Len(via')] = how /\ status'[Len(via')] = st
      BY <1>2, Inserted DEF Status
    <2>2. \A r \in paid : status'[r] = status[r]
      BY <2>1 DEF RowsInv
    <2> QED BY <1>2, <2>1, <2>2 DEF RowsInv
  <1>3. ASSUME NEW r \in DOMAIN via, NEW st \in {"completed", "failed"}, SetStatus(r, st),
               st = "completed" => r \in paid
        PROVE  RowsInv'
    <2>1. /\ UNCHANGED via /\ status'[r] = st
          /\ \A s \in DOMAIN via : s # r => status'[s] = status[s]
      BY <1>3, StatusSet DEF Status
    <2> QED BY <1>3, <2>1 DEF RowsInv
  <1>4. ASSUME UNCHANGED via,
               status' = [r \in DOMAIN via |-> IF r \in PendingOnline THEN "failed" ELSE status[r]]
        PROVE  RowsInv'
    <2>1. \A r \in DOMAIN via : status'[r] = "failed" \/ status'[r] = status[r]
      BY <1>4, Cleared
    <2> QED BY <1>4, <2>1 DEF RowsInv
  <1> QED BY <1>1, <1>2, <1>3, <1>4 DEF TableStep, RowsInv

LEMMA TableNext ==
  ASSUME TypeOK, PaidInv, [Next]_vars
  PROVE  \/ \E r \in Rows : WalletConfirmed(r)
         \/ TableStep /\ UNCHANGED credited /\ paid \subseteq paid' /\ paid' \subseteq DOMAIN via
  <1> USE DEF TableStep
  <1>0. paid \subseteq DOMAIN via
    BY DEF PaidInv, RowsInv
  <1>1. ASSUME PaymentStep
        PROVE  \/ \E r \in Rows : WalletConfirmed(r)
               \/ TableStep /\ UNCHANGED credited /\ paid \subseteq paid' /\ paid' \subseteq DOMAIN via
    <2>1. ASSUME \/ \E op \in {"hdfc", "checkout"} : Initiate(op)
                 \/ RequestLink \/ InitiateWallet \/ Polled
          PROVE  TableStep /\ UNCHANGED <<credited, paid>>
      BY <2>1 DEF Initiate, RequestLink, InitiateWallet, Polled, How
    <2>2. ASSUME NEW r \in Rows, Succeeded(r) \/ Failed(r) \/ Returned(r)
          PROVE  TableStep /\ UNCHANGED <<credited, paid>>
      BY <2>2 DEF Succeeded, Failed, Returned, HasRow
    <2>3. ASSUME NEW r \in Rows, Pay(r)
          PROVE  TableStep /\ UNCHANGED credited /\ paid \subseteq paid' /\ paid' \subseteq DOMAIN via
      BY <1>0, <2>3 DEF Pay, HasRow
    <2>4. ASSUME NEW c \in calls, PaymentCallStep(c)
          PROVE  TableStep /\ UNCHANGED <<credited, paid>>
      <3>1. ASSUME Mark(c)
            PROVE  TableStep /\ UNCHANGED <<credited, paid>>
        BY <3>1 DEF Mark, PaidInv, MarkInv
      <3>2. ASSUME SaveOrder(c) \/ MintLink(c)
            PROVE  TableStep /\ UNCHANGED <<credited, paid>>
        BY <3>2 DEF SaveOrder, MintLink, How, Online
      <3> QED BY <2>4, <3>1, <3>2 DEF PaymentCallStep, LinkReconciled, NotReconciled, Supersede
    <2> QED BY <1>0, <1>1, <2>1, <2>2, <2>3, <2>4 DEF PaymentStep
  <1>2. ASSUME NEW c \in calls, CompletionStep(c)
        PROVE  TableStep /\ UNCHANGED <<credited, paid>>
    <2>1. ASSUME CashRow(c)
          PROVE  TableStep /\ UNCHANGED <<credited, paid>>
      BY <2>1 DEF CashRow, How
    <2> QED BY <1>2, <2>1 DEF CompletionStep, SaveTrip, Settle, CheckEntry, DeductCommission, CreditEarnings,
                  ClearPending
  <1>3. ASSUME RecordCash \/ (\E how \in Ways : Complete(how)) \/ CancelTrip \/ Crash
               \/ UNCHANGED vars
        PROVE  TableStep /\ UNCHANGED <<credited, paid>>
    BY <1>3 DEF RecordCash, Complete, CancelTrip, Crash, vars, How, payments
  <1> QED BY <1>0, <1>1, <1>2, <1>3 DEF Next

\* A call to complete a row starts, or turns to it, when the row is paid.
LEMMA MarkNext ==
  ASSUME TypeOK, PaidInv, [Next]_vars
  PROVE  MarkInv'
  <1> USE DEF MarkInv
  <1>0. MarkInv
    BY DEF PaidInv
  <1>1. ASSUME NEW op \in Op, NEW r \in Rows \cup {0}, Start(op, r), op = "mark" => r \in paid, UNCHANGED paid
        PROVE  MarkInv'
    BY <1>0, <1>1, Started
  <1>2. ASSUME NEW c \in calls, NEW op \in Op \ {"mark"}, Continue(c, op), UNCHANGED paid
        PROVE  MarkInv'
    BY <1>0, <1>2, Continued
  <1>3. ASSUME calls' \subseteq calls, paid \subseteq paid'
        PROVE  MarkInv'
    BY <1>0, <1>3
  <1>4. ASSUME NEW op \in {"hdfc", "checkout"}, Initiate(op)
        PROVE  MarkInv'
    BY <1>1, <1>4 DEF Initiate, Op
  <1>5. ASSUME RequestLink
        PROVE  MarkInv'
    BY <1>1, <1>5 DEF RequestLink, Op
  <1>6. ASSUME Polled
        PROVE  MarkInv'
    <2>1. Latest \in paid /\ Latest \in Rows
      BY <1>6 DEF Polled, LatestIsPaid, TypeOK
    <2> QED BY <1>1, <1>6, <2>1 DEF Polled, Op
  <1>7. ASSUME NEW r \in Rows, Succeeded(r) \/ Returned(r)
        PROVE  MarkInv'
    BY <1>1, <1>7 DEF Succeeded, Returned, Op
  <1>8. ASSUME InitiateWallet \/ \E r \in Rows : Pay(r) \/ Failed(r) \/ WalletConfirmed(r)
        PROVE  MarkInv'
    BY <1>3, <1>8 DEF InitiateWallet, Pay, Failed, WalletConfirmed
  <1>9. ASSUME NEW c \in calls, LinkReconciled(c)
        PROVE  MarkInv'
    <2> DEFINE e == [c EXCEPT !.op = "mark", !.r = Latest]
    <2>1. e.r = Latest
      BY DEF TypeOK, Call
    <2>2. Latest \in paid /\ calls' = (calls \ {c}) \cup {e} /\ UNCHANGED paid
      BY <1>9 DEF LinkReconciled, LatestIsPaid
    <2> HIDE DEF e
    <2> QED BY <1>0, <2>1, <2>2
  <1>10. ASSUME NEW c \in calls, SaveOrder(c) \/ MintLink(c) \/ Mark(c)
         PROVE  MarkInv'
    BY <1>3, <1>10 DEF SaveOrder, MintLink, Mark, Return
  <1>11. ASSUME NEW c \in calls, NotReconciled(c) \/ Supersede(c)
         PROVE  MarkInv'
    BY <1>2, <1>3, <1>11 DEF NotReconciled, Supersede, Return, Op
  <1>12. ASSUME NEW how \in Ways, Complete(how)
         PROVE  MarkInv'
    BY <1>1, <1>12 DEF Complete, Ways, Op
  <1>13. ASSUME NEW c \in calls, CompletionStep(c)
         PROVE  MarkInv'
    BY <1>2, <1>3, <1>13 DEF CompletionStep, SaveTrip, Settle, CheckEntry, DeductCommission, CreditEarnings,
                             CashRow, ClearPending, Return, Op
  <1>14. ASSUME RecordCash \/ CancelTrip \/ Crash \/ UNCHANGED vars
         PROVE  MarkInv'
    BY <1>3, <1>14 DEF RecordCash, CancelTrip, Crash, vars
  <1> QED BY <1>4, <1>5, <1>6, <1>7, <1>8, <1>9, <1>10, <1>11, <1>12, <1>13, <1>14
          DEF Next, PaymentStep, PaymentCallStep

LEMMA PaidInit == Bounds /\ Init => PaidInv
  <1> SUFFICES ASSUME Bounds, Init PROVE PaidInv
    OBVIOUS
  <1>1. DOMAIN via = {}
    BY EmptySeq, LenProperties DEF Init
  <1> QED BY <1>1 DEF Init, PaidInv, RowsInv, MarkInv

LEMMA PaidNext == Bounds /\ TypeOK /\ PaidInv /\ [Next]_vars => PaidInv'
  <1> SUFFICES ASSUME Bounds, TypeOK, PaidInv, [Next]_vars PROVE PaidInv'
    OBVIOUS
  <1>1. RowsInv
    BY DEF PaidInv
  <1>2. ASSUME NEW r \in Rows, WalletConfirmed(r)
        PROVE  RowsInv'
    <2>1. CASE UNCHANGED <<payments, credited>>
      BY <1>1, <1>2, <2>1 DEF WalletConfirmed, RowsInv, payments
    <2>2. CASE status[r] = "pending" /\ credited' = [credited EXCEPT ![r] = @ + 1] /\ SetStatus(r, "completed")
      <3>1. r \in paid /\ r \in DOMAIN via /\ paid' = paid
        BY <1>1, <1>2 DEF WalletConfirmed, RowsInv
      <3>2. /\ UNCHANGED via /\ status'[r] = "completed"
            /\ \A s \in DOMAIN via : s # r => status'[s] = status[s]
        BY <2>2, <3>1, StatusSet DEF Status
      <3>3. credited[r] = 0
        BY <1>1, <2>2 DEF RowsInv
      <3>4. credited'[r] = 1 /\ \A s \in Rows : s # r => credited'[s] = credited[s]
        BY <2>2, <3>3 DEF TypeOK
      <3> QED BY <1>1, <3>1, <3>2, <3>4 DEF RowsInv
    <2> QED BY <1>2, <2>1, <2>2 DEF WalletConfirmed, CreditWallet
  <1>3. \/ TableStep /\ UNCHANGED credited /\ paid \subseteq paid' /\ paid' \subseteq DOMAIN via
        \/ \E r \in Rows : WalletConfirmed(r)
    BY TableNext
  <1> QED BY <1>1, <1>2, <1>3, RowsNext, MarkNext DEF PaidInv

\* A completed row was paid, and a wallet top-up credited at most once
\* (CompletedWasPaid), whatever the gateways say how often and when.
THEOREM CompletedPaid == ASSUME Bounds PROVE Spec => []CompletedWasPaid
  <1>1. Bounds /\ TypeOK /\ PaidInv => CompletedWasPaid
    <2> SUFFICES ASSUME Bounds, TypeOK, PaidInv, NEW r \in DOMAIN via
                 PROVE  /\ Completed(r) /\ via[r] # "cash" => r \in paid
                        /\ credited[r] <= (IF r \in paid THEN 1 ELSE 0)
      BY DEF CompletedWasPaid
    <2>1. r \in Rows
      BY Table
    <2> QED BY <2>1 DEF PaidInv, RowsInv, Completed
  <1>2. Spec => [](TypeOK /\ PaidInv)
    BY TypedInit, TypedNext, PaidInit, PaidNext, PTL DEF Spec
  <1> QED BY <1>1, <1>2, PTL

-----------------------------------------------------------------------------
(***************************************************************************)
(* The driver is settled with once.                                        *)
(***************************************************************************)

PaidOnline == (\E r \in paid : ForBooking(r)) \/ \E r \in DOMAIN via : via[r] = "cash"
Unsettled == earned = 0 /\ charged = 0

\* What a completion under way has done.
Stage(c) ==
  /\ c.op \in Ways => Unsettled
  /\ c.op \in {"settle", "commission", "commission_offer", "deduct", "deduct_offer", "earnings", "credit"} => Unsettled /\ trip = "completed"
  /\ c.op \in {"cash_row", "clear"} => earned = 0 /\ charged = 1 /\ trip = "completed"
SettledInv ==
  ~disturbed =>
    /\ \A c, d \in Completing : c = d
    /\ \A c \in Completing : Stage(c)
    /\ Completing = {} /\ trip # "completed" => Unsettled
    /\ Completing = {} /\ trip = "completed" => earned + charged = 1 \/ (Unsettled /\ PaidOnline)

LEMMA SettledInit == Init => SettledInv
  BY DEF Init, SettledInv, Completing, Unsettled

\* What was paid stays paid.
LEMMA PaidOnlineStays ==
  ASSUME Bounds, TypeOK, PaidInv, [Next]_vars, PaidOnline
  PROVE  PaidOnline'
  <1>1. paid \subseteq DOMAIN via
    BY DEF PaidInv, RowsInv
  <1>2. ASSUME NEW r \in Rows, WalletConfirmed(r)
        PROVE  PaidOnline'
    <2>1. UNCHANGED <<via, paid>>
      BY <1>2 DEF WalletConfirmed, CreditWallet, SetStatus, payments
    <2> QED BY <2>1 DEF PaidOnline, ForBooking
  <1>3. ASSUME TableStep, paid \subseteq paid'
        PROVE  PaidOnline'
    <2>1. \A r \in DOMAIN via : r \in DOMAIN via' /\ via'[r] = via[r]
      <3>1. ASSUME NEW how \in How, NEW st \in {"pending", "completed"}, Insert(how, st)
            PROVE  \A r \in DOMAIN via : r \in DOMAIN via' /\ via'[r] = via[r]
        BY <3>1, Inserted DEF Status
      <3> QED BY <1>3, <3>1 DEF TableStep, SetStatus, payments
    <2> QED BY <1>1, <1>3, <2>1 DEF PaidOnline, ForBooking
  <1> QED BY <1>2, <1>3, TableNext

\* The calls of the gateways are not completions.
LEMMA PaymentsSettled ==
  ASSUME Bounds, TypeOK, PaidInv, SettledInv, PaymentStep, UNCHANGED <<ledger, disturbed>>
  PROVE  SettledInv'
  <1>1. ASSUME NEW op \in Op \ Completion, NEW r \in Rows \cup {0}, Start(op, r)
        PROVE  Completing' = Completing
    BY <1>1, Started DEF Completing
  <1>2. ASSUME NEW c \in calls, NEW op \in Op \ Completion, c.op \notin Completion, Continue(c, op)
        PROVE  Completing' = Completing
    BY <1>2, Continued DEF Completing
  <1>3. ASSUME NEW c \in calls, c.op \notin Completion, Return(c)
        PROVE  Completing' = Completing
    BY <1>3 DEF Completing, Return
  <1>4. ASSUME UNCHANGED calls
        PROVE  Completing' = Completing
    BY <1>4 DEF Completing
  <1>5. ASSUME NEW op \in {"hdfc", "checkout"}, Initiate(op)
        PROVE  Completing' = Completing
    BY <1>1, <1>5 DEF Initiate, Op, Completion, Ways
  <1>6. ASSUME RequestLink
        PROVE  Completing' = Completing
    BY <1>1, <1>6 DEF RequestLink, Op, Completion, Ways
  <1>7. ASSUME Polled
        PROVE  Completing' = Completing
    <2>1. Latest \in Rows
      BY <1>7, Table DEF Polled, LatestIsPaid, Latest, TypeOK, Rows
    <2> QED BY <1>1, <1>7, <2>1 DEF Polled, Op, Completion, Ways
  <1>8. ASSUME NEW r \in Rows, Succeeded(r) \/ Returned(r)
        PROVE  Completing' = Completing
    BY <1>1, <1>8 DEF Succeeded, Returned, Op, Completion, Ways
  <1>9. ASSUME InitiateWallet \/ \E r \in Rows : Pay(r) \/ Failed(r) \/ WalletConfirmed(r)
        PROVE  Completing' = Completing
    BY <1>4, <1>9 DEF InitiateWallet, Pay, Failed, WalletConfirmed
  <1>10. ASSUME NEW c \in calls, LinkReconciled(c)
         PROVE  Completing' = Completing
    <2> DEFINE e == [c EXCEPT !.op = "mark", !.r = Latest]
    <2>1. e.op = "mark"
      BY DEF TypeOK, Call
    <2>2. c.op = "qr" /\ calls' = (calls \ {c}) \cup {e}
      BY <1>10 DEF LinkReconciled
    <2> HIDE DEF e
    <2> QED BY <2>1, <2>2 DEF Completing, Completion, Ways
  <1>11. ASSUME NEW c \in calls, SaveOrder(c) \/ MintLink(c) \/ Mark(c)
         PROVE  Completing' = Completing
    BY <1>3, <1>11 DEF SaveOrder, MintLink, Mark, Completion, Ways
  <1>12. ASSUME NEW c \in calls, NotReconciled(c) \/ Supersede(c)
         PROVE  Completing' = Completing
    BY <1>2, <1>3, <1>12 DEF NotReconciled, Supersede, Op, Completion, Ways
  <1>13. Completing' = Completing
    BY <1>5, <1>6, <1>7, <1>8, <1>9, <1>10, <1>11, <1>12 DEF PaymentStep, PaymentCallStep
  <1>14. trip' = trip /\ earned' = earned /\ charged' = charged /\ disturbed' = disturbed
    BY DEF ledger, PaymentStep, PaymentCallStep, Initiate, RequestLink, InitiateWallet, Polled, Pay, Succeeded, Failed,
           Returned, WalletConfirmed, SaveOrder, LinkReconciled, NotReconciled, Supersede, MintLink, Mark
  <1>15. PaidOnline => PaidOnline'
    BY PaidOnlineStays DEF Next
  <1> QED BY <1>13, <1>14, <1>15 DEF SettledInv, Stage, Unsettled

LEMMA SettledNext == Bounds /\ TypeOK /\ PaidInv /\ SettledInv /\ [Next]_vars => SettledInv'
  <1> SUFFICES ASSUME Bounds, TypeOK, PaidInv, SettledInv, [Next]_vars, ~disturbed'
               PROVE  SettledInv'
    BY DEF SettledInv
  <1> USE DEF payments, ledger
  <1>0. PaidOnline => PaidOnline'
    BY PaidOnlineStays
  <1>1. ASSUME PaymentStep, UNCHANGED <<ledger, disturbed>>
        PROVE  SettledInv'
    BY <1>1, PaymentsSettled
  <1>2. ASSUME NEW how \in Ways, Complete(how)
        PROVE  SettledInv'
    <2>1. ~disturbed /\ Completing = {} /\ trip = "ongoing" /\ UNCHANGED <<trip, earned, charged>>
      BY <1>2 DEF Complete
    <2>2. \E e : Completing' = {e} /\ e.op = how
      BY <1>2, <2>1, Started DEF Complete, Completing, Completion, Ways, Op
    <2>3. Unsettled'
      BY <2>1 DEF SettledInv, Unsettled
    <2> QED BY <2>2, <2>3 DEF SettledInv, Stage, Ways
  <1>3. ASSUME NEW c \in calls, CompletionStep(c)
        PROVE  SettledInv'
    <2>1. ~disturbed /\ c \in Completing /\ c.op \in Completion
      BY <1>3 DEF CompletionStep, SaveTrip, Settle, CheckEntry, DeductCommission, CreditEarnings, CashRow, ClearPending,
                  Completing, Completion, Ways
    <2>2. Stage(c) /\ Completing = {c}
      BY <2>1 DEF SettledInv
    <2>3. ASSUME NEW op \in Completion, Continue(c, op),
                 \A e : e.op = op => Stage(e)'
          PROVE  SettledInv'
      <3>1. PICK e \in Call : calls' = (calls \ {c}) \cup {e} /\ e.op = op /\ e.r = c.r
        BY <2>3, Continued DEF Completion, Ways, Op
      <3>2. Completing' = {e}
        BY <2>2, <3>1 DEF Completing
      <3> QED BY <2>3, <3>1, <3>2 DEF SettledInv
    <2>4. ASSUME Return(c), trip' = "completed", earned' + charged' = 1 \/ (Unsettled' /\ PaidOnline')
          PROVE  SettledInv'
      <3>1. Completing' = {}
        BY <2>2, <2>4 DEF Completing, Return
      <3> QED BY <2>4, <3>1 DEF SettledInv
    <2>5. ASSUME SaveTrip(c)
          PROVE  SettledInv'
      <3>1. ASSUME NEW op \in {"settle", "commission_offer", "earnings"}
            PROVE  \A e : e.op = op => Stage(e)'
        BY <2>2, <2>5 DEF SaveTrip, Stage, Unsettled, Ways
      <3> QED BY <2>3, <2>5, <3>1 DEF SaveTrip, Completion
    <2>6. ASSUME Settle(c)
          PROVE  SettledInv'
      <3>1. Unsettled /\ trip = "completed" /\ UNCHANGED <<trip, earned, charged, via, paid>>
        BY <2>2, <2>6 DEF Settle, Stage
      <3>2. CASE BookingPaid
        <4>1. PaidOnline
          BY <3>2 DEF BookingPaid, ForBooking, Completed, HasRow, PaidOnline, PaidInv, RowsInv
        <4> QED BY <1>0, <2>4, <2>6, <3>1, <3>2, <4>1 DEF Settle, Unsettled
      <3>3. CASE ~BookingPaid
        <4>1. \A e : e.op = "commission" => Stage(e)'
          BY <3>1 DEF Stage, Unsettled, Ways
        <4> QED BY <2>3, <2>6, <3>3, <4>1 DEF Settle, Completion
      <3> QED BY <3>2, <3>3
    <2>7. ASSUME CheckEntry(c)
          PROVE  SettledInv'
      <3>1. Unsettled /\ trip = "completed" /\ UNCHANGED <<trip, earned, charged>>
        BY <2>2, <2>7 DEF CheckEntry, Stage
      <3>2. ASSUME NEW op \in {"deduct", "deduct_offer", "credit"}
            PROVE  \A e : e.op = op => Stage(e)'
        BY <3>1 DEF Stage, Unsettled, Ways
      <3> QED BY <2>3, <2>7, <3>1, <3>2 DEF CheckEntry, Completion, Unsettled
    <2>8. ASSUME DeductCommission(c)
          PROVE  SettledInv'
      <3>1. \A e : e.op = "cash_row" => Stage(e)'
        BY <2>2, <2>8 DEF DeductCommission, Stage, Unsettled, Ways
      <3>2. trip' = "completed" /\ earned' = 0 /\ charged' = 1
        BY <2>2, <2>8 DEF DeductCommission, Stage, Unsettled
      <3> QED BY <2>3, <2>4, <2>8, <3>1, <3>2 DEF DeductCommission, Completion
    <2>9. ASSUME CreditEarnings(c)
          PROVE  SettledInv'
      <3>1. trip' = "completed" /\ earned' = 1 /\ charged' = 0
        BY <2>2, <2>9 DEF CreditEarnings, Stage, Unsettled
      <3> QED BY <2>4, <2>9, <3>1 DEF CreditEarnings
    <2>10. ASSUME CashRow(c)
           PROVE  SettledInv'
      <3>1. \A e : e.op = "clear" => Stage(e)'
        BY <2>2, <2>10 DEF CashRow, Stage, Unsettled, Ways
      <3> QED BY <2>3, <2>10, <3>1 DEF CashRow, Completion
    <2>11. ASSUME ClearPending(c)
           PROVE  SettledInv'
      <3>1. trip' = "completed" /\ earned' = 0 /\ charged' = 1
        BY <2>2, <2>11 DEF ClearPending, Stage
      <3> QED BY <2>4, <2>11, <3>1 DEF ClearPending
    <2> QED BY <1>3, <2>5, <2>6, <2>7, <2>8, <2>9, <2>10, <2>11 DEF CompletionStep
  <1>4. ASSUME RecordCash \/ CancelTrip \/ UNCHANGED vars
        PROVE  SettledInv'
    <2>1. Completing' = Completing /\ UNCHANGED <<earned, charged, disturbed>>
      BY <1>4 DEF RecordCash, CancelTrip, vars, Completing
    <2>2. trip' = trip \/ (trip = "ongoing" /\ trip' = "cancelled")
      BY <1>4 DEF RecordCash, CancelTrip, vars
    <2> QED BY <1>0, <2>1, <2>2 DEF SettledInv, Stage, Unsettled
  <1>5. ~Crash
    BY DEF Crash
  <1> QED BY <1>1, <1>2, <1>3, <1>4, <1>5 DEF Next

\* The driver of a completed trip gets the earnings or is charged the commission,
\* once, and neither only if the booking was paid online or in cash before
\* (SettledOnce).
THEOREM SettlesOnce == ASSUME Bounds PROVE Spec => []SettledOnce
  <1>1. TypeOK /\ SettledInv => SettledOnce
    <2> SUFFICES ASSUME TypeOK, SettledInv, ~disturbed
                 PROVE  /\ earned + charged <= 1
                        /\ trip = "completed" /\ Completing = {} => earned + charged = 1 \/ PaidOnline
      BY DEF SettledOnce, PaidOnline
    <2>1. CASE Completing = {}
      BY <2>1 DEF SettledInv, Unsettled
    <2>2. ASSUME NEW c \in Completing
          PROVE  earned + charged <= 1
      BY <2>2 DEF SettledInv, Stage, Unsettled, Completing, Completion
    <2> QED BY <2>1, <2>2
  <1>2. Spec => [](TypeOK /\ PaidInv /\ SettledInv)
    BY TypedInit, TypedNext, PaidInit, PaidNext, SettledInit, SettledNext, PTL DEF Spec
  <1> QED BY <1>1, <1>2, PTL
=============================================================================
