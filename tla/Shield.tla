------------------------------- MODULE Shield --------------------------------
(***************************************************************************)
(* The Zipto Shield fund: one ledger row and its transactions.  A booking  *)
(* contributes when its trip completes, an admin withdraws.  Each does so  *)
(* in a database transaction, at READ COMMITTED and without a lock: it     *)
(* reads the row, then saves it, and another may save in between.          *)
(***************************************************************************)
EXTENDS Integers, FiniteSets

CONSTANTS
  Trips,      \* bookings that complete
  MaxCalls,   \* bound: handlers in flight at once
  MaxPaidOut  \* bound: none is withdrawn, 1 at a time, after that many are

VARIABLES
  fund,         \* row zipto-shield of the ledger; contributions are of 1
  contributed,  \* CONTRIBUTION entries of each booking
  paidOut,      \* WITHDRAWAL entries
  calls,        \* transactions that have read the row, and checks before them
  disturbed     \* for properties only: see Disturb

vars == <<fund, contributed, paidOut, calls, disturbed>>

Fund == [exists : BOOLEAN, balance : Int, total_contributed : Int, total_withdrawn : Int]
NoFund == [exists |-> FALSE, balance |-> 0, total_contributed |-> 0, total_withdrawn |-> 0]
Call == [op : {"begin", "contribute"}, by : Trips, n : 1..2, snap : Fund]
          \cup [op : {"withdraw"}, n : 1..MaxCalls, snap : Fund]
          \cup [op : {"create", "created"}, snap : Fund]

Init ==
  /\ fund = NoFund
  /\ contributed = [t \in Trips |-> 0]
  /\ paidOut = 0 /\ calls = {} /\ disturbed = FALSE

\* getOrCreateLedger finds no row, and is about to save one of zeros.  One call of
\* it at a time is a bound.
CreateLedger ==
  /\ ~fund.exists /\ Cardinality(calls) < MaxCalls
  /\ \A c \in calls : c.op \notin {"create", "created"}
  /\ calls' = calls \cup {[op |-> "create", snap |-> NoFund]}
  /\ UNCHANGED <<fund, contributed, paidOut, disturbed>>

\* save looks whether the row is there by now.
CreateLook(c) ==
  /\ c \in calls /\ c.op = "create"
  /\ calls' = (calls \ {c}) \cup {[c EXCEPT !.op = "created", !.snap = fund]}
  /\ UNCHANGED <<fund, contributed, paidOut, disturbed>>

\* It inserts the zeros, which fails on a row of the meantime, or writes them over
\* the columns of the row it found that are not zero.
CreateSave(c) ==
  /\ c \in calls /\ c.op = "created"
  /\ \/ /\ ~c.snap.exists
        /\ fund' = [fund EXCEPT !.exists = TRUE]
     \/ /\ c.snap.exists
        /\ fund' = [col \in DOMAIN fund |-> IF c.snap[col] = NoFund[col] \/ col = "exists"
                                           THEN fund[col] ELSE 0]
  /\ calls' = calls \ {c}
  /\ disturbed' = (disturbed \/ c.snap.exists)
  /\ UNCHANGED <<contributed, paidOut>>

Contributing(t) == {c \in calls : c.op \in {"begin", "contribute"} /\ c.by = t}

FaultyContribute(t, n) ==  \* no look for an earlier contribution
  /\ \A c \in Contributing(t) : c.n # n
  /\ Cardinality(calls) < MaxCalls
  /\ calls' = calls \cup {[op |-> "begin", by |-> t, n |-> n, snap |-> NoFund]}
  /\ disturbed' = (disturbed \/ Contributing(t) # {})
  /\ UNCHANGED <<fund, contributed, paidOut>>

\* contribute looks for the booking's entry before its transaction begins.
\* completeTrip calls it, and two that overlap call it both.
Contribute(t, n) ==
  /\ contributed[t] = 0
  /\ \A c \in Contributing(t) : c.n # n
  /\ Cardinality(calls) < MaxCalls
  /\ calls' = calls \cup {[op |-> "begin", by |-> t, n |-> n, snap |-> NoFund]}
  /\ disturbed' = (disturbed \/ Contributing(t) # {})
  /\ UNCHANGED <<fund, contributed, paidOut>>

ReadLedger(c) ==
  /\ c \in calls /\ c.op = "begin"
  /\ calls' = (calls \ {c}) \cup {[c EXCEPT !.op = "contribute", !.snap = fund]}
  /\ UNCHANGED <<fund, contributed, paidOut, disturbed>>

\* withdraw reads the row and compares.
Withdraw(n) ==
  /\ fund.exists /\ fund.balance >= 1 /\ paidOut < MaxPaidOut
  /\ Cardinality(calls) < MaxCalls
  /\ \A c \in calls : c.op = "withdraw" => c.n # n
  /\ calls' = calls \cup {[op |-> "withdraw", n |-> n, snap |-> fund]}
  /\ UNCHANGED <<fund, contributed, paidOut, disturbed>>

\* save reads the row once more and writes the columns that differ from what it
\* found: all of the row that was read, or, if another transaction commits
\* after that look, the changed columns only.
Save(old, new) ==
  \/ fund' = new
  \/ fund' = [exists |-> TRUE,
              balance |-> new.balance,
              total_contributed |-> IF new.total_contributed = old.total_contributed
                                    THEN fund.total_contributed ELSE new.total_contributed,
              total_withdrawn |-> IF new.total_withdrawn = old.total_withdrawn
                                  THEN fund.total_withdrawn ELSE new.total_withdrawn]

\* The fund is disturbed when a transaction saves a row that has changed since
\* it was read, when zeros are saved over a row that was not there, and when a
\* booking's second contribution begins during its first.
Disturb(c) == disturbed' = (disturbed \/ c.snap # fund)

ContributeSave(c) ==
  /\ c \in calls /\ c.op = "contribute"
  /\ Save(c.snap, [exists |-> TRUE,
                   balance |-> c.snap.balance + 1,
                   total_contributed |-> c.snap.total_contributed + 1,
                   total_withdrawn |-> c.snap.total_withdrawn])
  /\ contributed' = [contributed EXCEPT ![c.by] = @ + 1]
  /\ calls' = calls \ {c}
  /\ Disturb(c)
  /\ UNCHANGED paidOut

\* Two transactions that both found no row insert it: the second fails, and
\* contribute's caller ignores that.
ContributeFails(c) ==
  /\ c \in calls /\ c.op = "contribute" /\ ~c.snap.exists /\ fund.exists
  /\ calls' = calls \ {c}
  /\ UNCHANGED <<fund, contributed, paidOut, disturbed>>

WithdrawSave(c) ==
  /\ c \in calls /\ c.op = "withdraw"
  /\ Save(c.snap, [c.snap EXCEPT !.balance = @ - 1, !.total_withdrawn = @ + 1])
  /\ paidOut' = paidOut + 1
  /\ calls' = calls \ {c}
  /\ Disturb(c)
  /\ UNCHANGED contributed

CallStep(c) ==
  \/ CreateLook(c) \/ CreateSave(c)
  \/ ReadLedger(c) \/ ContributeSave(c) \/ ContributeFails(c) \/ WithdrawSave(c)

Next ==
  \/ CreateLedger
  \/ \E t \in Trips, n \in 1..2 : Contribute(t, n)
  \/ \E n \in 1..MaxCalls : Withdraw(n)
  \/ \E c \in calls : CallStep(c)

Spec == Init /\ [][Next]_vars

(***************************************************************************)
(* Properties.                                                             *)
(***************************************************************************)

\* Every variable has its type.
TypeOK ==
  /\ fund \in Fund
  /\ contributed \in [Trips -> Nat] /\ paidOut \in Nat
  /\ calls \subseteq Call /\ disturbed \in BOOLEAN

\* The ledger row tells what its entries add up to and no booking contributes
\* twice, unless two transactions, two contributions of a booking, or the creation
\* of the row and a contribution overlapped; the balance is never negative,
\* whatever overlaps.
FundAddsUp ==
  /\ fund.balance >= 0
  /\ ~disturbed =>
       /\ \A t \in Trips : contributed[t] <= 1
       /\ fund.total_contributed = Cardinality({t \in Trips : contributed[t] = 1})
       /\ fund.total_withdrawn = paidOut
       /\ fund.balance = fund.total_contributed - fund.total_withdrawn
=============================================================================
