---------------------------- MODULE BankAccounts -----------------------------
(***************************************************************************)
(* A driver's bank accounts: which of them is primary, and Cashfree's      *)
(* beneficiary for each, to which withdrawals are paid.  Rows are numbered *)
(* in the order of created_at.                                             *)
(***************************************************************************)
EXTENDS Integers, FiniteSets

CONSTANTS
  Numbers,      \* account numbers, naturals from 1
  MaxAccounts,  \* bound: accounts ever added
  MaxCalls      \* bound: handlers in flight at once; none begins once disturbed

VARIABLES
  account,      \* table driver_bank_accounts
  issued,       \* accounts added so far: 1..issued
  beneficiary,  \* at Cashfree: the number each was registered with, 0 if none
  calls,        \* handlers that have awaited
  disturbed     \* for properties only: see Disturb

vars == <<account, issued, beneficiary, calls, disturbed>>

Accounts == 1..MaxAccounts
Row == [exists : BOOLEAN, number : Numbers \cup {0}, primary : BOOLEAN, synced : BOOLEAN]
NoRow == [exists |-> FALSE, number |-> 0, primary |-> FALSE, synced |-> FALSE]
Op == {"insert", "sync", "synced", "update", "remove", "find", "promote", "unset", "set",
       "pay", "pay_sync", "pay_synced"}
\* was: the row the handler read; row: what it makes of it.
Call == [op : Op, a : 0..MaxAccounts, was : Row, row : Row, n : 1..MaxCalls]

Init ==
  /\ account = [a \in Accounts |-> NoRow] /\ issued = 0
  /\ beneficiary = [a \in Accounts |-> 0]
  /\ calls = {} /\ disturbed = FALSE

Live == {a \in Accounts : account[a].exists}
Primary == {a \in Live : account[a].primary}
Oldest == CHOOSE a \in Live : \A b \in Live : a <= b

\* The least number that is free tells the calls apart.
Start(op, a, was, row) ==
  /\ ~disturbed
  /\ \E n \in 1..MaxCalls :
       /\ \A m \in 1..n : (\E c \in calls : c.n = m) <=> m # n
       /\ calls' = calls \cup {[op |-> op, a |-> a, was |-> was, row |-> row, n |-> n]}
Continue(c, op) == calls' = (calls \ {c}) \cup {[c EXCEPT !.op = op]}
Return(c) == calls' = calls \ {c}

\* The accounts are disturbed when a handler writes a row that changed since it
\* was read, or makes one primary on the strength of a look at the others that
\* no longer holds.
Disturb(when) == disturbed' = (disturbed \/ when)

\* save: all of the row that was read, or the changed columns only; a row that
\* is gone is inserted again.
Save(c) ==
  /\ account' \in {[account EXCEPT ![c.a] = c.row]} \cup
       (IF c.a \in Live
        THEN {[account EXCEPT ![c.a] = [f \in DOMAIN @ |-> IF c.row[f] = c.was[f] THEN @[f] ELSE c.row[f]]]}
        ELSE {})

(***************************************************************************)
(* addBankAccount, and the un-awaited registration at Cashfree.            *)
(***************************************************************************)

\* The first account is primary.
Add ==
  /\ issued + Cardinality({c \in calls : c.op = "insert"}) < MaxAccounts
  /\ \E number \in Numbers :
       Start("insert", 0, NoRow, [exists |-> TRUE, number |-> number, primary |-> (Live = {}), synced |-> FALSE])
  /\ UNCHANGED <<account, issued, beneficiary, disturbed>>

Insert(c) ==
  /\ c \in calls /\ c.op = "insert"
  /\ issued' = issued + 1
  /\ account' = [account EXCEPT ![issued + 1] = c.row]
  /\ calls' = (calls \ {c}) \cup {[c EXCEPT !.op = "sync", !.a = issued + 1]}
  /\ Disturb(c.row.primary # (Live = {}))
  /\ UNCHANGED <<beneficiary>>

\* syncBankAccountToCashfree: "already exists" is a success, whatever number it
\* exists with.  A failure leaves the account unregistered.
Sync(c) ==
  /\ c \in calls /\ c.op \in {"sync", "pay_sync"}
  /\ beneficiary' = [beneficiary EXCEPT ![c.a] = IF @ = 0 THEN c.row.number ELSE @]
  /\ Continue(c, IF c.op = "sync" THEN "synced" ELSE "pay_synced")
  /\ UNCHANGED <<account, issued, disturbed>>

SyncFails(c) ==
  /\ c \in calls /\ c.op \in {"sync", "pay_sync"}
  /\ Return(c)
  /\ UNCHANGED <<account, issued, beneficiary, disturbed>>

Synced(c) ==
  /\ c \in calls /\ c.op \in {"synced", "pay_synced"}
  /\ account' = [account EXCEPT ![c.a].synced = @ \/ c.a \in Live]
  /\ IF c.op = "pay_synced" /\ c.a \in Live THEN Continue(c, "pay") ELSE Return(c)
  /\ UNCHANGED <<issued, beneficiary, disturbed>>

(***************************************************************************)
(* updateBankAccount, deleteBankAccount, setPrimaryBankAccount.            *)
(***************************************************************************)

\* Any field may change; the number here.
Update(a, number) ==
  /\ a \in Live
  /\ Start("update", a, account[a], [account[a] EXCEPT !.number = number])
  /\ UNCHANGED <<account, issued, beneficiary, disturbed>>

UpdateSave(c) ==
  /\ c \in calls /\ c.op = "update"
  /\ Save(c) /\ Return(c)
  /\ Disturb(account[c.a] # c.was)
  /\ UNCHANGED <<issued, beneficiary>>

Delete(a) ==
  /\ a \in Live
  /\ Start("remove", a, account[a], NoRow)
  /\ UNCHANGED <<account, issued, beneficiary, disturbed>>

Remove(c) ==
  /\ c \in calls /\ c.op = "remove"
  /\ account' = [account EXCEPT ![c.a] = NoRow]
  /\ IF c.was.primary THEN Continue(c, "find") ELSE Return(c)
  /\ Disturb(account[c.a].primary # c.was.primary)
  /\ UNCHANGED <<issued, beneficiary>>

FaultyFindNext(c) ==  \* none is promoted
  /\ c \in calls /\ c.op = "find"
  /\ Return(c)
  /\ UNCHANGED <<account, issued, beneficiary, disturbed>>

\* "auto-promote the oldest remaining one".
FindNext(c) ==
  /\ c \in calls /\ c.op = "find"
  /\ IF Live = {} THEN Return(c)
     ELSE calls' = (calls \ {c}) \cup
            {[c EXCEPT !.op = "promote", !.a = Oldest, !.was = account[Oldest],
                       !.row = [account[Oldest] EXCEPT !.primary = TRUE]]}
  /\ UNCHANGED <<account, issued, beneficiary, disturbed>>

Promote(c) ==
  /\ c \in calls /\ c.op = "promote"
  /\ Save(c) /\ Return(c)
  /\ Disturb(account[c.a] # c.was \/ Primary # {})
  /\ UNCHANGED <<issued, beneficiary>>

SetPrimary(a) ==
  /\ a \in Live
  /\ Start("unset", a, account[a], [account[a] EXCEPT !.primary = TRUE])
  /\ UNCHANGED <<account, issued, beneficiary, disturbed>>

UnsetAll(c) ==
  /\ c \in calls /\ c.op = "unset"
  /\ account' = [a \in Accounts |-> [account[a] EXCEPT !.primary = FALSE]]
  /\ Continue(c, "set")
  /\ Disturb(c.a \notin Live)
  /\ UNCHANGED <<issued, beneficiary>>

\* The row it read may say primary already: save finds it unset.
SetSave(c) ==
  /\ c \in calls /\ c.op = "set"
  /\ Save([c EXCEPT !.was.primary = FALSE]) /\ Return(c)
  /\ Disturb(account[c.a] # [c.was EXCEPT !.primary = FALSE] \/ Primary # {})
  /\ UNCHANGED <<issued, beneficiary>>

(***************************************************************************)
(* requestWithdrawal's account: the one asked for, or the primary one.     *)
(***************************************************************************)

Withdraw(a) ==
  /\ a \in Live
  /\ Start(IF account[a].synced THEN "pay" ELSE "pay_sync", a, account[a], account[a])
  /\ UNCHANGED <<account, issued, beneficiary, disturbed>>

Transfer(c) ==
  /\ c \in calls /\ c.op = "pay"
  /\ Return(c)
  /\ UNCHANGED <<account, issued, beneficiary, disturbed>>

CallStep(c) ==
  \/ Insert(c) \/ Sync(c) \/ SyncFails(c) \/ Synced(c) \/ UpdateSave(c)
  \/ Remove(c) \/ FindNext(c) \/ Promote(c) \/ UnsetAll(c) \/ SetSave(c) \/ Transfer(c)

Next ==
  \/ Add
  \/ \E a \in Accounts :
       Delete(a) \/ SetPrimary(a) \/ Withdraw(a) \/ \E number \in Numbers : Update(a, number)
  \/ \E c \in calls : CallStep(c)

Spec == Init /\ [][Next]_vars

(***************************************************************************)
(* Properties.                                                             *)
(***************************************************************************)

\* Every variable has its type.
TypeOK ==
  /\ account \in [Accounts -> Row] /\ issued \in 0..MaxAccounts
  /\ beneficiary \in [Accounts -> Numbers \cup {0}]
  /\ calls \subseteq Call /\ disturbed \in BOOLEAN

\* A driver with accounts has one primary account, which withdrawals fall back
\* on, whichever is added, removed or chosen, and while Cashfree is told of
\* them; unless two of these overlap so that one acts on what the other undid.
OnePrimary ==
  ~disturbed /\ (\A c \in calls : c.op \notin {"find", "promote", "set"}) =>
    Cardinality(Primary) = (IF Live = {} THEN 0 ELSE 1)
=============================================================================
