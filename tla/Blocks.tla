-------------------------------- MODULE Blocks -------------------------------
(***************************************************************************)
(* The suspension of a customer: the blocks of FraudService, which end by  *)
(* the hourly job, by an admin or by an appeal, and users.is_active, which *)
(* the admin panel also switches on its own.  One customer.                *)
(***************************************************************************)
EXTENDS Integers

CONSTANTS
  MaxBlocks,   \* bound: blocks ever made
  MaxCalls,    \* bound: handlers in flight at once; none begins once barred
  MaxCrashes   \* bound: restarts

VARIABLES
  block,    \* table user_blocks
  issued,   \* blocks made so far: 1..issued
  due,      \* those whose blocked_until has passed
  active,   \* users.is_active
  calls,    \* handlers that have awaited
  crashes,
  barred    \* for properties only: out for good, see Deactivate, Switch and Crash

vars == <<block, issued, due, active, calls, crashes, barred>>

Blocks == 1..MaxBlocks
\* An ended block is lifted or expired; an appeal is decided or was never made
\* unless it is pending.
Row == [active : BOOLEAN, pending : BOOLEAN]
NoRow == [active |-> FALSE, pending |-> FALSE]
Ended == NoRow
Op == {"insert", "deactivate", "lift", "save", "approve", "activate", "expire", "expired"}
\* The block at hand as the handler read it and will save it; the other blocks of
\* the job.
Call == [op : Op, i : 0..MaxBlocks, was : Row, row : Row, rest : SUBSET (Blocks \X Row), n : 1..MaxCalls]

Init ==
  /\ block = [i \in Blocks |-> NoRow] /\ issued = 0 /\ due = {}
  /\ active = TRUE
  /\ calls = {} /\ crashes = 0 /\ barred = FALSE

Active == {i \in Blocks : block[i].active}

Start(op, i, was, row, rest) ==
  LET free == (1..MaxCalls) \ {c.n : c \in calls}
  IN /\ free # {} /\ ~barred
     /\ calls' = calls \cup {[op |-> op, i |-> i, was |-> was, row |-> row, rest |-> rest,
                              n |-> CHOOSE n \in free : \A m \in free : n <= m]}
Continue(c, op) == calls' = (calls \ {c}) \cup {[c EXCEPT !.op = op]}
Return(c) == calls' = calls \ {c}

\* save reads the row again and writes the columns that differ from what it
\* finds: all that was read before, also those changed since, or, where another
\* write comes after that look, only what the handler changed.
Save(c) ==
  \E row \in {c.row, [f \in DOMAIN c.row |-> IF c.row[f] = c.was[f] THEN block[c.i][f] ELSE c.row[f]]} :
    block' = [block EXCEPT ![c.i] = row]

(***************************************************************************)
(* blockCustomer: "Expire any existing active block", add one, deactivate. *)
(***************************************************************************)

Block ==
  /\ \A c \in calls : c.op = "insert" => issued + 1 < MaxBlocks
  /\ issued < MaxBlocks
  /\ Start("insert", 0, NoRow, NoRow, {})
  /\ block' = [i \in Blocks |-> IF i \in Active THEN [block[i] EXCEPT !.active = FALSE] ELSE block[i]]
  /\ UNCHANGED <<issued, due, active, crashes, barred>>

Insert(c) ==
  /\ c \in calls /\ c.op = "insert"
  /\ issued' = issued + 1
  /\ block' = [block EXCEPT ![issued + 1] = [active |-> TRUE, pending |-> FALSE]]
  /\ Continue(c, "deactivate")
  /\ UNCHANGED <<due, active, crashes, barred>>

\* Also if the block has ended meanwhile, or is being ended by an approval that
\* has let the customer in already.
Deactivate(c) ==
  /\ c \in calls /\ c.op = "deactivate"
  /\ active' = FALSE
  /\ Return(c)
  /\ barred' = (barred \/ Active = {} \/ \E d \in calls : d.op = "save" /\ ~d.row.active)
  /\ UNCHANGED <<block, issued, due, crashes>>

(***************************************************************************)
(* unblockCustomer, submitUnblockRequest, processUnblockRequest.           *)
(***************************************************************************)

Unblock ==
  /\ \/ Active = {} /\ Start("activate", 0, NoRow, NoRow, {})
     \/ \E i \in Active : Start("lift", i, block[i], [block[i] EXCEPT !.active = FALSE], {})
  /\ UNCHANGED <<block, issued, due, active, crashes, barred>>

Lift(c) ==
  /\ c \in calls /\ c.op = "lift"
  /\ Save(c)
  /\ calls' = (calls \ {c}) \cup {[c EXCEPT !.op = "activate", !.i = 0, !.was = NoRow, !.row = NoRow]}
  /\ UNCHANGED <<issued, due, active, crashes, barred>>

Activate(c) ==
  /\ c \in calls /\ c.op = "activate"
  /\ active' = TRUE
  /\ Return(c)
  /\ UNCHANGED <<block, issued, due, crashes, barred>>

Appeal(i) ==
  /\ i \in Active /\ ~block[i].pending
  /\ Start("save", i, block[i], [block[i] EXCEPT !.pending = TRUE], {})
  /\ UNCHANGED <<block, issued, due, active, crashes, barred>>

\* Also of a block that has ended.
Process(i, verdict) ==
  /\ block[i].pending
  /\ IF verdict = "approved"
     THEN Start("approve", i, block[i], Ended, {})
     ELSE Start("save", i, block[i], [block[i] EXCEPT !.pending = FALSE], {})
  /\ UNCHANGED <<block, issued, due, active, crashes, barred>>

Approve(c) ==
  /\ c \in calls /\ c.op = "approve"
  /\ active' = TRUE
  /\ Continue(c, "save")
  /\ UNCHANGED <<block, issued, due, crashes, barred>>

SaveRequest(c) ==
  /\ c \in calls /\ c.op = "save"
  /\ Save(c) /\ Return(c)
  /\ UNCHANGED <<issued, due, active, crashes, barred>>

(***************************************************************************)
(* autoUnblockExpiredBlocks, hourly.                                       *)
(***************************************************************************)

\* The next block of the job, if any.
NextExpired(c, rest) ==
  IF rest = {} THEN Return(c)
  ELSE \E b \in rest :
         calls' = (calls \ {c}) \cup {[c EXCEPT !.op = "expire", !.i = b[1], !.was = b[2],
                                               !.row = [b[2] EXCEPT !.active = FALSE], !.rest = rest \ {b}]}

Cron ==
  /\ \A c \in calls : c.op \notin {"expire", "expired"}
  /\ LET found == {<<i, block[i]>> : i \in Active \cap due}
     IN \E b \in found : Start("expire", b[1], b[2], [b[2] EXCEPT !.active = FALSE], found \ {b})
  /\ UNCHANGED <<block, issued, due, active, crashes, barred>>

Expire(c) ==
  /\ c \in calls /\ c.op = "expire"
  /\ Save(c)
  /\ calls' = (calls \ {c}) \cup {[c EXCEPT !.op = "expired", !.was = NoRow, !.row = NoRow]}
  /\ UNCHANGED <<issued, due, active, crashes, barred>>

FaultyExpired(c) ==  \* the customer of the last block only
  /\ c \in calls /\ c.op = "expired"
  /\ active' = (active \/ c.i = issued)
  /\ NextExpired(c, c.rest)
  /\ UNCHANGED <<block, issued, due, crashes, barred>>

Expired(c) ==
  /\ c \in calls /\ c.op = "expired"
  /\ active' = TRUE
  /\ NextExpired(c, c.rest)
  /\ UNCHANGED <<block, issued, due, crashes, barred>>

(***************************************************************************)
(* The panel's own switch, the clock, restarts.                            *)
(***************************************************************************)

Switch(on) ==
  /\ ~barred /\ active' = on /\ barred' = ~on
  /\ UNCHANGED <<block, issued, due, calls, crashes>>

\* A block lasts a day at least, longer than any handler.
Due(i) ==
  /\ i <= issued /\ i \notin due /\ \A c \in calls : c.op # "deactivate"
  /\ due' = due \cup {i}
  /\ UNCHANGED <<block, issued, active, calls, crashes, barred>>

\* A block that was lifted or had expired is not found again, nor replaced.
Crash ==
  /\ crashes < MaxCrashes /\ crashes' = crashes + 1
  /\ calls' = {}
  /\ barred' = (barred \/ \E c \in calls : c.op \in {"insert", "activate", "expired"})
  /\ UNCHANGED <<block, issued, due, active>>

CallStep(c) ==
  \/ Insert(c) \/ Deactivate(c) \/ Lift(c) \/ Activate(c) \/ Approve(c) \/ SaveRequest(c)
  \/ Expire(c) \/ Expired(c)

Next ==
  \/ Block \/ Unblock \/ Cron \/ Crash
  \/ \E on \in BOOLEAN : Switch(on)
  \/ \E i \in Blocks : Appeal(i) \/ Due(i) \/ \E verdict \in {"approved", "rejected"} : Process(i, verdict)
  \/ \E c \in calls : CallStep(c)

Spec == Init /\ [][Next]_vars

\* Handlers run on, the job runs every hour and time passes.  The job is never
\* crowded out by requests.
Fairness ==
  /\ \A n \in 1..MaxCalls : WF_vars(\E c \in calls : c.n = n /\ CallStep(c))
  /\ SF_vars(Cron)
  /\ \A i \in Blocks : WF_vars(Due(i))

FairSpec == Spec /\ Fairness

(***************************************************************************)
(* Properties.                                                             *)
(***************************************************************************)

\* Every variable has its type.
TypeOK ==
  /\ block \in [Blocks -> Row] /\ issued \in 0..MaxBlocks
  /\ due \subseteq 1..issued /\ active \in BOOLEAN
  /\ calls \subseteq Call /\ crashes \in 0..MaxCrashes /\ barred \in BOOLEAN

\* A suspension ends: whoever blocks, appeals, decides or switches meanwhile, a
\* customer with an active block is let in again; unless the panel keeps him out,
\* a restart comes between the end of the block and that of the suspension, or
\* the deactivation comes after them.
SuspensionEnds == \A i \in Blocks : block[i].active ~> active \/ barred
=============================================================================
