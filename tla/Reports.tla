------------------------------- MODULE Reports -------------------------------
(***************************************************************************)
(* The reports on one customer: the three rules runFraudChecks looks at    *)
(* after every cancellation, without anyone waiting for it, and the        *)
(* reports drivers file; admins resolve them.  The rules share only the    *)
(* bookings, which they read, so a behaviour is about one kind of report.  *)
(* Each check is a few queries, and other handlers run between them.       *)
(***************************************************************************)
EXTENDS Integers, FiniteSets, Sequences

CONSTANTS
  MaxCalls,     \* bound: checks in flight at once
  \* bounds, by rule: bookings ever made, unresolved reports when one begins, and
  \* steps of time
  MaxBookings, MaxReports, MaxAged

VARIABLES
  rule,      \* the kind of report, for good
  bookings,  \* the customer's rows, in order
  open,      \* unresolved reports of each severity
  calls,     \* checks and reports that have awaited
  aged,
  raced,     \* for properties only: two were under way at once
  due        \* for properties only: see Offends

vars == <<rule, bookings, open, calls, aged, raced, due>>

Rules == {"post_accept", "rate", "rapid", "driver"}
Severity == {"low", "medium", "high"}
\* Within the hour, within 7 days, within 30 days, longer ago.  Every booking has
\* an acceptance_time, since a driver's acceptance inserts it.
Age == 0..3
Row == [cancelled : BOOLEAN, created : Age, updated : Age]
New == [cancelled |-> FALSE, created |-> 0, updated |-> 0]
Call == [op : {"count", "rate", "find", "save"}, n : 1..MaxCalls, total : Nat, severity : Severity]

Init ==
  /\ rule \in Rules
  /\ bookings = <<>> /\ open = [s \in Severity |-> 0]
  /\ calls = {} /\ aged = 0 /\ raced = FALSE /\ due = FALSE

Total(rows) == Cardinality({i \in DOMAIN rows : rows[i].created <= 2})
\* Of the cancelled ones, those the rule counts.
Counts(row) ==
  CASE rule = "post_accept" -> row.updated <= 1
    [] rule = "rate" -> row.updated <= 2
    [] rule = "rapid" -> row.created = 0
    [] rule = "driver" -> FALSE
Cancelled(rows) == Cardinality({i \in DOMAIN rows : rows[i].cancelled /\ Counts(rows[i])})

Holds(cancelled, total) ==
  CASE rule = "post_accept" -> cancelled >= 3
    [] rule = "rate" -> total >= 5 /\ 2 * cancelled >= total
    [] rule = "rapid" -> cancelled >= 4
    [] rule = "driver" -> FALSE

SeverityOf(cancelled, total) ==
  CASE rule = "post_accept" -> IF cancelled >= 5 THEN "high" ELSE "medium"
    [] rule = "rate" -> IF 10 * cancelled >= 7 * total THEN "high" ELSE "medium"
    [] rule = "rapid" -> "low"

Opened == open["low"] + open["medium"] + open["high"]

\* One more check or report.  Earlier races count as long as they show.
Begin(op, severity) ==
  /\ Opened <= MaxReports[rule]
  /\ \E n \in 1..MaxCalls :
       /\ \A m \in 1..n : (\E c \in calls : c.n = m) <=> m # n
       /\ calls' = calls \cup {[op |-> op, n |-> n, total |-> 0, severity |-> severity]}
  /\ raced' = (calls # {} \/ (raced /\ Opened > 1))
Continue(c, op, total, severity) ==
  calls' = (calls \ {c}) \cup {[c EXCEPT !.op = op, !.total = total, !.severity = severity]}
Return(c) == calls' = calls \ {c}

(***************************************************************************)
(* The bookings, and time.                                                 *)
(***************************************************************************)

\* due: the rule held at the customer's latest cancellation and holds since.
Offends(rows) == Holds(Cancelled(rows), Total(rows))

Book ==
  /\ Len(bookings) < MaxBookings[rule]
  /\ bookings' = Append(bookings, New)
  /\ due' = (due /\ Offends(bookings'))
  /\ UNCHANGED <<rule, open, calls, aged, raced>>

CancelRow(i) == bookings' = [bookings EXCEPT ![i].cancelled = TRUE, ![i].updated = 0]

\* The customer's cancel, also of a booking that is cancelled already.
Cancel(i) ==
  /\ rule # "driver"
  /\ CancelRow(i) /\ Begin("count", "low")
  /\ due' = Offends(bookings')
  /\ UNCHANGED <<rule, open, aged>>

\* An admin's cancelBooking, without checks, and reassignBooking.
AdminCancel(i) ==
  /\ ~bookings[i].cancelled
  /\ CancelRow(i)
  /\ due' = (due /\ Offends(bookings'))
  /\ UNCHANGED <<rule, open, calls, aged, raced>>

Reassign(i) ==
  /\ bookings[i].cancelled
  /\ bookings' = [bookings EXCEPT ![i].cancelled = FALSE, ![i].updated = bookings[i].created]
  /\ due' = (due /\ Offends(bookings'))
  /\ UNCHANGED <<rule, open, calls, aged, raced>>

\* The windows slide.
Older(r) == LET up(a) == IF a = 3 THEN 3 ELSE a + 1
            IN [r EXCEPT !.created = up(@), !.updated = up(@)]
Slide ==
  /\ aged < MaxAged[rule] /\ aged' = aged + 1
  /\ bookings' = [i \in DOMAIN bookings |-> Older(bookings[i])]
  /\ due' = FALSE
  /\ UNCHANGED <<rule, open, calls, raced>>

(***************************************************************************)
(* checkPostAcceptCancellation, checkCancellationRate,                     *)
(* checkRapidBookingPattern.                                               *)
(***************************************************************************)

CountTotal(c) ==
  /\ c \in calls /\ c.op = "count" /\ rule = "rate"
  /\ LET total == Total(bookings)
     IN IF total < 5 THEN Return(c) ELSE Continue(c, "rate", total, "low")
  /\ UNCHANGED <<rule, bookings, open, aged, raced, due>>

CountCancelled(c) ==
  /\ c \in calls /\ c.op = (IF rule = "rate" THEN "rate" ELSE "count")
  /\ LET cancelled == Cancelled(bookings)
     IN IF Holds(cancelled, c.total) THEN Continue(c, "find", 0, SeverityOf(cancelled, c.total))
        ELSE Return(c)
  /\ UNCHANGED <<rule, bookings, open, aged, raced, due>>

FaultyFindExisting(c) ==  \* no look for an unresolved report
  /\ c \in calls /\ c.op = "find"
  /\ Continue(c, "save", 0, c.severity)
  /\ UNCHANGED <<rule, bookings, open, aged, raced, due>>

\* "Deduplicate: skip if unresolved report of same type already exists".
FindExisting(c) ==
  /\ c \in calls /\ c.op = "find"
  /\ IF Opened > 0 THEN Return(c) ELSE Continue(c, "save", 0, c.severity)
  /\ UNCHANGED <<rule, bookings, open, aged, raced, due>>

\* createAutoReport, and reportCustomer's save.
SaveReport(c) ==
  /\ c \in calls /\ c.op = "save"
  /\ open' = [open EXCEPT ![c.severity] = @ + 1]
  /\ Return(c)
  /\ UNCHANGED <<rule, bookings, aged, raced, due>>

\* runFraudChecks ignores every error; or the process restarts.
Fail(c) ==
  /\ c \in calls /\ Return(c) /\ due' = FALSE
  /\ UNCHANGED <<rule, bookings, open, aged, raced>>

(***************************************************************************)
(* reportCustomer: of a cancelled booking, any number of times; the third  *)
(* unresolved report is high.  resolveReport.                              *)
(***************************************************************************)

ReportCustomer ==
  /\ rule = "driver" /\ \E i \in DOMAIN bookings : bookings[i].cancelled
  /\ Begin("save", IF Opened >= 2 THEN "high" ELSE "medium")
  /\ UNCHANGED <<rule, bookings, open, aged, due>>

ResolveReport(s) ==
  /\ open[s] > 0
  /\ open' = [open EXCEPT ![s] = @ - 1] /\ due' = FALSE
  /\ UNCHANGED <<rule, bookings, calls, aged, raced>>

CallStep(c) == CountTotal(c) \/ CountCancelled(c) \/ FindExisting(c) \/ SaveReport(c) \/ Fail(c)

Next ==
  \/ Book \/ Slide \/ ReportCustomer
  \/ \E i \in DOMAIN bookings : Cancel(i) \/ AdminCancel(i) \/ Reassign(i)
  \/ \E c \in calls : CallStep(c)
  \/ \E s \in Severity : ResolveReport(s)

Spec == Init /\ [][Next]_vars

(***************************************************************************)
(* Properties.                                                             *)
(***************************************************************************)

\* Every variable has its type.
TypeOK ==
  /\ rule \in Rules /\ bookings \in Seq(Row)
  /\ open \in [Severity -> Nat] /\ calls \subseteq Call
  /\ aged \in Nat /\ raced \in BOOLEAN /\ due \in BOOLEAN

\* Unless two checks overlap, each rule has one unresolved report at most and
\* drivers' reports escalate after the second; and who breaks a rule by a
\* cancellation is reported when its checks are over, whatever else happens to
\* the bookings meanwhile, unless a check fails or the report is resolved.
OffendersReported ==
  /\ ~raced => IF rule = "driver" THEN open["medium"] <= 2 ELSE Opened <= 1
  /\ calls = {} /\ due => Opened > 0
=============================================================================
