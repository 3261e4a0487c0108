------------------------------- MODULE Support -------------------------------
(***************************************************************************)
(* Support tickets.  A ticket's number is one more than the tickets there  *)
(* are when it is made, and unique: the database refuses another.  An      *)
(* admin answers tickets and sets their status; the first answer takes up  *)
(* an open ticket.  Clearing a driver's data deletes the tickets about the *)
(* driver's bookings.                                                      *)
(***************************************************************************)
EXTENDS Integers, FiniteSets, Sequences

CONSTANTS
  MaxTickets,  \* bound: tickets ever made
  MaxCalls,    \* bound: handlers in flight at once
  MaxResets    \* bound: drivers whose data is cleared

VARIABLES
  ticket,    \* tickets in the order they were made
  calls,     \* handlers that have awaited
  resets,    \* drivers cleared
  settled,   \* for properties only: resolved or closed while no answer took them up
  reopened   \* for properties only: set open by an admin, and not taken up since

vars == <<ticket, calls, resets, settled, reopened>>

Status == {"open", "in_progress", "resolved", "closed"}
Ticket == [number : Nat, status : Status \cup {"deleted"},
           messages : SUBSET {"customer", "admin"}]  \* who has written
Call == [op : {"insert", "describe", "progress", "answer"},
         t : 1..MaxTickets + 1,  \* the ticket; for an insert, its number
         n : 1..MaxCalls]

Init == ticket = <<>> /\ calls = {} /\ resets = 0 /\ settled = {} /\ reopened = {}

Exists(t) == t \in DOMAIN ticket /\ ticket[t].status # "deleted"
Tickets == {t \in DOMAIN ticket : Exists(t)}
TicketNumbers == {ticket[t].number : t \in Tickets}

\* A write to a ticket that has been deleted changes nothing: an update finds no
\* row, a message no ticket to refer to.
SetStatus(t, s) == ticket' = IF Exists(t) THEN [ticket EXCEPT ![t].status = s] ELSE ticket
Write(t, who) ==
  ticket' = IF Exists(t) THEN [ticket EXCEPT ![t].messages = @ \cup {who}] ELSE ticket

\* The least number that is free tells the calls apart.
Start(op, t) ==
  \E n \in 1..MaxCalls :
    /\ \A m \in 1..n : (\E c \in calls : c.n = m) <=> m # n
    /\ calls' = calls \cup {[op |-> op, t |-> t, n |-> n]}
Continue(c, op, t) == calls' = (calls \ {c}) \cup {[c EXCEPT !.op = op, !.t = t]}
Return(c) == calls' = calls \ {c}

(***************************************************************************)
(* createTicket.                                                           *)
(***************************************************************************)

\* generateTicketNumber.
CreateTicket ==
  /\ Start("insert", Cardinality(Tickets) + 1)
  /\ UNCHANGED <<ticket, resets, settled, reopened>>

InsertTicket(c) ==
  /\ c \in calls /\ c.op = "insert"
  /\ c.t \notin TicketNumbers /\ Len(ticket) < MaxTickets
  /\ ticket' = Append(ticket, [number |-> c.t, status |-> "open", messages |-> {}])
  /\ Continue(c, "describe", Len(ticket) + 1)
  /\ UNCHANGED <<resets, settled, reopened>>

\* The description is the first message.
DescribeTicket(c) ==
  /\ c \in calls /\ c.op = "describe"
  /\ Write(c.t, "customer")
  /\ Return(c)
  /\ UNCHANGED <<resets, settled, reopened>>

(***************************************************************************)
(* Admins.                                                                 *)
(***************************************************************************)

FaultyReplyToTicket(t) ==  \* any ticket is taken up
  /\ Exists(t)
  /\ Start("progress", t)
  /\ UNCHANGED <<ticket, resets, settled, reopened>>

ReplyToTicket(t) ==
  /\ Exists(t)
  /\ Start(IF ticket[t].status = "open" THEN "progress" ELSE "answer", t)
  /\ UNCHANGED <<ticket, resets, settled, reopened>>

TakeUp(c) ==
  /\ c \in calls /\ c.op = "progress"
  /\ SetStatus(c.t, "in_progress")
  /\ reopened' = reopened \ {c.t}
  /\ Continue(c, "answer", c.t)
  /\ UNCHANGED <<resets, settled>>

Answer(c) ==
  /\ c \in calls /\ c.op = "answer"
  /\ Write(c.t, "admin")
  /\ Return(c)
  /\ UNCHANGED <<resets, settled, reopened>>

\* Any status, whatever it was.
UpdateTicketStatus(t, s) ==
  /\ Exists(t)
  /\ SetStatus(t, s)
  /\ reopened' = IF s = "open" THEN reopened \cup {t} ELSE reopened \ {t}
  /\ settled' = IF s \in {"resolved", "closed"} /\ \A c \in calls : c.op = "progress" => c.t # t
                THEN settled \cup {t} ELSE settled \ {t}
  /\ UNCHANGED <<calls, resets>>

\* resetDriverData, in one transaction.
ResetDriverData(ts) ==
  /\ resets < MaxResets /\ resets' = resets + 1
  /\ ts # {}
  /\ ticket' = [t \in DOMAIN ticket |->
                  IF t \in ts THEN [ticket[t] EXCEPT !.status = "deleted"] ELSE ticket[t]]
  /\ settled' = settled \ ts /\ reopened' = reopened \ ts
  /\ UNCHANGED calls

\* The database refuses a number that is taken; any write may fail.
Fail(c) ==
  /\ c \in calls
  /\ Return(c)
  /\ UNCHANGED <<ticket, resets, settled, reopened>>

Next ==
  \/ CreateTicket
  \/ \E t \in DOMAIN ticket : ReplyToTicket(t) \/ \E s \in Status : UpdateTicketStatus(t, s)
  \/ \E ts \in SUBSET Tickets : ResetDriverData(ts)
  \/ \E c \in calls :
       InsertTicket(c) \/ DescribeTicket(c) \/ TakeUp(c) \/ Answer(c) \/ Fail(c)

Spec == Init /\ [][Next]_vars

(***************************************************************************)
(* Properties.                                                             *)
(***************************************************************************)

\* Every variable has its type.
TypeOK ==
  /\ ticket \in Seq(Ticket) /\ calls \subseteq Call /\ resets \in 0..MaxResets
  /\ settled \subseteq DOMAIN ticket /\ reopened \subseteq DOMAIN ticket

\* However creations, answers, decisions and failures overlap: a number names one
\* ticket, and they are 1, 2, 3 ... while no driver's data was cleared, so that the
\* next one is free (afterwards it may be taken, and stays so); a ticket an admin
\* has settled stays settled though others answer it, unless an answer had already
\* begun to take it up; an answered ticket is not open, unless an admin set it so.
TicketsInOrder ==
  /\ Cardinality(TicketNumbers) = Cardinality(Tickets)
  /\ resets = 0 => TicketNumbers = 1..Cardinality(Tickets)
  /\ \A t \in settled : ticket[t].status \in {"resolved", "closed"}
  /\ \A t \in Tickets :
       "admin" \in ticket[t].messages /\ ticket[t].status = "open" => t \in reopened
=============================================================================
