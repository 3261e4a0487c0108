--------------------------- MODULE ServicesProofs ----------------------------
(***************************************************************************)
(* Proofs about the other services: support tickets, bank accounts,        *)
(* pricing; from the proofs of their own modules, withdrawals and          *)
(* settlement; and the types of all services.                              *)
(***************************************************************************)
EXTENDS LedgersProofs, AccountsProofs, FunctionTheorems

(***************************************************************************)
(* Support tickets.                                                        *)
(***************************************************************************)

DeskCall == [op : {"insert", "describe", "progress", "answer"}, t : Nat, n : 1..MaxCalls]

DeskTyped ==
  /\ ticket \in Seq(Desk!Ticket) /\ ticket_calls \subseteq DeskCall /\ resets \in Nat
  /\ settled \subseteq DOMAIN ticket /\ reopened \subseteq DOMAIN ticket

\* Numbers tell tickets apart; while none was deleted, the next number is free.
NumbersInOrder ==
  /\ \A s, t \in Desk!Tickets : ticket[s].number = ticket[t].number => s = t
  /\ resets = 0 =>
       /\ \A t \in DOMAIN ticket : Desk!Exists(t) /\ ticket[t].number = t
       /\ \A c \in ticket_calls : c.op = "insert" => c.t \in 1..Len(ticket) + 1

\* What an answer under way may still do to its ticket.
AnswersKnow ==
  \A c \in ticket_calls :
    /\ c.op # "insert" => c.t \in DOMAIN ticket
    /\ c.op = "progress" => c.t \notin settled
    /\ c.op = "answer" /\ Desk!Exists(c.t) /\ ticket[c.t].status = "open" => c.t \in reopened

TicketsDecided ==
  /\ \A t \in settled : ticket[t].status \in {"resolved", "closed"}
  /\ \A t \in Desk!Tickets :
       "admin" \in ticket[t].messages /\ ticket[t].status = "open" => t \in reopened

DeskInv == DeskTyped /\ NumbersInOrder /\ AnswersKnow /\ TicketsDecided

LEMMA DeskStart == Desk!Init => DeskInv
<1> SUFFICES ASSUME Desk!Init PROVE DeskInv
  OBVIOUS
<1>1. /\ ticket = <<>> /\ ticket_calls = {} /\ resets = 0 /\ settled = {} /\ reopened = {}
  BY DEF Desk!Init
<1>2. ticket \in Seq(Desk!Ticket) /\ DOMAIN ticket = {}
  BY <1>1
<1>3. Desk!Tickets = {}
  BY <1>2 DEF Desk!Tickets
<1> QED
  BY <1>1, <1>2, <1>3 DEF DeskInv, DeskTyped, NumbersInOrder, AnswersKnow, TicketsDecided

LEMMA DeskDomain ==
  ASSUME DeskTyped
  PROVE  /\ Len(ticket) \in Nat /\ DOMAIN ticket = 1..Len(ticket)
         /\ \A t \in DOMAIN ticket : ticket[t] \in Desk!Ticket
         /\ Desk!Tickets \subseteq DOMAIN ticket /\ IsFiniteSet(Desk!Tickets)
         /\ Desk!Cardinality(Desk!Tickets) \in Nat
         /\ resets = 0 /\ NumbersInOrder => Desk!Cardinality(Desk!Tickets) = Len(ticket)
<1>1. ticket \in Seq(Desk!Ticket)
  BY DEF DeskTyped
<1>2. /\ Len(ticket) \in Nat /\ DOMAIN ticket = 1..Len(ticket)
      /\ \A t \in DOMAIN ticket : ticket[t] \in Desk!Ticket
  BY <1>1, LenProperties, ElementOfSeq
<1>3. Desk!Tickets \subseteq 1..Len(ticket)
  BY <1>2 DEF Desk!Tickets
<1>4. IsFiniteSet(1..Len(ticket)) /\ Cardinality(1..Len(ticket)) = Len(ticket)
  <2>1. 0 <= Len(ticket) /\ 1 \in Int /\ Len(ticket) \in Int
    BY <1>2
  <2>2. Cardinality(1..Len(ticket)) = IF 1 > Len(ticket) THEN 0 ELSE Len(ticket) - 1 + 1
    BY <2>1, FS_Interval
  <2>3. (IF 1 > Len(ticket) THEN 0 ELSE Len(ticket) - 1 + 1) = Len(ticket)
    BY <2>1
  <2>4. IsFiniteSet(1..Len(ticket))
    BY <2>1, FS_Interval
  <2> QED
    BY <2>2, <2>3, <2>4
<1>5. IsFiniteSet(Desk!Tickets) /\ Cardinality(Desk!Tickets) \in Nat
  BY <1>3, <1>4, FS_Subset, FS_CardinalityType
<1>6. Desk!Cardinality(Desk!Tickets) = Cardinality(Desk!Tickets)
  BY DEF Desk!Cardinality, Cardinality
<1>7. ASSUME resets = 0, NumbersInOrder PROVE Desk!Tickets = 1..Len(ticket)
  BY <1>2, <1>7 DEF NumbersInOrder, Desk!Tickets
<1> QED
  BY <1>2, <1>3, <1>4, <1>5, <1>6, <1>7

LEMMA DeskStarts ==
  ASSUME NEW op \in {"insert", "describe", "progress", "answer"}, NEW t \in Nat, Desk!Start(op, t)
  PROVE  \E e \in DeskCall : e.op = op /\ e.t = t /\ ticket_calls' = ticket_calls \cup {e}
<1>1. PICK n \in 1..MaxCalls : ticket_calls' = ticket_calls \cup {[op |-> op, t |-> t, n |-> n]}
  BY DEF Desk!Start
<1>2. [op |-> op, t |-> t, n |-> n] \in DeskCall
  BY DEF DeskCall
<1> QED
  BY <1>1, <1>2

LEMMA DeskContinues ==
  ASSUME NEW c \in ticket_calls, ticket_calls \subseteq DeskCall, NEW t \in Nat,
         NEW op \in {"insert", "describe", "progress", "answer"}, Desk!Continue(c, op, t)
  PROVE  \E e \in DeskCall : /\ e.op = op /\ e.t = t
                             /\ ticket_calls' = (ticket_calls \ {c}) \cup {e}
<1> DEFINE e == [c EXCEPT !.op = op, !.t = t]
<1>1. c \in DeskCall
  OBVIOUS
<1>2. e \in DeskCall /\ e.op = op /\ e.t = t
  BY <1>1 DEF DeskCall
<1>3. ticket_calls' = (ticket_calls \ {c}) \cup {e}
  BY DEF Desk!Continue
<1> HIDE DEF e
<1> QED
  BY <1>2, <1>3

\* A write changes one ticket that exists, never its number.
LEMMA DeskSets ==
  ASSUME DeskTyped, NEW t \in DOMAIN ticket, NEW s \in Desk!Status, Desk!SetStatus(t, s)
  PROVE  /\ ticket' \in Seq(Desk!Ticket) /\ Len(ticket') = Len(ticket) /\ DOMAIN ticket' = DOMAIN ticket
         /\ \A i \in DOMAIN ticket :
              /\ ticket'[i].number = ticket[i].number /\ ticket'[i].messages = ticket[i].messages
              /\ ticket'[i].status = IF i = t /\ Desk!Exists(t) THEN s ELSE ticket[i].status
<1>1. ticket \in Seq(Desk!Ticket) /\ t \in 1..Len(ticket) /\ ticket[t] \in Desk!Ticket
  BY DeskDomain DEF DeskTyped
<1>2. CASE ~Desk!Exists(t)
  BY <1>1, <1>2 DEF Desk!SetStatus
<1>3. CASE Desk!Exists(t)
  <2> DEFINE row == [ticket[t] EXCEPT !.status = s]
  <2>1. /\ row \in Desk!Ticket /\ row.status = s
        /\ row.number = ticket[t].number /\ row.messages = ticket[t].messages
    BY <1>1 DEF Desk!Ticket
  <2>2. ticket' = [ticket EXCEPT ![t] = row]
    BY <1>3 DEF Desk!SetStatus
  <2> HIDE DEF row
  <2>3. /\ ticket' \in Seq(Desk!Ticket) /\ Len(ticket') = Len(ticket)
        /\ \A i \in 1..Len(ticket) : ticket'[i] = IF i = t THEN row ELSE ticket[i]
    BY <1>1, <2>1, <2>2, ExceptSeq
  <2>4. DOMAIN ticket = 1..Len(ticket) /\ DOMAIN ticket' = DOMAIN ticket
    BY <1>1, <2>2, DeskDomain
  <2> QED
    BY <1>3, <2>1, <2>3, <2>4
<1> QED
  BY <1>2, <1>3

LEMMA DeskWrites ==
  ASSUME DeskTyped, NEW t \in DOMAIN ticket, NEW who \in {"customer", "admin"}, Desk!Write(t, who)
  PROVE  /\ ticket' \in Seq(Desk!Ticket) /\ Len(ticket') = Len(ticket) /\ DOMAIN ticket' = DOMAIN ticket
         /\ \A i \in DOMAIN ticket :
              /\ ticket'[i].number = ticket[i].number /\ ticket'[i].status = ticket[i].status
              /\ ticket'[i].messages = IF i = t /\ Desk!Exists(t) THEN ticket[i].messages \cup {who}
                                       ELSE ticket[i].messages
<1>1. ticket \in Seq(Desk!Ticket) /\ t \in 1..Len(ticket) /\ ticket[t] \in Desk!Ticket
  BY DeskDomain DEF DeskTyped
<1>2. CASE ~Desk!Exists(t)
  BY <1>1, <1>2 DEF Desk!Write
<1>3. CASE Desk!Exists(t)
  <2> DEFINE row == [ticket[t] EXCEPT !.messages = @ \cup {who}]
  <2>1. /\ row \in Desk!Ticket /\ row.messages = ticket[t].messages \cup {who}
        /\ row.number = ticket[t].number /\ row.status = ticket[t].status
    BY <1>1 DEF Desk!Ticket
  <2>2. ticket' = [ticket EXCEPT ![t] = row]
    BY <1>3 DEF Desk!Write
  <2> HIDE DEF row
  <2>3. /\ ticket' \in Seq(Desk!Ticket) /\ Len(ticket') = Len(ticket)
        /\ \A i \in 1..Len(ticket) : ticket'[i] = IF i = t THEN row ELSE ticket[i]
    BY <1>1, <2>1, <2>2, ExceptSeq
  <2>4. DOMAIN ticket = 1..Len(ticket) /\ DOMAIN ticket' = DOMAIN ticket
    BY <1>1, <2>2, DeskDomain
  <2> QED
    BY <1>3, <2>1, <2>3, <2>4
<1> QED
  BY <1>2, <1>3

LEMMA DeskCreate == DeskInv /\ Desk!CreateTicket => DeskInv'
<1> SUFFICES ASSUME DeskInv, Desk!CreateTicket PROVE DeskInv'
  OBVIOUS
<1> DEFINE next == Desk!Cardinality(Desk!Tickets) + 1
<1>1. Desk!Start("insert", next) /\ UNCHANGED <<ticket, resets, settled, reopened>>
  BY DEF Desk!CreateTicket
<1>2. DeskTyped /\ NumbersInOrder
  BY DEF DeskInv
<1>3. next \in Nat \ {0} /\ (resets = 0 => next = Len(ticket) + 1)
  BY <1>2, DeskDomain
<1> HIDE DEF next
<1>4. PICK e \in DeskCall : e.op = "insert" /\ e.t = next /\ ticket_calls' = ticket_calls \cup {e}
  BY <1>1, <1>3, DeskStarts
<1>5. Desk!Tickets' = Desk!Tickets /\ \A t : Desk!Exists(t)' <=> Desk!Exists(t)
  BY <1>1 DEF Desk!Tickets, Desk!Exists
<1>6. DeskTyped'
  BY <1>1, <1>2, <1>4 DEF DeskTyped
<1>7. resets = 0 => e.t \in 1..Len(ticket) + 1
  BY <1>2, <1>3, <1>4, DeskDomain
<1>8. NumbersInOrder'
  BY <1>1, <1>2, <1>4, <1>5, <1>7 DEF NumbersInOrder
<1>9. AnswersKnow' /\ TicketsDecided'
  BY <1>1, <1>4, <1>5 DEF DeskInv, AnswersKnow, TicketsDecided
<1> QED
  BY <1>6, <1>8, <1>9 DEF DeskInv

LEMMA DeskInsert ==
  ASSUME DeskInv, NEW c \in ticket_calls, Desk!InsertTicket(c)
  PROVE  DeskInv'
<1> DEFINE row == [number |-> c.t, status |-> "open", messages |-> {}]
<1>0. Len(ticket) \in Nat
  BY DeskDomain DEF DeskInv
<1> PICK last \in Nat : last = Len(ticket) + 1
  BY <1>0
<1>1. /\ c.op = "insert" /\ c.t \notin Desk!TicketNumbers /\ ticket' = Append(ticket, row)
      /\ Desk!Continue(c, "describe", last) /\ UNCHANGED <<resets, settled, reopened>>
  BY DEF Desk!InsertTicket
<1>2. DeskTyped /\ NumbersInOrder /\ AnswersKnow /\ TicketsDecided
  BY DEF DeskInv
<1>3. c.t \in Nat
  BY <1>2 DEF DeskTyped, DeskCall
<1>4. row \in Desk!Ticket /\ row.number = c.t /\ row.status = "open" /\ row.messages = {}
  BY <1>3 DEF Desk!Ticket, Desk!Status
<1> HIDE DEF row
<1>5. ticket \in Seq(Desk!Ticket) /\ ticket' \in Seq(Desk!Ticket)
  BY <1>1, <1>2, <1>4 DEF DeskTyped
<1>6. /\ Len(ticket) \in Nat /\ Len(ticket') = last /\ last \in Nat
      /\ DOMAIN ticket = 1..Len(ticket) /\ DOMAIN ticket' = 1..last
      /\ ticket'[last] = row /\ \A i \in 1..Len(ticket) : ticket'[i] = ticket[i]
  BY <1>1, <1>4, <1>5
<1>7. last \notin DOMAIN ticket /\ DOMAIN ticket' = DOMAIN ticket \cup {last}
  BY <1>6
<1>8. PICK e \in DeskCall : /\ e.op = "describe" /\ e.t = last
                            /\ ticket_calls' = (ticket_calls \ {c}) \cup {e}
  BY <1>1, <1>2, <1>6, DeskContinues DEF DeskTyped
<1>9. \A t \in DOMAIN ticket : ticket'[t] = ticket[t] /\ (Desk!Exists(t)' <=> Desk!Exists(t))
  BY <1>6, <1>7 DEF Desk!Exists
<1>10. Desk!Exists(last)' /\ Desk!Tickets' = Desk!Tickets \cup {last}
  BY <1>4, <1>6, <1>7, <1>9 DEF Desk!Exists, Desk!Tickets
<1>11. Desk!Tickets \subseteq DOMAIN ticket
  BY DEF Desk!Tickets
<1>12. DeskTyped'
  BY <1>1, <1>2, <1>5, <1>7, <1>8 DEF DeskTyped
<1>13. NumbersInOrder'
  <2>1. \A s \in Desk!Tickets : ticket[s].number # c.t
    BY <1>1 DEF Desk!TicketNumbers
  <2>2. \A s, t \in Desk!Tickets' : ticket'[s].number = ticket'[t].number => s = t
    BY <1>2, <1>4, <1>6, <1>9, <1>10, <1>11, <2>1 DEF NumbersInOrder
  <2>3. ASSUME resets = 0 PROVE c.t = last
    <3>1. c.t \in 1..last
      BY <1>1, <1>2, <2>3 DEF NumbersInOrder
    <3>2. ASSUME c.t \in DOMAIN ticket PROVE FALSE
      <4>1. c.t \in Desk!Tickets /\ ticket[c.t].number = c.t
        BY <1>2, <2>3, <3>2 DEF NumbersInOrder, Desk!Tickets
      <4> QED
        BY <2>1, <4>1
    <3> QED
      BY <1>6, <1>7, <3>1, <3>2
  <2>4. ASSUME resets = 0
        PROVE  /\ \A t \in DOMAIN ticket' : Desk!Exists(t)' /\ ticket'[t].number = t
               /\ \A d \in ticket_calls' : d.op = "insert" => d.t \in 1..Len(ticket') + 1
    <3>1. \A t \in DOMAIN ticket' : Desk!Exists(t)' /\ ticket'[t].number = t
      BY <1>2, <1>4, <1>6, <1>7, <1>9, <1>10, <2>3, <2>4 DEF NumbersInOrder
    <3>2. \A d \in ticket_calls : d.op = "insert" => d.t \in 1..last
      BY <1>2, <2>4 DEF NumbersInOrder
    <3>3. 1..last \subseteq 1..(last + 1)
      BY <1>6
    <3> QED
      BY <1>6, <1>8, <3>1, <3>2, <3>3
  <2> QED
    BY <1>1, <2>2, <2>4 DEF NumbersInOrder
<1>14. AnswersKnow'
  BY <1>1, <1>2, <1>7, <1>8, <1>9 DEF AnswersKnow
<1>15. TicketsDecided'
  BY <1>1, <1>2, <1>4, <1>6, <1>9, <1>10, <1>11 DEF TicketsDecided, DeskTyped
<1> QED
  BY <1>12, <1>13, <1>14, <1>15 DEF DeskInv

\* A step of a handler that changes no ticket.
LEMMA DeskTicketsStay ==
  ASSUME DeskInv, UNCHANGED <<ticket, resets, settled, reopened>>
  PROVE  /\ Desk!Tickets' = Desk!Tickets /\ \A t : Desk!Exists(t)' <=> Desk!Exists(t)
         /\ TicketsDecided'
<1>1. Desk!Tickets' = Desk!Tickets /\ \A t : Desk!Exists(t)' <=> Desk!Exists(t)
  BY DEF Desk!Tickets, Desk!Exists
<1> QED
  BY <1>1 DEF DeskInv, TicketsDecided

LEMMA DeskReply ==
  ASSUME DeskInv, NEW t \in DOMAIN ticket, Desk!ReplyToTicket(t)
  PROVE  DeskInv'
<1>1. PICK op \in {"progress", "answer"} :
        Desk!Start(op, t) /\ (op = "progress" <=> ticket[t].status = "open")
  BY DEF Desk!ReplyToTicket
<1>2. UNCHANGED <<ticket, resets, settled, reopened>>
  BY DEF Desk!ReplyToTicket
<1>3. DeskTyped /\ NumbersInOrder /\ AnswersKnow /\ TicketsDecided
  BY DEF DeskInv
<1>4. t \in Nat
  BY <1>3, DeskDomain
<1>5. PICK e \in DeskCall : e.op = op /\ e.t = t /\ ticket_calls' = ticket_calls \cup {e}
  BY <1>1, <1>4, DeskStarts
<1>6. /\ Desk!Tickets' = Desk!Tickets /\ \A s : Desk!Exists(s)' <=> Desk!Exists(s)
      /\ TicketsDecided'
  BY <1>2, DeskTicketsStay
<1>7. DeskTyped'
  BY <1>2, <1>3, <1>5 DEF DeskTyped
<1>8. NumbersInOrder'
  BY <1>2, <1>3, <1>5, <1>6 DEF NumbersInOrder
<1>9. op = "progress" => t \notin settled
  BY <1>1, <1>3 DEF TicketsDecided
<1>10. AnswersKnow'
  BY <1>1, <1>2, <1>3, <1>5, <1>6, <1>9 DEF AnswersKnow
<1> QED
  BY <1>6, <1>7, <1>8, <1>10 DEF DeskInv

LEMMA DeskFail ==
  ASSUME DeskInv, NEW c \in ticket_calls, Desk!Fail(c)
  PROVE  DeskInv'
<1>1. ticket_calls' = ticket_calls \ {c} /\ UNCHANGED <<ticket, resets, settled, reopened>>
  BY DEF Desk!Fail, Desk!Return
<1>2. /\ Desk!Tickets' = Desk!Tickets /\ \A t : Desk!Exists(t)' <=> Desk!Exists(t)
      /\ TicketsDecided'
  BY <1>1, DeskTicketsStay
<1> QED
  BY <1>1, <1>2 DEF DeskInv, DeskTyped, NumbersInOrder, AnswersKnow

\* What a write leaves as it was.
LEMMA DeskSame ==
  ASSUME DeskTyped, DOMAIN ticket' = DOMAIN ticket, Len(ticket') = Len(ticket),
         \A i \in DOMAIN ticket : /\ ticket'[i].number = ticket[i].number
                                  /\ ticket'[i].status = "deleted" <=> ticket[i].status = "deleted"
  PROVE  /\ Desk!Tickets' = Desk!Tickets /\ \A t : Desk!Exists(t)' <=> Desk!Exists(t)
         /\ \A t \in Desk!Tickets : t \in DOMAIN ticket
  BY DEF Desk!Tickets, Desk!Exists

LEMMA DeskWritten ==
  ASSUME DeskInv, NEW c \in ticket_calls, Desk!DescribeTicket(c) \/ Desk!Answer(c)
  PROVE  DeskInv'
<1>1. PICK who \in {"customer", "admin"} :
        Desk!Write(c.t, who) /\ (who = "admin" => c.op = "answer") /\ c.op # "insert"
  BY DEF Desk!DescribeTicket, Desk!Answer
<1>2. ticket_calls' = ticket_calls \ {c} /\ UNCHANGED <<resets, settled, reopened>>
  BY DEF Desk!DescribeTicket, Desk!Answer, Desk!Return
<1>3. DeskTyped /\ NumbersInOrder /\ AnswersKnow /\ TicketsDecided
  BY DEF DeskInv
<1>4. c.t \in DOMAIN ticket
  BY <1>1, <1>3 DEF AnswersKnow
<1>5. /\ ticket' \in Seq(Desk!Ticket) /\ Len(ticket') = Len(ticket) /\ DOMAIN ticket' = DOMAIN ticket
      /\ \A i \in DOMAIN ticket :
           /\ ticket'[i].number = ticket[i].number /\ ticket'[i].status = ticket[i].status
           /\ ticket'[i].messages = IF i = c.t /\ Desk!Exists(c.t) THEN ticket[i].messages \cup {who}
                                    ELSE ticket[i].messages
  BY <1>1, <1>3, <1>4, DeskWrites
<1>6. /\ Desk!Tickets' = Desk!Tickets /\ \A t : Desk!Exists(t)' <=> Desk!Exists(t)
      /\ \A t \in Desk!Tickets : t \in DOMAIN ticket
  BY <1>3, <1>5, DeskSame
<1>7. DeskTyped'
  BY <1>2, <1>3, <1>5 DEF DeskTyped
<1>8. NumbersInOrder'
  <2>1. \A s, t \in Desk!Tickets' : ticket'[s].number = ticket'[t].number => s = t
    <3>1. \A s \in Desk!Tickets : ticket'[s].number = ticket[s].number
      BY <1>5, <1>6
    <3> QED
      BY <1>3, <1>6, <3>1 DEF NumbersInOrder
  <2>2. resets = 0 =>
          /\ \A t \in DOMAIN ticket' : Desk!Exists(t)' /\ ticket'[t].number = t
          /\ \A d \in ticket_calls' : d.op = "insert" => d.t \in 1..Len(ticket') + 1
    BY <1>2, <1>3, <1>5, <1>6 DEF NumbersInOrder
  <2> QED
    BY <1>2, <2>1, <2>2 DEF NumbersInOrder
<1>9. AnswersKnow'
  BY <1>2, <1>3, <1>5, <1>6 DEF AnswersKnow
<1>10. \A t \in settled : ticket'[t].status \in {"resolved", "closed"}
  BY <1>3, <1>5 DEF TicketsDecided, DeskTyped
<1>11. ASSUME NEW t \in Desk!Tickets, "admin" \in ticket'[t].messages, ticket'[t].status = "open"
       PROVE  t \in reopened
  <2>1. t \in DOMAIN ticket /\ ticket[t].status = "open" /\ Desk!Exists(t)
    BY <1>5, <1>6, <1>11 DEF Desk!Tickets
  <2>2. CASE "admin" \in ticket[t].messages
    BY <1>3, <2>1, <2>2 DEF TicketsDecided
  <2>3. CASE "admin" \notin ticket[t].messages
    <3>1. t = c.t /\ who = "admin"
      BY <1>5, <1>11, <2>1, <2>3
    <3> QED
      BY <1>1, <1>3, <2>1, <3>1 DEF AnswersKnow
  <2> QED
    BY <2>2, <2>3
<1>12. TicketsDecided'
  BY <1>2, <1>6, <1>10, <1>11 DEF TicketsDecided
<1> QED
  BY <1>7, <1>8, <1>9, <1>12 DEF DeskInv

LEMMA DeskTakeUp ==
  ASSUME DeskInv, NEW c \in ticket_calls, Desk!TakeUp(c)
  PROVE  DeskInv'
<1>1. /\ c.op = "progress" /\ Desk!SetStatus(c.t, "in_progress") /\ reopened' = reopened \ {c.t}
      /\ Desk!Continue(c, "answer", c.t) /\ UNCHANGED <<resets, settled>>
  BY DEF Desk!TakeUp
<1>2. DeskTyped /\ NumbersInOrder /\ AnswersKnow /\ TicketsDecided
  BY DEF DeskInv
<1>3. c.t \in DOMAIN ticket /\ c.t \notin settled
  BY <1>1, <1>2 DEF AnswersKnow
<1>4. c.t \in Nat /\ "in_progress" \in Desk!Status
  BY <1>2 DEF DeskTyped, DeskCall, Desk!Status
<1>5. PICK e \in DeskCall : /\ e.op = "answer" /\ e.t = c.t
                            /\ ticket_calls' = (ticket_calls \ {c}) \cup {e}
  BY <1>1, <1>2, <1>4, DeskContinues DEF DeskTyped
<1>6. /\ ticket' \in Seq(Desk!Ticket) /\ Len(ticket') = Len(ticket) /\ DOMAIN ticket' = DOMAIN ticket
      /\ \A i \in DOMAIN ticket :
           /\ ticket'[i].number = ticket[i].number /\ ticket'[i].messages = ticket[i].messages
           /\ ticket'[i].status = IF i = c.t /\ Desk!Exists(c.t) THEN "in_progress"
                                  ELSE ticket[i].status
  BY <1>1, <1>2, <1>3, <1>4, DeskSets
<1>7. /\ Desk!Tickets' = Desk!Tickets /\ \A t : Desk!Exists(t)' <=> Desk!Exists(t)
      /\ \A t \in Desk!Tickets : t \in DOMAIN ticket
  BY <1>2, <1>6, DeskSame DEF Desk!Exists
<1>8. DeskTyped'
  BY <1>1, <1>2, <1>5, <1>6 DEF DeskTyped
<1>9. NumbersInOrder'
  BY <1>1, <1>2, <1>5, <1>6, <1>7 DEF NumbersInOrder
<1>10. AnswersKnow'
  BY <1>1, <1>2, <1>3, <1>5, <1>6, <1>7 DEF AnswersKnow, Desk!Exists
<1>11. TicketsDecided'
  BY <1>1, <1>2, <1>3, <1>6, <1>7 DEF TicketsDecided, DeskTyped, Desk!Tickets
<1> QED
  BY <1>8, <1>9, <1>10, <1>11 DEF DeskInv

LEMMA DeskUpdateStatus ==
  ASSUME DeskInv, NEW t \in DOMAIN ticket, NEW s \in Desk!Status, Desk!UpdateTicketStatus(t, s)
  PROVE  DeskInv'
<1>1. /\ Desk!Exists(t) /\ Desk!SetStatus(t, s) /\ UNCHANGED <<ticket_calls, resets>>
      /\ reopened' = IF s = "open" THEN reopened \cup {t} ELSE reopened \ {t}
      /\ settled' = IF s \in {"resolved", "closed"} /\ \A c \in ticket_calls : c.op = "progress" => c.t # t
                    THEN settled \cup {t} ELSE settled \ {t}
  BY DEF Desk!UpdateTicketStatus
<1>2. DeskTyped /\ NumbersInOrder /\ AnswersKnow /\ TicketsDecided
  BY DEF DeskInv
<1>3. /\ ticket' \in Seq(Desk!Ticket) /\ Len(ticket') = Len(ticket) /\ DOMAIN ticket' = DOMAIN ticket
      /\ \A i \in DOMAIN ticket :
           /\ ticket'[i].number = ticket[i].number /\ ticket'[i].messages = ticket[i].messages
           /\ ticket'[i].status = IF i = t THEN s ELSE ticket[i].status
  BY <1>1, <1>2, DeskSets
<1>4. s # "deleted"
  BY DEF Desk!Status
<1>5. /\ Desk!Tickets' = Desk!Tickets /\ \A i : Desk!Exists(i)' <=> Desk!Exists(i)
      /\ \A i \in Desk!Tickets : i \in DOMAIN ticket
  BY <1>1, <1>2, <1>3, <1>4, DeskSame DEF Desk!Exists
<1>6. settled' \subseteq settled \cup {t} /\ reopened' \subseteq reopened \cup {t}
  BY <1>1
<1>7. DeskTyped'
  BY <1>1, <1>2, <1>3, <1>6 DEF DeskTyped
<1>8. NumbersInOrder'
  BY <1>1, <1>2, <1>3, <1>5 DEF NumbersInOrder
<1>9. AnswersKnow'
  <2> SUFFICES ASSUME NEW c \in ticket_calls
               PROVE  /\ c.op # "insert" => c.t \in DOMAIN ticket
                      /\ c.op = "progress" => c.t \notin settled'
                      /\ c.op = "answer" /\ Desk!Exists(c.t) /\ ticket'[c.t].status = "open"
                           => c.t \in reopened'
    BY <1>1, <1>3, <1>5 DEF AnswersKnow
  <2>1. c.op # "insert" => c.t \in DOMAIN ticket
    BY <1>2 DEF AnswersKnow
  <2>2. c.op = "progress" => c.t \notin settled'
    BY <1>1, <1>2 DEF AnswersKnow
  <2>3. ASSUME c.op = "answer", Desk!Exists(c.t), ticket'[c.t].status = "open" PROVE c.t \in reopened'
    <3>1. CASE c.t = t
      BY <1>1, <1>3, <2>3, <3>1
    <3>2. CASE c.t # t
      BY <1>1, <1>2, <1>3, <2>1, <2>3, <3>2 DEF AnswersKnow
    <3> QED
      BY <3>1, <3>2
  <2> QED
    BY <2>1, <2>2, <2>3
<1>10. \A i \in settled' : ticket'[i].status \in {"resolved", "closed"}
  BY <1>1, <1>2, <1>3 DEF TicketsDecided, DeskTyped
<1>11. ASSUME NEW i \in Desk!Tickets, "admin" \in ticket'[i].messages, ticket'[i].status = "open"
       PROVE  i \in reopened'
  <2>1. CASE i = t
    BY <1>1, <1>3, <1>11, <2>1
  <2>2. CASE i # t
    BY <1>1, <1>2, <1>3, <1>5, <1>11, <2>2 DEF TicketsDecided
  <2> QED
    BY <2>1, <2>2
<1>12. TicketsDecided'
  BY <1>5, <1>10, <1>11 DEF TicketsDecided
<1> QED
  BY <1>7, <1>8, <1>9, <1>12 DEF DeskInv

LEMMA DeskReset ==
  ASSUME DeskInv, NEW ts \in SUBSET Desk!Tickets, Desk!ResetDriverData(ts)
  PROVE  DeskInv'
<1>1. /\ resets' = resets + 1 /\ ticket_calls' = ticket_calls
      /\ ticket' = [t \in DOMAIN ticket |->
                      IF t \in ts THEN [ticket[t] EXCEPT !.status = "deleted"] ELSE ticket[t]]
      /\ settled' = settled \ ts /\ reopened' = reopened \ ts
  BY DEF Desk!ResetDriverData
<1>2. DeskTyped /\ NumbersInOrder /\ AnswersKnow /\ TicketsDecided
  BY DEF DeskInv
<1>3. /\ Len(ticket) \in Nat /\ DOMAIN ticket = 1..Len(ticket)
      /\ \A t \in DOMAIN ticket : ticket[t] \in Desk!Ticket
  BY <1>2, DeskDomain
<1>4. \A t \in DOMAIN ticket :
        /\ [ticket[t] EXCEPT !.status = "deleted"] \in Desk!Ticket
        /\ [ticket[t] EXCEPT !.status = "deleted"].number = ticket[t].number
        /\ [ticket[t] EXCEPT !.status = "deleted"].messages = ticket[t].messages
        /\ [ticket[t] EXCEPT !.status = "deleted"].status = "deleted"
  BY <1>3 DEF Desk!Ticket
<1>5. /\ ticket' \in [1..Len(ticket) -> Desk!Ticket] /\ DOMAIN ticket' = DOMAIN ticket
      /\ \A t \in DOMAIN ticket :
           /\ ticket'[t].number = ticket[t].number /\ ticket'[t].messages = ticket[t].messages
           /\ ticket'[t].status = IF t \in ts THEN "deleted" ELSE ticket[t].status
  BY <1>1, <1>3, <1>4
<1>6. ticket' \in Seq(Desk!Ticket)
  BY <1>3, <1>5, SeqDef
<1>7. \A t : Desk!Exists(t)' <=> Desk!Exists(t) /\ t \notin ts
  BY <1>5 DEF Desk!Exists
<1>8. Desk!Tickets' = Desk!Tickets \ ts /\ Desk!Tickets \subseteq DOMAIN ticket
  BY <1>5, <1>7 DEF Desk!Tickets
<1>9. resets \in Nat /\ resets' \in Nat /\ resets' # 0
  BY <1>1, <1>2 DEF DeskTyped
<1>10. DeskTyped'
  BY <1>1, <1>2, <1>5, <1>6, <1>9 DEF DeskTyped
<1>11. NumbersInOrder'
  BY <1>2, <1>5, <1>8, <1>9 DEF NumbersInOrder
<1>12. AnswersKnow'
  <2> SUFFICES ASSUME NEW c \in ticket_calls
               PROVE  /\ c.op # "insert" => c.t \in DOMAIN ticket
                      /\ c.op = "progress" => c.t \notin settled \ ts
                      /\ c.op = "answer" /\ Desk!Exists(c.t) /\ c.t \notin ts
                           /\ ticket'[c.t].status = "open" => c.t \in reopened \ ts
    BY <1>1, <1>5, <1>7 DEF AnswersKnow
  <2>1. /\ c.op # "insert" => c.t \in DOMAIN ticket
        /\ c.op = "progress" => c.t \notin settled
        /\ c.op = "answer" /\ Desk!Exists(c.t) /\ ticket[c.t].status = "open" => c.t \in reopened
    BY <1>2 DEF AnswersKnow
  <2> QED
    BY <1>5, <2>1
<1>13. \A t \in settled \ ts : ticket'[t].status \in {"resolved", "closed"}
  BY <1>2, <1>5 DEF TicketsDecided, DeskTyped
<1>14. ASSUME NEW t \in Desk!Tickets \ ts, "admin" \in ticket'[t].messages, ticket'[t].status = "open"
       PROVE  t \in reopened \ ts
  BY <1>2, <1>5, <1>8, <1>14 DEF TicketsDecided
<1>15. TicketsDecided'
  BY <1>1, <1>8, <1>13, <1>14 DEF TicketsDecided
<1> QED
  BY <1>10, <1>11, <1>12, <1>15 DEF DeskInv

LEMMA DeskInvNext == DeskInv /\ [Desk!Next]_(Desk!vars) => DeskInv'
<1> SUFFICES ASSUME DeskInv, [Desk!Next]_(Desk!vars) PROVE DeskInv'
  OBVIOUS
<1>1. CASE UNCHANGED Desk!vars
  <2>1. UNCHANGED <<ticket, ticket_calls, resets, settled, reopened>>
    BY <1>1 DEF Desk!vars
  <2>2. /\ Desk!Tickets' = Desk!Tickets /\ \A t : Desk!Exists(t)' <=> Desk!Exists(t)
        /\ TicketsDecided'
    BY <2>1, DeskTicketsStay
  <2> QED
    BY <2>1, <2>2 DEF DeskInv, DeskTyped, NumbersInOrder, AnswersKnow
<1>2. CASE Desk!CreateTicket
  BY <1>2, DeskCreate
<1>3. ASSUME NEW t \in DOMAIN ticket, Desk!ReplyToTicket(t) PROVE DeskInv'
  BY <1>3, DeskReply
<1>4. ASSUME NEW t \in DOMAIN ticket, NEW s \in Desk!Status, Desk!UpdateTicketStatus(t, s) PROVE DeskInv'
  BY <1>4, DeskUpdateStatus
<1>5. ASSUME NEW ts \in SUBSET Desk!Tickets, Desk!ResetDriverData(ts) PROVE DeskInv'
  BY <1>5, DeskReset
<1>6. ASSUME NEW c \in ticket_calls,
             \/ Desk!InsertTicket(c) \/ Desk!DescribeTicket(c) \/ Desk!TakeUp(c)
             \/ Desk!Answer(c) \/ Desk!Fail(c)
      PROVE  DeskInv'
  BY <1>6, DeskInsert, DeskWritten, DeskTakeUp, DeskFail
<1> QED
  BY <1>1, <1>2, <1>3, <1>4, <1>5, <1>6 DEF Desk!Next

LEMMA DeskInvGives == DeskInv => Desk!TicketsInOrder
<1> SUFFICES ASSUME DeskInv PROVE Desk!TicketsInOrder
  OBVIOUS
<1>1. DeskTyped /\ NumbersInOrder /\ TicketsDecided
  BY DEF DeskInv
<1>2. Desk!Cardinality(Desk!TicketNumbers) = Desk!Cardinality(Desk!Tickets)
  <2> DEFINE f == [t \in Desk!Tickets |-> ticket[t].number]
  <2>1. f \in Bijection(Desk!Tickets, Desk!TicketNumbers)
    <3>1. f \in [Desk!Tickets -> Desk!TicketNumbers] /\ \A n \in Desk!TicketNumbers : \E t \in Desk!Tickets : f[t] = n
      BY DEF Desk!TicketNumbers
    <3>2. \A s, t \in Desk!Tickets : f[s] = f[t] => s = t
      BY <1>1 DEF NumbersInOrder
    <3> HIDE DEF f
    <3> QED
      BY <3>1, <3>2 DEF Bijection, Injection, Surjection, IsInjective
  <2>2. ExistsBijection(Desk!Tickets, Desk!TicketNumbers)
    BY <2>1, Fun_ExistsBij
  <2>3. Cardinality(Desk!TicketNumbers) = Cardinality(Desk!Tickets)
    BY <1>1, <2>2, DeskDomain, FS_Bijection
  <2>4. \A S : Desk!Cardinality(S) = Cardinality(S)
    BY DEF Desk!Cardinality, Cardinality
  <2> QED
    BY <2>3, <2>4
<1>3. ASSUME resets = 0 PROVE Desk!TicketNumbers = 1..Desk!Cardinality(Desk!Tickets)
  <2>1. Desk!Cardinality(Desk!Tickets) = Len(ticket) /\ DOMAIN ticket = 1..Len(ticket)
    BY <1>1, <1>3, DeskDomain
  <2>2. Desk!Tickets = DOMAIN ticket /\ \A t \in DOMAIN ticket : ticket[t].number = t
    BY <1>1, <1>3 DEF NumbersInOrder, Desk!Tickets
  <2>3. Desk!TicketNumbers = DOMAIN ticket
    BY <2>2 DEF Desk!TicketNumbers
  <2> QED
    BY <2>1, <2>3
<1> QED
  BY <1>1, <1>2, <1>3 DEF TicketsDecided, Desk!TicketsInOrder

\* Tickets are numbered in order and told apart, and what an admin settled stays
\* settled unless the admin reopens it or an answer had begun to take it up.
THEOREM TicketsKeepOrder == Desk!Spec => []Desk!TicketsInOrder
  BY DeskStart, DeskInvNext, DeskInvGives, PTL DEF Desk!Spec

LEMMA DeskRuns == ServicesSpec => Desk!Spec
<1>1. ServicesInit => Desk!Init
  BY DEF ServicesInit
<1>2. [ServicesNext]_<<at_work, vars, wallets, ends, funds, uses, banks, reports, desk,
                         rules, rewards, reviews>> => [Desk!Next]_(Desk!vars)
  BY DEF ServicesNext, desk, Desk!vars
<1> QED
  BY <1>1, <1>2, PTL DEF ServicesSpec, Desk!Spec

\* Tickets keep their numbers and decisions, in the services together.
THEOREM TicketsKept == ServicesSpec => []TicketsInOrder
<1>1. Desk!TicketsInOrder => TicketsInOrder
  BY DEF TicketsInOrder
<1> QED
  BY <1>1, DeskRuns, TicketsKeepOrder, PTL

(***************************************************************************)
(* Bank accounts.                                                          *)
(***************************************************************************)

BankCall == [op : Banks!Op, a : Nat, was : Banks!Row, row : Banks!Row, n : 1..MaxCalls]

BanksTyped ==
  /\ account \in [Banks!Accounts -> Banks!Row] /\ account_count \in Nat
  /\ bank_calls \subseteq BankCall /\ bank_disturbed \in BOOLEAN

\* What a handler makes of the row it read: a row that exists, primary or as it was.
CallsMean ==
  \A c \in bank_calls :
    /\ c.op \in {"update", "remove", "promote", "unset", "set"} =>
         c.a \in Banks!Accounts /\ c.a <= account_count
    /\ c.op \in {"insert", "update", "promote", "unset", "set"} => c.row.exists
    /\ c.op \in {"promote", "unset", "set"} => c.row.primary
    /\ c.op = "update" => c.was.exists /\ c.row.primary = c.was.primary
    /\ c.op \in {"promote", "unset", "set"} => c.was.exists

\* The handlers that are to make an account primary.
Choosing == {"find", "promote", "set"}

\* At most one account is primary; where none is, a handler is to make one so.
OneIsPrimary ==
  /\ \A a, b \in Banks!Primary : a = b
  /\ Banks!Primary = {} /\ Banks!Live # {} => \E c \in bank_calls : c.op \in Choosing

BanksInv ==
  /\ BanksTyped
  /\ CallsMean
  /\ \A a \in Banks!Live : a <= account_count
  /\ ~bank_disturbed => OneIsPrimary

LEMMA BanksStart == Banks!Init => BanksInv
<1> SUFFICES ASSUME Banks!Init PROVE BanksInv
  OBVIOUS
<1>1. /\ account = [a \in Banks!Accounts |-> Banks!NoRow] /\ account_count = 0
      /\ bank_calls = {} /\ bank_disturbed = FALSE
  BY DEF Banks!Init
<1>2. Banks!NoRow \in Banks!Row /\ ~Banks!NoRow.exists
  BY DEF Banks!NoRow, Banks!Row
<1>3. Banks!Live = {} /\ Banks!Primary = {}
  BY <1>1, <1>2 DEF Banks!Live, Banks!Primary
<1> QED
  BY <1>1, <1>2, <1>3 DEF BanksInv, BanksTyped, CallsMean, OneIsPrimary

\* What is known of an account, of a call.
LEMMA BanksKnown ==
  ASSUME BanksTyped
  PROVE  /\ \A a \in Banks!Accounts : /\ account[a] \in Banks!Row
                                      /\ account[a].exists \in BOOLEAN /\ account[a].primary \in BOOLEAN
         /\ Banks!Live \subseteq Banks!Accounts /\ Banks!Primary \subseteq Banks!Live
         /\ Banks!Accounts \subseteq Nat
         /\ \A c \in bank_calls : /\ c \in BankCall /\ c.a \in Nat /\ c.n \in 1..MaxCalls
                                  /\ c.op \in Banks!Op
                                  /\ c.was \in Banks!Row /\ c.row \in Banks!Row
                                  /\ c.was.exists \in BOOLEAN /\ c.was.primary \in BOOLEAN
                                  /\ c.row.exists \in BOOLEAN /\ c.row.primary \in BOOLEAN
<1>1. \A r \in Banks!Row : r.exists \in BOOLEAN /\ r.primary \in BOOLEAN
  BY DEF Banks!Row
<1>2. \A a \in Banks!Accounts : account[a] \in Banks!Row
  BY DEF BanksTyped
<1>3. \A c \in bank_calls : /\ c \in BankCall /\ c.a \in Nat /\ c.n \in 1..MaxCalls
                            /\ c.op \in Banks!Op
                            /\ c.was \in Banks!Row /\ c.row \in Banks!Row
  BY DEF BanksTyped, BankCall
<1>4. Banks!Live \subseteq Banks!Accounts /\ Banks!Primary \subseteq Banks!Live
  BY DEF Banks!Live, Banks!Primary
<1>5. Banks!Accounts \subseteq Nat
  BY DEF Banks!Accounts
<1> QED
  BY <1>1, <1>2, <1>3, <1>4, <1>5

\* A handler begins: no account changes.
LEMMA BanksBegins ==
  ASSUME BanksInv, NEW op \in Banks!Op, NEW a \in Nat, NEW was \in Banks!Row, NEW row \in Banks!Row,
         Banks!Start(op, a, was, row), UNCHANGED <<account, account_count, bank_disturbed>>,
         op \in {"update", "remove", "unset"} => a \in Banks!Accounts /\ a <= account_count,
         op \in {"insert", "update", "unset"} => row.exists,
         op = "unset" => row.primary,
         op = "update" => was.exists /\ row.primary = was.primary,
         op = "unset" => was.exists,
         op \notin {"promote", "set"}
  PROVE  BanksInv'
<1>1. PICK n \in 1..MaxCalls :
        bank_calls' = bank_calls \cup {[op |-> op, a |-> a, was |-> was, row |-> row, n |-> n]}
  BY DEF Banks!Start
<1> DEFINE e == [op |-> op, a |-> a, was |-> was, row |-> row, n |-> n]
<1>2. /\ e \in BankCall /\ bank_calls' = bank_calls \cup {e}
      /\ e.op = op /\ e.a = a /\ e.was = was /\ e.row = row
  BY <1>1 DEF BankCall
<1> HIDE DEF e
<1>3. BanksTyped'
  BY <1>2 DEF BanksInv, BanksTyped
<1>4. CallsMean'
  BY <1>2 DEF BanksInv, CallsMean
<1>5. Banks!Live' = Banks!Live /\ Banks!Primary' = Banks!Primary
  BY DEF Banks!Live, Banks!Primary
<1>6. ~bank_disturbed' => OneIsPrimary'
  BY <1>2, <1>5 DEF BanksInv, OneIsPrimary
<1> QED
  BY <1>3, <1>4, <1>5, <1>6 DEF BanksInv

\* A handler goes on with its row as it is.
LEMMA BanksContinues ==
  ASSUME BanksTyped, NEW c \in bank_calls, NEW op \in Banks!Op, Banks!Continue(c, op)
  PROVE  \E e \in BankCall : /\ e.op = op /\ e.a = c.a /\ e.was = c.was /\ e.row = c.row
                             /\ bank_calls' = (bank_calls \ {c}) \cup {e}
<1> DEFINE e == [c EXCEPT !.op = op]
<1>1. c \in BankCall
  BY BanksKnown
<1>2. e \in BankCall /\ e.op = op /\ e.a = c.a /\ e.was = c.was /\ e.row = c.row
  BY <1>1 DEF BankCall
<1>3. bank_calls' = (bank_calls \ {c}) \cup {e}
  BY DEF Banks!Continue
<1> HIDE DEF e
<1> QED
  BY <1>2, <1>3

\* Calls that only return, or go on to a step that asks nothing of the accounts.
LEMMA BanksCallsLeft ==
  ASSUME BanksInv, NEW c \in bank_calls,
         \/ bank_calls' = bank_calls \ {c}
         \/ \E e \in BankCall : /\ e.op \in {"synced", "pay_synced", "pay"}
                                /\ bank_calls' = (bank_calls \ {c}) \cup {e},
         account_count' = account_count
  PROVE  bank_calls' \subseteq BankCall /\ CallsMean'
  BY DEF BanksInv, BanksTyped, CallsMean

\* Neither the accounts that exist nor the primary ones change, nor who is to
\* choose one.
LEMMA BanksSame ==
  ASSUME BanksInv, NEW c \in bank_calls, c.op \notin Choosing, bank_calls \ {c} \subseteq bank_calls',
         ~bank_disturbed' => /\ ~bank_disturbed
                             /\ Banks!Live' = Banks!Live /\ Banks!Primary' = Banks!Primary
  PROVE  ~bank_disturbed' => OneIsPrimary'
  BY DEF BanksInv, OneIsPrimary

\* The account that is made primary is the only one.
LEMMA BanksChosen ==
  ASSUME NEW a, Banks!Primary' = {a}
  PROVE  OneIsPrimary'
  BY DEF OneIsPrimary

\* Save writes the row, or the columns the handler changed.
LEMMA BanksSaved ==
  ASSUME BanksTyped, NEW c, c.a \in Banks!Accounts, c.row \in Banks!Row, c.was \in Banks!Row,
         Banks!Save(c)
  PROVE  /\ account' \in [Banks!Accounts -> Banks!Row]
         /\ \A a \in Banks!Accounts : a # c.a => account'[a] = account[a]
         /\ account[c.a] = c.was => account'[c.a] = c.row
         /\ account[c.a] = c.was => account'[c.a].exists = c.row.exists
                                    /\ account'[c.a].primary = c.row.primary
<1>1. account \in [Banks!Accounts -> Banks!Row] /\ account[c.a] \in Banks!Row
  BY DEF BanksTyped
<1>2. CASE account' = [account EXCEPT ![c.a] = c.row]
  BY <1>1, <1>2
<1>3. CASE account' = [account EXCEPT ![c.a] =
                         [f \in DOMAIN @ |-> IF c.row[f] = c.was[f] THEN @[f] ELSE c.row[f]]]
  <2> DEFINE r == [f \in DOMAIN account[c.a] |->
                     IF c.row[f] = c.was[f] THEN account[c.a][f] ELSE c.row[f]]
  <2>1. DOMAIN account[c.a] = {"exists", "number", "primary", "synced"}
    BY <1>1 DEF Banks!Row
  <2>2. r = [exists |-> IF c.row.exists = c.was.exists THEN account[c.a].exists ELSE c.row.exists,
             number |-> IF c.row.number = c.was.number THEN account[c.a].number ELSE c.row.number,
             primary |-> IF c.row.primary = c.was.primary THEN account[c.a].primary ELSE c.row.primary,
             synced |-> IF c.row.synced = c.was.synced THEN account[c.a].synced ELSE c.row.synced]
    BY <2>1
  <2>3. r \in Banks!Row
    BY <1>1, <2>2 DEF Banks!Row
  <2>4. account[c.a] = c.was => r = c.row
    <3> SUFFICES ASSUME account[c.a] = c.was PROVE r = c.row
      OBVIOUS
    <3>1. c.row = [exists |-> c.row.exists, number |-> c.row.number,
                   primary |-> c.row.primary, synced |-> c.row.synced]
      BY DEF Banks!Row
    <3>2. r = [exists |-> c.row.exists, number |-> c.row.number,
               primary |-> c.row.primary, synced |-> c.row.synced]
      BY <2>2
    <3> QED
      BY <3>1, <3>2
  <2>5. account' = [account EXCEPT ![c.a] = r]
    BY <1>3
  <2> HIDE DEF r
  <2> QED
    BY <1>1, <2>3, <2>4, <2>5
<1> QED
  BY <1>2, <1>3 DEF Banks!Save

LEMMA BanksAdd == BanksInv /\ Banks!Add => BanksInv'
<1> SUFFICES ASSUME BanksInv, Banks!Add PROVE BanksInv'
  OBVIOUS
<1>1. PICK number \in Numbers :
        Banks!Start("insert", 0, Banks!NoRow,
                    [exists |-> TRUE, number |-> number, primary |-> (Banks!Live = {}), synced |-> FALSE])
  BY DEF Banks!Add
<1> DEFINE row == [exists |-> TRUE, number |-> number, primary |-> (Banks!Live = {}), synced |-> FALSE]
<1>2. row \in Banks!Row /\ Banks!NoRow \in Banks!Row /\ row.exists
  BY DEF Banks!Row, Banks!NoRow
<1>3. UNCHANGED <<account, account_count, bank_disturbed>>
  BY DEF Banks!Add
<1>4. Banks!Start("insert", 0, Banks!NoRow, row) /\ "insert" \in Banks!Op
  BY <1>1 DEF Banks!Op
<1> HIDE DEF row
<1> QED
  BY <1>2, <1>3, <1>4, BanksBegins

LEMMA BanksBegin ==
  BanksInv /\ (\E a \in Banks!Accounts : \/ Banks!Delete(a) \/ Banks!SetPrimary(a) \/ Banks!Withdraw(a)
                                         \/ \E number \in Numbers : Banks!Update(a, number))
    => BanksInv'
<1> SUFFICES ASSUME BanksInv, NEW a \in Banks!Accounts,
                    \/ Banks!Delete(a) \/ Banks!SetPrimary(a) \/ Banks!Withdraw(a)
                    \/ \E number \in Numbers : Banks!Update(a, number)
             PROVE  BanksInv'
  OBVIOUS
<1>1. a \in Banks!Live /\ UNCHANGED <<account, account_count, bank_disturbed>>
  BY DEF Banks!Delete, Banks!SetPrimary, Banks!Withdraw, Banks!Update
<1>2. /\ account[a] \in Banks!Row /\ account[a].exists /\ a \in Nat /\ Banks!NoRow \in Banks!Row
      /\ a <= account_count
  BY <1>1, BanksKnown DEF BanksInv, Banks!Live, Banks!NoRow, Banks!Row
<1>3. CASE Banks!Delete(a)
  BY <1>1, <1>2, <1>3, BanksBegins DEF Banks!Delete, Banks!Op
<1>4. CASE Banks!SetPrimary(a)
  <2> DEFINE row == [account[a] EXCEPT !.primary = TRUE]
  <2>1. row \in Banks!Row /\ row.exists /\ row.primary
    BY <1>2 DEF Banks!Row
  <2>2. Banks!Start("unset", a, account[a], row) /\ "unset" \in Banks!Op
    BY <1>4 DEF Banks!SetPrimary, Banks!Op
  <2> HIDE DEF row
  <2> QED
    BY <1>1, <1>2, <2>1, <2>2, BanksBegins
<1>5. CASE Banks!Withdraw(a)
  <2>1. PICK op \in {"pay", "pay_sync"} : Banks!Start(op, a, account[a], account[a])
    BY <1>5 DEF Banks!Withdraw
  <2> QED
    BY <1>1, <1>2, <2>1, BanksBegins DEF Banks!Op
<1>6. ASSUME NEW number \in Numbers, Banks!Update(a, number) PROVE BanksInv'
  <2> DEFINE row == [account[a] EXCEPT !.number = number]
  <2>1. row \in Banks!Row /\ row.exists /\ row.primary = account[a].primary
    BY <1>2 DEF Banks!Row
  <2>2. Banks!Start("update", a, account[a], row) /\ "update" \in Banks!Op
    BY <1>6 DEF Banks!Update, Banks!Op
  <2> HIDE DEF row
  <2> QED
    BY <1>1, <1>2, <2>1, <2>2, BanksBegins
<1> QED
  BY <1>3, <1>4, <1>5, <1>6

LEMMA BanksInsert == ASSUME BanksInv, NEW c \in bank_calls, Banks!Insert(c) PROVE BanksInv'
<1> DEFINE e == [c EXCEPT !.op = "sync", !.a = account_count + 1]
<1>1. /\ c \in BankCall /\ c.op = "insert" /\ c.row \in Banks!Row /\ c.row.exists /\ c.row.primary \in BOOLEAN
      /\ account_count \in Nat
  BY BanksKnown DEF BanksInv, BanksTyped, CallsMean, Banks!Insert
<1>2. "sync" \in Banks!Op /\ account_count + 1 \in Nat
  BY <1>1 DEF Banks!Op
<1>3. e \in BankCall /\ e.op = "sync"
  BY <1>1, <1>2 DEF BankCall
<1>4. /\ bank_calls' = (bank_calls \ {c}) \cup {e} /\ account_count' = account_count + 1
      /\ account' = [account EXCEPT ![account_count + 1] = c.row]
      /\ bank_disturbed' = (bank_disturbed \/ c.row.primary # (Banks!Live = {}))
  BY DEF Banks!Insert, Banks!Disturb
<1> HIDE DEF e
<1>5. \A a \in Banks!Live' : a <= account_count'
  <2>1. Banks!Live' \subseteq Banks!Live \cup {account_count + 1}
    BY <1>1, <1>4 DEF Banks!Live, BanksInv, BanksTyped
  <2> QED
    BY <1>1, <1>2, <1>4, <2>1, BanksKnown DEF BanksInv
<1>6. BanksTyped'
  <2>1. account' \in [Banks!Accounts -> Banks!Row] /\ account_count' \in Nat /\ bank_calls' \subseteq BankCall
    BY <1>1, <1>2, <1>3, <1>4 DEF BanksInv, BanksTyped
  <2>2. bank_disturbed' \in BOOLEAN
    BY <1>1, <1>4 DEF BanksInv, BanksTyped
  <2> QED
    BY <2>1, <2>2 DEF BanksTyped
<1>7. CallsMean'
  <2>1. \A d \in bank_calls' : d = e \/ d \in bank_calls
    BY <1>4
  <2>2. \A a \in Nat : a <= account_count => a <= account_count'
    BY <1>1, <1>4
  <2>3. \A d \in bank_calls : d.a \in Nat
    BY BanksKnown DEF BanksInv
  <2> QED
    BY <1>3, <2>1, <2>2, <2>3 DEF BanksInv, CallsMean
<1>8. ASSUME ~bank_disturbed' PROVE OneIsPrimary'
  <2>1. OneIsPrimary /\ c.row.primary = (Banks!Live = {})
    BY <1>4, <1>8 DEF BanksInv
  <2>2. ASSUME account_count + 1 \in Banks!Accounts
        PROVE  /\ account'[account_count + 1] = c.row
               /\ \A a \in Banks!Accounts : a # account_count + 1 => account'[a] = account[a]
    BY <1>4, <2>2 DEF BanksInv, BanksTyped
  <2>3. CASE account_count + 1 \notin Banks!Accounts
    <3>1. account' = account
      BY <1>4, <2>3 DEF BanksInv, BanksTyped
    <3>2. Banks!Live' = Banks!Live /\ Banks!Primary' = Banks!Primary
      BY <3>1 DEF Banks!Live, Banks!Primary
    <3> QED
      BY <1>1, <1>4, <2>1, <3>2 DEF OneIsPrimary, Choosing
  <2>4. CASE account_count + 1 \in Banks!Accounts /\ Banks!Live = {}
    <3>1. Banks!Primary' = {account_count + 1}
      BY <1>1, <2>1, <2>2, <2>4 DEF Banks!Live, Banks!Primary
    <3> QED
      BY <3>1 DEF OneIsPrimary
  <2>5. CASE account_count + 1 \in Banks!Accounts /\ Banks!Live # {}
    <3>1. account_count + 1 \notin Banks!Live
      BY <1>1, BanksKnown DEF BanksInv
    <3>2. Banks!Primary' = Banks!Primary
      BY <1>1, <2>1, <2>2, <2>5, <3>1 DEF Banks!Live, Banks!Primary
    <3> QED
      BY <1>1, <1>4, <2>1, <2>5, <3>2 DEF OneIsPrimary, Choosing
  <2> QED
    BY <2>3, <2>4, <2>5
<1> QED
  BY <1>5, <1>6, <1>7, <1>8 DEF BanksInv


\* The accounts as they are.
LEMMA BanksStill ==
  ASSUME UNCHANGED account
  PROVE  Banks!Live' = Banks!Live /\ Banks!Primary' = Banks!Primary
  BY DEF Banks!Live, Banks!Primary

\* Cashfree hears of an account, a payout takes it.
LEMMA BanksTalks ==
  ASSUME BanksInv, NEW c \in bank_calls,
         Banks!Sync(c) \/ Banks!SyncFails(c) \/ Banks!Synced(c) \/ Banks!Transfer(c)
  PROVE  BanksInv'
<1>1. /\ UNCHANGED <<account_count, bank_disturbed>>
      /\ c.op \in {"sync", "pay_sync", "synced", "pay_synced", "pay"}
  BY DEF Banks!Sync, Banks!SyncFails, Banks!Synced, Banks!Transfer
<1>2. /\ account' \in [Banks!Accounts -> Banks!Row]
      /\ Banks!Live' = Banks!Live /\ Banks!Primary' = Banks!Primary
  <2>1. CASE UNCHANGED account
    BY <2>1, BanksStill DEF BanksInv, BanksTyped
  <2>2. CASE Banks!Synced(c)
    <3> DEFINE r == [account[c.a] EXCEPT !.synced = @ \/ c.a \in Banks!Live]
    <3>1. account' = [account EXCEPT ![c.a] = r]
      BY <2>2 DEF Banks!Synced
    <3>2. c.a \in Banks!Accounts => /\ r \in Banks!Row /\ r.exists = account[c.a].exists
                                    /\ r.primary = account[c.a].primary
      <4> SUFFICES ASSUME c.a \in Banks!Accounts
                   PROVE  /\ r \in Banks!Row /\ r.exists = account[c.a].exists
                          /\ r.primary = account[c.a].primary
        OBVIOUS
      <4>1. account[c.a] \in Banks!Row /\ (account[c.a].synced \/ c.a \in Banks!Live) \in BOOLEAN
        BY BanksKnown DEF BanksInv, Banks!Row
      <4> QED
        BY <4>1 DEF Banks!Row
    <3> HIDE DEF r
    <3>3. account' \in [Banks!Accounts -> Banks!Row]
      BY <3>1, <3>2 DEF BanksInv, BanksTyped
    <3>4. \A a \in Banks!Accounts : /\ account'[a].exists = account[a].exists
                                    /\ account'[a].primary = account[a].primary
      BY <3>1, <3>2 DEF BanksInv, BanksTyped
    <3> QED
      BY <3>3, <3>4 DEF Banks!Live, Banks!Primary
  <2> QED
    BY <2>1, <2>2 DEF Banks!Sync, Banks!SyncFails, Banks!Transfer
<1>3. \/ bank_calls' = bank_calls \ {c}
      \/ \E e \in BankCall : /\ e.op \in {"synced", "pay_synced", "pay"}
                             /\ bank_calls' = (bank_calls \ {c}) \cup {e}
  <2>1. ASSUME NEW op \in {"synced", "pay_synced", "pay"}, Banks!Continue(c, op)
        PROVE  \E e \in BankCall : /\ e.op \in {"synced", "pay_synced", "pay"}
                                   /\ bank_calls' = (bank_calls \ {c}) \cup {e}
    <3>1. op \in Banks!Op /\ BanksTyped
      BY DEF Banks!Op, BanksInv
    <3> QED
      BY <2>1, <3>1, BanksContinues
  <2>2. CASE Banks!Sync(c)
    BY <2>1, <2>2 DEF Banks!Sync
  <2>3. CASE Banks!Synced(c)
    BY <2>1, <2>3 DEF Banks!Synced, Banks!Return
  <2> QED
    BY <2>2, <2>3 DEF Banks!SyncFails, Banks!Transfer, Banks!Return
<1>4. bank_calls' \subseteq BankCall /\ CallsMean'
  BY <1>1, <1>3, BanksCallsLeft
<1>5. BanksTyped'
  BY <1>1, <1>2, <1>4 DEF BanksInv, BanksTyped
<1>6. ~bank_disturbed' => OneIsPrimary'
  <2>1. c.op \notin Choosing /\ bank_calls \ {c} \subseteq bank_calls'
    BY <1>1, <1>3 DEF Choosing
  <2> QED
    BY <1>1, <1>2, <2>1, BanksSame
<1> QED
  BY <1>1, <1>2, <1>4, <1>5, <1>6 DEF BanksInv

\* A save of an account leaves its number taken.
LEMMA BanksWrites ==
  ASSUME BanksInv, NEW c \in bank_calls, NEW w, w.a = c.a, w.row = c.row, w.was \in Banks!Row,
         c.op \in {"update", "promote", "set"},
         Banks!Save(w), Banks!Return(c), UNCHANGED account_count, bank_disturbed' \in BOOLEAN
  PROVE  /\ BanksTyped' /\ CallsMean' /\ \A a \in Banks!Live' : a <= account_count'
         /\ c.a \in Banks!Accounts
         /\ \A a \in Banks!Accounts : a # c.a => account'[a] = account[a]
         /\ account[c.a] = w.was => account'[c.a].exists = c.row.exists
                                    /\ account'[c.a].primary = c.row.primary
<1>1. c.a \in Banks!Accounts /\ c.a <= account_count /\ c.row \in Banks!Row
  BY BanksKnown DEF BanksInv, CallsMean
<1>2. /\ account' \in [Banks!Accounts -> Banks!Row]
      /\ \A a \in Banks!Accounts : a # c.a => account'[a] = account[a]
      /\ account[c.a] = w.was => account'[c.a].exists = c.row.exists
                                 /\ account'[c.a].primary = c.row.primary
  BY <1>1, BanksSaved DEF BanksInv
<1>3. bank_calls' = bank_calls \ {c}
  BY DEF Banks!Return
<1>4. bank_calls' \subseteq BankCall /\ CallsMean'
  BY <1>3, BanksCallsLeft
<1>5. BanksTyped'
  BY <1>2, <1>4 DEF BanksInv, BanksTyped
<1>6. \A a \in Banks!Live' : a <= account_count'
  <2>1. Banks!Live' \subseteq Banks!Live \cup {c.a}
    BY <1>2 DEF Banks!Live
  <2> QED
    BY <1>1, <2>1 DEF BanksInv
<1> QED
  BY <1>1, <1>2, <1>4, <1>5, <1>6

LEMMA BanksUpdateSave ==
  ASSUME BanksInv, NEW c \in bank_calls, Banks!UpdateSave(c) PROVE BanksInv'
<1>1. /\ c.op = "update" /\ Banks!Save(c) /\ Banks!Return(c) /\ UNCHANGED account_count
      /\ bank_disturbed' = (bank_disturbed \/ account[c.a] # c.was)
  BY DEF Banks!UpdateSave, Banks!Disturb
<1>2. bank_disturbed' \in BOOLEAN /\ c.was \in Banks!Row
  BY <1>1, BanksKnown DEF BanksInv, BanksTyped
<1>3. /\ BanksTyped' /\ CallsMean' /\ \A a \in Banks!Live' : a <= account_count'
      /\ c.a \in Banks!Accounts
      /\ \A a \in Banks!Accounts : a # c.a => account'[a] = account[a]
      /\ account[c.a] = c.was => account'[c.a].exists = c.row.exists
                                 /\ account'[c.a].primary = c.row.primary
  BY <1>1, <1>2, BanksWrites
<1>4. ~bank_disturbed' => /\ ~bank_disturbed
                          /\ Banks!Live' = Banks!Live /\ Banks!Primary' = Banks!Primary
  <2> SUFFICES ASSUME ~bank_disturbed'
               PROVE  Banks!Live' = Banks!Live /\ Banks!Primary' = Banks!Primary
    BY <1>1
  <2>1. account[c.a] = c.was /\ c.row.exists /\ c.was.exists /\ c.row.primary = c.was.primary
    BY <1>1 DEF BanksInv, CallsMean
  <2>2. \A a \in Banks!Accounts : /\ account'[a].exists = account[a].exists
                                  /\ account'[a].primary = account[a].primary
    <3>1. c.was.exists = TRUE /\ c.row.exists = TRUE
      BY <2>1, BanksKnown DEF BanksInv
    <3> QED
      BY <1>3, <2>1, <3>1
  <2> QED
    BY <2>2 DEF Banks!Live, Banks!Primary
<1>5. ~bank_disturbed' => OneIsPrimary'
  <2>1. c.op \notin Choosing /\ bank_calls \ {c} \subseteq bank_calls'
    BY <1>1 DEF Choosing, Banks!Return
  <2> QED
    BY <1>4, <2>1, BanksSame
<1> QED
  BY <1>3, <1>5 DEF BanksInv

\* The account that was found, or chosen, becomes the primary one.
LEMMA BanksChoose ==
  ASSUME BanksInv, NEW c \in bank_calls, NEW w, w.a = c.a, w.row = c.row, w.was \in Banks!Row,
         c.op \in {"promote", "set"},
         Banks!Save(w), Banks!Return(c), UNCHANGED account_count,
         bank_disturbed' = (bank_disturbed \/ account[c.a] # w.was \/ Banks!Primary # {})
  PROVE  BanksInv'
<1>1. bank_disturbed' \in BOOLEAN
  BY DEF BanksInv, BanksTyped
<1>2. /\ BanksTyped' /\ CallsMean' /\ \A a \in Banks!Live' : a <= account_count'
      /\ c.a \in Banks!Accounts
      /\ \A a \in Banks!Accounts : a # c.a => account'[a] = account[a]
      /\ account[c.a] = w.was => account'[c.a].exists = c.row.exists
                                 /\ account'[c.a].primary = c.row.primary
  BY <1>1, BanksWrites
<1>3. ASSUME ~bank_disturbed' PROVE OneIsPrimary'
  <2>1. account[c.a] = w.was /\ Banks!Primary = {} /\ c.row.exists /\ c.row.primary
    BY <1>3 DEF BanksInv, CallsMean
  <2>2. Banks!Primary' = {c.a}
    BY <1>2, <2>1 DEF Banks!Live, Banks!Primary
  <2> QED
    BY <2>2, BanksChosen
<1> QED
  BY <1>2, <1>3 DEF BanksInv

LEMMA BanksPromote ==
  ASSUME BanksInv, NEW c \in bank_calls, Banks!Promote(c) \/ Banks!SetSave(c) PROVE BanksInv'
<1>1. CASE Banks!Promote(c)
  <2>1. c.was \in Banks!Row
    BY BanksKnown DEF BanksInv
  <2> QED
    BY <1>1, <2>1, BanksChoose DEF Banks!Promote, Banks!Disturb
<1>2. CASE Banks!SetSave(c)
  <2> DEFINE w == [c EXCEPT !.was.primary = FALSE]
  <2>1. c \in BankCall /\ c.was \in Banks!Row
    BY BanksKnown DEF BanksInv
  <2>2. /\ w.a = c.a /\ w.row = c.row /\ w.was = [c.was EXCEPT !.primary = FALSE]
        /\ w.was \in Banks!Row
    BY <2>1 DEF BankCall, Banks!Row
  <2>3. /\ c.op = "set" /\ Banks!Save(w) /\ Banks!Return(c) /\ UNCHANGED account_count
        /\ bank_disturbed' = (bank_disturbed \/ account[c.a] # w.was \/ Banks!Primary # {})
    BY <1>2, <2>2 DEF Banks!SetSave, Banks!Disturb
  <2> HIDE DEF w
  <2> QED
    BY <2>2, <2>3, BanksChoose
<1> QED
  BY <1>1, <1>2


\* The account that goes is followed by another, if it was the primary one.
LEMMA BanksRemove ==
  ASSUME BanksInv, NEW c \in bank_calls, Banks!Remove(c) PROVE BanksInv'
<1>1. /\ c.op = "remove" /\ account' = [account EXCEPT ![c.a] = Banks!NoRow] /\ UNCHANGED account_count
      /\ IF c.was.primary THEN Banks!Continue(c, "find") ELSE Banks!Return(c)
      /\ bank_disturbed' = (bank_disturbed \/ account[c.a].primary # c.was.primary)
  BY DEF Banks!Remove, Banks!Disturb
<1>2. /\ c.a \in Banks!Accounts /\ c.a <= account_count
      /\ Banks!NoRow \in Banks!Row /\ ~Banks!NoRow.exists /\ "find" \in Banks!Op
      /\ c.was.primary \in BOOLEAN /\ account[c.a].primary \in BOOLEAN
  BY <1>1, BanksKnown DEF BanksInv, CallsMean, Banks!NoRow, Banks!Row, Banks!Op
<1>3. /\ account' \in [Banks!Accounts -> Banks!Row]
      /\ account'[c.a] = Banks!NoRow
      /\ \A a \in Banks!Accounts : a # c.a => account'[a] = account[a]
  BY <1>1, <1>2 DEF BanksInv, BanksTyped
<1>4. /\ Banks!Live' = Banks!Live \ {c.a}
      /\ Banks!Primary' = Banks!Primary \ {c.a}
  BY <1>2, <1>3 DEF Banks!Live, Banks!Primary
<1>5. \/ c.was.primary /\ \E e \in BankCall : /\ e.op = "find"
                                              /\ bank_calls' = (bank_calls \ {c}) \cup {e}
      \/ ~c.was.primary /\ bank_calls' = bank_calls \ {c}
  <2>1. CASE c.was.primary
    BY <1>1, <1>2, <2>1, BanksContinues DEF BanksInv
  <2>2. CASE ~c.was.primary
    BY <1>1, <2>2 DEF Banks!Return
  <2> QED
    BY <2>1, <2>2
<1>6. bank_calls' \subseteq BankCall /\ CallsMean'
  BY <1>1, <1>5 DEF BanksInv, BanksTyped, CallsMean
<1>7. BanksTyped'
  <2>1. bank_disturbed' \in BOOLEAN
    BY <1>1 DEF BanksInv, BanksTyped
  <2> QED
    BY <1>1, <1>3, <1>6, <2>1 DEF BanksInv, BanksTyped
<1>8. ASSUME ~bank_disturbed' PROVE OneIsPrimary'
  <2>1. OneIsPrimary /\ account[c.a].primary = c.was.primary
    BY <1>1, <1>8 DEF BanksInv
  <2>2. CASE c.was.primary
    <3>1. \E e \in bank_calls' : e.op \in Choosing
      BY <1>5, <2>2 DEF Choosing
    <3> QED
      BY <1>4, <2>1, <3>1 DEF OneIsPrimary
  <2>3. CASE ~c.was.primary
    <3>1. c.a \notin Banks!Primary
      BY <2>1, <2>3 DEF Banks!Primary
    <3>2. c.op \notin Choosing /\ bank_calls \ {c} \subseteq bank_calls'
      BY <1>1, <1>5 DEF Choosing
    <3> QED
      BY <1>4, <2>1, <3>1, <3>2 DEF OneIsPrimary
  <2> QED
    BY <1>2, <2>2, <2>3
<1> QED
  BY <1>1, <1>4, <1>6, <1>7, <1>8 DEF BanksInv

\* A set of naturals that is not empty has a least one.
LEMMA LeastNatural ==
  ASSUME NEW S \in SUBSET Nat, S # {}
  PROVE  \E m \in S : \A n \in S : m <= n
<1> DEFINE R == OpToRel(<, Nat)
<1>1. IsWellFoundedOn(R, Nat)
  BY NatLessThanWellFounded
<1>2. \A m, n \in Nat : <<n, m>> \in R <=> n < m
  BY DEF OpToRel
<1> HIDE DEF R
<1>3. PICK m \in S : \A n \in S : ~(<<n, m>> \in R)
  BY <1>1, WFMin
<1>4. ASSUME NEW n \in S PROVE m <= n
  <2>1. m \in Nat /\ n \in Nat
    OBVIOUS
  <2>2. ~(n < m)
    BY <1>2, <1>3, <2>1
  <2> QED
    BY <2>1, <2>2
<1> QED
  BY <1>4

\* The oldest account is there to be found.
LEMMA BanksOldest ==
  ASSUME BanksTyped, Banks!Live # {}
  PROVE  Banks!Oldest \in Banks!Live
<1>1. Banks!Live \subseteq Nat
  BY BanksKnown
<1>2. \E a \in Banks!Live : \A b \in Banks!Live : a <= b
  BY <1>1, LeastNatural
<1> QED
  BY <1>2 DEF Banks!Oldest


LEMMA BanksFindNext ==
  ASSUME BanksInv, NEW c \in bank_calls, Banks!FindNext(c) PROVE BanksInv'
<1>1. c.op = "find" /\ UNCHANGED <<account, account_count, bank_disturbed>>
  BY DEF Banks!FindNext
<1>2. Banks!Live' = Banks!Live /\ Banks!Primary' = Banks!Primary
  BY <1>1, BanksStill
<1>3. CASE Banks!Live = {}
  <2>1. bank_calls' = bank_calls \ {c}
    BY <1>3 DEF Banks!FindNext, Banks!Return
  <2>2. BanksTyped' /\ CallsMean'
    BY <1>1, <2>1 DEF BanksInv, BanksTyped, CallsMean
  <2>3. Banks!Primary = {}
    BY <1>3 DEF Banks!Primary
  <2> QED
    BY <1>1, <1>2, <1>3, <2>2, <2>3 DEF BanksInv, OneIsPrimary
<1>4. CASE Banks!Live # {}
  <2>1. PICK o \in Banks!Live : o = Banks!Oldest
    BY <1>4, BanksOldest DEF BanksInv
  <2>2. account[o] \in Banks!Row /\ account[o].exists /\ o \in Banks!Accounts /\ o \in Nat /\ o <= account_count
    BY <2>1, BanksKnown DEF BanksInv, Banks!Live
  <2> DEFINE row == [account[o] EXCEPT !.primary = TRUE]
  <2>3. row \in Banks!Row /\ row.exists /\ row.primary
    BY <2>2 DEF Banks!Row
  <2>4. bank_calls' = (bank_calls \ {c}) \cup
          {[c EXCEPT !.op = "promote", !.a = o, !.was = account[o], !.row = row]}
    BY <1>4, <2>1 DEF Banks!FindNext
  <2> HIDE DEF row
  <2> DEFINE e == [c EXCEPT !.op = "promote", !.a = o, !.was = account[o], !.row = row]
  <2>5. c \in BankCall /\ "promote" \in Banks!Op
    BY BanksKnown DEF BanksInv, Banks!Op
  <2>6. e \in BankCall /\ e.op = "promote" /\ e.a = o /\ e.was = account[o] /\ e.row = row
    BY <2>2, <2>3, <2>5 DEF BankCall
  <2>7. bank_calls' = (bank_calls \ {c}) \cup {e}
    BY <2>4
  <2> HIDE DEF e
  <2>8. BanksTyped' /\ CallsMean'
    BY <1>1, <2>2, <2>3, <2>6, <2>7 DEF BanksInv, BanksTyped, CallsMean
  <2>9. \E d \in bank_calls' : d.op \in Choosing
    BY <2>6, <2>7 DEF Choosing
  <2> QED
    BY <1>1, <1>2, <2>8, <2>9 DEF BanksInv, OneIsPrimary
<1> QED
  BY <1>3, <1>4

\* setPrimaryBankAccount leaves none primary until it makes its choice.
LEMMA BanksUnsetAll ==
  ASSUME BanksInv, NEW c \in bank_calls, Banks!UnsetAll(c) PROVE BanksInv'
<1>1. /\ c.op = "unset" /\ account' = [a \in Banks!Accounts |-> [account[a] EXCEPT !.primary = FALSE]]
      /\ Banks!Continue(c, "set") /\ UNCHANGED account_count
      /\ bank_disturbed' = (bank_disturbed \/ c.a \notin Banks!Live)
  BY DEF Banks!UnsetAll, Banks!Disturb
<1>2. \A a \in Banks!Accounts : /\ [account[a] EXCEPT !.primary = FALSE] \in Banks!Row
                                /\ [account[a] EXCEPT !.primary = FALSE].exists = account[a].exists
                                /\ ~[account[a] EXCEPT !.primary = FALSE].primary
  <2>1. \A r \in Banks!Row : /\ [r EXCEPT !.primary = FALSE] \in Banks!Row
                             /\ [r EXCEPT !.primary = FALSE].exists = r.exists
                             /\ ~[r EXCEPT !.primary = FALSE].primary
    BY DEF Banks!Row
  <2> QED
    BY <2>1, BanksKnown DEF BanksInv
<1>3. account' \in [Banks!Accounts -> Banks!Row]
  BY <1>1, <1>2
<1>4. Banks!Live' = Banks!Live /\ Banks!Primary' = {}
  <2>1. \A a \in Banks!Accounts : account'[a].exists = account[a].exists /\ ~account'[a].primary
    BY <1>1, <1>2
  <2> QED
    BY <2>1 DEF Banks!Live, Banks!Primary
<1>5. PICK e \in BankCall : /\ e.op = "set" /\ e.a = c.a /\ e.was = c.was /\ e.row = c.row
                            /\ bank_calls' = (bank_calls \ {c}) \cup {e}
  <2>1. "set" \in Banks!Op /\ BanksTyped
    BY DEF Banks!Op, BanksInv
  <2> QED
    BY <1>1, <2>1, BanksContinues
<1>6. BanksTyped'
  <2>1. bank_disturbed' \in BOOLEAN
    BY <1>1 DEF BanksInv, BanksTyped
  <2> QED
    BY <1>1, <1>3, <1>5, <2>1 DEF BanksInv, BanksTyped
<1>7. CallsMean'
  BY <1>1, <1>5 DEF BanksInv, CallsMean
<1>8. OneIsPrimary'
  <2>1. \E d \in bank_calls' : d.op \in Choosing
    BY <1>5 DEF Choosing
  <2> QED
    BY <1>4, <2>1 DEF OneIsPrimary
<1> QED
  BY <1>1, <1>4, <1>6, <1>7, <1>8 DEF BanksInv

LEMMA BanksInvNext == BanksInv /\ [Banks!Next]_(Banks!vars) => BanksInv'
<1> SUFFICES ASSUME BanksInv, [Banks!Next]_(Banks!vars) PROVE BanksInv'
  OBVIOUS
<1>1. CASE UNCHANGED Banks!vars
  BY <1>1 DEF Banks!vars, BanksInv, BanksTyped, CallsMean, OneIsPrimary, Banks!Live, Banks!Primary
<1>2. CASE Banks!Next
  <2>1. CASE Banks!Add
    BY <2>1, BanksAdd
  <2>2. CASE \E a \in Banks!Accounts : \/ Banks!Delete(a) \/ Banks!SetPrimary(a) \/ Banks!Withdraw(a)
                                       \/ \E number \in Numbers : Banks!Update(a, number)
    BY <2>2, BanksBegin
  <2>3. ASSUME NEW c \in bank_calls, Banks!CallStep(c) PROVE BanksInv'
    BY <2>3, BanksInsert, BanksTalks, BanksUpdateSave, BanksRemove, BanksFindNext, BanksPromote,
       BanksUnsetAll DEF Banks!CallStep
  <2> QED
    BY <1>2, <2>1, <2>2, <2>3 DEF Banks!Next
<1> QED
  BY <1>1, <1>2

LEMMA BanksInvGives == BanksInv => Banks!OnePrimary
<1> SUFFICES ASSUME BanksInv, ~bank_disturbed, \A c \in bank_calls : c.op \notin Choosing
             PROVE  Banks!Cardinality(Banks!Primary) = IF Banks!Live = {} THEN 0 ELSE 1
  BY DEF Banks!OnePrimary, Choosing
<1>1. OneIsPrimary
  BY DEF BanksInv
<1>2. Banks!Cardinality(Banks!Primary) = Cardinality(Banks!Primary)
  BY DEF Banks!Cardinality, Cardinality
<1>3. CASE Banks!Live = {}
  <2>1. Banks!Primary = {}
    BY <1>3 DEF Banks!Primary
  <2> QED
    BY <1>2, <1>3, <2>1, FS_EmptySet
<1>4. CASE Banks!Live # {}
  <2>1. Banks!Primary # {}
    BY <1>1, <1>4 DEF OneIsPrimary
  <2>2. PICK a : Banks!Primary = {a}
    BY <1>1, <2>1 DEF OneIsPrimary
  <2>3. Cardinality({a}) = 1
    BY FS_Singleton
  <2> QED
    BY <1>2, <1>4, <2>2, <2>3
<1> QED
  BY <1>3, <1>4

\* A driver with bank accounts has one primary account, whichever of them is
\* added, removed or chosen, as long as none acts on what another undid.
THEOREM PrimaryIsOne == Banks!Spec => []Banks!OnePrimary
  BY BanksStart, BanksInvNext, BanksInvGives, PTL DEF Banks!Spec

LEMMA BanksRun == ServicesSpec => Banks!Spec
<1>1. ServicesInit => Banks!Init
  BY DEF ServicesInit
<1>2. [ServicesNext]_<<at_work, vars, wallets, ends, funds, uses, banks, reports, desk,
                         rules, rewards, reviews>> => [Banks!Next]_(Banks!vars)
  BY DEF ServicesNext, banks, Banks!vars
<1> QED
  BY <1>1, <1>2, PTL DEF ServicesSpec, Banks!Spec

\* A driver with bank accounts has one primary account, in the services together.
THEOREM PrimaryKept == ServicesSpec => []OnePrimary
<1>1. Banks!OnePrimary => OnePrimary
  BY DEF OnePrimary
<1> QED
  BY <1>1, BanksRun, PrimaryIsOne, PTL

(***************************************************************************)
(* Pricing.                                                                *)
(***************************************************************************)

Seeder == [who : {"process", "admin"}, left : SUBSET Public, insert : Public \cup {NoState}]
OpenTrip == [at : {"offer", "raised"}, delivery : Int, fare : Int, quoted : Int]
EndedTrip == [at : {"completed"}, quoted : Int, toll : Int, earnings : Int, cash : Int, recovered : Int]

\* Rules are numbered as they are added; a number not given out yet has none.
RulesTyped ==
  /\ rule \in [Rules!Ids -> Rules!Rule \cup {Rules!NoRule}] /\ rule_count \in Nat
  /\ \A i \in Rules!Ids : rule[i] # Rules!NoRule => i <= rule_count
  /\ seeders \subseteq Seeder

\* The money of the trip are whole paise, and at its end what the driver nets
\* is within half a rupee of the earnings.
TripPriced ==
  \/ quoted_trip = Rules!NoTrip
  \/ quoted_trip \in OpenTrip
  \/ /\ quoted_trip \in EndedTrip
     /\ quoted_trip.cash - quoted_trip.recovered - quoted_trip.earnings \in -50..50

RulesInv == RulesTyped /\ TripPriced

LEMMA RulesStart == Rules!Init => RulesInv
<1> SUFFICES ASSUME Rules!Init PROVE RulesInv
  OBVIOUS
<1>1. /\ rule = [i \in Rules!Ids |-> Rules!NoRule] /\ rule_count = 0 /\ seeders = {}
      /\ quoted_trip = Rules!NoTrip
  BY DEF Rules!Init
<1> QED
  BY <1>1 DEF RulesInv, RulesTyped, TripPriced

\* A rule is not the absence of one.
LEMMA RuleIsOne == \A r \in Rules!Rule : r # Rules!NoRule
<1> SUFFICES ASSUME NEW r \in Rules!Rule PROVE r # Rules!NoRule
  OBVIOUS
<1>1. DOMAIN r = {"type", "city", "state", "active", "rate"}
  BY DEF Rules!Rule
<1>2. DOMAIN Rules!NoRule = {"type"}
  BY DEF Rules!NoRule
<1> QED
  BY <1>1, <1>2

\* What is known of a rule that a quote may use.
LEMMA RuleKnown ==
  ASSUME RulesTyped, NEW i \in Rules!Rules
  PROVE  /\ i \in Rules!Ids /\ i \in Nat /\ i <= rule_count /\ rule[i] \in Rules!Rule
         /\ rule[i].rate \in Rules!Rate /\ rule[i].active \in BOOLEAN
         /\ rule[i].type \in Rules!Types /\ rule[i].state \in States \cup {NoState}
<1>1. i \in Rules!Ids /\ rule[i] # Rules!NoRule
  BY DEF Rules!Rules
<1>2. i \in Nat /\ i <= rule_count
  BY <1>1 DEF RulesTyped, Rules!Ids
<1>3. rule[i] \in Rules!Rule
  BY <1>1 DEF RulesTyped
<1> QED
  BY <1>1, <1>2, <1>3, PricingAssumption DEF PricingAssumption, Rules!Rule

LEMMA RulesPut ==
  ASSUME RulesTyped, NEW i \in Rules!Ids, NEW r \in Rules!Rule \cup {Rules!NoRule}, Rules!Put(i, r)
  PROVE  /\ rule' \in [Rules!Ids -> Rules!Rule \cup {Rules!NoRule}] /\ rule'[i] = r
         /\ \A j \in Rules!Ids : j # i => rule'[j] = rule[j]
  BY DEF RulesTyped, Rules!Put

LEMMA RulesInsert ==
  ASSUME RulesTyped, NEW r \in Rules!Rule, Rules!Insert(r)
  PROVE  /\ rule_count + 1 \in Rules!Ids /\ rule_count' = rule_count + 1
         /\ rule[rule_count + 1] = Rules!NoRule /\ rule'[rule_count + 1] = r
         /\ rule' \in [Rules!Ids -> Rules!Rule \cup {Rules!NoRule}]
         /\ \A j \in Rules!Ids : j # rule_count + 1 => rule'[j] = rule[j]
         /\ \A i \in Rules!Ids : rule'[i] # Rules!NoRule => i <= rule_count'
<1>1. rule_count \in Nat /\ rule_count < MaxRules /\ MaxRules \in Nat /\ rule_count' = rule_count + 1
  BY PricingAssumption DEF PricingAssumption, RulesTyped, Rules!Insert
<1>2. rule_count + 1 \in Rules!Ids /\ ~(rule_count + 1 <= rule_count) /\ Rules!Ids \subseteq Nat
  BY <1>1 DEF Rules!Ids
<1>3. rule[rule_count + 1] = Rules!NoRule
  BY <1>2 DEF RulesTyped
<1>4. /\ rule' \in [Rules!Ids -> Rules!Rule \cup {Rules!NoRule}] /\ rule'[rule_count + 1] = r
      /\ \A j \in Rules!Ids : j # rule_count + 1 => rule'[j] = rule[j]
  BY <1>2, RulesPut DEF Rules!Insert
<1>5. ASSUME NEW i \in Rules!Ids, rule'[i] # Rules!NoRule PROVE i <= rule_count'
  <2>1. CASE i = rule_count + 1
    BY <1>1, <2>1
  <2>2. CASE i # rule_count + 1
    <3>1. i <= rule_count /\ i \in Nat
      BY <1>2, <1>4, <1>5, <2>2 DEF RulesTyped
    <3> QED
      BY <1>1, <3>1
  <2> QED
    BY <2>1, <2>2
<1> QED
  BY <1>1, <1>2, <1>3, <1>4, <1>5

\* A rule that replaces another keeps its number.
LEMMA RulesReplaced ==
  ASSUME RulesTyped, NEW i \in Rules!Rules, NEW r \in Rules!Rule \cup {Rules!NoRule}, Rules!Put(i, r),
         UNCHANGED rule_count
  PROVE  /\ rule' \in [Rules!Ids -> Rules!Rule \cup {Rules!NoRule}]
         /\ \A j \in Rules!Ids : rule'[j] # Rules!NoRule => j <= rule_count'
<1>1. i \in Rules!Ids /\ i <= rule_count
  BY RuleKnown
<1>2. /\ rule' \in [Rules!Ids -> Rules!Rule \cup {Rules!NoRule}] /\ rule'[i] = r
      /\ \A j \in Rules!Ids : j # i => rule'[j] = rule[j]
  BY <1>1, RulesPut
<1> QED
  BY <1>1, <1>2 DEF RulesTyped

LEMMA SeedIsRule == \A type \in Public : Rules!Seed(type) \in Rules!Rule
  BY PricingAssumption DEF PricingAssumption, Rules!Seed, Rules!Rule, Rules!Types

\* Rules that are retired are still rules.
LEMMA RetireKeeps ==
  ASSUME RulesTyped, NEW i \in Rules!Rules
  PROVE  /\ Rules!Retire(i) \in Rules!Rule
         /\ rule[i].type \in Public => Rules!Retire(i) = rule[i]
         /\ Rules!Retire(i).type = rule[i].type
<1>1. rule[i] \in Rules!Rule /\ rule[i].active \in BOOLEAN
  BY RuleKnown
<1> DEFINE on == rule[i].active /\ ~(rule[i].city = Home /\ rule[i].type \in Legacy)
<1>2. on \in BOOLEAN /\ Rules!Retire(i) = [rule[i] EXCEPT !.active = on]
  BY DEF Rules!Retire
<1>3. rule[i].type \in Public => on = rule[i].active
  <2>1. rule[i].type \in Public => rule[i].type \notin Legacy
    BY PricingAssumption DEF PricingAssumption
  <2> QED
    BY <1>1, <2>1
<1> HIDE DEF on
<1>4. /\ [rule[i] EXCEPT !.active = on] \in Rules!Rule
      /\ [rule[i] EXCEPT !.active = on].type = rule[i].type
      /\ on = rule[i].active => [rule[i] EXCEPT !.active = on] = rule[i]
  BY <1>1, <1>2 DEF Rules!Rule
<1> QED
  BY <1>2, <1>3, <1>4

\* Those who fill in the defaults.
LEMMA SeedersBegin ==
  ASSUME RulesTyped, Rules!Ensure \/ Rules!SeedPricingRules \/ Rules!Restart
  PROVE  RulesTyped'
<1>1. seeders' \subseteq Seeder
  BY DEF RulesTyped, Rules!Ensure, Rules!SeedPricingRules, Rules!Restart, Seeder
<1>2. UNCHANGED <<rule, rule_count>>
  BY DEF Rules!Ensure, Rules!SeedPricingRules, Rules!Restart, Rules!table
<1> QED
  BY <1>1, <1>2 DEF RulesTyped

LEMMA SeedFinds ==
  ASSUME RulesTyped, NEW s \in seeders, NEW type \in Public, Rules!SeedFind(s, type)
  PROVE  RulesTyped' /\ (s.who = "process" => UNCHANGED rule)
<1>1. s \in Seeder
  BY DEF RulesTyped
<1>2. seeders' \subseteq Seeder
  <2>1. [s EXCEPT !.insert = type] \in Seeder
    BY <1>1 DEF Seeder
  <2>2. [s EXCEPT !.left = @ \ {type}] \in Seeder
    <3>1. s.left \ {type} \in SUBSET Public
      BY <1>1 DEF Seeder
    <3> QED
      BY <1>1, <3>1 DEF Seeder
  <2>3. \/ seeders' = (seeders \ {s}) \cup {[s EXCEPT !.insert = type]}
        \/ seeders' = (seeders \ {s}) \cup {[s EXCEPT !.left = @ \ {type}]}
    BY DEF Rules!SeedFind
  <2> QED
    BY <2>1, <2>2, <2>3 DEF RulesTyped
<1>3. CASE UNCHANGED <<rule, rule_count>>
  BY <1>2, <1>3 DEF RulesTyped
<1>4. CASE /\ s.who # "process" /\ UNCHANGED rule_count
           /\ \E i \in Rules!Rules : Rules!Put(i, [Rules!Seed(type) EXCEPT !.state = rule[i].state])
  <2>1. PICK i \in Rules!Rules : Rules!Put(i, [Rules!Seed(type) EXCEPT !.state = rule[i].state])
    BY <1>4
  <2> DEFINE r == [Rules!Seed(type) EXCEPT !.state = rule[i].state]
  <2>2. Rules!Seed(type) \in Rules!Rule /\ rule[i].state \in States \cup {NoState}
    BY SeedIsRule, RuleKnown
  <2>3. r \in Rules!Rule /\ Rules!Put(i, r)
    BY <2>1, <2>2 DEF Rules!Rule
  <2> HIDE DEF r
  <2>4. /\ rule' \in [Rules!Ids -> Rules!Rule \cup {Rules!NoRule}]
        /\ \A j \in Rules!Ids : rule'[j] # Rules!NoRule => j <= rule_count'
    BY <1>4, <2>3, RulesReplaced
  <2> QED
    BY <1>2, <1>4, <2>4 DEF RulesTyped
<1> QED
  BY <1>3, <1>4 DEF Rules!SeedFind, Rules!table

LEMMA SeedInserts ==
  ASSUME RulesTyped, NEW s \in seeders, Rules!SeedInsert(s)
  PROVE  RulesTyped' /\ s.insert \in Public /\ Rules!Insert(Rules!Seed(s.insert))
<1>1. s \in Seeder /\ s.insert # NoState /\ Rules!Insert(Rules!Seed(s.insert))
  BY DEF RulesTyped, Rules!SeedInsert
<1>2. s.insert \in Public /\ s.left \ {s.insert} \in SUBSET Public
  BY <1>1 DEF Seeder
<1> DEFINE e == [s EXCEPT !.left = @ \ {s.insert}, !.insert = NoState]
<1>3. e \in Seeder
  BY <1>1, <1>2 DEF Seeder
<1>4. seeders' = (seeders \ {s}) \cup {e}
  BY DEF Rules!SeedInsert
<1> HIDE DEF e
<1>5. /\ rule' \in [Rules!Ids -> Rules!Rule \cup {Rules!NoRule}]
      /\ \A i \in Rules!Ids : rule'[i] # Rules!NoRule => i <= rule_count'
      /\ rule_count' = rule_count + 1
  BY <1>1, <1>2, SeedIsRule, RulesInsert
<1>6. RulesTyped'
  BY <1>3, <1>4, <1>5 DEF RulesTyped
<1> QED
  BY <1>1, <1>2, <1>6

LEMMA SeedRetires ==
  ASSUME RulesTyped, NEW s \in seeders, Rules!SeedRetire(s)
  PROVE  /\ RulesTyped'
         /\ \A i \in Rules!Ids : IF i \in Rules!Rules
                                 THEN /\ rule'[i] # Rules!NoRule /\ rule'[i].type = rule[i].type
                                      /\ rule[i].type \in Public => rule'[i] = rule[i]
                                 ELSE rule'[i] = rule[i]
<1>1. /\ rule' = [i \in Rules!Ids |-> IF i \in Rules!Rules THEN Rules!Retire(i) ELSE Rules!NoRule]
      /\ seeders' = seeders \ {s} /\ UNCHANGED rule_count
  BY DEF Rules!SeedRetire
<1>2. \A i \in Rules!Ids : i \in Rules!Rules => rule'[i] = Rules!Retire(i) /\ rule'[i] \in Rules!Rule
  BY <1>1, RetireKeeps
<1>3. \A i \in Rules!Ids : i \notin Rules!Rules => rule'[i] = Rules!NoRule /\ rule[i] = Rules!NoRule
  BY <1>1 DEF Rules!Rules
<1>4. rule' \in [Rules!Ids -> Rules!Rule \cup {Rules!NoRule}]
  BY <1>1, RetireKeeps
<1>5. RulesTyped'
  BY <1>1, <1>3, <1>4, RuleKnown DEF RulesTyped
<1> QED
  BY <1>2, <1>3, <1>5, RetireKeeps, RuleIsOne

\* An admin's changes of the table.
LEMMA RulesEdited ==
  ASSUME RulesTyped,
         \/ \E i \in Rules!Ids : Rules!Delete(i)
         \/ \E city \in Cities, state \in States \cup {NoState} :
              \/ \E type \in Rules!Types : Rules!Create(type, city, state)
              \/ \E i \in Rules!Ids, active \in BOOLEAN : Rules!Update(i, city, state, active)
  PROVE  RulesTyped'
<1>1. ASSUME NEW i \in Rules!Ids, Rules!Delete(i) PROVE RulesTyped'
  BY <1>1, RulesReplaced DEF Rules!Delete, RulesTyped
<1>2. ASSUME NEW city \in Cities, NEW state \in States \cup {NoState}, NEW type \in Rules!Types,
             Rules!Create(type, city, state)
      PROVE  RulesTyped'
  <2> DEFINE r == [type |-> type, city |-> city, state |-> state, active |-> TRUE, rate |-> Edited]
  <2>1. r \in Rules!Rule
    BY DEF Rules!Rule
  <2>2. Rules!Insert(r) /\ UNCHANGED seeders
    BY <1>2 DEF Rules!Create
  <2> HIDE DEF r
  <2>3. /\ rule' \in [Rules!Ids -> Rules!Rule \cup {Rules!NoRule}]
        /\ \A i \in Rules!Ids : rule'[i] # Rules!NoRule => i <= rule_count'
        /\ rule_count' = rule_count + 1
    BY <2>1, <2>2, RulesInsert
  <2> QED
    BY <2>2, <2>3 DEF RulesTyped
<1>3. ASSUME NEW city \in Cities, NEW state \in States \cup {NoState}, NEW i \in Rules!Ids,
             NEW active \in BOOLEAN, Rules!Update(i, city, state, active)
      PROVE  RulesTyped'
  <2> DEFINE r == [rule[i] EXCEPT !.city = city, !.state = state, !.active = active, !.rate = Edited]
  <2>1. i \in Rules!Rules /\ Rules!Put(i, r) /\ UNCHANGED <<rule_count, seeders>>
    BY <1>3 DEF Rules!Update
  <2>2. rule[i] \in Rules!Rule
    BY <2>1, RuleKnown
  <2>3. r \in Rules!Rule
    BY <2>2 DEF Rules!Rule
  <2> HIDE DEF r
  <2>4. /\ rule' \in [Rules!Ids -> Rules!Rule \cup {Rules!NoRule}]
        /\ \A j \in Rules!Ids : rule'[j] # Rules!NoRule => j <= rule_count'
    BY <2>1, <2>3, RulesReplaced
  <2> QED
    BY <2>1, <2>4 DEF RulesTyped
<1> QED
  BY <1>1, <1>2, <1>3


\* Rounding gives whole numbers, within half of what is rounded.
LEMMA RoundWhole ==
  ASSUME NEW n \in Int, NEW d \in Int, d \in {10, 100, 200}
  PROVE  Rules!Round(n, d) \in Int
<1>1. CASE d = 10
  BY <1>1 DEF Rules!Round
<1>2. CASE d = 100
  BY <1>2 DEF Rules!Round
<1>3. CASE d = 200
  BY <1>3 DEF Rules!Round
<1> QED
  BY <1>1, <1>2, <1>3

LEMMA RoundsNear ==
  ASSUME NEW n \in Int
  PROVE  n - 100 * Rules!Round(n, 100) \in -50..50
<1> DEFINE q == (2 * n + 100) \div 200
<1>1. q \in Int /\ 200 * q <= 2 * n + 100 /\ 2 * n + 100 < 200 * q + 200
  OBVIOUS
<1>2. Rules!Round(n, 100) = q
  BY DEF Rules!Round
<1> HIDE DEF q
<1> QED
  BY <1>1, <1>2

LEMMA TransportWhole ==
  ASSUME NEW rate \in Rules!Rate, NEW km \in Int, NEW surge \in Int
  PROVE  Rules!Transport(rate, km, surge) \in Int
<1>1. rate.base \in Int /\ rate.free \in Int /\ rate.perKm \in Int
  BY DEF Rules!Rate
<1>2. Rules!NonNeg(km - rate.free) \in Int
  BY <1>1 DEF Rules!NonNeg
<1>3. Rules!NonNeg(km - rate.free) * rate.perKm \in Int
  BY <1>1, <1>2
<1>4. (rate.base + Rules!NonNeg(km - rate.free) * rate.perKm) * surge \in Int
  <2>1. rate.base + Rules!NonNeg(km - rate.free) * rate.perKm \in Int
    BY <1>1, <1>3
  <2> QED
    BY <2>1
<1> QED
  BY <1>4, RoundWhole DEF Rules!Transport

LEMMA FareWhole ==
  ASSUME NEW d \in Int, NEW set \in [fee : Int, gst : Int], NEW discount \in Int
  PROVE  Rules!NonNeg(Rules!Fare(d, set) - discount) \in Int
<1> DEFINE taxable == 100 * (d + set.fee)
<1>1. set.fee \in Int /\ set.gst \in Int
  OBVIOUS
<1>2. taxable \in Int
  BY <1>1
<1>3. Rules!Fare(d, set) = taxable + 2 * Rules!Round(taxable * set.gst, 200)
  BY DEF Rules!Fare
<1> HIDE DEF taxable
<1>4. taxable * set.gst \in Int
  BY <1>1, <1>2
<1>5. Rules!Round(taxable * set.gst, 200) \in Int
  BY <1>4, RoundWhole
<1>6. Rules!Fare(d, set) \in Int
  BY <1>2, <1>3, <1>5
<1> QED
  BY <1>6 DEF Rules!NonNeg

LEMMA EarningsWhole ==
  ASSUME NEW d \in Int, NEW pct \in Int
  PROVE  Rules!Earnings(d, pct) \in Int
<1>1. d * pct \in Int
  OBVIOUS
<1>2. Rules!ShieldFee \in Int
  BY DEF Rules!ShieldFee
<1> QED
  BY <1>1, <1>2 DEF Rules!Earnings

\* What is recovered from the wallet leaves the driver of a cash trip within
\* half a rupee of the earnings, whatever the fare was discounted to.
LEMMA RecoveryNear ==
  ASSUME NEW fare \in Int, NEW pay \in Int
  PROVE  /\ Rules!Collect(fare) \in Int /\ Rules!Recovery(fare, pay) \in Int
         /\ Rules!Collect(fare) - Rules!Recovery(fare, pay) - pay \in -50..50
<1>1. Rules!Collect(fare) \in Int
  BY DEF Rules!Collect, Rules!Ceil
<1> DEFINE n == Rules!Collect(fare) - pay
<1>2. n \in Int
  BY <1>1
<1>3. Rules!Recovery(fare, pay) = 100 * Rules!Round(n, 100)
  BY DEF Rules!Recovery
<1>4. Rules!Round(n, 100) \in Int /\ n - 100 * Rules!Round(n, 100) \in -50..50
  BY <1>2, RoundWhole, RoundsNear
<1>5. Rules!Recovery(fare, pay) \in Int
  BY <1>3, <1>4
<1>6. Rules!Collect(fare) - Rules!Recovery(fare, pay) - pay = n - Rules!Recovery(fare, pay)
  BY <1>1, <1>5
<1> QED
  BY <1>1, <1>3, <1>4, <1>5, <1>6

LEMMA TripQuoted ==
  ASSUME RulesInv, NEW type \in Rules!Types, NEW state \in States \cup {NoState}, NEW km \in Kms,
         NEW hour \in Hours, NEW demand \in Demands, NEW discount \in Discounts, NEW set \in Settings,
         Rules!Quote(type, state, km, Rules!Surge(hour, demand), discount, set)
  PROVE  TripPriced'
<1>1. /\ km \in Int /\ hour \in Int /\ demand \in Int /\ discount \in Int
      /\ set \in [fee : Int, gst : Int]
  BY PricingAssumption DEF PricingAssumption
<1> DEFINE surge == Rules!Surge(hour, demand)
<1>2. surge \in Int
  BY <1>1 DEF Rules!Surge
<1> HIDE DEF surge
<1>3. PICK i \in Rules!Resolve(type, state) :
        quoted_trip' = [at |-> "offer", delivery |-> Rules!Transport(rule[i].rate, km, surge),
                        fare |-> Rules!NonNeg(Rules!Fare(Rules!Transport(rule[i].rate, km, surge), set) - discount),
                        quoted |-> Rules!Earnings(Rules!Transport(rule[i].rate, km, surge), rule[i].rate.pct)]
  BY DEF Rules!Quote, surge
<1>4. i \in Rules!Rules
  BY <1>3 DEF Rules!Resolve, Rules!Active
<1>5. rule[i].rate \in Rules!Rate
  BY <1>4, RuleKnown DEF RulesInv
<1>6. rule[i].rate.pct \in Int
  BY <1>5 DEF Rules!Rate
<1>7. Rules!Transport(rule[i].rate, km, surge) \in Int
  BY <1>1, <1>2, <1>5, TransportWhole
<1>8. /\ Rules!NonNeg(Rules!Fare(Rules!Transport(rule[i].rate, km, surge), set) - discount) \in Int
      /\ Rules!Earnings(Rules!Transport(rule[i].rate, km, surge), rule[i].rate.pct) \in Int
  BY <1>1, <1>6, <1>7, FareWhole, EarningsWhole
<1> QED
  BY <1>3, <1>7, <1>8 DEF TripPriced, OpenTrip

LEMMA TripRaised == ASSUME RulesInv, Rules!Raise PROVE TripPriced'
<1>1. quoted_trip.at = "offer" /\ quoted_trip' = [quoted_trip EXCEPT !.at = "raised", !.fare = @ + 1000]
  BY DEF Rules!Raise
<1>2. quoted_trip \in OpenTrip
  BY <1>1 DEF RulesInv, TripPriced, Rules!NoTrip, EndedTrip
<1>3. PICK fare \in Int : fare = quoted_trip.fare + 1000
  BY <1>2 DEF OpenTrip
<1>4. quoted_trip' \in OpenTrip
  <2>1. quoted_trip' = [quoted_trip EXCEPT !.at = "raised", !.fare = fare]
    BY <1>1, <1>3
  <2> QED
    BY <1>2, <2>1 DEF OpenTrip
<1> QED
  BY <1>4 DEF TripPriced

LEMMA TripCompletes ==
  ASSUME RulesInv, NEW type \in Rules!Types, NEW city \in Cities, NEW toll \in Tolls,
         Rules!Complete(type, city, toll)
  PROVE  TripPriced'
<1>1. quoted_trip.at \in {"offer", "raised"} /\ toll \in Int
  BY PricingAssumption DEF PricingAssumption, Rules!Complete
<1>2. quoted_trip \in OpenTrip
  BY <1>1 DEF RulesInv, TripPriced, Rules!NoTrip, EndedTrip
<1> DEFINE pcts == IF Rules!Completed(type, city) = {} THEN {25}
                   ELSE {rule[i].rate.pct : i \in Rules!Completed(type, city)}
<1>3. pcts \subseteq Int
  <2>1. \A i \in Rules!Completed(type, city) : rule[i].rate.pct \in Int
    <3> SUFFICES ASSUME NEW i \in Rules!Completed(type, city) PROVE rule[i].rate.pct \in Int
      OBVIOUS
    <3>1. i \in Rules!Rules
      BY DEF Rules!Completed
    <3>2. rule[i].rate \in Rules!Rate
      BY <3>1, RuleKnown DEF RulesInv
    <3> QED
      BY <3>2 DEF Rules!Rate
  <2> QED
    BY <2>1
<1>4. PICK pct \in pcts :
        quoted_trip' = [at |-> "completed", quoted |-> quoted_trip.quoted, toll |-> toll,
                        earnings |-> Rules!Earnings(quoted_trip.delivery, pct) + toll,
                        cash |-> Rules!Collect(quoted_trip.fare + toll),
                        recovered |-> Rules!Recovery(quoted_trip.fare + toll,
                                                     Rules!Earnings(quoted_trip.delivery, pct) + toll)]
  BY DEF Rules!Complete
<1> HIDE DEF pcts
<1>5. quoted_trip.delivery \in Int /\ quoted_trip.fare \in Int /\ quoted_trip.quoted \in Int /\ pct \in Int
  BY <1>2, <1>3, <1>4 DEF OpenTrip
<1>6. Rules!Earnings(quoted_trip.delivery, pct) \in Int
  BY <1>5, EarningsWhole
<1>7. PICK pay \in Int : pay = Rules!Earnings(quoted_trip.delivery, pct) + toll
  BY <1>1, <1>6
<1>8. PICK fare \in Int : fare = quoted_trip.fare + toll
  BY <1>1, <1>5
<1>9. /\ Rules!Collect(fare) \in Int /\ Rules!Recovery(fare, pay) \in Int
      /\ Rules!Collect(fare) - Rules!Recovery(fare, pay) - pay \in -50..50
  BY RecoveryNear
<1>10. quoted_trip' = [at |-> "completed", quoted |-> quoted_trip.quoted, toll |-> toll,
                       earnings |-> pay, cash |-> Rules!Collect(fare),
                       recovered |-> Rules!Recovery(fare, pay)]
  BY <1>4, <1>7, <1>8
<1> QED
  BY <1>1, <1>5, <1>9, <1>10 DEF TripPriced, EndedTrip

LEMMA RulesInvNext == RulesInv /\ [Rules!Next]_(Rules!vars) => RulesInv'
<1> SUFFICES ASSUME RulesInv, [Rules!Next]_(Rules!vars) PROVE RulesInv'
  OBVIOUS
<1>1. CASE UNCHANGED Rules!vars
  BY <1>1 DEF Rules!vars, Rules!table, RulesInv, RulesTyped, TripPriced
<1>2. ASSUME RulesTyped', UNCHANGED quoted_trip PROVE RulesInv'
  BY <1>2 DEF RulesInv, TripPriced
<1>3. ASSUME TripPriced', UNCHANGED <<rule, rule_count, seeders>> PROVE RulesInv'
  BY <1>3 DEF RulesInv, RulesTyped
<1>4. CASE Rules!Ensure \/ Rules!SeedPricingRules \/ Rules!Restart
  BY <1>2, <1>4, SeedersBegin DEF RulesInv, Rules!Ensure, Rules!SeedPricingRules, Rules!Restart
<1>5. CASE \E s \in seeders : Rules!SeedStep(s)
  BY <1>2, <1>5, SeedFinds, SeedInserts, SeedRetires
     DEF RulesInv, Rules!SeedStep, Rules!SeedFind, Rules!SeedInsert, Rules!SeedRetire
<1>6. CASE \/ \E i \in Rules!Ids : Rules!Delete(i)
           \/ \E city \in Cities, state \in States \cup {NoState} :
                \/ \E type \in Rules!Types : Rules!Create(type, city, state)
                \/ \E i \in Rules!Ids, active \in BOOLEAN : Rules!Update(i, city, state, active)
  <2>1. RulesTyped'
    BY <1>6, RulesEdited DEF RulesInv
  <2> QED
    BY <1>2, <1>6, <2>1 DEF Rules!Delete, Rules!Create, Rules!Update
<1>7. CASE Rules!Raise
  BY <1>3, <1>7, TripRaised DEF Rules!Raise, Rules!table
<1>8. ASSUME NEW type \in Rules!Types, NEW state \in States \cup {NoState}, NEW km \in Kms,
             NEW hour \in Hours, NEW demand \in Demands, NEW discount \in Discounts, NEW set \in Settings,
             Rules!Quote(type, state, km, Rules!Surge(hour, demand), discount, set)
      PROVE  RulesInv'
  <2>1. TripPriced'
    BY <1>8, TripQuoted
  <2> QED
    BY <1>3, <1>8, <2>1 DEF Rules!Quote, Rules!table
<1>9. ASSUME NEW type \in Rules!Types, NEW city \in Cities, NEW toll \in Tolls,
             Rules!Complete(type, city, toll)
      PROVE  RulesInv'
  <2>1. TripPriced'
    BY <1>9, TripCompletes
  <2> QED
    BY <1>3, <1>9, <2>1 DEF Rules!Complete, Rules!table
<1>10. CASE Rules!Done
  BY <1>3, <1>10 DEF Rules!Done, Rules!table, TripPriced
<1> QED
  BY <1>1, <1>4, <1>5, <1>6, <1>7, <1>8, <1>9, <1>10 DEF Rules!Next

LEMMA RulesInvGives == RulesInv => Rules!CashNetsEarnings
  BY DEF RulesInv, TripPriced, OpenTrip, Rules!NoTrip, Rules!CashNetsEarnings

\* The driver of a cash trip nets the earnings, whatever the discounts and the
\* rules are changed to between the quote and the end of the trip.
THEOREM CashNets == Rules!Spec => []Rules!CashNetsEarnings
  BY RulesStart, RulesInvNext, RulesInvGives, PTL DEF Rules!Spec

\* The rules a quote may use depend on the active ones only.
LEMMA ResolveSame ==
  ASSUME NEW type, NEW state,
         Rules!Active(type, state)' = Rules!Active(type, state),
         Rules!Active(type, NoState)' = Rules!Active(type, NoState)
  PROVE  Rules!Resolve(type, state)' = Rules!Resolve(type, state)
  BY DEF Rules!Resolve

LEMMA RetireKeepsQuotes ==
  ASSUME RulesTyped, NEW s \in seeders, Rules!SeedRetire(s), NEW type \in Public, NEW state
  PROVE  /\ Rules!Resolve(type, state)' = Rules!Resolve(type, state)
         /\ \A i \in Rules!Resolve(type, state) : rule'[i] = rule[i]
<1>1. \A i \in Rules!Ids : IF i \in Rules!Rules
                           THEN /\ rule'[i] # Rules!NoRule /\ rule'[i].type = rule[i].type
                                /\ rule[i].type \in Public => rule'[i] = rule[i]
                           ELSE rule'[i] = rule[i]
  BY SeedRetires
<1>2. Rules!Rules' = Rules!Rules
  BY <1>1 DEF Rules!Rules
<1>3. ASSUME NEW st PROVE Rules!Active(type, st)' = Rules!Active(type, st)
  <2>1. \A i \in Rules!Rules : rule[i].type = type \/ rule'[i].type = type => rule'[i] = rule[i]
    BY <1>1 DEF Rules!Rules
  <2> QED
    BY <1>2, <2>1 DEF Rules!Active
<1>4. \A i \in Rules!Resolve(type, state) : i \in Rules!Rules /\ rule[i].type = type
  BY DEF Rules!Resolve, Rules!Active
<1>5. \A i \in Rules!Resolve(type, state) : rule'[i] = rule[i]
  BY <1>1, <1>4 DEF Rules!Rules
<1> QED
  BY <1>3, <1>5, ResolveSame

\* A default that is filled in is the newest: it is not the oldest of its type,
\* if there was one.
LEMMA InsertKeepsQuotes ==
  ASSUME RulesTyped, NEW s \in seeders, Rules!SeedInsert(s), NEW type \in Public,
         NEW state \in States \cup {NoState}, Rules!Resolve(type, state) # {}
  PROVE  /\ Rules!Resolve(type, state)' = Rules!Resolve(type, state)
         /\ \A i \in Rules!Resolve(type, state) : rule'[i] = rule[i]
<1> DEFINE new == rule_count + 1
<1>1. s.insert \in Public /\ Rules!Insert(Rules!Seed(s.insert))
  BY SeedInserts
<1>2. /\ new \in Rules!Ids /\ rule[new] = Rules!NoRule /\ rule'[new] = Rules!Seed(s.insert)
      /\ \A j \in Rules!Ids : j # new => rule'[j] = rule[j]
  BY <1>1, SeedIsRule, RulesInsert
<1>3. \A i \in Rules!Rules : i \in Nat /\ i <= rule_count
  BY RuleKnown
<1>4. new \notin Rules!Rules /\ new \in Nat /\ rule_count \in Nat
  BY <1>2 DEF Rules!Rules, RulesTyped
<1>5. Rules!Seed(s.insert).state = NoState
  BY DEF Rules!Seed
<1>6. \A i \in Rules!Rules : rule'[i] = rule[i] /\ i \in Rules!Rules'
  BY <1>2, <1>4 DEF Rules!Rules
<1>7. \A i \in Rules!Rules' : i = new \/ i \in Rules!Rules
  BY <1>2 DEF Rules!Rules
<1>8. \A i \in Rules!Resolve(type, state) : i \in Rules!Rules
  BY DEF Rules!Resolve, Rules!Active
<1>9. ASSUME NEW st, st # NoState PROVE Rules!Active(type, st)' = Rules!Active(type, st)
  BY <1>2, <1>5, <1>6, <1>7, <1>9 DEF Rules!Active
<1>10. /\ Rules!Active(type, NoState) \subseteq Rules!Active(type, NoState)'
       /\ Rules!Active(type, NoState)' \subseteq Rules!Active(type, NoState) \cup {new}
  BY <1>6, <1>7 DEF Rules!Active
<1> HIDE DEF new
<1>11. CASE state # NoState /\ Rules!Active(type, state) # {}
  <2>1. Rules!Resolve(type, state)' = Rules!Resolve(type, state)
    BY <1>9, <1>11 DEF Rules!Resolve
  <2> QED
    BY <1>6, <1>8, <2>1
<1>12. CASE ~(state # NoState /\ Rules!Active(type, state) # {})
  <2> DEFINE old == Rules!Active(type, NoState)
             now == Rules!Active(type, NoState)'
  <2>1. Rules!Resolve(type, state) = {i \in old : \A j \in old : i <= j}
    BY <1>12 DEF Rules!Resolve
  <2>2. Rules!Resolve(type, state)' = {i \in now : \A j \in now : i <= j}
    BY <1>9, <1>12 DEF Rules!Resolve
  <2>3. \A i \in old : i \in Nat /\ i < new
    <3>1. old \subseteq Rules!Rules
      BY DEF Rules!Active
    <3> QED
      BY <1>3, <1>4, <3>1 DEF new
  <2>4. old \subseteq now /\ now \subseteq old \cup {new} /\ new \in Nat
    BY <1>4, <1>10
  <2> HIDE DEF old, now
  <2>5. PICK m \in old : \A j \in old : m <= j
    BY <2>1
  <2>6. {i \in now : \A j \in now : i <= j} = {i \in old : \A j \in old : i <= j}
    <3>1. ASSUME NEW i \in now, \A j \in now : i <= j PROVE i \in old
      BY <2>3, <2>4, <2>5, <3>1
    <3>2. ASSUME NEW i \in old, \A j \in old : i <= j, NEW j \in now PROVE i <= j
      BY <2>3, <2>4, <3>2
    <3> QED
      BY <2>4, <3>1, <3>2
  <2> QED
    BY <1>6, <1>8, <2>1, <2>2, <2>6
<1> QED
  BY <1>11, <1>12

\* The defaults that a restart fills in never change what a quote uses.
THEOREM RestartKeeps == Rules!Spec => Rules!RestartKeepsQuotes
<1> DEFINE Fills == \E s \in seeders : s.who = "process" /\ Rules!SeedStep(s)
           Keeps == \A type \in Public, state \in States \cup {NoState} :
                      Rules!Resolve(type, state) # {} =>
                        /\ Rules!Resolve(type, state)' = Rules!Resolve(type, state)
                        /\ \A i \in Rules!Resolve(type, state) : rule'[i] = rule[i]
<1>1. RulesInv /\ Fills => Keeps
  <2> SUFFICES ASSUME RulesTyped, NEW s \in seeders, s.who = "process", Rules!SeedStep(s),
                      NEW type \in Public, NEW state \in States \cup {NoState},
                      Rules!Resolve(type, state) # {}
               PROVE  /\ Rules!Resolve(type, state)' = Rules!Resolve(type, state)
                      /\ \A i \in Rules!Resolve(type, state) : rule'[i] = rule[i]
    BY DEF RulesInv
  <2>1. CASE UNCHANGED rule
    <3>1. \A st : Rules!Active(type, st)' = Rules!Active(type, st)
      BY <2>1 DEF Rules!Active, Rules!Rules
    <3> QED
      BY <2>1, <3>1, ResolveSame
  <2> QED
    BY <2>1, SeedFinds, InsertKeepsQuotes, RetireKeepsQuotes DEF Rules!SeedStep
<1>2. RulesInv /\ [Rules!Next]_(Rules!vars) => [Fills => Keeps]_(Rules!vars)
  BY <1>1
<1>3. Rules!Spec => []RulesInv
  BY RulesStart, RulesInvNext, PTL DEF Rules!Spec
<1>4. Rules!Spec => [][Fills => Keeps]_(Rules!vars)
  BY <1>2, <1>3, PTL DEF Rules!Spec
<1> QED
  BY <1>4 DEF Rules!RestartKeepsQuotes

LEMMA RulesRun == ServicesSpec => Rules!Spec
<1>1. ServicesInit => Rules!Init
  BY DEF ServicesInit
<1>2. [ServicesNext]_<<at_work, vars, wallets, ends, funds, uses, banks, reports, desk,
                         rules, rewards, reviews>> => [Rules!Next]_(Rules!vars)
  BY DEF ServicesNext, rules, Rules!vars, Rules!table
<1> QED
  BY <1>1, <1>2, PTL DEF ServicesSpec, Rules!Spec

\* The driver of a cash trip nets the earnings, in the services together.
THEOREM EarningsKept == ServicesSpec => []CashNetsEarnings
<1>1. Rules!CashNetsEarnings => CashNetsEarnings
  BY DEF CashNetsEarnings
<1> QED
  BY <1>1, RulesRun, CashNets, PTL

\* A restart leaves the rules that quotes use, in the services together.
THEOREM QuotesKept == ServicesSpec => RestartKeepsQuotes
  BY RulesRun, RestartKeeps DEF RestartKeepsQuotes

(***************************************************************************)
(* Withdrawals and settlement: what their own modules prove of them holds  *)
(* of the services together.                                               *)
(***************************************************************************)

WalletFacts == INSTANCE PayoutsProofs WITH
  MaxCrashes <- MaxRestarts,
  calls <- payout_calls, crashes <- payout_crashes, disturbed <- payout_disturbed

EndFacts == INSTANCE SettlementProofs WITH
  calls <- trip_calls, crashes <- trip_crashes, earned <- earnings, disturbed <- trip_disturbed

\* Two instances of one module, with the same constants and variables.
LEMMA WalletsNext == Wallets!Next => WalletFacts!Next
  BY DEF Wallets!Cardinality, WalletFacts!Cardinality,
    Wallets!wallet, Wallets!bank, Wallets!CallsOn, Wallets!Open, Wallets!Paying, Wallets!Disturb,
    Wallets!Begin, Wallets!Continue, Wallets!Return, Wallets!Request, Wallets!Insert,
    Wallets!Debit, Wallets!DebitFails, Wallets!Sent, Wallets!Thrown, Wallets!SendAccepted,
    Wallets!SendRefused, Wallets!SendSkipped, Wallets!StorePayout, Wallets!Void, Wallets!Refunded,
    Wallets!RefundMissing, Wallets!RefundExists, Wallets!Refund, Wallets!Approve,
    Wallets!ApproveSent, Wallets!ApproveFallsBack, Wallets!ApproveSave, Wallets!ApproveManual,
    Wallets!Reject, Wallets!RejectSave, Wallets!Settle, Wallets!Reverse, Wallets!LoseHook,
    Wallets!Deliver, Wallets!HookIgnored, Wallets!HookRead, Wallets!HookComplete,
    Wallets!HookFail, Wallets!Move, Wallets!Freeze, Wallets!Crash, Wallets!CallStep,
    Wallets!BankStep, Wallets!Next, WalletFacts!wallet, WalletFacts!bank, WalletFacts!CallsOn,
    WalletFacts!Open, WalletFacts!Paying, WalletFacts!Disturb, WalletFacts!Begin,
    WalletFacts!Continue, WalletFacts!Return, WalletFacts!Request, WalletFacts!Insert,
    WalletFacts!Debit, WalletFacts!DebitFails, WalletFacts!Sent, WalletFacts!Thrown,
    WalletFacts!SendAccepted, WalletFacts!SendRefused, WalletFacts!SendSkipped,
    WalletFacts!StorePayout, WalletFacts!Void, WalletFacts!Refunded, WalletFacts!RefundMissing,
    WalletFacts!RefundExists, WalletFacts!Refund, WalletFacts!Approve, WalletFacts!ApproveSent,
    WalletFacts!ApproveFallsBack, WalletFacts!ApproveSave, WalletFacts!ApproveManual,
    WalletFacts!Reject, WalletFacts!RejectSave, WalletFacts!Settle, WalletFacts!Reverse,
    WalletFacts!LoseHook, WalletFacts!Deliver, WalletFacts!HookIgnored, WalletFacts!HookRead,
    WalletFacts!HookComplete, WalletFacts!HookFail, WalletFacts!Move, WalletFacts!Freeze,
    WalletFacts!Crash, WalletFacts!CallStep, WalletFacts!BankStep, WalletFacts!Next

LEMMA EndsNext == Ends!Next => EndFacts!Next
  BY DEF Ends!Cardinality, EndFacts!Cardinality,
    Ends!Rows, Ends!Online, Ends!Cashfree, Ends!payments, Ends!HasRow, Ends!Latest,
    Ends!Completed, Ends!ForBooking, Ends!PendingOnline, Ends!BookingPaid, Ends!Insert,
    Ends!SetStatus, Ends!Start, Ends!Continue, Ends!Return, Ends!Initiate, Ends!SaveOrder,
    Ends!RequestLink, Ends!LatestIsPaid, Ends!LinkReconciled, Ends!NotReconciled, Ends!Supersede,
    Ends!MintLink, Ends!InitiateWallet, Ends!Pay, Ends!Succeeded, Ends!Failed, Ends!Returned,
    Ends!Polled, Ends!Mark, Ends!CreditWallet, Ends!WalletConfirmed, Ends!PaymentCallStep,
    Ends!PaymentStep, Ends!ledger, Ends!Ways, Ends!Completion, Ends!Completing, Ends!Complete, Ends!SaveTrip,
    Ends!Settle, Ends!CheckEntry, Ends!DeductCommission, Ends!CreditEarnings, Ends!CashRow,
    Ends!ClearPending, Ends!RecordCash, Ends!CancelTrip, Ends!Crash, Ends!CompletionStep,
    Ends!Next, EndFacts!Rows, EndFacts!Online, EndFacts!Cashfree, EndFacts!payments,
    EndFacts!HasRow, EndFacts!Latest, EndFacts!Completed, EndFacts!ForBooking,
    EndFacts!PendingOnline, EndFacts!BookingPaid, EndFacts!Insert, EndFacts!SetStatus,
    EndFacts!Start, EndFacts!Continue, EndFacts!Return, EndFacts!Initiate, EndFacts!SaveOrder,
    EndFacts!RequestLink, EndFacts!LatestIsPaid, EndFacts!LinkReconciled, EndFacts!NotReconciled,
    EndFacts!Supersede, EndFacts!MintLink, EndFacts!InitiateWallet, EndFacts!Pay,
    EndFacts!Succeeded, EndFacts!Failed, EndFacts!Returned, EndFacts!Polled, EndFacts!Mark,
    EndFacts!CreditWallet, EndFacts!WalletConfirmed, EndFacts!PaymentCallStep,
    EndFacts!PaymentStep, EndFacts!ledger, EndFacts!Ways, EndFacts!Completion, EndFacts!Completing,
    EndFacts!Complete, EndFacts!SaveTrip, EndFacts!Settle, EndFacts!CheckEntry,
    EndFacts!DeductCommission, EndFacts!CreditEarnings, EndFacts!CashRow, EndFacts!ClearPending,
    EndFacts!RecordCash, EndFacts!CancelTrip, EndFacts!Crash, EndFacts!CompletionStep,
    EndFacts!Next

LEMMA WalletsRun == ServicesSpec => WalletFacts!Spec
<1>1. ServicesInit => WalletFacts!Init
  BY DEF ServicesInit, Wallets!Init, WalletFacts!Init
<1>2. [ServicesNext]_<<at_work, vars, wallets, ends, funds, uses, banks, reports, desk,
                         rules, rewards, reviews>> => [WalletFacts!Next]_(WalletFacts!vars)
  BY WalletsNext DEF ServicesNext, wallets, WalletFacts!vars, WalletFacts!wallet, WalletFacts!bank
<1> QED
  BY <1>1, <1>2, PTL DEF ServicesSpec, WalletFacts!Spec

LEMMA EndsRun == ServicesSpec => EndFacts!Spec
<1>1. ServicesInit => EndFacts!Init
  BY DEF ServicesInit, Ends!Init, EndFacts!Init, Ends!Rows, EndFacts!Rows
<1>2. [ServicesNext]_<<at_work, vars, wallets, ends, funds, uses, banks, reports, desk,
                         rules, rewards, reviews>> => [EndFacts!Next]_(EndFacts!vars)
  BY EndsNext DEF ServicesNext, ends, EndFacts!vars, EndFacts!payments, EndFacts!ledger
<1> QED
  BY <1>1, <1>2, PTL DEF ServicesSpec, EndFacts!Spec

LEMMA WalletsAssumed == WalletFacts!PayoutsAssumption
<1>1. WalletFacts!IsFiniteSet(Withdrawals)
  BY WithdrawalsAssumption DEF WithdrawalsAssumption, Wallets!IsFiniteSet, WalletFacts!IsFiniteSet
<1> QED
  BY <1>1, WithdrawalsAssumption, ServicesBounds, AccountsAssumption
     DEF WithdrawalsAssumption, ServicesBounds, AccountsAssumption, WalletFacts!PayoutsAssumption

\* No withdrawal takes more than the wallet holds, in the services together.
THEOREM WalletKept == ServicesSpec => []NoOverdraft
<1>1. WalletFacts!Spec => []WalletFacts!NoOverdraft
  BY WalletsAssumed, WalletFacts!WalletCovered
<1>2. WalletFacts!NoOverdraft => NoOverdraft
  BY DEF NoOverdraft, Wallets!NoOverdraft, WalletFacts!NoOverdraft
<1> QED
  BY <1>1, <1>2, WalletsRun, PTL

LEMMA EndBounds == EndFacts!Bounds
  BY ServicesBounds, AccountsAssumption DEF ServicesBounds, AccountsAssumption, EndFacts!Bounds

\* A trip is settled with its driver once, unless two completions overlapped or a
\* restart cut one, in the services together.
THEOREM SettledKept == ServicesSpec => []SettledOnce
<1>1. EndFacts!Spec => []EndFacts!SettledOnce
  BY EndBounds, EndFacts!SettlesOnce
<1>2. EndFacts!SettledOnce => SettledOnce
  BY DEF SettledOnce, Ends!SettledOnce, EndFacts!SettledOnce, Ends!Completing, EndFacts!Completing,
         Ends!Completion, EndFacts!Completion, Ends!Ways, EndFacts!Ways, Ends!ForBooking, EndFacts!ForBooking
<1> QED
  BY <1>1, <1>2, EndsRun, PTL

\* A completed payment was paid, and a row is credited once at most and only if it
\* was paid, in the services together.
THEOREM PaidKept == ServicesSpec => []CompletedWasPaid
<1>1. EndFacts!Spec => []EndFacts!CompletedWasPaid
  BY EndBounds, EndFacts!CompletedPaid
<1>2. EndFacts!CompletedWasPaid => CompletedWasPaid
  BY DEF CompletedWasPaid, Ends!CompletedWasPaid, EndFacts!CompletedWasPaid, Ends!Completed,
         EndFacts!Completed, Ends!HasRow, EndFacts!HasRow
<1> QED
  BY <1>1, <1>2, EndsRun, PTL

(***************************************************************************)
(* The types, with the bounds.                                             *)
(***************************************************************************)

LEMMA SameBound ==
  ASSUME NEW m \in Nat, NEW n \in Nat, 1..m = 1..n PROVE m = n
<1>1. ASSUME NEW k \in Nat, NEW l \in Nat, k < l PROVE l \in 1..l /\ l \notin 1..k
  BY <1>1
<1>2. ~(m < n)
  BY <1>1
<1>3. ~(n < m)
  BY <1>1
<1> QED
  BY <1>2, <1>3

LEMMA SameDomain ==
  ASSUME NEW S, NEW s \in Seq(S), NEW t \in Seq(S), DOMAIN s = DOMAIN t
  PROVE  Len(s) = Len(t)
<1>1. Len(s) \in Nat /\ Len(t) \in Nat /\ DOMAIN s = 1..Len(s) /\ DOMAIN t = 1..Len(t)
  BY LenProperties
<1> QED
  BY <1>1, SameBound

\* There are no more tickets than the bound, and calls are about one of them.
DeskBounded ==
  /\ Len(ticket) <= MaxTickets /\ resets <= MaxResets
  /\ \A c \in ticket_calls : c.t \in 1..MaxTickets + 1

LEMMA DeskBoundedInit == Desk!Init => DeskBounded
<1> SUFFICES ASSUME Desk!Init PROVE DeskBounded
  OBVIOUS
<1>1. ticket = <<>> /\ ticket_calls = {} /\ resets = 0
  BY DEF Desk!Init
<1>2. Len(ticket) = 0
  BY <1>1
<1> QED
  BY <1>1, <1>2, SupportAssumption DEF DeskBounded, SupportAssumption

\* A call that begins.
LEMMA DeskBegins ==
  ASSUME DeskBounded, NEW op, NEW t \in 1..MaxTickets + 1, Desk!Start(op, t),
         UNCHANGED <<ticket, resets>>
  PROVE  DeskBounded'
<1>1. PICK n : ticket_calls' = ticket_calls \cup {[op |-> op, t |-> t, n |-> n]}
  BY DEF Desk!Start
<1> QED
  BY <1>1 DEF DeskBounded

\* A call that returns or goes on with the same ticket.
LEMMA DeskGoesOn ==
  ASSUME DeskInv, DeskBounded, DeskInv', DOMAIN ticket' = DOMAIN ticket,
         resets' <= MaxResets,
         \A e \in ticket_calls' \ ticket_calls : \E c \in ticket_calls : e.t = c.t
  PROVE  DeskBounded'
<1>1. ticket \in Seq(Desk!Ticket) /\ ticket' \in Seq(Desk!Ticket)
  <2>1. DeskTyped /\ DeskTyped'
    BY DEF DeskInv
  <2>2. Desk!Ticket' = Desk!Ticket
    BY DEF Desk!Ticket, Desk!Status
  <2> QED
    BY <2>1, <2>2 DEF DeskTyped
<1>2. Len(ticket') = Len(ticket)
  BY <1>1, SameDomain
<1> QED
  BY <1>2 DEF DeskBounded

LEMMA DeskBoundedNext == DeskInv /\ DeskBounded /\ [Desk!Next]_(Desk!vars) => DeskBounded'
<1> SUFFICES ASSUME DeskInv, DeskBounded, [Desk!Next]_(Desk!vars) PROVE DeskBounded'
  OBVIOUS
<1>1. DeskInv'
  BY DeskInvNext
<1>2. /\ DeskTyped /\ Len(ticket) \in Nat /\ DOMAIN ticket = 1..Len(ticket)
      /\ Desk!Tickets \subseteq DOMAIN ticket /\ ticket \in Seq(Desk!Ticket)
      /\ MaxTickets \in Nat /\ MaxResets \in Nat /\ resets \in Nat
  BY DeskDomain, SupportAssumption DEF DeskInv, DeskTyped, SupportAssumption
<1>3. DOMAIN ticket \subseteq 1..MaxTickets + 1
  BY <1>2 DEF DeskBounded
<1>4. CASE UNCHANGED Desk!vars
  BY <1>4 DEF Desk!vars, DeskBounded
<1>5. CASE Desk!CreateTicket
  <2>1. IsFiniteSet(1..Len(ticket)) /\ Cardinality(1..Len(ticket)) = Len(ticket)
    <3>1. 1 \in Int /\ Len(ticket) \in Int /\ (1 > Len(ticket) => Len(ticket) = 0)
          /\ Len(ticket) - 1 + 1 = Len(ticket)
      BY <1>2
    <3>2. /\ IsFiniteSet(1..Len(ticket))
          /\ Cardinality(1..Len(ticket)) = IF 1 > Len(ticket) THEN 0 ELSE Len(ticket) - 1 + 1
      BY <3>1, FS_Interval, Zenon
    <3> QED
      BY <3>1, <3>2
  <2>2. Cardinality(Desk!Tickets) <= Len(ticket) /\ Cardinality(Desk!Tickets) \in Nat
    BY <1>2, <2>1, FS_Subset, FS_CardinalityType
  <2>3. Desk!Cardinality(Desk!Tickets) = Cardinality(Desk!Tickets)
    BY DEF Desk!Cardinality, Cardinality
  <2>4. Desk!Cardinality(Desk!Tickets) + 1 \in 1..MaxTickets + 1
    BY <1>2, <2>2, <2>3 DEF DeskBounded
  <2> QED
    BY <1>5, <2>4, DeskBegins DEF Desk!CreateTicket
<1>6. ASSUME NEW t \in DOMAIN ticket, Desk!ReplyToTicket(t) PROVE DeskBounded'
  <2>1. t \in 1..MaxTickets + 1
    BY <1>3
  <2> QED
    BY <1>6, <2>1, DeskBegins DEF Desk!ReplyToTicket
<1>7. ASSUME NEW t \in DOMAIN ticket, NEW s, Desk!UpdateTicketStatus(t, s) PROVE DeskBounded'
  <2>1. DOMAIN ticket' = DOMAIN ticket
    BY <1>7 DEF Desk!UpdateTicketStatus, Desk!SetStatus
  <2>2. UNCHANGED <<ticket_calls, resets>>
    BY <1>7 DEF Desk!UpdateTicketStatus
  <2>3. resets' <= MaxResets
    BY <2>2 DEF DeskBounded
  <2> QED
    BY <1>1, <2>1, <2>2, <2>3, DeskGoesOn
<1>8. ASSUME NEW ts, Desk!ResetDriverData(ts) PROVE DeskBounded'
  <2>1. DOMAIN ticket' = DOMAIN ticket /\ UNCHANGED ticket_calls
    BY <1>8 DEF Desk!ResetDriverData
  <2>2. resets' <= MaxResets
    BY <1>2, <1>8 DEF Desk!ResetDriverData
  <2> QED
    BY <1>1, <2>1, <2>2, DeskGoesOn
<1>9. ASSUME NEW c \in ticket_calls, Desk!InsertTicket(c) PROVE DeskBounded'
  <2> DEFINE row == [number |-> c.t, status |-> "open", messages |-> {}]
             e == [c EXCEPT !.op = "describe", !.t = Len(ticket) + 1]
  <2>1. /\ Len(ticket) < MaxTickets /\ ticket' = Append(ticket, row)
        /\ ticket_calls' = (ticket_calls \ {c}) \cup {e} /\ UNCHANGED resets
    BY <1>9 DEF Desk!InsertTicket, Desk!Continue
  <2>2. c \in DeskCall
    BY <1>2 DEF DeskTyped
  <2>3. e.t = Len(ticket) + 1
    BY <2>2 DEF DeskCall
  <2> HIDE DEF e, row
  <2>4. Len(ticket') = Len(ticket) + 1
    BY <1>2, <2>1
  <2>5. e.t \in 1..MaxTickets + 1 /\ Len(ticket') <= MaxTickets
    BY <1>2, <2>1, <2>3, <2>4
  <2> QED
    BY <2>1, <2>5 DEF DeskBounded
<1>10. ASSUME NEW c \in ticket_calls,
              Desk!DescribeTicket(c) \/ Desk!TakeUp(c) \/ Desk!Answer(c) \/ Desk!Fail(c)
       PROVE  DeskBounded'
  <2>1. DOMAIN ticket' = DOMAIN ticket
    BY <1>10 DEF Desk!DescribeTicket, Desk!TakeUp, Desk!Answer, Desk!Fail, Desk!Write, Desk!SetStatus
  <2>2. UNCHANGED resets
    BY <1>10 DEF Desk!DescribeTicket, Desk!TakeUp, Desk!Answer, Desk!Fail
  <2>3. resets' <= MaxResets
    BY <2>2 DEF DeskBounded
  <2>4. \A d \in ticket_calls' \ ticket_calls : \E b \in ticket_calls : d.t = b.t
    <3>1. CASE Desk!DescribeTicket(c) \/ Desk!Answer(c) \/ Desk!Fail(c)
      BY <3>1 DEF Desk!DescribeTicket, Desk!Answer, Desk!Fail, Desk!Return
    <3>2. CASE Desk!TakeUp(c)
      <4> DEFINE e == [c EXCEPT !.op = "answer", !.t = c.t]
      <4>1. ticket_calls' = (ticket_calls \ {c}) \cup {e}
        BY <3>2 DEF Desk!TakeUp, Desk!Continue
      <4>2. e.t = c.t
        BY <1>2 DEF DeskTyped, DeskCall
      <4> HIDE DEF e
      <4> QED
        BY <4>1, <4>2
    <3> QED
      BY <1>10, <3>1, <3>2
  <2> QED
    BY <1>1, <2>1, <2>3, <2>4, DeskGoesOn
<1> QED
  BY <1>4, <1>5, <1>6, <1>7, <1>8, <1>9, <1>10 DEF Desk!Next

LEMMA DeskTypes == DeskInv /\ DeskBounded => Desk!TypeOK
<1> SUFFICES ASSUME DeskInv, DeskBounded PROVE Desk!TypeOK
  OBVIOUS
<1>1. \A c \in ticket_calls : c \in Desk!Call
  BY DEF DeskInv, DeskTyped, DeskCall, DeskBounded, Desk!Call
<1>2. resets \in 0..MaxResets
  BY SupportAssumption DEF DeskInv, DeskTyped, DeskBounded, SupportAssumption
<1> QED
  BY <1>1, <1>2 DEF DeskInv, DeskTyped, Desk!TypeOK

\* Every variable of the tickets has its type.
THEOREM DeskTypeCorrect == Desk!Spec => []Desk!TypeOK
  BY DeskStart, DeskInvNext, DeskBoundedInit, DeskBoundedNext, DeskTypes, PTL DEF Desk!Spec

\* Pricing counts its rules and trips up to their bounds.
RulesBounded == rule_count <= MaxRules /\ initialized \in BOOLEAN /\ trips \in 0..MaxTrips

LEMMA RulesBoundedInit == Rules!Init => RulesBounded
<1> SUFFICES ASSUME Rules!Init PROVE RulesBounded
  OBVIOUS
<1>1. rule_count = 0 /\ initialized = FALSE /\ trips = 0
  BY DEF Rules!Init
<1>2. MaxRules \in Nat /\ MaxTrips \in Nat
  BY PricingAssumption DEF PricingAssumption
<1>3. rule_count <= MaxRules /\ trips \in 0..MaxTrips
  BY <1>1, <1>2, SMT
<1>4. initialized \in BOOLEAN
  BY <1>1, Zenon
<1> QED
  BY <1>3, <1>4, Zenon DEF RulesBounded

LEMMA RulesBoundedNext == RulesInv /\ RulesBounded /\ [Rules!Next]_(Rules!vars) => RulesBounded'
<1> SUFFICES ASSUME RulesInv, RulesBounded, [Rules!Next]_(Rules!vars) PROVE RulesBounded'
  OBVIOUS
<1>1. /\ rule_count \in Nat /\ rule_count <= MaxRules /\ initialized \in BOOLEAN
      /\ trips \in 0..MaxTrips /\ MaxRules \in Nat /\ MaxTrips \in Nat
  BY PricingAssumption DEF RulesInv, RulesTyped, RulesBounded, PricingAssumption
<1>2. CASE UNCHANGED Rules!vars
  BY <1>1, <1>2 DEF Rules!vars, Rules!table, RulesBounded
<1>3. CASE Rules!Ensure \/ Rules!SeedPricingRules \/ Rules!Restart \/ Rules!Raise \/ Rules!Done
  BY <1>1, <1>3 DEF Rules!Ensure, Rules!SeedPricingRules, Rules!Restart, Rules!Raise, Rules!Done,
     Rules!table, RulesBounded
<1>4. ASSUME NEW s \in seeders, Rules!SeedStep(s) PROVE RulesBounded'
  <2>1. ASSUME NEW type \in Public, Rules!SeedFind(s, type) PROVE RulesBounded'
    <3>1. UNCHANGED <<rule_count, initialized, trips>>
      BY <2>1 DEF Rules!SeedFind, Rules!table
    <3> QED
      BY <1>1, <3>1 DEF RulesBounded
  <2>2. CASE Rules!SeedInsert(s)
    BY <1>1, <2>2 DEF Rules!SeedInsert, Rules!Insert, RulesBounded
  <2>3. CASE Rules!SeedRetire(s)
    <3>1. UNCHANGED <<rule_count, trips>> /\ initialized' \in BOOLEAN
      BY <1>1, <2>3 DEF Rules!SeedRetire
    <3> QED
      BY <1>1, <3>1 DEF RulesBounded
  <2> QED
    BY <1>4, <2>1, <2>2, <2>3 DEF Rules!SeedStep
<1>5. ASSUME NEW i, Rules!Delete(i) PROVE RulesBounded'
  BY <1>1, <1>5 DEF Rules!Delete, RulesBounded
<1>6. ASSUME NEW city, NEW state, NEW type, Rules!Create(type, city, state) PROVE RulesBounded'
  BY <1>1, <1>6 DEF Rules!Create, Rules!Insert, RulesBounded
<1>7. ASSUME NEW city, NEW state, NEW i, NEW active, Rules!Update(i, city, state, active)
      PROVE  RulesBounded'
  BY <1>1, <1>7 DEF Rules!Update, RulesBounded
<1>8. ASSUME NEW type, NEW state, NEW km, NEW surge, NEW discount, NEW set,
             Rules!Quote(type, state, km, surge, discount, set)
      PROVE  RulesBounded'
  <2>1. trips < MaxTrips /\ trips' = trips + 1 /\ UNCHANGED <<rule_count, initialized>>
    BY <1>8 DEF Rules!Quote, Rules!table
  <2> QED
    BY <1>1, <2>1 DEF RulesBounded
<1>9. ASSUME NEW type, NEW city, NEW toll, Rules!Complete(type, city, toll) PROVE RulesBounded'
  <2>1. UNCHANGED <<rule_count, initialized, trips>>
    BY <1>9 DEF Rules!Complete, Rules!table
  <2> QED
    BY <1>1, <2>1 DEF RulesBounded
<1> QED
  BY <1>2, <1>3, <1>4, <1>5, <1>6, <1>7, <1>8, <1>9 DEF Rules!Next

LEMMA RulesTypes == RulesInv /\ RulesBounded => Rules!TypeOK
<1> SUFFICES ASSUME RulesInv, RulesBounded PROVE Rules!TypeOK
  OBVIOUS
<1>1. rule_count \in 0..MaxRules
  BY PricingAssumption DEF RulesInv, RulesTyped, RulesBounded, PricingAssumption
<1>2. quoted_trip.at \in {"none", "offer", "raised", "completed"}
  BY DEF RulesInv, TripPriced, Rules!NoTrip, OpenTrip, EndedTrip
<1> QED
  BY <1>1, <1>2 DEF RulesInv, RulesTyped, RulesBounded, Seeder, Rules!TypeOK

\* Every variable of pricing has its type.
THEOREM RulesTypeCorrect == Rules!Spec => []Rules!TypeOK
  BY RulesStart, RulesInvNext, RulesBoundedInit, RulesBoundedNext, RulesTypes, PTL DEF Rules!Spec

Inserting == {c \in bank_calls : c.op = "insert"}

\* The accounts there are and those to be inserted are no more than the bound.
BanksBounded ==
  /\ IsFiniteSet(Inserting) /\ account_count + Cardinality(Inserting) <= MaxAccounts
  /\ \A c \in bank_calls : c.a <= MaxAccounts
  /\ beneficiary \in [Banks!Accounts -> Numbers \cup {0}]

LEMMA BanksBoundedInit == Banks!Init => BanksBounded
<1> SUFFICES ASSUME Banks!Init PROVE BanksBounded
  OBVIOUS
<1>1. /\ account_count = 0 /\ bank_calls = {} /\ beneficiary = [a \in Banks!Accounts |-> 0]
  BY DEF Banks!Init
<1>2. Inserting = {}
  BY <1>1 DEF Inserting
<1>3. IsFiniteSet(Inserting) /\ Cardinality(Inserting) = 0
  BY <1>2, FS_EmptySet
<1> QED
  BY <1>1, <1>3, BanksAssumption DEF BanksBounded, BanksAssumption

\* No account is inserted and none is about to be.
LEMMA BanksBoundedStay ==
  ASSUME BanksInv, BanksBounded, BanksInv', UNCHANGED account_count,
         beneficiary' \in [Banks!Accounts -> Numbers \cup {0}],
         \A e \in bank_calls' \ bank_calls : /\ e.op # "insert"
                                             /\ e.op # "promote" => e.a <= MaxAccounts
  PROVE  BanksBounded'
<1>1. IsFiniteSet(Inserting) /\ Cardinality(Inserting) \in Nat
  BY FS_CardinalityType DEF BanksBounded
<1>2. Inserting' \subseteq Inserting
  BY DEF Inserting
<1>3. IsFiniteSet(Inserting') /\ Cardinality(Inserting') <= Cardinality(Inserting)
  BY <1>1, <1>2, FS_Subset
<1>4. Cardinality(Inserting') \in Nat
  BY <1>3, FS_CardinalityType
<1>5. account_count \in Nat /\ MaxAccounts \in Nat
  BY BanksAssumption DEF BanksInv, BanksTyped, BanksAssumption
<1>6. account_count' + Cardinality(Inserting') <= MaxAccounts
  BY <1>1, <1>3, <1>4, <1>5 DEF BanksBounded
<1>7. ASSUME NEW e \in bank_calls' PROVE e.a <= MaxAccounts
  <2>1. CASE e \in bank_calls
    BY <2>1 DEF BanksBounded
  <2>2. CASE e \notin bank_calls /\ e.op = "promote"
    <3>1. e.a \in Banks!Accounts
      BY <2>2 DEF BanksInv, CallsMean, Banks!Accounts
    <3> QED
      BY <1>5, <3>1 DEF Banks!Accounts
  <2>3. CASE e \notin bank_calls /\ e.op # "promote"
    BY <2>3
  <2> QED
    BY <2>1, <2>2, <2>3
<1>8. Banks!Accounts' = Banks!Accounts
  BY DEF Banks!Accounts
<1> QED
  BY <1>3, <1>6, <1>7, <1>8 DEF BanksBounded

LEMMA BanksBoundedAdd == BanksInv /\ BanksBounded /\ Banks!Add => BanksBounded'
<1> SUFFICES ASSUME BanksInv, BanksBounded, Banks!Add PROVE BanksBounded'
  OBVIOUS
<1>1. PICK number \in Numbers, n \in 1..MaxCalls :
        bank_calls' = bank_calls \cup
          {[op |-> "insert", a |-> 0, was |-> Banks!NoRow,
            row |-> [exists |-> TRUE, number |-> number, primary |-> (Banks!Live = {}), synced |-> FALSE],
            n |-> n]}
  BY DEF Banks!Add, Banks!Start
<1> DEFINE e == [op |-> "insert", a |-> 0, was |-> Banks!NoRow,
            row |-> [exists |-> TRUE, number |-> number, primary |-> (Banks!Live = {}), synced |-> FALSE],
            n |-> n]
<1>2. bank_calls' = bank_calls \cup {e} /\ e.op = "insert" /\ e.a = 0
  BY <1>1
<1> HIDE DEF e
<1>3. UNCHANGED <<account_count, beneficiary>>
      /\ account_count + Banks!Cardinality(Inserting) < MaxAccounts
  BY DEF Banks!Add, Inserting
<1>4. Banks!Cardinality(Inserting) = Cardinality(Inserting)
  BY DEF Banks!Cardinality, Cardinality
<1>5. Inserting' = Inserting \cup {e}
  BY <1>2 DEF Inserting
<1>6. IsFiniteSet(Inserting)
  BY DEF BanksBounded
<1>7. /\ IsFiniteSet(Inserting') /\ Cardinality(Inserting) \in Nat
      /\ Cardinality(Inserting') \in {Cardinality(Inserting), Cardinality(Inserting) + 1}
  BY <1>5, <1>6, FS_AddElement, FS_CardinalityType
<1>8. account_count \in Nat /\ MaxAccounts \in Nat
  BY BanksAssumption DEF BanksInv, BanksTyped, BanksAssumption
<1>9. account_count' + Cardinality(Inserting') <= MaxAccounts
  BY <1>3, <1>4, <1>7, <1>8
<1>10. \A c \in bank_calls' : c.a <= MaxAccounts
  BY <1>2, <1>8 DEF BanksBounded
<1>11. Banks!Accounts' = Banks!Accounts
  BY DEF Banks!Accounts
<1> QED
  BY <1>3, <1>7, <1>9, <1>10, <1>11 DEF BanksBounded

LEMMA BanksBoundedInsert ==
  ASSUME BanksInv, BanksBounded, NEW c \in bank_calls, Banks!Insert(c)
  PROVE  BanksBounded'
<1> DEFINE e == [c EXCEPT !.op = "sync", !.a = account_count + 1]
<1>1. /\ c.op = "insert" /\ account_count' = account_count + 1
      /\ bank_calls' = (bank_calls \ {c}) \cup {e} /\ UNCHANGED beneficiary
  BY DEF Banks!Insert
<1>2. e.op = "sync" /\ e.a = account_count + 1
  BY DEF BanksInv, BanksTyped, BankCall
<1> HIDE DEF e
<1>3. Inserting' = Inserting \ {c} /\ c \in Inserting
  BY <1>1, <1>2 DEF Inserting
<1>4. IsFiniteSet(Inserting)
  BY DEF BanksBounded
<1>5. /\ IsFiniteSet(Inserting') /\ Cardinality(Inserting) \in Nat
      /\ Cardinality(Inserting') = Cardinality(Inserting) - 1
  BY <1>3, <1>4, FS_RemoveElement, FS_CardinalityType
<1>6. Cardinality(Inserting') \in Nat
  BY <1>5, FS_CardinalityType
<1>7. account_count \in Nat /\ MaxAccounts \in Nat
      /\ account_count + Cardinality(Inserting) <= MaxAccounts
  BY BanksAssumption DEF BanksInv, BanksTyped, BanksAssumption, BanksBounded
<1>8. /\ account_count' + Cardinality(Inserting') <= MaxAccounts
      /\ account_count + 1 <= MaxAccounts
  BY <1>1, <1>5, <1>6, <1>7
<1>9. \A d \in bank_calls' : d.a <= MaxAccounts
  BY <1>1, <1>2, <1>8 DEF BanksBounded
<1>10. Banks!Accounts' = Banks!Accounts
  BY DEF Banks!Accounts
<1> QED
  BY <1>1, <1>5, <1>8, <1>9, <1>10 DEF BanksBounded

LEMMA BanksBoundedNext == BanksInv /\ BanksBounded /\ [Banks!Next]_(Banks!vars) => BanksBounded'
<1> SUFFICES ASSUME BanksInv, BanksBounded, [Banks!Next]_(Banks!vars) PROVE BanksBounded'
  OBVIOUS
<1>1. BanksInv'
  BY BanksInvNext
<1>2. beneficiary \in [Banks!Accounts -> Numbers \cup {0}] /\ BanksTyped
  BY DEF BanksBounded, BanksInv
<1>3. CASE UNCHANGED Banks!vars
  BY <1>1, <1>2, <1>3, BanksBoundedStay DEF Banks!vars
<1>4. CASE Banks!Add
  BY <1>4, BanksBoundedAdd
<1>5. ASSUME NEW a \in Banks!Accounts,
             \/ Banks!Delete(a) \/ Banks!SetPrimary(a) \/ Banks!Withdraw(a)
             \/ \E number \in Numbers : Banks!Update(a, number)
      PROVE  BanksBounded'
  <2>0. PICK op \in {"remove", "unset", "pay", "pay_sync", "update"} :
          \E was, row : Banks!Start(op, a, was, row)
    BY <1>5 DEF Banks!Delete, Banks!SetPrimary, Banks!Withdraw, Banks!Update
  <2>1. PICK was, row : Banks!Start(op, a, was, row)
    BY <2>0
  <2>2. PICK n : bank_calls' = bank_calls \cup {[op |-> op, a |-> a, was |-> was, row |-> row, n |-> n]}
    BY <2>1 DEF Banks!Start
  <2>3. UNCHANGED <<account_count, beneficiary>>
    BY <1>5 DEF Banks!Delete, Banks!SetPrimary, Banks!Withdraw, Banks!Update
  <2>4. a <= MaxAccounts
    BY BanksAssumption DEF Banks!Accounts, BanksAssumption
  <2> QED
    BY <1>1, <1>2, <2>1, <2>2, <2>3, <2>4, BanksBoundedStay
<1>6. ASSUME NEW c \in bank_calls, Banks!Insert(c) PROVE BanksBounded'
  BY <1>6, BanksBoundedInsert
<1>7. ASSUME NEW c \in bank_calls, NEW op \in Banks!Op, op # "insert",
             Banks!Continue(c, op) \/ Banks!Return(c), UNCHANGED account_count,
             beneficiary' \in [Banks!Accounts -> Numbers \cup {0}]
      PROVE  BanksBounded'
  <2>1. CASE Banks!Continue(c, op)
    <3>1. PICK e \in BankCall : /\ e.op = op /\ e.a = c.a
                                /\ bank_calls' = (bank_calls \ {c}) \cup {e}
      BY <1>2, <2>1, BanksContinues
    <3>2. e.a <= MaxAccounts
      BY <3>1 DEF BanksBounded
    <3> QED
      BY <1>1, <1>7, <3>1, <3>2, BanksBoundedStay
  <2>2. CASE Banks!Return(c)
    <3>1. bank_calls' \subseteq bank_calls
      BY <2>2 DEF Banks!Return
    <3> QED
      BY <1>1, <1>7, <3>1, BanksBoundedStay
  <2> QED
    BY <1>7, <2>1, <2>2
<1>8. ASSUME NEW c \in bank_calls, Banks!Sync(c) PROVE BanksBounded'
  <2>1. c.row.number \in Numbers \cup {0}
    BY <1>2, BanksKnown DEF Banks!Row
  <2>2. beneficiary' \in [Banks!Accounts -> Numbers \cup {0}]
    BY <1>2, <1>8, <2>1 DEF Banks!Sync
  <2>3. \E op \in {"synced", "pay_synced"} : Banks!Continue(c, op)
    BY <1>8 DEF Banks!Sync
  <2> QED
    BY <1>7, <1>8, <2>2, <2>3 DEF Banks!Sync, Banks!Op
<1>9. ASSUME NEW c \in bank_calls,
             \/ Banks!SyncFails(c) \/ Banks!Synced(c) \/ Banks!UpdateSave(c)
             \/ Banks!Remove(c) \/ Banks!Promote(c) \/ Banks!UnsetAll(c) \/ Banks!SetSave(c)
             \/ Banks!Transfer(c)
      PROVE  BanksBounded'
  <2>1. UNCHANGED <<account_count, beneficiary>>
    BY <1>9 DEF Banks!SyncFails, Banks!Synced, Banks!UpdateSave, Banks!Remove, Banks!Promote,
       Banks!UnsetAll, Banks!SetSave, Banks!Transfer
  <2>2. \E op \in {"pay", "find", "set"} : Banks!Continue(c, op) \/ Banks!Return(c)
    BY <1>9 DEF Banks!SyncFails, Banks!Synced, Banks!UpdateSave, Banks!Remove, Banks!Promote,
       Banks!UnsetAll, Banks!SetSave, Banks!Transfer
  <2> QED
    BY <1>2, <1>7, <2>1, <2>2 DEF Banks!Op
<1>10. ASSUME NEW c \in bank_calls, Banks!FindNext(c) PROVE BanksBounded'
  <2>1. UNCHANGED <<account_count, beneficiary>>
    BY <1>10 DEF Banks!FindNext
  <2>2. CASE Banks!Return(c)
    BY <1>2, <1>7, <2>1, <2>2 DEF Banks!Op
  <2>3. CASE bank_calls' = (bank_calls \ {c}) \cup
              {[c EXCEPT !.op = "promote", !.a = Banks!Oldest, !.was = account[Banks!Oldest],
                         !.row = [account[Banks!Oldest] EXCEPT !.primary = TRUE]]}
    <3> DEFINE e == [c EXCEPT !.op = "promote", !.a = Banks!Oldest, !.was = account[Banks!Oldest],
                              !.row = [account[Banks!Oldest] EXCEPT !.primary = TRUE]]
    <3>1. e.op = "promote"
      BY <1>2 DEF BanksTyped, BankCall
    <3>2. bank_calls' = (bank_calls \ {c}) \cup {e}
      BY <2>3
    <3> HIDE DEF e
    <3> QED
      BY <1>1, <1>2, <2>1, <3>1, <3>2, BanksBoundedStay
  <2> QED
    BY <1>10, <2>2, <2>3 DEF Banks!FindNext
<1> QED
  BY <1>3, <1>4, <1>5, <1>6, <1>8, <1>9, <1>10 DEF Banks!Next, Banks!CallStep

LEMMA BanksTypes == BanksInv /\ BanksBounded => Banks!TypeOK
<1> SUFFICES ASSUME BanksInv, BanksBounded PROVE Banks!TypeOK
  OBVIOUS
<1>1. /\ account_count \in Nat /\ MaxAccounts \in Nat /\ Cardinality(Inserting) \in Nat
      /\ account_count + Cardinality(Inserting) <= MaxAccounts
  BY BanksAssumption, FS_CardinalityType DEF BanksInv, BanksTyped, BanksBounded, BanksAssumption
<1>2. account_count \in 0..MaxAccounts
  BY <1>1
<1>3. \A c \in bank_calls : c \in Banks!Call
  BY <1>1 DEF BanksInv, BanksTyped, BankCall, BanksBounded, Banks!Call
<1> QED
  BY <1>2, <1>3 DEF BanksInv, BanksTyped, BanksBounded, Banks!TypeOK

\* Every variable of the bank accounts has its type.
THEOREM BanksTypeCorrect == Banks!Spec => []Banks!TypeOK
  BY BanksStart, BanksInvNext, BanksBoundedInit, BanksBoundedNext, BanksTypes, PTL DEF Banks!Spec

(***************************************************************************)
(* The types of all services.                                              *)
(***************************************************************************)

LEMMA AccountsRun == ServicesSpec => Spec
<1>1. ServicesInit => Init
  BY DEF ServicesInit
<1>2. [ServicesNext]_<<at_work, vars, wallets, ends, funds, uses, banks, reports, desk,
                         rules, rewards, reviews>> => [Next]_vars
  BY DEF ServicesNext
<1> QED
  BY <1>1, <1>2, PTL DEF ServicesSpec, Spec

LEMMA WalletsTypes == WalletFacts!TypeOK => Wallets!TypeOK
  BY DEF WalletFacts!TypeOK, Wallets!TypeOK, WalletFacts!Row, Wallets!Row, WalletFacts!Status,
     Wallets!Status, WalletFacts!Transfer, Wallets!Transfer, WalletFacts!Event, Wallets!Event,
     WalletFacts!Call, Wallets!Call, WalletFacts!Op, Wallets!Op

LEMMA EndsTypes == EndFacts!TypeOK => Ends!TypeOK
  BY DEF EndFacts!TypeOK, Ends!TypeOK, EndFacts!Online, Ends!Online, EndFacts!Status, Ends!Status,
     EndFacts!Rows, Ends!Rows, EndFacts!Call, Ends!Call, EndFacts!Cashfree, Ends!Cashfree,
     EndFacts!Op, Ends!Op

\* What each service keeps, taken together, gives the types of the one at work.
LEMMA TypesOfEach ==
  ASSUME at_work \in Parts, TypeOK, Wallets!TypeOK, Ends!TypeOK, Funds!TypeOK, Uses!TypeOK,
         Banks!TypeOK, Checks!TypeOK, Desk!TypeOK, Rules!TypeOK, Rewards!TypeOK, Reviews!TypeOK
  PROVE  TypesOK
<1>1. CASE at_work = "accounts"
  BY <1>1 DEF TypesOK
<1> QED
  BY <1>1 DEF TypesOK, Parts

AtWork == at_work \in Parts

LEMMA PartsStay == ServicesSpec => []AtWork
<1>1. ServicesInit => AtWork
  BY DEF ServicesInit, AtWork
<1>2. AtWork /\ [ServicesNext]_<<at_work, vars, wallets, ends, funds, uses, banks, reports, desk,
                         rules, rewards, reviews>> => AtWork'
  BY DEF ServicesNext, AtWork
<1> QED
  BY <1>1, <1>2, PTL DEF ServicesSpec

\* At every moment the variables of the service at work have their types.
THEOREM TypesKept == ServicesSpec => []TypesOK
<1>1. Spec => []TypeOK
  BY TypeCorrect
<1>2. WalletFacts!Spec => []WalletFacts!TypeOK
  BY WalletsAssumed, WalletFacts!TypeCorrect
<1>3. EndFacts!Spec => []EndFacts!TypeOK
  BY EndBounds, EndFacts!TypeCorrect
<1>4. Funds!Spec => []Funds!TypeOK
  <2>1. FundsInv => Funds!TypeOK
    BY DEF FundsInv
  <2> QED
    BY <2>1, FundsStart, FundsInvNext, PTL DEF Funds!Spec
<1>5. Uses!Spec => []Uses!TypeOK
  <2>1. UsesInv => Uses!TypeOK
    BY DEF UsesInv
  <2> QED
    BY <2>1, UsesStart, UsesInvNext, PTL DEF Uses!Spec
<1>6. Checks!Spec => []Checks!TypeOK
  <2>1. ChecksInv => Checks!TypeOK
    BY DEF ChecksInv
  <2> QED
    BY <2>1, ChecksStart, ChecksInvNext, PTL DEF Checks!Spec
<1>7. ServicesSpec => []TypeOK
  BY <1>1, AccountsRun, PTL
<1>8. ServicesSpec => []Wallets!TypeOK
  BY <1>2, WalletsTypes, WalletsRun, PTL
<1>9. ServicesSpec => []Ends!TypeOK
  BY <1>3, EndsTypes, EndsRun, PTL
<1>10. ServicesSpec => [](Funds!TypeOK /\ Uses!TypeOK /\ Checks!TypeOK)
  BY <1>4, <1>5, <1>6, ShieldRuns, CouponRuns, ChecksRun, PTL
<1>11. ServicesSpec => [](Banks!TypeOK /\ Desk!TypeOK /\ Rules!TypeOK)
  BY BanksTypeCorrect, DeskTypeCorrect, RulesTypeCorrect, BanksRun, DeskRuns, RulesRun, PTL
<1>12. ServicesSpec => [](Rewards!TypeOK /\ Reviews!TypeOK)
  BY RewardsTyped, ReviewsTypeCorrect, RewardsRun, ReviewsRun, PTL
<1>13. /\ AtWork /\ TypeOK /\ Wallets!TypeOK /\ Ends!TypeOK
       /\ Funds!TypeOK /\ Uses!TypeOK /\ Checks!TypeOK
       /\ Banks!TypeOK /\ Desk!TypeOK /\ Rules!TypeOK
       /\ Rewards!TypeOK /\ Reviews!TypeOK
       => TypesOK
  BY TypesOfEach DEF AtWork
<1> QED
  BY <1>7, <1>8, <1>9, <1>10, <1>11, <1>12, <1>13, PartsStay, PTL
==============================================================================
