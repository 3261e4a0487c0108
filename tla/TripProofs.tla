----------------------------- MODULE TripProofs -----------------------------
(***************************************************************************)
(* Theorems about Trip, for every value of its constants.                  *)
(***************************************************************************)
EXTENDS Trip, FiniteSetTheorems, TLAPS

-----------------------------------------------------------------------------
(***************************************************************************)
(* Types, and what a handler past its read knows of the row it has read.   *)
(***************************************************************************)

\* A call acts for a driver, unless a customer or an admin cancels.
Manned(c) == c.driver \in Drivers \/ (c.op \in {"cancel", "admin_cancel"} /\ c.by = "none")

\* What the handler's first part has checked.
ReadOK(c) ==
  /\ c.op = "start" => c.snap.status \in {"accepted", "driver_assigned"}
  /\ c.op = "complete" => c.snap.status = "ongoing"
  /\ c.op = "cancel" => c.snap.status # "completed"
  /\ c.op = "admin_cancel" => c.snap.status \notin Ended
  /\ c.op = "transfer" => c.snap.handoffs = 0
  /\ c.op = "flag" => ~c.snap.flagged

\* The table of incidents is finite, so that OpenIncident has a number for the next.
Formed ==
  /\ TypeOK
  /\ \A c \in calls : Manned(c) /\ ReadOK(c)
  /\ IsFiniteSet(incidents)

LEMMA FormedInit == Init => Formed
  <1> SUFFICES ASSUME Init PROVE Formed
    OBVIOUS
  <1>1. Assigned \in [Bookings -> Drivers]
    BY TripAssumption DEF TripAssumption
  <1>2. row \in [Bookings -> Row]
    BY <1>1 DEF Init, Row, Status
  <1>3. IsFiniteSet(incidents)
    BY FS_EmptySet DEF Init
  <1>4. marker \in [Bookings -> BOOLEAN]
    BY DEF Init
  <1> QED BY <1>2, <1>3, <1>4 DEF Init, Formed, TypeOK

\* The columns of a row.
LEMMA Columns ==
  ASSUME NEW r \in Row
  PROVE  r.status \in Status /\ r.driver \in Drivers /\ r.flagged \in BOOLEAN /\ r.handoffs \in 0..1
  BY DEF Row

\* A row with another status ...
LEMMA StatusSet ==
  ASSUME NEW r \in Row, NEW s \in Status
  PROVE  LET u == [r EXCEPT !.status = s]
         IN  u \in Row /\ u.status = s /\ u.driver = r.driver /\ u.flagged = r.flagged /\ u.handoffs = r.handoffs
  <1>1. [r EXCEPT !.status = s]
          = [status |-> s, driver |-> r.driver, flagged |-> r.flagged, handoffs |-> r.handoffs]
    BY DEF Row
  <1> QED BY <1>1, Columns DEF Row

\* ... with the flag set or cleared ...
LEMMA FlagSet ==
  ASSUME NEW r \in Row, NEW f \in BOOLEAN
  PROVE  LET u == [r EXCEPT !.flagged = f]
         IN  u \in Row /\ u.status = r.status /\ u.driver = r.driver /\ u.flagged = f /\ u.handoffs = r.handoffs
  <1>1. [r EXCEPT !.flagged = f]
          = [status |-> r.status, driver |-> r.driver, flagged |-> f, handoffs |-> r.handoffs]
    BY DEF Row
  <1> QED BY <1>1, Columns DEF Row

\* ... and handed to another driver ...
LEMMA HandedTo ==
  ASSUME NEW r \in Row, NEW d \in Drivers
  PROVE  LET u == [r EXCEPT !.driver = d, !.handoffs = 1]
         IN  /\ u \in Row /\ u.status = r.status /\ u.driver = d
             /\ u.flagged = r.flagged /\ u.handoffs = 1
  <1>1. ASSUME NEW u, u = [r EXCEPT !.driver = d, !.handoffs = 1]
        PROVE  /\ u \in Row /\ u.status = r.status /\ u.driver = d
               /\ u.flagged = r.flagged /\ u.handoffs = 1
    <2>1. DOMAIN u = {"status", "driver", "flagged", "handoffs"}
      BY <1>1 DEF Row
    <2>2. u.status = r.status /\ u.driver = d /\ u.handoffs = 1
      BY <1>1 DEF Row
    <2>3. u.flagged = r.flagged
      BY <1>1 DEF Row
    <2>4. u = [status |-> r.status, driver |-> d, flagged |-> r.flagged, handoffs |-> 1]
      BY <1>1, <2>1, <2>2, <2>3, Zenon DEF Row
    <2> QED BY <2>4, Columns DEF Row
  <1> QED BY <1>1

\* ... or given to one by an admin.
LEMMA ReassignedTo ==
  ASSUME NEW r \in Row, NEW d \in Drivers
  PROVE  LET u == [r EXCEPT !.driver = d, !.status = "driver_assigned"]
         IN  /\ u \in Row /\ u.status = "driver_assigned" /\ u.driver = d
             /\ u.flagged = r.flagged /\ u.handoffs = r.handoffs
  <1>1. ASSUME NEW u, u = [r EXCEPT !.driver = d, !.status = "driver_assigned"]
        PROVE  /\ u \in Row /\ u.status = "driver_assigned" /\ u.driver = d
               /\ u.flagged = r.flagged /\ u.handoffs = r.handoffs
    <2>1. DOMAIN u = {"status", "driver", "flagged", "handoffs"}
      BY <1>1 DEF Row
    <2>2. u.status = "driver_assigned" /\ u.driver = d /\ u.handoffs = r.handoffs
      BY <1>1 DEF Row
    <2>3. u.flagged = r.flagged
      BY <1>1 DEF Row
    <2>4. u = [status |-> "driver_assigned", driver |-> d, flagged |-> r.flagged, handoffs |-> r.handoffs]
      BY <1>1, <2>1, <2>2, <2>3, Zenon DEF Row
    <2> QED BY <2>4, Columns DEF Row, Status
  <1> QED BY <1>1

\* A call that begins has read the row as it is.
LEMMA Begun ==
  ASSUME Formed, NEW b \in Bookings, NEW op \in Op, NEW d \in Drivers \cup {NoDriver}, Begin(op, b, d)
  PROVE  \E e \in Call : /\ calls' = calls \cup {e}
                         /\ e.op = op /\ e.booking = b /\ e.driver = d /\ e.by = "none" /\ e.snap = row[b]
  <1>1. row[b] \in Row
    BY DEF Formed, TypeOK
  <1>2. CallOf(op, b, d, "none") \in Call
    BY <1>1 DEF CallOf, Call, Guard
  <1> QED BY <1>2 DEF Begin, CallOf

\* A call that goes on changes its stage and nothing else.
LEMMA Continued ==
  ASSUME NEW c \in Call, NEW op \in Op, Continue(c, op)
  PROVE  \E e \in Call :
           /\ calls' = (calls \ {c}) \cup {e}
           /\ e.op = op /\ e.booking = c.booking /\ e.driver = c.driver /\ e.snap = c.snap /\ e.by = c.by
  <1> DEFINE e == [c EXCEPT !.op = op]
  <1>1. e \in Call /\ e.op = op /\ e.booking = c.booking /\ e.driver = c.driver /\ e.snap = c.snap /\ e.by = c.by
    BY DEF Call
  <1> QED BY <1>1 DEF Continue

\* A check that passes takes the row it has read again along.
LEMMA Checked ==
  ASSUME Formed, NEW c \in calls, CheckHandoff(c)
  PROVE  \E e \in Call :
           /\ calls' = (calls \ {c}) \cup {e}
           /\ e.op = "transfer" /\ e.booking = c.booking /\ e.driver = c.driver /\ e.by = c.by
           /\ e.snap = row[c.booking] /\ e.snap.handoffs = 0
  <1> DEFINE e == [c EXCEPT !.op = "transfer", !.snap = row[c.booking]]
  <1>1. c \in Call /\ row[c.booking] \in Row
    BY DEF Formed, TypeOK, Call
  <1>2. row[c.booking].handoffs = 0
    BY <1>1, Columns DEF CheckHandoff
  <1>3. /\ e \in Call
        /\ e.op = "transfer" /\ e.booking = c.booking /\ e.driver = c.driver /\ e.by = c.by
        /\ e.snap = row[c.booking]
    BY <1>1 DEF Call, Op
  <1>4. calls' = (calls \ {c}) \cup {e}
    BY DEF CheckHandoff
  <1> HIDE DEF e
  <1> QED BY <1>2, <1>3, <1>4

\* A write touches one row, and marks it if what it was based on is out of date.
LEMMA Written ==
  ASSUME Formed, NEW c \in calls, NEW r \in Row, Write(c, r)
  PROVE  /\ row' \in [Bookings -> Row] /\ disturbed' \subseteq Bookings /\ disturbed \subseteq disturbed'
         /\ row'[c.booking] = r /\ \A b \in Bookings : b # c.booking => row'[b] = row[b]
         /\ c.booking \in disturbed' \/ c.snap = row[c.booking]
  BY DEF Write, Formed, TypeOK, Call

\* A guard that flags adds at most one call, which has read an unflagged row.
LEMMA Flagging ==
  ASSUME Formed, NEW b \in Bookings, NEW d \in Drivers, NEW by \in Guard, Flag(b, d, by)
  PROVE  \/ calls' = calls /\ (row[b].status # "ongoing" \/ row[b].flagged)
         \/ \E e \in Call : /\ calls' = calls \cup {e} /\ e.op = "flag" /\ e.booking = b /\ e.driver = d
                            /\ e.by = by /\ e.snap = row[b] /\ ~e.snap.flagged
  <1>1. row[b] \in Row
    BY DEF Formed, TypeOK
  <1>2. CallOf("flag", b, d, by) \in Call
    BY <1>1 DEF CallOf, Call, Op
  <1>3. CASE row[b].status = "ongoing" /\ ~row[b].flagged
    <2>1. calls' = calls \cup {CallOf("flag", b, d, by)}
      BY <1>3 DEF Flag
    <2>2. ~CallOf("flag", b, d, by).snap.flagged
      BY <1>3 DEF CallOf
    <2> QED BY <1>2, <2>1, <2>2 DEF CallOf
  <1>4. CASE ~(row[b].status = "ongoing" /\ ~row[b].flagged)
    BY <1>4 DEF Flag
  <1> QED BY <1>3, <1>4

\* A driver whose socket closes or opens begins at most one call, of his own.
LEMMA Dropped ==
  ASSUME Formed, NEW d \in Drivers, Disconnect(d)
  PROVE  \/ calls' = calls
         \/ \E e \in Call : calls' = calls \cup {e} /\ e.op = "grace" /\ e.driver = d
  <1>1. CASE calls' = calls
    BY <1>1
  <1>2. ASSUME NEW b \in Watched(d), calls' = calls \cup {CallOf("grace", b, d, "none")}
        PROVE  \E e \in Call : calls' = calls \cup {e} /\ e.op = "grace" /\ e.driver = d
    <2>1. b \in Bookings /\ row[b] \in Row
      BY DEF Watched, Formed, TypeOK
    <2>2. CallOf("grace", b, d, "none") \in Call
      BY <2>1 DEF CallOf, Call, Op, Guard
    <2> QED BY <1>2, <2>2 DEF CallOf
  <1> QED BY <1>1, <1>2 DEF Disconnect

LEMMA CameBack ==
  ASSUME Formed, NEW d \in Drivers, Reconnect(d)
  PROVE  \/ calls' = calls
         \/ \E e \in Call : calls' = calls \cup {e} /\ e.op = "ungrace" /\ e.driver = d
  <1>1. CASE calls' = calls
    BY <1>1
  <1>2. ASSUME NEW b \in Bookings, calls' = calls \cup {CallOf("ungrace", b, d, "none")}
        PROVE  \E e \in Call : calls' = calls \cup {e} /\ e.op = "ungrace" /\ e.driver = d
    <2>1. row[b] \in Row
      BY DEF Formed, TypeOK
    <2>2. CallOf("ungrace", b, d, "none") \in Call
      BY <2>1 DEF CallOf, Call, Op, Guard
    <2> QED BY <1>2, <2>2 DEF CallOf
  <1> QED BY <1>1, <1>2 DEF Reconnect

\* An admin's decision goes on to another step and stays about its incident.
LEMMA GoneOn ==
  ASSUME Formed, NEW a \in resolving, NEW step \in {"ban", "cancel", "thaw", "unflag", "save"}, GoOn(a, step)
  PROVE  \E k \in Resolution : resolving' = (resolving \ {a}) \cup {k} /\ k.of = a.of /\ k.step = step
  <1> DEFINE k == [a EXCEPT !.step = step]
  <1>1. k \in Resolution /\ k.of = a.of /\ k.step = step
    BY DEF Formed, TypeOK, Resolution
  <1>2. resolving' = (resolving \ {a}) \cup {k}
    BY DEF GoOn
  <1> HIDE DEF k
  <1> QED BY <1>1, <1>2

\* It begins with an incident read as suspected.
LEMMA Decided ==
  ASSUME Formed, NEW i \in incidents, NEW status \in {"confirmed", "cleared"}, ResolveRead(i, status)
  PROVE  \E k \in Resolution :
           /\ resolving' = resolving \cup {k} /\ k.of.id = i.id /\ k.of.booking = i.booking
           /\ k.of.driver = i.driver /\ k.of.status = status
           /\ k.step = IF status = "confirmed" THEN "ban" ELSE "thaw"
  <1> DEFINE r == [i EXCEPT !.status = status]
             k == [of |-> r, step |-> IF status = "confirmed" THEN "ban" ELSE "thaw"]
  <1>1. r \in Incident /\ r.id = i.id /\ r.booking = i.booking /\ r.driver = i.driver /\ r.status = status
    BY DEF Formed, TypeOK, Incident
  <1>2. resolving' = resolving \cup {k}
    BY DEF ResolveRead
  <1> HIDE DEF r
  <1>3. k \in Resolution
    BY <1>1 DEF Resolution
  <1> QED BY <1>1, <1>2, <1>3

\* No step of a user, an admin, a handler, a job or the environment spoils a type,
\* and every handler past its read has checked what it had to.
LEMMA FormedNext == Formed /\ [Next]_vars => Formed'
  <1> SUFFICES ASSUME Formed, [Next]_vars PROVE Formed'
    OBVIOUS
  <1> USE DEF handoffKeys, guards, fraud
  <1>1. ASSUME NEW b \in Bookings, NEW d \in Drivers, StartRead(d, b)
        PROVE  Formed'
    <2>1. \E e \in Call : calls' = calls \cup {e} /\ e.op = "start" /\ e.driver = d /\ e.snap = row[b]
      BY <1>1, Begun DEF StartRead, Op
    <2>2. calls' \subseteq Call /\ \A e \in calls' : Manned(e) /\ ReadOK(e)
      BY <1>1, <2>1 DEF StartRead, Formed, TypeOK, Manned, ReadOK
    <2> QED BY <1>1, <2>2 DEF StartRead, Formed, TypeOK
  <1>2. ASSUME NEW b \in Bookings, NEW d \in Drivers, CompleteRead(d, b)
        PROVE  Formed'
    <2>1. \E e \in Call : calls' = calls \cup {e} /\ e.op = "complete" /\ e.driver = d /\ e.snap = row[b]
      BY <1>2, Begun DEF CompleteRead, Op
    <2>2. calls' \subseteq Call /\ \A e \in calls' : Manned(e) /\ ReadOK(e)
      BY <1>2, <2>1 DEF CompleteRead, Formed, TypeOK, Manned, ReadOK
    <2> QED BY <1>2, <2>2 DEF CompleteRead, Formed, TypeOK
  <1>3. ASSUME NEW b \in Bookings, NEW d \in Drivers, RequestHandoff(d, b)
        PROVE  Formed'
    <2>1. \E e \in Call : calls' = calls \cup {e} /\ e.op = "request" /\ e.driver = d /\ e.snap = row[b]
      BY <1>3, Begun DEF RequestHandoff, Op
    <2>2. calls' \subseteq Call /\ \A e \in calls' : Manned(e) /\ ReadOK(e)
      BY <1>3, <2>1 DEF RequestHandoff, Formed, TypeOK, Manned, ReadOK
    <2> QED BY <1>3, <2>2 DEF RequestHandoff, Formed, TypeOK
  <1>4. ASSUME NEW b \in Bookings, NEW d \in Drivers, AcceptHandoff(d, b)
        PROVE  Formed'
    <2>1. \E e \in Call : calls' = calls \cup {e} /\ e.op = "lock" /\ e.driver = d /\ e.snap = row[b]
      BY <1>4, Begun DEF AcceptHandoff, Op
    <2>2. calls' \subseteq Call /\ \A e \in calls' : Manned(e) /\ ReadOK(e)
      BY <1>4, <2>1 DEF AcceptHandoff, Formed, TypeOK, Manned, ReadOK
    <2> QED BY <1>4, <2>2 DEF AcceptHandoff, Formed, TypeOK
  <1>5. ASSUME NEW b \in Bookings, NEW d \in Drivers, CancelHandoff(d, b)
        PROVE  Formed'
    <2>1. \E e \in Call : calls' = calls \cup {e} /\ e.op = "withdraw" /\ e.driver = d /\ e.snap = row[b]
      BY <1>5, Begun DEF CancelHandoff, Op
    <2>2. calls' \subseteq Call /\ \A e \in calls' : Manned(e) /\ ReadOK(e)
      BY <1>5, <2>1 DEF CancelHandoff, Formed, TypeOK, Manned, ReadOK
    <2> QED BY <1>5, <2>2 DEF CancelHandoff, Formed, TypeOK
  <1>6. ASSUME NEW b \in Bookings, CancelRead(b)
        PROVE  Formed'
    <2>1. \E e \in Call : calls' = calls \cup {e} /\ e.op = "cancel" /\ e.by = "none" /\ e.snap = row[b]
      BY <1>6, Begun DEF CancelRead, Op
    <2>2. calls' \subseteq Call /\ \A e \in calls' : Manned(e) /\ ReadOK(e)
      BY <1>6, <2>1 DEF CancelRead, Formed, TypeOK, Manned, ReadOK, Ended
    <2> QED BY <1>6, <2>2 DEF CancelRead, Formed, TypeOK
  <1>7. ASSUME NEW b \in Bookings, AdminCancelRead(b)
        PROVE  Formed'
    <2>1. \E e \in Call : calls' = calls \cup {e} /\ e.op = "admin_cancel" /\ e.by = "none" /\ e.snap = row[b]
      BY <1>7, Begun DEF AdminCancelRead, Op
    <2>2. calls' \subseteq Call /\ \A e \in calls' : Manned(e) /\ ReadOK(e)
      BY <1>7, <2>1 DEF AdminCancelRead, Formed, TypeOK, Manned, ReadOK, Ended
    <2> QED BY <1>7, <2>2 DEF AdminCancelRead, Formed, TypeOK
  <1>8. ASSUME NEW c \in calls, StartSave(c)
        PROVE  Formed'
    <2>1. c \in Call /\ c.snap \in Row /\ row[c.booking] \in Row
      BY DEF Formed, TypeOK, Call
    <2>2. [c.snap EXCEPT !.status = "ongoing"] \in Row
      BY <2>1, StatusSet DEF Status
    <2>3. row' \in [Bookings -> Row] /\ disturbed' \subseteq Bookings
      BY <1>8, <2>2, Written DEF StartSave
    <2>4. \E e \in Call : calls' = (calls \ {c}) \cup {e} /\ e.op = "queue_sla" /\ e.driver = c.driver
      BY <1>8, <2>1, Continued DEF StartSave, Op
    <2>5. calls' \subseteq Call /\ \A e \in calls' : Manned(e) /\ ReadOK(e)
      BY <1>8, <2>4 DEF StartSave, Formed, TypeOK, Manned, ReadOK
    <2> QED BY <1>8, <2>3, <2>5 DEF StartSave, Formed, TypeOK
  <1>9. ASSUME NEW c \in calls, CompleteSave(c)
        PROVE  Formed'
    <2>1. c \in Call /\ c.snap \in Row /\ row[c.booking] \in Row
      BY DEF Formed, TypeOK, Call
    <2>2. [c.snap EXCEPT !.status = "completed"] \in Row
      BY <2>1, StatusSet DEF Status
    <2>3. row' \in [Bookings -> Row] /\ disturbed' \subseteq Bookings
      BY <1>9, <2>2, Written DEF CompleteSave
    <2> QED BY <1>9, <2>3 DEF CompleteSave, Return, Formed, TypeOK
  <1>10. ASSUME NEW c \in calls, CancelSave(c)
         PROVE  Formed'
    <2>1. c \in Call /\ c.snap \in Row /\ row[c.booking] \in Row
      BY DEF Formed, TypeOK, Call
    <2>2. [c.snap EXCEPT !.status = "cancelled"] \in Row
      BY <2>1, StatusSet DEF Status
    <2>3. row' \in [Bookings -> Row] /\ disturbed' \subseteq Bookings
      BY <1>10, <2>2, Written DEF CancelSave
    <2> QED BY <1>10, <2>3 DEF CancelSave, Return, Formed, TypeOK
  <1>11. ASSUME NEW c \in calls, AdminCancelWrite(c)
         PROVE  Formed'
    <2>1. c \in Call /\ c.snap \in Row /\ row[c.booking] \in Row
      BY DEF Formed, TypeOK, Call
    <2>2. [row[c.booking] EXCEPT !.status = "cancelled"] \in Row
      BY <2>1, StatusSet DEF Status
    <2>3. row' \in [Bookings -> Row] /\ disturbed' \subseteq Bookings
      BY <1>11, <2>2, Written DEF AdminCancelWrite
    <2> QED BY <1>11, <2>3 DEF AdminCancelWrite, Return, Formed, TypeOK
  <1>12. ASSUME NEW c \in calls, TransferHandoff(c)
         PROVE  Formed'
    <2>1. c \in Call /\ c.snap \in Row /\ row[c.booking] \in Row
      BY DEF Formed, TypeOK, Call
    <2>2. c.driver \in Drivers
      BY <1>12 DEF TransferHandoff, Formed, Manned
    <2>3. [c.snap EXCEPT !.driver = c.driver, !.handoffs = 1] \in Row
      BY <2>1, <2>2, HandedTo
    <2>4. row' \in [Bookings -> Row] /\ disturbed' \subseteq Bookings
      BY <1>12, <2>3, Written DEF TransferHandoff
    <2>5. \E e \in Call : calls' = (calls \ {c}) \cup {e} /\ e.op = "finish" /\ e.driver = c.driver
      BY <1>12, <2>1, Continued DEF TransferHandoff, Op
    <2>6. calls' \subseteq Call /\ \A e \in calls' : Manned(e) /\ ReadOK(e)
      BY <1>12, <2>5 DEF TransferHandoff, Formed, TypeOK, Manned, ReadOK
    <2>7. transfers' \in [Bookings -> Nat]
      <3>1. c.booking \in Bookings
        BY <2>1 DEF Call
      <3> QED BY <1>12, <3>1 DEF TransferHandoff, Formed, TypeOK
    <2> QED BY <1>12, <2>4, <2>6, <2>7 DEF TransferHandoff, Formed, TypeOK
  <1>13. ASSUME NEW c \in calls, FlagSave(c)
         PROVE  Formed'
    <2>1. c \in Call /\ c.snap \in Row /\ row[c.booking] \in Row
      BY DEF Formed, TypeOK, Call
    <2>2. [c.snap EXCEPT !.flagged = TRUE] \in Row
      BY <2>1, FlagSet
    <2>3. row' \in [Bookings -> Row] /\ disturbed' \subseteq Bookings
      <3>1. CASE UNCHANGED <<row, disturbed>>
        BY <3>1 DEF Formed, TypeOK
      <3>2. CASE Write(c, [c.snap EXCEPT !.flagged = TRUE])
        BY <2>2, <3>2, Written
      <3> QED BY <1>13, <3>1, <3>2 DEF FlagSave
    <2>4. \E e \in Call : calls' = (calls \ {c}) \cup {e} /\ e.op = "incident" /\ e.driver = c.driver
      BY <1>13, <2>1, Continued DEF FlagSave, Op
    <2>5. calls' \subseteq Call /\ \A e \in calls' : Manned(e) /\ ReadOK(e)
      BY <1>13, <2>4 DEF FlagSave, Formed, TypeOK, Manned, ReadOK
    <2> QED BY <1>13, <2>3, <2>5 DEF FlagSave, Formed, TypeOK
  <1>14. ASSUME NEW c \in calls, StoreHandoff(c)
         PROVE  Formed'
    <2>1. c \in Call
      BY DEF Formed, TypeOK
    <2>2. \E e \in Call : calls' = (calls \ {c}) \cup {e} /\ e.op = "queue_expiry" /\ e.driver = c.driver
      BY <1>14, <2>1, Continued DEF StoreHandoff, Op
    <2>3. calls' \subseteq Call /\ \A e \in calls' : Manned(e) /\ ReadOK(e)
      BY <1>14, <2>2 DEF StoreHandoff, Formed, TypeOK, Manned, ReadOK
    <2> QED BY <1>14, <2>1, <2>3 DEF StoreHandoff, Formed, TypeOK, Call
  <1>15. ASSUME NEW c \in calls, LockHandoff(c)
         PROVE  Formed'
    <2>1. c \in Call
      BY DEF Formed, TypeOK
    <2>2. \E e \in Call : calls' = (calls \ {c}) \cup {e} /\ e.op = "check" /\ e.driver = c.driver
      BY <1>15, <2>1, Continued DEF LockHandoff, Op
    <2>3. calls' \subseteq Call /\ \A e \in calls' : Manned(e) /\ ReadOK(e)
      BY <1>15, <2>2 DEF LockHandoff, Formed, TypeOK, Manned, ReadOK
    <2> QED BY <1>15, <2>1, <2>3 DEF LockHandoff, Formed, TypeOK, Call
  <1>16. ASSUME NEW c \in calls, IncidentMissing(c)
         PROVE  Formed'
    <2>1. c \in Call
      BY DEF Formed, TypeOK
    <2>2. \E e \in Call : calls' = (calls \ {c}) \cup {e} /\ e.op = "freeze" /\ e.driver = c.driver
      BY <1>16, <2>1, Continued DEF IncidentMissing, Op
    <2>3. calls' \subseteq Call /\ \A e \in calls' : Manned(e) /\ ReadOK(e)
      BY <1>16, <2>2 DEF IncidentMissing, Formed, TypeOK, Manned, ReadOK
    <2>4. doubled' \subseteq Bookings
      BY <1>16, <2>1 DEF IncidentMissing, Formed, TypeOK, Call
    <2> QED BY <1>16, <2>3, <2>4 DEF IncidentMissing, Formed, TypeOK
  <1>17. ASSUME NEW c \in calls, CheckHandoff(c)
         PROVE  Formed'
    <2>1. \E e \in Call : /\ calls' = (calls \ {c}) \cup {e} /\ e.op = "transfer" /\ e.driver = c.driver
                          /\ e.snap.handoffs = 0
      BY <1>17, Checked
    <2>2. calls' \subseteq Call /\ \A e \in calls' : Manned(e) /\ ReadOK(e)
      BY <1>17, <2>1 DEF CheckHandoff, Formed, TypeOK, Manned, ReadOK
    <2> QED BY <1>17, <2>2 DEF CheckHandoff, Formed, TypeOK
  <1>18. ASSUME NEW c \in calls, QueueSla(c)
         PROVE  Formed'
    BY <1>18 DEF QueueSla, Return, Formed, TypeOK, Call, Row
  <1>19. ASSUME NEW c \in calls, QueueExpiry(c)
         PROVE  Formed'
    BY <1>19 DEF QueueExpiry, Return, Formed, TypeOK, Call, Manned
  <1>20. ASSUME NEW c \in calls, HandoffLocked(c)
         PROVE  Formed'
    BY <1>20 DEF HandoffLocked, Return, Formed, TypeOK
  <1>21. ASSUME NEW c \in calls, RefuseHandoff(c)
         PROVE  Formed'
    <2>1. c \in Call /\ c.booking \in Bookings
      BY DEF Formed, TypeOK, Call
    <2>2. \E e \in Call : calls' = (calls \ {c}) \cup {e} /\ e.op = "unlock" /\ e.driver = c.driver
      BY <1>21, <2>1, Continued DEF RefuseHandoff, Op
    <2>3. calls' \subseteq Call /\ \A e \in calls' : Manned(e) /\ ReadOK(e)
      BY <1>21, <2>2 DEF RefuseHandoff, Formed, TypeOK, Manned, ReadOK
    <2> QED BY <1>21, <2>1, <2>3 DEF RefuseHandoff, Formed, TypeOK
  <1>22. ASSUME NEW c \in calls, FinishHandoff(c)
         PROVE  Formed'
    <2>1. c \in Call /\ c.booking \in Bookings
      BY DEF Formed, TypeOK, Call
    <2>2. \E e \in Call : calls' = (calls \ {c}) \cup {e} /\ e.op = "unlock" /\ e.driver = c.driver
      BY <1>22, <2>1, Continued DEF FinishHandoff, Op
    <2>3. calls' \subseteq Call /\ \A e \in calls' : Manned(e) /\ ReadOK(e)
      BY <1>22, <2>2 DEF FinishHandoff, Formed, TypeOK, Manned, ReadOK
    <2> QED BY <1>22, <2>1, <2>3 DEF FinishHandoff, Formed, TypeOK
  <1>23. ASSUME NEW c \in calls, WithdrawHandoff(c)
         PROVE  Formed'
    BY <1>23 DEF WithdrawHandoff, Return, Formed, TypeOK
  <1>24. ASSUME NEW c \in calls, IncidentExists(c)
         PROVE  Formed'
    <2>1. unattended' \subseteq Bookings
      BY <1>24 DEF IncidentExists, Formed, TypeOK, Call
    <2> QED BY <1>24, <2>1 DEF IncidentExists, Return, Formed, TypeOK
  <1>25. ASSUME NEW c \in calls, OpenIncident(c)
         PROVE  Formed'
    <2>1. Cardinality(incidents) \in Nat
      BY FS_CardinalityType DEF Formed
    <2>2. IsFiniteSet(incidents')
      BY <1>25, FS_AddElement DEF OpenIncident, Formed
    <2>3. c.driver \in Drivers /\ c.booking \in Bookings
      BY <1>25 DEF OpenIncident, Formed, TypeOK, Call, Manned
    <2> QED BY <1>25, <2>1, <2>2, <2>3 DEF OpenIncident, Return, Incident, Formed, TypeOK
  <1>26. ASSUME NEW b \in Bookings, NEW d \in Drivers, Reassign(b, d)
         PROVE  Formed'
    <2>1. row[b] \in Row
      BY DEF Formed, TypeOK
    <2>2. row' = [row EXCEPT ![b] = [row[b] EXCEPT !.driver = d, !.status = "driver_assigned"]]
      BY <1>26 DEF Reassign
    <2>3. row' \in [Bookings -> Row]
      BY <2>1, <2>2, ReassignedTo DEF Formed, TypeOK
    <2> QED BY <1>26, <2>3 DEF Reassign, Formed, TypeOK
  <1>27. ASSUME NEW i \in incidents, NEW status \in {"confirmed", "cleared"}, ResolveRead(i, status)
         PROVE  Formed'
    <2>1. resolving' \subseteq Resolution
      BY <1>27, Decided DEF Formed, TypeOK
    <2> QED BY <1>27, <2>1 DEF ResolveRead, Formed, TypeOK
  <1>28. ASSUME NEW a \in resolving, CancelAbandoned(a)
         PROVE  Formed'
    <2>1. a \in Resolution /\ a.of.driver \in Drivers /\ a.of.booking \in Bookings
      BY DEF Formed, TypeOK, Resolution, Incident
    <2>2. resolving' \subseteq Resolution
      BY <1>28, GoneOn DEF CancelAbandoned, Formed, TypeOK
    <2>3. row' \in [Bookings -> Row]
      <3>1. row' = [row EXCEPT ![a.of.booking] = [row[a.of.booking] EXCEPT !.status = "cancelled"]]
        BY <1>28 DEF CancelAbandoned
      <3>2. row[a.of.booking] \in Row
        BY <2>1 DEF Formed, TypeOK
      <3> QED BY <2>1, <3>1, <3>2, StatusSet DEF Formed, TypeOK, Status
    <2> QED BY <1>28, <2>1, <2>2, <2>3 DEF CancelAbandoned, Formed, TypeOK
  <1>29. ASSUME NEW a \in resolving, Unflag(a)
         PROVE  Formed'
    <2>1. a \in Resolution /\ a.of.driver \in Drivers /\ a.of.booking \in Bookings
      BY DEF Formed, TypeOK, Resolution, Incident
    <2>2. resolving' \subseteq Resolution
      BY <1>29, GoneOn DEF Unflag, Formed, TypeOK
    <2>3. row' \in [Bookings -> Row]
      <3>1. row' = [row EXCEPT ![a.of.booking] = [row[a.of.booking] EXCEPT !.flagged = FALSE]]
        BY <1>29 DEF Unflag
      <3>2. row[a.of.booking] \in Row
        BY <2>1 DEF Formed, TypeOK
      <3> QED BY <2>1, <3>1, <3>2, FlagSet DEF Formed, TypeOK
    <2> QED BY <1>29, <2>1, <2>2, <2>3 DEF Unflag, Formed, TypeOK
  <1>30. ASSUME NEW b \in Bookings, NEW d \in Drivers, ExpireHandoff(b, d)
         PROVE  Formed'
    BY <1>30 DEF ExpireHandoff, Formed, TypeOK
  <1>31. ASSUME NEW b \in Bookings, NEW d \in Drivers, SlaBreach(b, d)
         PROVE  Formed'
    <2>1. \/ calls' = calls
          \/ \E e \in Call : calls' = calls \cup {e} /\ e.op = "flag" /\ e.driver = d /\ ~e.snap.flagged
      BY <1>31, Flagging DEF SlaBreach, Guard
    <2>2. calls' \subseteq Call /\ \A e \in calls' : Manned(e) /\ ReadOK(e)
      BY <1>31, <2>1 DEF SlaBreach, Formed, TypeOK, Manned, ReadOK
    <2> QED BY <1>31, <2>2 DEF SlaBreach, Formed, TypeOK
  <1>32. ASSUME NEW b \in Bookings, NEW d \in Drivers, GhostCheck(b, d)
         PROVE  Formed'
    <2>1. \/ calls' = calls
          \/ \E e \in Call : calls' = calls \cup {e} /\ e.op = "flag" /\ e.driver = d /\ ~e.snap.flagged
      BY <1>32, Flagging DEF GhostCheck, Guard
    <2>2. calls' \subseteq Call /\ \A e \in calls' : Manned(e) /\ ReadOK(e)
      BY <1>32, <2>1 DEF GhostCheck, Formed, TypeOK, Manned, ReadOK
    <2>3. ghost' \in [Bookings -> [Drivers -> Nat]]
      BY <1>32 DEF GhostCheck, Formed, TypeOK
    <2> QED BY <1>32, <2>2, <2>3 DEF GhostCheck, Formed, TypeOK
  <1>33. ASSUME NEW b \in Bookings, GhostCron(b)
         PROVE  Formed'
    <2>1. row[b].driver \in Drivers
      BY DEF Formed, TypeOK, Row
    <2>2. \/ calls' = calls
          \/ \E e \in Call : calls' = calls \cup {e} /\ e.op = "flag" /\ e.driver = row[b].driver /\ ~e.snap.flagged
      BY <1>33, <2>1, Flagging DEF GhostCron, Guard
    <2>3. calls' \subseteq Call /\ \A e \in calls' : Manned(e) /\ ReadOK(e)
      BY <1>33, <2>1, <2>2 DEF GhostCron, Formed, TypeOK, Manned, ReadOK
    <2> QED BY <1>33, <2>3 DEF GhostCron, Formed, TypeOK
  <1>34. ASSUME NEW b \in Bookings, NEW d \in Drivers, GhostCancelled(b, d)
         PROVE  Formed'
    <2>1. ghost' \in [Bookings -> [Drivers -> Nat]]
      BY <1>34 DEF GhostCancelled, Formed, TypeOK
    <2>2. marker' \in [Bookings -> BOOLEAN]
      BY <1>34 DEF GhostCancelled, Formed, TypeOK
    <2> QED BY <1>34, <2>1, <2>2 DEF GhostCancelled, Formed, TypeOK
  <1>35. ASSUME NEW d \in Drivers, Disconnect(d)
         PROVE  Formed'
    <2>1. calls' \subseteq Call /\ \A e \in calls' : Manned(e) /\ ReadOK(e)
      BY <1>35, Dropped DEF Formed, TypeOK, Manned, ReadOK
    <2> QED BY <1>35, <2>1 DEF Disconnect, Formed, TypeOK
  <1>36. ASSUME NEW d \in Drivers, Reconnect(d)
         PROVE  Formed'
    <2>1. calls' \subseteq Call /\ \A e \in calls' : Manned(e) /\ ReadOK(e)
      BY <1>36, CameBack DEF Formed, TypeOK, Manned, ReadOK
    <2> QED BY <1>36, <2>1 DEF Reconnect, Formed, TypeOK
  <1>37. ASSUME NEW d \in Drivers, ExpireGrace(d)
         PROVE  Formed'
    BY <1>37 DEF ExpireGrace, Formed, TypeOK
  <1>38. ASSUME NEW b \in Bookings, ExpireRequest(b)
         PROVE  Formed'
    BY <1>38 DEF ExpireRequest, Formed, TypeOK
  <1>39. ASSUME NEW b \in Bookings, ExpireHandoffLock(b)
         PROVE  Formed'
    BY <1>39 DEF ExpireHandoffLock, Formed, TypeOK
  <1>40. ASSUME NEW b \in Bookings, ExpireMarker(b)
         PROVE  Formed'
    <2>1. marker' \in [Bookings -> BOOLEAN]
      BY <1>40 DEF ExpireMarker, Formed, TypeOK
    <2> QED BY <1>40, <2>1 DEF ExpireMarker, Formed, TypeOK
  <1>41. ASSUME Crash
         PROVE  Formed'
    <2>1. sla' \subseteq Bookings \X Drivers
      BY <1>41 DEF Crash, Interrupted, Call, Formed, TypeOK, Manned
    <2>2. ghost' \in [Bookings -> [Drivers -> Nat]]
      BY <1>41 DEF Crash, Formed, TypeOK
    <2>3. disturbed' \subseteq Bookings /\ unattended' \subseteq Bookings
      BY <1>41 DEF Crash, Call, Formed, TypeOK
    <2> QED BY <1>41, <2>1, <2>2, <2>3 DEF Crash, Formed, TypeOK
  <1>42. CASE UNCHANGED vars
    BY <1>42 DEF vars, Formed, TypeOK, Manned, ReadOK
  <1>43. ASSUME NEW c \in calls, SetGrace(c)
         PROVE  Formed'
    <2>1. c \in Call /\ c.booking \in Bookings
      BY DEF Formed, TypeOK, Call
    <2>2. \E e \in Call : calls' = (calls \ {c}) \cup {e} /\ e.op = "queue_ghost" /\ e.driver = c.driver
      BY <1>43, <2>1, Continued DEF SetGrace, Op
    <2>3. calls' \subseteq Call /\ \A e \in calls' : Manned(e) /\ ReadOK(e)
      BY <1>43, <2>2 DEF SetGrace, Formed, TypeOK, Manned, ReadOK
    <2>4. c.driver \in Drivers
      BY <1>43 DEF SetGrace, Formed, Manned
    <2> QED BY <1>43, <2>1, <2>3, <2>4 DEF SetGrace, Formed, TypeOK
  <1>44. ASSUME NEW c \in calls, QueueGhost(c)
         PROVE  Formed'
    <2>1. c.driver \in Drivers /\ c.booking \in Bookings
      BY <1>44 DEF QueueGhost, Formed, TypeOK, Call, Manned
    <2>2. ghost' \in [Bookings -> [Drivers -> Nat]]
      BY <1>44, <2>1 DEF QueueGhost, Formed, TypeOK
    <2> QED BY <1>44, <2>2 DEF QueueGhost, Return, Formed, TypeOK
  <1>45. ASSUME NEW c \in calls, DropGrace(c)
         PROVE  Formed'
    <2>1. c \in Call /\ c.booking \in Bookings
      BY DEF Formed, TypeOK, Call
    <2>2. \E e \in Call : calls' = (calls \ {c}) \cup {e} /\ e.op = "mark" /\ e.driver = c.driver
      BY <1>45, <2>1, Continued DEF DropGrace, Op
    <2>3. calls' \subseteq Call /\ \A e \in calls' : Manned(e) /\ ReadOK(e)
      BY <1>45, <2>2 DEF DropGrace, Formed, TypeOK, Manned, ReadOK
    <2>4. c.driver \in Drivers
      BY <1>45 DEF DropGrace, Formed, Manned
    <2> QED BY <1>45, <2>1, <2>3, <2>4 DEF DropGrace, Formed, TypeOK
  <1>46. ASSUME NEW c \in calls, SetMarker(c)
         PROVE  Formed'
    <2>1. marker' \in [Bookings -> BOOLEAN]
      BY <1>46 DEF SetMarker, Formed, TypeOK
    <2>2. returned' \subseteq Drivers
      BY <1>46 DEF SetMarker, Formed, TypeOK
    <2> QED BY <1>46, <2>1, <2>2 DEF SetMarker, Return, Formed, TypeOK
  <1>47. ASSUME NEW c \in calls, Freeze(c)
         PROVE  Formed'
    <2>1. c \in Call /\ c.booking \in Bookings
      BY DEF Formed, TypeOK, Call
    <2>2. \E e \in Call : calls' = (calls \ {c}) \cup {e} /\ e.op = "open" /\ e.driver = c.driver
      BY <1>47, <2>1, Continued DEF Freeze, Op
    <2>3. calls' \subseteq Call /\ \A e \in calls' : Manned(e) /\ ReadOK(e)
      BY <1>47, <2>2 DEF Freeze, Formed, TypeOK, Manned, ReadOK
    <2>4. c.driver \in Drivers
      BY <1>47 DEF Freeze, Formed, Manned
    <2> QED BY <1>47, <2>1, <2>3, <2>4 DEF Freeze, Formed, TypeOK
  <1>48. ASSUME NEW c \in calls, UnlockHandoff(c)
         PROVE  Formed'
    BY <1>48 DEF UnlockHandoff, Return, Formed, TypeOK
  <1>49. ASSUME NEW a \in resolving, Ban(a)
         PROVE  Formed'
    <2>1. a \in Resolution /\ a.of.driver \in Drivers /\ a.of.booking \in Bookings
      BY DEF Formed, TypeOK, Resolution, Incident
    <2>2. resolving' \subseteq Resolution
      BY <1>49, GoneOn DEF Ban, Formed, TypeOK
    <2> QED BY <1>49, <2>1, <2>2 DEF Ban, Formed, TypeOK
  <1>50. ASSUME NEW a \in resolving, Thaw(a)
         PROVE  Formed'
    <2>1. a \in Resolution /\ a.of.driver \in Drivers /\ a.of.booking \in Bookings
      BY DEF Formed, TypeOK, Resolution, Incident
    <2>2. resolving' \subseteq Resolution
      BY <1>50, GoneOn DEF Thaw, Formed, TypeOK
    <2> QED BY <1>50, <2>1, <2>2 DEF Thaw, Formed, TypeOK
  <1>51. ASSUME NEW a \in resolving, SaveIncident(a)
         PROVE  Formed'
    <2>1. IsFiniteSet(incidents')
      <3>1. IsFiniteSet({j \in incidents : j.id # a.of.id})
        BY FS_Subset DEF Formed
      <3> QED BY <1>51, <3>1, FS_AddElement DEF SaveIncident
    <2>2. a.of \in Incident
      BY DEF Formed, TypeOK, Resolution
    <2> QED BY <1>51, <2>1, <2>2 DEF SaveIncident, Formed, TypeOK
  <1> QED
    BY <1>1, <1>2, <1>3, <1>4, <1>5, <1>6, <1>7, <1>8, <1>9, <1>10, <1>11,
       <1>12, <1>13, <1>14, <1>15, <1>16, <1>17, <1>18, <1>19, <1>20, <1>21,
       <1>22, <1>23, <1>24, <1>25, <1>26, <1>27, <1>28, <1>29, <1>30, <1>31,
       <1>32, <1>33, <1>34, <1>35, <1>36, <1>37, <1>38, <1>39, <1>40, <1>41,
       <1>42, <1>43, <1>44, <1>45, <1>46, <1>47, <1>48, <1>49, <1>50, <1>51
    DEF Next, UserStep, AdminStep, CallStep, JobStep, EnvStep

\* Every reachable state is well typed: rows, keys, jobs, handlers and incidents.
THEOREM TypeCorrect == Spec => []TypeOK
  <1>1. Formed => TypeOK
    BY DEF Formed
  <1> QED BY <1>1, FormedInit, FormedNext, PTL DEF Spec

-----------------------------------------------------------------------------
(***************************************************************************)
(* What a step may do to the rows.                                         *)
(***************************************************************************)

\* The steps that write the row of b.
Rewritten(b) ==
  \/ \E c \in calls : /\ c.booking = b
                      /\ \/ StartSave(c) \/ CompleteSave(c) \/ CancelSave(c) \/ AdminCancelWrite(c)
                         \/ TransferHandoff(c) \/ FlagSave(c)
  \/ \E d \in Drivers : Reassign(b, d)
  \/ \E a \in resolving : a.of.booking = b /\ (CancelAbandoned(a) \/ Unflag(a))

RowKept(b) == row'[b] = row[b] /\ transfers'[b] = transfers[b] /\ disturbed \subseteq disturbed'

LEMMA RowNext ==
  ASSUME Formed, [Next]_vars, NEW b \in Bookings
  PROVE  Rewritten(b) \/ RowKept(b)
  <1>1. ASSUME NEW e \in Bookings, CancelRead(e) \/ AdminCancelRead(e)
        PROVE  RowKept(b)
    BY <1>1 DEF RowKept, CancelRead, AdminCancelRead
  <1>2. ASSUME NEW d \in Drivers, NEW e \in Bookings,
               \/ StartRead(d, e) \/ CompleteRead(d, e)
               \/ RequestHandoff(d, e) \/ AcceptHandoff(d, e) \/ CancelHandoff(d, e)
        PROVE  RowKept(b)
    BY <1>2 DEF RowKept, StartRead, CompleteRead, RequestHandoff, AcceptHandoff, CancelHandoff
  <1>3. ASSUME NEW c \in calls,
               \/ QueueSla(c) \/ StoreHandoff(c) \/ QueueExpiry(c) \/ LockHandoff(c) \/ HandoffLocked(c)
               \/ CheckHandoff(c) \/ RefuseHandoff(c) \/ FinishHandoff(c) \/ UnlockHandoff(c)
               \/ WithdrawHandoff(c) \/ SetGrace(c) \/ QueueGhost(c) \/ DropGrace(c) \/ SetMarker(c)
               \/ IncidentExists(c) \/ IncidentMissing(c) \/ Freeze(c) \/ OpenIncident(c)
        PROVE  RowKept(b)
    BY <1>3 DEF RowKept, QueueSla, StoreHandoff, QueueExpiry, LockHandoff, HandoffLocked, CheckHandoff,
                RefuseHandoff, FinishHandoff, UnlockHandoff, WithdrawHandoff, SetGrace, QueueGhost,
                DropGrace, SetMarker, IncidentExists, IncidentMissing, Freeze, OpenIncident
  <1>4. ASSUME NEW e \in Bookings, NEW d \in Drivers, JobStep(e, d)
        PROVE  RowKept(b)
    BY <1>4 DEF RowKept, JobStep, ExpireHandoff, SlaBreach, GhostCancelled, GhostCheck
  <1>5. ASSUME EnvStep
        PROVE  RowKept(b)
    BY <1>5, Zenon DEF RowKept, EnvStep, Disconnect, Reconnect, ExpireGrace, GhostCron, ExpireRequest,
                       ExpireHandoffLock, ExpireMarker, Crash
  <1>6. ASSUME NEW i \in incidents, NEW status \in {"confirmed", "cleared"}, ResolveRead(i, status)
        PROVE  RowKept(b)
    BY <1>6 DEF RowKept, ResolveRead
  <1>7. CASE UNCHANGED vars
    BY <1>7 DEF vars, RowKept
  <1>8. ASSUME NEW c \in calls, CallStep(c), c.booking # b
        PROVE  RowKept(b)
    <2>1. ASSUME NEW r, Write(c, r)
          PROVE  row'[b] = row[b] /\ disturbed \subseteq disturbed'
      BY <2>1, <1>8 DEF Write, Formed, TypeOK
    <2>2. CASE StartSave(c) \/ CompleteSave(c) \/ CancelSave(c) \/ AdminCancelWrite(c)
      BY <2>1, <2>2 DEF StartSave, CompleteSave, CancelSave, AdminCancelWrite, RowKept
    <2>4. CASE FlagSave(c)
      <3>1. row'[b] = row[b] /\ disturbed \subseteq disturbed'
        BY <2>1, <2>4 DEF FlagSave
      <3> QED BY <2>4, <3>1 DEF FlagSave, RowKept
    <2>3. CASE TransferHandoff(c)
      <3>1. transfers'[b] = transfers[b]
        BY <2>3, <1>8 DEF TransferHandoff, Formed, TypeOK
      <3> QED BY <2>1, <2>3, <3>1 DEF TransferHandoff, RowKept
    <2> QED BY <1>8, <1>3, <2>2, <2>3, <2>4 DEF CallStep
  <1>9. ASSUME NEW a \in resolving, CancelAbandoned(a) \/ Unflag(a), a.of.booking # b
        PROVE  RowKept(b)
    BY <1>9 DEF CancelAbandoned, Unflag, RowKept, Formed, TypeOK
  <1>10. ASSUME NEW e \in Bookings, NEW d \in Drivers, Reassign(e, d), e # b
        PROVE  RowKept(b)
    BY <1>10 DEF Reassign, RowKept, Formed, TypeOK
  <1>11. ASSUME NEW c \in calls, CallStep(c)
         PROVE  Rewritten(b) \/ RowKept(b)
    <2>1. CASE c.booking = b
      BY <1>3, <1>11, <2>1 DEF CallStep, Rewritten
    <2> QED BY <1>8, <1>11, <2>1
  <1>12. ASSUME AdminStep
         PROVE  Rewritten(b) \/ RowKept(b)
    <2>1. ASSUME NEW a \in resolving, CancelAbandoned(a) \/ Unflag(a)
          PROVE  Rewritten(b) \/ RowKept(b)
      BY <1>9, <2>1 DEF Rewritten
    <2>3. ASSUME NEW a \in resolving, Ban(a) \/ Thaw(a) \/ SaveIncident(a)
          PROVE  RowKept(b)
      BY <2>3 DEF Ban, Thaw, SaveIncident, RowKept
    <2>2. ASSUME NEW e \in Bookings, NEW d \in Drivers, Reassign(e, d)
          PROVE  Rewritten(b) \/ RowKept(b)
      BY <1>10, <2>2 DEF Rewritten
    <2> QED BY <1>1, <1>6, <1>12, <2>1, <2>2, <2>3, Zenon DEF AdminStep
  <1>13. ASSUME UserStep
         PROVE  RowKept(b)
    BY <1>1, <1>2, <1>13, Zenon DEF UserStep
  <1> QED
    BY <1>4, <1>5, <1>7, <1>11, <1>12, <1>13 DEF Next

\* What the writing steps do to a row that stays undisturbed: they complete, cancel
\* or reassign it, start it, hand it over, flag it or clear it.
Restated(b) ==
  /\ row'[b].flagged = row[b].flagged /\ row'[b].handoffs = row[b].handoffs /\ transfers'[b] = transfers[b]
  /\ row'[b].status # row[b].status =>
       row'[b].status = "driver_assigned" \/ (row[b].status \notin Ended /\ row'[b].status \in Ended)
Started(b) ==
  /\ \E c \in calls : c.booking = b /\ StartSave(c)
  /\ row[b].status \in {"accepted", "driver_assigned"} /\ row'[b].status = "ongoing"
  /\ row'[b].flagged = row[b].flagged /\ row'[b].handoffs = row[b].handoffs /\ transfers'[b] = transfers[b]
HandedOver(b) ==
  /\ \E c \in calls : c.booking = b /\ TransferHandoff(c)
  /\ row[b].handoffs = 0 /\ row'[b].handoffs = 1 /\ transfers'[b] = transfers[b] + 1
  /\ row'[b].status = row[b].status /\ row'[b].flagged = row[b].flagged
FlagRaised(b) ==
  /\ \E c \in calls : c.booking = b /\ FlagSave(c)
  /\ ~row[b].flagged /\ row'[b].flagged
  /\ row'[b].status = row[b].status /\ row'[b].handoffs = row[b].handoffs /\ transfers'[b] = transfers[b]
Abandoned(b) ==
  /\ \E a \in resolving : a.of.booking = b /\ CancelAbandoned(a)
  /\ row'[b].status = "cancelled"
  /\ row'[b].flagged = row[b].flagged /\ row'[b].handoffs = row[b].handoffs /\ transfers'[b] = transfers[b]
Cleared(b) ==
  /\ \E a \in resolving : a.of.booking = b /\ Unflag(a)
  /\ ~row'[b].flagged
  /\ row'[b].status = row[b].status /\ row'[b].handoffs = row[b].handoffs /\ transfers'[b] = transfers[b]

LEMMA UndisturbedRowNext ==
  ASSUME Formed, [Next]_vars, NEW b \in Bookings \ disturbed'
  PROVE  /\ disturbed \subseteq disturbed'
         /\ \/ RowKept(b) \/ Restated(b) \/ Started(b) \/ HandedOver(b) \/ FlagRaised(b) \/ Abandoned(b)
            \/ Cleared(b)
  <1> USE DEF Restated, Started, HandedOver, FlagRaised, Abandoned, Cleared
  <1>1. row[b] \in Row /\ transfers \in [Bookings -> Nat]
    BY DEF Formed, TypeOK
  <1>2. ASSUME NEW c \in calls, c.booking = b
        PROVE  c \in Call /\ c.snap \in Row /\ ReadOK(c) /\ Manned(c)
    BY <1>2 DEF Formed, TypeOK, Call
  <1>3. ASSUME NEW c \in calls, c.booking = b, StartSave(c)
        PROVE  disturbed \subseteq disturbed' /\ Started(b)
    <2> DEFINE u == [c.snap EXCEPT !.status = "ongoing"]
    <2>1. u \in Row /\ u.status = "ongoing" /\ u.flagged = c.snap.flagged /\ u.handoffs = c.snap.handoffs
      BY <1>1, <1>2, <1>3, StatusSet DEF Status
    <2> HIDE DEF u
    <2>2. Write(c, u)
      BY <1>3 DEF StartSave, u
    <2>3. disturbed \subseteq disturbed' /\ row'[b] = u /\ c.snap = row[b]
      BY <1>3, <2>1, <2>2, Written
    <2>4. transfers' = transfers /\ c.op = "start" /\ ReadOK(c)
      BY <1>2, <1>3 DEF StartSave
    <2> QED BY <1>1, <1>3, <2>1, <2>3, <2>4 DEF ReadOK
  <1>4. ASSUME NEW c \in calls, c.booking = b, CompleteSave(c)
        PROVE  disturbed \subseteq disturbed' /\ Restated(b)
    <2> DEFINE u == [c.snap EXCEPT !.status = "completed"]
    <2>1. u \in Row /\ u.status = "completed" /\ u.flagged = c.snap.flagged /\ u.handoffs = c.snap.handoffs
      BY <1>1, <1>2, <1>4, StatusSet DEF Status
    <2> HIDE DEF u
    <2>2. Write(c, u)
      BY <1>4 DEF CompleteSave, u
    <2>3. disturbed \subseteq disturbed' /\ row'[b] = u /\ c.snap = row[b]
      BY <1>4, <2>1, <2>2, Written
    <2>4. transfers' = transfers /\ c.op = "complete" /\ ReadOK(c)
      BY <1>2, <1>4 DEF CompleteSave
    <2> QED BY <1>1, <1>4, <2>1, <2>3, <2>4 DEF ReadOK, Ended
  <1>5. ASSUME NEW c \in calls, c.booking = b, CancelSave(c)
        PROVE  disturbed \subseteq disturbed' /\ Restated(b)
    <2> DEFINE u == [c.snap EXCEPT !.status = "cancelled"]
    <2>1. u \in Row /\ u.status = "cancelled" /\ u.flagged = c.snap.flagged /\ u.handoffs = c.snap.handoffs
      BY <1>1, <1>2, <1>5, StatusSet DEF Status
    <2> HIDE DEF u
    <2>2. Write(c, u)
      BY <1>5 DEF CancelSave, u
    <2>3. disturbed \subseteq disturbed' /\ row'[b] = u /\ c.snap = row[b]
      BY <1>5, <2>1, <2>2, Written
    <2>4. transfers' = transfers /\ c.op = "cancel" /\ ReadOK(c)
      BY <1>2, <1>5 DEF CancelSave
    <2> QED BY <1>1, <1>5, <2>1, <2>3, <2>4 DEF ReadOK, Ended
  <1>6. ASSUME NEW c \in calls, c.booking = b, AdminCancelWrite(c)
        PROVE  disturbed \subseteq disturbed' /\ Restated(b)
    <2> DEFINE u == [row[c.booking] EXCEPT !.status = "cancelled"]
    <2>1. /\ u \in Row /\ u.status = "cancelled"
          /\ u.flagged = row[c.booking].flagged /\ u.handoffs = row[c.booking].handoffs
      <3>1. row[c.booking] \in Row
        BY <1>1, <1>6
      <3> QED BY <3>1, StatusSet DEF Status
    <2> HIDE DEF u
    <2>2. Write(c, u)
      BY <1>6 DEF AdminCancelWrite, u
    <2>3. disturbed \subseteq disturbed' /\ row'[b] = u /\ c.snap = row[b]
      BY <1>6, <2>1, <2>2, Written
    <2>4. transfers' = transfers /\ c.op = "admin_cancel" /\ ReadOK(c)
      BY <1>2, <1>6 DEF AdminCancelWrite
    <2> QED BY <1>1, <1>6, <2>1, <2>3, <2>4 DEF ReadOK, Ended
  <1>7. ASSUME NEW c \in calls, c.booking = b, TransferHandoff(c)
        PROVE  disturbed \subseteq disturbed' /\ HandedOver(b)
    <2> DEFINE u == [c.snap EXCEPT !.driver = c.driver, !.handoffs = 1]
    <2>1. u \in Row /\ u.handoffs = 1 /\ u.status = c.snap.status /\ u.flagged = c.snap.flagged
      <3>1. c.snap \in Row /\ c.driver \in Drivers
        BY <1>2, <1>7 DEF Manned, TransferHandoff
      <3> QED BY <3>1, HandedTo
    <2> HIDE DEF u
    <2>2. Write(c, u)
      BY <1>7 DEF TransferHandoff, u
    <2>3. disturbed \subseteq disturbed' /\ row'[b] = u /\ c.snap = row[b]
      BY <1>7, <2>1, <2>2, Written
    <2>4. transfers'[b] = transfers[b] + 1 /\ c.op = "transfer" /\ ReadOK(c)
      BY <1>1, <1>2, <1>7 DEF TransferHandoff
    <2> QED BY <1>1, <1>7, <2>1, <2>3, <2>4 DEF ReadOK, Ended
  <1>8. ASSUME NEW c \in calls, c.booking = b, FlagSave(c)
        PROVE  disturbed \subseteq disturbed' /\ (FlagRaised(b) \/ RowKept(b))
    <2> DEFINE u == [c.snap EXCEPT !.flagged = TRUE]
    <2>1. u \in Row /\ u.flagged = TRUE /\ u.status = c.snap.status /\ u.handoffs = c.snap.handoffs
      BY <1>1, <1>2, <1>8, FlagSet
    <2>2. Write(c, u) \/ UNCHANGED <<row, disturbed>>
      BY <1>8 DEF FlagSave, u
    <2> HIDE DEF u
    <2>3. transfers' = transfers /\ c.op = "flag" /\ ReadOK(c)
      BY <1>2, <1>8 DEF FlagSave
    <2>4. CASE Write(c, u)
      <3>1. disturbed \subseteq disturbed' /\ row'[b] = u /\ c.snap = row[b]
        BY <1>8, <2>1, <2>4, Written
      <3> QED BY <1>1, <1>8, <2>1, <2>3, <3>1 DEF ReadOK, Ended
    <2>5. CASE UNCHANGED <<row, disturbed>>
      BY <2>3, <2>5 DEF RowKept
    <2> QED BY <2>2, <2>4, <2>5
  <1>9. ASSUME NEW d \in Drivers, Reassign(b, d)
        PROVE  disturbed \subseteq disturbed' /\ Restated(b)
    <2> DEFINE u == [row[b] EXCEPT !.driver = d, !.status = "driver_assigned"]
    <2>1. u.status = "driver_assigned" /\ u.flagged = row[b].flagged /\ u.handoffs = row[b].handoffs
      BY <1>1, ReassignedTo
    <2>2. row'[b] = u /\ transfers' = transfers /\ disturbed' = disturbed
      BY <1>9 DEF Reassign, Formed, TypeOK
    <2> HIDE DEF u
    <2> QED BY <2>1, <2>2
  <1>10. ASSUME NEW a \in resolving, a.of.booking = b, CancelAbandoned(a)
         PROVE  disturbed \subseteq disturbed' /\ Abandoned(b)
    <2> DEFINE u == [row[b] EXCEPT !.status = "cancelled"]
    <2>1. u.status = "cancelled" /\ u.flagged = row[b].flagged /\ u.handoffs = row[b].handoffs
      BY <1>1, StatusSet DEF Status
    <2>2. row'[b] = u /\ transfers' = transfers /\ disturbed' = disturbed
      BY <1>10 DEF CancelAbandoned, Formed, TypeOK
    <2> HIDE DEF u
    <2> QED BY <1>10, <2>1, <2>2
  <1>11. ASSUME NEW a \in resolving, a.of.booking = b, Unflag(a)
         PROVE  disturbed \subseteq disturbed' /\ Cleared(b)
    <2> DEFINE u == [row[b] EXCEPT !.flagged = FALSE]
    <2>1. ~u.flagged /\ u.status = row[b].status /\ u.handoffs = row[b].handoffs
      BY <1>1, FlagSet
    <2>2. row'[b] = u /\ transfers' = transfers /\ disturbed' = disturbed
      BY <1>11 DEF Unflag, Formed, TypeOK
    <2> HIDE DEF u
    <2> QED BY <1>11, <2>1, <2>2
  <1> QED
    BY <1>3, <1>4, <1>5, <1>6, <1>7, <1>8, <1>9, <1>10, <1>11, RowNext
    DEF Rewritten, RowKept

-----------------------------------------------------------------------------
(***************************************************************************)
(* How a delivery ends.                                                    *)
(***************************************************************************)

\* A delivery that has ended stays as it ended, whatever handlers, admins, jobs
\* and restarts interleave, but for reassignments, confirmed fraud, and handlers
\* that write a row they read before the end.
THEOREM EndedStays == Spec => EndedStaysEnded
  <1> DEFINE Stays(b) ==
               row[b].status \in Ended /\ row'[b].status # row[b].status =>
                 \/ b \in disturbed'
                 \/ row'[b].status = "driver_assigned"
                 \/ \E a \in resolving \ resolving' : a.of.booking = b /\ a.step = "cancel"
  <1>1. ASSUME Formed, [Next]_vars, NEW b \in Bookings
        PROVE  Stays(b)
    <2>1. CASE b \in disturbed'
      BY <2>1
    <2>2. CASE b \notin disturbed' /\ ~Abandoned(b)
      BY <1>1, <2>2, UndisturbedRowNext
      DEF RowKept, Restated, Started, HandedOver, FlagRaised, Cleared, Ended
    <2>3. CASE Abandoned(b)
      <3>1. PICK a \in resolving : a.of.booking = b /\ CancelAbandoned(a)
        BY <2>3 DEF Abandoned
      <3>2. a.step = "cancel" /\ GoOn(a, "save")
        BY <3>1 DEF CancelAbandoned
      <3>3. a \notin resolving'
        BY <1>1, <3>2, GoneOn
      <3> QED BY <3>1, <3>2, <3>3
    <2> QED BY <2>1, <2>2, <2>3
  <1>2. Formed /\ [Next]_vars => [\A b \in Bookings : Stays(b)]_vars
    BY <1>1
  <1> QED BY <1>2, FormedInit, FormedNext, PTL DEF Spec, EndedStaysEnded

-----------------------------------------------------------------------------
(***************************************************************************)
(* A delivery changes hands at most once.                                  *)
(***************************************************************************)

\* Of the calls that accept a handoff of a booking one is past the lock, and the
\* lock is its driver's.
Locked(b) ==
  /\ \A c, e \in Accepting(b) : c = e
  /\ \A c \in Accepting(b) : handoffLock[b] = c.driver

\* Nobody has written the row on the strength of an old one: the column
\* handoff_count counts the handoffs.
Counted(b) == b \notin disturbed => transfers[b] = row[b].handoffs

HandoffInv == \A b \in Bookings : Locked(b) /\ Counted(b)

LEMMA HandoffInit == Init => HandoffInv
  <1> SUFFICES ASSUME Init, NEW b \in Bookings PROVE Locked(b) /\ Counted(b)
    BY DEF HandoffInv
  <1>1. Locked(b)
    BY DEF Init, Locked, Accepting
  <1>2. Counted(b)
    BY DEF Init, Counted
  <1> QED BY <1>1, <1>2

\* The steps that matter to the lock; no other lets a call past it or touches it.
Locking ==
  \/ \E c \in calls : \/ LockHandoff(c) \/ CheckHandoff(c) \/ RefuseHandoff(c)
                      \/ TransferHandoff(c) \/ FinishHandoff(c) \/ UnlockHandoff(c)
  \/ \E b \in Bookings : ExpireHandoffLock(b)
  \/ Crash
LockKept == handoffLock' = handoffLock /\ \A b \in Bookings : Accepting(b)' \subseteq Accepting(b)

LEMMA LockNext ==
  ASSUME Formed, [Next]_vars
  PROVE  Locking \/ LockKept
  <1> USE DEF handoffKeys, guards, fraud
  <1>1. \A e \in calls : e \in Call
    BY DEF Formed, TypeOK
  <1>2. ASSUME handoffLock' = handoffLock, calls' \subseteq calls
        PROVE  LockKept
    BY <1>2 DEF LockKept, Accepting
  <1>3. ASSUME handoffLock' = handoffLock, NEW e, calls' \subseteq calls \cup {e},
               e.op \notin {"check", "transfer", "finish", "unlock"}
        PROVE  LockKept
    BY <1>3 DEF LockKept, Accepting
  <1>4. ASSUME handoffLock' = handoffLock, NEW b \in Bookings, NEW d \in Drivers \cup {NoDriver},
               NEW op \in Op \ {"check", "transfer", "finish", "unlock"}, Begin(op, b, d)
        PROVE  LockKept
    BY <1>3, <1>4, Begun
  <1>5. ASSUME handoffLock' = handoffLock, NEW c \in calls,
               NEW op \in Op \ {"check", "transfer", "finish", "unlock"}, Continue(c, op)
        PROVE  LockKept
    BY <1>1, <1>3, <1>5, Continued
  <1>6. ASSUME handoffLock' = handoffLock, NEW b \in Bookings, NEW d \in Drivers, NEW by \in Guard, Flag(b, d, by)
        PROVE  LockKept
    BY <1>2, <1>3, <1>6, Flagging
  <1>7. ASSUME UserStep
        PROVE  LockKept
    BY <1>4, <1>7 DEF UserStep, CancelRead, StartRead, CompleteRead, RequestHandoff, AcceptHandoff, CancelHandoff, Op
  <1>8. ASSUME AdminStep
        PROVE  LockKept
    BY <1>2, <1>4, <1>8 DEF AdminStep, AdminCancelRead, Reassign, ResolveRead, Ban, CancelAbandoned, Thaw,
                            Unflag, SaveIncident, Op
  <1>9. ASSUME NEW c \in calls, CallStep(c)
        PROVE  Locking \/ LockKept
    <2>1. CASE CompleteSave(c) \/ CancelSave(c) \/ AdminCancelWrite(c) \/ QueueSla(c) \/ QueueExpiry(c)
               \/ HandoffLocked(c) \/ WithdrawHandoff(c) \/ QueueGhost(c) \/ SetMarker(c)
               \/ IncidentExists(c) \/ OpenIncident(c)
      BY <1>2, <2>1 DEF CompleteSave, CancelSave, AdminCancelWrite, QueueSla, QueueExpiry, HandoffLocked,
                        WithdrawHandoff, QueueGhost, SetMarker, IncidentExists, OpenIncident, Return
    <2>2. CASE StartSave(c) \/ StoreHandoff(c) \/ SetGrace(c) \/ DropGrace(c) \/ FlagSave(c)
               \/ IncidentMissing(c) \/ Freeze(c)
      BY <1>5, <2>2 DEF StartSave, StoreHandoff, SetGrace, DropGrace, FlagSave, IncidentMissing, Freeze, Op
    <2> QED BY <1>9, <2>1, <2>2 DEF CallStep, Locking
  <1>10. ASSUME NEW b \in Bookings, NEW d \in Drivers, JobStep(b, d)
        PROVE  LockKept
    <2>1. CASE ExpireHandoff(b, d) \/ GhostCancelled(b, d)
      BY <1>2, <2>1 DEF ExpireHandoff, GhostCancelled
    <2>2. CASE SlaBreach(b, d) \/ GhostCheck(b, d)
      BY <1>6, <2>2 DEF SlaBreach, GhostCheck, Guard
    <2> QED BY <1>10, <2>1, <2>2 DEF JobStep
  <1>11. ASSUME EnvStep
         PROVE  Locking \/ LockKept
    <2>1. ASSUME NEW b \in Bookings, GhostCron(b)
          PROVE  LockKept
      <3>1. row[b].driver \in Drivers
        BY DEF Formed, TypeOK, Row
      <3> QED BY <1>6, <2>1, <3>1 DEF GhostCron, Guard
    <2>2. ASSUME NEW d \in Drivers, Disconnect(d) \/ Reconnect(d) \/ ExpireGrace(d)
          PROVE  LockKept
      <3>1. handoffLock' = handoffLock
        BY <2>2 DEF Disconnect, Reconnect, ExpireGrace
      <3>2. CASE ExpireGrace(d)
        BY <1>2, <3>1, <3>2 DEF ExpireGrace
      <3>3. CASE Disconnect(d)
        BY <1>2, <1>3, <3>1, <3>3, Dropped
      <3>4. CASE Reconnect(d)
        BY <1>2, <1>3, <3>1, <3>4, CameBack
      <3> QED BY <2>2, <3>2, <3>3, <3>4
    <2>3. ASSUME NEW b \in Bookings, ExpireRequest(b) \/ ExpireMarker(b)
          PROVE  LockKept
      BY <1>2, <2>3 DEF ExpireRequest, ExpireMarker
    <2> QED BY <1>11, <2>1, <2>2, <2>3 DEF EnvStep, Locking
  <1>12. CASE UNCHANGED vars
    BY <1>2, <1>12 DEF vars
  <1> QED BY <1>7, <1>8, <1>9, <1>10, <1>11, <1>12 DEF Next

\* Only one call at a time is past the lock.
LEMMA LockedNext ==
  ASSUME Formed, [Next]_vars, NEW b \in Bookings, Locked(b)
  PROVE  Locked(b)'
  <1> USE DEF Locked, Accepting
  <1>1. \A c \in calls : c \in Call /\ c.booking \in Bookings /\ Manned(c)
    BY DEF Formed, TypeOK, Call
  <1>2. handoffLock \in [Bookings -> Drivers \cup {NoDriver}] /\ NoDriver \notin Drivers
    BY TripAssumption DEF Formed, TypeOK, TripAssumption
  <1>3. CASE LockKept
    BY <1>3 DEF LockKept
  <1>4. ASSUME NEW c \in calls, LockHandoff(c)
        PROVE  Locked(b)'
    <2>1. PICK e \in Call : /\ calls' = (calls \ {c}) \cup {e}
                            /\ e.op = "check" /\ e.booking = c.booking /\ e.driver = c.driver
      BY <1>1, <1>4, Continued DEF LockHandoff, Op
    <2>2. c.booking = b => Accepting(b) = {}
      BY <1>1, <1>2, <1>4 DEF LockHandoff, Manned
    <2>3. c.booking # b => Accepting(b)' = Accepting(b) /\ handoffLock'[b] = handoffLock[b]
      BY <1>2, <1>4, <2>1 DEF LockHandoff
    <2>4. c.booking = b => Accepting(b)' = {e} /\ handoffLock'[b] = e.driver
      BY <1>2, <1>4, <2>1, <2>2 DEF LockHandoff
    <2> QED BY <2>3, <2>4
  <1>5. ASSUME NEW c \in calls,
               CheckHandoff(c) \/ RefuseHandoff(c) \/ TransferHandoff(c) \/ FinishHandoff(c)
        PROVE  Locked(b)'
    <2>1. PICK e \in Call : /\ calls' = (calls \ {c}) \cup {e}
                            /\ e.op \in {"transfer", "finish", "unlock"}
                            /\ e.booking = c.booking /\ e.driver = c.driver
      <3>1. CASE CheckHandoff(c)
        BY <3>1, Checked
      <3>2. CASE RefuseHandoff(c) \/ TransferHandoff(c) \/ FinishHandoff(c)
        BY <1>1, <3>2, Continued DEF RefuseHandoff, TransferHandoff, FinishHandoff, Op
      <3> QED BY <1>5, <3>1, <3>2
    <2>2. c.op \in {"check", "transfer", "finish"} /\ handoffLock' = handoffLock
      BY <1>5 DEF CheckHandoff, RefuseHandoff, TransferHandoff, FinishHandoff, handoffKeys
    <2>3. c.booking # b => Accepting(b)' = Accepting(b)
      BY <2>1
    <2>4. c.booking = b => Accepting(b)' = {e} /\ handoffLock[b] = e.driver
      BY <2>1, <2>2
    <2> QED BY <2>2, <2>3, <2>4
  <1>6. ASSUME NEW c \in calls, UnlockHandoff(c)
        PROVE  Locked(b)'
    <2>1. c.booking # b => Accepting(b)' = Accepting(b) /\ handoffLock'[b] = handoffLock[b]
      BY <1>2, <1>6 DEF UnlockHandoff, Return
    <2>2. c.booking = b => Accepting(b)' = {}
      BY <1>6 DEF UnlockHandoff, Return
    <2> QED BY <2>1, <2>2
  <1>7. ASSUME NEW e \in Bookings, ExpireHandoffLock(e)
        PROVE  Locked(b)'
    BY <1>2, <1>7 DEF ExpireHandoffLock
  <1>8. CASE Crash
    BY <1>8 DEF Crash
  <1> QED BY <1>3, <1>4, <1>5, <1>6, <1>7, <1>8, LockNext DEF Locking

LEMMA HandoffNext == Formed /\ HandoffInv /\ [Next]_vars => HandoffInv'
  <1> SUFFICES ASSUME Formed, HandoffInv, [Next]_vars, NEW b \in Bookings
               PROVE  Locked(b)' /\ Counted(b)'
    BY DEF HandoffInv
  <1>1. Locked(b)'
    BY LockedNext DEF HandoffInv
  <1>2. CASE b \in disturbed'
    BY <1>1, <1>2 DEF Counted
  <1>3. CASE b \notin disturbed'
    <2>1. transfers[b] = row[b].handoffs
      BY <1>3, UndisturbedRowNext DEF Counted, HandoffInv
    <2> QED
      BY <1>1, <1>3, <2>1, UndisturbedRowNext
      DEF Counted, RowKept, Restated, Started, HandedOver, FlagRaised, Abandoned, Cleared
  <1> QED BY <1>2, <1>3

\* A delivery changes hands at most once, and one acceptHandoff at a time is past
\* the lock, for any number of drivers and calls.
THEOREM HandedOverOnce == Spec => []OneTransfer
  <1>1. Formed /\ HandoffInv => OneTransfer
    <2> SUFFICES ASSUME Formed, HandoffInv PROVE OneTransfer
      OBVIOUS
    <2>1. \A b \in Bookings : row[b].handoffs \in 0..1
      BY Columns DEF Formed, TypeOK
    <2> QED BY <2>1 DEF HandoffInv, Locked, Counted, OneTransfer
  <1> QED BY <1>1, FormedInit, FormedNext, HandoffInit, HandoffNext, PTL DEF Spec

-----------------------------------------------------------------------------
(***************************************************************************)
(* What a step may do to the calls, the incidents and the SLA jobs.        *)
(***************************************************************************)

\* A step begins calls, or takes one call a stage on or to its end, or is a
\* restart.
Follows ==
  {<<"start", "queue_sla">>, <<"request", "queue_expiry">>, <<"lock", "check">>, <<"check", "transfer">>,
   <<"check", "unlock">>, <<"transfer", "finish">>, <<"finish", "unlock">>,
   <<"grace", "queue_ghost">>, <<"ungrace", "mark">>,
   <<"flag", "incident">>, <<"incident", "freeze">>, <<"freeze", "open">>}
First == {"start", "complete", "cancel", "admin_cancel", "request", "withdraw", "lock", "grace", "ungrace", "flag"}

Beginning == calls \subseteq calls' /\ \A e \in calls' \ calls : e.op \in First
Moved(c) ==
  \/ calls' = calls \ {c}
  \/ \E e \in Call : /\ calls' = (calls \ {c}) \cup {e}
                     /\ <<c.op, e.op>> \in Follows /\ e.booking = c.booking

LEMMA CallsNext ==
  ASSUME Formed, [Next]_vars
  PROVE  Crash \/ Beginning \/ \E c \in calls : CallStep(c) /\ Moved(c)
  <1>1. \A c \in calls : c \in Call
    BY DEF Formed, TypeOK
  <1>2. ASSUME calls' = calls
        PROVE  Beginning
    BY <1>2 DEF Beginning
  <1>3. ASSUME NEW b \in Bookings, NEW d \in Drivers \cup {NoDriver}, NEW op \in Op \cap First, Begin(op, b, d)
        PROVE  Beginning
    BY <1>3, Begun DEF Beginning
  <1>4. ASSUME NEW b \in Bookings, NEW d \in Drivers, NEW by \in Guard, Flag(b, d, by)
        PROVE  Beginning
    BY <1>4, Flagging DEF Beginning, First
  <1>5. ASSUME NEW c \in calls, NEW op \in Op, Continue(c, op), <<c.op, op>> \in Follows
        PROVE  Moved(c)
    BY <1>1, <1>5, Continued DEF Moved
  <1>6. ASSUME NEW c \in calls, CallStep(c)
        PROVE  Moved(c)
    <2>1. CASE CompleteSave(c) \/ CancelSave(c) \/ AdminCancelWrite(c) \/ QueueSla(c) \/ QueueExpiry(c)
               \/ HandoffLocked(c) \/ WithdrawHandoff(c) \/ UnlockHandoff(c) \/ QueueGhost(c) \/ SetMarker(c)
               \/ IncidentExists(c) \/ OpenIncident(c)
      BY <2>1 DEF CompleteSave, CancelSave, AdminCancelWrite, QueueSla, QueueExpiry, HandoffLocked,
                  WithdrawHandoff, UnlockHandoff, QueueGhost, SetMarker, IncidentExists, OpenIncident, Return, Moved
    <2>2. CASE StartSave(c)
      BY <1>5, <2>2 DEF StartSave, Op, Follows
    <2>3. CASE StoreHandoff(c)
      BY <1>5, <2>3 DEF StoreHandoff, Op, Follows
    <2>4. CASE FlagSave(c)
      BY <1>5, <2>4 DEF FlagSave, Op, Follows
    <2>5. CASE IncidentMissing(c)
      BY <1>5, <2>5 DEF IncidentMissing, Op, Follows
    <2>6. CASE LockHandoff(c)
      BY <1>5, <2>6 DEF LockHandoff, Op, Follows
    <2>7. CASE TransferHandoff(c)
      BY <1>5, <2>7 DEF TransferHandoff, Op, Follows
    <2>8. CASE CheckHandoff(c)
      <3>1. c.op = "check"
        BY <2>8 DEF CheckHandoff
      <3> QED BY <2>8, <3>1, Checked DEF Moved, Follows
    <2>9. CASE RefuseHandoff(c)
      BY <1>5, <2>9 DEF RefuseHandoff, Op, Follows
    <2>10. CASE FinishHandoff(c)
      BY <1>5, <2>10 DEF FinishHandoff, Op, Follows
    <2>11. CASE SetGrace(c)
      BY <1>5, <2>11 DEF SetGrace, Op, Follows
    <2>12. CASE DropGrace(c)
      BY <1>5, <2>12 DEF DropGrace, Op, Follows
    <2>13. CASE Freeze(c)
      BY <1>5, <2>13 DEF Freeze, Op, Follows
    <2> QED BY <1>6, <2>1, <2>2, <2>3, <2>4, <2>5, <2>6, <2>7, <2>8,
               <2>9, <2>10, <2>11, <2>12, <2>13 DEF CallStep
  <1>7. ASSUME UserStep
        PROVE  Beginning
    BY <1>3, <1>7
    DEF UserStep, CancelRead, StartRead, CompleteRead, RequestHandoff, AcceptHandoff, CancelHandoff, Op, First
  <1>8. ASSUME AdminStep
        PROVE  Beginning
    BY <1>2, <1>3, <1>8
    DEF AdminStep, AdminCancelRead, Reassign, ResolveRead, Ban, CancelAbandoned, Thaw, Unflag, SaveIncident, Op, First
  <1>9. ASSUME NEW b \in Bookings, NEW d \in Drivers, JobStep(b, d)
        PROVE  Beginning
    BY <1>2, <1>4, <1>9 DEF JobStep, ExpireHandoff, GhostCancelled, SlaBreach, GhostCheck, Guard
  <1>10. ASSUME EnvStep
        PROVE  Crash \/ Beginning
    <2>1. ASSUME NEW b \in Bookings, GhostCron(b)
          PROVE  Beginning
      <3>1. row[b].driver \in Drivers
        BY DEF Formed, TypeOK, Row
      <3> QED BY <1>4, <2>1, <3>1 DEF GhostCron, Guard
    <2>2. ASSUME NEW d \in Drivers, Disconnect(d) \/ Reconnect(d) \/ ExpireGrace(d)
          PROVE  Beginning
      <3>1. CASE ExpireGrace(d)
        BY <1>2, <3>1 DEF ExpireGrace
      <3>2. CASE Disconnect(d)
        BY <3>2, Dropped DEF Beginning, First
      <3>3. CASE Reconnect(d)
        BY <3>3, CameBack DEF Beginning, First
      <3> QED BY <2>2, <3>1, <3>2, <3>3
    <2>3. ASSUME NEW b \in Bookings, ExpireRequest(b) \/ ExpireMarker(b) \/ ExpireHandoffLock(b)
          PROVE  Beginning
      BY <1>2, <2>3 DEF ExpireRequest, ExpireMarker, ExpireHandoffLock
    <2> QED BY <1>10, <2>1, <2>2, <2>3 DEF EnvStep
  <1>11. CASE UNCHANGED vars
    BY <1>2, <1>11 DEF vars
  <1> QED BY <1>6, <1>7, <1>8, <1>9, <1>10, <1>11 DEF Next

\* The stage of a call tells which step is its next.
LEMMA Stage ==
  ASSUME NEW c \in calls, CallStep(c)
  PROVE  /\ c.op = "queue_sla" => QueueSla(c)
         /\ c.op = "flag" => FlagSave(c)
         /\ c.op = "incident" => IncidentExists(c) \/ IncidentMissing(c)
         /\ c.op = "freeze" => Freeze(c)
         /\ c.op = "open" => OpenIncident(c)
  BY DEF CallStep, StartSave, QueueSla, CompleteSave, CancelSave, AdminCancelWrite, StoreHandoff, QueueExpiry,
         LockHandoff, HandoffLocked, CheckHandoff, RefuseHandoff, TransferHandoff, FinishHandoff, UnlockHandoff,
         WithdrawHandoff, SetGrace, QueueGhost, DropGrace, SetMarker, FlagSave, IncidentExists, IncidentMissing,
         Freeze, OpenIncident

\* Incidents are opened by guards and resolved by admins.
Resolving(a) == Ban(a) \/ CancelAbandoned(a) \/ Thaw(a) \/ Unflag(a) \/ SaveIncident(a)
Registering ==
  \/ \E c \in calls : OpenIncident(c)
  \/ \E i \in incidents, status \in {"confirmed", "cleared"} : ResolveRead(i, status)
  \/ \E a \in resolving : Resolving(a)
  \/ Crash
RegisterKept == UNCHANGED <<incidents, resolving>>

LEMMA RegisterNext ==
  ASSUME [Next]_vars
  PROVE  Registering \/ RegisterKept
  <1> USE DEF fraud
  <1>1. ASSUME UserStep
        PROVE  RegisterKept
    BY <1>1 DEF UserStep, CancelRead, StartRead, CompleteRead, RequestHandoff, AcceptHandoff, CancelHandoff,
                RegisterKept
  <1>2. ASSUME AdminStep
        PROVE  Registering \/ RegisterKept
    <2>1. ASSUME NEW b \in Bookings, AdminCancelRead(b) \/ \E d \in Drivers : Reassign(b, d)
          PROVE  RegisterKept
      BY <2>1 DEF AdminCancelRead, Reassign, RegisterKept
    <2> QED BY <1>2, <2>1 DEF AdminStep, Registering, Resolving
  <1>3. ASSUME NEW c \in calls, CallStep(c)
        PROVE  Registering \/ RegisterKept
    <2>1. CASE StartSave(c) \/ QueueSla(c) \/ CompleteSave(c) \/ CancelSave(c) \/ AdminCancelWrite(c)
               \/ StoreHandoff(c) \/ QueueExpiry(c) \/ LockHandoff(c) \/ HandoffLocked(c) \/ CheckHandoff(c)
               \/ RefuseHandoff(c) \/ TransferHandoff(c) \/ FinishHandoff(c) \/ UnlockHandoff(c)
               \/ WithdrawHandoff(c) \/ SetGrace(c) \/ QueueGhost(c) \/ DropGrace(c) \/ SetMarker(c)
               \/ FlagSave(c) \/ IncidentExists(c) \/ IncidentMissing(c) \/ Freeze(c)
      BY <2>1 DEF StartSave, QueueSla, CompleteSave, CancelSave, AdminCancelWrite, StoreHandoff, QueueExpiry,
                  LockHandoff, HandoffLocked, CheckHandoff, RefuseHandoff, TransferHandoff, FinishHandoff,
                  UnlockHandoff, WithdrawHandoff, SetGrace, QueueGhost, DropGrace, SetMarker, FlagSave,
                  IncidentExists, IncidentMissing, Freeze, RegisterKept
    <2> QED BY <1>3, <2>1 DEF CallStep, Registering
  <1>4. ASSUME NEW b \in Bookings, NEW d \in Drivers, JobStep(b, d)
        PROVE  RegisterKept
    BY <1>4 DEF JobStep, ExpireHandoff, GhostCancelled, SlaBreach, GhostCheck, RegisterKept
  <1>5. ASSUME EnvStep
        PROVE  Registering \/ RegisterKept
    BY <1>5, Zenon DEF EnvStep, Disconnect, Reconnect, ExpireGrace, GhostCron, ExpireRequest, ExpireHandoffLock,
                       ExpireMarker, RegisterKept, Registering
  <1>6. CASE UNCHANGED vars
    BY <1>6 DEF vars, RegisterKept
  <1> QED BY <1>1, <1>2, <1>3, <1>4, <1>5, <1>6 DEF Next

\* An SLA job goes only by running.
LEMMA SlaNext ==
  ASSUME [Next]_vars
  PROVE  sla \subseteq sla' \/ \E b \in Bookings, d \in Drivers : SlaBreach(b, d)
  <1> USE DEF guards
  <1>1. ASSUME UserStep
        PROVE  sla' = sla
    BY <1>1 DEF UserStep, CancelRead, StartRead, CompleteRead, RequestHandoff, AcceptHandoff, CancelHandoff
  <1>2. ASSUME AdminStep
        PROVE  sla' = sla
    BY <1>2 DEF AdminStep, AdminCancelRead, Reassign, ResolveRead, Ban, CancelAbandoned, Thaw, Unflag,
                SaveIncident
  <1>3. ASSUME NEW c \in calls, CallStep(c)
        PROVE  sla \subseteq sla'
    <2>1. CASE QueueSla(c)
      BY <2>1 DEF QueueSla
    <2>2. CASE ~QueueSla(c)
      BY <1>3, <2>2
      DEF CallStep, StartSave, CompleteSave, CancelSave, AdminCancelWrite, StoreHandoff, QueueExpiry,
          LockHandoff, HandoffLocked, CheckHandoff, RefuseHandoff, TransferHandoff, FinishHandoff,
          UnlockHandoff, WithdrawHandoff, SetGrace, QueueGhost, DropGrace, SetMarker, FlagSave,
          IncidentExists, IncidentMissing, Freeze, OpenIncident
    <2> QED BY <2>1, <2>2
  <1>4. ASSUME NEW b \in Bookings, NEW d \in Drivers, JobStep(b, d)
        PROVE  sla' = sla \/ SlaBreach(b, d)
    BY <1>4 DEF JobStep, ExpireHandoff, GhostCancelled, GhostCheck
  <1>5. ASSUME EnvStep
        PROVE  sla \subseteq sla'
    <2>1. CASE Crash
      BY <2>1 DEF Crash
    <2>2. CASE ~Crash
      <3>1. sla' = sla
        BY <1>5, <2>2, Zenon DEF EnvStep, Disconnect, Reconnect, ExpireGrace, GhostCron, ExpireRequest,
                                 ExpireHandoffLock, ExpireMarker
      <3> QED BY <3>1
    <2> QED BY <2>1, <2>2
  <1>6. CASE UNCHANGED vars
    BY <1>6 DEF vars
  <1> QED BY <1>1, <1>2, <1>3, <1>4, <1>5, <1>6 DEF Next

\* Once a guard has saved, the flag is up and the guard about to see to the incident.
LEMMA FlagSaved ==
  ASSUME Formed, NEW c \in calls, FlagSave(c)
  PROVE  /\ row'[c.booking].flagged
         /\ \E e \in Call : calls' = (calls \ {c}) \cup {e} /\ e.op = "incident" /\ e.booking = c.booking
  <1>1. c \in Call /\ c.snap \in Row
    BY DEF Formed, TypeOK, Call, FlagSave
  <1> DEFINE u == [c.snap EXCEPT !.flagged = TRUE]
  <1>2. u \in Row /\ u.flagged
    BY <1>1, FlagSet
  <1>3. Write(c, u) \/ (u = row[c.booking] /\ row' = row)
    BY DEF FlagSave
  <1> HIDE DEF u
  <1>4. row'[c.booking] = u
    <2>1. CASE Write(c, u)
      BY <1>2, <2>1, Written
    <2> QED BY <1>3, <2>1
  <1>5. \E e \in Call : calls' = (calls \ {c}) \cup {e} /\ e.op = "incident" /\ e.booking = c.booking
    BY <1>1, Continued DEF FlagSave, Op
  <1> QED BY <1>2, <1>4, <1>5

-----------------------------------------------------------------------------
(***************************************************************************)
(* Incidents: numbers are unique, and an admin resolves the incident read.  *)
(***************************************************************************)

Filed ==
  /\ \A i \in incidents : i.id \in 1..Cardinality(incidents)
  /\ \A i, j \in incidents : i.id = j.id => i = j
  /\ \A a \in resolving :
       /\ \E j \in incidents : j.id = a.of.id /\ j.booking = a.of.booking /\ j.driver = a.of.driver
       /\ a.of.status # "suspected"
       /\ a.step \in {"ban", "cancel"} => a.of.status = "confirmed"

LEMMA FiledInit == Init => Filed
  BY DEF Init, Filed

\* Saving replaces one incident, of the same booking, by its resolution.
LEMMA Resolved ==
  ASSUME Formed, Filed, NEW a \in resolving, SaveIncident(a)
  PROVE  /\ Cardinality(incidents') = Cardinality(incidents)
         /\ \A j \in incidents' : j = a.of \/ (j \in incidents /\ j.id # a.of.id)
         /\ a.of \in incidents' /\ \A j \in incidents : j.id # a.of.id => j \in incidents'
         /\ \E j \in incidents : j.id = a.of.id
         /\ \A j \in incidents : j.id = a.of.id => j.booking = a.of.booking /\ j.driver = a.of.driver
  <1>1. PICK j \in incidents : j.id = a.of.id /\ j.booking = a.of.booking /\ j.driver = a.of.driver
    BY DEF Filed
  <1>2. \A k \in incidents : k.id = a.of.id => k = j
    BY <1>1 DEF Filed
  <1>3. incidents' = (incidents \ {j}) \cup {a.of}
    BY <1>1, <1>2 DEF SaveIncident
  <1>4. a.of \notin incidents \ {j}
    BY <1>2
  <1>5. IsFiniteSet(incidents) /\ IsFiniteSet(incidents \ {j}) /\ Cardinality(incidents) \in Nat
    BY FS_RemoveElement, FS_CardinalityType DEF Formed
  <1>6. Cardinality(incidents \ {j}) = Cardinality(incidents) - 1
    BY <1>5, FS_RemoveElement
  <1>7. Cardinality((incidents \ {j}) \cup {a.of}) = Cardinality(incidents \ {j}) + 1
    BY <1>4, <1>5, FS_AddElement
  <1>8. Cardinality(incidents') = Cardinality(incidents)
    BY <1>3, <1>5, <1>6, <1>7
  <1> QED BY <1>1, <1>2, <1>3, <1>8

\* OpenIncident files it under a number of its own.
LEMMA Opened ==
  ASSUME Formed, Filed, NEW c \in calls, OpenIncident(c)
  PROVE  \E k : /\ incidents' = incidents \cup {k}
                /\ k.id = Cardinality(incidents) + 1 /\ k.booking = c.booking /\ k.driver = c.driver
                /\ k.status = "suspected"
                /\ Cardinality(incidents') = Cardinality(incidents) + 1
                /\ \A j \in incidents : j.id # k.id
  <1> DEFINE k == [id |-> Cardinality(incidents) + 1, booking |-> c.booking, driver |-> c.driver,
                   status |-> "suspected"]
  <1>1. incidents' = incidents \cup {k}
    BY DEF OpenIncident
  <1>2. /\ k.id = Cardinality(incidents) + 1 /\ k.booking = c.booking /\ k.driver = c.driver
        /\ k.status = "suspected"
    OBVIOUS
  <1> HIDE DEF k
  <1>3. IsFiniteSet(incidents) /\ Cardinality(incidents) \in Nat
    BY FS_CardinalityType DEF Formed
  <1>4. \A j \in incidents : j.id # k.id
    BY <1>2, <1>3 DEF Filed
  <1>5. Cardinality(incidents') = Cardinality(incidents) + 1
    BY <1>1, <1>3, <1>4, FS_AddElement
  <1> QED BY <1>1, <1>2, <1>4, <1>5

LEMMA FiledNext == Formed /\ Filed /\ [Next]_vars => Filed'
  <1> SUFFICES ASSUME Formed, Filed, [Next]_vars PROVE Filed'
    OBVIOUS
  <1>1. Cardinality(incidents) \in Nat
    BY FS_CardinalityType DEF Formed
  <1>2. CASE RegisterKept
    BY <1>2 DEF RegisterKept, Filed
  <1>3. ASSUME NEW c \in calls, OpenIncident(c)
        PROVE  Filed'
    <2>1. PICK k : /\ incidents' = incidents \cup {k} /\ k.id = Cardinality(incidents) + 1
                   /\ Cardinality(incidents') = Cardinality(incidents) + 1
                   /\ \A j \in incidents : j.id # k.id
      BY <1>3, Opened
    <2>2. resolving' = resolving
      BY <1>3 DEF OpenIncident
    <2>3. \A i \in incidents' : i.id \in 1..Cardinality(incidents')
      BY <1>1, <2>1 DEF Filed
    <2>4. \A i, j \in incidents' : i.id = j.id => i = j
      BY <2>1 DEF Filed
    <2> QED BY <2>1, <2>2, <2>3, <2>4 DEF Filed
  <1>4. ASSUME NEW i \in incidents, NEW status \in {"confirmed", "cleared"}, ResolveRead(i, status)
        PROVE  Filed'
    <2>1. PICK k \in Resolution :
             /\ resolving' = resolving \cup {k} /\ k.of.id = i.id /\ k.of.booking = i.booking
             /\ k.of.driver = i.driver /\ k.of.status = status
             /\ k.step = IF status = "confirmed" THEN "ban" ELSE "thaw"
      BY <1>4, Decided
    <2>2. incidents' = incidents
      BY <1>4 DEF ResolveRead
    <2> QED BY <2>1, <2>2 DEF Filed
  <1>5. ASSUME NEW a \in resolving, NEW step \in {"cancel", "unflag", "save"}, GoOn(a, step), incidents' = incidents,
               step = "cancel" => a.step = "ban"
        PROVE  Filed'
    <2>1. PICK k \in Resolution : resolving' = (resolving \ {a}) \cup {k} /\ k.of = a.of /\ k.step = step
      BY <1>5, GoneOn
    <2> QED BY <1>5, <2>1 DEF Filed
  <1>6. ASSUME NEW a \in resolving, SaveIncident(a)
        PROVE  Filed'
    <2>1. resolving' \subseteq resolving
      BY <1>6 DEF SaveIncident
    <2>2. \A j \in incidents' : j.id \in 1..Cardinality(incidents')
      BY <1>6, Resolved DEF Filed
    <2>3. \A j, k \in incidents' : j.id = k.id => j = k
      BY <1>6, Resolved DEF Filed
    <2>4. ASSUME NEW k \in resolving
          PROVE  \E j \in incidents' : j.id = k.of.id /\ j.booking = k.of.booking /\ j.driver = k.of.driver
      <3>1. PICK j \in incidents : j.id = k.of.id /\ j.booking = k.of.booking /\ j.driver = k.of.driver
        BY DEF Filed
      <3>2. CASE j.id = a.of.id
        BY <1>6, <3>1, <3>2, Resolved
      <3>3. CASE j.id # a.of.id
        BY <1>6, <3>1, <3>3, Resolved
      <3> QED BY <3>2, <3>3
    <2> QED BY <2>1, <2>2, <2>3, <2>4 DEF Filed
  <1>7. ASSUME NEW a \in resolving, Resolving(a)
        PROVE  Filed'
    BY <1>5, <1>6, <1>7 DEF Resolving, Ban, CancelAbandoned, Thaw, Unflag
  <1>8. CASE Crash
    BY <1>8 DEF Crash, Filed
  <1> QED BY <1>2, <1>3, <1>4, <1>7, <1>8, RegisterNext DEF Registering

\* A booking that has an incident keeps one.
LEMMA IncidentStays ==
  ASSUME Formed, Filed, [Next]_vars, NEW b \in Bookings, \E i \in incidents : i.booking = b
  PROVE  \E i \in incidents' : i.booking = b
  <1>1. PICK i \in incidents : i.booking = b
    OBVIOUS
  <1>2. ASSUME NEW a \in resolving, SaveIncident(a)
        PROVE  \E j \in incidents' : j.booking = b
    <2>1. CASE i.id = a.of.id
      BY <1>1, <1>2, <2>1, Resolved
    <2>2. CASE i.id # a.of.id
      BY <1>1, <1>2, <2>2, Resolved
    <2> QED BY <2>1, <2>2
  <1>3. ASSUME incidents' = incidents
        PROVE  \E j \in incidents' : j.booking = b
    BY <1>1, <1>3
  <1>4. ASSUME NEW c \in calls, OpenIncident(c)
        PROVE  \E j \in incidents' : j.booking = b
    BY <1>1, <1>4 DEF OpenIncident
  <1> QED BY <1>2, <1>3, <1>4, RegisterNext
          DEF Registering, RegisterKept, Resolving, Ban, CancelAbandoned, Thaw, Unflag, ResolveRead, Crash

-----------------------------------------------------------------------------
(***************************************************************************)
(* Every delivery under way is watched.                                    *)
(***************************************************************************)

\* startTrip is about to queue the SLA job, or the job has run and is about to
\* flag: of the calls that guard a delivery, those that a restart does not lose.
Due(b) == \E c \in calls : c.booking = b /\ (c.op = "queue_sla" \/ (c.op = "flag" /\ c.by = "sla_deadline"))
Watch(b) ==
  \/ \E d \in Drivers : <<b, d>> \in sla
  \/ Due(b) \/ row[b].flagged
  \/ \E i \in incidents : i.booking = b
WatchInv == \A b \in Bookings \ disturbed : row[b].status = "ongoing" => Watch(b)

LEMMA WatchInit == Init => WatchInv
  BY DEF Init, WatchInv

\* A job ahead, or due, is not lost.
LEMMA JobStays ==
  ASSUME Formed, [Next]_vars, NEW b \in Bookings \ disturbed', row[b].status = "ongoing", ~row[b].flagged,
         (\E d \in Drivers : <<b, d>> \in sla) \/ Due(b)
  PROVE  (\E d \in Drivers : <<b, d>> \in sla') \/ Due(b)' \/ row'[b].flagged
  <1>1. \A c \in calls : c \in Call /\ c.snap.driver \in Drivers /\ Manned(c)
    BY DEF Formed, TypeOK, Call, Row
  <1>2. ASSUME NEW d \in Drivers, <<b, d>> \in sla, SlaBreach(b, d)
        PROVE  Due(b)'
    BY <1>2, Flagging DEF SlaBreach, Guard, Due
  <1>3. ASSUME NEW d \in Drivers, <<b, d>> \in sla
        PROVE  (\E e \in Drivers : <<b, e>> \in sla') \/ Due(b)'
    <2>1. ASSUME NEW a \in Bookings, NEW e \in Drivers, SlaBreach(a, e), <<a, e>> # <<b, d>>
          PROVE  <<b, d>> \in sla'
      BY <1>3, <2>1 DEF SlaBreach
    <2> QED BY <1>2, <1>3, <2>1, SlaNext
  <1>4. ASSUME NEW c \in calls, c.booking = b, c.op = "queue_sla" \/ (c.op = "flag" /\ c.by = "sla_deadline")
        PROVE  (\E d \in Drivers : <<b, d>> \in sla') \/ Due(b)' \/ row'[b].flagged
    <2>1. CASE c \in calls'
      BY <1>4, <2>1 DEF Due
    <2>2. CASE Crash
      <3>1. c.op # "queue_sla"
        BY <1>4, <2>2 DEF Crash
      <3>2. c.driver \in Drivers /\ c.by = "sla_deadline"
        BY <1>1, <1>4, <3>1 DEF Manned
      <3>3. <<b, c.driver>> \in sla'
        BY <1>4, <2>2, <3>2 DEF Crash, Interrupted
      <3> QED BY <3>2, <3>3
    <2>3. CASE CallStep(c)
      <3>1. CASE c.op = "queue_sla"
        BY <1>1, <1>4, <2>3, <3>1, Stage DEF QueueSla
      <3>2. CASE c.op = "flag"
        BY <1>4, <2>3, <3>2, Stage, FlagSaved
      <3> QED BY <1>4, <3>1, <3>2
    <2> QED BY <2>1, <2>2, <2>3, CallsNext DEF Beginning, Moved
  <1> QED BY <1>3, <1>4 DEF Due

LEMMA WatchNext == Formed /\ Filed /\ WatchInv /\ [Next]_vars => WatchInv'
  <1> SUFFICES ASSUME Formed, Filed, WatchInv, [Next]_vars,
                      NEW b \in Bookings \ disturbed', row'[b].status = "ongoing"
               PROVE  Watch(b)'
    BY DEF WatchInv
  <1>1. disturbed \subseteq disturbed'
    BY UndisturbedRowNext
  <1>2. CASE Started(b)
    <2>1. PICK c \in calls : c.booking = b /\ StartSave(c)
      BY <1>2 DEF Started
    <2>2. c \in Call
      BY DEF Formed, TypeOK
    <2>3. \E e \in calls' : e.op = "queue_sla" /\ e.booking = b
      BY <2>1, <2>2, Continued DEF StartSave, Op
    <2> QED BY <2>3 DEF Watch, Due
  <1>3. CASE Cleared(b)
    <2>1. PICK a \in resolving : a.of.booking = b /\ Unflag(a)
      BY <1>3 DEF Cleared
    <2>2. incidents' = incidents
      BY <2>1 DEF Unflag
    <2>3. \E j \in incidents : j.booking = b
      BY <2>1 DEF Filed
    <2> QED BY <2>2, <2>3 DEF Watch
  <1>4. CASE ~Started(b) /\ ~Cleared(b)
    <2>1. row[b].status = "ongoing" /\ (row'[b].flagged \/ ~row[b].flagged)
      BY <1>4, UndisturbedRowNext DEF RowKept, Restated, HandedOver, FlagRaised, Abandoned, Ended
    <2>2. Watch(b)
      BY <1>1, <2>1 DEF WatchInv
    <2>3. CASE row'[b].flagged
      BY <2>3 DEF Watch
    <2>4. CASE \E i \in incidents : i.booking = b
      BY <2>4, IncidentStays DEF Watch
    <2>5. CASE ~row[b].flagged /\ ((\E d \in Drivers : <<b, d>> \in sla) \/ Due(b))
      BY <2>1, <2>5, JobStays DEF Watch
    <2> QED BY <2>1, <2>2, <2>3, <2>4, <2>5 DEF Watch
  <1> QED BY <1>2, <1>3, <1>4

\* Whatever is reassigned, handed over, cleared or cut short by a restart: a
\* delivery under way has its SLA job ahead, or has been or is being flagged or
\* investigated.
THEOREM DeliveriesWatched == Spec => []OngoingWatched
  <1>1. WatchInv => OngoingWatched
    BY DEF WatchInv, Watch, Due, OngoingWatched, Guarding
  <1> QED BY <1>1, FormedInit, FormedNext, FiledInit, FiledNext, WatchInit, WatchNext, PTL DEF Spec

-----------------------------------------------------------------------------
(***************************************************************************)
(* Investigations.                                                         *)
(***************************************************************************)

\* A call that is about to see to the incident of b is one, and a step of it is
\* what changes those calls.
Pursuing == {"flag", "incident", "freeze", "open"}
CallsKept(b) == Investigating(b)' = Investigating(b) /\ Opening(b)' = Opening(b)

LEMMA InvestigatingNext ==
  ASSUME Formed, [Next]_vars, NEW b \in Bookings
  PROVE  \/ Crash \/ CallsKept(b)
         \/ \E c \in calls : c.booking = b /\ c.op \in Pursuing /\ CallStep(c)
  <1> USE DEF CallsKept, Investigating, Opening
  <1>1. CASE Beginning
    BY <1>1 DEF Beginning, First
  <1>2. ASSUME NEW c \in calls, CallStep(c), Moved(c), c.booking # b \/ c.op \notin Pursuing
        PROVE  CallsKept(b)
    BY <1>2 DEF Moved, Follows, Pursuing
  <1> QED BY <1>1, <1>2, CallsNext

\* What each of those steps leaves of the calls.
LEMMA Advanced ==
  ASSUME Formed, NEW c \in calls
  PROVE  /\ IncidentMissing(c) =>
              \E e \in Call : calls' = (calls \ {c}) \cup {e} /\ e.op = "freeze" /\ e.booking = c.booking
         /\ Freeze(c) =>
              \E e \in Call : calls' = (calls \ {c}) \cup {e} /\ e.op = "open" /\ e.booking = c.booking
  <1>1. c \in Call
    BY DEF Formed, TypeOK
  <1>2. ASSUME IncidentMissing(c)
        PROVE  \E e \in Call : calls' = (calls \ {c}) \cup {e} /\ e.op = "freeze" /\ e.booking = c.booking
    BY <1>1, <1>2, Continued DEF IncidentMissing, Op
  <1>3. ASSUME Freeze(c)
        PROVE  \E e \in Call : calls' = (calls \ {c}) \cup {e} /\ e.op = "open" /\ e.booking = c.booking
    BY <1>1, <1>3, Continued DEF Freeze, Op
  <1> QED BY <1>2, <1>3

\* A suspected incident of b is new only by OpenIncident.
LEMMA SuspectedNext ==
  ASSUME Formed, Filed, [Next]_vars, NEW b \in Bookings
  PROVE  \/ Suspected(b)' \subseteq Suspected(b)
         \/ \E c \in calls : c.booking = b /\ OpenIncident(c)
  <1> USE DEF Suspected
  <1>1. ASSUME incidents' = incidents
        PROVE  Suspected(b)' \subseteq Suspected(b)
    BY <1>1
  <1>2. ASSUME NEW c \in calls, OpenIncident(c), c.booking # b
        PROVE  Suspected(b)' \subseteq Suspected(b)
    BY <1>2, Opened
  <1>3. ASSUME NEW a \in resolving, SaveIncident(a)
        PROVE  Suspected(b)' \subseteq Suspected(b)
    <2>1. a.of.status # "suspected"
      BY DEF Filed
    <2> QED BY <1>3, <2>1, Resolved
  <1> QED BY <1>1, <1>2, <1>3, RegisterNext
          DEF Registering, RegisterKept, Resolving, Ban, CancelAbandoned, Thaw, Unflag, ResolveRead, Crash

\* As long as no two calls look for an incident before either opens it, one call
\* is about to open an incident, and only while none is open.
OneCase(b) ==
  /\ \A c, e \in Opening(b) : c = e
  /\ Opening(b) # {} => Suspected(b) = {}
  /\ \A i, j \in Suspected(b) : i = j
CaseInv == \A b \in Bookings \ doubled : OneCase(b)

LEMMA CaseInit == Init => CaseInv
  BY DEF Init, CaseInv, OneCase, Opening, Suspected

\* Only a call that found no incident marks a booking as doubled.
LEMMA DoubledNext ==
  ASSUME [Next]_vars
  PROVE  doubled' = doubled \/ \E c \in calls : IncidentMissing(c)
  <1> USE DEF fraud
  <1>1. ASSUME UserStep
        PROVE  doubled' = doubled
    BY <1>1 DEF UserStep, CancelRead, StartRead, CompleteRead, RequestHandoff, AcceptHandoff, CancelHandoff
  <1>2. ASSUME AdminStep
        PROVE  doubled' = doubled
    BY <1>2 DEF AdminStep, AdminCancelRead, Reassign, ResolveRead, Ban, CancelAbandoned, Thaw, Unflag,
                SaveIncident
  <1>3. ASSUME NEW c \in calls, CallStep(c), ~IncidentMissing(c)
        PROVE  doubled' = doubled
    BY <1>3 DEF CallStep, StartSave, QueueSla, CompleteSave, CancelSave, AdminCancelWrite, StoreHandoff,
                QueueExpiry, LockHandoff, HandoffLocked, CheckHandoff, RefuseHandoff, TransferHandoff,
                FinishHandoff, UnlockHandoff, WithdrawHandoff, SetGrace, QueueGhost, DropGrace, SetMarker,
                FlagSave, IncidentExists, Freeze, OpenIncident
  <1>4. ASSUME NEW b \in Bookings, NEW d \in Drivers, JobStep(b, d)
        PROVE  doubled' = doubled
    BY <1>4 DEF JobStep, ExpireHandoff, GhostCancelled, SlaBreach, GhostCheck
  <1>5. ASSUME EnvStep
        PROVE  doubled' = doubled
    BY <1>5, Zenon DEF EnvStep, Disconnect, Reconnect, ExpireGrace, GhostCron, ExpireRequest,
                       ExpireHandoffLock, ExpireMarker, Crash
  <1>6. CASE UNCHANGED vars
    BY <1>6 DEF vars
  <1> QED BY <1>1, <1>2, <1>3, <1>4, <1>5, <1>6 DEF Next

LEMMA CaseNext == Formed /\ Filed /\ CaseInv /\ [Next]_vars => CaseInv'
  <1> SUFFICES ASSUME Formed, Filed, CaseInv, [Next]_vars, NEW b \in Bookings \ doubled'
               PROVE  OneCase(b)'
    BY DEF CaseInv
  <1>1. OneCase(b)
    BY DoubledNext DEF CaseInv, IncidentMissing
  <1>2. ASSUME NEW c \in calls, c.booking = b, OpenIncident(c)
        PROVE  OneCase(b)'
    <2>1. c \in Opening(b)
      BY <1>2 DEF OpenIncident, Opening
    <2>2. Opening(b)' = {}
      BY <1>1, <1>2, <2>1 DEF OneCase, OpenIncident, Return, Opening
    <2>3. PICK k : incidents' = incidents \cup {k}
      BY <1>2, Opened
    <2>4. Suspected(b)' \subseteq {k}
      BY <1>1, <2>1, <2>3 DEF OneCase, Suspected
    <2> QED BY <2>2, <2>4 DEF OneCase
  <1>3. ASSUME Suspected(b)' \subseteq Suspected(b), Opening(b)' \subseteq Opening(b)
        PROVE  OneCase(b)'
    BY <1>1, <1>3 DEF OneCase
  <1>4. CASE Suspected(b)' \subseteq Suspected(b)
    <2>1. CASE Crash
      BY <1>3, <1>4, <2>1 DEF Crash, Opening
    <2>2. CASE CallsKept(b)
      BY <1>3, <1>4, <2>2 DEF CallsKept
    <2>3. ASSUME NEW c \in calls, c.booking = b, FlagSave(c)
          PROVE  OneCase(b)'
      BY <1>3, <1>4, <2>3, FlagSaved DEF Opening
    <2>4. ASSUME NEW c \in calls, c.booking = b, IncidentExists(c)
          PROVE  OneCase(b)'
      BY <1>3, <1>4, <2>4 DEF IncidentExists, Return, Opening
    <2>5. ASSUME NEW c \in calls, c.booking = b, IncidentMissing(c)
          PROVE  OneCase(b)'
      <3>1. Opening(b) = {} /\ Suspected(b) = {}
        BY <2>5 DEF IncidentMissing
      <3>2. \E e \in Call : Opening(b)' \subseteq {e}
        BY <2>5, <3>1, Advanced DEF Opening
      <3> QED BY <1>4, <3>1, <3>2 DEF OneCase
    <2>6. ASSUME NEW c \in calls, c.booking = b, Freeze(c)
          PROVE  OneCase(b)'
      <3>1. c \in Opening(b)
        BY <2>6 DEF Freeze, Opening
      <3>2. \E e \in Call : Opening(b)' \subseteq {e}
        BY <1>1, <2>6, <3>1, Advanced DEF OneCase, Opening
      <3> QED BY <1>1, <1>4, <3>1, <3>2 DEF OneCase
    <2>7. ASSUME NEW c \in calls, c.booking = b, c.op \in Pursuing, CallStep(c)
          PROVE  OneCase(b)'
      BY <1>2, <2>3, <2>4, <2>5, <2>6, <2>7, Stage DEF Pursuing
    <2> QED BY <2>1, <2>2, <2>7, InvestigatingNext
  <1> QED BY <1>2, <1>4, SuspectedNext

\* A flagged booking has a call about to see to its incident, or an incident that
\* is not cleared and that no admin is about to save as cleared.
Standing(b) == \E i \in incidents : i.booking = b /\ i.status # "cleared" /\ ~Leaving(i)
Pursued(b) == row[b].flagged => Investigating(b) # {} \/ Standing(b)
PursuedInv == \A b \in Bookings \ (disturbed \cup unattended) : Pursued(b)

LEMMA PursuedInit == Init => PursuedInv
  BY DEF Init, PursuedInv, Pursued

\* An admin past unflagging a booking is about to clear its incident; every other
\* step of a decision leaves standing what stood.
LEMMA StandingNext ==
  ASSUME Formed, Filed, [Next]_vars, NEW b \in Bookings, Standing(b)
  PROVE  Standing(b)' \/ \E a \in resolving : a.of.booking = b /\ Unflag(a)
  <1>1. PICK i \in incidents : i.booking = b /\ i.status # "cleared" /\ ~Leaving(i)
    BY DEF Standing
  <1>2. ASSUME incidents \subseteq incidents', \A k \in resolving' \ resolving : k.step # "save"
        PROVE  Standing(b)'
    BY <1>1, <1>2 DEF Standing, Leaving
  <1>3. ASSUME NEW c \in calls, OpenIncident(c)
        PROVE  Standing(b)'
    BY <1>2, <1>3 DEF OpenIncident
  <1>4. ASSUME NEW j \in incidents, NEW status \in {"confirmed", "cleared"}, ResolveRead(j, status)
        PROVE  Standing(b)'
    <2>1. \E k : resolving' = resolving \cup {k} /\ k.step # "save"
      BY <1>4, Decided
    <2>2. incidents' = incidents
      BY <1>4 DEF ResolveRead
    <2> QED BY <1>2, <2>1, <2>2
  <1>5. ASSUME NEW a \in resolving, NEW step \in {"cancel", "unflag"}, GoOn(a, step), incidents' = incidents
        PROVE  Standing(b)'
    <2>1. \E k : resolving' = (resolving \ {a}) \cup {k} /\ k.step # "save"
      BY <1>5, GoneOn
    <2> QED BY <1>2, <1>5, <2>1
  <1>6. ASSUME NEW a \in resolving, CancelAbandoned(a)
        PROVE  Standing(b)'
    <2>1. PICK k \in Resolution : resolving' = (resolving \ {a}) \cup {k} /\ k.of = a.of
      BY <1>6, GoneOn DEF CancelAbandoned
    <2>2. k.of.status = "confirmed"
      BY <1>6, <2>1 DEF CancelAbandoned, Filed
    <2>3. incidents' = incidents
      BY <1>6 DEF CancelAbandoned
    <2> QED BY <1>1, <2>1, <2>2, <2>3 DEF Standing, Leaving
  <1>7. ASSUME NEW a \in resolving, Unflag(a), a.of.booking # b
        PROVE  Standing(b)'
    <2>1. PICK k \in Resolution : resolving' = (resolving \ {a}) \cup {k} /\ k.of = a.of
      BY <1>7, GoneOn DEF Unflag
    <2>2. k.of.id # i.id
      BY <1>1, <1>7, <2>1 DEF Filed
    <2>3. incidents' = incidents
      BY <1>7 DEF Unflag
    <2> QED BY <1>1, <2>1, <2>2, <2>3 DEF Standing, Leaving
  <1>8. ASSUME NEW a \in resolving, SaveIncident(a)
        PROVE  Standing(b)'
    <2>1. resolving' \subseteq resolving /\ a.step = "save" /\ a.of.status # "suspected"
      BY <1>8 DEF SaveIncident, Filed
    <2>2. CASE i.id # a.of.id
      <3>1. i \in incidents'
        BY <1>8, <2>2, Resolved
      <3> QED BY <1>1, <2>1, <3>1 DEF Standing, Leaving
    <2>3. CASE i.id = a.of.id
      <3>1. a.of \in incidents' /\ a.of.booking = b
        BY <1>1, <1>8, <2>3, Resolved
      <3>2. a.of.status # "cleared"
        BY <1>1, <2>1, <2>3 DEF Leaving
      <3> QED BY <1>1, <2>1, <2>3, <3>1, <3>2 DEF Standing, Leaving
    <2> QED BY <2>2, <2>3
  <1>9. CASE RegisterKept \/ Crash
    BY <1>2, <1>9 DEF RegisterKept, Crash
  <1>10. ASSUME NEW a \in resolving, Resolving(a)
         PROVE  Standing(b)' \/ \E k \in resolving : k.of.booking = b /\ Unflag(k)
    BY <1>5, <1>6, <1>7, <1>8, <1>10 DEF Resolving, Ban, Thaw
  <1> QED BY <1>3, <1>4, <1>9, <1>10, RegisterNext DEF Registering

\* A booking once marked as unattended stays so.
LEMMA UnattendedNext ==
  ASSUME [Next]_vars
  PROVE  unattended \subseteq unattended'
  <1> USE DEF fraud
  <1>1. ASSUME UserStep
        PROVE  unattended' = unattended
    BY <1>1 DEF UserStep, CancelRead, StartRead, CompleteRead, RequestHandoff, AcceptHandoff, CancelHandoff
  <1>2. ASSUME AdminStep
        PROVE  unattended' = unattended
    BY <1>2 DEF AdminStep, AdminCancelRead, Reassign, ResolveRead, Ban, CancelAbandoned, Thaw, Unflag,
                SaveIncident
  <1>3. ASSUME NEW c \in calls, CallStep(c), ~IncidentExists(c)
        PROVE  unattended' = unattended
    BY <1>3 DEF CallStep, StartSave, QueueSla, CompleteSave, CancelSave, AdminCancelWrite, StoreHandoff,
                QueueExpiry, LockHandoff, HandoffLocked, CheckHandoff, RefuseHandoff, TransferHandoff,
                FinishHandoff, UnlockHandoff, WithdrawHandoff, SetGrace, QueueGhost, DropGrace, SetMarker,
                FlagSave, IncidentMissing, Freeze, OpenIncident
  <1>4. ASSUME NEW c \in calls, IncidentExists(c)
        PROVE  unattended \subseteq unattended'
    BY <1>4 DEF IncidentExists
  <1>5. ASSUME NEW b \in Bookings, NEW d \in Drivers, JobStep(b, d)
        PROVE  unattended' = unattended
    BY <1>5 DEF JobStep, ExpireHandoff, GhostCancelled, SlaBreach, GhostCheck
  <1>6. ASSUME EnvStep, ~Crash
        PROVE  unattended' = unattended
    BY <1>6, Zenon DEF EnvStep, Disconnect, Reconnect, ExpireGrace, GhostCron, ExpireRequest,
                       ExpireHandoffLock, ExpireMarker
  <1>7. CASE Crash
    BY <1>7 DEF Crash
  <1>8. CASE UNCHANGED vars
    BY <1>8 DEF vars
  <1> QED BY <1>1, <1>2, <1>3, <1>4, <1>5, <1>6, <1>7, <1>8 DEF Next

\* The flag goes up together with a call that is to see to the incident; such calls
\* end by finding or by opening one.
LEMMA PursuedNext == Formed /\ Filed /\ PursuedInv /\ [Next]_vars => PursuedInv'
  <1> SUFFICES ASSUME Formed, Filed, PursuedInv, [Next]_vars,
                      NEW b \in Bookings \ (disturbed' \cup unattended'), row'[b].flagged
               PROVE  Investigating(b)' # {} \/ Standing(b)'
    BY DEF PursuedInv, Pursued
  <1>1. ASSUME NEW c \in calls, c.booking = b, FlagSave(c)
        PROVE  Investigating(b)' # {}
    BY <1>1, FlagSaved DEF Investigating
  <1>2. ASSUME NEW c \in calls, c.booking = b, IncidentMissing(c) \/ Freeze(c)
        PROVE  Investigating(b)' # {}
    BY <1>2, Advanced DEF Investigating
  <1>3. ASSUME NEW c \in calls, c.booking = b, IncidentExists(c)
        PROVE  Standing(b)'
    <2>1. PICK i \in Suspected(b) : ~Leaving(i)
      BY <1>3 DEF IncidentExists
    <2>2. incidents' = incidents /\ resolving' = resolving
      BY <1>3 DEF IncidentExists
    <2> QED BY <2>1, <2>2 DEF Suspected, Standing, Leaving
  <1>4. ASSUME NEW c \in calls, c.booking = b, OpenIncident(c)
        PROVE  Standing(b)'
    <2>1. PICK k : /\ incidents' = incidents \cup {k} /\ k.booking = b /\ k.status = "suspected"
                   /\ \A j \in incidents : j.id # k.id
      BY <1>4, Opened
    <2>2. resolving' = resolving
      BY <1>4 DEF OpenIncident
    <2> QED BY <2>1, <2>2 DEF Standing, Leaving, Filed
  <1>5. ASSUME NEW c \in calls, c.booking = b, c.op \in Pursuing, CallStep(c)
        PROVE  Investigating(b)' # {} \/ Standing(b)'
    BY <1>1, <1>2, <1>3, <1>4, <1>5, Stage DEF Pursuing
  <1>6. CASE FlagRaised(b)
    BY <1>1, <1>6 DEF FlagRaised
  <1>7. CASE ~FlagRaised(b)
    <2>1. row[b].flagged /\ ~Cleared(b) /\ b \notin disturbed
      BY <1>7, UndisturbedRowNext DEF RowKept, Restated, Started, HandedOver, Abandoned, Cleared
    <2>2. Investigating(b) # {} \/ Standing(b)
      BY <2>1, UnattendedNext DEF PursuedInv, Pursued
    <2>3. ASSUME NEW a \in resolving, a.of.booking = b, Unflag(a)
          PROVE  FALSE
      <3>1. row[b] \in Row
        BY DEF Formed, TypeOK
      <3> DEFINE u == [row[b] EXCEPT !.flagged = FALSE]
      <3>2. ~u.flagged
        BY <3>1, FlagSet
      <3>3. row'[b] = u
        BY <2>3 DEF Unflag, Formed, TypeOK
      <3> HIDE DEF u
      <3> QED BY <3>2, <3>3
    <2>4. CASE Standing(b)
      BY <2>3, <2>4, StandingNext
    <2>5. CASE Investigating(b) # {} /\ Crash
      BY <2>5 DEF Crash, Investigating
    <2>6. CASE Investigating(b) # {} /\ CallsKept(b)
      BY <2>6 DEF CallsKept
    <2> QED BY <1>5, <2>2, <2>4, <2>5, <2>6, InvestigatingNext
  <1> QED BY <1>6, <1>7

\* For any number of guards, drivers, admins and bookings, and restarts at any
\* point: a flagged delivery is under investigation or about to be, and one
\* incident of a delivery is open at a time, but for the exceptions that doubled and
\* unattended record.
THEOREM FlaggedInvestigated == Spec => []FlaggedIsInvestigated
  <1>1. CaseInv /\ PursuedInv => FlaggedIsInvestigated
    BY DEF CaseInv, OneCase, PursuedInv, Pursued, Standing, FlaggedIsInvestigated
  <1> QED BY <1>1, FormedInit, FormedNext, FiledInit, FiledNext, CaseInit, CaseNext, PursuedInit,
             PursuedNext, PTL DEF Spec
=============================================================================
