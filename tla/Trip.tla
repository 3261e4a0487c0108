-------------------------------- MODULE Trip --------------------------------
(***************************************************************************)
(* A booking after acceptance: the row in table bookings from accepted to  *)
(* completed or cancelled, the handoff of a delivery from one driver to    *)
(* another, and the three guards that flag a delivery as abandoned and     *)
(* open a fraud incident.                                                  *)
(*                                                                         *)
(* Handlers read the row, await, and save the whole row they read           *)
(* (TypeORM's save updates every column that differs).  Such a handler is  *)
(* two steps with a record of "calls" between them, whose snap is the row  *)
(* it read.  Repository.update writes only the columns it names.           *)
(* The money a completed trip moves is not modelled here.                  *)
(*                                                                         *)
(* A definition named Faulty... is a variant no specification uses: the    *)
(* definition after it with one plausible mistake, kept to show that a     *)
(* property notices the mistake.                                           *)
(***************************************************************************)
EXTENDS Integers, FiniteSets

CONSTANTS
  Bookings,       \* rows of table bookings, inserted by acceptBooking
  Drivers,        \* user ids of drivers
  NoDriver,       \* an absent Redis key whose value would be a driver
  NoBooking,      \* an absent Redis key whose value would be a booking
  Assigned,       \* [Bookings -> Drivers]: who accepted each booking
  MayDrop,        \* bound: drivers whose socket may disconnect
  MaxCalls,       \* bound: handlers in flight at once, and decisions of admins
  MaxGhosts,      \* bound: pending ghost checks of a driver on a booking
  MaxTransfers,   \* bound: no handoff is begun once that many are done
  MaxIncidents,   \* bound: no guard fires once that many incidents exist
  MaxCrashes      \* bound: restarts of the server process

VARIABLES
  row,            \* table bookings
  handoff,        \* handoff:ID, the driver who asked to be relieved
  handoffLock,    \* handoff:ID:accepting
  expiry,         \* pending handoff_expiry jobs
  sla,            \* pending delivery_sla_breach jobs
  ghost,          \* number of pending driver_ghost_check jobs
  grace,          \* driver:disconnect_grace:D
  marker,         \* driver:ghost_check_cancel:ID
  connected,      \* drivers whose socket is connected
  returned,       \* for properties only: those of them who came back within the grace window
  calls,          \* handlers between their read and their write
  incidents,      \* table driver_fraud_incidents
  resolving,      \* an admin's confirmFraud or clearIncident past its read
  frozen,         \* driver_profiles.wallet_frozen
  banned,         \* drivers with users.is_active = false
  crashes,        \* restarts so far
  \* The following exist for properties only.
  disturbed,      \* bookings written by a handler whose read was out of date,
                  \* or left by a restart without the job it was to queue
  transfers,      \* completed handoffs of each booking
  doubled,        \* bookings that two calls at once found without an open incident
  unattended      \* bookings whose guard was cut short before it opened the incident,
                  \* or found only an incident that was being cleared

handoffKeys == <<handoff, handoffLock, expiry>>
guards == <<sla, ghost, grace, marker, connected, returned>>
fraud == <<incidents, resolving, frozen, banned, doubled, unattended>>
vars == <<row, handoffKeys, guards, calls, fraud, crashes, disturbed, transfers>>

Status == {"accepted", "driver_assigned", "ongoing", "completed", "cancelled"}
Active == {"accepted", "driver_assigned", "ongoing"}
Row == [status : Status, driver : Drivers, flagged : BOOLEAN, handoffs : 0..1]
Incident == [id : Nat, booking : Bookings, driver : Drivers,
             status : {"suspected", "confirmed", "cleared"}]

\* What an admin's decision on an incident has still to do.
Resolution == [of : Incident, step : {"ban", "cancel", "thaw", "unflag", "save"}]

Op == {"start", "queue_sla", "complete", "cancel", "admin_cancel", "request", "queue_expiry",
       "withdraw", "lock", "check", "transfer", "finish", "unlock",
       "grace", "queue_ghost", "ungrace", "mark", "flag", "incident", "freeze", "open"}
Guard == {"none", "sla_deadline", "socket_disconnect", "gps_cron"}

\* by is detected_by for the steps of flagBookingAbandoned, "none" otherwise.
Call == [op : Op, booking : Bookings, driver : Drivers \cup {NoDriver}, snap : Row, by : Guard]

ASSUME TripAssumption ==
  /\ NoDriver \notin Drivers /\ NoBooking \notin Bookings
  /\ Assigned \in [Bookings -> Drivers] /\ MayDrop \subseteq Drivers
  /\ MaxCalls \in Nat /\ MaxTransfers \in Nat /\ MaxGhosts \in Nat /\ MaxIncidents \in Nat /\ MaxCrashes \in Nat

CallOf(op, b, d, by) == [op |-> op, booking |-> b, driver |-> d, snap |-> row[b], by |-> by]
Suspected(b) == {i \in incidents : i.booking = b /\ i.status = "suspected"}

Init ==
  /\ row = [b \in Bookings |->
              [status |-> "accepted", driver |-> Assigned[b], flagged |-> FALSE, handoffs |-> 0]]
  /\ handoff = [b \in Bookings |-> NoDriver]
  /\ handoffLock = [b \in Bookings |-> NoDriver]
  /\ expiry = {} /\ sla = {}
  /\ ghost = [b \in Bookings |-> [d \in Drivers |-> 0]]
  /\ grace = [d \in Drivers |-> NoBooking]
  /\ marker = [b \in Bookings |-> FALSE]
  /\ connected = Drivers /\ returned = {}
  /\ calls = {} /\ incidents = {} /\ resolving = {} /\ frozen = {} /\ banned = {} /\ crashes = 0
  /\ disturbed = {} /\ transfers = [b \in Bookings |-> 0] /\ doubled = {} /\ unattended = {}

\* A handler has read the row of a booking and awaits.
Begin(op, b, d) ==
  /\ Cardinality(calls) < MaxCalls
  /\ calls' = calls \cup {CallOf(op, b, d, "none")}

\* A handler's next stage; what it has read stays with it.
Continue(c, op) == calls' = (calls \ {c}) \cup {[c EXCEPT !.op = op]}
Return(c) == calls' = calls \ {c}

\* A handler writes row r on the strength of what it has read.
Write(c, r) ==
  /\ row' = [row EXCEPT ![c.booking] = r]
  /\ disturbed' = IF c.snap = row[c.booking] THEN disturbed ELSE disturbed \cup {c.booking}

(***************************************************************************)
(* The trip.                                                               *)
(***************************************************************************)

StartRead(d, b) ==
  /\ d \notin banned
  /\ row[b].driver = d /\ row[b].status \in {"accepted", "driver_assigned"}
  /\ Begin("start", b, d)
  /\ UNCHANGED <<row, handoffKeys, guards, fraud, crashes, disturbed, transfers>>

FaultyStartSave(c) ==  \* no SLA job
  /\ c \in calls /\ c.op = "start"
  /\ Write(c, [c.snap EXCEPT !.status = "ongoing"])
  /\ Return(c)
  /\ UNCHANGED <<handoffKeys, guards, fraud, crashes, transfers>>

\* startTrip saves the row ...
StartSave(c) ==
  /\ c \in calls /\ c.op = "start"
  /\ Write(c, [c.snap EXCEPT !.status = "ongoing"])
  /\ Continue(c, "queue_sla")
  /\ UNCHANGED <<handoffKeys, guards, fraud, crashes, transfers>>

\* ... and queues the SLA job for the driver it read there.
QueueSla(c) ==
  /\ c \in calls /\ c.op = "queue_sla"
  /\ sla' = sla \cup {<<c.booking, c.snap.driver>>}
  /\ Return(c)
  /\ UNCHANGED <<row, handoffKeys, ghost, grace, marker, connected, returned, fraud, crashes, disturbed, transfers>>

CompleteRead(d, b) ==
  /\ d \notin banned
  /\ row[b].driver = d /\ row[b].status = "ongoing"
  /\ Begin("complete", b, d)
  /\ UNCHANGED <<row, handoffKeys, guards, fraud, crashes, disturbed, transfers>>

CompleteSave(c) ==
  /\ c \in calls /\ c.op = "complete"
  /\ Write(c, [c.snap EXCEPT !.status = "completed"])
  /\ Return(c)
  /\ UNCHANGED <<handoffKeys, guards, fraud, crashes, transfers>>

FaultyCancelRead(b) ==  \* a completed booking may be cancelled
  /\ row[b].status # "ongoing"
  /\ Begin("cancel", b, NoDriver)
  /\ UNCHANGED <<row, handoffKeys, guards, fraud, crashes, disturbed, transfers>>

\* cancel, by the customer.
CancelRead(b) ==
  /\ row[b].status \notin {"ongoing", "completed"}
  /\ Begin("cancel", b, NoDriver)
  /\ UNCHANGED <<row, handoffKeys, guards, fraud, crashes, disturbed, transfers>>

CancelSave(c) ==
  /\ c \in calls /\ c.op = "cancel"
  /\ Write(c, [c.snap EXCEPT !.status = "cancelled"])
  /\ Return(c)
  /\ UNCHANGED <<handoffKeys, guards, fraud, crashes, transfers>>

\* cancelBooking, by an admin: an UPDATE of the status alone.
AdminCancelRead(b) ==
  /\ row[b].status \notin {"completed", "cancelled"}
  /\ Begin("admin_cancel", b, NoDriver)
  /\ UNCHANGED <<row, handoffKeys, guards, fraud, crashes, disturbed, transfers>>

AdminCancelWrite(c) ==
  /\ c \in calls /\ c.op = "admin_cancel"
  /\ Write(c, [row[c.booking] EXCEPT !.status = "cancelled"])
  /\ Return(c)
  /\ UNCHANGED <<handoffKeys, guards, fraud, crashes, transfers>>

\* reassignBooking, by an admin: whatever the status, whoever drives.
Reassign(b, d) ==
  /\ row' = [row EXCEPT ![b].driver = d, ![b].status = "driver_assigned"]
  /\ UNCHANGED <<handoffKeys, guards, calls, fraud, crashes, disturbed, transfers>>

(***************************************************************************)
(* Handoff.                                                                *)
(***************************************************************************)

RequestHandoff(d, b) ==
  /\ d \notin banned
  /\ row[b].driver = d /\ row[b].status \in Active /\ row[b].handoffs < 1
  /\ handoff[b] = NoDriver /\ transfers[b] < MaxTransfers
  /\ Begin("request", b, d)
  /\ UNCHANGED <<row, handoffKeys, guards, fraud, crashes, disturbed, transfers>>

FaultyStoreHandoff(c) ==  \* no expiry job
  /\ c \in calls /\ c.op = "request"
  /\ handoff' = [handoff EXCEPT ![c.booking] = c.driver]
  /\ Return(c)
  /\ UNCHANGED <<row, handoffLock, expiry, guards, fraud, crashes, disturbed, transfers>>

\* The request is stored, drivers near by are asked ...
StoreHandoff(c) ==
  /\ c \in calls /\ c.op = "request"
  /\ handoff' = [handoff EXCEPT ![c.booking] = c.driver]
  /\ Continue(c, "queue_expiry")
  /\ UNCHANGED <<row, handoffLock, expiry, guards, fraud, crashes, disturbed, transfers>>

\* ... and the expiry job queued.
QueueExpiry(c) ==
  /\ c \in calls /\ c.op = "queue_expiry"
  /\ expiry' = expiry \cup {<<c.booking, c.driver>>}
  /\ Return(c)
  /\ UNCHANGED <<row, handoff, handoffLock, guards, fraud, crashes, disturbed, transfers>>

\* acceptHandoff reads the request ...
AcceptHandoff(d, b) ==
  /\ d \notin banned
  /\ handoff[b] \notin {NoDriver, d} /\ transfers[b] < MaxTransfers
  /\ Begin("lock", b, d)
  /\ UNCHANGED <<row, handoffKeys, guards, fraud, crashes, disturbed, transfers>>

\* ... takes the lock (SET NX) ...
LockHandoff(c) ==
  /\ c \in calls /\ c.op = "lock"
  /\ handoffLock[c.booking] = NoDriver
  /\ handoffLock' = [handoffLock EXCEPT ![c.booking] = c.driver]
  /\ Continue(c, "check")
  /\ UNCHANGED <<row, handoff, expiry, guards, fraud, crashes, disturbed, transfers>>

\* ... or finds it taken ...
HandoffLocked(c) ==
  /\ c \in calls /\ c.op = "lock"
  /\ handoffLock[c.booking] # NoDriver
  /\ Return(c)
  /\ UNCHANGED <<row, handoffKeys, guards, fraud, crashes, disturbed, transfers>>

FaultyCheckHandoff(c) ==  \* does not read handoff_count again
  LET r == row[c.booking]
  IN /\ c \in calls /\ c.op = "check"
     /\ r.status \in Active
     /\ \A b \in Bookings : row[b].driver = c.driver => row[b].status \notin Active
     /\ calls' = (calls \ {c}) \cup {[c EXCEPT !.op = "transfer", !.snap = r]}
     /\ UNCHANGED <<row, handoffKeys, guards, fraud, crashes, disturbed, transfers>>

\* ... reads the row again under the lock: still active, never handed off, and
\* the new driver free ...
CheckHandoff(c) ==
  LET r == row[c.booking]
  IN /\ c \in calls /\ c.op = "check"
     /\ r.status \in Active /\ r.handoffs < 1
     /\ \A b \in Bookings : row[b].driver = c.driver => row[b].status \notin Active
     /\ calls' = (calls \ {c}) \cup {[c EXCEPT !.op = "transfer", !.snap = r]}
     /\ UNCHANGED <<row, handoffKeys, guards, fraud, crashes, disturbed, transfers>>

\* ... or refuses (also when driver or vehicle is not approved, in any state) ...
RefuseHandoff(c) ==
  /\ c \in calls /\ c.op = "check"
  /\ Continue(c, "unlock")
  /\ UNCHANGED <<row, handoffKeys, guards, fraud, crashes, disturbed, transfers>>

\* ... saves the row ...
TransferHandoff(c) ==
  /\ c \in calls /\ c.op = "transfer"
  /\ Write(c, [c.snap EXCEPT !.driver = c.driver, !.handoffs = 1])
  /\ transfers' = [transfers EXCEPT ![c.booking] = @ + 1]
  /\ Continue(c, "finish")
  /\ UNCHANGED <<handoffKeys, guards, fraud, crashes>>

\* ... deletes the request ...
FinishHandoff(c) ==
  /\ c \in calls /\ c.op = "finish"
  /\ handoff' = [handoff EXCEPT ![c.booking] = NoDriver]
  /\ Continue(c, "unlock")
  /\ UNCHANGED <<row, handoffLock, expiry, guards, fraud, crashes, disturbed, transfers>>

\* ... and, whatever came before, the lock.
UnlockHandoff(c) ==
  /\ c \in calls /\ c.op = "unlock"
  /\ handoffLock' = [handoffLock EXCEPT ![c.booking] = NoDriver]
  /\ Return(c)
  /\ UNCHANGED <<row, handoff, expiry, guards, fraud, crashes, disturbed, transfers>>

CancelHandoff(d, b) ==
  /\ d \notin banned
  /\ row[b].driver = d /\ handoff[b] # NoDriver
  /\ Begin("withdraw", b, d)
  /\ UNCHANGED <<row, handoffKeys, guards, fraud, crashes, disturbed, transfers>>

WithdrawHandoff(c) ==
  /\ c \in calls /\ c.op = "withdraw"
  /\ handoff' = [handoff EXCEPT ![c.booking] = NoDriver]
  /\ Return(c)
  /\ UNCHANGED <<row, handoffLock, expiry, guards, fraud, crashes, disturbed, transfers>>

\* expireHandoff: whichever request is there goes.
ExpireHandoff(b, d) ==
  /\ <<b, d>> \in expiry
  /\ expiry' = expiry \ {<<b, d>>}
  /\ handoff' = [handoff EXCEPT ![b] = NoDriver]
  /\ UNCHANGED <<row, handoffLock, guards, calls, fraud, crashes, disturbed, transfers>>

(***************************************************************************)
(* Abandonment: SLA job, socket disconnect, GPS cron.                      *)
(***************************************************************************)

\* flagBookingAbandoned up to its first await.  Bounds: one call of each
\* guard at a time, and none once MaxIncidents incidents exist.
Flag(b, d, by) ==
  /\ Cardinality(incidents) < MaxIncidents /\ \A c \in calls : c.by # by
  /\ calls' = calls \cup
       (IF row[b].status = "ongoing" /\ ~row[b].flagged THEN {CallOf("flag", b, d, by)} ELSE {})

SlaBreach(b, d) ==
  /\ <<b, d>> \in sla
  /\ sla' = sla \ {<<b, d>>}
  /\ Flag(b, d, "sla_deadline")
  /\ UNCHANGED <<row, handoffKeys, ghost, grace, marker, connected, returned, fraud, crashes, disturbed, transfers>>

\* checkGhostDrivers; the driver's last GPS ping may have expired at any time.
GhostCron(b) ==
  /\ row[b].status = "ongoing" /\ ~row[b].flagged /\ Cardinality(calls) < MaxCalls
  /\ Flag(b, row[b].driver, "gps_cron")
  /\ UNCHANGED <<row, handoffKeys, guards, fraud, crashes, disturbed, transfers>>

\* handleDisconnect looks for an unflagged ongoing booking of the driver ...
Watched(d) == {b \in Bookings : row[b].driver = d /\ row[b].status = "ongoing" /\ ~row[b].flagged}

Disconnect(d) ==
  /\ d \in connected \cap MayDrop
  /\ connected' = connected \ {d} /\ returned' = returned \ {d}
  /\ \/ Watched(d) = {} /\ UNCHANGED calls
     \/ \E b \in Watched(d) :
          ghost[b][d] < MaxGhosts /\ Cardinality(calls) < MaxCalls /\ calls' = calls \cup {CallOf("grace", b, d, "none")}
  /\ UNCHANGED <<row, handoffKeys, sla, ghost, grace, marker, fraud, crashes, disturbed, transfers>>

\* ... sets the grace key ...
SetGrace(c) ==
  /\ c \in calls /\ c.op = "grace"
  /\ grace' = [grace EXCEPT ![c.driver] = c.booking]
  /\ Continue(c, "queue_ghost")
  /\ UNCHANGED <<row, handoffKeys, sla, ghost, marker, connected, returned, fraud, crashes, disturbed, transfers>>

\* ... and queues a ghost check.
QueueGhost(c) ==
  /\ c \in calls /\ c.op = "queue_ghost"
  /\ ghost' = [ghost EXCEPT ![c.booking][c.driver] = @ + 1]
  /\ Return(c)
  /\ UNCHANGED <<row, handoffKeys, sla, grace, marker, connected, returned, fraud, crashes, disturbed, transfers>>

\* handleConnection trades a grace key ...
Reconnect(d) ==
  /\ d \notin connected
  /\ connected' = connected \cup {d}
  /\ \/ grace[d] = NoBooking /\ UNCHANGED calls
     \/ \E b \in Bookings :
          grace[d] = b /\ Cardinality(calls) < MaxCalls /\ calls' = calls \cup {CallOf("ungrace", b, d, "none")}
  /\ UNCHANGED <<row, handoffKeys, sla, ghost, grace, marker, returned, fraud, crashes, disturbed, transfers>>

DropGrace(c) ==
  /\ c \in calls /\ c.op = "ungrace"
  /\ grace' = [grace EXCEPT ![c.driver] = NoBooking]
  /\ Continue(c, "mark")
  /\ UNCHANGED <<row, handoffKeys, sla, ghost, marker, connected, returned, fraud, crashes, disturbed, transfers>>

\* ... for a cancel marker.
SetMarker(c) ==
  /\ c \in calls /\ c.op = "mark"
  /\ marker' = [marker EXCEPT ![c.booking] = TRUE]
  /\ returned' = returned \cup (connected \cap {c.driver})
  /\ Return(c)
  /\ UNCHANGED <<row, handoffKeys, sla, ghost, grace, connected, fraud, crashes, disturbed, transfers>>

\* handleDriverGhostCheck: one marker cancels one check ...
GhostCancelled(b, d) ==
  /\ ghost[b][d] > 0 /\ marker[b]
  /\ ghost' = [ghost EXCEPT ![b][d] = @ - 1]
  /\ marker' = [marker EXCEPT ![b] = FALSE]
  /\ UNCHANGED <<row, handoffKeys, sla, grace, connected, returned, calls, fraud, crashes, disturbed, transfers>>

\* ... and a check that finds none flags the booking.
GhostCheck(b, d) ==
  /\ ghost[b][d] > 0 /\ ~marker[b]
  /\ ghost' = [ghost EXCEPT ![b][d] = @ - 1]
  /\ Flag(b, d, "socket_disconnect")
  /\ UNCHANGED <<row, handoffKeys, sla, grace, marker, connected, returned, fraud, crashes, disturbed, transfers>>

\* The guard saves the row; another that has flagged it meanwhile leaves nothing to write.
FlagSave(c) ==
  LET r == [c.snap EXCEPT !.flagged = TRUE]
  IN /\ c \in calls /\ c.op = "flag"
     /\ IF r = row[c.booking] THEN UNCHANGED <<row, disturbed>> ELSE Write(c, r)
     /\ Continue(c, "incident")
     /\ UNCHANGED <<handoffKeys, guards, fraud, crashes, transfers>>

\* The incident is past unflagging the booking, and about to be saved as cleared.
Leaving(i) == \E a \in resolving : a.of.id = i.id /\ a.of.status = "cleared" /\ a.step = "save"

\* createIncidentAndFreezeWallet: nothing to do if an incident is open ...
IncidentExists(c) ==
  /\ c \in calls /\ c.op = "incident"
  /\ Suspected(c.booking) # {}
  /\ unattended' =
       IF \A i \in Suspected(c.booking) : Leaving(i) THEN unattended \cup {c.booking} ELSE unattended
  /\ Return(c)
  /\ UNCHANGED <<row, handoffKeys, guards, incidents, resolving, frozen, banned, crashes, disturbed,
                 transfers, doubled>>

Opening(b) == {c \in calls : c.booking = b /\ c.op \in {"freeze", "open"}}

FaultyIncidentMissing(c) ==  \* does not look for an open incident
  /\ c \in calls /\ c.op = "incident"
  /\ Continue(c, "freeze")
  /\ doubled' = IF Opening(c.booking) # {} THEN doubled \cup {c.booking} ELSE doubled
  /\ UNCHANGED <<row, handoffKeys, guards, incidents, resolving, frozen, banned, crashes, disturbed,
                 transfers, unattended>>

IncidentMissing(c) ==
  /\ c \in calls /\ c.op = "incident"
  /\ Suspected(c.booking) = {}
  /\ Continue(c, "freeze")
  /\ doubled' = IF Opening(c.booking) # {} THEN doubled \cup {c.booking} ELSE doubled
  /\ UNCHANGED <<row, handoffKeys, guards, incidents, resolving, frozen, banned, crashes, disturbed,
                 transfers, unattended>>

\* ... else the wallet is frozen ...
Freeze(c) ==
  /\ c \in calls /\ c.op = "freeze"
  /\ frozen' = frozen \cup {c.driver}
  /\ Continue(c, "open")
  /\ UNCHANGED <<row, handoffKeys, guards, incidents, resolving, banned, crashes, disturbed, transfers,
                 doubled, unattended>>

\* ... and an incident opened for the driver that the guard named.
OpenIncident(c) ==
  /\ c \in calls /\ c.op = "open"
  /\ incidents' = incidents \cup
       {[id |-> Cardinality(incidents) + 1, booking |-> c.booking, driver |-> c.driver, status |-> "suspected"]}
  /\ Return(c)
  /\ UNCHANGED <<row, handoffKeys, guards, resolving, frozen, banned, crashes, disturbed, transfers,
                 doubled, unattended>>

\* confirmFraud and clearIncident read the incident ...
ResolveRead(i, status) ==
  /\ i \in incidents /\ i.status = "suspected" /\ Cardinality(resolving) < MaxCalls
  /\ resolving' = resolving \cup
       {[of |-> [i EXCEPT !.status = status], step |-> IF status = "confirmed" THEN "ban" ELSE "thaw"]}
  /\ UNCHANGED <<row, handoffKeys, guards, calls, incidents, frozen, banned, crashes, disturbed,
                 transfers, doubled, unattended>>

GoOn(a, step) == resolving' = (resolving \ {a}) \cup {[a EXCEPT !.step = step]}

\* ... confirmFraud bans the driver ...
Ban(a) ==
  /\ a \in resolving /\ a.step = "ban"
  /\ banned' = banned \cup {a.of.driver}
  /\ GoOn(a, "cancel")
  /\ UNCHANGED <<row, handoffKeys, guards, calls, incidents, frozen, crashes, disturbed, transfers,
                 doubled, unattended>>

\* ... and cancels the booking, in any state ...
CancelAbandoned(a) ==
  /\ a \in resolving /\ a.step = "cancel"
  /\ row' = [row EXCEPT ![a.of.booking].status = "cancelled"]
  /\ GoOn(a, "save")
  /\ UNCHANGED <<handoffKeys, guards, calls, incidents, frozen, banned, crashes, disturbed, transfers,
                 doubled, unattended>>

\* ... clearIncident thaws the wallet ...
Thaw(a) ==
  /\ a \in resolving /\ a.step = "thaw"
  /\ frozen' = frozen \ {a.of.driver}
  /\ GoOn(a, "unflag")
  /\ UNCHANGED <<row, handoffKeys, guards, calls, incidents, banned, crashes, disturbed, transfers,
                 doubled, unattended>>

\* ... and unflags the booking ...
Unflag(a) ==
  /\ a \in resolving /\ a.step = "unflag"
  /\ row' = [row EXCEPT ![a.of.booking].flagged = FALSE]
  /\ GoOn(a, "save")
  /\ UNCHANGED <<handoffKeys, guards, calls, incidents, frozen, banned, crashes, disturbed, transfers,
                 doubled, unattended>>

\* ... and both save the incident resolved, whatever the other has made of it
\* meanwhile.
SaveIncident(a) ==
  /\ a \in resolving /\ a.step = "save"
  /\ resolving' = resolving \ {a}
  /\ incidents' = {i \in incidents : i.id # a.of.id} \cup {a.of}
  /\ UNCHANGED <<row, handoffKeys, guards, calls, frozen, banned, crashes, disturbed, transfers,
                 doubled, unattended>>

(***************************************************************************)
(* The environment: keys expire, the process restarts.                     *)
(***************************************************************************)

\* TTL of handoff:ID, as long as the delay of its job.
ExpireRequest(b) ==
  /\ handoff[b] # NoDriver
  /\ handoff' = [handoff EXCEPT ![b] = NoDriver]
  /\ UNCHANGED <<row, handoffLock, expiry, guards, calls, fraud, crashes, disturbed, transfers>>

Accepting(b) == {c \in calls : c.booking = b /\ c.op \in {"check", "transfer", "finish", "unlock"}}

FaultyExpireHandoffLock(b) ==  \* the lock has no TTL
  handoffLock[b] # NoDriver /\ FALSE /\ UNCHANGED vars

\* TTL of the lock: 30 s outlive an accept, so only a restart leaves one.
ExpireHandoffLock(b) ==
  /\ handoffLock[b] # NoDriver /\ Accepting(b) = {}
  /\ handoffLock' = [handoffLock EXCEPT ![b] = NoDriver]
  /\ UNCHANGED <<row, handoff, expiry, guards, calls, fraud, crashes, disturbed, transfers>>

\* TTL of the grace key, as long as the delay of its check, which may come later.
ExpireGrace(d) ==
  /\ grace[d] # NoBooking
  /\ grace' = [grace EXCEPT ![d] = NoBooking]
  /\ UNCHANGED <<row, handoffKeys, sla, ghost, marker, connected, returned, calls, fraud, crashes, disturbed, transfers>>

\* TTL of the cancel marker: it outlives the check it is meant for.
ExpireMarker(b) ==
  /\ marker[b] /\ \A d \in Drivers : ghost[b][d] = 0
  /\ marker' = [marker EXCEPT ![b] = FALSE]
  /\ UNCHANGED <<row, handoffKeys, sla, ghost, grace, connected, returned, calls, fraud, crashes, disturbed, transfers>>

FaultyInterrupted(by) == calls  \* all calls come back as jobs

\* Bull runs a job again that a restart cut short; requests and the cron's
\* calls are gone.
Interrupted(by) == {c \in calls : c.by = by}

Crash ==
  /\ crashes < MaxCrashes
  /\ crashes' = crashes + 1
  /\ calls' = {}
  /\ sla' = sla \cup {<<c.booking, c.driver>> : c \in Interrupted("sla_deadline")}
  /\ ghost' = [b \in Bookings |-> [d \in Drivers |->
       ghost[b][d] +
         (IF \E c \in Interrupted("socket_disconnect") : c.booking = b /\ c.driver = d THEN 1 ELSE 0)]]
  /\ resolving' = {}
  /\ disturbed' = disturbed \cup {c.booking : c \in {e \in calls : e.op \in {"queue_sla", "queue_expiry"}}}
  /\ unattended' = unattended \cup {c.booking : c \in {e \in calls : e.op \in {"incident", "freeze", "open"}}}
  /\ UNCHANGED <<row, handoffKeys, grace, marker, connected, returned, incidents, frozen, banned, transfers, doubled>>

UserStep ==
  \E b \in Bookings :
    \/ CancelRead(b)
    \/ \E d \in Drivers :
         \/ StartRead(d, b) \/ CompleteRead(d, b)
         \/ RequestHandoff(d, b) \/ AcceptHandoff(d, b) \/ CancelHandoff(d, b)

AdminStep ==
  \/ \E b \in Bookings : AdminCancelRead(b) \/ \E d \in Drivers : Reassign(b, d)
  \/ \E i \in incidents, status \in {"confirmed", "cleared"} : ResolveRead(i, status)
  \/ \E a \in resolving :
       Ban(a) \/ CancelAbandoned(a) \/ Thaw(a) \/ Unflag(a) \/ SaveIncident(a)

\* A handler that has awaited goes on.
CallStep(c) ==
  \/ StartSave(c) \/ QueueSla(c) \/ CompleteSave(c) \/ CancelSave(c) \/ AdminCancelWrite(c)
  \/ StoreHandoff(c) \/ QueueExpiry(c) \/ LockHandoff(c) \/ HandoffLocked(c) \/ CheckHandoff(c)
  \/ RefuseHandoff(c) \/ TransferHandoff(c) \/ FinishHandoff(c) \/ UnlockHandoff(c) \/ WithdrawHandoff(c)
  \/ SetGrace(c) \/ QueueGhost(c) \/ DropGrace(c) \/ SetMarker(c)
  \/ FlagSave(c) \/ IncidentExists(c) \/ IncidentMissing(c) \/ Freeze(c) \/ OpenIncident(c)

JobStep(b, d) == ExpireHandoff(b, d) \/ SlaBreach(b, d) \/ GhostCancelled(b, d) \/ GhostCheck(b, d)

EnvStep ==
  \/ \E d \in Drivers : Disconnect(d) \/ Reconnect(d) \/ ExpireGrace(d)
  \/ \E b \in Bookings : GhostCron(b) \/ ExpireRequest(b) \/ ExpireHandoffLock(b) \/ ExpireMarker(b)
  \/ Crash

Next ==
  \/ UserStep
  \/ AdminStep
  \/ \E c \in calls : CallStep(c)
  \/ \E b \in Bookings, d \in Drivers : JobStep(b, d)
  \/ EnvStep

Spec == Init /\ [][Next]_vars

\* Bull runs every due job, an awaited call answers, Redis drops an expired lock.
Fairness ==
  /\ \A b \in Bookings, d \in Drivers :
       WF_vars(ExpireHandoff(b, d)) /\ WF_vars(SlaBreach(b, d))
  /\ \A b \in Bookings, op \in Op :
       WF_vars(\E c \in calls : c.booking = b /\ c.op = op /\ CallStep(c))
  /\ \A b \in Bookings : WF_vars(ExpireHandoffLock(b))

FairSpec == Spec /\ Fairness

(***************************************************************************)
(* Properties.                                                             *)
(***************************************************************************)

\* Every variable has its type.
TypeOK ==
  /\ row \in [Bookings -> Row]
  /\ handoff \in [Bookings -> Drivers \cup {NoDriver}]
  /\ handoffLock \in [Bookings -> Drivers \cup {NoDriver}]
  /\ expiry \subseteq Bookings \X Drivers
  /\ sla \subseteq Bookings \X Drivers
  /\ ghost \in [Bookings -> [Drivers -> Nat]]
  /\ grace \in [Drivers -> Bookings \cup {NoBooking}]
  /\ marker \in [Bookings -> BOOLEAN]
  /\ connected \subseteq Drivers /\ returned \subseteq Drivers
  /\ calls \subseteq Call
  /\ incidents \subseteq Incident
  /\ resolving \subseteq Resolution
  /\ frozen \subseteq Drivers
  /\ banned \subseteq Drivers
  /\ crashes \in Nat
  /\ disturbed \subseteq Bookings
  /\ transfers \in [Bookings -> Nat]
  /\ doubled \subseteq Bookings /\ unattended \subseteq Bookings

\* A delivery changes hands at most once, by one acceptHandoff past the lock at a
\* time, although acceptHandoff reads the request before it takes the lock, and
\* requests are withdrawn, expire and are made again: the count is read again
\* under the lock.  Only a handler that saves a row read before the handoff
\* undoes the first.
OneTransfer ==
  /\ \A b \in Bookings \ disturbed : transfers[b] <= 1
  /\ \A b \in Bookings : \A c, e \in Accepting(b) : c = e

\* Every delivery under way has its SLA job ahead, or has been flagged or
\* investigated already, or is being flagged: reassignments, handoffs, clearings
\* and restarts leave none without a guard, unless the restart came between
\* startTrip's save and its job.
Guarding(b) == {c \in calls : c.booking = b /\ c.op \in {"flag", "queue_sla"}}
OngoingWatched ==
  \A b \in Bookings \ disturbed : row[b].status = "ongoing" =>
    \/ \E d \in Drivers : <<b, d>> \in sla
    \/ Guarding(b) # {} \/ row[b].flagged
    \/ \E i \in incidents : i.booking = b

\* A flagged booking is under investigation, or a guard that flagged it is about to
\* open the incident: however many guards find it unflagged at once, and whatever
\* admins confirm and clear meanwhile.  Two ways out are the code's: a restart, as
\* the job that runs again finds the flag, and an incident found open by a guard
\* while clearIncident, past unflagging the booking, is about to save it.  The
\* guards that overlap open one incident unless two of them look for it before
\* either inserts it.
Investigating(b) == {c \in calls : c.booking = b /\ c.op \in {"incident", "freeze", "open"}}
FlaggedIsInvestigated ==
  /\ \A b \in Bookings \ doubled : \A i, j \in Suspected(b) : i = j
  /\ \A b \in Bookings \ (disturbed \cup unattended) :
       row[b].flagged =>
         Investigating(b) # {} \/ \E i \in incidents : i.booking = b /\ i.status # "cleared"

\* A delivery that has ended stays as it ended unless an admin reassigns it or
\* confirms fraud, or a handler writes a row it read before the end.
Ended == {"completed", "cancelled"}
EndedStaysEnded ==
  [][\A b \in Bookings :
       row[b].status \in Ended /\ row'[b].status # row[b].status =>
         \/ b \in disturbed'
         \/ row'[b].status = "driver_assigned"
         \/ \E a \in resolving \ resolving' : a.of.booking = b /\ a.step = "cancel"]_vars

\* A handoff request ends by its job (or is accepted or withdrawn) and need not
\* wait for its TTL, although the job of an earlier request may have removed a
\* later one and a restart may cut acceptHandoff short.
HandoffEnds ==
  \A b \in Bookings : handoff[b] # NoDriver ~> handoff[b] = NoDriver \/ b \in disturbed

\* No booking stays locked against handoffs.
HandoffLockReleased == \A b \in Bookings : handoffLock[b] # NoDriver ~> handoffLock[b] = NoDriver

\* A delivery does not stay under way for ever unnoticed.
DeliveryEndsOrIsFlagged ==
  \A b \in Bookings :
    row[b].status = "ongoing" ~>
      row[b].status # "ongoing" \/ row[b].flagged \/ b \in disturbed \/ \E i \in incidents : i.booking = b

(***************************************************************************)
(* What comments of the code say of it and the code does not keep.         *)
(***************************************************************************)

\* "If the driver reconnected within the grace window, a cancel marker was set.
\* Respect it - do not flag a reconnected driver."
ReconnectedNotFlagged ==
  [][\A c \in calls' \ calls : c.op = "flag" /\ c.by = "socket_disconnect" => c.driver \notin returned]_vars
=============================================================================
