------------------------------ MODULE Dispatch ------------------------------
(***************************************************************************)
(* The offer side of a booking: a customer's offer lives only in Redis     *)
(* while drivers are searched for, prompted one by one, then in broadcast, *)
(* until one accepts (a booking row is inserted), the customer cancels or  *)
(* a timer ends the search.                                                *)
(*                                                                         *)
(* Every handler is an async function of booking.service.ts.  A handler    *)
(* is split in two steps where it reads Redis, awaits, and writes Redis on *)
(* the strength of what it read; the state between the two steps is a      *)
(* record of "tasks" (dispatch handlers) or a stage of "call" (an accept). *)
(* Runs of writes with no read between them are one step.                  *)
(*                                                                         *)
(* A definition named Faulty... is a variant no specification uses: the    *)
(* definition after it with one plausible mistake, kept to show that a     *)
(* property notices the mistake.                                           *)
(***************************************************************************)
EXTENDS Integers, FiniteSets

CONSTANTS
  Offers,         \* offer ids (randomUUID in create)
  Drivers,        \* user ids of drivers
  NoDriver,       \* an absent Redis key whose value would be a driver
  NoOffer,        \* an absent offer:ID key
  MaxAttempts,    \* settings.max_search_attempts
  CoinsToRedeem,  \* coins_to_redeem of every offer (0: none)
  InitialCoins,   \* the customer's balance; one customer owns every offer
  Faults,         \* which calls may throw: "insert", "publish"; "slow": an
                  \* accept may outlive the TTL of its lock
  MaxRedeemFaults, \* bound: UPDATEs of redeemCoins that throw
  MaxFare,        \* bound: fares are 1..MaxFare
  MaxRetries,     \* bound: retrySearch calls per offer (the code has none)
  RetryEarly,     \* bound: may a customer retry a search that has not timed out
  MaxBookings,    \* bound: no call to accept begins once that many rows exist
  MaxCrashes      \* bound: restarts of the server process

VARIABLES
  issued,           \* offer ids drawn so far; an id is never drawn twice
  offer,            \* offer:ID
  holder,           \* offer:ID:offer, the driver prompted now
  excluded,         \* offer:ID:excluded, {} when the key is absent
  broadcast,        \* offer:ID:broadcast
  broadcastDrivers, \* offer:ID:broadcast_drivers
  lock,             \* offer:ID:accepting
  acceptedAs,       \* offer:accepted:ID, 0 when absent
  jobs,             \* Bull queue booking_assignment, and calls not yet begun
  tasks,            \* dispatch handlers between their read and their write
  call,             \* stage of acceptBooking(offer, driver)
  snap,             \* the fare in the offerData that call has read
  bookings,         \* rows of table bookings
  coins,            \* users.coins of the customer
  crashes,          \* restarts so far
  \* The following three exist for properties only.
  disturbed,        \* offers a late dispatch write, a restart, a fault after
                    \* the insert or an outlived lock has touched
  revived,          \* offers that were gone or had timed out when a fare update
                    \* wrote them back as it had read them
  unfounded         \* redemptions whose UPDATE threw: their refund has no debit

redis == <<offer, holder, excluded, broadcast, broadcastDrivers, lock, acceptedAs>>
vars == <<issued, redis, jobs, tasks, call, snap, bookings, coins, crashes, disturbed, revived, unfounded>>

Fares == 1..MaxFare
OfferData == [fare : Fares, scheduled : BOOLEAN, timedOut : BOOLEAN, retries : Nat]
MaybeOffer == OfferData \cup {NoOffer}
MaybeDriver == Drivers \cup {NoDriver}

\* Payload of a queued job.  round and src keep apart two jobs of equal
\* payload, as Bull's job ids do; no handler reads them.
Job == [kind : {"search_driver", "offer_timeout", "broadcast_timeout", "search_timeout"},
        offer : Offers, driver : MaybeDriver, excluded : SUBSET Drivers,
        attempt : Nat, round : Nat, src : {"create", "retry", "reject", "timeout", "search"}]

\* A handler past its first read: what it read is in data.
Task == [kind : {"pick", "broadcast", "withdraw", "reject", "expire", "fare", "retry"},
         job : Job, data : MaybeOffer, fare : Fares]

Stage == {"idle", "lock", "guard", "redeem", "insert", "publish", "cleanup", "refund"}
Booking == [id : Nat, offer : Offers, driver : Drivers, fare : 0..MaxFare, active : BOOLEAN]

ASSUME ConstantsAssumption ==
  /\ IsFiniteSet(Drivers) /\ NoDriver \notin Drivers
  /\ NoOffer \notin OfferData
  /\ MaxAttempts \in Nat /\ CoinsToRedeem \in Nat /\ InitialCoins \in Nat
  /\ MaxFare \in Nat \ {0} /\ MaxRetries \in Nat /\ RetryEarly \in BOOLEAN /\ MaxBookings \in Nat /\ MaxCrashes \in Nat
  /\ MaxRedeemFaults \in Nat
  /\ Faults \subseteq {"insert", "publish", "slow"}

Live(o) == offer[o] # NoOffer
BookingsOf(o) == {b \in bookings : b.offer = o}
ActiveOf(d) == {b \in bookings : b.driver = d /\ b.active}
Free == {d \in Drivers : ActiveOf(d) = {}}

JobOf(kind, o, d, ex, att, round, src) ==
  [kind |-> kind, offer |-> o, driver |-> d, excluded |-> ex,
   attempt |-> att, round |-> round, src |-> src]
TaskOf(kind, j, data, fare) == [kind |-> kind, job |-> j, data |-> data, fare |-> fare]

SearchTimeoutJob(o, round, src) == JobOf("search_timeout", o, NoDriver, {}, 0, round, src)
FirstSearch(o, round, src) == JobOf("search_driver", o, NoDriver, {}, 1, round, src)

Init ==
  /\ issued = {}
  /\ offer = [o \in Offers |-> NoOffer]
  /\ holder = [o \in Offers |-> NoDriver]
  /\ excluded = [o \in Offers |-> {}]
  /\ broadcast = [o \in Offers |-> FALSE]
  /\ broadcastDrivers = [o \in Offers |-> {}]
  /\ lock = [o \in Offers |-> NoDriver]
  /\ acceptedAs = [o \in Offers |-> 0]
  /\ jobs = {} /\ tasks = {}
  /\ call = [d \in Drivers |-> [o \in Offers |-> "idle"]]
  /\ snap = [d \in Drivers |-> [o \in Offers |-> 0]]
  /\ bookings = {} /\ coins = InitialCoins /\ crashes = 0
  /\ disturbed = {} /\ revived = {} /\ unfounded = 0

(***************************************************************************)
(* Customer calls.                                                         *)
(***************************************************************************)

\* create: coins are only checked here, they are deducted at acceptance.  An
\* INSTANT offer gets its timer and the un-awaited processDriverSearch, a call
\* that has not begun yet; for a SCHEDULED one create starts nothing.
Create(o, f, scheduled) ==
  /\ o \notin issued
  /\ issued' = issued \cup {o}
  /\ coins >= CoinsToRedeem
  /\ offer' = [offer EXCEPT ![o] =
                 [fare |-> f, scheduled |-> scheduled, timedOut |-> FALSE, retries |-> 0]]
  /\ jobs' = jobs \cup
       (IF scheduled THEN {} ELSE {SearchTimeoutJob(o, 0, "create"), FirstSearch(o, 0, "create")})
  /\ UNCHANGED <<holder, excluded, broadcast, broadcastDrivers, lock, acceptedAs, tasks,
                 call, snap, bookings, coins, crashes, disturbed, revived, unfounded>>

\* updateOfferFare reads the offer ...
UpdateFareRead(o, f) ==
  /\ Live(o) /\ f > offer[o].fare
  /\ tasks' = tasks \cup {TaskOf("fare", SearchTimeoutJob(o, 0, "create"), offer[o], f)}
  /\ UNCHANGED <<issued, redis, jobs, call, snap, bookings, coins, crashes, disturbed, revived, unfounded>>

\* A fare update is about to bring back an offer that is gone, or a search that
\* has timed out.
Revives(t) ==
  offer[t.job.offer] = NoOffer \/ (offer[t.job.offer].timedOut /\ ~t.data.timedOut)

\* ... and writes back all of it with the new fare.
UpdateFareWrite(t) ==
  /\ t \in tasks /\ t.kind = "fare"
  /\ offer' = [offer EXCEPT ![t.job.offer] = [t.data EXCEPT !.fare = t.fare]]
  /\ revived' = revived \cup {o \in {t.job.offer} : Revives(t)}
  /\ tasks' = tasks \ {t}
  /\ UNCHANGED <<issued, holder, excluded, broadcast, broadcastDrivers, lock, acceptedAs, jobs,
                 call, snap, bookings, coins, crashes, disturbed, unfounded>>

\* retrySearch: neither the retry count nor the new fare is checked, and the
\* offer need not have timed out.
RetryRead(o, f) ==
  /\ Live(o) /\ offer[o].retries < MaxRetries /\ (offer[o].timedOut \/ RetryEarly)
  /\ tasks' = tasks \cup {TaskOf("retry", SearchTimeoutJob(o, 0, "retry"), [offer[o] EXCEPT !.timedOut = FALSE], f)}
  /\ UNCHANGED <<issued, redis, jobs, call, snap, bookings, coins, crashes, disturbed, revived, unfounded>>

FaultyRetryWrite(t) ==  \* no timer for the new search
  /\ t \in tasks /\ t.kind = "retry"
  /\ offer' = [offer EXCEPT ![t.job.offer] = [t.data EXCEPT !.fare = t.fare, !.retries = @ + 1]]
  /\ jobs' = jobs \cup {FirstSearch(t.job.offer, t.data.retries + 1, "retry")}
  /\ tasks' = tasks \ {t}
  /\ UNCHANGED <<issued, excluded, broadcast, broadcastDrivers, holder, lock, acceptedAs, call,
                 snap, bookings, coins, crashes, disturbed, revived, unfounded>>

\* Writes the offer back as searching, drops :excluded, :broadcast and
\* :broadcast_drivers (not :offer), and starts a timer and a search.
RetryWrite(t) ==
  LET o == t.job.offer
      round == t.data.retries + 1
  IN /\ t \in tasks /\ t.kind = "retry"
     /\ offer' = [offer EXCEPT ![o] = [t.data EXCEPT !.fare = t.fare, !.retries = round]]
     /\ excluded' = [excluded EXCEPT ![o] = {}]
     /\ broadcast' = [broadcast EXCEPT ![o] = FALSE]
     /\ broadcastDrivers' = [broadcastDrivers EXCEPT ![o] = {}]
     /\ jobs' = jobs \cup {SearchTimeoutJob(o, round, "retry"), FirstSearch(o, round, "retry")}
     /\ tasks' = tasks \ {t}
     /\ UNCHANGED <<issued, holder, lock, acceptedAs, call, snap, bookings, coins, crashes,
                    disturbed, revived, unfounded>>

FaultyCleanupOffer(o) ==  \* forgets :broadcast
  /\ offer' = [offer EXCEPT ![o] = NoOffer]
  /\ holder' = [holder EXCEPT ![o] = NoDriver]
  /\ excluded' = [excluded EXCEPT ![o] = {}]
  /\ UNCHANGED <<broadcast, broadcastDrivers>>

\* cleanupOffer.  The lock and offer:accepted:ID stay: the seventh key it
\* deletes, offer:ID:accepted, is never set.
CleanupOffer(o) ==
  /\ offer' = [offer EXCEPT ![o] = NoOffer]
  /\ holder' = [holder EXCEPT ![o] = NoDriver]
  /\ excluded' = [excluded EXCEPT ![o] = {}]
  /\ broadcast' = [broadcast EXCEPT ![o] = FALSE]
  /\ broadcastDrivers' = [broadcastDrivers EXCEPT ![o] = {}]

\* cancelOffer, and cancel with an offer id.  This step is the cleanup; the offer
\* was found by a read at any moment before, since an id drawn was once live.
CancelOffer(o) ==
  /\ o \in issued
  /\ CleanupOffer(o)
  /\ UNCHANGED <<issued, lock, acceptedAs, jobs, tasks, call, snap, bookings, coins, crashes,
                 disturbed, revived, unfounded>>

(***************************************************************************)
(* Search, prompts and broadcast.                                          *)
(***************************************************************************)

\* processDriverSearch up to its first await on the database.  Past the last
\* attempt it goes on as broadcastBookingToNearby, which reads the offer again
\* at once.
SearchBegin(j) ==
  /\ j \in jobs /\ j.kind = "search_driver"
  /\ jobs' = jobs \ {j}
  /\ LET o == j.offer IN
       IF Live(o) /\ ~offer[o].timedOut
       THEN tasks' = tasks \cup
              {TaskOf(IF j.attempt > MaxAttempts THEN "broadcast" ELSE "pick", j, NoOffer, 1)}
       ELSE UNCHANGED tasks
  /\ UNCHANGED <<issued, redis, call, snap, bookings, coins, crashes, disturbed, revived, unfounded>>

\* A dispatch key written for an offer that already has a booking.
Late(o) == IF BookingsOf(o) = {} THEN {} ELSE {o}

\* findNearbyDrivers has answered: the nearest eligible driver is prompted.
\* Which drivers are near, online and fresh is not modelled: any free driver
\* may be nearest.
SearchPrompt(t, d) ==
  LET j == t.job  o == j.offer  ex == j.excluded \cup {d}
  IN /\ t \in tasks /\ t.kind = "pick"
     /\ d \in Free \ j.excluded
     /\ holder' = [holder EXCEPT ![o] = d]
     /\ excluded' = [excluded EXCEPT ![o] = ex]
     /\ jobs' = jobs \cup {JobOf("offer_timeout", o, d, ex, j.attempt + 1, j.round, "search")}
     /\ tasks' = tasks \ {t}
     /\ disturbed' = disturbed \cup Late(o)
     /\ UNCHANGED <<issued, offer, broadcast, broadcastDrivers, lock, acceptedAs, call, snap,
                    bookings, coins, crashes, revived, unfounded>>

\* Nobody eligible is near: on to broadcastBookingToNearby, which re-reads the
\* offer but not its timed_out flag.
SearchExhausted(t) ==
  /\ t \in tasks /\ t.kind = "pick"
  /\ tasks' = (tasks \ {t}) \cup
                (IF Live(t.job.offer) THEN {[t EXCEPT !.kind = "broadcast"]} ELSE {})
  /\ UNCHANGED <<issued, redis, jobs, call, snap, bookings, coins, crashes, disturbed, revived, unfounded>>

\* broadcastBookingToNearby after its await: near is findNearbyDrivers' answer.
Broadcast(t, near) ==
  LET o == t.job.offer
  IN /\ t \in tasks /\ t.kind = "broadcast"
     /\ near \subseteq Free
     /\ tasks' = tasks \ {t}
     /\ \/ /\ near = {}
           /\ UNCHANGED <<redis, jobs, disturbed, revived, unfounded>>
        \/ /\ near # {}
           /\ broadcast' = [broadcast EXCEPT ![o] = TRUE]
           /\ broadcastDrivers' = [broadcastDrivers EXCEPT ![o] = near]
           /\ jobs' = jobs \cup {JobOf("broadcast_timeout", o, NoDriver, {}, 0, t.job.round, "search")}
           /\ disturbed' = disturbed \cup Late(o)
           /\ UNCHANGED <<offer, holder, excluded, lock, acceptedAs>>
     /\ UNCHANGED <<issued, call, snap, bookings, coins, crashes, revived, unfounded>>

\* The tail of handleOfferTimeout and rejectBooking: forget the prompt and,
\* when go holds, queue the next search.
Withdraw(t, go, att, src) ==
  LET o == t.job.offer
  IN /\ t \in tasks
     /\ holder' = [holder EXCEPT ![o] = NoDriver]
     /\ excluded' = [excluded EXCEPT ![o] = {}]
     /\ jobs' = jobs \cup
          (IF go THEN {JobOf("search_driver", o, NoDriver, t.job.excluded, att, t.job.round, src)} ELSE {})
     /\ tasks' = tasks \ {t}
     /\ UNCHANGED <<issued, offer, broadcast, broadcastDrivers, lock, acceptedAs, call, snap,
                    bookings, coins, crashes, disturbed, revived, unfounded>>

FaultyOfferTimeoutRead(j) ==  \* returns on timed_out before withdrawing
  /\ j \in jobs /\ j.kind = "offer_timeout"
  /\ jobs' = jobs \ {j}
  /\ tasks' = tasks \cup
       (IF Live(j.offer) /\ ~offer[j.offer].timedOut /\ holder[j.offer] = j.driver
        THEN {TaskOf("withdraw", j, offer[j.offer], 1)} ELSE {})
  /\ UNCHANGED <<issued, redis, call, snap, bookings, coins, crashes, disturbed, revived, unfounded>>

\* handleOfferTimeout: only the driver still prompted loses the prompt.
OfferTimeoutRead(j) ==
  /\ j \in jobs /\ j.kind = "offer_timeout"
  /\ jobs' = jobs \ {j}
  /\ tasks' = tasks \cup
       (IF Live(j.offer) /\ holder[j.offer] = j.driver
        THEN {TaskOf("withdraw", j, offer[j.offer], 1)} ELSE {})
  /\ UNCHANGED <<issued, redis, call, snap, bookings, coins, crashes, disturbed, revived, unfounded>>

OfferTimeoutWrite(t) ==
  t.kind = "withdraw" /\ Withdraw(t, ~t.data.timedOut, t.job.attempt, "timeout")

\* rejectBooking by the prompted driver.
RejectRead(d, o) ==
  LET ex == IF excluded[o] = {} THEN {d} ELSE excluded[o]
  IN /\ Live(o) /\ holder[o] = d
     /\ tasks' = tasks \cup
          {TaskOf("reject", JobOf("search_driver", o, d, ex, 0, 0, "reject"), NoOffer, 1)}
     /\ UNCHANGED <<issued, redis, jobs, call, snap, bookings, coins, crashes, disturbed, revived, unfounded>>

FaultyRejectWrite(t) ==  \* off by one
  t.kind = "reject" /\ Withdraw(t, TRUE, Cardinality(t.job.excluded), "reject")

RejectWrite(t) ==
  t.kind = "reject" /\ Withdraw(t, TRUE, Cardinality(t.job.excluded) + 1, "reject")

\* handleSearchTimeout: the offer as it was read ...
SearchTimeoutRead(j) ==
  /\ j \in jobs /\ j.kind = "search_timeout"
  /\ jobs' = jobs \ {j}
  /\ tasks' = tasks \cup
       (IF Live(j.offer) THEN {TaskOf("expire", j, [offer[j.offer] EXCEPT !.timedOut = TRUE], 1)} ELSE {})
  /\ UNCHANGED <<issued, redis, call, snap, bookings, coins, crashes, disturbed, revived, unfounded>>

FaultySearchTimeoutWrite(t) ==  \* does not mark the offer
  LET o == t.job.offer
  IN /\ t \in tasks /\ t.kind = "expire"
     /\ holder' = [holder EXCEPT ![o] = NoDriver]
     /\ excluded' = [excluded EXCEPT ![o] = {}]
     /\ broadcast' = [broadcast EXCEPT ![o] = FALSE]
     /\ broadcastDrivers' = [broadcastDrivers EXCEPT ![o] = {}]
     /\ tasks' = tasks \ {t}
     /\ UNCHANGED <<issued, offer, lock, acceptedAs, jobs, call, snap, bookings, coins, crashes,
                    disturbed, revived, unfounded>>

\* ... is written back, timed out, once every prompt is withdrawn.
SearchTimeoutWrite(t) ==
  LET o == t.job.offer
  IN /\ t \in tasks /\ t.kind = "expire"
     /\ offer' = [offer EXCEPT ![o] = t.data]
     /\ holder' = [holder EXCEPT ![o] = NoDriver]
     /\ excluded' = [excluded EXCEPT ![o] = {}]
     /\ broadcast' = [broadcast EXCEPT ![o] = FALSE]
     /\ broadcastDrivers' = [broadcastDrivers EXCEPT ![o] = {}]
     /\ tasks' = tasks \ {t}
     /\ UNCHANGED <<issued, lock, acceptedAs, jobs, call, snap, bookings, coins, crashes,
                    disturbed, revived, unfounded>>

\* handleBroadcastTimeout: whatever search is under way, the offer goes.  This
\* step is the cleanup, or the return when the offer is not found; the read that
\* decided was made at any moment since the job was queued.
BroadcastTimeout(j) ==
  /\ j \in jobs /\ j.kind = "broadcast_timeout"
  /\ jobs' = jobs \ {j}
  /\ \/ CleanupOffer(j.offer)
     \/ ~Live(j.offer) /\ UNCHANGED <<offer, holder, excluded, broadcast, broadcastDrivers>>
  /\ UNCHANGED <<issued, lock, acceptedAs, tasks, call, snap, bookings, coins, crashes,
                 disturbed, revived, unfounded>>

(***************************************************************************)
(* acceptBooking.                                                          *)
(***************************************************************************)

GoTo(d, o, s) == call' = [call EXCEPT ![d][o] = s]
Release(o) == lock' = [lock EXCEPT ![o] = NoDriver]
Finish(d, o) ==
  /\ GoTo(d, o, "idle")
  /\ snap' = [snap EXCEPT ![d][o] = 0]

\* The driver's wallet is not suspended; the offer is read before the lock is
\* taken and never read again.
AcceptRead(d, o) ==
  /\ call[d][o] = "idle" /\ Live(o) /\ Cardinality(bookings) < MaxBookings
  /\ GoTo(d, o, "lock")
  /\ snap' = [snap EXCEPT ![d][o] = offer[o].fare]
  /\ UNCHANGED <<issued, redis, jobs, tasks, bookings, coins, crashes, disturbed, revived, unfounded>>

\* SET NX succeeds ...
AcceptLock(d, o) ==
  /\ call[d][o] = "lock" /\ lock[o] = NoDriver
  /\ lock' = [lock EXCEPT ![o] = d]
  /\ GoTo(d, o, "guard")
  /\ UNCHANGED <<issued, offer, holder, excluded, broadcast, broadcastDrivers, acceptedAs, jobs,
                 tasks, snap, bookings, coins, crashes, disturbed, revived, unfounded>>

FaultyAcceptLocked(d, o) ==  \* the loser frees the winner's lock
  /\ call[d][o] = "lock" /\ lock[o] # NoDriver
  /\ Release(o) /\ Finish(d, o)
  /\ UNCHANGED <<issued, offer, holder, excluded, broadcast, broadcastDrivers, acceptedAs, jobs,
                 tasks, bookings, coins, crashes, disturbed, revived, unfounded>>

\* ... or another accept of the offer is under way.
AcceptLocked(d, o) ==
  /\ call[d][o] = "lock" /\ lock[o] # NoDriver
  /\ Finish(d, o)
  /\ UNCHANGED <<issued, redis, jobs, tasks, bookings, coins, crashes, disturbed, revived, unfounded>>

\* In broadcast any approved driver will do; otherwise the prompted one.
MayAccept(d, o) == broadcast[o] \/ holder[o] = d

\* Driver and vehicle are approved, the driver has no active booking and the
\* offer is theirs to take.
AcceptGuard(d, o) ==
  /\ call[d][o] = "guard"
  /\ ActiveOf(d) = {} /\ MayAccept(d, o)
  /\ GoTo(d, o, IF CoinsToRedeem > 0 THEN "redeem" ELSE "insert")
  /\ UNCHANGED <<issued, redis, jobs, tasks, snap, bookings, coins, crashes, disturbed, revived, unfounded>>

\* One of those checks fails (approval may fail in any state).
AcceptRefuse(d, o) ==
  /\ call[d][o] = "guard"
  /\ Release(o) /\ Finish(d, o)
  /\ UNCHANGED <<issued, offer, holder, excluded, broadcast, broadcastDrivers, acceptedAs, jobs, tasks,
                 bookings, coins, crashes, disturbed, revived, unfounded>>

\* The catch block frees the lock ...
Abort(d, o) ==
  /\ Release(o) /\ GoTo(d, o, "refund")
  /\ snap' = [snap EXCEPT ![d][o] = 0]

FaultyAcceptRefund(d, o) ==  \* the coins are not given back
  /\ call[d][o] = "refund"
  /\ GoTo(d, o, "idle")
  /\ UNCHANGED <<issued, redis, jobs, tasks, snap, bookings, coins, crashes, disturbed, revived, unfounded>>

\* ... and then gives the coins "back", whether or not they were taken.
AcceptRefund(d, o) ==
  /\ call[d][o] = "refund"
  /\ coins' = coins + CoinsToRedeem
  /\ GoTo(d, o, "idle")
  /\ UNCHANGED <<issued, redis, jobs, tasks, snap, bookings, crashes, disturbed, revived, unfounded>>

\* redeemCoins: one conditional UPDATE.  On a short balance it touches no row
\* and the call goes on all the same: query answers with the pair of rows and
\* count, whose length is never 0.
AcceptRedeem(d, o) ==
  /\ call[d][o] = "redeem"
  /\ coins' = IF coins >= CoinsToRedeem THEN coins - CoinsToRedeem ELSE coins
  /\ GoTo(d, o, "insert")
  /\ UNCHANGED <<issued, redis, jobs, tasks, snap, bookings, crashes, disturbed, revived, unfounded>>

\* The UPDATE itself throws: the catch block does not know that nothing was
\* deducted.  (When the entry after it throws, that is AcceptInsertFails.)
AcceptRedeemFails(d, o) ==
  /\ call[d][o] = "redeem" /\ unfounded < MaxRedeemFaults
  /\ Abort(d, o)
  /\ unfounded' = unfounded + 1
  /\ UNCHANGED <<issued, offer, holder, excluded, broadcast, broadcastDrivers, acceptedAs, jobs,
                 tasks, bookings, coins, crashes, disturbed, revived>>

\* INSERT of the booking with the fare read before the lock.
AcceptInsert(d, o) ==
  /\ call[d][o] = "insert"
  /\ bookings' = bookings \cup
       {[id |-> Cardinality(bookings) + 1, offer |-> o, driver |-> d,
         fare |-> snap[d][o], active |-> TRUE]}
  /\ GoTo(d, o, "publish")
  /\ UNCHANGED <<issued, redis, jobs, tasks, snap, coins, crashes, disturbed, revived, unfounded>>

AcceptInsertFails(d, o) ==
  /\ "insert" \in Faults /\ call[d][o] = "insert"
  /\ Abort(d, o)
  /\ UNCHANGED <<issued, offer, holder, excluded, broadcast, broadcastDrivers, acceptedAs, jobs, tasks,
                 bookings, coins, crashes, disturbed, revived, unfounded>>

\* createdBooking is the driver's latest row; offer:accepted:ID points at it.
AcceptPublish(d, o) ==
  /\ call[d][o] = "publish"
  /\ \E b \in bookings :
       /\ b.driver = d /\ \A c \in bookings : c.driver = d => c.id <= b.id
       /\ acceptedAs' = [acceptedAs EXCEPT ![o] = b.id]
  /\ GoTo(d, o, "cleanup")
  /\ UNCHANGED <<issued, offer, holder, excluded, broadcast, broadcastDrivers, lock, jobs, tasks, snap,
                 bookings, coins, crashes, disturbed, revived, unfounded>>

\* A call after the INSERT throws: the row stays, the catch block still runs.
AcceptPublishFails(d, o) ==
  /\ "publish" \in Faults /\ call[d][o] = "publish"
  /\ Abort(d, o)
  /\ disturbed' = disturbed \cup {o}
  /\ UNCHANGED <<issued, offer, holder, excluded, broadcast, broadcastDrivers, acceptedAs, jobs, tasks,
                 bookings, coins, crashes, revived, unfounded>>

\* The seven deletes; the lock goes last.
AcceptCleanup(d, o) ==
  /\ call[d][o] = "cleanup"
  /\ CleanupOffer(o) /\ Release(o) /\ Finish(d, o)
  /\ UNCHANGED <<issued, acceptedAs, jobs, tasks, bookings, coins, crashes, disturbed, revived, unfounded>>

(***************************************************************************)
(* The environment: trips end, keys expire, the process restarts.          *)
(***************************************************************************)

TripEnds(b) ==
  /\ b \in bookings /\ b.active
  /\ bookings' = (bookings \ {b}) \cup {[b EXCEPT !.active = FALSE]}
  /\ UNCHANGED <<issued, redis, jobs, tasks, call, snap, coins, crashes, disturbed, revived, unfounded>>

\* TTL of offer:ID; the keys of the dispatch may live on.
ExpireOffer(o) ==
  /\ Live(o)
  /\ offer' = [offer EXCEPT ![o] = NoOffer]
  /\ UNCHANGED <<issued, holder, excluded, broadcast, broadcastDrivers, lock, acceptedAs, jobs, tasks,
                 call, snap, bookings, coins, crashes, disturbed, revived, unfounded>>

\* TTL of offer:ID:offer and offer:ID:excluded.
ExpirePrompt(o) ==
  /\ holder[o] # NoDriver
  /\ holder' = [holder EXCEPT ![o] = NoDriver]
  /\ excluded' = [excluded EXCEPT ![o] = {}]
  /\ UNCHANGED <<issued, offer, broadcast, broadcastDrivers, lock, acceptedAs, jobs, tasks,
                 call, snap, bookings, coins, crashes, disturbed, revived, unfounded>>

\* TTL of offer:ID:broadcast and offer:ID:broadcast_drivers.
ExpireBroadcast(o) ==
  /\ broadcast[o]
  /\ broadcast' = [broadcast EXCEPT ![o] = FALSE]
  /\ broadcastDrivers' = [broadcastDrivers EXCEPT ![o] = {}]
  /\ UNCHANGED <<issued, offer, holder, excluded, lock, acceptedAs, jobs, tasks,
                 call, snap, bookings, coins, crashes, disturbed, revived, unfounded>>

Holding == {"guard", "redeem", "insert", "publish", "cleanup"}
HeldBy(o) == {d \in Drivers : call[d][o] \in Holding}

FaultyExpireLock(o) ==  \* the lock has no TTL
  lock[o] # NoDriver /\ FALSE /\ UNCHANGED vars

\* TTL of the accept lock.  30 s outlive an accept unless "slow" is a fault.
ExpireLock(o) ==
  /\ lock[o] # NoDriver
  /\ HeldBy(o) = {} \/ "slow" \in Faults
  /\ Release(o)
  /\ disturbed' = IF HeldBy(o) = {} THEN disturbed ELSE disturbed \cup {o}
  /\ UNCHANGED <<issued, offer, holder, excluded, broadcast, broadcastDrivers, acceptedAs, jobs, tasks,
                 call, snap, bookings, coins, crashes, revived, unfounded>>

\* What Bull runs again after a restart; HTTP calls and un-awaited calls are gone.
Requeued(t) == [t.job EXCEPT !.kind =
  CASE t.kind = "withdraw" -> "offer_timeout"
    [] t.kind = "expire" -> "search_timeout"
    [] OTHER -> "search_driver"]
FromBull(t) ==
  \/ t.kind \in {"withdraw", "expire"}
  \/ t.kind \in {"pick", "broadcast"} /\ t.job.src \in {"timeout", "reject"}

Crash ==
  /\ crashes < MaxCrashes
  /\ crashes' = crashes + 1
  /\ jobs' = {j \in jobs : j.kind = "search_driver" => j.src \in {"timeout", "reject"}}
              \cup {Requeued(t) : t \in {u \in tasks : FromBull(u)}}
  /\ tasks' = {}
  /\ call' = [d \in Drivers |-> [o \in Offers |-> "idle"]]
  /\ snap' = [d \in Drivers |-> [o \in Offers |-> 0]]
  /\ disturbed' = disturbed \cup {o \in Offers : \E d \in Drivers : call[d][o] \in {"publish", "cleanup"}}
  /\ UNCHANGED <<issued, redis, bookings, coins, revived, unfounded>>

CustomerStep ==
  \E o \in Offers :
    \/ \E f \in Fares :
         \/ \E scheduled \in BOOLEAN : Create(o, f, scheduled)
         \/ UpdateFareRead(o, f) \/ RetryRead(o, f)
    \/ CancelOffer(o)

SearchStep ==
  \/ \E j \in jobs :
       SearchBegin(j) \/ OfferTimeoutRead(j) \/ SearchTimeoutRead(j) \/ BroadcastTimeout(j)
  \/ \E t \in tasks :
       \/ UpdateFareWrite(t) \/ RetryWrite(t)
       \/ \E d \in Drivers : SearchPrompt(t, d)
       \/ SearchExhausted(t)
       \/ \E near \in SUBSET Drivers : Broadcast(t, near)
       \/ OfferTimeoutWrite(t) \/ RejectWrite(t) \/ SearchTimeoutWrite(t)

DriverStep(d, o) == AcceptRead(d, o) \/ RejectRead(d, o)

AcceptStep(d, o) ==
  \/ AcceptLock(d, o) \/ AcceptLocked(d, o) \/ AcceptGuard(d, o) \/ AcceptRefuse(d, o)
  \/ AcceptRedeem(d, o) \/ AcceptRedeemFails(d, o)
  \/ AcceptInsert(d, o) \/ AcceptInsertFails(d, o)
  \/ AcceptPublish(d, o) \/ AcceptPublishFails(d, o) \/ AcceptRefund(d, o)
  \/ AcceptCleanup(d, o)

EnvStep ==
  \/ \E b \in bookings : TripEnds(b)
  \/ \E o \in Offers :
       ExpireOffer(o) \/ ExpirePrompt(o) \/ ExpireBroadcast(o) \/ ExpireLock(o)
  \/ Crash

Next ==
  \/ CustomerStep
  \/ SearchStep
  \/ \E d \in Drivers, o \in Offers : DriverStep(d, o) \/ AcceptStep(d, o)
  \/ EnvStep

Spec == Init /\ [][Next]_vars

(***************************************************************************)
(* Fairness: Bull runs every due job and retries a stalled one; an awaited *)
(* call answers; Redis drops an expired lock.  Nothing is assumed of       *)
(* customers, drivers, trips, faults, or of the other keys' TTL.           *)
(***************************************************************************)
JobStep(o) ==
  \E j \in jobs : j.offer = o /\
    (SearchBegin(j) \/ OfferTimeoutRead(j) \/ SearchTimeoutRead(j) \/ BroadcastTimeout(j))

TaskStep(o) ==
  \E t \in tasks : t.job.offer = o /\
    \/ UpdateFareWrite(t) \/ RetryWrite(t)
    \/ \E d \in Drivers : SearchPrompt(t, d)
    \/ SearchExhausted(t)
    \/ \E near \in SUBSET Drivers : Broadcast(t, near)
    \/ OfferTimeoutWrite(t) \/ RejectWrite(t) \/ SearchTimeoutWrite(t)

Fairness ==
  /\ \A o \in Offers : WF_vars(JobStep(o)) /\ WF_vars(TaskStep(o)) /\ WF_vars(ExpireLock(o))
  /\ \A d \in Drivers, o \in Offers : WF_vars(AcceptStep(d, o))

FairSpec == Spec /\ Fairness

(***************************************************************************)
(* Properties.                                                             *)
(***************************************************************************)

\* Every variable has its type (the shape of the Redis values, the queued
\* payloads, the rows and the stages of acceptBooking).
TypeOK ==
  /\ issued \subseteq Offers
  /\ offer \in [Offers -> MaybeOffer]
  /\ holder \in [Offers -> MaybeDriver]
  /\ excluded \in [Offers -> SUBSET Drivers]
  /\ broadcast \in [Offers -> BOOLEAN]
  /\ broadcastDrivers \in [Offers -> SUBSET Drivers]
  /\ lock \in [Offers -> MaybeDriver]
  /\ acceptedAs \in [Offers -> Nat]
  /\ jobs \subseteq Job
  /\ tasks \subseteq Task
  /\ call \in [Drivers -> [Offers -> Stage]]
  /\ snap \in [Drivers -> [Offers -> 0..MaxFare]]
  /\ bookings \subseteq Booking
  /\ coins \in Int
  /\ crashes \in Nat
  /\ disturbed \subseteq Offers
  /\ revived \subseteq Offers
  /\ unfounded \in Nat

\* The SET NX lock serialises acceptances: from the lock to the last delete of
\* acceptBooking at most one driver is at work on an offer, whatever the
\* timers, the searches, the customer and a restart do, as long as no accept
\* outlives the lock's TTL.
AcceptExclusive ==
  \A o \in Offers \ disturbed : \A d, e \in Drivers :
    call[d][o] \in Holding /\ call[e][o] \in Holding => d = e

\* The lock alone does not make acceptance happen once: it is released.  What
\* keeps a second driver out afterwards is that no prompt and no broadcast is
\* left.  So an offer gets a second booking only after one of the four events
\* that "disturbed" records: a search that was still in flight prompted or
\* broadcast after the first row, the server restarted before the cleanup, a
\* call after the INSERT threw, or the lock expired under a slow accept.
OneBookingUnlessDisturbed ==
  \A o \in Offers \ disturbed : \A b, c \in BookingsOf(o) : b.id = c.id

\* The two facts behind them, inductive together: a call past the lock owns
\* it; and once an offer has a row, no other call has passed the guard and,
\* unless the accept is still to clean up, no prompt and no broadcast is left
\* that would let one pass.
LockOwned ==
  \A o \in Offers \ disturbed : \A d \in Drivers : call[d][o] \in Holding => lock[o] = d

BookedIsClosed ==
  \A o \in Offers \ disturbed : BookingsOf(o) # {} =>
    /\ \A d \in Drivers : call[d][o] \notin {"redeem", "insert"}
    /\ \/ \E d \in Drivers : call[d][o] \in {"publish", "cleanup"}
       \/ holder[o] = NoDriver /\ ~broadcast[o]

\* However prompts time out, are rejected twice over or are retried, the
\* attempt counter handed from job to job keeps step with the excluded list:
\* it is the number of drivers already tried plus one, never beyond
\* max_search_attempts + 1, so every search ends in a broadcast.
SearchIsBounded ==
  \A j \in jobs :
    j.kind \in {"search_driver", "offer_timeout"} =>
      /\ j.attempt = Cardinality(j.excluded) + 1
      /\ j.attempt <= MaxAttempts + 1

\* When the balance covers a redemption for each driver and offer, acceptance
\* neither loses nor mints coins: what left the balance is on a booking row, is
\* held by a call between redeemCoins and the INSERT, or is about to be given
\* back by a catch block; a second driver may redeem for the same offer while
\* the first one's refund is still to come, because the lock goes first.  The
\* only coins from nowhere are the refunds of redemptions whose UPDATE threw.  A
\* restart in between may lose what a call holds, and never mints any; a fault
\* after the INSERT gives them back while the row keeps its discount.
CoinsConserved ==
  LET accounted == coins + CoinsToRedeem *
        (Cardinality(bookings) +
         Cardinality({p \in Drivers \X Offers : call[p[1]][p[2]] \in {"insert", "refund"}}))
      whole == InitialCoins + CoinsToRedeem * unfounded
  IN disturbed = {} /\ CoinsToRedeem * Cardinality(Drivers \X Offers) <= InitialCoins =>
       accounted <= whole /\ (crashes = 0 => accounted = whole)

\* The customer's search ends: every search under way is accepted,
\* withdrawn or marked timed out, without relying on the offer's TTL, although
\* a stale job of an earlier search may reach a later one.  What may leave it to
\* the TTL is a fare update that writes the offer back after its timer, and a
\* restart (between the offer and its job, which are one step here).
SearchEnds ==
  \A o \in Offers :
    Live(o) /\ ~offer[o].timedOut /\ ~offer[o].scheduled ~>
      ~Live(o) \/ offer[o].timedOut \/ o \in revived \/ crashes > 0

\* A driver's prompt does not stay on an offer that is still open: it is
\* withdrawn by its timeout job, without relying on its TTL, also when the
\* customer's search times out first (with the same two exceptions).
PromptWithdrawn ==
  \A o \in Offers, d \in Drivers :
    Live(o) /\ holder[o] = d ~>
      ~Live(o) \/ holder[o] # d \/ o \in revived \/ crashes > 0

\* No offer stays locked: every path of acceptBooking frees the lock, and the
\* TTL frees it after a restart in mid-accept.
LockReleased ==
  \A o \in Offers : lock[o] # NoDriver ~> lock[o] = NoDriver

(***************************************************************************)
(* What comments of the code say of it and the code does not keep.         *)
(***************************************************************************)

\* "Atomic check-and-deduct to prevent race conditions": a booking carries the
\* discount only when its coins were there and left the balance.
DiscountsArePaid == coins + CoinsToRedeem * Cardinality(bookings) <= InitialCoins

\* "Atomic race-condition guard": one booking per offer.
OneBookingPerOffer == \A o \in Offers : \A b, c \in BookingsOf(o) : b.id = c.id
=============================================================================
