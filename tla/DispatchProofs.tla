--------------------------- MODULE DispatchProofs ---------------------------
(* Theorems about Dispatch, for every value of its constants. *)
EXTENDS Dispatch, FiniteSetTheorems, TLAPS

\* What the payloads of handlers in flight carry: a read offer where one is
\* written back later.
TasksCarryOffers ==
  \A t \in tasks : t.kind \in {"fare", "retry", "expire", "withdraw"} => t.data \in OfferData

Typed == TypeOK /\ TasksCarryOffers /\ IsFiniteSet(bookings)

\* At start every variable has its type, no handler runs and no row exists.
LEMMA TypedInit == Init => Typed
  <1> SUFFICES ASSUME Init PROVE Typed
    OBVIOUS
  <1>1. TypeOK
    BY ConstantsAssumption DEF Init, TypeOK, MaybeOffer, MaybeDriver, Stage
  <1>2. TasksCarryOffers /\ IsFiniteSet(bookings)
    BY FS_EmptySet DEF Init, TasksCarryOffers
  <1> QED BY <1>1, <1>2 DEF Typed

\* No step of any handler, timer, fault or restart spoils a type, gives a
\* handler an offer it has not read, or makes the set of rows infinite.
LEMMA TypedNext == Typed /\ [Next]_vars => Typed'
  <1> SUFFICES ASSUME Typed, [Next]_vars PROVE Typed'
    OBVIOUS
  <1> USE ConstantsAssumption DEF Typed, TypeOK, TasksCarryOffers, MaybeOffer, MaybeDriver, OfferData,
        Fares, Job, Task, Stage, Booking, redis
  <1>1. ASSUME NEW o \in Offers, NEW f \in Fares, NEW scheduled \in BOOLEAN,
               Create(o, f, scheduled)
        PROVE  Typed'
    BY <1>1 DEF Create, SearchTimeoutJob, FirstSearch, JobOf
  <1>2. ASSUME NEW o \in Offers, NEW f \in Fares,
               UpdateFareRead(o, f)
        PROVE  Typed'
    BY <1>2 DEF UpdateFareRead, TaskOf, SearchTimeoutJob, JobOf, Live
  <1>3. ASSUME NEW o \in Offers, NEW f \in Fares,
               RetryRead(o, f)
        PROVE  Typed'
    <2>1. offer[o] \in OfferData
      BY <1>3 DEF RetryRead, Live
    <2>2. [offer[o] EXCEPT !.timedOut = FALSE] \in OfferData
      BY <2>1
    <2>3. SearchTimeoutJob(o, 0, "retry") \in Job
      BY DEF SearchTimeoutJob, JobOf
    <2>4. TaskOf("retry", SearchTimeoutJob(o, 0, "retry"), [offer[o] EXCEPT !.timedOut = FALSE], f) \in Task
      BY <2>2, <2>3 DEF TaskOf
    <2> QED BY <1>3, <2>2, <2>4 DEF RetryRead, TaskOf
  <1>4. ASSUME NEW o \in Offers,
               CancelOffer(o)
        PROVE  Typed'
    BY <1>4 DEF CancelOffer, CleanupOffer
  <1>5. ASSUME NEW j \in jobs,
               SearchBegin(j)
        PROVE  Typed'
    BY <1>5 DEF SearchBegin, TaskOf
  <1>6. ASSUME NEW j \in jobs,
               OfferTimeoutRead(j)
        PROVE  Typed'
    BY <1>6 DEF OfferTimeoutRead, TaskOf, Live
  <1>7. ASSUME NEW j \in jobs,
               SearchTimeoutRead(j)
        PROVE  Typed'
    <2>1. CASE Live(j.offer)
      <3>1. j \in Job /\ offer[j.offer] \in OfferData
        BY <2>1 DEF Live
      <3>2. [offer[j.offer] EXCEPT !.timedOut = TRUE] \in OfferData
        BY <3>1
      <3>3. TaskOf("expire", j, [offer[j.offer] EXCEPT !.timedOut = TRUE], 1) \in Task
        BY <3>1, <3>2 DEF TaskOf
      <3> QED BY <1>7, <2>1, <3>2, <3>3 DEF SearchTimeoutRead, TaskOf
    <2>2. CASE ~Live(j.offer)
      BY <1>7, <2>2 DEF SearchTimeoutRead
    <2> QED BY <2>1, <2>2
  <1>8. ASSUME NEW j \in jobs,
               BroadcastTimeout(j)
        PROVE  Typed'
    BY <1>8 DEF BroadcastTimeout, CleanupOffer
  <1>9. ASSUME NEW t \in tasks,
               UpdateFareWrite(t)
        PROVE  Typed'
    <2>1. t.data \in OfferData /\ t.fare \in 1..MaxFare
      BY <1>9 DEF UpdateFareWrite
    <2>2. [t.data EXCEPT !.fare = t.fare] \in OfferData
      BY <2>1
    <2> QED BY <1>9, <2>2 DEF UpdateFareWrite
  <1>10. ASSUME NEW t \in tasks,
               RetryWrite(t)
        PROVE  Typed'
    <2> DEFINE round == t.data.retries + 1
    <2>1. t.data \in OfferData /\ t.fare \in 1..MaxFare /\ t.job.offer \in Offers
      BY <1>10 DEF RetryWrite
    <2>2. round \in Nat
      BY <2>1
    <2>3. [t.data EXCEPT !.fare = t.fare, !.retries = round] \in OfferData
      BY <2>1, <2>2
    <2>4. {SearchTimeoutJob(t.job.offer, round, "retry"), FirstSearch(t.job.offer, round, "retry")} \subseteq Job
      BY <2>1, <2>2 DEF SearchTimeoutJob, FirstSearch, JobOf
    <2> QED BY <1>10, <2>1, <2>3, <2>4 DEF RetryWrite
  <1>11. ASSUME NEW t \in tasks, NEW d \in Drivers,
               SearchPrompt(t, d)
        PROVE  Typed'
    BY <1>11 DEF SearchPrompt, JobOf, Late
  <1>12. ASSUME NEW t \in tasks,
               SearchExhausted(t)
        PROVE  Typed'
    <2>1. t \in Task /\ "broadcast" \in {"pick", "broadcast", "withdraw", "reject", "expire", "fare", "retry"}
      OBVIOUS
    <2>2. [t EXCEPT !.kind = "broadcast"] \in Task
      BY <2>1
    <2> QED BY <1>12, <2>2 DEF SearchExhausted
  <1>13. ASSUME NEW t \in tasks, NEW near \in SUBSET Drivers,
               Broadcast(t, near)
        PROVE  Typed'
    <2>1. t.job \in Job /\ t.job.offer \in Offers
      OBVIOUS
    <2>2. JobOf("broadcast_timeout", t.job.offer, NoDriver, {}, 0, t.job.round, "search") \in Job
      BY <2>1 DEF JobOf
    <2>3. CASE near = {}
      BY <1>13, <2>3 DEF Broadcast
    <2>4. CASE near # {}
      BY <1>13, <2>1, <2>2, <2>4 DEF Broadcast, Late
    <2> QED BY <2>3, <2>4
  <1>14. ASSUME NEW t \in tasks,
               OfferTimeoutWrite(t)
        PROVE  Typed'
    BY <1>14 DEF OfferTimeoutWrite, Withdraw, JobOf
  <1>15. ASSUME NEW t \in tasks,
               RejectWrite(t)
        PROVE  Typed'
    <2>1. t.job \in Job /\ t.job.offer \in Offers
      BY <1>15
    <2>2. Cardinality(t.job.excluded) + 1 \in Nat
      <3>1. IsFiniteSet(t.job.excluded)
        BY <2>1, FS_Subset
      <3>2. Cardinality(t.job.excluded) \in Nat
        BY <3>1, FS_CardinalityType
      <3> QED BY <3>2
    <2>3. JobOf("search_driver", t.job.offer, NoDriver, t.job.excluded,
                Cardinality(t.job.excluded) + 1, t.job.round, "reject") \in Job
      BY <2>1, <2>2 DEF JobOf
    <2> QED BY <1>15, <2>1, <2>3 DEF RejectWrite, Withdraw
  <1>16. ASSUME NEW t \in tasks,
               SearchTimeoutWrite(t)
        PROVE  Typed'
    BY <1>16 DEF SearchTimeoutWrite
  <1>17. ASSUME NEW d \in Drivers, NEW o \in Offers,
               AcceptRead(d, o)
        PROVE  Typed'
    BY <1>17 DEF AcceptRead, GoTo, Live
  <1>18. ASSUME NEW d \in Drivers, NEW o \in Offers,
               RejectRead(d, o)
        PROVE  Typed'
    BY <1>18 DEF RejectRead, TaskOf, JobOf
  <1>19. ASSUME NEW d \in Drivers, NEW o \in Offers,
               AcceptLock(d, o)
        PROVE  Typed'
    BY <1>19 DEF AcceptLock, GoTo
  <1>20. ASSUME NEW d \in Drivers, NEW o \in Offers,
               AcceptGuard(d, o)
        PROVE  Typed'
    BY <1>20 DEF AcceptGuard, GoTo
  <1>21. ASSUME NEW d \in Drivers, NEW o \in Offers,
               AcceptRefuse(d, o)
        PROVE  Typed'
    BY <1>21 DEF AcceptRefuse, GoTo, Finish, Release
  <1>22. ASSUME NEW d \in Drivers, NEW o \in Offers,
               AcceptRedeem(d, o)
        PROVE  Typed'
    BY <1>22 DEF AcceptRedeem, GoTo
  <1>23. ASSUME NEW d \in Drivers, NEW o \in Offers,
               AcceptInsert(d, o)
        PROVE  Typed'
    <2> DEFINE b == [id |-> Cardinality(bookings) + 1, offer |-> o, driver |-> d,
                     fare |-> snap[d][o], active |-> TRUE]
    <2>1. Cardinality(bookings) + 1 \in Nat /\ IsFiniteSet(bookings \cup {b})
      <3>1. Cardinality(bookings) \in Nat
        BY FS_CardinalityType
      <3>2. IsFiniteSet(bookings \cup {b})
        BY FS_AddElement
      <3> QED BY <3>1, <3>2
    <2>2. snap[d][o] \in 0..MaxFare
      OBVIOUS
    <2>3. b \in Booking
      BY <2>1, <2>2
    <2> QED BY <1>23, <2>1, <2>3 DEF AcceptInsert, GoTo
  <1>24. ASSUME NEW d \in Drivers, NEW o \in Offers,
               AcceptInsertFails(d, o)
        PROVE  Typed'
    BY <1>24 DEF AcceptInsertFails, GoTo, Finish, Release, Abort
  <1>25. ASSUME NEW d \in Drivers, NEW o \in Offers,
               AcceptPublish(d, o)
        PROVE  Typed'
    BY <1>25 DEF AcceptPublish, GoTo
  <1>26. ASSUME NEW d \in Drivers, NEW o \in Offers,
               AcceptPublishFails(d, o)
        PROVE  Typed'
    BY <1>26 DEF AcceptPublishFails, GoTo, Finish, Release, Abort
  <1>27. ASSUME NEW d \in Drivers, NEW o \in Offers,
               AcceptCleanup(d, o)
        PROVE  Typed'
    BY <1>27 DEF AcceptCleanup, GoTo, Finish, Release, CleanupOffer
  <1>28. ASSUME NEW b \in bookings,
               TripEnds(b)
        PROVE  Typed'
    <2>1. [b EXCEPT !.active = FALSE] \in Booking
      <3>1. b \in Booking
        BY <1>28
      <3> QED BY <3>1
    <2>2. IsFiniteSet((bookings \ {b}) \cup {[b EXCEPT !.active = FALSE]})
      BY FS_RemoveElement, FS_AddElement
    <2> QED BY <1>28, <2>1, <2>2 DEF TripEnds
  <1>29. ASSUME NEW o \in Offers,
               ExpireOffer(o)
        PROVE  Typed'
    BY <1>29 DEF ExpireOffer
  <1>30. ASSUME NEW o \in Offers,
               ExpirePrompt(o)
        PROVE  Typed'
    BY <1>30 DEF ExpirePrompt
  <1>31. ASSUME NEW o \in Offers,
               ExpireLock(o)
        PROVE  Typed'
    BY <1>31 DEF ExpireLock, Release
  <1>32. ASSUME Crash
        PROVE  Typed'
    <2>1. ASSUME NEW t \in tasks PROVE Requeued(t) \in Job
      <3>1. t.job \in Job
        OBVIOUS
      <3> QED BY <3>1 DEF Requeued
    <2> QED BY <1>32, <2>1 DEF Crash
  <1>33. ASSUME NEW d \in Drivers, NEW o \in Offers,
               AcceptLocked(d, o)
        PROVE  Typed'
    BY <1>33 DEF AcceptLocked, Finish, GoTo
  <1>34. ASSUME NEW d \in Drivers, NEW o \in Offers,
               AcceptRedeemFails(d, o)
        PROVE  Typed'
    BY <1>34 DEF AcceptRedeemFails, GoTo, Finish, Release, Abort
  <1>35. CASE UNCHANGED vars
    BY <1>35 DEF vars
  <1>36. ASSUME NEW o \in Offers, ExpireBroadcast(o)
        PROVE  Typed'
    BY <1>36 DEF ExpireBroadcast
  <1>37. ASSUME NEW d \in Drivers, NEW o \in Offers, AcceptRefund(d, o)
        PROVE  Typed'
    BY <1>37 DEF AcceptRefund, GoTo
  <1>a. CASE CustomerStep
    BY <1>a, <1>1, <1>2, <1>3, <1>4 DEF CustomerStep
  <1>b. CASE SearchStep
    BY <1>b, <1>5, <1>6, <1>7, <1>8, <1>9, <1>10, <1>11, <1>12, <1>13, <1>14, <1>15, <1>16 DEF SearchStep
  <1>c. ASSUME NEW d \in Drivers, NEW o \in Offers, DriverStep(d, o) \/ AcceptStep(d, o)
        PROVE  Typed'
    BY <1>c, <1>17, <1>18, <1>19, <1>20, <1>21, <1>22, <1>23, <1>24, <1>25, <1>26, <1>27, <1>33, <1>34, <1>37
       DEF DriverStep, AcceptStep
  <1>d. CASE EnvStep
    BY <1>d, <1>28, <1>29, <1>30, <1>31, <1>32, <1>36 DEF EnvStep
  <1> QED BY <1>a, <1>b, <1>c, <1>d, <1>35 DEF Next

\* Type correctness: no handler, timer, fault or restart leaves a value of the
\* wrong shape in Redis, in the queue, in a row or in a running call.
THEOREM TypeCorrect == Spec => []TypeOK
  <1>1. Spec => []Typed
    BY TypedInit, TypedNext, PTL DEF Spec
  <1>2. Typed => TypeOK
    BY DEF Typed
  <1> QED BY <1>1, <1>2, PTL

-----------------------------------------------------------------------------

\* The inductive invariant of the acceptance protocol.
AcceptInv == LockOwned /\ BookedIsClosed /\ OneBookingUnlessDisturbed

\* Dispatch keys may only be cleared.
OnlyCleared ==
  \A o \in Offers : /\ holder'[o] \in {holder[o], NoDriver}
                    /\ broadcast'[o] => broadcast[o]

\* A step that leaves calls, locks and rows alone and only clears dispatch
\* keys preserves the invariant.
LEMMA QuietStep ==
  ASSUME AcceptInv, UNCHANGED <<call, lock, bookings, disturbed>>, OnlyCleared
  PROVE  AcceptInv'
  <1>1. LockOwned'
    BY DEF AcceptInv, LockOwned
  <1>2. BookedIsClosed'
    BY DEF AcceptInv, BookedIsClosed, OnlyCleared, BookingsOf
  <1>3. OneBookingUnlessDisturbed'
    BY DEF AcceptInv, OneBookingUnlessDisturbed, BookingsOf
  <1> QED BY <1>1, <1>2, <1>3 DEF AcceptInv

\* A search still in flight that writes a prompt or a broadcast for an offer
\* without a row leaves it open; with a row it is recorded in disturbed.
LEMMA DispatchWrite ==
  ASSUME AcceptInv, NEW o \in Offers, UNCHANGED <<call, lock, bookings>>,
         disturbed' = disturbed \cup Late(o),
         \A p \in Offers \ {o} : holder'[p] = holder[p] /\ broadcast'[p] = broadcast[p]
  PROVE  AcceptInv'
  <1>1. LockOwned'
    BY DEF AcceptInv, LockOwned
  <1>2. BookedIsClosed'
    BY DEF AcceptInv, BookedIsClosed, BookingsOf, Late
  <1>3. OneBookingUnlessDisturbed'
    BY DEF AcceptInv, OneBookingUnlessDisturbed, BookingsOf
  <1> QED BY <1>1, <1>2, <1>3 DEF AcceptInv

\* At start nobody is past the lock of an offer and nothing is booked.
LEMMA AcceptInvInit == Init => AcceptInv
  BY DEF Init, AcceptInv, LockOwned, BookedIsClosed, OneBookingUnlessDisturbed, BookingsOf, Holding

\* Each step keeps the three facts about accepting together: a call past the
\* lock owns it, a booked offer is closed to other calls, and one row is there.
LEMMA AcceptInvNext == Typed /\ AcceptInv /\ [Next]_vars => AcceptInv'
  <1> SUFFICES ASSUME Typed, AcceptInv, [Next]_vars PROVE AcceptInv'
    OBVIOUS
  <1> USE DEF redis
  <1> call \in [Drivers -> [Offers -> Stage]] /\ lock \in [Offers -> MaybeDriver]
      /\ holder \in [Offers -> MaybeDriver] /\ broadcast \in [Offers -> BOOLEAN]
      /\ jobs \subseteq Job /\ tasks \subseteq Task /\ NoDriver \notin Drivers
      /\ bookings \subseteq Booking /\ disturbed \subseteq Offers
    BY ConstantsAssumption DEF Typed, TypeOK
  <1>1. ASSUME NEW o \in Offers, NEW f \in Fares, NEW scheduled \in BOOLEAN,
               Create(o, f, scheduled)
        PROVE  AcceptInv'
    <2>1. UNCHANGED <<call, lock, bookings, disturbed>>
      BY <1>1 DEF Create
    <2>2. OnlyCleared
      BY <1>1 DEF OnlyCleared, Create
    <2> QED BY <2>1, <2>2, QuietStep
  <1>2. ASSUME NEW o \in Offers, NEW f \in Fares,
               UpdateFareRead(o, f)
        PROVE  AcceptInv'
    <2>1. UNCHANGED <<call, lock, bookings, disturbed>>
      BY <1>2 DEF UpdateFareRead
    <2>2. OnlyCleared
      BY <1>2 DEF OnlyCleared, UpdateFareRead
    <2> QED BY <2>1, <2>2, QuietStep
  <1>3. ASSUME NEW o \in Offers, NEW f \in Fares,
               RetryRead(o, f)
        PROVE  AcceptInv'
    <2>1. UNCHANGED <<call, lock, bookings, disturbed>>
      BY <1>3 DEF RetryRead
    <2>2. OnlyCleared
      BY <1>3 DEF OnlyCleared, RetryRead
    <2> QED BY <2>1, <2>2, QuietStep
  <1>4. ASSUME NEW o \in Offers,
               CancelOffer(o)
        PROVE  AcceptInv'
    <2>1. UNCHANGED <<call, lock, bookings, disturbed>>
      BY <1>4 DEF CancelOffer, CleanupOffer
    <2>2. OnlyCleared
      BY <1>4 DEF OnlyCleared, CancelOffer, CleanupOffer
    <2> QED BY <2>1, <2>2, QuietStep
  <1>5. ASSUME NEW j \in jobs,
               SearchBegin(j)
        PROVE  AcceptInv'
    <2>1. UNCHANGED <<call, lock, bookings, disturbed>>
      BY <1>5 DEF SearchBegin
    <2>2. OnlyCleared
      BY <1>5 DEF OnlyCleared, SearchBegin
    <2> QED BY <2>1, <2>2, QuietStep
  <1>6. ASSUME NEW j \in jobs,
               OfferTimeoutRead(j)
        PROVE  AcceptInv'
    <2>1. UNCHANGED <<call, lock, bookings, disturbed>>
      BY <1>6 DEF OfferTimeoutRead
    <2>2. OnlyCleared
      BY <1>6 DEF OnlyCleared, OfferTimeoutRead
    <2> QED BY <2>1, <2>2, QuietStep
  <1>7. ASSUME NEW j \in jobs,
               SearchTimeoutRead(j)
        PROVE  AcceptInv'
    <2>1. UNCHANGED <<call, lock, bookings, disturbed>>
      BY <1>7 DEF SearchTimeoutRead
    <2>2. OnlyCleared
      BY <1>7 DEF OnlyCleared, SearchTimeoutRead
    <2> QED BY <2>1, <2>2, QuietStep
  <1>8. ASSUME NEW j \in jobs,
               BroadcastTimeout(j)
        PROVE  AcceptInv'
    <2>1. UNCHANGED <<call, lock, bookings, disturbed>>
      BY <1>8 DEF BroadcastTimeout, CleanupOffer
    <2>2. OnlyCleared
      BY <1>8 DEF OnlyCleared, BroadcastTimeout, CleanupOffer
    <2> QED BY <2>1, <2>2, QuietStep
  <1>9. ASSUME NEW t \in tasks,
               UpdateFareWrite(t)
        PROVE  AcceptInv'
    <2>1. UNCHANGED <<call, lock, bookings, disturbed>>
      BY <1>9 DEF UpdateFareWrite
    <2>2. OnlyCleared
      BY <1>9 DEF OnlyCleared, UpdateFareWrite
    <2> QED BY <2>1, <2>2, QuietStep
  <1>10. ASSUME NEW t \in tasks,
               RetryWrite(t)
        PROVE  AcceptInv'
    <2>1. UNCHANGED <<call, lock, bookings, disturbed>>
      BY <1>10 DEF RetryWrite
    <2>2. OnlyCleared
      BY <1>10 DEF OnlyCleared, RetryWrite
    <2> QED BY <2>1, <2>2, QuietStep
  <1>11. ASSUME NEW t \in tasks,
               SearchExhausted(t)
        PROVE  AcceptInv'
    <2>1. UNCHANGED <<call, lock, bookings, disturbed>>
      BY <1>11 DEF SearchExhausted
    <2>2. OnlyCleared
      BY <1>11 DEF OnlyCleared, SearchExhausted
    <2> QED BY <2>1, <2>2, QuietStep
  <1>12. ASSUME NEW t \in tasks,
               OfferTimeoutWrite(t)
        PROVE  AcceptInv'
    <2>1. UNCHANGED <<call, lock, bookings, disturbed>>
      BY <1>12 DEF OfferTimeoutWrite, Withdraw
    <2>2. OnlyCleared
      BY <1>12 DEF OnlyCleared, OfferTimeoutWrite, Withdraw
    <2> QED BY <2>1, <2>2, QuietStep
  <1>13. ASSUME NEW t \in tasks,
               RejectWrite(t)
        PROVE  AcceptInv'
    <2>1. UNCHANGED <<call, lock, bookings, disturbed>>
      BY <1>13 DEF RejectWrite, Withdraw
    <2>2. OnlyCleared
      BY <1>13 DEF OnlyCleared, RejectWrite, Withdraw
    <2> QED BY <2>1, <2>2, QuietStep
  <1>14. ASSUME NEW t \in tasks,
               SearchTimeoutWrite(t)
        PROVE  AcceptInv'
    <2>1. UNCHANGED <<call, lock, bookings, disturbed>>
      BY <1>14 DEF SearchTimeoutWrite
    <2>2. OnlyCleared
      BY <1>14 DEF OnlyCleared, SearchTimeoutWrite
    <2> QED BY <2>1, <2>2, QuietStep
  <1>15. ASSUME NEW d \in Drivers, NEW o \in Offers,
               RejectRead(d, o)
        PROVE  AcceptInv'
    <2>1. UNCHANGED <<call, lock, bookings, disturbed>>
      BY <1>15 DEF RejectRead
    <2>2. OnlyCleared
      BY <1>15 DEF OnlyCleared, RejectRead
    <2> QED BY <2>1, <2>2, QuietStep
  <1>16. ASSUME NEW o \in Offers,
               ExpireOffer(o)
        PROVE  AcceptInv'
    <2>1. UNCHANGED <<call, lock, bookings, disturbed>>
      BY <1>16 DEF ExpireOffer
    <2>2. OnlyCleared
      BY <1>16 DEF OnlyCleared, ExpireOffer
    <2> QED BY <2>1, <2>2, QuietStep
  <1>17. ASSUME NEW o \in Offers,
               ExpirePrompt(o)
        PROVE  AcceptInv'
    <2>1. UNCHANGED <<call, lock, bookings, disturbed>>
      BY <1>17 DEF ExpirePrompt
    <2>2. OnlyCleared
      BY <1>17 DEF OnlyCleared, ExpirePrompt
    <2> QED BY <2>1, <2>2, QuietStep
  <1>18. ASSUME NEW t \in tasks, NEW d \in Drivers,
               SearchPrompt(t, d)
        PROVE  AcceptInv'
    <2>1. t.job.offer \in Offers
      BY DEF Task, Job
    <2> QED BY <1>18, <2>1, DispatchWrite DEF SearchPrompt
  <1>19. ASSUME NEW t \in tasks, NEW near \in SUBSET Drivers,
               Broadcast(t, near)
        PROVE  AcceptInv'
    <2>1. t.job.offer \in Offers
      BY DEF Task, Job
    <2>2. CASE near = {}
      <3>1. UNCHANGED <<call, lock, bookings, disturbed>> /\ OnlyCleared
        BY <1>19, <2>2 DEF Broadcast, OnlyCleared
      <3> QED BY <3>1, QuietStep
    <2>3. CASE near # {}
      BY <1>19, <2>1, <2>3, DispatchWrite DEF Broadcast
    <2> QED BY <2>2, <2>3
  <1>20. ASSUME NEW d \in Drivers, NEW o \in Offers,
               AcceptRead(d, o)
        PROVE  AcceptInv'
    <2>1. LockOwned'
      BY <1>20 DEF AcceptInv, LockOwned, Holding, AcceptRead, GoTo
    <2>2. BookedIsClosed'
      BY <1>20 DEF AcceptInv, LockOwned, Holding, BookedIsClosed, BookingsOf, AcceptRead, GoTo
    <2>3. OneBookingUnlessDisturbed'
      BY <1>20 DEF AcceptInv, OneBookingUnlessDisturbed, BookingsOf, AcceptRead
    <2> QED BY <2>1, <2>2, <2>3 DEF AcceptInv
  <1>21. ASSUME NEW d \in Drivers, NEW o \in Offers,
               AcceptLock(d, o)
        PROVE  AcceptInv'
    <2>1. LockOwned'
      BY <1>21 DEF AcceptInv, LockOwned, Holding, AcceptLock, GoTo
    <2>2. BookedIsClosed'
      BY <1>21 DEF AcceptInv, LockOwned, Holding, BookedIsClosed, BookingsOf, AcceptLock, GoTo
    <2>3. OneBookingUnlessDisturbed'
      BY <1>21 DEF AcceptInv, OneBookingUnlessDisturbed, BookingsOf, AcceptLock
    <2> QED BY <2>1, <2>2, <2>3 DEF AcceptInv
  <1>22. ASSUME NEW d \in Drivers, NEW o \in Offers,
               AcceptLocked(d, o)
        PROVE  AcceptInv'
    <2>1. LockOwned'
      BY <1>22 DEF AcceptInv, LockOwned, Holding, AcceptLocked, GoTo, Finish
    <2>2. BookedIsClosed'
      BY <1>22 DEF AcceptInv, LockOwned, Holding, BookedIsClosed, BookingsOf, AcceptLocked, GoTo, Finish
    <2>3. OneBookingUnlessDisturbed'
      BY <1>22 DEF AcceptInv, OneBookingUnlessDisturbed, BookingsOf, AcceptLocked
    <2> QED BY <2>1, <2>2, <2>3 DEF AcceptInv
  <1>23. ASSUME NEW d \in Drivers, NEW o \in Offers,
               AcceptGuard(d, o)
        PROVE  AcceptInv'
    <2>1. LockOwned'
      BY <1>23 DEF AcceptInv, LockOwned, Holding, AcceptGuard, GoTo, MayAccept
    <2>2. BookedIsClosed'
      BY <1>23 DEF AcceptInv, LockOwned, Holding, BookedIsClosed, BookingsOf, AcceptGuard, GoTo, MayAccept
    <2>3. OneBookingUnlessDisturbed'
      BY <1>23 DEF AcceptInv, OneBookingUnlessDisturbed, BookingsOf, AcceptGuard
    <2> QED BY <2>1, <2>2, <2>3 DEF AcceptInv
  <1>24. ASSUME NEW d \in Drivers, NEW o \in Offers,
               AcceptRefuse(d, o)
        PROVE  AcceptInv'
    <2>1. LockOwned'
      BY <1>24 DEF AcceptInv, LockOwned, Holding, AcceptRefuse, GoTo, Finish, Release
    <2>2. BookedIsClosed'
      BY <1>24 DEF AcceptInv, LockOwned, Holding, BookedIsClosed, BookingsOf, AcceptRefuse, GoTo, Finish, Release
    <2>3. OneBookingUnlessDisturbed'
      BY <1>24 DEF AcceptInv, OneBookingUnlessDisturbed, BookingsOf, AcceptRefuse
    <2> QED BY <2>1, <2>2, <2>3 DEF AcceptInv
  <1>25. ASSUME NEW d \in Drivers, NEW o \in Offers,
               AcceptRedeem(d, o)
        PROVE  AcceptInv'
    <2>1. LockOwned'
      BY <1>25 DEF AcceptInv, LockOwned, Holding, AcceptRedeem, GoTo
    <2>2. BookedIsClosed'
      BY <1>25 DEF AcceptInv, LockOwned, Holding, BookedIsClosed, BookingsOf, AcceptRedeem, GoTo
    <2>3. OneBookingUnlessDisturbed'
      BY <1>25 DEF AcceptInv, OneBookingUnlessDisturbed, BookingsOf, AcceptRedeem
    <2> QED BY <2>1, <2>2, <2>3 DEF AcceptInv
  <1>26. ASSUME NEW d \in Drivers, NEW o \in Offers,
               AcceptRedeemFails(d, o)
        PROVE  AcceptInv'
    <2>1. LockOwned'
      BY <1>26 DEF AcceptInv, LockOwned, Holding, AcceptRedeemFails, GoTo, Finish, Release, Abort
    <2>2. BookedIsClosed'
      BY <1>26 DEF AcceptInv, LockOwned, Holding, BookedIsClosed, BookingsOf, AcceptRedeemFails, GoTo, Finish, Release, Abort
    <2>3. OneBookingUnlessDisturbed'
      BY <1>26 DEF AcceptInv, OneBookingUnlessDisturbed, BookingsOf, AcceptRedeemFails, GoTo, Finish, Release, Abort
    <2> QED BY <2>1, <2>2, <2>3 DEF AcceptInv
  <1>27. ASSUME NEW d \in Drivers, NEW o \in Offers,
               AcceptInsert(d, o)
        PROVE  AcceptInv'
    <2>1. LockOwned'
      BY <1>27 DEF AcceptInv, LockOwned, Holding, AcceptInsert, GoTo
    <2>2. BookedIsClosed'
      BY <1>27 DEF AcceptInv, LockOwned, Holding, BookedIsClosed, BookingsOf, AcceptInsert, GoTo
    <2>3. OneBookingUnlessDisturbed'
      BY <1>27 DEF AcceptInv, BookedIsClosed, OneBookingUnlessDisturbed, BookingsOf, AcceptInsert
    <2> QED BY <2>1, <2>2, <2>3 DEF AcceptInv
  <1>28. ASSUME NEW d \in Drivers, NEW o \in Offers,
               AcceptInsertFails(d, o)
        PROVE  AcceptInv'
    <2>1. LockOwned'
      BY <1>28 DEF AcceptInv, LockOwned, Holding, AcceptInsertFails, GoTo, Finish, Release, Abort
    <2>2. BookedIsClosed'
      BY <1>28 DEF AcceptInv, LockOwned, Holding, BookedIsClosed, BookingsOf, AcceptInsertFails, GoTo, Finish, Release, Abort
    <2>3. OneBookingUnlessDisturbed'
      BY <1>28 DEF AcceptInv, OneBookingUnlessDisturbed, BookingsOf, AcceptInsertFails, GoTo, Finish, Release, Abort
    <2> QED BY <2>1, <2>2, <2>3 DEF AcceptInv
  <1>29. ASSUME NEW d \in Drivers, NEW o \in Offers,
               AcceptPublish(d, o)
        PROVE  AcceptInv'
    <2>1. LockOwned'
      BY <1>29 DEF AcceptInv, LockOwned, Holding, AcceptPublish, GoTo
    <2>2. BookedIsClosed'
      BY <1>29 DEF AcceptInv, LockOwned, Holding, BookedIsClosed, BookingsOf, AcceptPublish, GoTo
    <2>3. OneBookingUnlessDisturbed'
      BY <1>29 DEF AcceptInv, OneBookingUnlessDisturbed, BookingsOf, AcceptPublish
    <2> QED BY <2>1, <2>2, <2>3 DEF AcceptInv
  <1>30. ASSUME NEW d \in Drivers, NEW o \in Offers,
               AcceptPublishFails(d, o)
        PROVE  AcceptInv'
    <2>1. LockOwned'
      BY <1>30 DEF AcceptInv, LockOwned, Holding, AcceptPublishFails, GoTo, Finish, Release, Abort
    <2>2. BookedIsClosed'
      BY <1>30 DEF AcceptInv, LockOwned, Holding, BookedIsClosed, BookingsOf, AcceptPublishFails, GoTo, Finish, Release, Abort
    <2>3. OneBookingUnlessDisturbed'
      BY <1>30 DEF AcceptInv, OneBookingUnlessDisturbed, BookingsOf, AcceptPublishFails, GoTo, Finish, Release, Abort
    <2> QED BY <2>1, <2>2, <2>3 DEF AcceptInv
  <1>31. ASSUME NEW d \in Drivers, NEW o \in Offers,
               AcceptCleanup(d, o)
        PROVE  AcceptInv'
    <2>1. LockOwned'
      BY <1>31 DEF AcceptInv, LockOwned, Holding, AcceptCleanup, GoTo, Finish, Release, CleanupOffer
    <2>2. BookedIsClosed'
      BY <1>31 DEF AcceptInv, LockOwned, Holding, BookedIsClosed, BookingsOf, AcceptCleanup, GoTo, Finish, Release, CleanupOffer
    <2>3. OneBookingUnlessDisturbed'
      BY <1>31 DEF AcceptInv, OneBookingUnlessDisturbed, BookingsOf, AcceptCleanup
    <2> QED BY <2>1, <2>2, <2>3 DEF AcceptInv
  <1>32. ASSUME NEW b \in bookings, TripEnds(b)
        PROVE  AcceptInv'
    <2>1. LockOwned'
      BY <1>32 DEF AcceptInv, LockOwned, Holding, TripEnds
    <2>a. \A c \in bookings' : \E a \in bookings : a.offer = c.offer /\ a.id = c.id
      <3>1. b \in Booking
        BY <1>32
      <3>2. [b EXCEPT !.active = FALSE].offer = b.offer /\ [b EXCEPT !.active = FALSE].id = b.id
        BY <3>1 DEF Booking
      <3> QED BY <1>32, <3>2 DEF TripEnds
    <2>b. UNCHANGED <<call, holder, broadcast, disturbed>>
      BY <1>32 DEF TripEnds
    <2>c. \A o \in Offers : BookingsOf(o)' # {} => BookingsOf(o) # {}
      BY <2>a DEF BookingsOf
    <2>2. BookedIsClosed'
      BY <2>b, <2>c DEF AcceptInv, BookedIsClosed
    <2>3. OneBookingUnlessDisturbed'
      <3> SUFFICES ASSUME NEW o \in Offers \ disturbed, NEW c \in bookings', NEW e \in bookings',
                          c.offer = o, e.offer = o
                   PROVE  c.id = e.id
        BY <2>b DEF OneBookingUnlessDisturbed, BookingsOf
      <3>1. PICK a \in bookings : a.offer = o /\ a.id = c.id
        BY <2>a
      <3>2. PICK g \in bookings : g.offer = o /\ g.id = e.id
        BY <2>a
      <3> QED BY <3>1, <3>2 DEF AcceptInv, OneBookingUnlessDisturbed, BookingsOf
    <2> QED BY <2>1, <2>2, <2>3 DEF AcceptInv
  <1>33. ASSUME NEW o \in Offers, ExpireLock(o)
        PROVE  AcceptInv'
    <2>1. LockOwned'
      BY <1>33 DEF AcceptInv, LockOwned, Holding, ExpireLock, Release, HeldBy
    <2>2. BookedIsClosed'
      BY <1>33 DEF AcceptInv, Holding, BookedIsClosed, BookingsOf, ExpireLock, Release, HeldBy
    <2>3. OneBookingUnlessDisturbed'
      BY <1>33 DEF AcceptInv, OneBookingUnlessDisturbed, BookingsOf, ExpireLock, Release, HeldBy
    <2> QED BY <2>1, <2>2, <2>3 DEF AcceptInv
  <1>34. ASSUME Crash
        PROVE  AcceptInv'
    <2>1. LockOwned'
      BY <1>34 DEF AcceptInv, LockOwned, Holding, Crash
    <2>2. BookedIsClosed'
      BY <1>34 DEF AcceptInv, Holding, BookedIsClosed, BookingsOf, Crash
    <2>3. OneBookingUnlessDisturbed'
      BY <1>34 DEF AcceptInv, OneBookingUnlessDisturbed, BookingsOf, Crash
    <2> QED BY <2>1, <2>2, <2>3 DEF AcceptInv
  <1>35. CASE UNCHANGED vars
    BY <1>35, QuietStep DEF vars, OnlyCleared
  <1>36. ASSUME NEW o \in Offers, ExpireBroadcast(o)
        PROVE  AcceptInv'
    <2>1. UNCHANGED <<call, lock, bookings, disturbed>>
      BY <1>36 DEF ExpireBroadcast
    <2>2. OnlyCleared
      BY <1>36 DEF OnlyCleared, ExpireBroadcast
    <2> QED BY <2>1, <2>2, QuietStep
  <1>37. ASSUME NEW d \in Drivers, NEW o \in Offers,
               AcceptRefund(d, o)
        PROVE  AcceptInv'
    <2>1. LockOwned'
      BY <1>37 DEF AcceptInv, LockOwned, Holding, AcceptRefund, GoTo
    <2>2. BookedIsClosed'
      BY <1>37 DEF AcceptInv, LockOwned, Holding, BookedIsClosed, BookingsOf, AcceptRefund, GoTo
    <2>3. OneBookingUnlessDisturbed'
      BY <1>37 DEF AcceptInv, OneBookingUnlessDisturbed, BookingsOf, AcceptRefund
    <2> QED BY <2>1, <2>2, <2>3 DEF AcceptInv
  <1> QED
    BY <1>1, <1>2, <1>3, <1>4, <1>5, <1>6, <1>7, <1>8, <1>9, <1>10, <1>11, <1>12, <1>13, <1>14, <1>15, <1>16, <1>17, <1>18, <1>19, <1>20, <1>21, <1>22, <1>23, <1>24, <1>25, <1>26, <1>27, <1>28, <1>29, <1>30, <1>31, <1>32, <1>33, <1>34, <1>35, <1>36, <1>37
    DEF Next, CustomerStep, SearchStep, DriverStep, AcceptStep, EnvStep

\* In every reachable state the lock is owned, booked offers are closed and no
\* undisturbed offer has two rows.
LEMMA AcceptInvariant == Spec => []AcceptInv
  <1>1. Init => Typed /\ AcceptInv
    BY TypedInit, AcceptInvInit
  <1>2. Typed /\ AcceptInv /\ [Next]_vars => (Typed /\ AcceptInv)'
    BY TypedNext, AcceptInvNext
  <1> QED BY <1>1, <1>2, PTL DEF Spec

\* Accepts of one offer exclude each other, from the lock to the last delete.
THEOREM AcceptsExclude == Spec => []AcceptExclusive
  <1>1. AcceptInv => AcceptExclusive
    BY DEF AcceptInv, LockOwned, AcceptExclusive
  <1> QED BY <1>1, AcceptInvariant, PTL

\* An offer gets one booking, for any number of drivers, attempts, retries and
\* concurrent handlers, unless one of the four recorded events has hit it.
THEOREM OneBooking == Spec => []OneBookingUnlessDisturbed
  <1>1. AcceptInv => OneBookingUnlessDisturbed
    BY DEF AcceptInv
  <1> QED BY <1>1, AcceptInvariant, PTL

-----------------------------------------------------------------------------

Counted(j) == j.attempt = Cardinality(j.excluded) + 1 /\ j.attempt <= MaxAttempts + 1

\* The counter is right in the queue, in the handlers in flight and in the
\* :excluded key that rejectBooking counts.
SearchInv ==
  /\ \A j \in jobs : j.kind \in {"search_driver", "offer_timeout"} => Counted(j)
  /\ \A t \in tasks :
       /\ t.kind \in {"pick", "broadcast", "withdraw"} => Counted(t.job)
       /\ t.kind = "pick" => t.job.attempt <= MaxAttempts
       /\ t.kind = "reject" => Cardinality(t.job.excluded) <= MaxAttempts
  /\ \A o \in Offers : Cardinality(excluded[o]) <= MaxAttempts
  /\ \A o \in Offers : holder[o] # NoDriver => MaxAttempts >= 1

\* A search begins with nobody tried.
LEMMA EmptySearch == Cardinality({}) = 0
  BY FS_EmptySet

\* No job and no handler is new, and the keys are only cleared.
LEMMA SearchShrinks ==
  ASSUME SearchInv, jobs' \subseteq jobs, tasks' \subseteq tasks,
         \A o \in Offers : /\ excluded'[o] \in {excluded[o], {}}
                           /\ holder'[o] \in {holder[o], NoDriver}
  PROVE  SearchInv'
  <1> MaxAttempts \in Nat
    BY ConstantsAssumption
  <1>1. ASSUME NEW o \in Offers PROVE Cardinality(excluded'[o]) <= MaxAttempts
    <2>1. CASE excluded'[o] = excluded[o]
      BY <2>1 DEF SearchInv
    <2>2. CASE excluded'[o] = {}
      <3>1. Cardinality(excluded'[o]) = 0
        BY <2>2, EmptySearch, Zenon
      <3> QED BY <3>1
    <2> QED BY <2>1, <2>2
  <1>2. \A o \in Offers : holder'[o] # NoDriver => MaxAttempts >= 1
    BY DEF SearchInv
  <1> QED BY <1>1, <1>2 DEF SearchInv, Counted

\* At start no search is under way.
LEMMA SearchInvInit == Init => SearchInv
  BY ConstantsAssumption, EmptySearch DEF Init, SearchInv

\* Each step keeps the attempt counter of every job and handler in step with
\* the list of drivers tried.
LEMMA SearchInvNext == Typed /\ SearchInv /\ [Next]_vars => SearchInv'
  <1> SUFFICES ASSUME Typed, SearchInv, [Next]_vars PROVE SearchInv'
    OBVIOUS
  <1> USE EmptySearch DEF redis
  <1>a. /\ jobs \subseteq Job /\ tasks \subseteq Task
        /\ excluded \in [Offers -> SUBSET Drivers] /\ holder \in [Offers -> MaybeDriver]
    BY DEF Typed, TypeOK
  <1>b. MaxAttempts \in Nat /\ IsFiniteSet(Drivers) /\ NoDriver \notin Drivers
    BY ConstantsAssumption
  <1>c. \A S \in SUBSET Drivers : IsFiniteSet(S) /\ Cardinality(S) \in Nat
    BY <1>b, FS_Subset, FS_CardinalityType
  <1> USE <1>a, <1>b
  <1>1. ASSUME NEW o \in Offers, NEW f \in Fares, NEW scheduled \in BOOLEAN, Create(o, f, scheduled)
        PROVE  SearchInv'
    <2>1. Counted(FirstSearch(o, 0, "create"))
      BY EmptySearch DEF FirstSearch, JobOf, Counted
    <2>2. SearchTimeoutJob(o, 0, "create").kind = "search_timeout"
      BY DEF SearchTimeoutJob, JobOf
    <2>3. /\ jobs' \subseteq jobs \cup {SearchTimeoutJob(o, 0, "create"), FirstSearch(o, 0, "create")}
          /\ UNCHANGED <<tasks, excluded, holder>>
      BY <1>1 DEF Create
    <2> QED BY <2>1, <2>2, <2>3 DEF SearchInv, Counted
  <1>2. ASSUME NEW o \in Offers, NEW f \in Fares, UpdateFareRead(o, f)
        PROVE  SearchInv'
    BY <1>2 DEF UpdateFareRead, TaskOf, SearchInv
  <1>3. ASSUME NEW o \in Offers, NEW f \in Fares, RetryRead(o, f)
        PROVE  SearchInv'
    BY <1>3 DEF RetryRead, TaskOf, SearchInv
  <1>4. ASSUME NEW t \in tasks, RetryWrite(t)
        PROVE  SearchInv'
    <2> DEFINE round == t.data.retries + 1  o == t.job.offer
    <2>1. Counted(FirstSearch(o, round, "retry"))
      BY EmptySearch DEF FirstSearch, JobOf, Counted
    <2>2. SearchTimeoutJob(o, round, "retry").kind = "search_timeout"
      BY DEF SearchTimeoutJob, JobOf
    <2>3. /\ jobs' = jobs \cup {SearchTimeoutJob(o, round, "retry"), FirstSearch(o, round, "retry")}
          /\ tasks' = tasks \ {t} /\ holder' = holder
          /\ excluded' = [excluded EXCEPT ![o] = {}]
      BY <1>4 DEF RetryWrite
    <2>4. \A p \in Offers : Cardinality(excluded'[p]) <= MaxAttempts
      BY <2>3, EmptySearch DEF SearchInv
    <2> QED BY <2>1, <2>2, <2>3, <2>4 DEF SearchInv, Counted
  <1>5. ASSUME NEW j \in jobs, OfferTimeoutRead(j)
        PROVE  SearchInv'
    BY <1>5 DEF OfferTimeoutRead, TaskOf, SearchInv
  <1>6. ASSUME NEW j \in jobs, SearchTimeoutRead(j)
        PROVE  SearchInv'
    BY <1>6 DEF SearchTimeoutRead, TaskOf, SearchInv
  <1>7. ASSUME NEW t \in tasks, OfferTimeoutWrite(t)
        PROVE  SearchInv'
    BY <1>7 DEF OfferTimeoutWrite, Withdraw, JobOf, SearchInv, Counted
  <1>8. ASSUME NEW j \in jobs, SearchBegin(j)
        PROVE  SearchInv'
    <2>1. j \in Job /\ Counted(j)
      BY <1>8 DEF SearchInv, SearchBegin
    <2>2. j.attempt \in Nat
      BY <2>1 DEF Job
    <2> QED BY <1>8, <2>1, <2>2 DEF SearchBegin, TaskOf, SearchInv
  <1>9. ASSUME NEW t \in tasks, NEW d \in Drivers, SearchPrompt(t, d)
        PROVE  SearchInv'
    <2> DEFINE j == t.job  ex == j.excluded \cup {d}
    <2>1. j \in Job /\ j.attempt \in Nat /\ j.excluded \in SUBSET Drivers /\ j.offer \in Offers
      BY DEF Task, Job
    <2>2. Counted(j) /\ j.attempt <= MaxAttempts /\ d \notin j.excluded
      BY <1>9 DEF SearchPrompt, SearchInv
    <2>3. Cardinality(ex) = Cardinality(j.excluded) + 1
      BY <1>c, <2>1, <2>2, FS_AddElement
    <2>4. Cardinality(ex) = j.attempt /\ MaxAttempts >= 1
      BY <1>c, <2>1, <2>2, <2>3 DEF Counted
    <2>5. /\ jobs' = jobs \cup {JobOf("offer_timeout", j.offer, d, ex, j.attempt + 1, j.round, "search")}
          /\ tasks' = tasks \ {t}
          /\ excluded' = [excluded EXCEPT ![j.offer] = ex]
      BY <1>9 DEF SearchPrompt
    <2>6. Counted(JobOf("offer_timeout", j.offer, d, ex, j.attempt + 1, j.round, "search"))
      BY <2>1, <2>2, <2>4 DEF Counted, JobOf
    <2>7. \A i \in jobs' : i.kind \in {"search_driver", "offer_timeout"} => Counted(i)
      BY <2>5, <2>6 DEF SearchInv
    <2>8. \A o \in Offers : Cardinality(excluded'[o]) <= MaxAttempts
      BY <2>1, <2>2, <2>4, <2>5 DEF SearchInv
    <2> QED BY <2>4, <2>5, <2>7, <2>8 DEF SearchInv, Counted
  <1>10. ASSUME NEW t \in tasks, SearchExhausted(t)
        PROVE  SearchInv'
    <2>1. [t EXCEPT !.kind = "broadcast"].kind = "broadcast" /\ [t EXCEPT !.kind = "broadcast"].job = t.job
      BY DEF Task
    <2> QED BY <1>10, <2>1 DEF SearchExhausted, SearchInv, Counted
  <1>11. ASSUME NEW t \in tasks, NEW near \in SUBSET Drivers, Broadcast(t, near)
        PROVE  SearchInv'
    <2>1. tasks' \subseteq tasks /\ excluded' = excluded /\ holder' = holder
      BY <1>11 DEF Broadcast
    <2>2. \A j \in jobs' \ jobs : j.kind = "broadcast_timeout"
      BY <1>11 DEF Broadcast, JobOf
    <2> QED BY <2>1, <2>2 DEF SearchInv, Counted
  <1>12. ASSUME NEW t \in tasks, RejectWrite(t)
        PROVE  SearchInv'
    <2>1. t.job.excluded \in SUBSET Drivers /\ t.job.offer \in Offers
      BY DEF Task, Job
    <2>2. Cardinality(t.job.excluded) \in Nat /\ Cardinality(t.job.excluded) <= MaxAttempts
      BY <1>c, <2>1, <1>12 DEF SearchInv, RejectWrite
    <2> QED BY <1>12, <2>1, <2>2 DEF RejectWrite, Withdraw, JobOf, SearchInv, Counted
  <1>13. ASSUME NEW d \in Drivers, NEW o \in Offers, RejectRead(d, o)
        PROVE  SearchInv'
    <2> DEFINE ex == IF excluded[o] = {} THEN {d} ELSE excluded[o]
    <2>1. MaxAttempts >= 1 /\ Cardinality(excluded[o]) <= MaxAttempts
      BY <1>13 DEF RejectRead, SearchInv
    <2>2. Cardinality({d}) = 1
      BY FS_Singleton
    <2>3. Cardinality(ex) <= MaxAttempts
      BY <2>1, <2>2
    <2>4. /\ tasks' = tasks \cup {TaskOf("reject", JobOf("search_driver", o, d, ex, 0, 0, "reject"), NoOffer, 1)}
          /\ UNCHANGED <<jobs, excluded, holder>>
      BY <1>13 DEF RejectRead
    <2> HIDE DEF ex
    <2>5. \A u \in tasks' \ tasks : u.kind = "reject" /\ u.job.excluded = ex
      BY <2>4 DEF TaskOf, JobOf
    <2> QED BY <2>3, <2>4, <2>5 DEF SearchInv, Counted
  <1>14. ASSUME Crash
        PROVE  SearchInv'
    <2>1. \A t \in tasks : FromBull(t) =>
             /\ Counted(Requeued(t)) \/ Requeued(t).kind = "search_timeout"
      <3> SUFFICES ASSUME NEW t \in tasks, FromBull(t)
                   PROVE  Counted(Requeued(t)) \/ Requeued(t).kind = "search_timeout"
        OBVIOUS
      <3>1. t.job \in Job
        BY DEF Task
      <3>2. /\ Requeued(t).attempt = t.job.attempt
            /\ Requeued(t).excluded = t.job.excluded
        BY <3>1 DEF Requeued, Job
      <3>3. CASE t.kind = "expire"
        BY <3>1, <3>3 DEF Requeued, Job
      <3>4. CASE t.kind # "expire"
        BY <3>2, <3>4 DEF SearchInv, Counted, FromBull
      <3> QED BY <3>3, <3>4
    <2>2. \A j \in jobs' : j \in jobs \/ \E t \in tasks : FromBull(t) /\ j = Requeued(t)
      BY <1>14 DEF Crash
    <2>3. tasks' = {} /\ excluded' = excluded /\ holder' = holder
      BY <1>14 DEF Crash
    <2> QED BY <2>1, <2>2, <2>3 DEF SearchInv, Counted
  <1>15. ASSUME NEW o \in Offers, CancelOffer(o)
        PROVE  SearchInv'
    BY <1>15, SearchShrinks DEF CancelOffer, CleanupOffer
  <1>16. ASSUME NEW j \in jobs, BroadcastTimeout(j)
        PROVE  SearchInv'
    BY <1>16, SearchShrinks DEF BroadcastTimeout, CleanupOffer
  <1>17. ASSUME NEW t \in tasks, UpdateFareWrite(t)
        PROVE  SearchInv'
    BY <1>17, SearchShrinks DEF UpdateFareWrite
  <1>18. ASSUME NEW t \in tasks, SearchTimeoutWrite(t)
        PROVE  SearchInv'
    BY <1>18, SearchShrinks DEF SearchTimeoutWrite
  <1>19. ASSUME NEW o \in Offers, ExpireOffer(o)
        PROVE  SearchInv'
    BY <1>19, SearchShrinks DEF ExpireOffer
  <1>20. ASSUME NEW o \in Offers, ExpirePrompt(o)
        PROVE  SearchInv'
    BY <1>20, SearchShrinks DEF ExpirePrompt
  <1>21. ASSUME NEW o \in Offers, ExpireLock(o)
        PROVE  SearchInv'
    BY <1>21, SearchShrinks DEF ExpireLock
  <1>22. ASSUME NEW b \in bookings, TripEnds(b)
        PROVE  SearchInv'
    BY <1>22, SearchShrinks DEF TripEnds
  <1>23. ASSUME NEW d \in Drivers, NEW o \in Offers, AcceptRead(d, o)
        PROVE  SearchInv'
    BY <1>23, SearchShrinks DEF AcceptRead
  <1>24. ASSUME NEW d \in Drivers, NEW o \in Offers, AcceptLock(d, o)
        PROVE  SearchInv'
    BY <1>24, SearchShrinks DEF AcceptLock
  <1>25. ASSUME NEW d \in Drivers, NEW o \in Offers, AcceptLocked(d, o)
        PROVE  SearchInv'
    BY <1>25, SearchShrinks DEF AcceptLocked
  <1>26. ASSUME NEW d \in Drivers, NEW o \in Offers, AcceptGuard(d, o)
        PROVE  SearchInv'
    BY <1>26, SearchShrinks DEF AcceptGuard
  <1>27. ASSUME NEW d \in Drivers, NEW o \in Offers, AcceptRefuse(d, o)
        PROVE  SearchInv'
    BY <1>27, SearchShrinks DEF AcceptRefuse
  <1>28. ASSUME NEW d \in Drivers, NEW o \in Offers, AcceptRedeem(d, o)
        PROVE  SearchInv'
    BY <1>28, SearchShrinks DEF AcceptRedeem
  <1>29. ASSUME NEW d \in Drivers, NEW o \in Offers, AcceptRedeemFails(d, o)
        PROVE  SearchInv'
    BY <1>29, SearchShrinks DEF AcceptRedeemFails
  <1>30. ASSUME NEW d \in Drivers, NEW o \in Offers, AcceptInsert(d, o)
        PROVE  SearchInv'
    BY <1>30, SearchShrinks DEF AcceptInsert
  <1>31. ASSUME NEW d \in Drivers, NEW o \in Offers, AcceptInsertFails(d, o)
        PROVE  SearchInv'
    BY <1>31, SearchShrinks DEF AcceptInsertFails
  <1>32. ASSUME NEW d \in Drivers, NEW o \in Offers, AcceptPublish(d, o)
        PROVE  SearchInv'
    BY <1>32, SearchShrinks DEF AcceptPublish
  <1>33. ASSUME NEW d \in Drivers, NEW o \in Offers, AcceptPublishFails(d, o)
        PROVE  SearchInv'
    BY <1>33, SearchShrinks DEF AcceptPublishFails
  <1>34. ASSUME NEW d \in Drivers, NEW o \in Offers, AcceptCleanup(d, o)
        PROVE  SearchInv'
    BY <1>34, SearchShrinks DEF AcceptCleanup, CleanupOffer
  <1>35. CASE UNCHANGED vars
    BY <1>35, SearchShrinks DEF vars
  <1>36. ASSUME NEW o \in Offers, ExpireBroadcast(o)
        PROVE  SearchInv'
    BY <1>36, SearchShrinks DEF ExpireBroadcast
  <1>37. ASSUME NEW d \in Drivers, NEW o \in Offers, AcceptRefund(d, o)
        PROVE  SearchInv'
    BY <1>37, SearchShrinks DEF AcceptRefund
  <1> QED
    BY <1>1, <1>2, <1>3, <1>4, <1>5, <1>6, <1>7, <1>8, <1>9, <1>10, <1>11, <1>12, <1>13, <1>14, <1>15, <1>16, <1>17, <1>18, <1>19, <1>20, <1>21, <1>22, <1>23, <1>24, <1>25, <1>26, <1>27, <1>28, <1>29, <1>30, <1>31, <1>32, <1>33, <1>34, <1>35, <1>36, <1>37
    DEF Next, CustomerStep, SearchStep, DriverStep, AcceptStep, EnvStep

\* Whatever interleaving of timeouts, rejections, retries and restarts drives
\* it, a search tries at most max_search_attempts drivers, counts every one of
\* them once, and then broadcasts.
THEOREM SearchBounded == Spec => []SearchIsBounded
  <1>1. Init => Typed /\ SearchInv
    BY TypedInit, SearchInvInit
  <1>2. Typed /\ SearchInv /\ [Next]_vars => (Typed /\ SearchInv)'
    BY TypedNext, SearchInvNext
  <1>3. SearchInv => SearchIsBounded
    BY DEF SearchInv, SearchIsBounded, Counted
  <1> QED BY <1>1, <1>2, <1>3, PTL DEF Spec
-----------------------------------------------------------------------------

\* Calls between redeemCoins and the INSERT and calls whose catch block is about
\* to refund, and what is on the rows and in those calls, in units of
\* CoinsToRedeem.
Held == {p \in Drivers \X Offers : call[p[1]][p[2]] \in {"insert", "refund"}}
Taken == Cardinality(bookings) + Cardinality(Held)

\* Rows are numbered from 1 without gaps.
RowsNumbered ==
  /\ \A b \in bookings : b.id \in 1..Cardinality(bookings)
  /\ \A b, c \in bookings : b.id = c.id => b = c

\* A driver whose accept of an undisturbed offer made its row has no refund of
\* that offer to come.
RowsNotRefunded ==
  \A o \in Offers \ disturbed : \A b \in BookingsOf(o) : call[b.driver][o] # "refund"

Covered == disturbed = {} /\ CoinsToRedeem * Cardinality(Drivers \X Offers) <= InitialCoins

\* The balance lacks a whole number m of redemptions: those that are taken less
\* the unfounded ones, and after a restart also those that were lost.
CoinsInv ==
  Covered => \E m \in Int : /\ coins = InitialCoins - CoinsToRedeem * m
                            /\ Taken - unfounded <= m
                            /\ crashes = 0 => m = Taken - unfounded

AccountInv == RowsNumbered /\ RowsNotRefunded /\ CoinsInv

\* What the counts rest on.
LEMMA Finite ==
  ASSUME IsFiniteSet(Offers), Typed
  PROVE  /\ IsFiniteSet(Held) /\ IsFiniteSet(bookings) /\ IsFiniteSet(Drivers \X Offers)
         /\ Cardinality(Held) \in Nat /\ Cardinality(bookings) \in Nat
         /\ Cardinality(Drivers \X Offers) \in Nat /\ unfounded \in Nat
  <1>1. IsFiniteSet(Drivers \X Offers)
    BY FS_Product, ConstantsAssumption
  <1>2. IsFiniteSet(Held)
    BY <1>1, FS_Subset DEF Held
  <1>3. IsFiniteSet(bookings) /\ unfounded \in Nat
    BY DEF Typed, TypeOK
  <1> QED BY <1>1, <1>2, <1>3, FS_CardinalityType

\* A row, a call about to insert and a call about to refund each belong to one
\* driver and one offer, no two of them to the same: so with one call still
\* before redeemCoins, fewer redemptions are taken than there are such pairs.
LEMMA RoomForOne ==
  ASSUME IsFiniteSet(Offers), Typed, AcceptInv, RowsNumbered, RowsNotRefunded, disturbed = {},
         NEW d \in Drivers, NEW o \in Offers, call[d][o] = "redeem"
  PROVE  Taken + 1 <= Cardinality(Drivers \X Offers)
  <1> DEFINE Spots == Drivers \X Offers
             Busy == Held \cup {<<d, o>>}
             Rest == Spots \ Busy
             spot == [b \in bookings |-> <<b.driver, b.offer>>]
  <1>1. \A b \in bookings : b.offer \in Offers /\ b.driver \in Drivers /\ b.id \in Nat
    BY DEF Typed, TypeOK, Booking
  <1>2. \A b, c \in bookings : b.offer = c.offer => b = c
    BY <1>1 DEF AcceptInv, OneBookingUnlessDisturbed, BookingsOf, RowsNumbered
  <1>3. \A b \in bookings : <<b.driver, b.offer>> \in Rest
    <2> SUFFICES ASSUME NEW b \in bookings PROVE <<b.driver, b.offer>> \notin Busy
      BY <1>1
    <2>1. b \in BookingsOf(b.offer)
      BY DEF BookingsOf
    <2>2. call[b.driver][b.offer] \notin {"redeem", "insert"}
      BY <1>1, <2>1 DEF AcceptInv, BookedIsClosed
    <2>3. call[b.driver][b.offer] # "refund"
      BY <1>1, <2>1 DEF RowsNotRefunded
    <2> QED BY <2>2, <2>3 DEF Held
  <1>4. /\ IsFiniteSet(Spots) /\ IsFiniteSet(Held)
        /\ Cardinality(Held) \in Nat /\ Cardinality(bookings) \in Nat
    BY Finite
  <1>5. Cardinality(Busy) = Cardinality(Held) + 1 /\ IsFiniteSet(Busy)
    <2>1. <<d, o>> \notin Held
      BY DEF Held
    <2> QED BY <1>4, <2>1, FS_AddElement
  <1>6. Cardinality(Rest) = Cardinality(Spots) - Cardinality(Busy) /\ IsFiniteSet(Rest)
    <2>1. Spots \cap Busy = Busy
      BY DEF Held
    <2>2. /\ IsFiniteSet(Spots \ Busy)
          /\ Cardinality(Spots \ Busy) = Cardinality(Spots) - Cardinality(Spots \cap Busy)
      BY <1>4, FS_Difference
    <2> HIDE DEF Spots, Busy
    <2> QED BY <2>1, <2>2
  <1>7. Cardinality(bookings) <= Cardinality(Rest)
    <2>1. spot \in [bookings -> Rest]
      BY <1>3
    <2>2. spot \in Injection(bookings, Rest)
      BY <2>1, <1>2 DEF Injection, IsInjective
    <2> QED BY <2>2, <1>6, FS_Injection
  <1>8. Cardinality(Spots) \in Nat /\ Cardinality(Rest) \in Nat
    BY <1>4, <1>6, FS_CardinalityType
  <1> QED BY <1>4, <1>5, <1>6, <1>7, <1>8 DEF Taken

\* When the balance covers n redemptions and is nevertheless below one, at least
\* n of them are missing from it.
LEMMA ShortBalance ==
  ASSUME NEW c \in Nat, NEW i \in Int, NEW n \in Nat, NEW m \in Int,
         c * n <= i, i - c * m < c
  PROVE  n <= m
  <1> SUFFICES ASSUME m + 1 <= n PROVE FALSE
    OBVIOUS
  <1>1. PICK k \in Nat : n = m + 1 + k
    <2>1. n - m - 1 \in Nat /\ n = m + 1 + (n - m - 1)
      OBVIOUS
    <2> QED BY <2>1
  <1>2. c * n = c * m + c + c * k
    BY <1>1
  <1>3. c * k \in Nat /\ c * m \in Int
    OBVIOUS
  <1> QED BY <1>2, <1>3

\* What moving one call to another stage does to the calls that hold coins.
LEMMA Moved ==
  ASSUME Typed, NEW d \in Drivers, NEW o \in Offers, NEW s \in Stage, GoTo(d, o, s)
  PROVE  Held' = IF s \in {"insert", "refund"} THEN Held \cup {<<d, o>>} ELSE Held \ {<<d, o>>}
  <1>1. call \in [Drivers -> [Offers -> Stage]]
    BY DEF Typed, TypeOK
  <1>2. \A e \in Drivers, q \in Offers : call'[e][q] = IF e = d /\ q = o THEN s ELSE call[e][q]
    BY <1>1 DEF GoTo
  <1> QED BY <1>2 DEF Held

\* At start there is no row, and the balance is whole.
LEMMA AccountInvInit == IsFiniteSet(Offers) /\ Init => AccountInv
  <1> SUFFICES ASSUME IsFiniteSet(Offers), Init PROVE AccountInv
    OBVIOUS
  <1>1. bookings = {} /\ Held = {} /\ coins = InitialCoins /\ unfounded = 0
    BY DEF Init, Held
  <1>2. Taken = 0
    BY <1>1, EmptySearch DEF Taken
  <1>3. coins = InitialCoins - CoinsToRedeem * 0
    BY <1>1, ConstantsAssumption
  <1>4. CoinsInv
    BY <1>1, <1>2, <1>3 DEF CoinsInv
  <1> QED BY <1>1, <1>4 DEF AccountInv, RowsNumbered, RowsNotRefunded, BookingsOf

\* A step that neither moves coins nor touches rows or calls that hold coins.
LEMMA CoinsQuiet ==
  ASSUME CoinsInv, UNCHANGED <<bookings, coins, crashes, unfounded>>, Held' = Held,
         disturbed \subseteq disturbed'
  PROVE  CoinsInv'
  <1>1. Taken' = Taken
    BY DEF Taken
  <1>2. Covered' => Covered
    BY DEF Covered
  <1> QED BY <1>1, <1>2 DEF CoinsInv

\* A call moves between stages that hold no coins.
LEMMA CoinsMove ==
  ASSUME Typed, CoinsInv, UNCHANGED <<bookings, coins, crashes, disturbed, unfounded>>,
         NEW d \in Drivers, NEW o \in Offers, NEW s \in Stage \ {"insert", "refund"},
         call[d][o] \notin {"insert", "refund"}, GoTo(d, o, s)
  PROVE  CoinsInv'
  <1>1. Held' = Held \ {<<d, o>>}
    BY Moved
  <1>2. <<d, o>> \notin Held
    BY DEF Held
  <1>3. Held' = Held
    BY <1>1, <1>2
  <1> QED BY <1>3, CoinsQuiet

\* One more call comes to hold coins.
LEMMA OneMoreHeld ==
  ASSUME IsFiniteSet(Offers), Typed, bookings' = bookings,
         NEW d \in Drivers, NEW o \in Offers, call[d][o] \notin {"insert", "refund"},
         NEW s \in {"insert", "refund"}, GoTo(d, o, s)
  PROVE  Taken' = Taken + 1 /\ Taken \in Nat
  <1>1. Held' = Held \cup {<<d, o>>}
    BY Moved DEF Stage
  <1>2. <<d, o>> \notin Held
    BY DEF Held
  <1>3. Cardinality(Held') = Cardinality(Held) + 1
    BY <1>1, <1>2, Finite, FS_AddElement
  <1> QED BY <1>3, Finite DEF Taken

\* redeemCoins takes one redemption from the balance and gives it to a call.
LEMMA CoinsRedeemed ==
  ASSUME IsFiniteSet(Offers), Typed, CoinsInv, UNCHANGED <<bookings, crashes, disturbed, unfounded>>,
         NEW d \in Drivers, NEW o \in Offers, call[d][o] \notin {"insert", "refund"},
         GoTo(d, o, "insert"), coins' = coins - CoinsToRedeem
  PROVE  CoinsInv'
  <1>1. Taken' = Taken + 1 /\ Taken \in Nat /\ unfounded \in Nat
    BY OneMoreHeld, Finite
  <1> SUFFICES ASSUME Covered
               PROVE  \E m \in Int : /\ coins' = InitialCoins - CoinsToRedeem * m
                                     /\ Taken' - unfounded <= m
                                     /\ crashes' = 0 => m = Taken' - unfounded
    BY DEF CoinsInv, Covered
  <1>2. PICK m \in Int : /\ coins = InitialCoins - CoinsToRedeem * m
                         /\ Taken - unfounded <= m /\ (crashes = 0 => m = Taken - unfounded)
    BY DEF CoinsInv
  <1>3. CoinsToRedeem * (m + 1) = CoinsToRedeem * m + CoinsToRedeem
    BY ConstantsAssumption
  <1>4. CoinsToRedeem * m \in Int /\ CoinsToRedeem \in Nat /\ InitialCoins \in Nat
    BY ConstantsAssumption
  <1>5. coins' = InitialCoins - CoinsToRedeem * (m + 1)
    BY <1>2, <1>3, <1>4
  <1>6. Taken' - unfounded <= m + 1 /\ (crashes' = 0 => m + 1 = Taken' - unfounded)
    BY <1>1, <1>2
  <1> QED BY <1>5, <1>6

\* A redeemCoins that finds the balance short books without paying, but never
\* more than a restart has lost before; without a restart the balance is not
\* short.
LEMMA CoinsShort ==
  ASSUME IsFiniteSet(Offers), Typed, AcceptInv, AccountInv,
         UNCHANGED <<bookings, crashes, disturbed, unfounded, coins>>,
         NEW d \in Drivers, NEW o \in Offers, call[d][o] = "redeem",
         GoTo(d, o, "insert"), coins < CoinsToRedeem
  PROVE  CoinsInv'
  <1>1. Taken' = Taken + 1 /\ Taken \in Nat /\ unfounded \in Nat
    BY OneMoreHeld, Finite
  <1> SUFFICES ASSUME Covered
               PROVE  \E m \in Int : /\ coins = InitialCoins - CoinsToRedeem * m
                                     /\ Taken' - unfounded <= m
                                     /\ crashes = 0 => m = Taken' - unfounded
    BY DEF CoinsInv, Covered
  <1>2. PICK m \in Int : /\ coins = InitialCoins - CoinsToRedeem * m
                         /\ Taken - unfounded <= m /\ (crashes = 0 => m = Taken - unfounded)
    BY DEF CoinsInv, AccountInv
  <1>3. /\ Taken + 1 <= Cardinality(Drivers \X Offers)
        /\ Cardinality(Drivers \X Offers) \in Nat
    BY RoomForOne, Finite DEF Covered, AccountInv
  <1>4. Cardinality(Drivers \X Offers) <= m
    <2>1. InitialCoins - CoinsToRedeem * m < CoinsToRedeem
      BY <1>2
    <2>2. CoinsToRedeem * Cardinality(Drivers \X Offers) <= InitialCoins
      BY DEF Covered
    <2> QED BY <1>3, <2>1, <2>2, ShortBalance, ConstantsAssumption
  <1>5. Taken' - unfounded <= m /\ crashes # 0
    BY <1>1, <1>2, <1>3, <1>4
  <1> QED BY <1>2, <1>5

\* A redemption whose UPDATE threw is one more to refund and one more unfounded.
LEMMA CoinsUnfounded ==
  ASSUME IsFiniteSet(Offers), Typed, CoinsInv,
         NEW d \in Drivers, NEW o \in Offers, AcceptRedeemFails(d, o)
  PROVE  CoinsInv'
  <1>1. /\ call[d][o] = "redeem" /\ GoTo(d, o, "refund") /\ unfounded' = unfounded + 1
        /\ UNCHANGED <<bookings, coins, crashes, disturbed>>
    BY DEF AcceptRedeemFails, Abort
  <1>2. Taken' = Taken + 1 /\ Taken \in Nat /\ unfounded \in Nat
    BY <1>1, OneMoreHeld, Finite
  <1>3. Taken' - unfounded' = Taken - unfounded
    BY <1>1, <1>2
  <1> QED BY <1>1, <1>3 DEF CoinsInv, Covered

\* The refund undoes the redemption that the call held.
LEMMA CoinsRefunded ==
  ASSUME IsFiniteSet(Offers), Typed, CoinsInv,
         NEW d \in Drivers, NEW o \in Offers, AcceptRefund(d, o)
  PROVE  CoinsInv'
  <1>1. /\ call[d][o] = "refund" /\ GoTo(d, o, "idle") /\ coins' = coins + CoinsToRedeem
        /\ UNCHANGED <<bookings, crashes, disturbed, unfounded>>
    BY DEF AcceptRefund
  <1>2. Held' = Held \ {<<d, o>>} /\ <<d, o>> \in Held
    BY <1>1, Moved DEF Stage, Held
  <1>3. Cardinality(Held') = Cardinality(Held) - 1
    BY <1>2, Finite, FS_RemoveElement
  <1>4. Taken' = Taken - 1 /\ Taken \in Nat /\ unfounded \in Nat
    BY <1>1, <1>3, Finite DEF Taken
  <1> SUFFICES ASSUME Covered
               PROVE  \E m \in Int : /\ coins' = InitialCoins - CoinsToRedeem * m
                                     /\ Taken' - unfounded <= m
                                     /\ crashes = 0 => m = Taken' - unfounded
    BY <1>1 DEF CoinsInv, Covered
  <1>5. PICK m \in Int : /\ coins = InitialCoins - CoinsToRedeem * m
                         /\ Taken - unfounded <= m /\ (crashes = 0 => m = Taken - unfounded)
    BY DEF CoinsInv
  <1>6. CoinsToRedeem * m = CoinsToRedeem * (m - 1) + CoinsToRedeem
    BY ConstantsAssumption
  <1>7. CoinsToRedeem * (m - 1) \in Int /\ CoinsToRedeem \in Nat /\ InitialCoins \in Nat
    BY ConstantsAssumption
  <1>8. coins' = InitialCoins - CoinsToRedeem * (m - 1)
    BY <1>1, <1>5, <1>6, <1>7
  <1>9. Taken' - unfounded <= m - 1 /\ (crashes = 0 => m - 1 = Taken' - unfounded)
    BY <1>4, <1>5
  <1> QED BY <1>8, <1>9

\* The INSERT gives what the call holds to a new row.
LEMMA CoinsBooked ==
  ASSUME IsFiniteSet(Offers), Typed, RowsNumbered, CoinsInv,
         NEW d \in Drivers, NEW o \in Offers, AcceptInsert(d, o)
  PROVE  RowsNumbered' /\ CoinsInv'
  <1> DEFINE b == [id |-> Cardinality(bookings) + 1, offer |-> o, driver |-> d,
                   fare |-> snap[d][o], active |-> TRUE]
  <1>1. /\ call[d][o] = "insert" /\ bookings' = bookings \cup {b} /\ GoTo(d, o, "publish")
        /\ UNCHANGED <<coins, crashes, disturbed, unfounded>>
    BY DEF AcceptInsert
  <1>2. Held' = Held \ {<<d, o>>} /\ <<d, o>> \in Held
    BY <1>1, Moved DEF Stage, Held
  <1>3. Cardinality(Held') = Cardinality(Held) - 1
    BY <1>2, Finite, FS_RemoveElement
  <1>4. b.id = Cardinality(bookings) + 1
    OBVIOUS
  <1> HIDE DEF b
  <1>5. Cardinality(bookings) \in Nat /\ Cardinality(Held) \in Nat
    BY Finite
  <1>6. b \notin bookings
    BY <1>4, <1>5 DEF RowsNumbered
  <1>7. Cardinality(bookings') = Cardinality(bookings) + 1
    BY <1>1, <1>6, Finite, FS_AddElement
  <1>8. RowsNumbered'
    BY <1>1, <1>4, <1>5, <1>7 DEF RowsNumbered
  <1>9. Taken' = Taken
    BY <1>3, <1>5, <1>7 DEF Taken
  <1> QED BY <1>1, <1>8, <1>9 DEF CoinsInv, Covered

\* The end of a trip leaves as many rows, with the same numbers and drivers.
LEMMA CoinsTripEnds ==
  ASSUME Typed, AccountInv, NEW b \in bookings, TripEnds(b)
  PROVE  AccountInv'
  <1> DEFINE e == [b EXCEPT !.active = FALSE]
  <1>1. /\ b.active /\ bookings' = (bookings \ {b}) \cup {e}
        /\ UNCHANGED <<call, coins, crashes, disturbed, unfounded>>
    BY DEF TripEnds
  <1>2. e.id = b.id /\ e.offer = b.offer /\ e.driver = b.driver /\ ~e.active
    <2>1. b \in Booking
      BY DEF Typed, TypeOK
    <2> QED BY <2>1 DEF Booking
  <1> HIDE DEF e
  <1>3. e \notin bookings
    BY <1>1, <1>2 DEF AccountInv, RowsNumbered
  <1>4. IsFiniteSet(bookings \ {b}) /\ Cardinality(bookings \ {b}) = Cardinality(bookings) - 1
    BY FS_RemoveElement DEF Typed
  <1>5. Cardinality(bookings') = Cardinality(bookings \ {b}) + 1
    BY <1>1, <1>3, <1>4, FS_AddElement
  <1>6. Cardinality(bookings') = Cardinality(bookings)
    <2>1. Cardinality(bookings) \in Nat
      BY FS_CardinalityType DEF Typed
    <2> QED BY <1>4, <1>5, <2>1
  <1>7. RowsNumbered'
    BY <1>1, <1>2, <1>6 DEF AccountInv, RowsNumbered
  <1>8. RowsNotRefunded'
    BY <1>1, <1>2 DEF AccountInv, RowsNotRefunded, BookingsOf
  <1>9. Held' = Held
    BY <1>1 DEF Held
  <1>10. Taken' = Taken
    BY <1>6, <1>9 DEF Taken
  <1> QED BY <1>1, <1>7, <1>8, <1>10 DEF AccountInv, CoinsInv, Covered

\* A restart loses what the calls held.
LEMMA CoinsCrash ==
  ASSUME IsFiniteSet(Offers), Typed, CoinsInv, Crash
  PROVE  CoinsInv'
  <1>1. /\ call' = [d \in Drivers |-> [o \in Offers |-> "idle"]] /\ crashes' = crashes + 1
        /\ UNCHANGED <<bookings, coins, unfounded>> /\ disturbed \subseteq disturbed'
    BY DEF Crash
  <1>2. Held' = {}
    BY <1>1 DEF Held
  <1>3. Taken' <= Taken /\ Taken' \in Nat /\ Taken \in Nat /\ unfounded \in Nat
    BY <1>1, <1>2, Finite, EmptySearch DEF Taken
  <1>4. crashes' # 0
    <2>1. crashes \in Nat
      BY DEF Typed, TypeOK
    <2> QED BY <2>1, <1>1
  <1>5. Covered' => Covered
    BY <1>1 DEF Covered
  <1> SUFFICES ASSUME Covered
               PROVE  \E m \in Int : /\ coins' = InitialCoins - CoinsToRedeem * m
                                     /\ Taken' - unfounded' <= m
                                     /\ crashes' = 0 => m = Taken' - unfounded'
    BY <1>5 DEF CoinsInv
  <1>6. PICK m \in Int : coins = InitialCoins - CoinsToRedeem * m /\ Taken - unfounded <= m
    BY DEF CoinsInv
  <1>7. Taken' - unfounded' <= m
    <2>1. unfounded' = unfounded /\ m \in Int /\ Taken - unfounded <= m
      BY <1>1, <1>6
    <2>2. \A a, b, u \in Nat : a <= b /\ b - u <= m => a - u <= m
      OBVIOUS
    <2> QED BY <2>1, <2>2, <1>3
  <1> QED BY <1>1, <1>4, <1>6, <1>7

\* A step that adds no row keeps the numbers of the rows, and their drivers'
\* calls, unless it sends one of them to its refund.
LEMMA RowsQuiet ==
  ASSUME Typed, RowsNumbered, RowsNotRefunded, bookings' = bookings, disturbed \subseteq disturbed',
         \A d \in Drivers, o \in Offers \ disturbed' :
           call'[d][o] = "refund" /\ call[d][o] # "refund" => BookingsOf(o) = {}
  PROVE  RowsNumbered' /\ RowsNotRefunded'
  <1>1. RowsNumbered'
    BY DEF RowsNumbered
  <1>2. \A b \in bookings : b.driver \in Drivers
    BY DEF Typed, TypeOK, Booking
  <1>3. RowsNotRefunded'
    BY <1>2 DEF RowsNotRefunded, BookingsOf
  <1> QED BY <1>1, <1>3

\* Each step of an accept keeps the account of the balance.
LEMMA AccountInvAccept ==
  ASSUME IsFiniteSet(Offers), Typed, AcceptInv, AccountInv,
         NEW d \in Drivers, NEW o \in Offers, AcceptStep(d, o)
  PROVE  AccountInv'
  <1> USE DEF redis
  <1>a. call \in [Drivers -> [Offers -> Stage]] /\ bookings \subseteq Booking /\ coins \in Int
    BY DEF Typed, TypeOK
  <1>b. RowsNumbered /\ RowsNotRefunded /\ CoinsInv
    BY DEF AccountInv
  <1>c. ASSUME UNCHANGED <<bookings, disturbed>>, NEW s \in Stage \ {"refund"}, GoTo(d, o, s)
        PROVE  RowsNumbered' /\ RowsNotRefunded'
    <2>1. \A e \in Drivers, q \in Offers : call'[e][q] = "refund" => call[e][q] = "refund"
      BY <1>a, <1>c DEF GoTo
    <2> QED BY <1>b, <1>c, <2>1, RowsQuiet
  <1>1. CASE AcceptLock(d, o)
    BY <1>1, <1>b, <1>c, CoinsMove DEF AcceptLock, Stage, AccountInv
  <1>2. CASE AcceptLocked(d, o)
    BY <1>2, <1>b, <1>c, CoinsMove DEF AcceptLocked, Finish, Stage, AccountInv
  <1>3. CASE AcceptGuard(d, o)
    <2>1. /\ call[d][o] = "guard" /\ UNCHANGED <<bookings, coins, crashes, disturbed, unfounded>>
          /\ GoTo(d, o, IF CoinsToRedeem > 0 THEN "redeem" ELSE "insert")
      BY <1>3 DEF AcceptGuard
    <2>2. CASE CoinsToRedeem > 0
      BY <2>1, <2>2, <1>b, <1>c, CoinsMove DEF Stage, AccountInv
    <2>3. CASE ~(CoinsToRedeem > 0)
      <3>1. coins' = coins - CoinsToRedeem
        BY <1>a, <2>1, <2>3, ConstantsAssumption
      <3>2. GoTo(d, o, "insert")
        BY <2>1, <2>3
      <3>3. CoinsInv'
        BY <1>b, <2>1, <3>1, <3>2, CoinsRedeemed
      <3> QED BY <2>1, <3>2, <3>3, <1>c DEF Stage, AccountInv
    <2> QED BY <2>2, <2>3
  <1>4. CASE AcceptRefuse(d, o)
    BY <1>4, <1>b, <1>c, CoinsMove DEF AcceptRefuse, Finish, Stage, AccountInv
  <1>5. CASE AcceptRedeem(d, o)
    <2>1. /\ call[d][o] = "redeem" /\ GoTo(d, o, "insert")
          /\ UNCHANGED <<bookings, crashes, disturbed, unfounded>>
          /\ coins' = IF coins >= CoinsToRedeem THEN coins - CoinsToRedeem ELSE coins
      BY <1>5 DEF AcceptRedeem
    <2>2. CASE coins >= CoinsToRedeem
      BY <1>b, <2>1, <2>2, <1>c, CoinsRedeemed DEF Stage, AccountInv
    <2>3. CASE ~(coins >= CoinsToRedeem)
      <3>1. coins < CoinsToRedeem /\ coins' = coins
        BY <1>a, <2>1, <2>3, ConstantsAssumption
      <3>2. CoinsInv'
        BY <2>1, <3>1, CoinsShort
      <3> QED BY <2>1, <3>2, <1>c DEF Stage, AccountInv
    <2> QED BY <2>2, <2>3
  <1>6. CASE AcceptRedeemFails(d, o)
    <2>1. /\ call[d][o] = "redeem" /\ GoTo(d, o, "refund") /\ UNCHANGED <<bookings, disturbed>>
      BY <1>6 DEF AcceptRedeemFails, Abort
    <2>2. o \notin disturbed => BookingsOf(o) = {}
      BY <2>1 DEF AcceptInv, BookedIsClosed
    <2>3. \A e \in Drivers, q \in Offers :
            call'[e][q] = "refund" /\ call[e][q] # "refund" => q = o
      BY <1>a, <2>1 DEF GoTo
    <2>4. RowsNumbered' /\ RowsNotRefunded'
      BY <1>b, <2>1, <2>2, <2>3, RowsQuiet
    <2> QED BY <1>6, <1>b, <2>4, CoinsUnfounded DEF AccountInv
  <1>7. CASE AcceptInsert(d, o)
    <2> DEFINE b == [id |-> Cardinality(bookings) + 1, offer |-> o, driver |-> d,
                     fare |-> snap[d][o], active |-> TRUE]
    <2>1. /\ call[d][o] = "insert" /\ GoTo(d, o, "publish") /\ disturbed' = disturbed
          /\ bookings' = bookings \cup {b}
      BY <1>7 DEF AcceptInsert
    <2>2. b.offer = o /\ b.driver = d
      OBVIOUS
    <2> HIDE DEF b
    <2>3. call'[d][o] = "publish" /\ \A e \in Drivers, q \in Offers :
            call'[e][q] = "refund" => call[e][q] = "refund"
      BY <1>a, <2>1 DEF GoTo
    <2>4. \A c \in bookings : c.driver \in Drivers
      BY <1>a DEF Booking
    <2>5. RowsNotRefunded'
      BY <1>b, <2>1, <2>2, <2>3, <2>4 DEF RowsNotRefunded, BookingsOf
    <2> QED BY <1>7, <1>b, <2>5, CoinsBooked DEF AccountInv
  <1>8. CASE AcceptInsertFails(d, o)
    <2>1. /\ call[d][o] = "insert" /\ GoTo(d, o, "refund")
          /\ UNCHANGED <<bookings, disturbed, coins, crashes, unfounded>>
      BY <1>8 DEF AcceptInsertFails, Abort
    <2>2. o \notin disturbed => BookingsOf(o) = {}
      BY <2>1 DEF AcceptInv, BookedIsClosed
    <2>3. \A e \in Drivers, q \in Offers :
            call'[e][q] = "refund" /\ call[e][q] # "refund" => q = o
      BY <1>a, <2>1 DEF GoTo
    <2>4. RowsNumbered' /\ RowsNotRefunded'
      BY <1>b, <2>1, <2>2, <2>3, RowsQuiet
    <2>5. Held' = Held
      <3>1. Held' = Held \cup {<<d, o>>}
        BY <2>1, Moved DEF Stage
      <3>2. <<d, o>> \in Held
        BY <2>1 DEF Held
      <3> QED BY <3>1, <3>2
    <2>6. CoinsInv'
      BY <1>b, <2>1, <2>5, CoinsQuiet
    <2> QED BY <2>4, <2>6 DEF AccountInv
  <1>9. CASE AcceptPublish(d, o)
    BY <1>9, <1>b, <1>c, CoinsMove DEF AcceptPublish, Stage, AccountInv
  <1>10. CASE AcceptPublishFails(d, o)
    <2>1. /\ disturbed' = disturbed \cup {o} /\ bookings' = bookings
          /\ GoTo(d, o, "refund")
      BY <1>10 DEF AcceptPublishFails, Abort
    <2>2. \A e \in Drivers, q \in Offers :
            call'[e][q] = "refund" /\ call[e][q] # "refund" => q = o
      BY <1>a, <2>1 DEF GoTo
    <2>3. RowsNumbered' /\ RowsNotRefunded'
      BY <1>b, <2>1, <2>2, RowsQuiet
    <2>4. CoinsInv'
      BY <2>1 DEF CoinsInv, Covered
    <2> QED BY <2>3, <2>4 DEF AccountInv
  <1>11. CASE AcceptRefund(d, o)
    <2>1. UNCHANGED <<bookings, disturbed>> /\ GoTo(d, o, "idle")
      BY <1>11 DEF AcceptRefund
    <2> QED BY <1>11, <1>b, <2>1, <1>c, CoinsRefunded DEF Stage, AccountInv
  <1>12. CASE AcceptCleanup(d, o)
    BY <1>12, <1>b, <1>c, CoinsMove DEF AcceptCleanup, Finish, Stage, AccountInv
  <1> QED BY <1>1, <1>2, <1>3, <1>4, <1>5, <1>6, <1>7, <1>8, <1>9, <1>10, <1>11, <1>12 DEF AcceptStep

\* Each step keeps the account of the balance.
LEMMA AccountInvNext ==
  IsFiniteSet(Offers) /\ Typed /\ AcceptInv /\ AccountInv /\ [Next]_vars => AccountInv'
  <1> SUFFICES ASSUME IsFiniteSet(Offers), Typed, AcceptInv, AccountInv, [Next]_vars
               PROVE  AccountInv'
    OBVIOUS
  <1> USE DEF redis
  <1>a. ASSUME UNCHANGED <<bookings, coins, crashes, call, unfounded>>, disturbed \subseteq disturbed'
        PROVE  AccountInv'
    <2>1. Held' = Held
      BY <1>a DEF Held
    <2>2. CoinsInv'
      BY <1>a, <2>1, CoinsQuiet DEF AccountInv
    <2> QED BY <1>a, <2>2, RowsQuiet DEF AccountInv
  <1>1. CASE CustomerStep
    <2>1. UNCHANGED <<bookings, coins, crashes, call, disturbed, unfounded>>
      BY <1>1 DEF CustomerStep, Create, UpdateFareRead, RetryRead, CancelOffer
    <2> QED BY <2>1, <1>a
  <1>2. CASE SearchStep
    <2>1. UNCHANGED <<bookings, coins, crashes, call, unfounded>>
      BY <1>2 DEF SearchStep, SearchBegin, OfferTimeoutRead, SearchTimeoutRead, BroadcastTimeout,
                  UpdateFareWrite, RetryWrite, SearchPrompt, SearchExhausted, Broadcast,
                  OfferTimeoutWrite, RejectWrite, Withdraw, SearchTimeoutWrite
    <2>2. disturbed \subseteq disturbed'
      BY <1>2 DEF SearchStep, SearchBegin, OfferTimeoutRead, SearchTimeoutRead, BroadcastTimeout,
                  UpdateFareWrite, RetryWrite, SearchPrompt, SearchExhausted, Broadcast,
                  OfferTimeoutWrite, RejectWrite, Withdraw, SearchTimeoutWrite
    <2> QED BY <2>1, <2>2, <1>a
  <1>3. ASSUME NEW d \in Drivers, NEW o \in Offers, DriverStep(d, o) PROVE AccountInv'
    <2>1. CASE RejectRead(d, o)
      BY <2>1, <1>a DEF RejectRead
    <2>2. CASE AcceptRead(d, o)
      <3>1. /\ call[d][o] = "idle" /\ GoTo(d, o, "lock")
            /\ UNCHANGED <<bookings, coins, crashes, disturbed, unfounded>>
        BY <2>2 DEF AcceptRead
      <3>2. CoinsInv'
        BY <3>1, CoinsMove DEF Stage, AccountInv
      <3>3. \A e \in Drivers, q \in Offers : call'[e][q] = "refund" => call[e][q] = "refund"
        BY <3>1 DEF GoTo, Typed, TypeOK
      <3> QED BY <3>1, <3>2, <3>3, RowsQuiet DEF AccountInv
    <2> QED BY <1>3, <2>1, <2>2 DEF DriverStep
  <1>4. ASSUME NEW d \in Drivers, NEW o \in Offers, AcceptStep(d, o) PROVE AccountInv'
    BY <1>4, AccountInvAccept
  <1>5. ASSUME NEW b \in bookings, TripEnds(b) PROVE AccountInv'
    BY <1>5, CoinsTripEnds
  <1>6. ASSUME NEW o \in Offers, ExpireOffer(o) \/ ExpirePrompt(o) \/ ExpireBroadcast(o) \/ ExpireLock(o)
        PROVE  AccountInv'
    <2>1. UNCHANGED <<bookings, coins, crashes, call, unfounded>> /\ disturbed \subseteq disturbed'
      BY <1>6 DEF ExpireOffer, ExpirePrompt, ExpireBroadcast, ExpireLock
    <2> QED BY <2>1, <1>a
  <1>7. CASE Crash
    <2>1. /\ bookings' = bookings /\ disturbed \subseteq disturbed'
          /\ call' = [d \in Drivers |-> [o \in Offers |-> "idle"]]
      BY <1>7 DEF Crash
    <2> QED BY <1>7, <2>1, CoinsCrash, RowsQuiet DEF AccountInv
  <1>8. CASE UNCHANGED vars
    BY <1>8, <1>a DEF vars
  <1> QED BY <1>1, <1>2, <1>3, <1>4, <1>5, <1>6, <1>7, <1>8 DEF Next, EnvStep

\* What left the balance is on the rows, in the calls about to insert and in
\* those about to refund: the coins a customer redeems are conserved, for any
\* number of offers and drivers the balance covers, of accepts at once, of failed
\* UPDATEs and INSERTs, and of restarts.
THEOREM CoinsKept == ASSUME IsFiniteSet(Offers) PROVE Spec => []CoinsConserved
  <1>1. Init => Typed /\ AcceptInv /\ AccountInv
    BY TypedInit, AcceptInvInit, AccountInvInit
  <1>2. Typed /\ AcceptInv /\ AccountInv /\ [Next]_vars => (Typed /\ AcceptInv /\ AccountInv)'
    BY TypedNext, AcceptInvNext, AccountInvNext
  <1>3. Typed /\ AccountInv => CoinsConserved
    <2> SUFFICES ASSUME Typed, AccountInv, Covered
                 PROVE  /\ coins + CoinsToRedeem * Taken <= InitialCoins + CoinsToRedeem * unfounded
                        /\ crashes = 0 =>
                             coins + CoinsToRedeem * Taken = InitialCoins + CoinsToRedeem * unfounded
      BY DEF CoinsConserved, Covered, Taken, Held
    <2>1. PICK m \in Int : /\ coins = InitialCoins - CoinsToRedeem * m
                           /\ Taken - unfounded <= m /\ (crashes = 0 => m = Taken - unfounded)
      BY DEF CoinsInv, AccountInv
    <2>2. Taken \in Nat /\ unfounded \in Nat
      BY Finite DEF Taken
    <2>3. CoinsToRedeem \in Nat /\ InitialCoins \in Nat
      BY ConstantsAssumption
    <2>4. PICK k \in Nat : m = Taken - unfounded + k /\ (crashes = 0 => k = 0)
      <3>1. m - Taken + unfounded \in Nat
        BY <2>1, <2>2
      <3> QED BY <2>1, <2>2, <3>1
    <2>5. CoinsToRedeem * m = CoinsToRedeem * Taken - CoinsToRedeem * unfounded + CoinsToRedeem * k
      BY <2>2, <2>3, <2>4
    <2>6. /\ CoinsToRedeem * k \in Nat /\ CoinsToRedeem * Taken \in Nat
          /\ CoinsToRedeem * unfounded \in Nat /\ (k = 0 => CoinsToRedeem * k = 0)
      BY <2>2, <2>3, <2>4
    <2> HIDE DEF Taken
    <2> QED BY <2>1, <2>3, <2>4, <2>5, <2>6
  <1> QED BY <1>1, <1>2, <1>3, PTL DEF Spec
=============================================================================
