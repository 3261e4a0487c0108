------------------------------- MODULE Coupons -------------------------------
(***************************************************************************)
(* One coupon with a cap on all its uses and one on each customer's.  It   *)
(* is validated when an offer is made and its use is recorded when a       *)
(* driver accepts the offer, minutes later; an admin edits or removes it.  *)
(* An accept that has found its offer books it although it is cancelled    *)
(* meanwhile, and two accepts may book the same one (Dispatch has how).    *)
(***************************************************************************)
EXTENDS Integers, FiniteSets

CONSTANTS
  Offers,      \* offers made with the coupon
  Customers,
  Cap,         \* max_uses_total
  PerUser,     \* max_uses_per_user
  FirstRide,   \* is_first_ride_only
  MaxAccepts,  \* bound: accepts of an offer that book it or may
  MaxEdits     \* bound: updates by an admin

VARIABLES
  coupon,      \* the row: exists, is_active, used_count
  usages,      \* rows of coupon_usages: the offer and which of its bookings
  rides,       \* customers with a completed ride
  offer,       \* each offer: whose, whether in Redis, accepts in flight, bookings made,
               \* and of how many of these the use is recorded or refused
  edit,        \* the row an admin's update has read
  edits,
  lost,        \* for properties only: an update wrote back an older used_count
  overlapped   \* for properties only: customers with two offers to be used at once

vars == <<coupon, usages, rides, offer, edit, edits, lost, overlapped>>

Coupon == [exists : BOOLEAN, active : BOOLEAN, used : Nat]
NoEdit == [exists |-> FALSE, active |-> FALSE, used |-> 0]
Offer == [by : Customers, stage : {"none", "open", "over"}, accepts : Nat, booked : Nat,
          settled : Nat]

Init ==
  /\ coupon = [exists |-> TRUE, active |-> TRUE, used |-> 0]
  /\ usages = {} /\ rides = {}
  /\ \E whose \in [Offers -> Customers] :
       offer = [o \in Offers |->
                  [by |-> whose[o], stage |-> "none", accepts |-> 0, booked |-> 0, settled |-> 0]]
  /\ edit = NoEdit /\ edits = 0
  /\ lost = FALSE /\ overlapped = {}

UsagesOf(u) == {r \in usages : offer[r[1]].by = u}
\* A first use of o's coupon may be to come.
Usable(o) ==
  \/ offer[o].booked = 0 /\ (offer[o].stage = "open" \/ offer[o].accepts > 0)
  \/ offer[o].booked > offer[o].settled
OpenOffers(u) == {o \in Offers : offer[o].by = u /\ Usable(o)}

\* _validateInternal: active (the dates are part of that), below both caps, and
\* no ride before.  The offer then carries its discount.
Validate(o) ==
  LET u == offer[o].by
  IN /\ offer[o].stage = "none"
     /\ coupon.exists /\ coupon.active
     /\ coupon.used < Cap /\ Cardinality(UsagesOf(u)) < PerUser
     /\ FirstRide => u \notin rides
     /\ offer' = [offer EXCEPT ![o].stage = "open"]
     /\ overlapped' = IF OpenOffers(u) # {} THEN overlapped \cup {u} ELSE overlapped
     /\ UNCHANGED <<coupon, usages, rides, edit, edits, lost>>

\* The offer is cancelled, times out, or has been accepted.
Drop(o) ==
  /\ offer[o].stage = "open" /\ offer' = [offer EXCEPT ![o].stage = "over"]
  /\ UNCHANGED <<coupon, usages, rides, edit, edits, lost, overlapped>>

\* acceptBooking finds the offer.
Accept(o) ==
  /\ offer[o].stage = "open" /\ offer[o].accepts + offer[o].booked < MaxAccepts
  /\ offer' = [offer EXCEPT ![o].accepts = @ + 1]
  /\ UNCHANGED <<coupon, usages, rides, edit, edits, lost, overlapped>>

\* It is refused: the lock is held, another driver has the offer, or an error.
AcceptFails(o) ==
  /\ offer[o].accepts > 0 /\ offer' = [offer EXCEPT ![o].accepts = @ - 1]
  /\ UNCHANGED <<coupon, usages, rides, edit, edits, lost, overlapped>>

\* It inserts the booking, discount included, and the offer may be over ...
Book(o) ==
  /\ offer[o].accepts > 0
  /\ offer' = [offer EXCEPT ![o].accepts = @ - 1, ![o].booked = @ + 1]
  /\ overlapped' = IF offer[o].booked > 0 THEN overlapped \cup {offer[o].by} ELSE overlapped
  /\ UNCHANGED <<coupon, usages, rides, edit, edits, lost>>

FaultyRecordUsage(o) ==  \* trusts the validation
  /\ offer[o].booked > offer[o].settled /\ coupon.exists
  /\ coupon' = [coupon EXCEPT !.used = @ + 1]
  /\ usages' = usages \cup {<<o, offer[o].settled>>}
  /\ offer' = [offer EXCEPT ![o].settled = @ + 1]
  /\ UNCHANGED <<rides, edit, edits, lost, overlapped>>

\* ... and then records the use, with the row locked: the cap on all uses is
\* looked at again, a customer's own is not.
RecordUsage(o) ==
  /\ offer[o].booked > offer[o].settled
  /\ coupon.exists /\ coupon.used < Cap
  /\ coupon' = [coupon EXCEPT !.used = @ + 1]
  /\ usages' = usages \cup {<<o, offer[o].settled>>}
  /\ offer' = [offer EXCEPT ![o].settled = @ + 1]
  /\ UNCHANGED <<rides, edit, edits, lost, overlapped>>

\* A refusal is logged: the booking keeps the discount.  So does one whose
\* accept was cut short here.
UsageNotRecorded(o) ==
  /\ offer[o].booked > offer[o].settled
  /\ offer' = [offer EXCEPT ![o].settled = @ + 1]
  /\ UNCHANGED <<coupon, usages, rides, edit, edits, lost, overlapped>>

CompleteRide(o) ==
  /\ offer[o].settled > 0
  /\ rides' = rides \cup {offer[o].by}
  /\ UNCHANGED <<coupon, usages, offer, edit, edits, lost, overlapped>>

\* update: reads the row, then saves it; used_count is written back if it has
\* changed before save looks at the row again.
EditRead ==
  /\ coupon.exists /\ edit = NoEdit /\ edits < MaxEdits
  /\ edit' = coupon /\ edits' = edits + 1
  /\ UNCHANGED <<coupon, usages, rides, offer, lost, overlapped>>

\* A row removed meanwhile is inserted again.
EditSave ==
  /\ edit # NoEdit
  /\ \E active \in BOOLEAN, used \in {edit.used} \cup (IF coupon.exists THEN {coupon.used} ELSE {}) :
       /\ coupon' = [exists |-> TRUE, active |-> active, used |-> used]
       /\ lost' = (lost \/ ~coupon.exists \/ used # coupon.used)
  /\ edit' = NoEdit
  /\ UNCHANGED <<usages, rides, offer, edits, overlapped>>

\* remove: the usages go with the row.
Remove ==
  /\ coupon.exists
  /\ coupon' = [NoEdit EXCEPT !.used = 0]
  /\ usages' = {}
  /\ UNCHANGED <<rides, offer, edit, edits, lost, overlapped>>

Next ==
  \/ \E o \in Offers :
       \/ Validate(o) \/ Drop(o)
       \/ Accept(o) \/ AcceptFails(o) \/ Book(o) \/ RecordUsage(o) \/ UsageNotRecorded(o)
       \/ CompleteRide(o)
  \/ EditRead \/ EditSave \/ Remove

Spec == Init /\ [][Next]_vars

(***************************************************************************)
(* Properties.                                                             *)
(***************************************************************************)

\* Every variable has its type.
TypeOK ==
  /\ coupon \in Coupon /\ edit \in Coupon /\ edits \in Nat
  /\ usages \subseteq Offers \X Nat /\ rides \subseteq Customers
  /\ offer \in [Offers -> Offer]
  /\ lost \in BOOLEAN /\ overlapped \subseteq Customers

\* "prevent over-use under concurrency": the uses recorded are those counted
\* and never exceed the cap, although many offers pass the validation at once;
\* only an admin's update over a recorded use breaks that.  A customer stays
\* below the own limit, whichever offers are cancelled before, during or after an
\* accept, unless a second offer is made before the first has been used, refused
\* or dropped with no accept in flight, or one offer is booked twice: that limit
\* is not looked at again.
CouponLimits ==
  /\ coupon.exists /\ ~lost =>
       /\ coupon.used <= Cap
       /\ coupon.used = Cardinality(usages)
  /\ \A u \in Customers \ overlapped : Cardinality(UsagesOf(u)) <= PerUser
=============================================================================
