------------------------------- MODULE MCLive --------------------------------
(***************************************************************************)
(* What must eventually happen, in one run: top-ups (Topups, whose         *)
(* constants the .cfg gives), and an instance of Trip, of Blocks and of    *)
(* Settings with the bounds written below.  They share no state here, so a *)
(* behaviour is about one of them, the one at work; the rest stay as they  *)
(* start, where nothing that is fair is enabled.                           *)
(***************************************************************************)
EXTENDS Topups

VARIABLES
  at_work,
  \* Trip
  booking, handoff, handoffLock, expiry, sla, ghost, grace, marker, connected, returned, trip_calls,
  incidents, resolving, frozen, banned, trip_crashes, trip_disturbed, transfers, doubled, unattended,
  \* Blocks
  block, issued, due, active, block_calls, block_crashes, barred,
  \* Settings
  stored, cache, fresh, read_calls, updates, failures

\* A delivery, two drivers, a call at once, a restart; no guard fires.
Handoffs == INSTANCE Trip WITH
  Bookings <- {"b1"}, Drivers <- {"d1", "d2"}, NoDriver <- "none", NoBooking <- "none",
  Assigned <- [b \in {"b1"} |-> "d1"], MayDrop <- {}, MaxCalls <- 1, MaxGhosts <- 0,
  MaxTransfers <- 2, MaxIncidents <- 0, MaxCrashes <- 1,
  row <- booking, calls <- trip_calls, crashes <- trip_crashes, disturbed <- trip_disturbed

Suspensions == INSTANCE Blocks WITH
  MaxBlocks <- 2, MaxCalls <- 2, MaxCrashes <- 1,
  calls <- block_calls, crashes <- block_crashes

Cached == INSTANCE Settings WITH
  Values <- {0, 8}, MaxCalls <- 2, MaxUpdates <- 1, MaxFailures <- 2, calls <- read_calls

\* How a top-up is made varies in Topups alone.
LiveInit ==
  /\ at_work \in {"topups", "handoffs", "blocks", "settings"}
  /\ Init /\ Handoffs!Init /\ Suspensions!Init /\ Cached!Init
  /\ at_work # "topups" => \A r \in Refs : via[r] = "utr"

handoffs == <<booking, handoff, handoffLock, expiry, sla, ghost, grace, marker, connected, returned,
              trip_calls, incidents, resolving, frozen, banned, trip_crashes, trip_disturbed, transfers,
              doubled, unattended>>
blocks == <<block, issued, due, active, block_calls, block_crashes, barred>>
settings == <<stored, cache, fresh, read_calls, updates, failures>>

LiveNext ==
  /\ UNCHANGED at_work
  /\ IF at_work = "topups" THEN Next ELSE UNCHANGED vars
  /\ IF at_work = "handoffs" THEN Handoffs!Next ELSE UNCHANGED handoffs
  /\ IF at_work = "blocks" THEN Suspensions!Next ELSE UNCHANGED blocks
  /\ IF at_work = "settings" THEN Cached!Next ELSE UNCHANGED settings

LiveSpec ==
  /\ LiveInit /\ [][LiveNext]_<<at_work, vars, handoffs, blocks, settings>>
  /\ Fairness /\ Handoffs!Fairness /\ Suspensions!Fairness /\ Cached!Fairness

\* A request to be relieved of a delivery ends.
HandoffEnds == Handoffs!HandoffEnds
\* No booking stays locked against handoffs.
HandoffLockReleased == Handoffs!HandoffLockReleased
\* A suspension ends.
SuspensionEnds == Suspensions!SuspensionEnds
\* The settings in use become those stored.
SettingsCatchUp == Cached!SettingsCatchUp
=============================================================================
