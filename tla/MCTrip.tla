------------------------------- MODULE MCTrip -------------------------------
(* Instances of Trip for TLC. *)
EXTENDS Trip, TLC

CONSTANTS b1, d1, d2

OneBooking == {b1}
OneDriver == {d1}
TwoDrivers == {d1, d2}
AllByD1 == [b \in Bookings |-> d1]
=============================================================================
