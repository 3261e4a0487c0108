----------------------------- MODULE MCServices ------------------------------
(* The instance of Services for TLC. *)
EXTENDS Services

OneEach == [w \in Withdrawals |-> 1]
\* The rules fire at 3, 5 and 4 bookings, and a driver's third report is high.  The
\* windows of the first and the third slide past bookings.
BookingsOf == [post_accept |-> 3, rate |-> 5, rapid |-> 4, driver |-> 2]
ReportsOf == [post_accept |-> 1, rate |-> 1, rapid |-> 1, driver |-> 2]
AgedOf == [post_accept |-> 2, rate |-> 0, rapid |-> 1, driver |-> 0]
\* Rates are in rupees, fees and GST too.
SeededRate == [base |-> 35, free |-> 2, perKm |-> 7, pct |-> 20]
EditedRate == [base |-> 42, free |-> 0, perKm |-> 9, pct |-> 18]
Current == {[fee |-> 5, gst |-> 5]}
RidesOf == [u1 |-> 2, u2 |-> 1]
=============================================================================
