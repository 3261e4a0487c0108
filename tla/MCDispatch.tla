----------------------------- MODULE MCDispatch -----------------------------
(* Instances of Dispatch for TLC. *)
EXTENDS Dispatch, TLC

CONSTANTS o1, o2, d1, d2

OneOffer == {o1}
TwoOffers == {o1, o2}
OneDriver == {d1}
TwoDrivers == {d1, d2}
DriverSymmetry == Permutations({d1, d2})
=============================================================================
