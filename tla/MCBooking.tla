----------------------------- MODULE MCBooking -----------------------------
(* Instances of Booking: one tenant, on one phone or on two.               *)
EXTENDS Booking, TLC

CONSTANTS u1, t1, t2, r1, r2, r3

OneUser == [d \in Devices |-> u1]

\* Rooms whose landlords chose the same title, and one of another.
SharedTitle == [r \in Rooms |-> IF r = r3 THEN t2 ELSE t1]

Symmetric == Permutations(Devices) \cup Permutations(Slots) \cup Permutations({r1, r2})
=============================================================================
