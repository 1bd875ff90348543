---------------------------- MODULE MCBusBooking ----------------------------
(* Small instances of BusBooking. *)
EXTENDS BusBooking, TLC

CONSTANTS b1, b2, p1, p2, p3, u1, u2

\* A booking of two passengers.
OneFamily == (p1 :> b1) @@ (p2 :> b1)
OneUser == b1 :> u1

\* A booking of one passenger.
OneSingle == p1 :> b1

\* A booking of two passengers and one of one, made by two users.
FamilyAndSingle == (p1 :> b1) @@ (p2 :> b1) @@ (p3 :> b2)

\* One passenger on each of two bookings, made by two users.
TwoSingles == (p1 :> b1) @@ (p2 :> b2)
TwoUsers == (b1 :> u1) @@ (b2 :> u2)

HandlerSymmetry == Permutations(Handler)
SeatSymmetry == HandlerSymmetry \cup Permutations(Seat)
=============================================================================
