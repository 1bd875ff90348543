--------------------------- MODULE MCFlightBooking ---------------------------
(* Small instances of FlightBooking. *)
EXTENDS FlightBooking, TLC

CONSTANTS b1, b2, p1, p2, p3

\* b1 has two passengers, b2 one.
FamilyAndSingle == (p1 :> b1) @@ (p2 :> b1) @@ (p3 :> b2)

\* A booking of two passengers.
OneFamily == (p1 :> b1) @@ (p2 :> b1)

\* One passenger on each of two bookings.
TwoSingles == (p1 :> b1) @@ (p2 :> b2)

HandlerSymmetry == Permutations(Consumer) \cup Permutations(Request)
SeatSymmetry == HandlerSymmetry \cup Permutations(Seat)
=============================================================================
