---------------------------- MODULE MCTrainBooking ----------------------------
(* Small instances of TrainBooking. *)
EXTENDS TrainBooking, TLC

CONSTANTS c1, c2, s1, s2

\* Two seats of one schedule, and a seat on each of two.
SameTrain == (s1 :> c1) @@ (s2 :> c1)
TwoTrains == (s1 :> c1) @@ (s2 :> c2)
OneSeat == s1 :> c1

\* The lock endpoint is used on the first seat of the first schedule.
FirstSeat == {<<c1, s1>>}

HandlerSymmetry == Permutations(Handler)
=============================================================================
