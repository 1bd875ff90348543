----------------------------- MODULE BusLayouts -----------------------------
(***************************************************************************)
(* The seats of a bus of bus-service.  Two programs draw them: the nightly *)
(* job counts one index through blocks of categories, whatever the layout  *)
(* of the bus type says, and the seeder walks the rows and columns of the  *)
(* layout.  A third list, of how many seats of each category are bought in *)
(* advance and so may be sold, is written down twice as well.  Berth types *)
(* and positions are left out.                                             *)
(***************************************************************************)
EXTENDS Naturals, FiniteSetsExt

Kind == {"seater", "semi_sleeper", "sleeper"}

\* data/bus_types.json: rows, and columns left and right of the aisle.
SeatLayout(kind) ==
  CASE kind = "seater"       -> [rows |-> 8, left |-> 2, right |-> 3]
    [] kind = "semi_sleeper" -> [rows |-> 8, left |-> 2, right |-> 2]
    [] kind = "sleeper"      -> [rows |-> 4, left |-> 1, right |-> 1]

Counts(w, m, g) == [WOMEN |-> w, MEN |-> m, GENERAL |-> g]
-----------------------------------------------------------------------------
(* The job. *)

\* resolvePrebookingConfig: seats, and seats bought in advance.
Total(kind) ==
  CASE kind = "seater"       -> Counts(8, 8, 24)
    [] kind = "semi_sleeper" -> Counts(8, 8, 16)
    [] kind = "sleeper"      -> Counts(0, 0, 16)

Active(kind, weekend) ==
  CASE kind = "seater"       -> IF weekend THEN Counts(5, 5, 14) ELSE Counts(3, 3, 10)
    [] kind = "semi_sleeper" -> IF weekend THEN Counts(4, 4, 11) ELSE Counts(3, 3, 7)
    [] kind = "sleeper"      -> IF weekend THEN Counts(0, 0, 10) ELSE Counts(0, 0, 6)

SumOf(counts) == counts.WOMEN + counts.MEN + counts.GENERAL

\* The number of the seat with an index: deck, row and column.
SeatNumber(kind, index) ==
  CASE kind = "seater"       -> <<"S", (index \div 5) + 1, (index % 5) + 1>>
    [] kind = "semi_sleeper" -> <<"S", (index \div 4) + 1, (index % 4) + 1>>
    [] kind = "sleeper"      -> <<IF index % 2 = 0 THEN "L" ELSE "U",
                                  (index \div 4) + 1, ((index % 4) \div 2) + 1>>

\* The block that an index falls into.
CategoryAt(kind, index) ==
  LET t == Total(kind) IN
  CASE index < t.WOMEN -> "WOMEN"
    [] index \in t.WOMEN..(t.WOMEN + t.MEN - 1) -> "MEN"
    [] OTHER -> "GENERAL"

BuildSeats(kind) ==
  {[number |-> SeatNumber(kind, index), category |-> CategoryAt(kind, index)] :
     index \in 0..(SumOf(Total(kind)) - 1)}
-----------------------------------------------------------------------------
(* The seeder. *)

\* Counting seats through the rows, the first eight are for women, the next
\* eight for men.
CategoryOf(counter) ==
  CASE counter < 8 -> "WOMEN"
    [] counter \in 8..15 -> "MEN"
    [] OTHER -> "GENERAL"

\* Two berths to a place, all of one category.
SleeperSeats(layout) ==
  {[number |-> <<deck, row, column>>, category |-> "GENERAL"] :
     deck \in {"L", "U"}, row \in 1..layout.rows, column \in 1..(layout.left + layout.right)}

CoachSeats(layout) ==
  LET columns == layout.left + layout.right IN
  {[number |-> <<"S", row, column>>,
    category |-> CategoryOf((row - 1) * columns + column - 1)] :
     row \in 1..layout.rows, column \in 1..columns}

\* One column on either side makes a sleeper.
ComputationallyMapSeats(kind) ==
  LET layout == SeatLayout(kind) IN
  IF layout.left = 1 /\ layout.right = 1 THEN SleeperSeats(layout) ELSE CoachSeats(layout)

\* applyPrebookingAvailability: its own list of the seats bought in advance.
Prebooked(kind, weekend) ==
  CASE kind = "sleeper"      -> Counts(0, 0, IF weekend THEN 10 ELSE 6)
    [] kind = "semi_sleeper" -> IF weekend THEN Counts(4, 4, 11) ELSE Counts(3, 3, 7)
    [] kind = "seater"       -> IF weekend THEN Counts(5, 5, 14) ELSE Counts(3, 3, 10)
-----------------------------------------------------------------------------
(* Both. *)

\* markInactive, applyPrebookingAvailability: of each category the first few
\* seats stay available; how many are left.
LeftAvailable(seats, active) ==
  LET left(c) == Min({Cardinality({s \in seats : s.category = c}), active[c]})
  IN left("WOMEN") + left("MEN") + left("GENERAL")
=============================================================================
