SPECIFICATION FairSpec
CONSTANTS
  c1 = c1  c2 = c2  s1 = s1  s2 = s2
  Booking = {b1}
  Schedule = {c1, c2}
  Seat = {s1, s2}
  ScheduleOf <- TwoTrains
  Pickable <- FirstSeat
  Handler = {h1, h2}
  Purchasable = {s1}
  MaxAvail = 2
  None = None  Picked = Picked
INVARIANTS TypeOK NoStrandedSeat CounterComesBack
PROPERTIES PendingEnds ImplementsRefunds
CHECK_DEADLOCK FALSE
