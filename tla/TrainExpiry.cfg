SPECIFICATION Spec
CONSTANTS
  c1 = c1  c2 = c2  s1 = s1  s2 = s2
  Booking = {b1}
  Schedule = {c1}
  Seat = {s1}
  ScheduleOf <- OneSeat
  Pickable <- FirstSeat
  Handler = {h1}
  Purchasable = {}
  MaxAvail = 1
  None = None  Picked = Picked
PROPERTIES ExpiresOnlyPending
CHECK_DEADLOCK FALSE
