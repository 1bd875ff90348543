SPECIFICATION FairSpec
CONSTANTS
  b1 = b1  b2 = b2  p1 = p1  p2 = p2  p3 = p3  None = None
  Booking = {b1}
  Passenger = {p1, p2}
  BookingOf <- OneFamily
  Seat = {s1}
  Consumer = {c1, c2}
  Request = {r1, r2}
  Quota = 2
  Overrides = {"PENDING_PAYMENT", "CONFIRMED"}
INVARIANTS CounterMatchesTables
PROPERTIES PendingEnds ImplementsRefunds
CHECK_DEADLOCK FALSE
