SPECIFICATION FairSpec
CONSTANTS
  b1 = b1  b2 = b2  p1 = p1  p2 = p2  p3 = p3  u1 = u1  u2 = u2
  None = None
  Booking = {b1}
  Passenger = {p1}
  BookingOf <- OneSingle
  UserOf <- OneUser
  Seat = {s1}
  Handler = {h1, h2}
  Quota = 2
  MaxDebt = 1
  SeatType = "seater"
INVARIANTS TypeOK CancelledIsRecorded SuccessIsSettled
PROPERTIES PendingEnds ImplementsRefunds
CHECK_DEADLOCK FALSE
