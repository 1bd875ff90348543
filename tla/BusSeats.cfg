SPECIFICATION Spec
CONSTANTS
  b1 = b1  b2 = b2  p1 = p1  p2 = p2  p3 = p3  u1 = u1  u2 = u2
  None = None
  Booking = {b1, b2}
  Passenger = {p1, p2}
  BookingOf <- TwoSingles
  UserOf <- TwoUsers
  Seat = {s1}
  Handler = {h1}
  Quota = 2
  MaxDebt = 0
  SeatType = "seater"
INVARIANTS NoStrandedSeat ProfitIsEarned
PROPERTIES OnlyTheUserUnlocks
CHECK_DEADLOCK FALSE
