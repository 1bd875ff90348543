SPECIFICATION Spec
CONSTANTS
  b1 = b1  b2 = b2  p1 = p1  p2 = p2  p3 = p3  None = None
  Booking = {b1, b2}
  Passenger = {p1, p2}
  BookingOf <- TwoSingles
  Seat = {s1}
  Consumer = {c1}
  Request = {}
  Quota = 2
  Overrides = {}
INVARIANTS TicketsStayDeducted
CHECK_DEADLOCK FALSE
