SPECIFICATION Spec
CONSTANTS
  b1 = b1  b2 = b2  b3 = b3  p1 = p1  p2 = p2  p3 = p3  p4 = p4
  Booking = {b1, b2, b3}
  Passenger = {p1, p2, p3, p4}
  BookingOf <- Groups
  Quota = 4
  noon = noon  dawn = dawn
  Instance = {noon, dawn}
  Departure <- Timetable
  Spend = 1
  MaxProfit = 2
  Period = 2
  Day = 4
  Horizon = 7
  Runner = {cron, boot}
  LastDate = 2
  BusKinds = {"seater", "sleeper"}
  Runs = {1, 2}
  Weekend = {2}
  Seeded = {1}
  RawBoarding <- Boarding
  RawDropping <- Dropping
  OriginStop = "origin"
  DestinationStop = "destination"
  Generator = {g1, g2}
  MaxSold <- SoldOn
  Trips = {i1}
  Weekends = {i1}
  RuleList <- BusRules
  Pricer = {r1, r2}
  Base = 2
  FilePrice = 1
  Flexi = 3
  MaxChanges = 2
  NoTrips = NoTrips
  LastDay = 2
  DaysOfWeek = {1, 2}
  StopsOnFile = 3
  Run = {n1, n2}
  MaxMoved = 1
  lower = lower
  Berth = {lower}
  ClassOf <- Sleepers
  LowerBerth = {lower}
  PriceRule <- TrainRules
  MaxStops = 3
  MaxEdits = 1
  Searcher = {q1, q2}
  NoResult = NoResult
INVARIANTS BackTypeOK ClosedAfterDeparture DeparturesAreWhole RouteRunsForward QuotedIsCharged
PROPERTIES AccountsAreClosed PricesAreKept StaleSearchesEnd
CHECK_DEADLOCK FALSE
