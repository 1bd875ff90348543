SPECIFICATION Spec
CONSTANTS
  Email = {e1, root}
  SuperAdmin = {root}
  Code = {c1, c2}
  Visitor = {v1, v2}
  MaxFaults = 3
  AuthNone = AuthNone
  Member = {m1}
  SessionTTL = 1
  Slow = 1
  Midnight = 4
  NoMember = NoMember
  Address = {a1}
  Account = {u1}
  Passing = {p1, p2}
  IpMax = 1
  UserMax = 1
  Nobody = Nobody
  ann = ann  bob = bob  s1 = s1  s2 = s2  s3 = s3
  question = question  reply = reply
  Socket = {s1, s2, s3}
  Person = {ann, bob}
  UserOf <- AnnAndBob
  Message = {question, reply}
  ToPerson <- AnnsChat
  Replies = {reply}
  NoSocket = NoSocket
  Webhook = {w1, w2, w3}
  NoCall = NoCall
  Trip = {trip}
  Domain = {"flight", "bus"}
  Intent = {i1, i2}
  NoTrip = NoTrip  NoIntent = NoIntent
INVARIANTS FrontTypeOK CodeIsItsOwn RoleWasHeldLately RegisteredIsServed NoBlankSearch ConfirmedWasPaid
PROPERTIES RegisteredGetsVerified RefusedNotForever PaymentIsHeard
ACTION_CONSTRAINT IdleServicesStayUp
CHECK_DEADLOCK FALSE
