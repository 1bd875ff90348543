-------------------------- MODULE TrainBookingProofs --------------------------
(***************************************************************************)
(* Theorems about TrainBooking, for any finite sets of bookings and seats, *)
(* any schedules they are on and any handlers.                             *)
(***************************************************************************)
EXTENDS TrainBooking, FiniteSetTheorems, TLAPS

\* Every step of the specification is one of these: the disjuncts of Next with
\* the disjunctions inside them flattened.
LEMMA NextCases ==
  ASSUME Next
  PROVE
    \/ \E b \in Booking :
         \/ CheckSeats(b) \/ RejectCreate(b) \/ InsertBooking(b)
         \/ \E s \in Seat : LockSeat(b, s)
         \/ ExpiresAtPasses(b) \/ PaymentRefunded(b)
    \/ \E k \in Key : PickSeat(k) \/ LockEnds(k)
    \/ \E s \in Seat : PurchaseSeat(s)
    \/ \E h \in Handler, b \in Booking : ReadBooking(h, b)
    \/ \E h \in Handler :
         \/ ConfirmCommit(h) \/ CancelCommit(h)
         \/ FailCommit(h) \/ FailUnread(h) \/ FailRollsBack(h)
         \/ UnlockSeats(h) \/ IssueTicket(h) \/ PublishCancelled(h)
         \/ HandlerFails(h)
    \/ FetchExpired \/ ExpireUnlock \/ WorkerRestarts
    \/ \E b \in Booking : ExpireCommit(b) \/ ExpireSkips(b)
  <1>1. Purchasable \subseteq Seat /\ Pickable \subseteq Key
    BY TrainAssumption
  <1>2. QED
    BY <1>1, Zenon DEF Next, CreateBooking, Handle, Expire

\* A set of seats has a natural number of members.
LEMMA SeatsCounted ==
  ASSUME NEW S \in SUBSET Seat
  PROVE  IsFiniteSet(S) /\ Cardinality(S) \in Nat
  BY TrainAssumption, FS_Subset, FS_CardinalityType

\* Deleting lock keys leaves a well-typed lock table.
LEMMA UnlockedType ==
  ASSUME lock \in [Key -> Booking \cup {None, Picked}], NEW K, NEW new \in Unlocked(K)
  PROVE  new \in [Key -> Booking \cup {None, Picked}]
  BY DEF Unlocked

\* Writing a status into the seats of a booking, and returning them.
LEMMA WrittenType ==
  ASSUME seat \in [Seat -> {"AVAILABLE", "PENDING_PAYMENT", "BOOKED"}], NEW b,
         NEW st \in {"AVAILABLE", "PENDING_PAYMENT", "BOOKED"}
  PROVE  Written(b, st) \in [Seat -> {"AVAILABLE", "PENDING_PAYMENT", "BOOKED"}]
  BY DEF Written

\* Moving the counter of the schedule that a booking names, and no other.
LEMMA CountedType ==
  ASSUME CreationOK, RowsOK, NEW b \in Booking, NEW n \in Int
  PROVE  /\ Counted(b, n) \in [Schedule -> Int]
         /\ named[b] \in Schedule
         /\ Counted(b, n)[named[b]] = avail[named[b]] + n
         /\ \A c \in Schedule \ {named[b]} : Counted(b, n)[c] = avail[c]
  BY DEF CreationOK, RowsOK, Counted

LEMMA ReturnType ==
  ASSUME CreationOK, RowsOK, NEW b \in Booking, ReturnSeats(b)
  PROVE  /\ seat' \in [Seat -> {"AVAILABLE", "PENDING_PAYMENT", "BOOKED"}]
         /\ avail' \in [Schedule -> Int]
  <1>1. wanted[b] \in SUBSET Seat
    BY DEF CreationOK
  <1>2. Cardinality(wanted[b]) \in Nat
    BY <1>1, SeatsCounted
  <1>3. QED
    BY <1>2, WrittenType, CountedType DEF ReturnSeats, RowsOK

\* Moving a handler on, or ending it, keeps it well-typed.
LEMMA GotoType ==
  ASSUME HandlersOK, NEW h \in Handler,
         NEW step \in {"unlock", "ticket", "publish"}, Goto(h, step),
         handler[h].step # "idle", UNCHANGED workVars
  PROVE  HandlersOK'
  BY DEF HandlersOK, Goto, workVars

LEMMA IdleType ==
  ASSUME HandlersOK, NEW h \in Handler,
         handler' = [handler EXCEPT ![h] = Idle], UNCHANGED workVars
  PROVE  HandlersOK'
  BY DEF HandlersOK, Idle, Jobnames, workVars
-----------------------------------------------------------------------------
(* Type correctness. *)

LEMMA InitTypeOK == Init => TypeOK
  <1> SUFFICES ASSUME Init PROVE TypeOK
    OBVIOUS
  <1>1. CreationOK
    BY DEF Init, CreationOK
  <1>2. \A c \in Schedule : Cardinality(SeatsOf(c)) \in Nat
    BY SeatsCounted DEF SeatsOf
  <1>3. RowsOK
    BY <1>2 DEF Init, RowsOK
  <1>4. HandlersOK
    BY DEF Init, HandlersOK, Idle, Jobnames
  <1>5. QED
    BY <1>1, <1>3, <1>4 DEF TypeOK

\* The steps of a creation, of the lock endpoints, of time and of the
\* administrator.
LEMMA CreationTypeOK ==
  ASSUME TypeOK,
         \/ \E b \in Booking :
              \/ CheckSeats(b) \/ RejectCreate(b) \/ InsertBooking(b)
              \/ \E s \in Seat : LockSeat(b, s)
              \/ ExpiresAtPasses(b) \/ PaymentRefunded(b)
         \/ \E k \in Key : PickSeat(k) \/ LockEnds(k)
    \/ \E s \in Seat : PurchaseSeat(s)
  PROVE  TypeOK'
  <1> USE DEF TypeOK, CreationOK, RowsOK, HandlersOK,
              createVars, rowVars, cancelVars, workVars
  <1>1. ASSUME NEW b \in Booking, CheckSeats(b) PROVE TypeOK'
    BY <1>1 DEF CheckSeats
  <1>2. ASSUME NEW b \in Booking, RejectCreate(b) PROVE TypeOK'
    BY <1>2, UnlockedType DEF RejectCreate
  <1>3. ASSUME NEW b \in Booking, InsertBooking(b) PROVE TypeOK'
    <2>1. -Cardinality(wanted[b]) \in Int
      BY SeatsCounted
    <2>2. avail' \in [Schedule -> Int]
      BY <1>3, <2>1, CountedType DEF InsertBooking
    <2>3. QED
      BY <1>3, <2>2, WrittenType DEF InsertBooking
  <1>4. ASSUME NEW b \in Booking, NEW s \in Seat, LockSeat(b, s) PROVE TypeOK'
    BY <1>4 DEF LockSeat, Key
  <1>5. ASSUME NEW b \in Booking, ExpiresAtPasses(b) PROVE TypeOK'
    BY <1>5 DEF ExpiresAtPasses
  <1>6. ASSUME NEW b \in Booking, PaymentRefunded(b) PROVE TypeOK'
    BY <1>6 DEF PaymentRefunded, Refunded
  <1>7. ASSUME NEW k \in Key, PickSeat(k) \/ LockEnds(k) PROVE TypeOK'
    BY <1>7 DEF PickSeat, LockEnds
  <1>8. ASSUME NEW s \in Seat, PurchaseSeat(s) PROVE TypeOK'
    BY <1>8 DEF PurchaseSeat
  <1>9. QED
    BY <1>1, <1>2, <1>3, <1>4, <1>5, <1>6, <1>7, <1>8

\* The steps of payments, failures and cancellations.
LEMMA HandlerTypeOK ==
  ASSUME TypeOK, NEW h \in Handler,
         \/ \E b \in Booking : ReadBooking(h, b)
         \/ ConfirmCommit(h) \/ CancelCommit(h)
         \/ FailCommit(h) \/ FailUnread(h) \/ FailRollsBack(h)
         \/ UnlockSeats(h) \/ IssueTicket(h) \/ PublishCancelled(h)
         \/ HandlerFails(h)
  PROVE  TypeOK'
  <1> DEFINE b == handler[h].booking
  <1> USE DEF TypeOK, createVars, rowVars, cancelVars, workVars
  <1>0. handler[h].step # "idle" => b \in Booking
    BY DEF HandlersOK
  <1>1. ASSUME NEW c \in Booking, ReadBooking(h, c) PROVE TypeOK'
    BY <1>1 DEF ReadBooking, Jobs, Jobnames, CreationOK, RowsOK, HandlersOK
  <1>2. CASE ConfirmCommit(h)
    <2>1. HandlersOK'
      BY <1>2, GotoType DEF ConfirmCommit
    <2>2. seat' \in [Seat -> {"AVAILABLE", "PENDING_PAYMENT", "BOOKED"}]
      BY <1>2, WrittenType DEF ConfirmCommit, RowsOK
    <2>3. RowsOK'
      BY <1>0, <1>2, <2>2 DEF ConfirmCommit, RowsOK
    <2>4. QED
      BY <1>2, <2>1, <2>3 DEF ConfirmCommit, CreationOK
  <1>3. CASE CancelCommit(h)
    <2>1. HandlersOK'
      BY <1>3, GotoType DEF CancelCommit
    <2>2. RowsOK'
      BY <1>0, <1>3, ReturnType DEF CancelCommit, RowsOK
    <2>3. QED
      BY <1>3, <2>1, <2>2 DEF CancelCommit, CreationOK
  <1>4. CASE FailCommit(h)
    <2>1. HandlersOK'
      BY <1>4, GotoType DEF FailCommit
    <2>2. RowsOK'
      BY <1>0, <1>4, ReturnType DEF FailCommit, RowsOK
    <2>3. QED
      BY <1>4, <2>1, <2>2 DEF FailCommit, CreationOK
  <1>5. CASE FailUnread(h)
    <2>1. HandlersOK'
      BY <1>5, IdleType DEF FailUnread
    <2>2. QED
      BY <1>0, <1>5, <2>1 DEF FailUnread, CreationOK, RowsOK
  <1>6. CASE FailRollsBack(h)
    <2>1. HandlersOK'
      BY <1>6, GotoType DEF FailRollsBack
    <2>2. QED
      BY <1>6, <2>1 DEF FailRollsBack, CreationOK, RowsOK
  <1>7. CASE UnlockSeats(h)
    <2>1. HandlersOK'
      BY <1>7, GotoType, IdleType DEF UnlockSeats
    <2>2. QED
      BY <1>7, <2>1, UnlockedType DEF UnlockSeats, CreationOK, RowsOK
  <1>8. CASE IssueTicket(h)
    <2>1. HandlersOK'
      BY <1>8, IdleType DEF IssueTicket
    <2>2. QED
      BY <1>0, <1>8, <2>1 DEF IssueTicket, CreationOK, RowsOK
  <1>9. CASE PublishCancelled(h)
    <2>1. HandlersOK'
      BY <1>9, IdleType DEF PublishCancelled
    <2>2. QED
      BY <1>0, <1>9, <2>1 DEF PublishCancelled, CreationOK, RowsOK
  <1>10. CASE HandlerFails(h)
    <2>1. HandlersOK'
      BY <1>10, IdleType DEF HandlerFails
    <2>2. QED
      BY <1>10, <2>1 DEF HandlerFails, CreationOK, RowsOK
  <1>11. QED
    BY <1>1, <1>2, <1>3, <1>4, <1>5, <1>6, <1>7, <1>8, <1>9, <1>10

\* The steps of the expiry worker.
LEMMA ExpiryTypeOK ==
  ASSUME TypeOK,
         \/ FetchExpired \/ ExpireUnlock \/ WorkerRestarts
         \/ \E b \in Booking : ExpireCommit(b) \/ ExpireSkips(b)
  PROVE  TypeOK'
  <1> USE DEF TypeOK, createVars, rowVars, cancelVars, workVars
  <1>1. CASE FetchExpired
    BY <1>1 DEF FetchExpired, Stale, CreationOK, RowsOK, HandlersOK
  <1>2. CASE ExpireUnlock
    BY <1>2, UnlockedType DEF ExpireUnlock, CreationOK, RowsOK, HandlersOK
  <1>3. CASE WorkerRestarts
    BY <1>3 DEF WorkerRestarts, CreationOK, RowsOK, HandlersOK
  <1>4. ASSUME NEW b \in Booking, ExpireCommit(b) PROVE TypeOK'
    <2>1. RowsOK'
      BY <1>4, ReturnType DEF ExpireCommit, RowsOK
    <2>2. QED
      BY <1>4, <2>1 DEF ExpireCommit, CreationOK, HandlersOK
  <1>5. ASSUME NEW b \in Booking, ExpireSkips(b) PROVE TypeOK'
    BY <1>5 DEF ExpireSkips, CreationOK, RowsOK, HandlersOK
  <1>6. QED
    BY <1>1, <1>2, <1>3, <1>4, <1>5

LEMMA StutterTypeOK == ASSUME TypeOK, UNCHANGED vars PROVE TypeOK'
  BY DEF TypeOK, CreationOK, RowsOK, HandlersOK, vars, createVars, rowVars,
         cancelVars, workVars

LEMMA NextTypeOK == TypeOK /\ [Next]_vars => TypeOK'
  <1> SUFFICES ASSUME TypeOK, [Next]_vars PROVE TypeOK'
    OBVIOUS
  <1>1. CASE Next
    BY <1>1, NextCases, CreationTypeOK, HandlerTypeOK, ExpiryTypeOK
  <1>2. CASE UNCHANGED vars
    BY <1>2, StutterTypeOK
  <1>3. QED
    BY <1>1, <1>2

\* Rows, seats, locks and handlers keep their types whatever happens.
THEOREM TrainTypeOK == Spec => []TypeOK
  BY InitTypeOK, NextTypeOK, PTL DEF Spec
-----------------------------------------------------------------------------
(* Seats and the counters.  NoStrandedSeat and CounterComesBack are not        *)
(* inductive: they say nothing of the bookings that handlers and the worker    *)
(* still have in their hands.                                                  *)

\* Nobody works on a booking, or counts its seats, before its row is there.
RowsFirst ==
  /\ \A b \in Booking : Holds(b) => pc[b] = "created"
  /\ \A b \in overdue \cup worklist : pc[b] = "created"
  /\ \A h \in Handler :
       handler[h].step # "idle" => pc[handler[h].booking] = "created"

SeatInv == TypeOK /\ RowsFirst /\ NoStrandedSeat /\ CounterComesBack

\* Claims are finitely many.
LEMMA ClaimsFinite ==
  ASSUME NEW C \in SUBSET (Booking \X Seat)
  PROVE  IsFiniteSet(C) /\ Cardinality(C) \in Nat
  BY TrainAssumption, FS_Product, FS_Subset, FS_CardinalityType

\* A booking's claims are as many as its seats.
LEMMA OwnClaims ==
  ASSUME NEW b \in Booking, NEW S \in SUBSET Seat
  PROVE  Cardinality({b} \X S) = Cardinality(S)
  <1>1. Cardinality({b}) = 1 /\ IsFiniteSet({b})
    BY FS_Singleton
  <1>2. IsFiniteSet(S) /\ Cardinality(S) \in Nat
    BY SeatsCounted
  <1>3. Cardinality({b} \X S) = Cardinality({b}) * Cardinality(S)
    BY <1>1, <1>2, FS_Product
  <1>4. QED
    BY <1>1, <1>2, <1>3

\* Whoever gives up the claims of one booking gives up no more than its seats.
LEMMA ClaimsLost ==
  ASSUME NEW b \in Booking, NEW S \in SUBSET Seat,
         NEW C \in SUBSET (Booking \X Seat), NEW D \in SUBSET (Booking \X Seat),
         C \subseteq D \cup ({b} \X S)
  PROVE  Cardinality(C) <= Cardinality(D) + Cardinality(S)
  <1> DEFINE E == {b} \X S
  <1>1. E \in SUBSET (Booking \X Seat) /\ D \cup E \in SUBSET (Booking \X Seat)
    OBVIOUS
  <1>2. /\ Cardinality(C) \in Nat /\ Cardinality(D) \in Nat
        /\ Cardinality(E) \in Nat /\ Cardinality(D \cup E) \in Nat
        /\ IsFiniteSet(D) /\ IsFiniteSet(E) /\ IsFiniteSet(D \cup E)
    BY <1>1, ClaimsFinite
  <1>3. Cardinality(C) <= Cardinality(D \cup E)
    BY <1>2, FS_Subset
  <1>4. Cardinality(D \cup E) =
          Cardinality(D) + Cardinality(E) - Cardinality(D \cap E)
    BY <1>2, FS_Union
  <1>5. D \cap E \in SUBSET (Booking \X Seat)
    OBVIOUS
  <1>6. Cardinality(D \cap E) \in Nat
    BY <1>5, ClaimsFinite
  <1>7. Cardinality(E) = Cardinality(S)
    BY OwnClaims
  <1> HIDE DEF E
  <1>8. QED
    BY <1>2, <1>3, <1>4, <1>6, <1>7

\* A new booking adds claims on all of its seats.
LEMMA ClaimsAdded ==
  ASSUME NEW b \in Booking, NEW S \in SUBSET Seat,
         NEW C \in SUBSET (Booking \X Seat), NEW D \in SUBSET (Booking \X Seat),
         C \cup ({b} \X S) \subseteq D, C \cap ({b} \X S) = {}
  PROVE  Cardinality(C) + Cardinality(S) <= Cardinality(D)
  <1> DEFINE E == {b} \X S
  <1>1. E \in SUBSET (Booking \X Seat) /\ C \cup E \in SUBSET (Booking \X Seat)
    OBVIOUS
  <1>2. /\ Cardinality(C) \in Nat /\ Cardinality(D) \in Nat
        /\ Cardinality(E) \in Nat /\ Cardinality(C \cup E) \in Nat
        /\ IsFiniteSet(C) /\ IsFiniteSet(E) /\ IsFiniteSet(D)
    BY <1>1, ClaimsFinite
  <1>3. Cardinality(C \cup E) <= Cardinality(D)
    BY <1>2, FS_Subset
  <1>4. Cardinality(C \cup E) =
          Cardinality(C) + Cardinality(E) - Cardinality(C \cap E)
    BY <1>2, FS_Union
  <1>5. Cardinality(C \cap E) = 0
    BY FS_EmptySet
  <1>6. Cardinality(E) = Cardinality(S)
    BY OwnClaims
  <1> HIDE DEF E
  <1>7. QED
    BY <1>2, <1>3, <1>4, <1>5, <1>6

\* What the counter of a schedule and the claims on it need to move together.
CountsKept(c) ==
  avail[c] + Cardinality(Claims(c)) <= avail'[c] + Cardinality(Claims(c)')

\* If every schedule's do, no counter falls below its seats.
LEMMA CountsAreKept ==
  ASSUME SeatInv, TypeOK', \A c \in Schedule : CountsKept(c)
  PROVE  CounterComesBack'
  <1> SUFFICES ASSUME NEW c \in Schedule
               PROVE  avail'[c] + Cardinality(Claims(c)') >= Cardinality(SeatsOf(c))
    BY DEF CounterComesBack, SeatsOf
  <1>1. avail[c] + Cardinality(Claims(c)) >= Cardinality(SeatsOf(c))
    BY DEF SeatInv, CounterComesBack
  <1>2. Claims(c) \in SUBSET (Booking \X Seat) /\ Claims(c)' \in SUBSET (Booking \X Seat)
    BY DEF Claims
  <1>3. SeatsOf(c) \in SUBSET Seat
    BY DEF SeatsOf
  <1>4. /\ Cardinality(Claims(c)) \in Nat /\ Cardinality(Claims(c)') \in Nat
        /\ Cardinality(SeatsOf(c)) \in Nat
        /\ avail[c] \in Int /\ avail'[c] \in Int
    BY <1>2, <1>3, ClaimsFinite, SeatsCounted DEF SeatInv, TypeOK, RowsOK
  <1>5. CountsKept(c)
    OBVIOUS
  <1>6. QED
    BY <1>1, <1>4, <1>5 DEF CountsKept

\* A step after which every claim on a schedule is still there and its counter
\* is the same.
LEMMA SameCount ==
  ASSUME SeatInv, TypeOK', NEW c \in Schedule,
         Claims(c) \subseteq Claims(c)', avail'[c] = avail[c]
  PROVE  CountsKept(c)
  <1>1. Claims(c) \in SUBSET (Booking \X Seat) /\ Claims(c)' \in SUBSET (Booking \X Seat)
    BY DEF Claims
  <1>2. /\ Cardinality(Claims(c)) \in Nat /\ Cardinality(Claims(c)') \in Nat
        /\ IsFiniteSet(Claims(c)')
    BY <1>1, ClaimsFinite
  <1>3. Cardinality(Claims(c)) <= Cardinality(Claims(c)')
    BY <1>2, FS_Subset
  <1>4. avail[c] \in Int
    BY DEF SeatInv, TypeOK, RowsOK
  <1>5. QED
    BY <1>2, <1>3, <1>4 DEF CountsKept

\* A step after which every claim is still there, every seat off sale was off
\* sale before and the counters are the same.
LEMMA KeptClaims ==
  ASSUME SeatInv, TypeOK', named' = named, avail' = avail,
         \A b \in Booking : Holds(b) => Holds(b)' /\ wanted[b] \subseteq wanted'[b],
         \A s \in Seat : seat'[s] # "AVAILABLE" =>
           \/ seat[s] # "AVAILABLE"
           \/ \E b \in Booking : Holds(b)' /\ s \in wanted'[b]
  PROVE  NoStrandedSeat' /\ CounterComesBack'
  <1>1. \A c \in Schedule : Claims(c) \subseteq Claims(c)'
    BY DEF Claims
  <1>2. CounterComesBack'
    BY <1>1, SameCount, CountsAreKept
  <1>3. NoStrandedSeat'
    <2> SUFFICES ASSUME NEW s \in Seat, seat'[s] # "AVAILABLE"
                 PROVE  \E b \in Booking : Holds(b)' /\ s \in wanted'[b]
      BY DEF NoStrandedSeat
    <2>1. CASE seat[s] # "AVAILABLE"
      <3>1. PICK b \in Booking : Holds(b) /\ s \in wanted[b]
        BY <2>1 DEF SeatInv, NoStrandedSeat
      <3>2. QED
        BY <3>1
    <2>2. QED
      BY <2>1
  <1>4. QED
    BY <1>2, <1>3

\* A booking gives its seats back, whatever it was, and may stop holding them.
LEMMA ReturnedClaims ==
  ASSUME SeatInv, TypeOK', NEW b \in Booking, ReturnSeats(b),
         wanted' = wanted, named' = named, unread' = unread,
         \A c \in Booking \ {b} : status'[c] = status[c]
  PROVE  NoStrandedSeat' /\ CounterComesBack'
  <1>1. wanted[b] \in SUBSET Seat /\ TypeOK
    BY DEF SeatInv, TypeOK, CreationOK
  <1>2. \A c \in Booking \ {b} : Holds(c) => Holds(c)'
    BY DEF Holds, Live
  <1>3. Cardinality(wanted[b]) \in Nat
    BY <1>1, SeatsCounted
  <1>4. /\ named[b] \in Schedule
        /\ avail'[named[b]] = avail[named[b]] + Cardinality(wanted[b])
        /\ \A c \in Schedule \ {named[b]} : avail'[c] = avail[c]
    BY <1>1, <1>3, CountedType DEF ReturnSeats, TypeOK
  <1>5. ASSUME NEW c \in Schedule, c # named[b] PROVE CountsKept(c)
    <2>1. Claims(c) \subseteq Claims(c)'
      BY <1>2, <1>5 DEF Claims
    <2>2. QED
      BY <1>4, <1>5, <2>1, SameCount
  <1>6. CountsKept(named[b])
    <2> DEFINE c == named[b]
    <2>1. Claims(c) \in SUBSET (Booking \X Seat) /\ Claims(c)' \in SUBSET (Booking \X Seat)
      BY DEF Claims
    <2>2. Claims(c) \subseteq Claims(c)' \cup ({b} \X wanted[b])
      BY <1>2 DEF Claims
    <2>3. Cardinality(Claims(c)) <= Cardinality(Claims(c)') + Cardinality(wanted[b])
      BY <1>1, <2>1, <2>2, ClaimsLost
    <2>4. /\ Cardinality(Claims(c)) \in Nat /\ Cardinality(Claims(c)') \in Nat
          /\ avail[c] \in Int
      BY <1>1, <1>4, <2>1, ClaimsFinite DEF TypeOK, RowsOK
    <2>5. QED
      BY <1>3, <1>4, <2>3, <2>4 DEF CountsKept
  <1>7. CounterComesBack'
    BY <1>5, <1>6, CountsAreKept
  <1>8. NoStrandedSeat'
    <2> SUFFICES ASSUME NEW s \in Seat, seat'[s] # "AVAILABLE"
                 PROVE  \E c \in Booking : Holds(c)' /\ s \in wanted'[c]
      BY DEF NoStrandedSeat
    <2>1. s \notin wanted[b] /\ seat[s] # "AVAILABLE"
      BY DEF ReturnSeats, Written
    <2>2. PICK c \in Booking : Holds(c) /\ s \in wanted[c]
      BY <2>1 DEF SeatInv, NoStrandedSeat
    <2>3. c # b
      BY <2>1, <2>2
    <2>4. QED
      BY <1>2, <2>2, <2>3
  <1>9. QED
    BY <1>7, <1>8

\* A step that leaves bookings, their seats and the counter alone.
LEMMA KeptRows ==
  ASSUME SeatInv, TypeOK', wanted' = wanted, named' = named, status' = status,
         seat' = seat, unread' = unread, avail' = avail
  PROVE  NoStrandedSeat' /\ CounterComesBack'
  <1>1. \A b \in Booking : Holds(b)' <=> Holds(b)
    BY DEF Holds, Live
  <1>2. QED
    BY <1>1, KeptClaims

LEMMA InitSeatInv == Init => SeatInv
  <1> SUFFICES ASSUME Init PROVE SeatInv
    OBVIOUS
  <1>1. TypeOK
    BY InitTypeOK
  <1>2. RowsFirst
    BY DEF Init, RowsFirst, Holds, Live, Idle
  <1>3. NoStrandedSeat
    BY DEF Init, NoStrandedSeat
  <1>4. \A c \in Schedule : Claims(c) \in SUBSET (Booking \X Seat)
    BY DEF Claims
  <1>5. \A c \in Schedule :
          Cardinality(Claims(c)) \in Nat /\ Cardinality(SeatsOf(c)) \in Nat
    BY <1>4, ClaimsFinite, SeatsCounted DEF SeatsOf
  <1>6. CounterComesBack
    BY <1>5 DEF Init, CounterComesBack
  <1>7. QED
    BY <1>1, <1>2, <1>3, <1>6 DEF SeatInv

\* While a booking is being created nothing counts its seats.
LEMMA CreationSeatInv ==
  ASSUME SeatInv, TypeOK',
         \/ \E b \in Booking :
              \/ CheckSeats(b) \/ RejectCreate(b) \/ InsertBooking(b)
              \/ \E s \in Seat : LockSeat(b, s)
              \/ ExpiresAtPasses(b) \/ PaymentRefunded(b)
         \/ \E k \in Key : PickSeat(k) \/ LockEnds(k)
    \/ \E s \in Seat : PurchaseSeat(s)
  PROVE  SeatInv'
  <1> USE DEF createVars, rowVars, cancelVars, workVars
  <1>0. TypeOK /\ RowsFirst
    BY DEF SeatInv
  <1>1. ASSUME NEW b \in Booking, CheckSeats(b) \/ RejectCreate(b) PROVE SeatInv'
    <2>1. pc[b] # "created"
      BY <1>1 DEF CheckSeats, RejectCreate
    <2>2. ~Holds(b)
      BY <1>0, <2>1 DEF RowsFirst
    <2>3. UNCHANGED <<status, unread, seat, avail, overdue, worklist, handler>>
      BY <1>1 DEF CheckSeats, RejectCreate
    <2>4. \A c \in Booking : (Holds(c)' <=> Holds(c))
      BY <2>3 DEF Holds, Live
    <2>5. \A c \in Booking \ {b} : wanted'[c] = wanted[c] /\ pc'[c] = pc[c]
      BY <1>0, <1>1 DEF CheckSeats, RejectCreate, TypeOK, CreationOK
    <2>6. named' = named
      BY <1>1 DEF CheckSeats, RejectCreate
    <2>7. NoStrandedSeat' /\ CounterComesBack'
      BY <2>2, <2>3, <2>4, <2>5, <2>6, KeptClaims
    <2>8. RowsFirst'
      BY <1>0, <2>1, <2>2, <2>3, <2>4, <2>5 DEF RowsFirst, TypeOK, HandlersOK, RowsOK
    <2>9. QED
      BY <2>7, <2>8 DEF SeatInv
  <1>2. ASSUME NEW b \in Booking, InsertBooking(b) PROVE SeatInv'
    <2>1. ~Holds(b) /\ wanted[b] \in SUBSET Seat
      BY <1>0, <1>2 DEF InsertBooking, RowsFirst, TypeOK, CreationOK
    <2>2. Holds(b)' /\ \A c \in Booking \ {b} : (Holds(c)' <=> Holds(c))
      BY <1>0, <1>2 DEF InsertBooking, Holds, Live, TypeOK, RowsOK
    <2>3. wanted' = wanted /\ named' = named /\ Cardinality(wanted[b]) \in Nat
      BY <1>2, <2>1, SeatsCounted DEF InsertBooking
    <2>4. /\ named[b] \in Schedule
          /\ avail'[named[b]] = avail[named[b]] - Cardinality(wanted[b])
          /\ \A c \in Schedule \ {named[b]} : avail'[c] = avail[c]
      BY <1>0, <1>2, <2>3, CountedType DEF InsertBooking, TypeOK, RowsOK
    <2>5. ASSUME NEW c \in Schedule, c # named[b] PROVE CountsKept(c)
      <3>1. Claims(c) \subseteq Claims(c)'
        BY <2>1, <2>2, <2>3, <2>5 DEF Claims
      <3>2. QED
        BY <2>4, <2>5, <3>1, SameCount
    <2>6. CountsKept(named[b])
      <3> DEFINE c == named[b]
      <3>1. Claims(c) \in SUBSET (Booking \X Seat) /\ Claims(c)' \in SUBSET (Booking \X Seat)
        BY DEF Claims
      <3>2. /\ Claims(c) \cup ({b} \X wanted[b]) \subseteq Claims(c)'
            /\ Claims(c) \cap ({b} \X wanted[b]) = {}
        BY <2>1, <2>2, <2>3 DEF Claims
      <3>3. Cardinality(Claims(c)) + Cardinality(wanted[b]) <= Cardinality(Claims(c)')
        BY <2>1, <3>1, <3>2, ClaimsAdded
      <3>4. /\ Cardinality(Claims(c)) \in Nat /\ Cardinality(Claims(c)') \in Nat
            /\ avail[c] \in Int
        BY <1>0, <2>4, <3>1, ClaimsFinite DEF TypeOK, RowsOK
      <3>5. QED
        BY <2>3, <2>4, <3>3, <3>4 DEF CountsKept
    <2>7. CounterComesBack'
      BY <2>5, <2>6, CountsAreKept
    <2>8. \A s \in Seat : s \in wanted[b] \/ seat'[s] = seat[s]
      BY <1>2 DEF InsertBooking, Written
    <2>9. NoStrandedSeat'
      BY <2>2, <2>3, <2>8 DEF SeatInv, NoStrandedSeat
    <2>10. RowsFirst'
      BY <1>0, <1>2, <2>2 DEF InsertBooking, RowsFirst, TypeOK, CreationOK,
                              RowsOK, HandlersOK
    <2>11. QED
      BY <2>7, <2>9, <2>10 DEF SeatInv
  <1>3. ASSUME NEW b \in Booking, NEW s \in Seat, LockSeat(b, s) PROVE SeatInv'
    BY <1>0, <1>3, KeptRows DEF LockSeat, SeatInv, RowsFirst, Holds, Live
  <1>4. ASSUME NEW b \in Booking, ExpiresAtPasses(b) PROVE SeatInv'
    BY <1>0, <1>4, KeptRows DEF ExpiresAtPasses, SeatInv, RowsFirst, Holds, Live
  <1>5. ASSUME NEW b \in Booking, PaymentRefunded(b) PROVE SeatInv'
    BY <1>0, <1>5, KeptRows DEF PaymentRefunded, SeatInv, RowsFirst, Holds, Live
  <1>6. ASSUME NEW k \in Key, PickSeat(k) \/ LockEnds(k) PROVE SeatInv'
    BY <1>0, <1>6, KeptRows DEF PickSeat, LockEnds, SeatInv, RowsFirst, Holds, Live
  <1>7. ASSUME NEW s \in Seat, PurchaseSeat(s) PROVE SeatInv'
    <2>1. /\ wanted' = wanted /\ named' = named
          /\ \A b \in Booking : Holds(b)' <=> Holds(b)
      BY <1>7 DEF PurchaseSeat, Holds, Live
    <2>2. \A x \in Seat : seat'[x] # "AVAILABLE" => seat[x] # "AVAILABLE"
      BY <1>0, <1>7 DEF PurchaseSeat, TypeOK, RowsOK
    <2>3. avail' = avail
      BY <1>7 DEF PurchaseSeat
    <2>4. NoStrandedSeat' /\ CounterComesBack'
      BY <2>1, <2>2, <2>3, KeptClaims
    <2>5. RowsFirst'
      BY <1>0, <1>7 DEF PurchaseSeat, RowsFirst, Holds, Live
    <2>6. QED
      BY <2>4, <2>5 DEF SeatInv
  <1>8. QED
    BY <1>1, <1>2, <1>3, <1>4, <1>5, <1>6, <1>7

\* The step a handler takes leaves it with a booking whose row is there.
LEMMA HandlerRowsFirst ==
  ASSUME SeatInv, TypeOK', NEW h \in Handler, handler[h].step # "idle",
         \/ \E step \in {"unlock", "ticket", "publish"} : Goto(h, step)
         \/ handler' = [handler EXCEPT ![h] = Idle],
         UNCHANGED <<pc, overdue, worklist>>,
         \A c \in Booking \ {handler[h].booking} : Holds(c)' => Holds(c)
  PROVE  RowsFirst'
  <1>1. pc[handler[h].booking] = "created" /\ handler[h].booking \in Booking
    BY DEF SeatInv, RowsFirst, TypeOK, HandlersOK
  <1>2. \A c \in Booking : Holds(c)' => pc[c] = "created"
    BY <1>1 DEF SeatInv, RowsFirst
  <1>3. \A g \in Handler :
          handler'[g].step # "idle" => pc[handler'[g].booking] = "created"
    BY <1>1 DEF SeatInv, RowsFirst, TypeOK, HandlersOK, Goto, Idle
  <1>4. QED
    BY <1>2, <1>3 DEF SeatInv, RowsFirst

LEMMA HandlerSeatInv ==
  ASSUME SeatInv, TypeOK', NEW h \in Handler,
         \/ \E b \in Booking : ReadBooking(h, b)
         \/ ConfirmCommit(h) \/ CancelCommit(h)
         \/ FailCommit(h) \/ FailUnread(h) \/ FailRollsBack(h)
         \/ UnlockSeats(h) \/ IssueTicket(h) \/ PublishCancelled(h)
         \/ HandlerFails(h)
  PROVE  SeatInv'
  <1> USE DEF createVars, rowVars, cancelVars, workVars
  <1>0. TypeOK /\ (handler[h].step # "idle" => handler[h].booking \in Booking)
    BY DEF SeatInv, TypeOK, HandlersOK
  <1>1. ASSUME NEW c \in Booking, ReadBooking(h, c) PROVE SeatInv'
    <2>1. NoStrandedSeat' /\ CounterComesBack'
      BY <1>1, KeptRows DEF ReadBooking
    <2>2. RowsFirst'
      BY <1>0, <1>1 DEF ReadBooking, SeatInv, RowsFirst, Holds, Live, TypeOK, HandlersOK
    <2>3. QED
      BY <2>1, <2>2 DEF SeatInv
  <1>2. CASE ConfirmCommit(h)
    <2>1. PICK b \in Booking : b = handler[h].booking
      BY <1>0, <1>2 DEF ConfirmCommit
    <2>2. Holds(b)' /\ \A c \in Booking \ {b} : (Holds(c)' <=> Holds(c))
      BY <1>0, <1>2, <2>1 DEF ConfirmCommit, Holds, Live, TypeOK, RowsOK
    <2>3. wanted' = wanted /\ named' = named /\ avail' = avail
      BY <1>2 DEF ConfirmCommit
    <2>4. \A s \in Seat : seat'[s] # "AVAILABLE" =>
            seat[s] # "AVAILABLE" \/ s \in wanted'[b]
      BY <1>2, <2>1, <2>3 DEF ConfirmCommit, Written
    <2>5. NoStrandedSeat' /\ CounterComesBack'
      BY <2>1, <2>2, <2>3, <2>4, KeptClaims
    <2>6. RowsFirst'
      BY <1>2, <2>1, <2>2, HandlerRowsFirst DEF ConfirmCommit
    <2>7. QED
      BY <2>5, <2>6 DEF SeatInv
  <1>3. ASSUME CancelCommit(h) \/ FailCommit(h) PROVE SeatInv'
    <2>1. PICK b \in Booking : b = handler[h].booking
      BY <1>0, <1>3 DEF CancelCommit, FailCommit
    <2>2. /\ ReturnSeats(b)
          /\ wanted' = wanted /\ named' = named /\ unread' = unread
      BY <1>3, <2>1 DEF CancelCommit, FailCommit
    <2>3. \A c \in Booking \ {b} : status'[c] = status[c]
      BY <1>0, <1>3, <2>1 DEF CancelCommit, FailCommit, TypeOK, RowsOK
    <2>4. NoStrandedSeat' /\ CounterComesBack'
      BY <2>1, <2>2, <2>3, ReturnedClaims
    <2>5. \A c \in Booking \ {b} : Holds(c)' => Holds(c)
      BY <2>2, <2>3 DEF Holds, Live
    <2>6. RowsFirst'
      BY <1>3, <2>1, <2>5, HandlerRowsFirst DEF CancelCommit, FailCommit
    <2>7. QED
      BY <2>4, <2>6 DEF SeatInv
  <1>4. CASE FailUnread(h)
    <2>1. PICK b \in Booking : b = handler[h].booking
      BY <1>0, <1>4 DEF FailUnread
    <2>2. Holds(b)' /\ \A c \in Booking \ {b} : (Holds(c)' <=> Holds(c))
      BY <1>0, <1>4, <2>1 DEF FailUnread, Holds, Live, TypeOK, RowsOK
    <2>3. /\ wanted' = wanted /\ named' = named
          /\ avail' = avail /\ seat' = seat
      BY <1>4 DEF FailUnread
    <2>4. NoStrandedSeat' /\ CounterComesBack'
      BY <2>1, <2>2, <2>3, KeptClaims
    <2>5. RowsFirst'
      BY <1>4, <2>1, <2>2, HandlerRowsFirst DEF FailUnread
    <2>6. QED
      BY <2>4, <2>5 DEF SeatInv
  <1>5. ASSUME \/ FailRollsBack(h) \/ UnlockSeats(h) \/ IssueTicket(h)
               \/ PublishCancelled(h) \/ HandlerFails(h)
        PROVE  SeatInv'
    <2>1. /\ wanted' = wanted /\ named' = named
          /\ status' = status /\ seat' = seat
          /\ unread' = unread /\ avail' = avail
          /\ UNCHANGED <<pc, overdue, worklist>>
      BY <1>5 DEF FailRollsBack, UnlockSeats, IssueTicket, PublishCancelled,
                  HandlerFails
    <2>2. NoStrandedSeat' /\ CounterComesBack'
      BY <2>1, KeptRows
    <2>3. \A c \in Booking : Holds(c)' => Holds(c)
      BY <2>1 DEF Holds, Live
    <2>4. \A g \in Handler :
            handler'[g].step # "idle" => pc[handler'[g].booking] = "created"
      BY <1>0, <1>5 DEF FailRollsBack, UnlockSeats, IssueTicket, PublishCancelled,
                  HandlerFails, Goto, Idle, SeatInv, RowsFirst, TypeOK, HandlersOK
    <2>5. RowsFirst'
      BY <2>1, <2>3, <2>4 DEF SeatInv, RowsFirst
    <2>6. QED
      BY <2>2, <2>5 DEF SeatInv
  <1>6. QED
    BY <1>1, <1>2, <1>3, <1>4, <1>5

LEMMA ExpirySeatInv ==
  ASSUME SeatInv, TypeOK',
         \/ FetchExpired \/ ExpireUnlock \/ WorkerRestarts
         \/ \E b \in Booking : ExpireCommit(b) \/ ExpireSkips(b)
  PROVE  SeatInv'
  <1> USE DEF createVars, rowVars, cancelVars, workVars
  <1>1. ASSUME NEW b \in Booking, ExpireCommit(b) PROVE SeatInv'
    <2>1. /\ ReturnSeats(b)
          /\ wanted' = wanted /\ named' = named /\ unread' = unread
      BY <1>1 DEF ExpireCommit
    <2>2. \A c \in Booking \ {b} : status'[c] = status[c]
      BY <1>1 DEF ExpireCommit, SeatInv, TypeOK, RowsOK
    <2>3. NoStrandedSeat' /\ CounterComesBack'
      BY <2>1, <2>2, ReturnedClaims
    <2>4. pc[b] = "created"
      BY <1>1 DEF ExpireCommit, SeatInv, RowsFirst
    <2>5. \A c \in Booking : Holds(c)' => pc[c] = "created"
      BY <2>1, <2>2, <2>4 DEF SeatInv, RowsFirst, Holds, Live
    <2>6. RowsFirst'
      BY <1>1, <2>5 DEF ExpireCommit, SeatInv, RowsFirst
    <2>7. QED
      BY <2>3, <2>6 DEF SeatInv
  <1>2. ASSUME \/ FetchExpired \/ ExpireUnlock \/ WorkerRestarts
               \/ \E b \in Booking : ExpireSkips(b)
        PROVE  SeatInv'
    <2>1. /\ wanted' = wanted /\ named' = named
          /\ status' = status /\ seat' = seat
          /\ unread' = unread /\ avail' = avail
          /\ UNCHANGED <<pc, overdue, handler>>
      BY <1>2 DEF FetchExpired, ExpireUnlock, WorkerRestarts, ExpireSkips
    <2>2. worklist' \subseteq worklist \cup overdue
      BY <1>2 DEF FetchExpired, Stale, ExpireUnlock, WorkerRestarts, ExpireSkips
    <2>3. NoStrandedSeat' /\ CounterComesBack'
      BY <2>1, KeptRows
    <2>4. RowsFirst'
      BY <2>1, <2>2 DEF SeatInv, RowsFirst, Holds, Live
    <2>5. QED
      BY <2>3, <2>4 DEF SeatInv
  <1>3. QED
    BY <1>1, <1>2

LEMMA NextSeatInv == SeatInv /\ [Next]_vars => SeatInv'
  <1> SUFFICES ASSUME SeatInv, [Next]_vars PROVE SeatInv'
    OBVIOUS
  <1>1. TypeOK'
    BY NextTypeOK DEF SeatInv
  <1>2. CASE Next
    BY <1>1, <1>2, NextCases, CreationSeatInv, HandlerSeatInv, ExpirySeatInv
  <1>3. CASE UNCHANGED vars
    <2>1. NoStrandedSeat' /\ CounterComesBack'
      BY <1>1, <1>3, KeptRows DEF vars, createVars, rowVars
    <2>2. RowsFirst'
      BY <1>3 DEF vars, createVars, rowVars, workVars, SeatInv, RowsFirst, Holds, Live
    <2>3. QED
      BY <1>1, <2>1, <2>2 DEF SeatInv
  <1>4. QED
    BY <1>2, <1>3

\* A seat off sale belongs to a booking that holds it, for any number of
\* bookings and handlers and any order of late and repeated writes.
THEOREM NoTrainSeatStranded == Spec => []NoStrandedSeat
  <1>1. SeatInv => NoStrandedSeat
    BY DEF SeatInv
  <1>2. QED
    BY <1>1, InitSeatInv, NextSeatInv, PTL DEF Spec

\* What bookings take from a schedule's counter comes back to it, for any
\* schedules, any seats asked for on them and any order of late and repeated
\* writes.
THEOREM TrainCounterComesBack == Spec => []CounterComesBack
  <1>1. SeatInv => CounterComesBack
    BY DEF SeatInv
  <1>2. QED
    BY <1>1, InitSeatInv, NextSeatInv, PTL DEF Spec
-----------------------------------------------------------------------------
(* Refunds. *)

\* What a handler is in the middle of when it cancels a paid booking.
Refunding(h) == handler[h].step # "idle" /\ handler[h].job = "CANCEL_PAID"

\* It has recorded the cancellation and not announced it yet.
Announcing(h) == handler[h].step \in {"unlock", "publish"} /\ Refunding(h)

\* A paid booking has been confirmed; who is about to announce has recorded the
\* cancellation, is alone with it, and nobody has announced before.
\* RefundAnnouncedOnce alone says nothing of handlers between commit and event.
RefundInv ==
  /\ TypeOK
  /\ \A b \in Booking : status[b] = "CONFIRMED" => b \in confirmed
  /\ \A h \in Handler : Refunding(h) => handler[h].booking \in confirmed
  /\ \A h \in Handler :
       handler[h].step = "publish" => handler[h].job = "CANCEL_PAID"
  /\ \A h \in Handler : Announcing(h) =>
       handler[h].booking \in cancelled /\ announced[handler[h].booking] = 0
  /\ \A g, h \in Handler :
       Announcing(g) /\ Announcing(h) /\ handler[g].booking = handler[h].booking
         => g = h
  /\ \A b \in Booking : b \notin cancelled => announced[b] = 0
  /\ RefundAnnouncedOnce

LEMMA InitRefundInv == Init => RefundInv
  <1> SUFFICES ASSUME Init PROVE RefundInv
    OBVIOUS
  <1>1. QED
    BY InitTypeOK DEF Init, RefundInv, RefundAnnouncedOnce, Refunding,
                      Announcing, Idle

\* A step that touches neither cancellations nor announcements: bookings are
\* confirmed only together with confirmed_at, and handlers come no closer to
\* announcing than they were.
LEMMA QuietStep ==
  ASSUME RefundInv, TypeOK',
         cancelled' = cancelled, announced' = announced,
         confirmed \subseteq confirmed',
         \A b \in Booking : status'[b] = "CONFIRMED" =>
           status[b] = "CONFIRMED" \/ b \in confirmed',
         \A h \in Handler :
           \/ handler'[h] = handler[h]
           \/ handler'[h].step = "idle"
           \/ /\ handler'[h].step # "publish" /\ ~Announcing(h)'
              /\ Refunding(h)' => handler'[h].booking \in confirmed'
           \/ /\ Announcing(h) /\ handler'[h].booking = handler[h].booking
              /\ handler'[h].job = "CANCEL_PAID"
  PROVE  RefundInv'
  <1>1. \A h \in Handler : Announcing(h)' =>
          Announcing(h) /\ handler'[h].booking = handler[h].booking
    BY DEF Announcing, Refunding
  <1>2. \A h \in Handler : Refunding(h)' => handler'[h].booking \in confirmed'
    BY DEF RefundInv, Announcing, Refunding
  <1>3. \A h \in Handler :
          handler'[h].step = "publish" => handler'[h].job = "CANCEL_PAID"
    BY DEF RefundInv
  <1>4. RefundAnnouncedOnce'
    BY DEF RefundInv, RefundAnnouncedOnce
  <1>5. QED
    BY <1>1, <1>2, <1>3, <1>4 DEF RefundInv

LEMMA CreationRefundInv ==
  ASSUME RefundInv, TypeOK',
         \/ \E b \in Booking :
              \/ CheckSeats(b) \/ RejectCreate(b) \/ InsertBooking(b)
              \/ \E s \in Seat : LockSeat(b, s)
              \/ ExpiresAtPasses(b) \/ PaymentRefunded(b)
         \/ \E k \in Key : PickSeat(k) \/ LockEnds(k)
    \/ \E s \in Seat : PurchaseSeat(s)
  PROVE  RefundInv'
  <1> USE DEF createVars, rowVars, cancelVars, workVars
  <1>1. UNCHANGED <<cancelled, announced, confirmed, handler>>
    BY DEF CheckSeats, RejectCreate, InsertBooking, LockSeat, ExpiresAtPasses,
           PaymentRefunded, PickSeat, LockEnds, PurchaseSeat
  <1>2. \A b \in Booking : status'[b] = "CONFIRMED" => status[b] = "CONFIRMED"
    <2>1. \/ status' = status
          \/ \E b \in Booking : status' = [status EXCEPT ![b] = "PENDING_PAYMENT"]
      BY DEF CheckSeats, RejectCreate, InsertBooking, LockSeat, ExpiresAtPasses,
             PaymentRefunded, PickSeat, LockEnds, PurchaseSeat
    <2>2. QED
      BY <2>1 DEF RefundInv, TypeOK, RowsOK
  <1>3. QED
    BY <1>1, <1>2, QuietStep

LEMMA ExpiryRefundInv ==
  ASSUME RefundInv, TypeOK',
         \/ FetchExpired \/ ExpireUnlock \/ WorkerRestarts
         \/ \E b \in Booking : ExpireCommit(b) \/ ExpireSkips(b)
  PROVE  RefundInv'
  <1> USE DEF createVars, rowVars, cancelVars, workVars
  <1>1. UNCHANGED <<cancelled, announced, confirmed, handler>>
    BY DEF FetchExpired, ExpireUnlock, WorkerRestarts, ExpireCommit, ExpireSkips
  <1>2. \A b \in Booking : status'[b] = "CONFIRMED" => status[b] = "CONFIRMED"
    BY DEF FetchExpired, ExpireUnlock, WorkerRestarts, ExpireCommit, ExpireSkips,
           RefundInv, TypeOK, RowsOK
  <1>3. QED
    BY <1>1, <1>2, QuietStep

\* The transaction of a cancellation: the unique index lets one handler through,
\* before which nobody can have announced anything.
LEMMA CancelCommitInv ==
  ASSUME RefundInv, TypeOK', NEW h \in Handler, CancelCommit(h)
  PROVE  RefundInv'
  <1>1. PICK b \in Booking : b = handler[h].booking
    BY DEF CancelCommit, RefundInv, TypeOK, HandlersOK
  <1>2. /\ b \notin cancelled /\ cancelled' = cancelled \cup {b}
        /\ announced' = announced /\ confirmed' = confirmed
        /\ announced[b] = 0
    BY <1>1 DEF CancelCommit, CancellationUnique, cancelVars, rowVars, RefundInv
  <1>3. \A g \in Handler : Announcing(g) => handler[g].booking # b
    BY <1>2 DEF RefundInv
  <1>4. /\ \A g \in Handler \ {h} : handler'[g] = handler[g]
        /\ handler'[h].step = "unlock" /\ handler'[h].booking = b
        /\ handler'[h].job = handler[h].job
    BY <1>1 DEF CancelCommit, Goto, RefundInv, TypeOK, HandlersOK
  <1>5. \A c \in Booking : status'[c] = "CONFIRMED" => c \in confirmed'
    BY <1>1, <1>2 DEF CancelCommit, RefundInv, TypeOK, RowsOK
  <1>6. \A g \in Handler : Refunding(g)' => handler'[g].booking \in confirmed'
    BY <1>1, <1>2, <1>4 DEF Refunding, RefundInv, CancelCommit
  <1>7. \A g \in Handler :
          handler'[g].step = "publish" => handler'[g].job = "CANCEL_PAID"
    BY <1>4 DEF RefundInv
  <1>8. \A g \in Handler : Announcing(g)' =>
          \/ g = h
          \/ Announcing(g) /\ handler'[g].booking = handler[g].booking
    BY <1>4 DEF Announcing, Refunding
  <1>9. \A g \in Handler : Announcing(g)' =>
          handler'[g].booking \in cancelled' /\ announced'[handler'[g].booking] = 0
    BY <1>2, <1>4, <1>8 DEF RefundInv
  <1>10. \A f, g \in Handler :
           Announcing(f)' /\ Announcing(g)' /\ handler'[f].booking = handler'[g].booking
             => f = g
    BY <1>3, <1>4, <1>8 DEF RefundInv
  <1>11. RefundAnnouncedOnce'
    BY <1>2 DEF RefundInv, RefundAnnouncedOnce
  <1>12. \A c \in Booking : c \notin cancelled' => announced'[c] = 0
    BY <1>2 DEF RefundInv
  <1>13. QED
    BY <1>5, <1>6, <1>7, <1>9, <1>10, <1>11, <1>12 DEF RefundInv

\* The event: sent once by the one handler that may, or lost.
LEMMA PublishInv ==
  ASSUME RefundInv, TypeOK', NEW h \in Handler, PublishCancelled(h)
  PROVE  RefundInv'
  <1>1. PICK b \in Booking : b = handler[h].booking
    BY DEF PublishCancelled, RefundInv, TypeOK, HandlersOK
  <1>2. Announcing(h)
    BY DEF PublishCancelled, Announcing, Refunding, RefundInv
  <1>3. b \in cancelled /\ b \in confirmed /\ announced[b] = 0
    BY <1>1, <1>2 DEF RefundInv, Announcing
  <1>4. /\ cancelled' = cancelled /\ confirmed' = confirmed /\ status' = status
        /\ announced'[b] \in {0, 1}
        /\ \A c \in Booking \ {b} : announced'[c] = announced[c]
    BY <1>1, <1>3 DEF PublishCancelled, rowVars, RefundInv, TypeOK, RowsOK
  <1>5. /\ \A g \in Handler \ {h} : handler'[g] = handler[g]
        /\ handler'[h].step = "idle"
    BY DEF PublishCancelled, Idle, RefundInv, TypeOK, HandlersOK
  <1>6. \A g \in Handler : Announcing(g)' =>
          Announcing(g) /\ handler'[g] = handler[g] /\ handler[g].booking # b
    BY <1>1, <1>2, <1>5 DEF Announcing, Refunding, RefundInv
  <1>7. \A g \in Handler : Announcing(g)' =>
          handler'[g].booking \in cancelled' /\ announced'[handler'[g].booking] = 0
    <2>1. \A g \in Handler : Announcing(g) => handler[g].booking \in Booking
      BY DEF Announcing, Refunding, RefundInv, TypeOK, HandlersOK
    <2>2. QED
      BY <1>4, <1>6, <2>1 DEF RefundInv
  <1>8. \A f, g \in Handler :
          Announcing(f)' /\ Announcing(g)' /\ handler'[f].booking = handler'[g].booking
            => f = g
    BY <1>6 DEF RefundInv
  <1>9. \A g \in Handler : Refunding(g)' => handler'[g].booking \in confirmed'
    BY <1>4, <1>5 DEF Refunding, RefundInv
  <1>10. \A g \in Handler :
           handler'[g].step = "publish" => handler'[g].job = "CANCEL_PAID"
    BY <1>5 DEF RefundInv
  <1>11. RefundAnnouncedOnce'
    BY <1>3, <1>4 DEF RefundInv, RefundAnnouncedOnce
  <1>12. \A c \in Booking : c \notin cancelled' => announced'[c] = 0
    BY <1>3, <1>4 DEF RefundInv
  <1>13. \A c \in Booking : status'[c] = "CONFIRMED" => c \in confirmed'
    BY <1>4 DEF RefundInv
  <1>14. QED
    BY <1>7, <1>8, <1>9, <1>10, <1>11, <1>12, <1>13 DEF RefundInv

LEMMA HandlerRefundInv ==
  ASSUME RefundInv, TypeOK', NEW h \in Handler,
         \/ \E b \in Booking : ReadBooking(h, b)
         \/ ConfirmCommit(h) \/ CancelCommit(h)
         \/ FailCommit(h) \/ FailUnread(h) \/ FailRollsBack(h)
         \/ UnlockSeats(h) \/ IssueTicket(h) \/ PublishCancelled(h)
         \/ HandlerFails(h)
  PROVE  RefundInv'
  <1> USE DEF createVars, rowVars, cancelVars, workVars
  <1>0. TypeOK
    BY DEF RefundInv
  <1>1. ASSUME NEW b \in Booking, ReadBooking(h, b) PROVE RefundInv'
    <2>1. UNCHANGED <<cancelled, announced, confirmed, status>>
      BY <1>1 DEF ReadBooking
    <2>2. \A g \in Handler : g # h => handler'[g] = handler[g]
      BY <1>0, <1>1 DEF ReadBooking, TypeOK, HandlersOK
    <2>3. /\ handler'[h].step = "commit" /\ handler'[h].booking = b
          /\ handler'[h].job = "CANCEL_PAID" => status[b] = "CONFIRMED"
      BY <1>0, <1>1 DEF ReadBooking, Jobs, TypeOK, HandlersOK
    <2>4. /\ handler'[h].step # "publish" /\ ~Announcing(h)'
          /\ Refunding(h)' => handler'[h].booking \in confirmed'
      BY <2>1, <2>3 DEF Announcing, Refunding, RefundInv
    <2>5. QED
      BY <2>1, <2>2, <2>4, QuietStep
  <1>2. CASE ConfirmCommit(h)
    <2>1. /\ UNCHANGED <<cancelled, announced>>
          /\ confirmed' = confirmed \cup {handler[h].booking}
      BY <1>2 DEF ConfirmCommit
    <2>2. \A b \in Booking : status'[b] = "CONFIRMED" =>
            status[b] = "CONFIRMED" \/ b \in confirmed'
      BY <1>0, <1>2 DEF ConfirmCommit, TypeOK, RowsOK
    <2>3. \A g \in Handler : g # h => handler'[g] = handler[g]
      BY <1>0, <1>2 DEF ConfirmCommit, Goto, TypeOK, HandlersOK
    <2>4. handler'[h].step = "unlock" /\ handler'[h].job \in {"EVENT", "CALLBACK"}
      BY <1>0, <1>2 DEF ConfirmCommit, Goto, TypeOK, HandlersOK
    <2>5. handler'[h].step # "publish" /\ ~Announcing(h)' /\ ~Refunding(h)'
      BY <2>4 DEF Announcing, Refunding
    <2>6. QED
      BY <2>1, <2>2, <2>3, <2>5, QuietStep
  <1>3. CASE CancelCommit(h)
    BY <1>3, CancelCommitInv
  <1>4. ASSUME FailCommit(h) \/ FailUnread(h) \/ FailRollsBack(h) PROVE RefundInv'
    <2>1. UNCHANGED <<cancelled, announced, confirmed>>
      BY <1>4 DEF FailCommit, FailUnread, FailRollsBack
    <2>2. \A b \in Booking : status'[b] = "CONFIRMED" => status[b] = "CONFIRMED"
      BY <1>0, <1>4 DEF FailCommit, FailUnread, FailRollsBack, TypeOK, RowsOK
    <2>3. \A g \in Handler : g # h => handler'[g] = handler[g]
      BY <1>0, <1>4 DEF FailCommit, FailUnread, FailRollsBack, Goto, TypeOK, HandlersOK
    <2>4. handler'[h].step \in {"unlock", "idle"} /\ handler'[h].job # "CANCEL_PAID"
      BY <1>0, <1>4 DEF FailCommit, FailUnread, FailRollsBack, Goto, Idle, TypeOK,
                        HandlersOK
    <2>5. handler'[h].step # "publish" /\ ~Announcing(h)' /\ ~Refunding(h)'
      BY <2>4 DEF Announcing, Refunding
    <2>6. QED
      BY <2>1, <2>2, <2>3, <2>5, QuietStep
  <1>5. CASE UnlockSeats(h)
    <2>1. UNCHANGED <<cancelled, announced, confirmed, status>>
      BY <1>5 DEF UnlockSeats
    <2>2. \A g \in Handler : g # h => handler'[g] = handler[g]
      BY <1>0, <1>5 DEF UnlockSeats, Goto, TypeOK, HandlersOK
    <2>3. CASE handler[h].job = "CANCEL_PAID"
      <3>1. /\ Announcing(h) /\ handler'[h].booking = handler[h].booking
            /\ handler'[h].job = "CANCEL_PAID"
        BY <1>0, <1>5, <2>3 DEF UnlockSeats, Goto, Announcing, Refunding, TypeOK,
                                HandlersOK
      <3>2. QED
        BY <2>1, <2>2, <3>1, QuietStep
    <2>4. CASE handler[h].job # "CANCEL_PAID"
      <3>1. handler'[h].step \in {"ticket", "idle"} /\ handler'[h].job # "CANCEL_PAID"
        BY <1>0, <1>5, <2>4 DEF UnlockSeats, Goto, Idle, TypeOK, HandlersOK
      <3>2. handler'[h].step # "publish" /\ ~Announcing(h)' /\ ~Refunding(h)'
        BY <3>1 DEF Announcing, Refunding
      <3>3. QED
        BY <2>1, <2>2, <3>2, QuietStep
    <2>5. QED
      BY <2>3, <2>4
  <1>6. CASE PublishCancelled(h)
    BY <1>6, PublishInv
  <1>7. ASSUME IssueTicket(h) \/ HandlerFails(h) PROVE RefundInv'
    <2>1. UNCHANGED <<cancelled, announced, confirmed, status>>
      BY <1>7 DEF IssueTicket, HandlerFails
    <2>2. \A g \in Handler : handler'[g] = handler[g] \/ handler'[g].step = "idle"
      BY <1>0, <1>7 DEF IssueTicket, HandlerFails, Idle, TypeOK, HandlersOK
    <2>3. QED
      BY <2>1, <2>2, QuietStep
  <1>8. QED
    BY <1>1, <1>2, <1>3, <1>4, <1>5, <1>6, <1>7

LEMMA NextRefundInv == RefundInv /\ [Next]_vars => RefundInv'
  <1> SUFFICES ASSUME RefundInv, [Next]_vars PROVE RefundInv'
    OBVIOUS
  <1>1. TypeOK'
    BY NextTypeOK DEF RefundInv
  <1>2. CASE Next
    BY <1>1, <1>2, NextCases, CreationRefundInv, HandlerRefundInv, ExpiryRefundInv
  <1>3. CASE UNCHANGED vars
    BY <1>1, <1>3, QuietStep DEF vars, rowVars, cancelVars
  <1>4. QED
    BY <1>2, <1>3

\* A refund is announced at most once, for a booking that was paid and whose
\* cancellation is on record, however many cancellations race with payments,
\* failures and the expiry worker.
THEOREM TrainRefundOnce == Spec => []RefundAnnouncedOnce
  <1>1. RefundInv => RefundAnnouncedOnce
    BY DEF RefundInv
  <1>2. QED
    BY <1>1, InitRefundInv, NextRefundInv, PTL DEF Spec

\* A refund that reads COMPLETED was announced.
CompletedWasAnnounced ==
  \A b \in Booking : refund[b] = "COMPLETED" => announced[b] > 0

\* Steps that neither confirm, cancel, announce nor hear of a refund.
LEMMA BookFrame ==
  ASSUME [Next]_vars,
         ~ \E h \in Handler : ConfirmCommit(h) \/ CancelCommit(h) \/ PublishCancelled(h),
         ~ \E b \in Booking : PaymentRefunded(b)
  PROVE  UNCHANGED <<confirmed, cancelled, announced, refund>>
  <1> USE DEF rowVars, cancelVars
  <1>1. ASSUME NEW b \in Booking,
               \/ CheckSeats(b) \/ RejectCreate(b) \/ InsertBooking(b)
               \/ \E s \in Seat : LockSeat(b, s)
               \/ ExpiresAtPasses(b) \/ ExpireCommit(b) \/ ExpireSkips(b)
               \/ \E h \in Handler : ReadBooking(h, b)
        PROVE  UNCHANGED <<confirmed, cancelled, announced, refund>>
    BY <1>1 DEF CheckSeats, RejectCreate, InsertBooking, LockSeat,
                ExpiresAtPasses, ExpireCommit, ExpireSkips, ReadBooking
  <1>2. ASSUME NEW h \in Handler,
               \/ FailCommit(h) \/ FailUnread(h) \/ FailRollsBack(h)
               \/ UnlockSeats(h) \/ IssueTicket(h) \/ HandlerFails(h)
        PROVE  UNCHANGED <<confirmed, cancelled, announced, refund>>
    BY <1>2 DEF FailCommit, FailUnread, FailRollsBack, UnlockSeats, IssueTicket,
                HandlerFails
  <1>3. ASSUME \/ \E k \in Key : PickSeat(k) \/ LockEnds(k)
               \/ \E s \in Seat : PurchaseSeat(s)
               \/ FetchExpired \/ ExpireUnlock \/ WorkerRestarts
        PROVE  UNCHANGED <<confirmed, cancelled, announced, refund>>
    BY <1>3 DEF PickSeat, LockEnds, PurchaseSeat, FetchExpired, ExpireUnlock,
                WorkerRestarts
  <1>4. CASE UNCHANGED vars
    BY <1>4 DEF vars
  <1>5. QED
    BY Zenon, NextCases, <1>1, <1>2, <1>3, <1>4

\* Every step is a step of the abstract refunds or none.
LEMMA StepsOnRefunds ==
  ASSUME RefundInv, CompletedWasAnnounced, [Next]_vars
  PROVE  /\ CompletedWasAnnounced'
         /\ [RefundBook!RefundsNext]_(RefundBook!refundsVars)
  <1> DEFINE Mapped == /\ CompletedWasAnnounced'
                       /\ [RefundBook!RefundsNext]_(RefundBook!refundsVars)
             shown == {d \in Booking : refund[d] = "COMPLETED"}
  <1> USE DEF CompletedWasAnnounced
  <1>1. ASSUME NEW h \in Handler, ConfirmCommit(h)
        PROVE  Mapped
    <2> DEFINE b == handler[h].booking
    <2>1. /\ b \in Booking
          /\ confirmed' = confirmed \cup {b}
          /\ UNCHANGED <<cancelled, announced, refund>>
      BY <1>1 DEF ConfirmCommit, RefundInv, TypeOK, HandlersOK, cancelVars
    <2>2. CASE b \in confirmed
      BY <2>1, <2>2 DEF RefundBook!refundsVars
    <2>3. CASE b \notin confirmed
      BY <2>1, <2>3 DEF RefundBook!Pay, RefundBook!RefundsNext
    <2>4. QED
      BY <2>2, <2>3
  <1>2. ASSUME NEW h \in Handler, CancelCommit(h)
        PROVE  Mapped
    <2> DEFINE b == handler[h].booking
    <2>1. /\ b \in Booking /\ b \notin cancelled
          /\ cancelled' = cancelled \cup {b}
          /\ refund' = [refund EXCEPT ![b] = "PENDING"]
          /\ UNCHANGED <<confirmed, announced>>
      BY <1>2 DEF CancelCommit, CancellationUnique, RefundInv, TypeOK, HandlersOK
    <2>2. refund[b] # "COMPLETED"
      BY <2>1 DEF RefundInv
    <2>3. shown' = shown
      BY <2>1, <2>2 DEF RefundInv, TypeOK, RowsOK
    <2>4. RefundBook!Record(b)
      BY <2>1, <2>3 DEF RefundBook!Record
    <2>5. CompletedWasAnnounced'
      BY <2>1 DEF RefundInv, TypeOK, RowsOK
    <2>6. QED
      BY <2>1, <2>4, <2>5 DEF RefundBook!RefundsNext
  <1>3. ASSUME NEW h \in Handler, PublishCancelled(h)
        PROVE  Mapped
    <2> DEFINE b == handler[h].booking
    <2>1. /\ b \in Booking
          /\ announced' = announced \/ announced' = [announced EXCEPT ![b] = @ + 1]
          /\ UNCHANGED <<confirmed, cancelled, refund>>
      BY <1>3 DEF PublishCancelled, RefundInv, TypeOK, HandlersOK, rowVars
    <2>2. b \in confirmed \cap cancelled /\ announced[b] = 0
      BY <1>3 DEF PublishCancelled, RefundInv, Announcing, Refunding
    <2>3. CASE announced' = announced
      BY <2>1, <2>3 DEF RefundBook!refundsVars
    <2>4. CASE announced' = [announced EXCEPT ![b] = @ + 1]
      <3>1. announced' = [announced EXCEPT ![b] = 1]
        BY <2>2, <2>4 DEF RefundInv, TypeOK, RowsOK
      <3>2. RefundBook!Call(b)
        BY <2>1, <2>2, <3>1 DEF RefundBook!Call
      <3>3. CompletedWasAnnounced'
        BY <2>1, <3>1 DEF RefundInv, TypeOK, RowsOK
      <3>4. QED
        BY <2>1, <3>2, <3>3 DEF RefundBook!RefundsNext
    <2>5. QED
      BY <2>1, <2>3, <2>4
  <1>4. ASSUME NEW b \in Booking, PaymentRefunded(b)
        PROVE  Mapped
    <2>1. announced[b] = 1 /\ b \in cancelled
      BY <1>4 DEF PaymentRefunded, RefundInv, RefundAnnouncedOnce, TypeOK, RowsOK
    <2>2. /\ refund' = [refund EXCEPT ![b] = "COMPLETED"]
          /\ UNCHANGED <<confirmed, cancelled, announced>>
      BY <1>4, <2>1 DEF PaymentRefunded, Refunded, rowVars
    <2>3. shown' = shown \cup {b}
      BY <2>2 DEF RefundInv, TypeOK, RowsOK
    <2>4. CompletedWasAnnounced'
      BY <2>1, <2>2 DEF RefundInv, TypeOK, RowsOK
    <2>5. CASE b \in shown
      BY <2>2, <2>3, <2>4, <2>5 DEF RefundBook!refundsVars
    <2>6. CASE b \notin shown
      <3>1. RefundBook!Accept(b)
        BY <2>1, <2>2, <2>3, <2>6 DEF RefundBook!Accept, RefundBook!Open
      <3>2. QED
        BY <2>4, <3>1 DEF RefundBook!RefundsNext
    <2>7. QED
      BY <2>5, <2>6
  <1>5. ASSUME UNCHANGED <<confirmed, cancelled, announced, refund>>
        PROVE  Mapped
    BY <1>5 DEF RefundBook!refundsVars
  <1> HIDE DEF Mapped
  <1>6. Mapped
    BY Zenon, BookFrame, <1>1, <1>2, <1>3, <1>4, <1>5
  <1>7. QED
    BY <1>6 DEF Mapped

\* Payments, failures, cancellations and the expiry worker, in any order,
\* implement the abstract refunds.
THEOREM TrainRefunds == Spec => ImplementsRefunds
  <1>1. Init => CompletedWasAnnounced /\ RefundBook!RefundsInit
    BY DEF Init, CompletedWasAnnounced, RefundBook!RefundsInit
  <1>2. QED
    BY <1>1, InitRefundInv, NextRefundInv, StepsOnRefunds, PTL
    DEF Spec, ImplementsRefunds, RefundBook!RefundsSpec
=============================================================================
