--------------------------- MODULE BusBookingProofs ---------------------------
(***************************************************************************)
(* Theorems about BusBooking, for any number of bookings, passengers,      *)
(* seats and handlers.                                                     *)
(***************************************************************************)
EXTENDS BusBooking, FiniteSetTheorems, TLAPS

\* Every step of the specification is one of these: the disjuncts of Next with
\* the handlers' own disjunctions flattened.
LEMMA NextCases ==
  ASSUME Next
  PROVE
    \/ \E b \in Booking :
         \/ RejectCreate(b) \/ CrashCreate(b) \/ InsertBooking(b)
         \/ \E p \in Passenger : NoSeat(b, p)
         \/ \E p \in Passenger, s \in Seat : CheckSeat(b, p, s)
         \/ \E s \in Seat : LockSeat(b, s)
         \/ ExpiresAtPasses(b) \/ PaymentRefunds(b)
    \/ \E s \in Seat : LockExpires(s)
    \/ \E h \in Handler, b \in Booking : ConfirmRead(h, b) \/ CancelRead(h, b)
    \/ \E h \in Handler :
         \/ ExpireStatus(h) \/ ConfirmStatus(h) \/ TakeSeats(h)
         \/ UnlockTaken(h) \/ DecrementInventory(h) \/ AddProfit(h)
         \/ SaveETicket(h) \/ HandlerFails(h)
    \/ \E h \in Handler :
         \/ FreeSeats(h) \/ UnlockFreed(h) \/ IncrementInventory(h)
         \/ SubtractProfit(h) \/ CreateCancellation(h) \/ CallRefund(h)
         \/ RefundReturns(h) \/ RefundErrors(h) \/ CancelStatus(h)
    \/ \E e \in events : ConsumeRefundEvent(e)
    \/ ExpireBookings
  BY Zenon DEF Next, CreateBooking, ConfirmBooking, CancelBooking

\* A booking's number of seats is a natural number.
LEMMA SeatCountType ==
  ASSUME NEW b
  PROVE  SeatCount(b) \in Nat
  <1> DEFINE S == {p \in Travellers(b) : seatOf[p] # None}
  <1>1. S \subseteq Passenger
    BY DEF Travellers
  <1>2. IsFiniteSet(S)
    BY <1>1, BusAssumption, FS_Subset
  <1>3. QED
    BY <1>2, FS_CardinalityType DEF SeatCount

\* The counter stays an integer.
LEMMA MovedType ==
  ASSUME avail \in Int, NEW b
  PROVE  Moved(SeatCount(b)) \subseteq Int /\ Moved(-SeatCount(b)) \subseteq Int
  <1>1. SeatCount(b) \in Int /\ -SeatCount(b) \in Int
    BY SeatCountType
  <1>2. ASSUME NEW n \in Int PROVE Moved(n) \subseteq Int
    BY <1>2 DEF Moved
  <1>3. QED
    BY <1>1, <1>2

\* Deleting lock keys leaves a well-typed lock table.
LEMMA UnlockedType ==
  ASSUME lock \in [Seat -> Booking \cup {None}], NEW S, NEW b
  PROVE  UnlockSeatsByOwner(S, b) \in [Seat -> Booking \cup {None}]
  BY DEF UnlockSeatsByOwner

\* Moving a handler on to its next statement, or ending it, keeps it well-typed.
LEMMA GotoType ==
  ASSUME HandlersOK, NEW h \in Handler, NEW step \in Step, Goto(h, step),
         handler[h].step # "idle"
  PROVE  HandlersOK'
  BY DEF HandlersOK, Goto

LEMMA IdleType ==
  ASSUME HandlersOK, NEW h \in Handler, handler' = [handler EXCEPT ![h] = Idle]
  PROVE  HandlersOK'
  BY DEF HandlersOK, Idle, Step, Plan

\* Writing a status into one row.
LEMMA StatusType ==
  ASSUME status \in [Booking -> Status], NEW b, NEW st \in Status,
         status' = [status EXCEPT ![b] = st]
  PROVE  status' \in [Booking -> Status]
  OBVIOUS
-----------------------------------------------------------------------------
(* Type correctness. *)

LEMMA InitTypeOK == Init => TypeOK
  <1> SUFFICES ASSUME Init PROVE TypeOK
    OBVIOUS
  <1> USE BusAssumption DEF Init
  <1>1. CreationOK
    BY DEF CreationOK
  <1>2. RowsOK
    BY DEF RowsOK, Status
  <1>3. HandlersOK
    BY DEF HandlersOK, Idle, Step, Plan
  <1>4. MoneyOK
    BY DEF MoneyOK
  <1>5. QED
    BY <1>1, <1>2, <1>3, <1>4 DEF TypeOK

\* The steps of the creation of bookings, of time and of the jobs.
LEMMA CreationTypeOK ==
  ASSUME TypeOK, NEW b \in Booking,
         \/ RejectCreate(b) \/ CrashCreate(b) \/ InsertBooking(b)
         \/ \E p \in Passenger : NoSeat(b, p)
         \/ \E p \in Passenger, s \in Seat : CheckSeat(b, p, s)
         \/ \E s \in Seat : LockSeat(b, s)
         \/ ExpiresAtPasses(b)
  PROVE  TypeOK'
  <1> USE DEF TypeOK, CreationOK, RowsOK, HandlersOK, MoneyOK,
              createVars, paidVars, cancelVars, moneyVars
  <1>1. CASE RejectCreate(b)
    BY <1>1, UnlockedType DEF RejectCreate, Forget
  <1>2. CASE CrashCreate(b)
    BY <1>2 DEF CrashCreate, Forget
  <1>3. CASE InsertBooking(b)
    BY <1>3 DEF InsertBooking, Status
  <1>4. ASSUME NEW p \in Passenger, NoSeat(b, p)
        PROVE  TypeOK'
    BY <1>4 DEF NoSeat
  <1>5. ASSUME NEW p \in Passenger, NEW s \in Seat, CheckSeat(b, p, s)
        PROVE  TypeOK'
    BY <1>5 DEF CheckSeat
  <1>6. ASSUME NEW s \in Seat, LockSeat(b, s)
        PROVE  TypeOK'
    BY <1>6 DEF LockSeat
  <1>7. CASE ExpiresAtPasses(b)
    BY <1>7 DEF ExpiresAtPasses
  <1>8. QED
    BY <1>1, <1>2, <1>3, <1>4, <1>5, <1>6, <1>7

\* The statements of a confirmation.
LEMMA ConfirmTypeOK ==
  ASSUME TypeOK, NEW h \in Handler,
         \/ \E b \in Booking : ConfirmRead(h, b)
         \/ ExpireStatus(h) \/ ConfirmStatus(h) \/ TakeSeats(h)
         \/ UnlockTaken(h) \/ DecrementInventory(h) \/ AddProfit(h)
         \/ SaveETicket(h) \/ HandlerFails(h)
  PROVE  TypeOK'
  <1> USE DEF createVars, paidVars, cancelVars, moneyVars
  <1>1. ASSUME NEW b \in Booking, ConfirmRead(h, b)
        PROVE  TypeOK'
    BY <1>1 DEF ConfirmRead, TypeOK, CreationOK, RowsOK, HandlersOK, MoneyOK,
                Step, Plan
  <1>2. CASE ExpireStatus(h)
    <2>1. HandlersOK'
      BY <1>2, IdleType DEF ExpireStatus, TypeOK
    <2>2. QED
      BY <1>2, <2>1 DEF ExpireStatus, TypeOK, CreationOK, RowsOK, MoneyOK, Status
  <1>3. CASE ConfirmStatus(h)
    <2>1. HandlersOK' /\ handler[h].booking \in Booking
      BY <1>3, GotoType DEF ConfirmStatus, TypeOK, HandlersOK, Step
    <2>2. QED
      BY <1>3, <2>1 DEF ConfirmStatus, TypeOK, CreationOK, RowsOK, MoneyOK, Status
  <1>4. CASE TakeSeats(h)
    <2>1. HandlersOK'
      BY <1>4, GotoType DEF TakeSeats, TypeOK, Step
    <2>2. QED
      BY <1>4, <2>1 DEF TakeSeats, TypeOK, CreationOK, RowsOK, MoneyOK
  <1>5. CASE UnlockTaken(h)
    <2>1. HandlersOK'
      BY <1>5, GotoType DEF UnlockTaken, Unlock, TypeOK, Step
    <2>2. QED
      BY <1>5, <2>1, UnlockedType
      DEF UnlockTaken, Unlock, TypeOK, CreationOK, RowsOK, MoneyOK
  <1>6. CASE DecrementInventory(h)
    <2>1. HandlersOK'
      BY <1>6, GotoType DEF DecrementInventory, TypeOK, Step
    <2>2. avail' \in Int
      BY <1>6, MovedType DEF DecrementInventory, TypeOK, RowsOK
    <2>3. QED
      BY <1>6, <2>1, <2>2 DEF DecrementInventory, TypeOK, CreationOK, RowsOK, MoneyOK
  <1>7. CASE AddProfit(h)
    <2>1. HandlersOK'
      BY <1>7, GotoType DEF AddProfit, TypeOK, Step
    <2>2. QED
      BY <1>7, <2>1 DEF AddProfit, TypeOK, CreationOK, RowsOK, MoneyOK
  <1>9. CASE HandlerFails(h)
    <2>1. HandlersOK'
      BY <1>9, IdleType DEF HandlerFails, TypeOK
    <2>2. QED
      BY <1>9, <2>1 DEF HandlerFails, TypeOK, CreationOK, RowsOK, MoneyOK
  <1>10. CASE SaveETicket(h)
    <2>1. HandlersOK' /\ handler[h].booking \in Booking
      BY <1>10, IdleType DEF SaveETicket, TypeOK, HandlersOK
    <2>2. QED
      BY <1>10, <2>1 DEF SaveETicket, TypeOK, CreationOK, RowsOK, MoneyOK
  <1>11. QED
    BY <1>1, <1>2, <1>3, <1>4, <1>5, <1>6, <1>7, <1>9, <1>10

\* The statements of a cancellation.
LEMMA CancelTypeOK ==
  ASSUME TypeOK, NEW h \in Handler,
         \/ \E b \in Booking : CancelRead(h, b)
         \/ FreeSeats(h) \/ UnlockFreed(h) \/ IncrementInventory(h)
         \/ SubtractProfit(h) \/ CreateCancellation(h) \/ CallRefund(h)
         \/ RefundReturns(h) \/ RefundErrors(h) \/ CancelStatus(h)
  PROVE  TypeOK'
  <1> USE DEF createVars, paidVars, cancelVars, moneyVars
  <1>1. ASSUME NEW b \in Booking, CancelRead(h, b)
        PROVE  TypeOK'
    <2>1. RefundPlans(b) \subseteq Plan
      BY DEF RefundPlans, Plan
    <2>2. QED
      BY <1>1, <2>1 DEF CancelRead, TypeOK, CreationOK, RowsOK, HandlersOK,
                        MoneyOK, Step
  <1>2. CASE FreeSeats(h)
    <2>1. HandlersOK' /\ handler[h].booking \in Booking
      BY <1>2, GotoType DEF FreeSeats, TypeOK, HandlersOK, Step
    <2>2. SeatsOf(handler[h].booking) \subseteq Seat
      BY DEF SeatsOf, Travellers, TypeOK, CreationOK
    <2>3. QED
      BY <1>2, <2>1, <2>2 DEF FreeSeats, TypeOK, CreationOK, RowsOK, MoneyOK
  <1>3. CASE UnlockFreed(h)
    <2>1. HandlersOK'
      <3>1. CASE handler[h].plan = "UNPAID"
        BY <1>3, <3>1, GotoType DEF UnlockFreed, Unlock, TypeOK, Step
      <3>2. CASE handler[h].plan # "UNPAID"
        BY <1>3, <3>2, GotoType DEF UnlockFreed, Unlock, TypeOK, Step
      <3>3. QED
        BY <3>1, <3>2
    <2>2. QED
      BY <1>3, <2>1, UnlockedType
      DEF UnlockFreed, Unlock, TypeOK, CreationOK, RowsOK, MoneyOK
  <1>4. CASE IncrementInventory(h)
    <2>1. HandlersOK'
      <3>1. CASE handler[h].plan = "NO_REFUND"
        BY <1>4, <3>1, GotoType DEF IncrementInventory, TypeOK, Step
      <3>2. CASE handler[h].plan # "NO_REFUND"
        BY <1>4, <3>2, GotoType DEF IncrementInventory, TypeOK, Step
      <3>3. QED
        BY <3>1, <3>2
    <2>2. avail' \in Int
      BY <1>4, MovedType DEF IncrementInventory, TypeOK, RowsOK
    <2>3. QED
      BY <1>4, <2>1, <2>2 DEF IncrementInventory, TypeOK, CreationOK, RowsOK, MoneyOK
  <1>5. CASE SubtractProfit(h)
    <2>1. HandlersOK'
      BY <1>5, GotoType DEF SubtractProfit, TypeOK, Step
    <2>2. QED
      BY <1>5, <2>1 DEF SubtractProfit, TypeOK, CreationOK, RowsOK, MoneyOK
  <1>6. CASE CreateCancellation(h)
    <2>1. HandlersOK'
      <3>1. CASE handler[h].plan = "CALL"
        BY <1>6, <3>1, GotoType DEF CreateCancellation, TypeOK, Step
      <3>2. CASE handler[h].plan # "CALL"
        BY <1>6, <3>2, GotoType DEF CreateCancellation, TypeOK, Step
      <3>3. QED
        BY <3>1, <3>2
    <2>2. handler[h].booking \in Booking
      BY <1>6 DEF CreateCancellation, TypeOK, HandlersOK
    <2>3. QED
      BY <1>6, <2>1, <2>2 DEF CreateCancellation, TypeOK, CreationOK, RowsOK, MoneyOK
  <1>7. CASE CallRefund(h)
    <2>1. HandlersOK' /\ handler[h].booking \in Booking
      BY <1>7, GotoType DEF CallRefund, TypeOK, HandlersOK, Step
    <2>2. QED
      BY <1>7, <2>1 DEF CallRefund, TypeOK, CreationOK, RowsOK, MoneyOK
  <1>8. CASE RefundReturns(h)
    <2>1. HandlersOK'
      BY <1>8, GotoType DEF RefundReturns, TypeOK, Step
    <2>2. QED
      BY <1>8, <2>1 DEF RefundReturns, TypeOK, CreationOK, RowsOK, MoneyOK
  <1>9. CASE RefundErrors(h)
    <2>1. HandlersOK' /\ handler[h].booking \in Booking
      BY <1>9, GotoType DEF RefundErrors, TypeOK, HandlersOK, Step
    <2>2. QED
      BY <1>9, <2>1 DEF RefundErrors, TypeOK, CreationOK, RowsOK, MoneyOK
  <1>10. CASE CancelStatus(h)
    <2>1. HandlersOK' /\ handler[h].booking \in Booking
      BY <1>10, IdleType DEF CancelStatus, Closing, TypeOK, HandlersOK
    <2>2. QED
      BY <1>10, <2>1 DEF CancelStatus, TypeOK, CreationOK, RowsOK, MoneyOK, Status
  <1>11. QED
    BY <1>1, <1>2, <1>3, <1>4, <1>5, <1>6, <1>7, <1>8, <1>9, <1>10

\* Locks running out, the expiry job, payment-service and its events.
LEMMA OtherTypeOK ==
  ASSUME TypeOK,
         \/ \E s \in Seat : LockExpires(s)
         \/ \E b \in Booking : PaymentRefunds(b)
         \/ \E e \in events : ConsumeRefundEvent(e)
         \/ ExpireBookings
  PROVE  TypeOK'
  <1> USE DEF TypeOK, CreationOK, RowsOK, HandlersOK, MoneyOK,
              createVars, paidVars, cancelVars, moneyVars
  <1>1. ASSUME NEW s \in Seat, LockExpires(s)
        PROVE  TypeOK'
    BY <1>1 DEF LockExpires
  <1>2. ASSUME NEW b \in Booking, PaymentRefunds(b)
        PROVE  TypeOK'
    BY <1>2 DEF PaymentRefunds
  <1>3. ASSUME NEW e \in events, ConsumeRefundEvent(e)
        PROVE  TypeOK'
    BY <1>3 DEF ConsumeRefundEvent, OutcomeStatus
  <1>4. CASE ExpireBookings
    BY <1>4 DEF ExpireBookings, Status
  <1>5. QED
    BY <1>1, <1>2, <1>3, <1>4

LEMMA NextTypeOK ==
  ASSUME TypeOK, [Next]_vars
  PROVE  TypeOK'
  <1>1. CASE Next
    BY <1>1, NextCases, CreationTypeOK, ConfirmTypeOK, CancelTypeOK, OtherTypeOK,
       Zenon
  <1>2. CASE UNCHANGED vars
    BY <1>2 DEF TypeOK, CreationOK, RowsOK, HandlersOK, MoneyOK, vars,
                createVars, paidVars, cancelVars, moneyVars
  <1>3. QED
    BY <1>1, <1>2

\* Rows, handlers, messages and calls keep their types, for every value of the
\* constants.
THEOREM BusTypeOK == Spec => []TypeOK
  <1>1. QED
    BY InitTypeOK, NextTypeOK, PTL DEF Spec
-----------------------------------------------------------------------------
(* Cancellations and refunds. *)

\* What a handler of a cancellation knows of its booking: it only plans a call
\* for a paid one, it is past the insert only when the record is there, and it
\* is about to call only when nobody has called yet.
PlansOK ==
  \A h \in Handler :
    LET b == handler[h].booking IN
    /\ handler[h].plan = "CALL" => b \in paid
    /\ handler[h].step \in {"call", "wait", "close"} => b \in cancelled
    /\ handler[h].step = "call" =>
         handler[h].plan = "CALL" /\ b \in owed /\ refundCalls[b] = 0

\* The unique index lets one handler through to the call for a booking.
OneCaller ==
  \A h, g \in Handler :
    /\ handler[h].step = "call" /\ handler[g].step = "call"
    /\ handler[h].booking = handler[g].booking
    => h = g

\* Before the record of a cancellation there is no call, before the call
\* payment-service does nothing, and it reports only what it has done.
CallsFollowRecords ==
  /\ \A b \in Booking \ cancelled : refundCalls[b] = 0
  /\ \A b \in Booking : refundCalls[b] = 0 => refundRPC[b] = "none"
  /\ \A e \in events : e.type = "refunded" => refundRPC[e.booking] = "refunded"

\* The inductive invariant.
RefundInv ==
  /\ TypeOK /\ PlansOK /\ OneCaller /\ CallsFollowRecords
  /\ RefundOnce /\ CancelledIsRecorded /\ SuccessIsSettled

LEMMA InitRefundInv == Init => RefundInv
  <1> SUFFICES ASSUME Init PROVE RefundInv
    OBVIOUS
  <1>1. TypeOK
    BY InitTypeOK
  <1>2. PlansOK /\ OneCaller /\ CallsFollowRecords
    BY DEF Init, Idle, PlansOK, OneCaller, CallsFollowRecords
  <1>3. RefundOnce /\ CancelledIsRecorded /\ SuccessIsSettled
    BY DEF Init, RefundOnce, CancelledIsRecorded, SuccessIsSettled
  <1>4. QED
    BY <1>1, <1>2, <1>3 DEF RefundInv

\* A step that leaves cancellations and calls alone, and whose handlers end up
\* before the insert of a cancellation, keeps the invariant.
LEMMA QuietStep ==
  ASSUME RefundInv, TypeOK',
         paid \subseteq paid', UNCHANGED <<cancelVars, moneyVars>>,
         \A h \in Handler :
           \/ handler'[h] = handler[h]
           \/ /\ handler'[h].step \notin {"call", "wait", "close"}
              /\ handler'[h].plan = "CALL" => handler'[h].booking \in paid',
         \A b \in Booking : status'[b] = "CANCELLED" => status[b] = "CANCELLED"
  PROVE  RefundInv'
  <1> USE DEF RefundInv, cancelVars, moneyVars
  <1>1. PlansOK'
    BY DEF PlansOK
  <1>2. OneCaller'
    BY DEF OneCaller
  <1>3. CallsFollowRecords'
    BY DEF CallsFollowRecords
  <1>4. RefundOnce'
    BY DEF RefundOnce
  <1>5. CancelledIsRecorded' /\ SuccessIsSettled'
    BY DEF CancelledIsRecorded, SuccessIsSettled
  <1>6. QED
    BY <1>1, <1>2, <1>3, <1>4, <1>5

\* Creations, locks and the expiry job are quiet.
LEMMA CreationRefundInv ==
  ASSUME RefundInv, TypeOK', NEW b \in Booking,
         \/ RejectCreate(b) \/ CrashCreate(b) \/ InsertBooking(b)
         \/ \E p \in Passenger : NoSeat(b, p)
         \/ \E p \in Passenger, s \in Seat : CheckSeat(b, p, s)
         \/ \E s \in Seat : LockSeat(b, s)
         \/ ExpiresAtPasses(b)
  PROVE  RefundInv'
  <1> USE DEF paidVars, cancelVars, moneyVars
  <1>1. CASE RejectCreate(b)
    BY <1>1, QuietStep DEF RejectCreate
  <1>2. CASE CrashCreate(b)
    BY <1>2, QuietStep DEF CrashCreate
  <1>3. CASE InsertBooking(b)
    <2>1. \A x \in Booking : status'[x] = "CANCELLED" => status[x] = "CANCELLED"
      BY <1>3 DEF InsertBooking, RefundInv, TypeOK, RowsOK
    <2>2. QED
      BY <1>3, <2>1, QuietStep DEF InsertBooking
  <1>4. ASSUME NEW p \in Passenger, NoSeat(b, p)
        PROVE  RefundInv'
    BY <1>4, QuietStep DEF NoSeat
  <1>5. ASSUME NEW p \in Passenger, NEW s \in Seat, CheckSeat(b, p, s)
        PROVE  RefundInv'
    BY <1>5, QuietStep DEF CheckSeat
  <1>6. ASSUME NEW s \in Seat, LockSeat(b, s)
        PROVE  RefundInv'
    BY <1>6, QuietStep DEF LockSeat
  <1>7. CASE ExpiresAtPasses(b)
    BY <1>7, QuietStep DEF ExpiresAtPasses
  <1>8. QED
    BY <1>1, <1>2, <1>3, <1>4, <1>5, <1>6, <1>7

\* Moving on to a step before the insert, or ending, is what QuietStep asks of
\* a handler.
LEMMA GotoQuiet ==
  ASSUME RefundInv, paid \subseteq paid', NEW h \in Handler,
         NEW step \in Step \ {"call", "wait", "close"}, Goto(h, step)
  PROVE  \A g \in Handler :
           \/ handler'[g] = handler[g]
           \/ /\ handler'[g].step \notin {"call", "wait", "close"}
              /\ handler'[g].plan = "CALL" => handler'[g].booking \in paid'
  BY DEF Goto, RefundInv, PlansOK, TypeOK, HandlersOK

LEMMA IdleQuiet ==
  ASSUME RefundInv, NEW h \in Handler, handler' = [handler EXCEPT ![h] = Idle]
  PROVE  \A g \in Handler :
           \/ handler'[g] = handler[g]
           \/ /\ handler'[g].step \notin {"call", "wait", "close"}
              /\ handler'[g].plan = "CALL" => handler'[g].booking \in paid'
  BY DEF Idle, RefundInv, TypeOK, HandlersOK

\* Confirmations are quiet.
LEMMA ConfirmRefundInv ==
  ASSUME RefundInv, TypeOK', NEW h \in Handler,
         \/ \E b \in Booking : ConfirmRead(h, b)
         \/ ExpireStatus(h) \/ ConfirmStatus(h) \/ TakeSeats(h)
         \/ UnlockTaken(h) \/ DecrementInventory(h) \/ AddProfit(h)
         \/ SaveETicket(h) \/ HandlerFails(h)
  PROVE  RefundInv'
  <1> USE DEF paidVars
  <1>1. ASSUME NEW b \in Booking, ConfirmRead(h, b)
        PROVE  RefundInv'
    <2>1. \A g \in Handler :
            \/ handler'[g] = handler[g]
            \/ /\ handler'[g].step \notin {"call", "wait", "close"}
               /\ handler'[g].plan # "CALL"
      BY <1>1 DEF ConfirmRead, RefundInv, TypeOK, HandlersOK
    <2>2. QED
      BY <1>1, <2>1, QuietStep DEF ConfirmRead
  <1>2. CASE ExpireStatus(h)
    <2>1. \A x \in Booking : status'[x] = "CANCELLED" => status[x] = "CANCELLED"
      BY <1>2 DEF ExpireStatus, RefundInv, TypeOK, RowsOK
    <2>2. QED
      BY <1>2, <2>1, QuietStep, IdleQuiet DEF ExpireStatus
  <1>3. CASE ConfirmStatus(h)
    <2>1. \A x \in Booking : status'[x] = "CANCELLED" => status[x] = "CANCELLED"
      BY <1>3 DEF ConfirmStatus, RefundInv, TypeOK, RowsOK
    <2>2. paid \subseteq paid' /\ Goto(h, "take") /\ UNCHANGED <<cancelVars, moneyVars>>
      BY <1>3 DEF ConfirmStatus
    <2>3. QED
      BY <2>1, <2>2, QuietStep, GotoQuiet DEF Step
  <1>4. CASE TakeSeats(h)
    BY <1>4, QuietStep, GotoQuiet DEF TakeSeats, Step
  <1>5. CASE UnlockTaken(h)
    BY <1>5, QuietStep, GotoQuiet DEF UnlockTaken, Unlock, Step
  <1>6. CASE DecrementInventory(h)
    BY <1>6, QuietStep, GotoQuiet DEF DecrementInventory, Step
  <1>7. CASE AddProfit(h)
    BY <1>7, QuietStep, GotoQuiet DEF AddProfit, Step
  <1>8. CASE SaveETicket(h)
    BY <1>8, QuietStep, IdleQuiet DEF SaveETicket
  <1>9. CASE HandlerFails(h)
    BY <1>9, QuietStep, IdleQuiet DEF HandlerFails
  <1>10. QED
    BY <1>1, <1>2, <1>3, <1>4, <1>5, <1>6, <1>7, <1>8, <1>9

\* The insert of a cancellation: this handler alone gets through.
LEMMA CreateCancellationInv ==
  ASSUME RefundInv, TypeOK', NEW h \in Handler, CreateCancellation(h)
  PROVE  RefundInv'
  <1> DEFINE b == handler[h].booking
             due == handler[h].plan \in {"NO_CLIENT", "CALL"}
  <1> USE DEF RefundInv
  <1>1. /\ b \in Booking \ cancelled /\ cancelled' = cancelled \cup {b}
        /\ owed' = IF due THEN owed \cup {b} ELSE owed
        /\ refund' = [refund EXCEPT ![b] = IF due THEN "PENDING" ELSE "SUCCESS"]
        /\ UNCHANGED <<paid, status, refundRPC, refundCalls, events>>
    BY DEF CreateCancellation, CancellationUnique, TypeOK, HandlersOK,
           paidVars, moneyVars
  <1>2. handler' = [handler EXCEPT ![h].step =
                      IF handler[h].plan = "CALL" THEN "call" ELSE "close"]
    BY DEF CreateCancellation, Goto
  <1>3. refundCalls[b] = 0
    BY <1>1 DEF CallsFollowRecords
  <1>4. PlansOK'
    <2> SUFFICES ASSUME NEW g \in Handler
                 PROVE  LET x == handler'[g].booking IN
                        /\ handler'[g].plan = "CALL" => x \in paid'
                        /\ handler'[g].step \in {"call", "wait", "close"} =>
                             x \in cancelled'
                        /\ handler'[g].step = "call" =>
                             /\ handler'[g].plan = "CALL" /\ x \in owed'
                             /\ refundCalls'[x] = 0
      BY DEF PlansOK
    <2>1. CASE g = h
      BY <1>1, <1>2, <1>3, <2>1 DEF PlansOK, TypeOK, HandlersOK
    <2>2. CASE g # h
      BY <1>1, <1>2, <2>2 DEF PlansOK, TypeOK, HandlersOK
    <2>3. QED
      BY <2>1, <2>2
  <1>5. OneCaller'
    <2>1. \A g \in Handler : handler[g].step = "call" => handler[g].booking # b
      BY <1>1 DEF PlansOK
    <2>2. \A g \in Handler : /\ handler'[g].booking = handler[g].booking
                             /\ g # h => handler'[g] = handler[g]
      BY <1>2 DEF TypeOK, HandlersOK
    <2>3. QED
      BY <2>1, <2>2 DEF OneCaller
  <1>6. CallsFollowRecords' /\ CancelledIsRecorded'
    BY <1>1 DEF CallsFollowRecords, CancelledIsRecorded
  <1>7. RefundOnce'
    BY <1>1 DEF RefundOnce
  <1>8. SuccessIsSettled'
    BY <1>1 DEF SuccessIsSettled, TypeOK, RowsOK
  <1>9. QED
    BY <1>4, <1>5, <1>6, <1>7, <1>8

\* The call: nobody has called for this booking before, and nobody else is
\* about to.
LEMMA CallRefundInv ==
  ASSUME RefundInv, TypeOK', NEW h \in Handler, CallRefund(h)
  PROVE  RefundInv'
  <1> DEFINE b == handler[h].booking
  <1> USE DEF RefundInv
  <1>1. /\ b \in Booking
        /\ refundRPC' = [refundRPC EXCEPT ![b] = "sent"]
        /\ refundCalls' = [refundCalls EXCEPT ![b] = @ + 1]
        /\ UNCHANGED <<paid, status, cancelled, owed, refund, events>>
    BY DEF CallRefund, TypeOK, HandlersOK, paidVars, cancelVars
  <1>2. /\ b \in paid /\ b \in cancelled /\ b \in owed
        /\ refundCalls[b] = 0 /\ refundRPC[b] = "none"
    BY <1>1 DEF CallRefund, PlansOK, CallsFollowRecords
  <1>3. \A g \in Handler :
          /\ handler'[g].booking = handler[g].booking
          /\ handler'[g].plan = handler[g].plan
          /\ g # h => handler'[g] = handler[g]
    BY DEF CallRefund, Goto, TypeOK, HandlersOK
  <1>4. handler[h].step = "call" /\ handler'[h].step = "wait"
    BY DEF CallRefund, Goto, TypeOK, HandlersOK
  <1>5. \A g \in Handler \ {h} : handler[g].step = "call" => handler[g].booking # b
    BY <1>4 DEF OneCaller
  <1>6. PlansOK'
    <2> SUFFICES ASSUME NEW g \in Handler
                 PROVE  LET x == handler'[g].booking IN
                        /\ handler'[g].plan = "CALL" => x \in paid'
                        /\ handler'[g].step \in {"call", "wait", "close"} =>
                             x \in cancelled'
                        /\ handler'[g].step = "call" =>
                             /\ handler'[g].plan = "CALL" /\ x \in owed'
                             /\ refundCalls'[x] = 0
      BY DEF PlansOK
    <2>1. CASE g = h
      BY <1>1, <1>2, <1>3, <1>4, <2>1
    <2>2. CASE g # h
      BY <1>1, <1>3, <1>5, <2>2 DEF PlansOK, TypeOK, MoneyOK
    <2>3. QED
      BY <2>1, <2>2
  <1>7. OneCaller'
    BY <1>3, <1>4 DEF OneCaller
  <1>8. CallsFollowRecords'
    BY <1>1, <1>2 DEF CallsFollowRecords, TypeOK, MoneyOK
  <1>9. RefundOnce'
    BY <1>1, <1>2 DEF RefundOnce, TypeOK, MoneyOK
  <1>10. CancelledIsRecorded'
    BY <1>1 DEF CancelledIsRecorded
  <1>11. SuccessIsSettled'
    BY <1>1, <1>2 DEF SuccessIsSettled, TypeOK, MoneyOK
  <1>12. QED
    BY <1>6, <1>7, <1>8, <1>9, <1>10, <1>11

\* The answer to the call, or none in time.
LEMMA RefundAnswerInv ==
  ASSUME RefundInv, TypeOK', NEW h \in Handler,
         RefundReturns(h) \/ RefundErrors(h)
  PROVE  RefundInv'
  <1> USE DEF RefundInv
  <1>1. /\ handler[h].step = "wait"
        /\ handler' = [handler EXCEPT ![h].step = "close"]
        /\ \/ refund' = refund
           \/ refund' = [refund EXCEPT ![handler[h].booking] = "FAILED"]
        /\ UNCHANGED <<paid, status, cancelled, owed, moneyVars>>
    BY DEF RefundReturns, RefundErrors, Goto, paidVars, cancelVars
  <1>2. PlansOK'
    BY <1>1 DEF PlansOK, TypeOK, HandlersOK, moneyVars
  <1>3. OneCaller'
    BY <1>1 DEF OneCaller, TypeOK, HandlersOK
  <1>4. CallsFollowRecords' /\ RefundOnce' /\ CancelledIsRecorded'
    BY <1>1 DEF CallsFollowRecords, RefundOnce, CancelledIsRecorded, moneyVars
  <1>5. SuccessIsSettled'
    BY <1>1 DEF SuccessIsSettled, TypeOK, RowsOK, moneyVars
  <1>6. QED
    BY <1>2, <1>3, <1>4, <1>5

\* The statements of a cancellation.
LEMMA CancelRefundInv ==
  ASSUME RefundInv, TypeOK', NEW h \in Handler,
         \/ \E b \in Booking : CancelRead(h, b)
         \/ FreeSeats(h) \/ UnlockFreed(h) \/ IncrementInventory(h)
         \/ SubtractProfit(h) \/ CreateCancellation(h) \/ CallRefund(h)
         \/ RefundReturns(h) \/ RefundErrors(h) \/ CancelStatus(h)
  PROVE  RefundInv'
  <1> USE DEF paidVars
  <1>1. ASSUME NEW b \in Booking, CancelRead(h, b)
        PROVE  RefundInv'
    <2>1. PICK plan \in RefundPlans(b) :
            handler' = [handler EXCEPT ![h] =
              [step |-> "free", booking |-> b, plan |-> plan]]
      BY <1>1 DEF CancelRead
    <2>2. plan = "CALL" => b \in paid
      BY <2>1 DEF RefundPlans
    <2>3. UNCHANGED <<paid, status, cancelVars, moneyVars>>
      BY <1>1 DEF CancelRead
    <2>4. \A g \in Handler :
            \/ handler'[g] = handler[g]
            \/ /\ handler'[g].step \notin {"call", "wait", "close"}
               /\ handler'[g].plan = "CALL" => handler'[g].booking \in paid'
      BY <2>1, <2>2, <2>3 DEF RefundInv, TypeOK, HandlersOK
    <2>5. QED
      BY <2>3, <2>4, QuietStep
  <1>2. CASE FreeSeats(h)
    BY <1>2, QuietStep, GotoQuiet DEF FreeSeats, Step
  <1>3. CASE UnlockFreed(h)
    <2>1. Goto(h, "record") \/ Goto(h, "credit")
      BY <1>3 DEF UnlockFreed
    <2>2. QED
      BY <1>3, <2>1, QuietStep, GotoQuiet DEF UnlockFreed, Unlock, Step
  <1>4. CASE IncrementInventory(h)
    <2>1. Goto(h, "record") \/ Goto(h, "repay")
      BY <1>4 DEF IncrementInventory
    <2>2. QED
      BY <1>4, <2>1, QuietStep, GotoQuiet DEF IncrementInventory, Step
  <1>5. CASE SubtractProfit(h)
    BY <1>5, QuietStep, GotoQuiet DEF SubtractProfit, Step
  <1>6. CASE CreateCancellation(h)
    BY <1>6, CreateCancellationInv
  <1>7. CASE CallRefund(h)
    BY <1>7, CallRefundInv
  <1>8. CASE RefundReturns(h) \/ RefundErrors(h)
    BY <1>8, RefundAnswerInv
  <1>9. CASE CancelStatus(h)
    <2> DEFINE b == handler[h].booking
    <2>1. b \in cancelled
      BY <1>9 DEF CancelStatus, Closing, RefundInv, PlansOK
    <2>2. /\ status' = [status EXCEPT ![b] = "CANCELLED"]
          /\ handler' = [handler EXCEPT ![h] = Idle]
          /\ UNCHANGED <<paid, cancelVars, moneyVars>>
      BY <1>9 DEF CancelStatus
    <2>3. PlansOK' /\ OneCaller'
      <3>1. \A g \in Handler :
              \/ handler'[g] = handler[g]
              \/ /\ handler'[g].step \notin {"call", "wait", "close"}
                 /\ handler'[g].plan = "CALL" => handler'[g].booking \in paid'
        BY <2>2, IdleQuiet
      <3>2. PlansOK'
        BY <2>2, <3>1 DEF RefundInv, PlansOK, cancelVars, moneyVars
      <3>3. OneCaller'
        BY <3>1 DEF RefundInv, OneCaller
      <3>4. QED
        BY <3>2, <3>3
    <2>4. CallsFollowRecords' /\ RefundOnce' /\ SuccessIsSettled'
      BY <2>2 DEF RefundInv, CallsFollowRecords, RefundOnce, SuccessIsSettled,
                  cancelVars, moneyVars
    <2>5. CancelledIsRecorded'
      BY <2>1, <2>2
      DEF RefundInv, CancelledIsRecorded, TypeOK, RowsOK, cancelVars
    <2>6. QED
      BY <2>3, <2>4, <2>5 DEF RefundInv
  <1>10. QED
    BY <1>1, <1>2, <1>3, <1>4, <1>5, <1>6, <1>7, <1>8, <1>9

\* payment-service settles the call and reports it; the report is written into
\* a row that exists.
LEMMA OutcomeRefundInv ==
  ASSUME RefundInv, TypeOK',
         \/ \E b \in Booking : PaymentRefunds(b)
         \/ \E e \in events : ConsumeRefundEvent(e)
  PROVE  RefundInv'
  <1> USE DEF RefundInv
  <1>1. UNCHANGED <<paid, status, cancelled, owed, handler, refundCalls>>
    BY DEF PaymentRefunds, ConsumeRefundEvent, paidVars, cancelVars
  <1>2. PlansOK' /\ OneCaller' /\ RefundOnce' /\ CancelledIsRecorded'
    BY <1>1 DEF PlansOK, OneCaller, RefundOnce, CancelledIsRecorded
  <1>3. ASSUME NEW b \in Booking, PaymentRefunds(b)
        PROVE  CallsFollowRecords' /\ SuccessIsSettled'
    <2>1. PICK outcome \in {"refunded", "refund_failed"} :
            /\ refundRPC' = [refundRPC EXCEPT ![b] = outcome]
            /\ events' \subseteq events \cup {[type |-> outcome, booking |-> b]}
      BY <1>3 DEF PaymentRefunds
    <2>2. refundRPC[b] = "sent" /\ UNCHANGED refund
      BY <1>3 DEF PaymentRefunds, cancelVars
    <2>3. CallsFollowRecords'
      BY <1>1, <2>1, <2>2 DEF CallsFollowRecords, TypeOK, MoneyOK
    <2>4. SuccessIsSettled'
      BY <1>1, <2>1, <2>2 DEF SuccessIsSettled, TypeOK, MoneyOK
    <2>5. QED
      BY <2>3, <2>4
  <1>4. ASSUME NEW e \in events, ConsumeRefundEvent(e)
        PROVE  CallsFollowRecords' /\ SuccessIsSettled'
    <2>1. /\ refund' = [refund EXCEPT ![e.booking] =
                          IF e.booking \in cancelled
                            THEN OutcomeStatus(e.type) ELSE @]
          /\ events' \subseteq events /\ UNCHANGED refundRPC
      BY <1>4 DEF ConsumeRefundEvent
    <2>2. OutcomeStatus(e.type) = "SUCCESS" => refundRPC[e.booking] = "refunded"
      BY DEF OutcomeStatus, CallsFollowRecords
    <2>3. CallsFollowRecords'
      BY <1>1, <2>1 DEF CallsFollowRecords
    <2>4. SuccessIsSettled'
      BY <1>1, <2>1, <2>2 DEF SuccessIsSettled, TypeOK, RowsOK, MoneyOK
    <2>5. QED
      BY <2>3, <2>4
  <1>5. QED
    BY <1>2, <1>3, <1>4

\* Locks running out and the expiry job are quiet.
LEMMA TimeRefundInv ==
  ASSUME RefundInv, TypeOK',
         \/ \E s \in Seat : LockExpires(s)
         \/ ExpireBookings
  PROVE  RefundInv'
  <1>1. ASSUME NEW s \in Seat, LockExpires(s)
        PROVE  RefundInv'
    BY <1>1, QuietStep DEF LockExpires, paidVars
  <1>2. CASE ExpireBookings
    BY <1>2, QuietStep DEF ExpireBookings, paidVars
  <1>3. QED
    BY <1>1, <1>2

LEMMA NextRefundInv ==
  ASSUME RefundInv, [Next]_vars
  PROVE  RefundInv'
  <1>1. TypeOK'
    BY NextTypeOK DEF RefundInv
  <1>2. CASE Next
    BY <1>1, <1>2, NextCases, CreationRefundInv, ConfirmRefundInv,
       CancelRefundInv, OutcomeRefundInv, TimeRefundInv, Zenon
  <1>3. CASE UNCHANGED vars
    BY <1>1, <1>3, QuietStep DEF vars, paidVars
  <1>4. QED
    BY <1>2, <1>3

LEMMA RefundInvHolds == Spec => []RefundInv
  BY InitRefundInv, NextRefundInv, PTL DEF Spec

\* However many handlers cancel a booking at once and wherever they stop, at
\* most one CreateRefund call is made for it, and only when it was paid for and
\* is owed.
THEOREM OneRefundPerBooking == Spec => []RefundOnce
  <1>1. RefundInv => RefundOnce
    BY DEF RefundInv
  <1>2. QED
    BY <1>1, RefundInvHolds, PTL

\* No booking reads CANCELLED without its row in cancellations.
THEOREM CancellationsAreRecorded == Spec => []CancelledIsRecorded
  <1>1. RefundInv => CancelledIsRecorded
    BY DEF RefundInv
  <1>2. QED
    BY <1>1, RefundInvHolds, PTL

\* A refund that is due reads SUCCESS only after payment-service made it, in
\* whatever order timeouts, answers and events are written.
THEOREM SuccessMeansSettled == Spec => []SuccessIsSettled
  <1>1. RefundInv => SuccessIsSettled
    BY DEF RefundInv
  <1>2. QED
    BY <1>1, RefundInvHolds, PTL

\* Steps that neither pay, cancel, call, answer nor show.
LEMMA BookFrame ==
  ASSUME [Next]_vars,
         ~ \E h \in Handler : \/ ConfirmStatus(h) \/ CreateCancellation(h)
                              \/ CallRefund(h) \/ RefundErrors(h),
         ~ \E b \in Booking : PaymentRefunds(b),
         ~ \E e \in events : ConsumeRefundEvent(e)
  PROVE  UNCHANGED <<paid, owed, refundCalls, refundRPC, refund>>
  <1> USE DEF paidVars, cancelVars, moneyVars
  <1>1. ASSUME NEW b \in Booking,
               \/ RejectCreate(b) \/ CrashCreate(b) \/ InsertBooking(b)
               \/ \E p \in Passenger : NoSeat(b, p)
               \/ \E p \in Passenger, s \in Seat : CheckSeat(b, p, s)
               \/ \E s \in Seat : LockSeat(b, s)
               \/ ExpiresAtPasses(b)
        PROVE  UNCHANGED <<paid, owed, refundCalls, refundRPC, refund>>
    BY <1>1 DEF RejectCreate, CrashCreate, InsertBooking, NoSeat, CheckSeat,
                LockSeat, ExpiresAtPasses
  <1>2. ASSUME NEW h \in Handler,
               \/ \E b \in Booking : ConfirmRead(h, b) \/ CancelRead(h, b)
               \/ ExpireStatus(h) \/ TakeSeats(h) \/ UnlockTaken(h)
               \/ DecrementInventory(h) \/ AddProfit(h) \/ SaveETicket(h)
               \/ HandlerFails(h)
        PROVE  UNCHANGED <<paid, owed, refundCalls, refundRPC, refund>>
    BY <1>2 DEF ConfirmRead, CancelRead, ExpireStatus, TakeSeats, UnlockTaken,
                Unlock, DecrementInventory, AddProfit, SaveETicket, HandlerFails
  <1>3. ASSUME NEW h \in Handler,
               \/ FreeSeats(h) \/ UnlockFreed(h) \/ IncrementInventory(h)
               \/ SubtractProfit(h) \/ RefundReturns(h) \/ CancelStatus(h)
        PROVE  UNCHANGED <<paid, owed, refundCalls, refundRPC, refund>>
    BY <1>3 DEF FreeSeats, UnlockFreed, Unlock, IncrementInventory,
                SubtractProfit, RefundReturns, CancelStatus
  <1>4. ASSUME (\E s \in Seat : LockExpires(s)) \/ ExpireBookings
        PROVE  UNCHANGED <<paid, owed, refundCalls, refundRPC, refund>>
    BY <1>4 DEF LockExpires, ExpireBookings
  <1>5. CASE UNCHANGED vars
    BY <1>5 DEF vars
  <1>6. QED
    BY Zenon, NextCases, <1>1, <1>2, <1>3, <1>4, <1>5

\* The answer of payment-service comes to a call that is open.
LEMMA AnswersAreRefunds ==
  ASSUME RefundInv, NEW b \in Booking, PaymentRefunds(b)
  PROVE  RefundBook!Accept(b) \/ RefundBook!Refuse(b)
  <1>1. refundRPC[b] = "sent" /\ UNCHANGED <<paid, owed, refundCalls, refund>>
    BY DEF PaymentRefunds, paidVars, cancelVars
  <1>2. refundCalls[b] = 1
    BY <1>1 DEF RefundInv, CallsFollowRecords, RefundOnce, TypeOK, MoneyOK
  <1>3. CASE refundRPC' = [refundRPC EXCEPT ![b] = "refunded"]
    <2>1. /\ {d \in Booking : refundRPC'[d] = "refunded"}
               = {d \in Booking : refundRPC[d] = "refunded"} \cup {b}
          /\ {d \in Booking : refundRPC'[d] = "refund_failed"}
               = {d \in Booking : refundRPC[d] = "refund_failed"}
      BY <1>1, <1>3 DEF RefundInv, TypeOK, MoneyOK
    <2>2. RefundBook!Accept(b)
      BY <1>1, <1>2, <2>1 DEF RefundBook!Accept, RefundBook!Open
    <2>3. QED
      BY <2>2
  <1>4. CASE refundRPC' = [refundRPC EXCEPT ![b] = "refund_failed"]
    <2>1. /\ {d \in Booking : refundRPC'[d] = "refund_failed"}
               = {d \in Booking : refundRPC[d] = "refund_failed"} \cup {b}
          /\ {d \in Booking : refundRPC'[d] = "refunded"}
               = {d \in Booking : refundRPC[d] = "refunded"}
      BY <1>1, <1>4 DEF RefundInv, TypeOK, MoneyOK
    <2>2. RefundBook!Refuse(b)
      BY <1>1, <1>2, <2>1 DEF RefundBook!Refuse, RefundBook!Open
    <2>3. QED
      BY <2>2
  <1>5. QED
    BY <1>3, <1>4 DEF PaymentRefunds

\* A status written for a booking shows it, hides it or changes nothing; it is
\* shown only when the money went back.
LEMMA WordsAreRefunds ==
  ASSUME RefundInv, NEW b \in Booking, NEW w,
         refund' = [refund EXCEPT ![b] = w],
         w = "SUCCESS" /\ b \in owed => refundRPC[b] = "refunded",
         UNCHANGED <<paid, owed, refundCalls, refundRPC>>
  PROVE  [RefundBook!RefundsNext]_(RefundBook!refundsVars)
  <1> DEFINE shown == {d \in owed : refund[d] = "SUCCESS"}
  <1>0. owed \subseteq Booking
    BY DEF RefundInv, TypeOK, RowsOK
  <1>1. shown' = IF w = "SUCCESS" /\ b \in owed THEN shown \cup {b}
                                                ELSE shown \ {b}
    BY <1>0 DEF RefundInv, TypeOK, RowsOK
  <1>2. CASE b \in shown /\ w # "SUCCESS"
    BY <1>1, <1>2 DEF RefundBook!Hide, RefundBook!RefundsNext
  <1>3. CASE b \in owed \ shown /\ w = "SUCCESS"
    BY <1>1, <1>3 DEF RefundBook!Show, RefundBook!RefundsNext
  <1>4. CASE b \in shown <=> (w = "SUCCESS" /\ b \in owed)
    BY <1>1, <1>4 DEF RefundBook!refundsVars
  <1>5. QED
    BY <1>2, <1>3, <1>4

\* Every step is a step of the abstract refunds or none.
LEMMA StepsOnRefunds ==
  ASSUME RefundInv, [Next]_vars
  PROVE  [RefundBook!RefundsNext]_(RefundBook!refundsVars)
  <1> DEFINE Mapped == [RefundBook!RefundsNext]_(RefundBook!refundsVars)
  <1>1. ASSUME NEW h \in Handler, ConfirmStatus(h)
        PROVE  Mapped
    <2> DEFINE b == handler[h].booking
    <2>1. /\ b \in Booking
          /\ paid' = paid \/ paid' = paid \cup {b}
          /\ UNCHANGED <<owed, refundCalls, refundRPC, refund>>
      BY <1>1 DEF ConfirmStatus, RefundInv, TypeOK, HandlersOK, cancelVars,
                  moneyVars
    <2>2. CASE paid' = paid
      BY <2>1, <2>2 DEF RefundBook!refundsVars
    <2>3. CASE paid' # paid
      BY <2>1, <2>3 DEF RefundBook!Pay, RefundBook!RefundsNext
    <2>4. QED
      BY <2>2, <2>3
  <1>2. ASSUME NEW h \in Handler, CreateCancellation(h)
        PROVE  Mapped
    <2> DEFINE b == handler[h].booking
    <2>1. /\ b \in Booking /\ b \notin cancelled /\ owed \subseteq cancelled
          /\ \/ owed' = owed \cup {b} /\ refund' = [refund EXCEPT ![b] = "PENDING"]
             \/ owed' = owed /\ refund' = [refund EXCEPT ![b] = "SUCCESS"]
          /\ UNCHANGED <<paid, refundCalls, refundRPC>>
      BY <1>2 DEF CreateCancellation, CancellationUnique, RefundInv, TypeOK,
                  HandlersOK, RowsOK, paidVars, moneyVars
    <2>2. {d \in owed' : refund'[d] = "SUCCESS"} = {d \in owed : refund[d] = "SUCCESS"}
      BY <2>1 DEF RefundInv, TypeOK, RowsOK
    <2>3. CASE owed' = owed
      BY <2>1, <2>2, <2>3 DEF RefundBook!refundsVars
    <2>4. CASE owed' = owed \cup {b}
      BY <2>1, <2>2, <2>4 DEF RefundBook!Record, RefundBook!RefundsNext
    <2>5. QED
      BY <2>1, <2>3, <2>4
  <1>3. ASSUME NEW h \in Handler, CallRefund(h)
        PROVE  Mapped
    <2> DEFINE b == handler[h].booking
    <2>1. /\ b \in Booking /\ b \in paid \cap owed
          /\ refundCalls[b] = 0 /\ refundRPC[b] = "none"
          /\ refundCalls' = [refundCalls EXCEPT ![b] = @ + 1]
          /\ refundRPC' = [refundRPC EXCEPT ![b] = "sent"]
          /\ UNCHANGED <<paid, owed, refund>>
      BY <1>3 DEF CallRefund, RefundInv, PlansOK, CallsFollowRecords, TypeOK,
                  HandlersOK, paidVars, cancelVars
    <2>2. refundCalls' = [refundCalls EXCEPT ![b] = 1]
      BY <2>1 DEF RefundInv, TypeOK, MoneyOK
    <2>3. \A w \in {"refunded", "refund_failed"} :
            {d \in Booking : refundRPC'[d] = w} = {d \in Booking : refundRPC[d] = w}
      BY <2>1 DEF RefundInv, TypeOK, MoneyOK
    <2>4. RefundBook!Call(b)
      BY <2>1, <2>2, <2>3 DEF RefundBook!Call
    <2>5. QED
      BY <2>1, <2>4 DEF RefundBook!RefundsNext
  <1>4. ASSUME NEW b \in Booking, PaymentRefunds(b)
        PROVE  Mapped
    BY <1>4, AnswersAreRefunds DEF RefundBook!RefundsNext
  <1>5. ASSUME NEW h \in Handler, RefundErrors(h)
        PROVE  Mapped
    <2>1. /\ handler[h].booking \in Booking
          /\ refund' = [refund EXCEPT ![handler[h].booking] = "FAILED"]
          /\ UNCHANGED <<paid, owed, refundCalls, refundRPC>>
      BY <1>5 DEF RefundErrors, RefundInv, TypeOK, HandlersOK, paidVars,
                  moneyVars
    <2>2. QED
      BY <2>1, WordsAreRefunds
  <1>6. ASSUME NEW e \in events, ConsumeRefundEvent(e)
        PROVE  Mapped
    <2> DEFINE b == e.booking
               w == IF b \in cancelled THEN OutcomeStatus(e.type) ELSE refund[b]
    <2>1. /\ b \in Booking
          /\ refund' = [refund EXCEPT ![b] = w]
          /\ UNCHANGED <<paid, owed, refundCalls, refundRPC>>
      BY <1>6 DEF ConsumeRefundEvent, RefundInv, TypeOK, MoneyOK, RowsOK, paidVars
    <2>2. w = "SUCCESS" /\ b \in owed => refundRPC[b] = "refunded"
      BY <2>1 DEF OutcomeStatus, RefundInv, CallsFollowRecords, SuccessIsSettled
    <2> HIDE DEF b, w
    <2>3. QED
      BY <2>1, <2>2, WordsAreRefunds
  <1>7. ASSUME UNCHANGED <<paid, owed, refundCalls, refundRPC, refund>>
        PROVE  Mapped
    BY <1>7 DEF RefundBook!refundsVars
  <1> HIDE DEF Mapped
  <1>8. Mapped
    BY Zenon, BookFrame, <1>1, <1>2, <1>3, <1>4, <1>5, <1>6, <1>7
  <1>9. QED
    BY <1>8 DEF Mapped

\* Confirmations and cancellations that stop anywhere, calls, timeouts, answers
\* and events, in any order, implement the abstract refunds.
THEOREM BusRefunds == Spec => ImplementsRefunds
  <1>1. Init => RefundBook!RefundsInit
    BY DEF Init, RefundBook!RefundsInit
  <1>2. QED
    BY RefundInvHolds, <1>1, StepsOnRefunds, PTL
    DEF Spec, ImplementsRefunds, RefundBook!RefundsSpec
-----------------------------------------------------------------------------
(* Seat locks. *)

\* The script deletes a key only for its own user.
LEMMA OwnerUnlocks ==
  ASSUME NEW S, NEW b, lock' = UnlockSeatsByOwner(S, b),
         NEW s \in Seat, lock[s] # None, lock'[s] = None
  PROVE  UserOf[b] = UserOf[lock[s]]
  BY DEF UnlockSeatsByOwner

LEMMA NextUnlocks ==
  ASSUME TypeOK, [Next]_vars
  PROVE  FallsToItsUser
  <1> SUFFICES ASSUME NEW s \in Seat, lock[s] # None, lock'[s] = None
               PROVE  \/ LockExpires(s)
                      \/ \E b \in Booking : /\ RejectCreate(b)
                                            /\ UserOf[b] = UserOf[lock[s]]
                      \/ \E h \in Handler :
                           /\ UnlockTaken(h) \/ UnlockFreed(h)
                           /\ UserOf[handler[h].booking] = UserOf[lock[s]]
    BY DEF FallsToItsUser
  <1>1. lock' # lock
    OBVIOUS
  <1>2. ASSUME NEW b \in Booking, RejectCreate(b)
        PROVE  UserOf[b] = UserOf[lock[s]]
    BY <1>2, OwnerUnlocks DEF RejectCreate
  <1>3. ASSUME NEW h \in Handler, UnlockTaken(h) \/ UnlockFreed(h)
        PROVE  UserOf[handler[h].booking] = UserOf[lock[s]]
    BY <1>3, OwnerUnlocks DEF UnlockTaken, UnlockFreed, Unlock
  <1>4. ASSUME NEW t \in Seat, LockExpires(t)
        PROVE  LockExpires(s)
    <2>1. t = s
      BY <1>4 DEF LockExpires, TypeOK, CreationOK
    <2>2. QED
      BY <1>4, <2>1
  <1>5. ASSUME NEW b \in Booking, NEW t \in Seat, LockSeat(b, t)
        PROVE  FALSE
    BY <1>5, BusAssumption DEF LockSeat, TypeOK, CreationOK
  <1>6. Next
    BY <1>1 DEF vars
  <1>7. \/ \E b \in Booking : RejectCreate(b)
        \/ \E h \in Handler : UnlockTaken(h) \/ UnlockFreed(h)
        \/ \E t \in Seat : LockExpires(t)
        \/ \E b \in Booking, t \in Seat : LockSeat(b, t)
    BY <1>1, <1>6, NextCases
    DEF CrashCreate, InsertBooking, NoSeat, CheckSeat, ExpiresAtPasses,
        PaymentRefunds, ConfirmRead, CancelRead, ExpireStatus, ConfirmStatus,
        TakeSeats, DecrementInventory, AddProfit, SaveETicket, HandlerFails,
        FreeSeats, IncrementInventory, SubtractProfit, CreateCancellation,
        CallRefund, RefundReturns, RefundErrors, CancelStatus,
        ConsumeRefundEvent, ExpireBookings
  <1>8. QED
    BY <1>2, <1>3, <1>4, <1>5, <1>7

\* Before its time is up, a seat lock falls to a handler of its own user only,
\* for any number of users, bookings and handlers.
THEOREM LocksFallToTheirUser == Spec => OnlyTheUserUnlocks
  <1>1. TypeOK /\ [Next]_vars => [FallsToItsUser]_vars
    BY NextUnlocks
  <1>2. QED
    BY <1>1, BusTypeOK, PTL DEF Spec, OnlyTheUserUnlocks
-----------------------------------------------------------------------------
(* Seats off sale, and the accounts.  Both need each booking to be worked on *)
(* by one handler at a time: a second one that has read the booking before   *)
(* would write its statements over those of the first.                       *)

\* The steps of CreateBooking before the insert.
Seating(b) ==
  \/ RejectCreate(b) \/ CrashCreate(b)
  \/ \E p \in Passenger : NoSeat(b, p)
  \/ \E p \in Passenger, s \in Seat : CheckSeat(b, p, s)
  \/ \E s \in Seat : LockSeat(b, s)

\* They are taken before the booking has a row, and change no row and no other
\* booking's seats.
LEMMA SeatingFrame ==
  ASSUME TypeOK, NEW b \in Booking, Seating(b)
  PROVE  /\ pc[b] = "seating"
         /\ \A d \in Booking \ {b} : pc'[d] = pc[d] /\ SeatsOf(d)' = SeatsOf(d)
         /\ UNCHANGED <<available, status, confirmed, profit, handler>>
  <1>1. ASSUME RejectCreate(b) \/ CrashCreate(b)
        PROVE  /\ pc[b] = "seating"
               /\ \A d \in Booking \ {b} : pc'[d] = pc[d]
               /\ \A p \in Passenger : BookingOf[p] # b => seatOf'[p] = seatOf[p]
               /\ UNCHANGED <<available, status, confirmed, profit, handler>>
    BY <1>1 DEF RejectCreate, CrashCreate, Forget, Travellers, TypeOK, CreationOK,
                paidVars
  <1>2. ASSUME \/ \E p \in Passenger : NoSeat(b, p)
               \/ \E p \in Passenger, s \in Seat : CheckSeat(b, p, s)
               \/ \E s \in Seat : LockSeat(b, s)
        PROVE  /\ pc[b] = "seating"
               /\ \A d \in Booking \ {b} : pc'[d] = pc[d]
               /\ \A p \in Passenger : BookingOf[p] # b => seatOf'[p] = seatOf[p]
               /\ UNCHANGED <<available, status, confirmed, profit, handler>>
    BY <1>2 DEF NoSeat, CheckSeat, LockSeat, Travellers, TypeOK, CreationOK, paidVars
  <1>3. \A p \in Passenger : BookingOf[p] # b => seatOf'[p] = seatOf[p]
    BY <1>1, <1>2 DEF Seating
  <1>4. \A d \in Booking \ {b} : SeatsOf(d)' = SeatsOf(d)
    BY <1>3 DEF SeatsOf, Travellers
  <1>5. QED
    BY <1>1, <1>2, <1>4 DEF Seating

\* The steps that touch nothing the two properties speak of.
LEMMA OutsideFrame ==
  ASSUME \/ \E b \in Booking : ExpiresAtPasses(b) \/ PaymentRefunds(b)
         \/ \E s \in Seat : LockExpires(s)
         \/ \E e \in events : ConsumeRefundEvent(e)
         \/ UNCHANGED vars
  PROVE  UNCHANGED <<pc, seatOf, available, status, confirmed, profit, handler>>
  BY DEF ExpiresAtPasses, PaymentRefunds, LockExpires, ConsumeRefundEvent,
         vars, createVars, paidVars

\* One statement of a handler, or its end.
HandlerStep(h) ==
  \/ \E b \in Booking : ConfirmRead(h, b) \/ CancelRead(h, b)
  \/ ExpireStatus(h) \/ ConfirmStatus(h) \/ TakeSeats(h) \/ UnlockTaken(h)
  \/ DecrementInventory(h) \/ AddProfit(h) \/ SaveETicket(h) \/ HandlerFails(h)
  \/ FreeSeats(h) \/ UnlockFreed(h) \/ IncrementInventory(h)
  \/ SubtractProfit(h) \/ CreateCancellation(h) \/ CallRefund(h)
  \/ RefundReturns(h) \/ RefundErrors(h) \/ CancelStatus(h)

\* Every step is of one of these kinds.
LEMMA StepKinds ==
  ASSUME [Next]_vars
  PROVE  \/ \E b \in Booking : Seating(b) \/ InsertBooking(b)
         \/ \/ \E b \in Booking : ExpiresAtPasses(b) \/ PaymentRefunds(b)
            \/ \E s \in Seat : LockExpires(s)
            \/ \E e \in events : ConsumeRefundEvent(e)
            \/ UNCHANGED vars
         \/ \E h \in Handler : HandlerStep(h)
         \/ ExpireBookings
  BY Zenon, NextCases DEF Seating, HandlerStep

\* The steps at which a handler has given its booking's seats back and not yet
\* closed the booking.
Freed == {"unlockFreed", "credit", "repay", "record", "call", "wait", "close"}

\* A handler that goes on keeps its booking, and is past the release of its
\* seats only through FreeSeats; nobody but itself moves it.
LEMMA HandlerFrame ==
  ASSUME TypeOK, NEW h \in Handler, HandlerStep(h)
  PROVE  /\ UNCHANGED <<pc, seatOf>>
         /\ \A g \in Handler \ {h} : handler'[g] = handler[g]
         /\ handler[h].step # "idle" /\ handler'[h].step # "idle" =>
              handler'[h].booking = handler[h].booking
         /\ handler'[h].step \in Freed =>
              handler[h].step \in Freed \/ FreeSeats(h)
  <1> DEFINE Frame ==
        /\ UNCHANGED <<pc, seatOf>>
        /\ \A g \in Handler \ {h} : handler'[g] = handler[g]
        /\ handler[h].step # "idle" /\ handler'[h].step # "idle" =>
             handler'[h].booking = handler[h].booking
        /\ handler'[h].step \in Freed =>
             handler[h].step \in Freed \/ FreeSeats(h)
  <1> USE DEF TypeOK, HandlersOK, Goto, Freed, Idle, createVars
  <1>1. ASSUME NEW b \in Booking, ConfirmRead(h, b) \/ CancelRead(h, b)
        PROVE  Frame
    BY <1>1 DEF ConfirmRead, CancelRead
  <1>2. CASE ExpireStatus(h) \/ ConfirmStatus(h) \/ TakeSeats(h) \/ UnlockTaken(h)
    BY <1>2 DEF ExpireStatus, ConfirmStatus, TakeSeats, UnlockTaken, Unlock
  <1>3. CASE \/ DecrementInventory(h) \/ AddProfit(h) \/ SaveETicket(h)
             \/ HandlerFails(h)
    BY <1>3 DEF DecrementInventory, AddProfit, SaveETicket, HandlerFails
  <1>4. CASE FreeSeats(h)
    BY <1>4 DEF FreeSeats
  <1>5. CASE UnlockFreed(h) \/ IncrementInventory(h) \/ SubtractProfit(h)
    BY <1>5 DEF UnlockFreed, Unlock, IncrementInventory, SubtractProfit
  <1>6. CASE \/ CreateCancellation(h) \/ CallRefund(h) \/ RefundReturns(h)
             \/ RefundErrors(h) \/ CancelStatus(h)
    BY <1>6 DEF CreateCancellation, CallRefund, RefundReturns, RefundErrors,
                CancelStatus, Closing
  <1>7. QED
    BY <1>1, <1>2, <1>3, <1>4, <1>5, <1>6 DEF HandlerStep

\* A booking has a row, and handlers, only after its insert.
RowsFollowCreation ==
  /\ \A b \in Booking : status[b] # "NONE" => pc[b] = "created"
  /\ \A h \in Handler :
       handler[h].step # "idle" => pc[handler[h].booking] = "created"

LEMMA RowsFollowCreationStep ==
  ASSUME TypeOK, RowsFollowCreation, [Next]_vars
  PROVE  RowsFollowCreation'
  <1> USE DEF TypeOK, CreationOK, RowsOK, HandlersOK
  <1>1. ASSUME NEW b \in Booking, Seating(b)
        PROVE  RowsFollowCreation'
    BY <1>1, SeatingFrame DEF RowsFollowCreation
  <1>2. ASSUME NEW b \in Booking, InsertBooking(b)
        PROVE  RowsFollowCreation'
    BY <1>2 DEF InsertBooking, RowsFollowCreation
  <1>3. ASSUME \/ \E b \in Booking : ExpiresAtPasses(b) \/ PaymentRefunds(b)
               \/ \E s \in Seat : LockExpires(s)
               \/ \E e \in events : ConsumeRefundEvent(e)
               \/ UNCHANGED vars
        PROVE  RowsFollowCreation'
    BY <1>3, OutsideFrame DEF RowsFollowCreation
  <1>4. CASE ExpireBookings
    BY <1>4 DEF ExpireBookings, Stale, createVars, RowsFollowCreation
  <1>5. ASSUME NEW h \in Handler, HandlerStep(h)
        PROVE  RowsFollowCreation'
    <2>1. /\ UNCHANGED pc
          /\ \A g \in Handler \ {h} : handler'[g] = handler[g]
      BY <1>5, HandlerFrame
    <2>2. handler'[h].step # "idle" => pc[handler'[h].booking] = "created"
      <3>1. ASSUME NEW b \in Booking, ConfirmRead(h, b) \/ CancelRead(h, b)
            PROVE  pc[handler'[h].booking] = "created"
        BY <3>1 DEF ConfirmRead, Confirmable, CancelRead, RowsFollowCreation
      <3>2. CASE ~ \E b \in Booking : ConfirmRead(h, b) \/ CancelRead(h, b)
        <4>1. handler[h].step # "idle" \/ handler'[h] = Idle
          BY <1>5, <3>2 DEF HandlerStep, ExpireStatus, ConfirmStatus, TakeSeats,
             UnlockTaken, Unlock, DecrementInventory, AddProfit, SaveETicket,
             HandlerFails, Idle, FreeSeats, UnlockFreed, IncrementInventory,
             SubtractProfit, CreateCancellation, CallRefund, RefundReturns,
             RefundErrors, CancelStatus, Closing
        <4>2. QED
          BY <1>5, <4>1, HandlerFrame DEF RowsFollowCreation, Idle
      <3>3. QED
        BY <3>1, <3>2
    <2>3. \A b \in Booking : status'[b] # "NONE" => pc[b] = "created"
      BY <1>5 DEF HandlerStep, ConfirmRead, CancelRead, ExpireStatus,
         ConfirmStatus, TakeSeats, UnlockTaken, Unlock, DecrementInventory,
         AddProfit, SaveETicket, HandlerFails, FreeSeats, UnlockFreed,
         IncrementInventory, SubtractProfit, CreateCancellation, CallRefund,
         RefundReturns, RefundErrors, CancelStatus, Closing, RowsFollowCreation
    <2>4. QED
      BY <2>1, <2>2, <2>3 DEF RowsFollowCreation
  <1>6. QED
    BY Zenon, StepKinds, <1>1, <1>2, <1>3, <1>4, <1>5

\* The statements that write bookings.status, and what they write.
LEMMA StatusMoves ==
  ASSUME TypeOK, NEW h \in Handler, HandlerStep(h)
  PROVE  \A b \in Booking :
           \/ status'[b] = status[b]
           \/ /\ b = handler[h].booking
              /\ \/ ExpireStatus(h) /\ status'[b] = "EXPIRED"
                 \/ ConfirmStatus(h) /\ status'[b] = "CONFIRMED"
                 \/ CancelStatus(h) /\ status'[b] = "CANCELLED"
  <1>1. CASE ExpireStatus(h) \/ ConfirmStatus(h) \/ CancelStatus(h)
    BY <1>1 DEF ExpireStatus, ConfirmStatus, CancelStatus, TypeOK, RowsOK, HandlersOK
  <1>2. CASE ~ (ExpireStatus(h) \/ ConfirmStatus(h) \/ CancelStatus(h))
    <2>1. UNCHANGED status
      BY <1>2 DEF HandlerStep, ConfirmRead, CancelRead, TakeSeats, UnlockTaken,
         Unlock, DecrementInventory, AddProfit, SaveETicket, HandlerFails,
         FreeSeats, UnlockFreed, IncrementInventory, SubtractProfit,
         CreateCancellation, CallRefund, RefundReturns, RefundErrors
    <2>2. QED
      BY <2>1
  <1>3. QED
    BY <1>1, <1>2

\* The steps at which the fare of a confirmed booking is still to be booked.
Unearned == {"take", "unlockTaken", "deduct", "earn"}

\* What a handler read stays true as long as nobody else works on its booking:
\* only the expiry job does, and it writes the same status.
ReadsHold ==
  /\ \A h \in Handler :
       LET b == handler[h].booking IN
       /\ handler[h].step = "expire" => status[b] \in {"PENDING_PAYMENT", "EXPIRED"}
       /\ handler[h].step = "confirm" => b \notin confirmed
       /\ handler[h].step = "take" => status[b] = "CONFIRMED"
       /\ handler[h].step \in Unearned => b \in confirmed
  /\ \A b \in confirmed : status[b] \notin {"NONE", "PENDING_PAYMENT"}

\* The steps of handler h itself.
LEMMA OwnReadsHold ==
  ASSUME TypeOK, ReadsHold, NEW h \in Handler, HandlerStep(h)
  PROVE  LET b == handler'[h].booking IN
         /\ handler'[h].step = "expire" => status'[b] \in {"PENDING_PAYMENT", "EXPIRED"}
         /\ handler'[h].step = "confirm" => b \notin confirmed'
         /\ handler'[h].step = "take" => status'[b] = "CONFIRMED"
         /\ handler'[h].step \in Unearned => b \in confirmed'
  <1> USE DEF TypeOK, RowsOK, HandlersOK, Goto, Unearned, Idle, paidVars, ReadsHold
  <1>1. ASSUME NEW b \in Booking, ConfirmRead(h, b) \/ CancelRead(h, b)
        PROVE  LET d == handler'[h].booking IN
               /\ handler'[h].step = "expire" => status'[d] \in {"PENDING_PAYMENT", "EXPIRED"}
               /\ handler'[h].step = "confirm" => d \notin confirmed'
               /\ handler'[h].step \notin Unearned
    BY <1>1 DEF ConfirmRead, Confirmable, CancelRead
  <1>2. CASE ConfirmStatus(h)
    BY <1>2 DEF ConfirmStatus
  <1>3. CASE TakeSeats(h) \/ UnlockTaken(h) \/ DecrementInventory(h)
    BY <1>3 DEF TakeSeats, UnlockTaken, Unlock, DecrementInventory
  <1>4. ASSUME \/ ExpireStatus(h) \/ AddProfit(h) \/ SaveETicket(h) \/ HandlerFails(h)
               \/ FreeSeats(h) \/ UnlockFreed(h) \/ IncrementInventory(h)
        PROVE  handler'[h].step \notin {"expire", "confirm"} \cup Unearned
    BY <1>4 DEF ExpireStatus, AddProfit, SaveETicket, HandlerFails, FreeSeats,
                UnlockFreed, Unlock, IncrementInventory
  <1>5. ASSUME \/ SubtractProfit(h) \/ CreateCancellation(h) \/ CallRefund(h)
               \/ RefundReturns(h) \/ RefundErrors(h) \/ CancelStatus(h)
        PROVE  handler'[h].step \notin {"expire", "confirm"} \cup Unearned
    BY <1>5 DEF SubtractProfit, CreateCancellation, CallRefund, RefundReturns,
                RefundErrors, CancelStatus, Closing
  <1>6. QED
    BY <1>1, <1>2, <1>3, <1>4, <1>5 DEF HandlerStep

\* confirmed_at is set by ConfirmStatus alone.
LEMMA ConfirmedMoves ==
  ASSUME NEW h \in Handler, HandlerStep(h)
  PROVE  \/ UNCHANGED confirmed
         \/ ConfirmStatus(h) /\ confirmed' = confirmed \cup {handler[h].booking}
  BY DEF HandlerStep, ConfirmRead, CancelRead, ExpireStatus, ConfirmStatus,
     TakeSeats, UnlockTaken, Unlock, DecrementInventory, AddProfit, SaveETicket,
     HandlerFails, FreeSeats, UnlockFreed, IncrementInventory, SubtractProfit,
     CreateCancellation, CallRefund, RefundReturns, RefundErrors, CancelStatus,
     paidVars

LEMMA ReadsHoldStep ==
  ASSUME TypeOK, RowsFollowCreation, ReadsHold, OneHandlerEach, [Next]_vars
  PROVE  ReadsHold'
  <1>1. ASSUME NEW b \in Booking, Seating(b)
        PROVE  ReadsHold'
    BY <1>1, SeatingFrame DEF ReadsHold
  <1>2. ASSUME NEW b \in Booking, InsertBooking(b)
        PROVE  ReadsHold'
    <2>1. /\ status[b] = "NONE" /\ b \notin confirmed
          /\ \A h \in Handler : handler[h].step # "idle" => handler[h].booking # b
      BY <1>2 DEF InsertBooking, RowsFollowCreation, ReadsHold, TypeOK,
                  CreationOK, RowsOK
    <2>2. /\ UNCHANGED <<handler, confirmed>>
          /\ \A d \in Booking \ {b} : status'[d] = status[d]
      BY <1>2 DEF InsertBooking, paidVars, TypeOK, RowsOK
    <2>3. QED
      BY <2>1, <2>2 DEF ReadsHold, Unearned, TypeOK, RowsOK, HandlersOK
  <1>3. ASSUME \/ \E b \in Booking : ExpiresAtPasses(b) \/ PaymentRefunds(b)
               \/ \E s \in Seat : LockExpires(s)
               \/ \E e \in events : ConsumeRefundEvent(e)
               \/ UNCHANGED vars
        PROVE  ReadsHold'
    BY <1>3, OutsideFrame DEF ReadsHold
  <1>4. CASE ExpireBookings
    BY <1>4 DEF ExpireBookings, Stale, paidVars, ReadsHold, TypeOK, RowsOK,
                HandlersOK
  <1>5. ASSUME NEW h \in Handler, HandlerStep(h)
        PROVE  ReadsHold'
    <2>1. ASSUME NEW g \in Handler \ {h}
          PROVE  LET b == handler'[g].booking IN
                 /\ handler'[g].step = "expire" =>
                      status'[b] \in {"PENDING_PAYMENT", "EXPIRED"}
                 /\ handler'[g].step = "confirm" => b \notin confirmed'
                 /\ handler'[g].step = "take" => status'[b] = "CONFIRMED"
                 /\ handler'[g].step \in Unearned => b \in confirmed'
      <3>1. handler'[g] = handler[g]
        BY <1>5, HandlerFrame
      <3>2. CASE handler[g].step = "idle"
        BY <3>1, <3>2 DEF Unearned
      <3>3. CASE handler[g].step # "idle"
        <4> DEFINE b == handler[g].booking
        <4>1. b \in Booking
          BY <3>3 DEF TypeOK, HandlersOK
        <4>2. ASSUME \/ ExpireStatus(h) \/ ConfirmStatus(h) \/ CancelStatus(h)
              PROVE  b # handler[h].booking
          BY <3>3, <4>2 DEF ExpireStatus, ConfirmStatus, CancelStatus, Closing,
             OneHandlerEach
        <4>3. status'[b] = status[b]
          BY <1>5, <4>1, <4>2, StatusMoves
        <4>4. b \in confirmed' <=> b \in confirmed
          BY <1>5, <4>2, ConfirmedMoves
        <4>5. QED
          BY <3>1, <4>3, <4>4 DEF ReadsHold
      <3>4. QED
        BY <3>2, <3>3
    <2>2. \A b \in confirmed' : status'[b] \notin {"NONE", "PENDING_PAYMENT"}
      <3>1. confirmed \subseteq Booking
        BY DEF TypeOK, RowsOK
      <3>2. CASE UNCHANGED confirmed
        BY <1>5, <3>1, <3>2, StatusMoves DEF ReadsHold
      <3>3. CASE ConfirmStatus(h)
        BY <3>3 DEF ConfirmStatus, ReadsHold, TypeOK, RowsOK, HandlersOK
      <3>4. QED
        BY <1>5, <3>2, <3>3, ConfirmedMoves
    <2>3. QED
      BY <1>5, <2>1, <2>2, OwnReadsHold DEF ReadsHold
  <1>6. QED
    BY Zenon, StepKinds, <1>1, <1>2, <1>3, <1>4, <1>5

\* Some handler has given the seats of booking b back and is not done with it.
GivenBack(b) ==
  \E h \in Handler : handler[h].booking = b /\ handler[h].step \in Freed

\* NoStrandedSeat, strengthened: the confirmed booking that a seat off sale
\* belongs to is not one that a cancellation is about to close.
SeatsAreHeld ==
  \A s \in Seat \ available :
    \E b \in Booking :
      status[b] = "CONFIRMED" /\ s \in SeatsOf(b) /\ ~ GivenBack(b)

\* A seat stays held where its booking keeps its status and its seats.
LEMMA HeldFrame ==
  ASSUME SeatsAreHeld,
         Seat \ available' \subseteq Seat \ available,
         \A b \in Booking :
           status[b] = "CONFIRMED" /\ ~ GivenBack(b) =>
             /\ status'[b] = "CONFIRMED" /\ SeatsOf(b) \subseteq SeatsOf(b)'
             /\ ~ GivenBack(b)'
  PROVE  SeatsAreHeld'
  <1> SUFFICES ASSUME NEW s \in Seat \ available'
               PROVE  \E b \in Booking :
                        /\ status'[b] = "CONFIRMED" /\ s \in SeatsOf(b)'
                        /\ ~ GivenBack(b)'
    BY DEF SeatsAreHeld
  <1>1. PICK b \in Booking :
          status[b] = "CONFIRMED" /\ s \in SeatsOf(b) /\ ~ GivenBack(b)
    BY DEF SeatsAreHeld
  <1>2. QED
    BY <1>1

\* TakeSeats: the seats go to a booking that is confirmed, and its one handler
\* is not giving them back.
LEMMA TakeSeatsHeld ==
  ASSUME TypeOK, ReadsHold, OneHandlerEach, SeatsAreHeld,
         NEW h \in Handler, TakeSeats(h)
  PROVE  SeatsAreHeld'
  <1> DEFINE b == handler[h].booking
  <1>1. /\ b \in Booking /\ status[b] = "CONFIRMED"
        /\ UNCHANGED <<status, seatOf>>
        /\ available' = available \ SeatsOf(b)
    BY DEF TakeSeats, ReadsHold, TypeOK, HandlersOK, createVars
  <1>2. /\ \A g \in Handler : handler'[g].booking = handler[g].booking
        /\ \A g \in Handler : handler'[g].step \in Freed => handler[g].step \in Freed
    BY DEF TakeSeats, Goto, Freed, TypeOK, HandlersOK
  <1>3. \A d \in Booking : GivenBack(d)' => GivenBack(d)
    BY <1>2 DEF GivenBack
  <1>4. ~ GivenBack(b)
    BY DEF TakeSeats, OneHandlerEach, GivenBack, Freed
  <1>5. \A d \in Booking : SeatsOf(d)' = SeatsOf(d)
    BY <1>1 DEF SeatsOf
  <1>6. ASSUME NEW s \in Seat \ available'
        PROVE  \E d \in Booking :
                 status'[d] = "CONFIRMED" /\ s \in SeatsOf(d)' /\ ~ GivenBack(d)'
    <2>1. CASE s \in SeatsOf(b)
      BY <1>1, <1>3, <1>4, <1>5, <2>1
    <2>2. CASE s \notin SeatsOf(b)
      BY <1>1, <1>3, <1>5, <2>2 DEF SeatsAreHeld
    <2>3. QED
      BY <2>1, <2>2
  <1>7. QED
    BY <1>6 DEF SeatsAreHeld

\* FreeSeats: the seats of the booking are on sale before it counts as given
\* back; the others are held as before.
LEMMA FreeSeatsHeld ==
  ASSUME TypeOK, SeatsAreHeld, NEW h \in Handler, FreeSeats(h)
  PROVE  SeatsAreHeld'
  <1> DEFINE b == handler[h].booking
  <1>1. /\ b \in Booking /\ UNCHANGED <<status, seatOf>>
        /\ available' = available \cup SeatsOf(b)
    BY DEF FreeSeats, TypeOK, HandlersOK, createVars
  <1>2. /\ \A g \in Handler : handler'[g].booking = handler[g].booking
        /\ \A g \in Handler \ {h} : handler'[g] = handler[g]
    BY DEF FreeSeats, Goto, TypeOK, HandlersOK
  <1>3. \A d \in Booking \ {b} : GivenBack(d)' => GivenBack(d)
    BY <1>2 DEF GivenBack
  <1>4. \A d \in Booking : SeatsOf(d)' = SeatsOf(d)
    BY <1>1 DEF SeatsOf
  <1>5. QED
    BY <1>1, <1>3, <1>4 DEF SeatsAreHeld

\* The other statements, none of which takes a confirmation back from under a
\* seat that is still held.
LEMMA OtherStepsHeld ==
  ASSUME TypeOK, ReadsHold, SeatsAreHeld, NEW h \in Handler, HandlerStep(h),
         ~ TakeSeats(h), ~ FreeSeats(h)
  PROVE  SeatsAreHeld'
  <1>1. UNCHANGED available
    BY DEF HandlerStep, ConfirmRead, CancelRead, ExpireStatus, ConfirmStatus,
       UnlockTaken, Unlock, DecrementInventory, AddProfit, SaveETicket,
       HandlerFails, UnlockFreed, IncrementInventory, SubtractProfit,
       CreateCancellation, CallRefund, RefundReturns, RefundErrors, CancelStatus
  <1>2. /\ UNCHANGED seatOf
        /\ \A g \in Handler \ {h} : handler'[g] = handler[g]
        /\ handler[h].step # "idle" /\ handler'[h].step # "idle" =>
             handler'[h].booking = handler[h].booking
        /\ handler'[h].step \in Freed => handler[h].step \in Freed
    BY HandlerFrame
  <1>3. \A b \in Booking : GivenBack(b)' => GivenBack(b)
    BY <1>2 DEF GivenBack, Freed
  <1>4. \A b \in Booking :
          status[b] = "CONFIRMED" /\ ~ GivenBack(b) => status'[b] = "CONFIRMED"
    <2> SUFFICES ASSUME NEW b \in Booking, status[b] = "CONFIRMED",
                        ~ GivenBack(b), status'[b] # "CONFIRMED"
                 PROVE  FALSE
      OBVIOUS
    <2>1. b = handler[h].booking /\ (ExpireStatus(h) \/ CancelStatus(h))
      BY StatusMoves
    <2>2. CASE ExpireStatus(h)
      BY <2>1, <2>2 DEF ExpireStatus, ReadsHold
    <2>3. CASE CancelStatus(h)
      BY <2>1, <2>3 DEF CancelStatus, Closing, GivenBack, Freed
    <2>4. QED
      BY <2>1, <2>2, <2>3
  <1>5. \A b \in Booking : SeatsOf(b)' = SeatsOf(b)
    BY <1>2 DEF SeatsOf
  <1>6. QED
    BY <1>1, <1>3, <1>4, <1>5, HeldFrame

LEMMA SeatsAreHeldStep ==
  ASSUME TypeOK, RowsFollowCreation, ReadsHold, OneHandlerEach, SeatsAreHeld,
         [Next]_vars
  PROVE  SeatsAreHeld'
  <1>1. ASSUME NEW b \in Booking, Seating(b)
        PROVE  SeatsAreHeld'
    <2>1. /\ pc[b] = "seating" /\ UNCHANGED <<available, status, handler>>
          /\ \A d \in Booking \ {b} : SeatsOf(d)' = SeatsOf(d)
      BY <1>1, SeatingFrame
    <2>2. status[b] # "CONFIRMED"
      BY <2>1 DEF RowsFollowCreation
    <2>3. \A d \in Booking : GivenBack(d)' = GivenBack(d)
      BY <2>1 DEF GivenBack
    <2>4. QED
      BY <2>1, <2>2, <2>3, HeldFrame
  <1>2. ASSUME NEW b \in Booking, InsertBooking(b)
        PROVE  SeatsAreHeld'
    <2>1. /\ UNCHANGED <<seatOf, available, handler>>
          /\ status[b] = "NONE"
          /\ \A d \in Booking \ {b} : status'[d] = status[d]
      BY <1>2 DEF InsertBooking, RowsFollowCreation, TypeOK, CreationOK, RowsOK
    <2>2. \A d \in Booking : GivenBack(d)' = GivenBack(d) /\ SeatsOf(d)' = SeatsOf(d)
      BY <2>1 DEF GivenBack, SeatsOf
    <2>3. QED
      BY <2>1, <2>2, HeldFrame
  <1>3. ASSUME \/ \E b \in Booking : ExpiresAtPasses(b) \/ PaymentRefunds(b)
               \/ \E s \in Seat : LockExpires(s)
               \/ \E e \in events : ConsumeRefundEvent(e)
               \/ UNCHANGED vars
        PROVE  SeatsAreHeld'
    BY <1>3, OutsideFrame DEF SeatsAreHeld, SeatsOf, GivenBack
  <1>4. CASE ExpireBookings
    <2>1. /\ UNCHANGED <<seatOf, available, handler>>
          /\ \A d \in Booking : status[d] = "CONFIRMED" => status'[d] = "CONFIRMED"
      BY <1>4 DEF ExpireBookings, Stale, createVars, TypeOK, RowsOK
    <2>2. \A d \in Booking : GivenBack(d)' = GivenBack(d) /\ SeatsOf(d)' = SeatsOf(d)
      BY <2>1 DEF GivenBack, SeatsOf
    <2>3. QED
      BY <2>1, <2>2, HeldFrame
  <1>5. ASSUME NEW h \in Handler, HandlerStep(h)
        PROVE  SeatsAreHeld'
    BY <1>5, TakeSeatsHeld, FreeSeatsHeld, OtherStepsHeld
  <1>6. QED
    BY Zenon, StepKinds, <1>1, <1>2, <1>3, <1>4, <1>5

\* The inductive invariant of this part.
HandlersInv == TypeOK /\ RowsFollowCreation /\ ReadsHold

LEMMA InitHandlersInv == Init => HandlersInv /\ SeatsAreHeld
  <1>1. Init => RowsFollowCreation /\ ReadsHold /\ SeatsAreHeld
    BY DEF Init, RowsFollowCreation, ReadsHold, Unearned, SeatsAreHeld, Idle
  <1>2. QED
    BY <1>1, InitTypeOK DEF HandlersInv

LEMMA HandlersInvStep ==
  ASSUME HandlersInv, OneHandlerEach, [Next]_vars
  PROVE  HandlersInv'
  BY NextTypeOK, RowsFollowCreationStep, ReadsHoldStep DEF HandlersInv

\* Wherever handlers fail and in whatever order they come, as long as no two
\* work on one booking at a time, a seat off sale belongs to a confirmed
\* booking: a half-done handler leaves a seat on sale too many, never one that
\* nobody can book and nobody has.
THEOREM SeatsOffSaleAreConfirmed ==
  Spec /\ []OneHandlerEach => []NoStrandedSeat
  <1>1. HandlersInv /\ SeatsAreHeld /\ OneHandlerEach /\ [Next]_vars
          => HandlersInv' /\ SeatsAreHeld'
    BY HandlersInvStep, SeatsAreHeldStep DEF HandlersInv
  <1>2. SeatsAreHeld => NoStrandedSeat
    BY DEF SeatsAreHeld, NoStrandedSeat
  <1>3. QED
    BY InitHandlersInv, <1>1, <1>2, PTL DEF Spec

\* Confirmed bookings whose fare is still to be added by a handler.
Due == {b \in Booking :
          \E h \in Handler :
            handler[h].booking = b /\ handler[h].step \in Unearned}

\* ProfitIsEarned, strengthened: the bookings whose fare is still to come have
\* brought in nothing yet.
ProfitIsBooked ==
  /\ IsFiniteSet(confirmed)
  /\ profit <= Cardinality(confirmed \ Due)

\* Each confirmed booking is past its fare or before it; the profit may only
\* grow with the first kind.
LEMMA BookedFrame ==
  ASSUME TypeOK, ProfitIsBooked, IsFiniteSet(confirmed'),
         confirmed \ Due \subseteq confirmed' \ Due',
         profit' \in Int, profit' <= profit
  PROVE  ProfitIsBooked'
  <1>1. IsFiniteSet(confirmed' \ Due')
    BY FS_Subset, confirmed' \ Due' \subseteq confirmed'
  <1>2. /\ Cardinality(confirmed \ Due) <= Cardinality(confirmed' \ Due')
        /\ Cardinality(confirmed \ Due) \in Nat
        /\ Cardinality(confirmed' \ Due') \in Nat
    <2>1. IsFiniteSet(confirmed \ Due)
      BY <1>1, FS_Subset
    <2>2. QED
      BY <1>1, <2>1, FS_Subset, FS_CardinalityType
  <1>3. profit' <= Cardinality(confirmed' \ Due')
    BY <1>2 DEF ProfitIsBooked, TypeOK, RowsOK
  <1>4. QED
    BY <1>3 DEF ProfitIsBooked

\* AddProfit: the one handler of the booking leaves it earned.
LEMMA AddProfitBooked ==
  ASSUME TypeOK, ReadsHold, OneHandlerEach, ProfitIsBooked, TypeOK',
         NEW h \in Handler, AddProfit(h)
  PROVE  ProfitIsBooked'
  <1> DEFINE b == handler[h].booking
  <1>1. /\ b \in confirmed /\ b \in Due
        /\ UNCHANGED confirmed
        /\ profit' \in {profit, profit + 1}
    BY DEF AddProfit, ReadsHold, Due, Unearned, TypeOK, HandlersOK
  <1>2. /\ \A g \in Handler \ {h} : handler'[g] = handler[g]
        /\ handler'[h].step = "ticket" /\ handler'[h].booking = b
    BY DEF AddProfit, Goto, TypeOK, HandlersOK
  <1>3. \A g \in Handler \ {h} : handler[g].step \in Unearned => handler[g].booking # b
    BY DEF AddProfit, OneHandlerEach, Unearned
  <1>4. Due' = Due \ {b}
    BY <1>2, <1>3 DEF Due, Unearned
  <1>5. confirmed' \ Due' = (confirmed \ Due) \cup {b}
    BY <1>1, <1>4
  <1>6. IsFiniteSet(confirmed \ Due)
    BY FS_Subset, confirmed \ Due \subseteq confirmed DEF ProfitIsBooked
  <1>7. Cardinality((confirmed \ Due) \cup {b}) = Cardinality(confirmed \ Due) + 1
    BY <1>1, <1>6, FS_AddElement
  <1>8. Cardinality(confirmed \ Due) \in Nat
    BY <1>6, FS_CardinalityType
  <1>9. profit' <= Cardinality(confirmed' \ Due')
    <2>1. Cardinality(confirmed' \ Due') = Cardinality(confirmed \ Due) + 1
      BY <1>5, <1>7
    <2>2. profit \in Int /\ profit <= Cardinality(confirmed \ Due)
      BY DEF ProfitIsBooked, TypeOK, RowsOK
    <2>3. profit' <= profit + 1 /\ profit' \in Int
      BY <1>1, <2>2
    <2>4. QED
      BY <1>8, <2>1, <2>2, <2>3
  <1>10. QED
    BY <1>1, <1>9 DEF ProfitIsBooked

\* The other steps of a handler: a confirmation makes its fare due, no step
\* but AddProfit adds one.
LEMMA OtherStepsBooked ==
  ASSUME TypeOK, ReadsHold, ProfitIsBooked, TypeOK',
         NEW h \in Handler, HandlerStep(h), ~ AddProfit(h)
  PROVE  ProfitIsBooked'
  <1>1. profit' <= profit
    <2>1. UNCHANGED profit \/ SubtractProfit(h)
      BY DEF HandlerStep, ConfirmRead, CancelRead, ExpireStatus, ConfirmStatus,
         TakeSeats, UnlockTaken, Unlock, DecrementInventory, SaveETicket,
         HandlerFails, FreeSeats, UnlockFreed, IncrementInventory,
         CreateCancellation, CallRefund, RefundReturns, RefundErrors,
         CancelStatus, paidVars
    <2>2. SubtractProfit(h) => profit' \in {profit, profit - 1}
      BY DEF SubtractProfit
    <2>3. QED
      BY <2>1, <2>2 DEF TypeOK, RowsOK
  <1>2. \A g \in Handler \ {h} : handler'[g] = handler[g]
    BY HandlerFrame
  <1>3. CASE ConfirmStatus(h)
    <2> DEFINE b == handler[h].booking
    <2>1. b \in Booking /\ b \notin confirmed /\ confirmed' = confirmed \cup {b}
      BY <1>3 DEF ConfirmStatus, ReadsHold, TypeOK, HandlersOK
    <2>2. handler'[h].booking = b
      BY <1>3 DEF ConfirmStatus, Goto, TypeOK, HandlersOK
    <2>3. Due' \subseteq Due \cup {b}
      BY <1>2, <2>2 DEF Due
    <2>4. IsFiniteSet(confirmed')
      BY <2>1, FS_AddElement DEF ProfitIsBooked
    <2>5. confirmed \ Due \subseteq confirmed' \ Due'
      BY <2>1, <2>3
    <2>6. QED
      BY <1>1, <2>4, <2>5, BookedFrame DEF TypeOK, RowsOK
  <1>4. CASE ~ ConfirmStatus(h)
    <2>1. UNCHANGED confirmed
      BY <1>4, ConfirmedMoves
    <2>2. handler'[h].step \in Unearned =>
            handler[h].step \in Unearned /\ handler'[h].booking = handler[h].booking
      <3> USE DEF TypeOK, HandlersOK, Goto, Unearned, Idle
      <3>1. ASSUME NEW b \in Booking, ConfirmRead(h, b) \/ CancelRead(h, b)
            PROVE  handler'[h].step \notin Unearned
        BY <3>1 DEF ConfirmRead, CancelRead
      <3>2. CASE TakeSeats(h) \/ UnlockTaken(h) \/ DecrementInventory(h)
        BY <3>2 DEF TakeSeats, UnlockTaken, Unlock, DecrementInventory
      <3>3. ASSUME \/ ExpireStatus(h) \/ SaveETicket(h) \/ HandlerFails(h)
                   \/ FreeSeats(h) \/ UnlockFreed(h) \/ IncrementInventory(h)
            PROVE  handler'[h].step \notin Unearned
        BY <3>3 DEF ExpireStatus, SaveETicket, HandlerFails, FreeSeats,
                    UnlockFreed, Unlock, IncrementInventory
      <3>4. ASSUME \/ SubtractProfit(h) \/ CreateCancellation(h) \/ CallRefund(h)
                   \/ RefundReturns(h) \/ RefundErrors(h) \/ CancelStatus(h)
            PROVE  handler'[h].step \notin Unearned
        BY <3>4 DEF SubtractProfit, CreateCancellation, CallRefund,
                    RefundReturns, RefundErrors, CancelStatus, Closing
      <3>5. QED
        BY <1>4, <3>1, <3>2, <3>3, <3>4 DEF HandlerStep
    <2>3. Due' \subseteq Due
      BY <1>2, <2>2 DEF Due
    <2>4. QED
      BY <1>1, <2>1, <2>3, BookedFrame DEF TypeOK, RowsOK, ProfitIsBooked
  <1>5. QED
    BY <1>3, <1>4

LEMMA ProfitIsBookedStep ==
  ASSUME TypeOK, ReadsHold, OneHandlerEach, ProfitIsBooked, TypeOK', [Next]_vars
  PROVE  ProfitIsBooked'
  <1>1. ASSUME NEW b \in Booking, Seating(b) \/ InsertBooking(b)
        PROVE  UNCHANGED <<confirmed, profit, handler>>
    BY <1>1, SeatingFrame DEF InsertBooking, paidVars
  <1>2. ASSUME UNCHANGED <<confirmed, profit, handler>>
        PROVE  ProfitIsBooked'
    BY <1>2 DEF ProfitIsBooked, Due
  <1>3. CASE ExpireBookings
    BY <1>2, <1>3 DEF ExpireBookings, paidVars
  <1>4. ASSUME NEW h \in Handler, HandlerStep(h)
        PROVE  ProfitIsBooked'
    BY <1>4, AddProfitBooked, OtherStepsBooked
  <1>5. QED
    BY Zenon, StepKinds, OutsideFrame, <1>1, <1>2, <1>3, <1>4

\* As long as no two handlers work on one booking at a time, the accounts never
\* show a fare that no confirmed booking brought in, wherever handlers fail and
\* however often payment events are delivered.
THEOREM ProfitFollowsConfirmations ==
  Spec /\ []OneHandlerEach => []ProfitIsEarned
  <1>1. Init => ProfitIsBooked
    <2> SUFFICES ASSUME Init PROVE ProfitIsBooked
      OBVIOUS
    <2>1. confirmed = {} /\ confirmed \ Due = {} /\ profit = 0
      BY DEF Init
    <2>2. IsFiniteSet({}) /\ Cardinality({}) = 0
      BY FS_EmptySet
    <2>3. QED
      BY <2>1, <2>2 DEF ProfitIsBooked
  <1>2. /\ HandlersInv /\ ProfitIsBooked /\ OneHandlerEach /\ [Next]_vars
        => HandlersInv' /\ ProfitIsBooked'
    BY HandlersInvStep, ProfitIsBookedStep DEF HandlersInv
  <1>3. HandlersInv /\ ProfitIsBooked => ProfitIsEarned
    <2> SUFFICES ASSUME HandlersInv, ProfitIsBooked
                 PROVE  ProfitIsEarned
      OBVIOUS
    <2>1. /\ Cardinality(confirmed \ Due) <= Cardinality(confirmed)
          /\ Cardinality(confirmed \ Due) \in Nat
          /\ Cardinality(confirmed) \in Nat
      <3>1. IsFiniteSet(confirmed) /\ IsFiniteSet(confirmed \ Due)
        BY FS_Subset, confirmed \ Due \subseteq confirmed DEF ProfitIsBooked
      <3>2. QED
        BY <3>1, FS_Subset, FS_CardinalityType, confirmed \ Due \subseteq confirmed
    <2>2. profit \in Int /\ profit <= Cardinality(confirmed \ Due)
      BY DEF HandlersInv, TypeOK, RowsOK, ProfitIsBooked
    <2>3. QED
      BY <2>1, <2>2 DEF ProfitIsEarned
  <1>4. QED
    BY InitHandlersInv, <1>1, <1>2, <1>3, PTL DEF Spec
=============================================================================
