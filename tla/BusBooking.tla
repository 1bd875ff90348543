------------------------------ MODULE BusBooking ------------------------------
(***************************************************************************)
(* The bookings of bus-service on one bus instance.  The handlers are      *)
(* those of flight-service in name only: a confirmation and a cancellation *)
(* are sequences of separate statements, each of which may be the last one *)
(* before an error or a crash, and no statement looks at what the handler  *)
(* has read before.  In exchange the seat locks in Redis carry their       *)
(* owner, and only the owner's handlers delete them.                       *)
(***************************************************************************)
EXTENDS Integers, FiniteSets

CONSTANTS Booking,    \* booking requests, each becoming at most one row
          Passenger,  \* the passengers named in those requests
          BookingOf,  \* BookingOf[p] is the booking that passenger p is on
          UserOf,     \* UserOf[b] is the user who makes booking b
          Seat,       \* the seats of the instance that were put on sale
          Handler,    \* the Kafka consumer and the HTTP handlers
          Quota,      \* available_* as the inventory job has written it
          MaxDebt,    \* bound: how far profit_amount may go below zero
          SeatType,   \* the seat type of the instance and of its fares
          None        \* no seat, no booking

\* The seat types that the inventory job and the seeds write.
SeatTypes == {"seater", "semi_sleeper", "sleeper"}

ASSUME BusAssumption ==
  /\ IsFiniteSet(Passenger)
  /\ BookingOf \in [Passenger -> Booking]
  /\ DOMAIN UserOf = Booking
  /\ Quota \in Nat /\ MaxDebt \in Nat
  /\ SeatType \in SeatTypes
  /\ None \notin Booking \cup Seat

VARIABLES
  pc,          \* where the CreateBooking handler of each booking is
  seated,      \* passengers whose seat it has read, or who chose none
  seatOf,      \* passengers.seat_id (and, before the insert, the local copy)
  held,        \* the seats LockSeats has locked so far: its slice locked
  lock,        \* Redis bus:seat:lock: the booking that set it, for its user
  available,   \* seats with is_available = true
  status,      \* bookings.status, "NONE" before the row exists
  overdue,     \* bookings whose expires_at has passed
  confirmed,   \* bookings with confirmed_at set
  paid,        \* bookings with payment_ref set
  ticketed,    \* booking_id column of e_tickets (unique)
  avail,       \* the column of bus_instances that counts available seats
  profit,      \* prebooking_accounting.profit_amount, in fares
  cancelled,   \* booking_id column of cancellations (unique)
  owed,        \* cancellations with refund_amount > 0
  refund,      \* cancellations.refund_status, "NONE" before the row exists
  handler,     \* what each handler is doing
  refundRPC,   \* how far payment-service is with the CreateRefund of a booking
  refundCalls, \* history: CreateRefund calls made for each booking
  events       \* refund outcomes published and not consumed yet

createVars == <<pc, seated, seatOf, held>>
paidVars   == <<confirmed, paid, ticketed, avail, profit>>
cancelVars == <<cancelled, owed, refund>>
moneyVars  == <<refundRPC, refundCalls, events>>
vars == <<createVars, lock, available, status, overdue, paidVars, cancelVars,
          handler, moneyVars>>

Idle == [step |-> "idle", booking |-> None, plan |-> "NONE"]

Travellers(b) == {p \in Passenger : BookingOf[p] = b}
SeatsOf(b) == {seatOf[p] : p \in Travellers(b)} \ {None}

\* len(extractSeatIDs(...)): one entry per passenger with a seat, so two
\* passengers that share a seat count twice.
SeatCount(b) == Cardinality({p \in Travellers(b) : seatOf[p] # None})

\* Mutated form: UnlockSeat, the DEL that asks for no owner.
UnlockSeats(S, b) == [s \in Seat |-> IF s \in S THEN None ELSE lock[s]]

\* The Lua script of UnlockSeatsByOwner, run for every seat of S by a handler
\* of the user who made booking b.
UnlockSeatsByOwner(S, b) ==
  [s \in Seat |-> IF /\ s \in S
                     /\ lock[s] # None
                     /\ UserOf[lock[s]] = UserOf[b]
                    THEN None ELSE lock[s]]

Init ==
  /\ pc = [b \in Booking |-> "seating"]
  /\ seated = {}
  /\ seatOf = [p \in Passenger |-> None]
  /\ held = [b \in Booking |-> {}]
  /\ lock = [s \in Seat |-> None]
  /\ available = Seat
  /\ status = [b \in Booking |-> "NONE"]
  /\ overdue = {} /\ confirmed = {} /\ paid = {} /\ ticketed = {}
  /\ avail = Quota
  /\ profit = 0
  /\ cancelled = {} /\ owed = {}
  /\ refund = [b \in Booking |-> "NONE"]
  /\ handler = [h \in Handler |-> Idle]
  /\ refundRPC = [b \in Booking |-> "none"]
  /\ refundCalls = [b \in Booking |-> 0]
  /\ events = {}
-----------------------------------------------------------------------------
(* CreateBooking: every seat is read, then every seat is locked, then the    *)
(* rows are inserted.                                                        *)

\* A passenger without a seat_id.
NoSeat(b, p) ==
  /\ pc[b] = "seating"
  /\ p \in Travellers(b) \ seated
  /\ seated' = seated \cup {p}
  /\ UNCHANGED <<pc, seatOf, held, lock, available, status, overdue, paidVars,
                 cancelVars, handler, moneyVars>>

\* GetSeatByID and the test of is_available.  Two passengers of one booking
\* may name the same seat: its id is locked once.
CheckSeat(b, p, s) ==
  /\ pc[b] = "seating"
  /\ p \in Travellers(b) \ seated
  /\ s \in available
  /\ seated' = seated \cup {p}
  /\ seatOf' = [seatOf EXCEPT ![p] = s]
  /\ UNCHANGED <<pc, held, lock, available, status, overdue, paidVars,
                 cancelVars, handler, moneyVars>>

\* One turn of LockSeats: SETNX succeeds when there is no key at all.
LockSeat(b, s) ==
  /\ pc[b] = "seating"
  /\ Travellers(b) \subseteq seated
  /\ s \in SeatsOf(b) \ held[b]
  /\ lock[s] = None
  /\ lock' = [lock EXCEPT ![s] = b]
  /\ held' = [held EXCEPT ![b] = @ \cup {s}]
  /\ UNCHANGED <<pc, seated, seatOf, available, status, overdue, paidVars,
                 cancelVars, handler, moneyVars>>

\* The handler of b is over without an insert: its local copies are gone.
Forget(b) ==
  LET own == Travellers(b) IN
  /\ pc' = [pc EXCEPT ![b] = "rejected"]
  /\ seated' = seated \ own
  /\ seatOf' = [p \in Passenger |-> IF p \in own THEN None ELSE seatOf[p]]
  /\ held' = [held EXCEPT ![b] = {}]

\* Any early return: seat taken or of the wrong class, lock held by another,
\* Redis or database error.  The locks taken so far are given back.
RejectCreate(b) ==
  /\ pc[b] = "seating"
  /\ Forget(b)
  /\ lock' = UnlockSeatsByOwner(held[b], b)
  /\ UNCHANGED <<available, status, overdue, paidVars, cancelVars, handler,
                 moneyVars>>

\* The process dies in the middle of the handler.
CrashCreate(b) ==
  /\ pc[b] = "seating"
  /\ Forget(b)
  /\ UNCHANGED <<lock, available, status, overdue, paidVars, cancelVars,
                 handler, moneyVars>>

InsertBooking(b) ==
  /\ pc[b] = "seating"
  /\ Travellers(b) \subseteq seated
  /\ held[b] = SeatsOf(b)
  /\ pc' = [pc EXCEPT ![b] = "created"]
  /\ held' = [held EXCEPT ![b] = {}]
  /\ status' = [status EXCEPT ![b] = "PENDING_PAYMENT"]
  /\ UNCHANGED <<seated, seatOf, lock, available, overdue, paidVars,
                 cancelVars, handler, moneyVars>>
-----------------------------------------------------------------------------
(* Time.  expires_at is computed after the locks were taken and lies one     *)
(* lockTTL ahead, so it passes after the booking's own keys are gone.        *)

LockExpires(s) ==
  /\ lock[s] # None
  /\ lock' = [lock EXCEPT ![s] = None]
  /\ UNCHANGED <<createVars, available, status, overdue, paidVars, cancelVars,
                 handler, moneyVars>>

ExpiresAtPasses(b) ==
  /\ pc[b] = "created"
  /\ b \notin overdue
  /\ \A s \in Seat : lock[s] # b
  /\ overdue' = overdue \cup {b}
  /\ UNCHANGED <<createVars, lock, available, status, paidVars, cancelVars,
                 handler, moneyVars>>

\* Mutated form: expires_at > now.
NotYetStale == {b \in Booking \ overdue : status[b] = "PENDING_PAYMENT"}

\* The rows the expiry job's UPDATE selects.
Stale == {b \in overdue : status[b] = "PENDING_PAYMENT"}

\* CleanupExpiredBookings, every five minutes.
ExpireBookings ==
  /\ Stale # {}
  /\ status' = [b \in Booking |-> IF b \in Stale THEN "EXPIRED" ELSE status[b]]
  /\ UNCHANGED <<createVars, lock, available, overdue, paidVars, cancelVars,
                 handler, moneyVars>>
-----------------------------------------------------------------------------
(* ConfirmBooking, called by ProcessPaymentEvent, which brings a payment     *)
(* reference, and by the manual endpoint, which brings none.                 *)

Goto(h, step) == handler' = [handler EXCEPT ![h].step = step]

\* Mutated form: the test of the status is left out.
ConfirmableAnyhow(b) == status[b] # "NONE"

Confirmable(b) == status[b] = "PENDING_PAYMENT"

ConfirmRead(h, b) ==
  /\ handler[h] = Idle
  /\ Confirmable(b)
  /\ \E plan \in {"EVENT", "MANUAL"} :
       handler' = [handler EXCEPT ![h] =
         [step |-> IF b \in overdue THEN "expire" ELSE "confirm",
          booking |-> b, plan |-> plan]]
  /\ UNCHANGED <<createVars, lock, available, status, overdue, paidVars,
                 cancelVars, moneyVars>>

\* A booking read past its expires_at: UpdateBookingStatus EXPIRED, whatever
\* the row holds by now.
ExpireStatus(h) ==
  /\ handler[h].step = "expire"
  /\ status' = [status EXCEPT ![handler[h].booking] = "EXPIRED"]
  /\ handler' = [handler EXCEPT ![h] = Idle]
  /\ UNCHANGED <<createVars, lock, available, overdue, paidVars, cancelVars,
                 moneyVars>>

\* UpdateBookingStatus CONFIRMED, whatever the row holds by now.
ConfirmStatus(h) ==
  LET b == handler[h].booking IN
  /\ handler[h].step = "confirm"
  /\ status' = [status EXCEPT ![b] = "CONFIRMED"]
  /\ confirmed' = confirmed \cup {b}
  /\ paid' = IF handler[h].plan = "EVENT" THEN paid \cup {b} ELSE paid
  /\ Goto(h, "take")
  /\ UNCHANGED <<createVars, lock, available, overdue, ticketed, avail, profit,
                 cancelVars, moneyVars>>

\* UpdateMultipleSeatsAvailability(false), whatever the seats hold by now.
TakeSeats(h) ==
  /\ handler[h].step = "take"
  /\ available' = available \ SeatsOf(handler[h].booking)
  /\ Goto(h, "unlockTaken")
  /\ UNCHANGED <<createVars, lock, status, overdue, paidVars, cancelVars,
                 moneyVars>>

\* UnlockSeatsByOwner, the same call in both handlers.
Unlock(h, step) ==
  LET b == handler[h].booking IN
  /\ handler[h].step = step
  /\ lock' = UnlockSeatsByOwner(SeatsOf(b), b)
  /\ UNCHANGED <<createVars, available, status, overdue, paidVars, cancelVars,
                 moneyVars>>

UnlockTaken(h) == Unlock(h, "unlockTaken") /\ Goto(h, "deduct")

\* The column that availableColumn finds for a seat type.
availableColumn(type) ==
  CASE type = "SEATER" -> "available_seater"
    [] type = "SEMI_SLEEPER" -> "available_semi_sleeper"
    [] type = "SLEEPER" -> "available_sleeper"
    [] OTHER -> ""

\* DecrementInventoryOnConfirm: the counter moves by n if its column is known
\* and the transaction does not fail, which stops nothing.
Moved(n) == IF availableColumn(SeatType) = "" THEN {avail} ELSE {avail, avail + n}

DecrementInventory(h) ==
  /\ handler[h].step = "deduct"
  /\ avail' \in Moved(-SeatCount(handler[h].booking))
  /\ Goto(h, "earn")
  /\ UNCHANGED <<createVars, lock, available, status, overdue, confirmed, paid,
                 ticketed, profit, cancelVars, moneyVars>>

\* AddProfitToPrebookingAccounting; an error is only logged.
AddProfit(h) ==
  /\ handler[h].step = "earn"
  /\ profit' \in {profit, profit + 1}
  /\ Goto(h, "ticket")
  /\ UNCHANGED <<createVars, lock, available, status, overdue, confirmed, paid,
                 ticketed, avail, cancelVars, moneyVars>>

\* SaveETicket; a duplicate or any other error is ignored.
SaveETicket(h) ==
  /\ handler[h].step = "ticket"
  /\ ticketed' \in {ticketed, ticketed \cup {handler[h].booking}}
  /\ handler' = [handler EXCEPT ![h] = Idle]
  /\ UNCHANGED <<createVars, lock, available, status, overdue, confirmed, paid,
                 avail, profit, cancelVars, moneyVars>>
-----------------------------------------------------------------------------
(* CancelBooking of the user and of the administrator: the same statements.  *)

\* What the handler may decide from the row it has read: it is unpaid; no
\* refund is due; one is due that it cannot ask for (no client or reference);
\* or it will call CreateRefund.
RefundPlans(b) ==
  IF status[b] = "PENDING_PAYMENT" THEN {"UNPAID"}
    ELSE {"NO_REFUND", "NO_CLIENT"} \cup (IF b \in paid THEN {"CALL"} ELSE {})

CancelRead(h, b) ==
  /\ handler[h] = Idle
  /\ status[b] \in {"CONFIRMED", "PENDING_PAYMENT"}
  /\ \E plan \in RefundPlans(b) :
       handler' = [handler EXCEPT ![h] =
         [step |-> "free", booking |-> b, plan |-> plan]]
  /\ UNCHANGED <<createVars, lock, available, status, overdue, paidVars,
                 cancelVars, moneyVars>>

\* Mutated form: the seats are not put back on sale.
KeepSeats(h) ==
  /\ handler[h].step = "free"
  /\ Goto(h, "unlockFreed")
  /\ UNCHANGED <<createVars, lock, available, status, overdue, paidVars,
                 cancelVars, moneyVars>>

\* UpdateMultipleSeatsAvailability(true), whatever the seats hold by now.
FreeSeats(h) ==
  /\ handler[h].step = "free"
  /\ available' = available \cup SeatsOf(handler[h].booking)
  /\ Goto(h, "unlockFreed")
  /\ UNCHANGED <<createVars, lock, status, overdue, paidVars, cancelVars,
                 moneyVars>>

UnlockFreed(h) ==
  /\ Unlock(h, "unlockFreed")
  /\ Goto(h, IF handler[h].plan = "UNPAID" THEN "record" ELSE "credit")

\* IncrementInventoryOnCancel; its error is ignored.
IncrementInventory(h) ==
  /\ handler[h].step = "credit"
  /\ avail' \in Moved(SeatCount(handler[h].booking))
  /\ Goto(h, IF handler[h].plan = "NO_REFUND" THEN "record" ELSE "repay")
  /\ UNCHANGED <<createVars, lock, available, status, overdue, confirmed, paid,
                 ticketed, profit, cancelVars, moneyVars>>

\* SubtractProfitFromPrebookingAccounting; an error is only logged.  A user
\* may repeat a cancellation that failed later on: MaxDebt bounds the repeats.
SubtractProfit(h) ==
  /\ handler[h].step = "repay"
  /\ profit' \in {profit, profit - 1} \ {-MaxDebt - 1}
  /\ Goto(h, "record")
  /\ UNCHANGED <<createVars, lock, available, status, overdue, confirmed, paid,
                 ticketed, avail, cancelVars, moneyVars>>

\* Mutated form: cancellations.booking_id without its unique index.
AnyCancellation(b) == TRUE

\* The unique index on cancellations.booking_id lets the insert through.
CancellationUnique(b) == b \notin cancelled

\* CreateCancellation.  When nothing is due the refund counts as made.
CreateCancellation(h) ==
  LET b == handler[h].booking
      due == handler[h].plan \in {"NO_CLIENT", "CALL"} IN
  /\ handler[h].step = "record"
  /\ CancellationUnique(b)
  /\ cancelled' = cancelled \cup {b}
  /\ owed' = IF due THEN owed \cup {b} ELSE owed
  /\ refund' = [refund EXCEPT ![b] = IF due THEN "PENDING" ELSE "SUCCESS"]
  /\ Goto(h, IF handler[h].plan = "CALL" THEN "call" ELSE "close")
  /\ UNCHANGED <<createVars, lock, available, status, overdue, paidVars,
                 moneyVars>>

\* The CreateRefund RPC leaves for payment-service.
CallRefund(h) ==
  LET b == handler[h].booking IN
  /\ handler[h].step = "call"
  /\ refundRPC' = [refundRPC EXCEPT ![b] = "sent"]
  /\ refundCalls' = [refundCalls EXCEPT ![b] = @ + 1]
  /\ Goto(h, "wait")
  /\ UNCHANGED <<createVars, lock, available, status, overdue, paidVars,
                 cancelVars, events>>

RefundReturns(h) ==
  /\ handler[h].step = "wait"
  /\ refundRPC[handler[h].booking] = "refunded"
  /\ Goto(h, "close")
  /\ UNCHANGED <<createVars, lock, available, status, overdue, paidVars,
                 cancelVars, moneyVars>>

\* The call returns an error, or its eight seconds are over whatever
\* payment-service is doing.
RefundErrors(h) ==
  /\ handler[h].step = "wait"
  /\ refund' = [refund EXCEPT ![handler[h].booking] = "FAILED"]
  /\ Goto(h, "close")
  /\ UNCHANGED <<createVars, lock, available, status, overdue, paidVars,
                 cancelled, owed, moneyVars>>

\* Mutated form: the status is written before the cancellation is recorded.
ReadyToClose(h) == handler[h].step \in {"record", "close"}

\* The last statement of the handler comes after all the others.
Closing(h) == handler[h].step = "close"

\* UpdateBookingStatus CANCELLED, whatever the row holds by now.
CancelStatus(h) ==
  /\ Closing(h)
  /\ status' = [status EXCEPT ![handler[h].booking] = "CANCELLED"]
  /\ handler' = [handler EXCEPT ![h] = Idle]
  /\ UNCHANGED <<createVars, lock, available, overdue, paidVars, cancelVars,
                 moneyVars>>

\* A statement fails and the handler returns, or the process dies: what was
\* written stays written.  A Kafka message was committed when it was read.
HandlerFails(h) ==
  /\ handler[h] # Idle
  /\ handler' = [handler EXCEPT ![h] = Idle]
  /\ UNCHANGED <<createVars, lock, available, status, overdue, paidVars,
                 cancelVars, moneyVars>>
-----------------------------------------------------------------------------
(* Refund outcomes. *)

\* payment-service: Stripe accepts or refuses; the outcome is published, and
\* publishing may fail with nothing but a log line.
PaymentRefunds(b) ==
  /\ refundRPC[b] = "sent"
  /\ \E outcome \in {"refunded", "refund_failed"} :
       /\ refundRPC' = [refundRPC EXCEPT ![b] = outcome]
       /\ \/ events' = events \cup {[type |-> outcome, booking |-> b]}
          \/ events' = events
  /\ UNCHANGED <<createVars, lock, available, status, overdue, paidVars,
                 cancelVars, handler, refundCalls>>

\* Mutated forms: the status word of flight-service, and a lost distinction.
FlightOutcomeStatus(type) == IF type = "refunded" THEN "COMPLETED" ELSE "FAILED"
SameOutcomeStatus(type) == "SUCCESS"

OutcomeStatus(type) == IF type = "refunded" THEN "SUCCESS" ELSE "FAILED"

\* ProcessRefundedEvent and ProcessRefundFailedEvent: an UPDATE of the row, if
\* there is one, whatever its status.
ConsumeRefundEvent(e) ==
  /\ e \in events
  /\ events' = events \ {e}
  /\ refund' = [refund EXCEPT ![e.booking] =
                  IF e.booking \in cancelled THEN OutcomeStatus(e.type) ELSE @]
  /\ UNCHANGED <<createVars, lock, available, status, overdue, paidVars,
                 cancelled, owed, handler, refundRPC, refundCalls>>
-----------------------------------------------------------------------------
CreateBooking(b) ==
  \/ \E p \in Passenger : NoSeat(b, p) \/ \E s \in Seat : CheckSeat(b, p, s)
  \/ \E s \in Seat : LockSeat(b, s)
  \/ RejectCreate(b) \/ CrashCreate(b) \/ InsertBooking(b)

ConfirmBooking(h) ==
  \/ \E b \in Booking : ConfirmRead(h, b)
  \/ ExpireStatus(h) \/ ConfirmStatus(h) \/ TakeSeats(h) \/ UnlockTaken(h)
  \/ DecrementInventory(h) \/ AddProfit(h) \/ SaveETicket(h)

CancelBooking(h) ==
  \/ \E b \in Booking : CancelRead(h, b)
  \/ FreeSeats(h) \/ UnlockFreed(h) \/ IncrementInventory(h)
  \/ SubtractProfit(h) \/ CreateCancellation(h) \/ CallRefund(h)
  \/ RefundReturns(h) \/ RefundErrors(h) \/ CancelStatus(h)

Next ==
  \/ \E b \in Booking :
       CreateBooking(b) \/ ExpiresAtPasses(b) \/ PaymentRefunds(b)
  \/ \E s \in Seat : LockExpires(s)
  \/ \E h \in Handler : ConfirmBooking(h) \/ CancelBooking(h) \/ HandlerFails(h)
  \/ \E e \in events : ConsumeRefundEvent(e)
  \/ ExpireBookings

Spec == Init /\ [][Next]_vars

\* Redis expires keys, the clock advances and robfig/cron runs the expiry job
\* for as long as the service is deployed.  Nobody else owes anything.
Fairness ==
  /\ \A s \in Seat : WF_vars(LockExpires(s))
  /\ \A b \in Booking : WF_vars(ExpiresAtPasses(b))
  /\ WF_vars(ExpireBookings)

FairSpec == Spec /\ Fairness
-----------------------------------------------------------------------------
Status == {"NONE", "PENDING_PAYMENT", "CONFIRMED", "EXPIRED", "CANCELLED"}

CreationOK ==
  /\ pc \in [Booking -> {"seating", "created", "rejected"}]
  /\ seated \subseteq Passenger
  /\ seatOf \in [Passenger -> Seat \cup {None}]
  /\ held \in [Booking -> SUBSET Seat]
  /\ lock \in [Seat -> Booking \cup {None}]

RowsOK ==
  /\ available \subseteq Seat
  /\ status \in [Booking -> Status]
  /\ overdue \subseteq Booking
  /\ confirmed \subseteq Booking /\ paid \subseteq confirmed
  /\ ticketed \subseteq Booking
  /\ avail \in Int /\ profit \in Int
  /\ cancelled \subseteq Booking /\ owed \subseteq cancelled
  /\ refund \in [Booking -> {"NONE", "PENDING", "SUCCESS", "FAILED"}]

Step == {"idle", "expire", "confirm", "take", "unlockTaken", "deduct", "earn",
         "ticket", "free", "unlockFreed", "credit", "repay", "record", "call",
         "wait", "close"}
Plan == {"NONE", "EVENT", "MANUAL", "UNPAID", "NO_REFUND", "NO_CLIENT", "CALL"}

HandlersOK ==
  /\ handler \in [Handler -> [step : Step, booking : Booking \cup {None},
                              plan : Plan]]
  /\ \A h \in Handler :
       handler[h].step # "idle" => handler[h].booking \in Booking

MoneyOK ==
  /\ refundRPC \in [Booking -> {"none", "sent", "refunded", "refund_failed"}]
  /\ refundCalls \in [Booking -> Nat]
  /\ events \subseteq [type : {"refunded", "refund_failed"}, booking : Booking]

TypeOK == CreationOK /\ RowsOK /\ HandlersOK /\ MoneyOK
-----------------------------------------------------------------------------
(* What holds however the handlers interleave. *)

\* A lock that is deleted in this step ran out or fell to its own user.
FallsToItsUser ==
  \A s \in Seat :
    lock[s] # None /\ lock'[s] = None =>
      \/ LockExpires(s)
      \/ \E b \in Booking : RejectCreate(b) /\ UserOf[b] = UserOf[lock[s]]
      \/ \E h \in Handler : /\ UnlockTaken(h) \/ UnlockFreed(h)
                            /\ UserOf[handler[h].booking] = UserOf[lock[s]]

\* No handler ever deletes a seat lock of another user: not the rollback of an
\* attempt whose own locks ran out, not a late confirmation, not a late
\* cancellation.  Before its time is up, a lock falls to its user alone.
OnlyTheUserUnlocks == [][FallsToItsUser]_vars

\* payment-service is asked for at most one refund per booking, and only for
\* one that was paid, although the second of two cancellations is stopped by
\* nothing before the insert of its record.
RefundOnce ==
  \A b \in Booking :
    /\ refundCalls[b] <= 1
    /\ refundCalls[b] = 1 => b \in paid \cap owed

\* The tables as the abstract refunds see them; a refund of which nothing is
\* owed is none.
RefundBook == INSTANCE Refunds WITH
  recorded <- owed, calls <- refundCalls,
  accepted <- {b \in Booking : refundRPC[b] = "refunded"},
  refused <- {b \in Booking : refundRPC[b] = "refund_failed"},
  shown <- {b \in owed : refund[b] = "SUCCESS"}

\* Refunds are asked for once, after payment and cancellation, answered once
\* and shown only when made, one step at a time, however many handlers cancel
\* and confirm a booking at once and wherever they stop.
ImplementsRefunds == RefundBook!RefundsSpec

\* A booking is shown as cancelled only with a record of what it is owed,
\* wherever handlers fail between the record and the status.
CancelledIsRecorded ==
  \A b \in Booking : status[b] = "CANCELLED" => b \in cancelled

\* A refund is shown as made only when Stripe took it or nothing was due,
\* in whatever order the answer, the timeout and the event are written.
SuccessIsSettled ==
  \A b \in Booking :
    refund[b] = "SUCCESS" => b \notin owed \/ refundRPC[b] = "refunded"

\* Every unpaid booking leaves PENDING_PAYMENT.
PendingEnds ==
  \A b \in Booking :
    (status[b] = "PENDING_PAYMENT") ~> (status[b] # "PENDING_PAYMENT")
-----------------------------------------------------------------------------
(* What holds as long as no two handlers work on the same booking at a time, *)
(* wherever they fail.                                                       *)

OneHandlerEach ==
  \A h, g \in Handler :
    /\ handler[h].step # "idle" /\ handler[g].step # "idle"
    /\ handler[h].booking = handler[g].booking
    => h = g

\* The order of the statements: a handler that stops half-way may leave a seat
\* on sale too many, never a seat off sale that belongs to nobody.
NoStrandedSeat ==
  \A s \in Seat \ available :
    \E b \in Booking : status[b] = "CONFIRMED" /\ s \in SeatsOf(b)

\* The accounts never show a fare that no confirmed booking brought in, however
\* often its payment event is delivered.
ProfitIsEarned == profit <= Cardinality(confirmed)
-----------------------------------------------------------------------------
(* What the source says of itself and the code does not keep. *)

\* The seats of a confirmed booking are locked in the database: no other
\* booking's cancellation puts them on sale.
FreesOnlyItsOwn ==
  [][\A h \in Handler : FreeSeats(h) =>
       \A b \in Booking \ {handler[h].booking} :
         status[b] = "CONFIRMED" => SeatsOf(b) \cap available' \subseteq available
    ]_vars
=============================================================================
