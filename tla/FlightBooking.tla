---------------------------- MODULE FlightBooking ----------------------------
(***************************************************************************)
(* The booking core of flight-service for one flight instance: the HTTP    *)
(* handlers that create and cancel bookings, the Kafka consumer that       *)
(* confirms a booking when its payment completes, the consumers of refund  *)
(* outcomes, the cron jobs (booking expiry, nightly inventory) and the     *)
(* administrator's handlers, over the rows in PostgreSQL and the seat      *)
(* locks in Redis.                                                         *)
(*                                                                         *)
(* Each database transaction and each Redis command is one step; what a    *)
(* handler has read and still relies on is kept in its local state, so     *)
(* every interleaving between a read and the write based on it is there.   *)
(* A handler may die between any two of its steps.                         *)
(***************************************************************************)
EXTENDS Integers, FiniteSets

CONSTANTS Booking,    \* booking requests, each becoming at most one row
          Passenger,  \* the passengers named in those requests
          BookingOf,  \* BookingOf[p] is the booking that passenger p is on
          Seat,       \* seat rows of the flight instance
          Consumer,   \* goroutines reading flight-payment-topic
          Request,    \* HTTP handlers serving cancellation requests
          Quota,      \* the quota the inventory job computes for the instance
          Overrides,  \* statuses an administrator writes by hand
          None        \* no seat, no booking, no passenger

Status == {"NONE", "PENDING_PAYMENT", "CONFIRMED", "EXPIRED", "CANCELLED",
           "CANCELLED_BY_AIRLINE"}

ASSUME FlightAssumption ==
  /\ IsFiniteSet(Passenger)
  /\ BookingOf \in [Passenger -> Booking]
  /\ Quota \in Nat
  /\ Overrides \subseteq Status \ {"NONE"}
  /\ None \notin Booking \cup Passenger \cup Seat

VARIABLES
  pc,         \* where the CreateBooking handler of each booking is
  cur,        \* the passenger its loop has read a seat for, not yet locked
  seated,     \* passengers the loops are done with
  seatOf,     \* passengers.seat_id (and, before the insert, the local copy)
  doomed,     \* creations holding the id of a seat row that was deleted
  lock,       \* Redis seat_lock:<seat>: the attempt whose SETNX made the key
  available,  \* seats with is_available = true
  status,     \* bookings.status, "NONE" before the row exists
  overdue,    \* bookings whose expires_at has passed
  ticketed,   \* booking_id column of e_tickets (a unique index)
  cancelled,  \* booking_id column of cancellations (a unique index)
  refund,     \* cancellations.refund_status, "NONE" before the row exists
  avail,      \* available_* of the instance (platform_quota_* moves with it)
  instance,   \* flight_instances.status
  jobStep,    \* where the nightly inventory job is
  consumer,   \* what each payment consumer is doing
  request,    \* what each cancellation handler is doing
  refundRPC,  \* how far payment-service is with the CreateRefund of a booking
  refundCalls,\* history: CreateRefund calls made for each booking
  events,     \* refund outcomes published and not consumed yet
  soldBefore, returnedBefore  \* history: tickets and cancellations at the reset

createVars == <<pc, cur, seated, seatOf, doomed>>
rowVars    == <<available, status, ticketed, cancelled, avail>>
refundVars == <<refund, refundRPC, refundCalls, events>>
resetVars  == <<soldBefore, returnedBefore>>
vars == <<createVars, lock, rowVars, overdue, instance, jobStep, consumer,
          request, refundVars, resetVars>>

Creating(b) == pc[b] \in {"seating", "locking"}
IdleConsumer == [step |-> "idle", booking |-> None]
IdleRequest == [step |-> "idle", booking |-> None, refund |-> "NONE"]

\* The passengers of a set of bookings, and the seats booking b names.
Travellers(B) == {p \in Passenger : BookingOf[p] \in B}
SeatsOf(b) == {seatOf[p] : p \in Travellers({b})} \ {None}

\* Redis DEL of the lock keys of a set of seats, whoever holds them.
Released(S) == [s \in Seat |-> IF s \in S THEN None ELSE lock[s]]

Init ==
  /\ pc = [b \in Booking |-> "none"]
  /\ cur = [b \in Booking |-> None]
  /\ seated = {}
  /\ seatOf = [p \in Passenger |-> None]
  /\ doomed = {}
  /\ lock = [s \in Seat |-> None]
  /\ available = Seat
  /\ status = [b \in Booking |-> "NONE"]
  /\ overdue = {}
  /\ ticketed = {} /\ cancelled = {}
  /\ refund = [b \in Booking |-> "NONE"]
  /\ avail = Quota
  /\ instance = "SCHEDULED"
  /\ jobStep = "idle"
  /\ consumer = [c \in Consumer |-> IdleConsumer]
  /\ request = [r \in Request |-> IdleRequest]
  /\ refundRPC = [b \in Booking |-> "none"]
  /\ refundCalls = [b \in Booking |-> 0]
  /\ events = {}
  /\ soldBefore = {} /\ returnedBefore = {}
-----------------------------------------------------------------------------
(* CreateBooking.  The instance's own status is never looked at. *)

StartCreate(b) ==
  /\ pc[b] = "none"
  /\ pc' = [pc EXCEPT ![b] = "seating"]
  /\ UNCHANGED <<cur, seated, seatOf, doomed, lock, rowVars, overdue, instance,
                 jobStep, consumer, request, refundVars, resetVars>>

\* An infant, or a passenger who chose no seat.
SkipSeat(b, p) ==
  /\ pc[b] = "seating"
  /\ p \in Travellers({b}) \ seated
  /\ seated' = seated \cup {p}
  /\ UNCHANGED <<pc, cur, seatOf, doomed, lock, rowVars, overdue, instance,
                 jobStep, consumer, request, refundVars, resetVars>>

\* GetSeatByID and the test of is_available.
CheckSeat(b, p, s) ==
  /\ pc[b] = "seating"
  /\ p \in Travellers({b}) \ seated
  /\ s \in available
  /\ pc' = [pc EXCEPT ![b] = "locking"]
  /\ cur' = [cur EXCEPT ![b] = p]
  /\ seatOf' = [seatOf EXCEPT ![p] = s]
  /\ UNCHANGED <<seated, doomed, lock, rowVars, overdue, instance, jobStep,
                 consumer, request, refundVars, resetVars>>

\* SETNX succeeds only when no key exists, not even the same user's own.
KeyAbsent(s) == lock[s] = None

\* AcquireSeatLock.  The key of a deleted seat (None) is nobody else's.
LockSeat(b) ==
  LET s == seatOf[cur[b]] IN
  /\ pc[b] = "locking"
  /\ \/ s = None /\ lock' = lock
     \/ s # None /\ KeyAbsent(s) /\ lock' = [lock EXCEPT ![s] = b]
  /\ seated' = seated \cup {cur[b]}
  /\ cur' = [cur EXCEPT ![b] = None]
  /\ pc' = [pc EXCEPT ![b] = "seating"]
  /\ UNCHANGED <<seatOf, doomed, rowVars, overdue, instance, jobStep, consumer,
                 request, refundVars, resetVars>>

\* The seats this request has locked so far: lockedSeats in the code.
LockedSeats(b) ==
  {seatOf[p] : p \in Travellers({b}) \cap seated} \ {None}

\* The handler of b is over without an insert: its local copies are gone.
Forget(b) ==
  LET own == Travellers({b}) IN
  /\ pc' = [pc EXCEPT ![b] = "rejected"]
  /\ cur' = [cur EXCEPT ![b] = None]
  /\ seated' = seated \ own
  /\ seatOf' = [p \in Passenger |-> IF p \in own THEN None ELSE seatOf[p]]
  /\ doomed' = doomed \ {b}

\* Any early return of the handler: seat taken, lock held by another request,
\* Redis or database error, PNR collision, foreign key of a deleted seat.  The
\* deferred function deletes the keys of the seats locked so far.
FailCreate(b) ==
  /\ Creating(b)
  /\ Forget(b)
  /\ lock' = Released(LockedSeats(b))
  /\ UNCHANGED <<rowVars, overdue, instance, jobStep,
                 consumer, request, refundVars, resetVars>>

\* The process dies in the middle of the handler: no deferred cleanup.
CrashCreate(b) ==
  /\ Creating(b)
  /\ Forget(b)
  /\ UNCHANGED <<lock, rowVars, overdue, instance,
                 jobStep, consumer, request, refundVars, resetVars>>

InsertBooking(b) ==
  /\ pc[b] = "seating"
  /\ Travellers({b}) \subseteq seated
  /\ b \notin doomed
  /\ pc' = [pc EXCEPT ![b] = "created"]
  /\ status' = [status EXCEPT ![b] = "PENDING_PAYMENT"]
  /\ UNCHANGED <<cur, seated, seatOf, doomed, lock, available, ticketed,
                 cancelled, avail, overdue, instance, jobStep, consumer,
                 request, refundVars, resetVars>>
-----------------------------------------------------------------------------
(* Time.  The Redis keys live ten minutes from SETNX; expires_at is computed *)
(* ten minutes ahead after the last SETNX, so it passes after the booking's  *)
(* own keys are gone.                                                        *)

LockExpires(s) ==
  /\ lock[s] # None
  /\ lock' = Released({s})
  /\ UNCHANGED <<createVars, rowVars, overdue, instance, jobStep, consumer,
                 request, refundVars, resetVars>>

ExpiresAtPasses(b) ==
  /\ pc[b] = "created"
  /\ b \notin overdue
  /\ \A s \in Seat : lock[s] # b
  /\ overdue' = overdue \cup {b}
  /\ UNCHANGED <<createVars, lock, rowVars, instance, jobStep, consumer,
                 request, refundVars, resetVars>>

\* Mutated form: a status literal no row ever holds.
StaleMisspelt == {b \in overdue : status[b] = "PENDING"}

\* The rows the expiry job's UPDATE selects.
Stale == {b \in overdue : status[b] = "PENDING_PAYMENT"}

\* CleanupExpiredBookings, every five minutes: one UPDATE.
ExpireBookings ==
  /\ Stale # {}
  /\ status' = [b \in Booking |-> IF b \in Stale THEN "EXPIRED" ELSE status[b]]
  /\ UNCHANGED <<createVars, lock, available, ticketed, cancelled, avail,
                 overdue, instance, jobStep, consumer, request, refundVars,
                 resetVars>>
-----------------------------------------------------------------------------
(* ProcessPaymentEvent and ConfirmBooking.  An event for a booking may       *)
(* arrive at any time after the insert and any number of times: the user may *)
(* pay several intents and Stripe repeats its webhooks.                      *)

\* GetBookingByID and the test of the status; other statuses are skipped.
ReceivePayment(c, b) ==
  /\ consumer[c].step = "idle"
  /\ status[b] = "PENDING_PAYMENT"
  /\ consumer' = [consumer EXCEPT ![c] = [step |-> "confirm", booking |-> b]]
  /\ UNCHANGED <<createVars, lock, rowVars, overdue, instance, jobStep,
                 request, refundVars, resetVars>>

\* Mutated form: e_tickets.booking_id without its unique index.
AnyTicket(b) == TRUE

\* The unique index on e_tickets.booking_id lets the insert through.
TicketUnique(b) == b \notin ticketed

\* ConfirmBookingAndSeats: Save writes every column of the row read before,
\* status included, whatever the row holds by now.
ConfirmCommit(c) ==
  LET b == consumer[c].booking IN
  /\ consumer[c].step = "confirm"
  /\ TicketUnique(b)
  /\ status' = [status EXCEPT ![b] = "CONFIRMED"]
  /\ available' = available \ SeatsOf(b)
  /\ ticketed' = ticketed \cup {b}
  /\ avail' = avail - Cardinality(Travellers({b}))
  /\ consumer' = [consumer EXCEPT ![c].step = "release"]
  /\ UNCHANGED <<createVars, lock, cancelled, overdue, instance, jobStep,
                 request, refundVars, resetVars>>

\* The transaction fails and rolls back (duplicate ticket, database error), or
\* the process dies.  The message was committed when it was read: it is gone.
ConfirmFails(c) ==
  /\ consumer[c].step # "idle"
  /\ consumer' = [consumer EXCEPT ![c] = IdleConsumer]
  /\ UNCHANGED <<createVars, lock, rowVars, overdue, instance, jobStep,
                 request, refundVars, resetVars>>

\* ReleaseSeatLock for every seat of the booking.
ReleaseSeats(c) ==
  /\ consumer[c].step = "release"
  /\ lock' = Released(SeatsOf(consumer[c].booking))
  /\ consumer' = [consumer EXCEPT ![c] = IdleConsumer]
  /\ UNCHANGED <<createVars, rowVars, overdue, instance, jobStep, request,
                 refundVars, resetVars>>
-----------------------------------------------------------------------------
(* CancelBooking. *)

\* What the handler may decide: no amount is due (fare, hours to departure); an
\* amount is due but there is no payment client or no payment reference; or it
\* will call CreateRefund, which takes the reference that the confirming
\* transaction wrote together with the ticket.
RefundPlans(b) ==
  {"NOT_REQUIRED", "MANUAL_REVIEW"} \cup
  (IF b \in ticketed THEN {"PENDING"} ELSE {})

CancelRead(r, b) ==
  /\ request[r].step = "idle"
  /\ status[b] = "CONFIRMED"
  /\ \E plan \in RefundPlans(b) :
       request' = [request EXCEPT ![r] = [step |-> "cancel", booking |-> b,
                                          refund |-> plan]]
  /\ UNCHANGED <<createVars, lock, rowVars, overdue, instance, jobStep,
                 consumer, refundVars, resetVars>>

\* Mutated form: cancellations.booking_id without its unique index.
AnyCancellation(b) == TRUE

\* The unique index on cancellations.booking_id lets the insert through.
CancellationUnique(b) == b \notin cancelled

\* Mutated form: the loop over the passengers' seats is left out.
NothingVacated(b) == {}

\* The seats a cancellation puts back on sale.
Vacated(b) == SeatsOf(b)

\* CreateCancellation: the status is written without looking at it again.
CancelCommit(r) ==
  LET b == request[r].booking
      due == request[r].refund = "PENDING" IN
  /\ request[r].step = "cancel"
  /\ CancellationUnique(b)
  /\ cancelled' = cancelled \cup {b}
  /\ status' = [status EXCEPT ![b] = "CANCELLED"]
  /\ available' = available \cup Vacated(b)
  /\ avail' = avail + Cardinality(Travellers({b}))
  /\ refund' = [refund EXCEPT ![b] = request[r].refund]
  /\ request' = IF due THEN [request EXCEPT ![r].step = "call"]
                       ELSE [request EXCEPT ![r] = IdleRequest]
  /\ UNCHANGED <<createVars, lock, ticketed, overdue, instance, jobStep,
                 consumer, refundRPC, refundCalls, events, resetVars>>

\* The transaction fails and rolls back (second cancellation, database error),
\* or the process dies before or during the refund call.
CancelFails(r) ==
  /\ request[r].step # "idle"
  /\ request' = [request EXCEPT ![r] = IdleRequest]
  /\ UNCHANGED <<createVars, lock, rowVars, overdue, instance, jobStep,
                 consumer, refundVars, resetVars>>

\* The CreateRefund RPC leaves for payment-service.
CallRefund(r) ==
  LET b == request[r].booking IN
  /\ request[r].step = "call"
  /\ request' = [request EXCEPT ![r].step = "wait"]
  /\ refundRPC' = [refundRPC EXCEPT ![b] = "sent"]
  /\ refundCalls' = [refundCalls EXCEPT ![b] = @ + 1]
  /\ UNCHANGED <<createVars, lock, rowVars, overdue, instance, jobStep,
                 consumer, refund, events, resetVars>>

\* payment-service: Stripe accepts or refuses; the outcome is published, and
\* publishing may fail with nothing but a log line.
PaymentRefunds(b) ==
  /\ refundRPC[b] = "sent"
  /\ \E outcome \in {"refunded", "refund_failed"} :
       /\ refundRPC' = [refundRPC EXCEPT ![b] = outcome]
       /\ \/ events' = events \cup {[type |-> outcome, booking |-> b]}
          \/ events' = events
  /\ UNCHANGED <<createVars, lock, rowVars, overdue, instance, jobStep,
                 consumer, request, refund, refundCalls, resetVars>>

RefundReturns(r) ==
  /\ request[r].step = "wait"
  /\ refundRPC[request[r].booking] = "refunded"
  /\ request' = [request EXCEPT ![r] = IdleRequest]
  /\ UNCHANGED <<createVars, lock, rowVars, overdue, instance, jobStep,
                 consumer, refundVars, resetVars>>

\* The call returns an error, or its eight seconds are over whatever
\* payment-service is doing: the refund is recorded as failed.
RefundErrors(r) ==
  /\ request[r].step = "wait"
  /\ refund' = [refund EXCEPT ![request[r].booking] = "FAILED"]
  /\ request' = [request EXCEPT ![r] = IdleRequest]
  /\ UNCHANGED <<createVars, lock, rowVars, overdue, instance, jobStep,
                 consumer, refundRPC, refundCalls, events, resetVars>>

\* Mutated forms: the status word of bus-service, and a lost distinction.
BusOutcomeStatus(type) == IF type = "refunded" THEN "SUCCESS" ELSE "FAILED"
SameOutcomeStatus(type) == "COMPLETED"

OutcomeStatus(type) == IF type = "refunded" THEN "COMPLETED" ELSE "FAILED"

\* ProcessRefundedEvent and ProcessRefundFailedEvent: an UPDATE of the row, if
\* there is one, whatever its status.
ConsumeRefundEvent(e) ==
  /\ e \in events
  /\ events' = events \ {e}
  /\ refund' = [refund EXCEPT ![e.booking] =
                  IF e.booking \in cancelled THEN OutcomeStatus(e.type) ELSE @]
  /\ UNCHANGED <<createVars, lock, rowVars, overdue, instance, jobStep,
                 consumer, request, refundRPC, refundCalls, resetVars>>
-----------------------------------------------------------------------------
(* The administrator. *)

\* ForceUpdateBookingStatus: any status, from any status.
ForceUpdateBookingStatus(b) ==
  /\ status[b] # "NONE"
  /\ \E st \in Overrides : status' = [status EXCEPT ![b] = st]
  /\ UNCHANGED <<createVars, lock, available, ticketed, cancelled, avail,
                 overdue, instance, jobStep, consumer, request, refundVars,
                 resetVars>>

\* CancelFlightInstance: no seat, ticket, counter or payment is touched.
CancelFlightInstance ==
  /\ instance # "CANCELLED"
  /\ instance' = "CANCELLED"
  /\ status' = [b \in Booking |->
                  IF status[b] \in {"CONFIRMED", "PENDING_PAYMENT"}
                    THEN "CANCELLED_BY_AIRLINE" ELSE status[b]]
  /\ UNCHANGED <<createVars, lock, available, ticketed, cancelled, avail,
                 overdue, jobStep, consumer, request, refundVars, resetVars>>
-----------------------------------------------------------------------------
(* The nightly inventory job, for this instance. *)

\* The upsert writes the full quota over both counters.
ResetCounters ==
  /\ jobStep = "idle"
  /\ jobStep' = "refresh"
  /\ avail' = Quota
  /\ soldBefore' = ticketed
  /\ returnedBefore' = cancelled
  /\ UNCHANGED <<createVars, lock, available, status, ticketed, cancelled,
                 overdue, instance, consumer, request, refundVars>>

\* The seats the job's DELETE removes.  It fails as a whole, unnoticed, when
\* an inserted passenger row refers to one of the available seats.
Deleted ==
  IF \E p \in Passenger :
       pc[BookingOf[p]] = "created" /\ seatOf[p] \in available
    THEN {} ELSE available

\* Available seats are deleted and inserted again under new ids: the locks and
\* the creations that name the old ids no longer concern a seat.
RefreshSeats ==
  LET orphaned == {p \in Passenger : /\ pc[BookingOf[p]] # "created"
                                     /\ seatOf[p] \in Deleted} IN
  /\ jobStep = "refresh"
  /\ jobStep' = "idle"
  /\ lock' = Released(Deleted)
  /\ seatOf' = [p \in Passenger |-> IF p \in orphaned THEN None ELSE seatOf[p]]
  /\ doomed' = doomed \cup {BookingOf[p] : p \in orphaned}
  /\ UNCHANGED <<pc, cur, seated, rowVars, overdue, instance, consumer,
                 request, refundVars, resetVars>>
-----------------------------------------------------------------------------
CreateBooking(b) ==
  \/ StartCreate(b)
  \/ \E p \in Passenger : SkipSeat(b, p) \/ \E s \in Seat : CheckSeat(b, p, s)
  \/ LockSeat(b) \/ InsertBooking(b)
  \/ FailCreate(b) \/ CrashCreate(b)

ConfirmBooking(c) ==
  \/ \E b \in Booking : ReceivePayment(c, b)
  \/ ConfirmCommit(c) \/ ConfirmFails(c) \/ ReleaseSeats(c)

CancelBooking(r) ==
  \/ \E b \in Booking : CancelRead(r, b)
  \/ CancelCommit(r) \/ CancelFails(r)
  \/ CallRefund(r) \/ RefundReturns(r) \/ RefundErrors(r)

Next ==
  \/ \E b \in Booking : \/ CreateBooking(b) \/ ExpiresAtPasses(b)
                        \/ PaymentRefunds(b) \/ ForceUpdateBookingStatus(b)
  \/ \E s \in Seat : LockExpires(s)
  \/ \E c \in Consumer : ConfirmBooking(c)
  \/ \E r \in Request : CancelBooking(r)
  \/ \E e \in events : ConsumeRefundEvent(e)
  \/ ExpireBookings \/ CancelFlightInstance \/ ResetCounters \/ RefreshSeats

Spec == Init /\ [][Next]_vars

\* Redis expires keys, the clock advances and robfig/cron runs the expiry job
\* for as long as the service is deployed.  Users and administrators owe
\* nothing, and no consumer is assumed to survive.
Fairness ==
  /\ \A s \in Seat : WF_vars(LockExpires(s))
  /\ \A b \in Booking : WF_vars(ExpiresAtPasses(b))
  /\ WF_vars(ExpireBookings)

FairSpec == Spec /\ Fairness
-----------------------------------------------------------------------------
RefundStatus == {"NONE", "NOT_REQUIRED", "MANUAL_REVIEW", "PENDING",
                 "COMPLETED", "FAILED"}

CreationOK ==
  /\ pc \in [Booking -> {"none", "seating", "locking", "created", "rejected"}]
  /\ cur \in [Booking -> Passenger \cup {None}]
  /\ \A b \in Booking : pc[b] = "locking" => cur[b] \in Passenger
  /\ seated \subseteq Passenger
  /\ seatOf \in [Passenger -> Seat \cup {None}]
  /\ doomed \subseteq Booking

RowsOK ==
  /\ available \subseteq Seat
  /\ status \in [Booking -> Status]
  /\ overdue \subseteq Booking
  /\ ticketed \subseteq Booking /\ soldBefore \subseteq ticketed
  /\ cancelled \subseteq Booking /\ returnedBefore \subseteq cancelled
  /\ refund \in [Booking -> RefundStatus]
  /\ avail \in Int
  /\ instance \in {"SCHEDULED", "CANCELLED"}

ConsumersOK ==
  /\ consumer \in [Consumer -> [step : {"idle", "confirm", "release"},
                                booking : Booking \cup {None}]]
  /\ \A c \in Consumer :
       consumer[c].step # "idle" => consumer[c].booking \in Booking

RequestsOK ==
  /\ request \in [Request -> [step : {"idle", "cancel", "call", "wait"},
                              booking : Booking \cup {None},
                              refund : RefundStatus]]
  /\ \A r \in Request :
       request[r].step # "idle" => request[r].booking \in Booking

OutsideOK ==
  /\ lock \in [Seat -> Booking \cup {None}]
  /\ jobStep \in {"idle", "refresh"}
  /\ refundRPC \in [Booking -> {"none", "sent", "refunded", "refund_failed"}]
  /\ refundCalls \in [Booking -> Nat]
  /\ events \subseteq [type : {"refunded", "refund_failed"}, booking : Booking]

TypeOK == CreationOK /\ RowsOK /\ ConsumersOK /\ RequestsOK /\ OutsideOK
-----------------------------------------------------------------------------
(* What must hold. *)

\* The tables as the abstract seat ledger sees them.
Ledger == INSTANCE SeatLedger WITH sold <- ticketed, returned <- cancelled

\* Confirmations and cancellations, repeated and racing as they may, move the
\* seat counter exactly once each, and only a ticketed booking is ever given
\* back: ConfirmBookingAndSeats and CreateCancellation implement the ledger.
ImplementsLedger == Ledger!LedgerSpec

\* Between two runs of the inventory job the counter is the quota less the
\* passengers ticketed and plus those cancelled, whatever statuses an
\* administrator writes: a second confirmation or cancellation changes nothing.
CounterMatchesTables == Ledger!Conserved

\* bookings.status never contradicts e_tickets and cancellations, although it
\* is written from reads that may be stale.
StatusAgrees ==
  \A b \in Booking :
    /\ status[b] \in {"NONE", "PENDING_PAYMENT", "EXPIRED"} => b \notin ticketed
    /\ status[b] = "CONFIRMED" => b \in ticketed
    /\ status[b] = "CANCELLED" <=> b \in cancelled

\* A seat marked unavailable belongs to a ticket that was not cancelled: no
\* race between confirming and cancelling bookings takes a seat off sale.
NoStrandedSeat ==
  \A s \in Seat \ available :
    \E b \in ticketed \ cancelled : s \in SeatsOf(b)

\* payment-service is asked for at most one refund per booking, and only for a
\* booking that has a ticket, hence a payment, and a cancellation.
RefundOnce ==
  \A b \in Booking :
    /\ refundCalls[b] <= 1
    /\ refundCalls[b] = 1 => b \in ticketed \cap cancelled

\* The same tables as the abstract refunds see them.
RefundBook == INSTANCE Refunds WITH
  paid <- ticketed, recorded <- cancelled, calls <- refundCalls,
  accepted <- {b \in Booking : refundRPC[b] = "refunded"},
  refused <- {b \in Booking : refundRPC[b] = "refund_failed"},
  shown <- {b \in Booking : refund[b] = "COMPLETED"}

\* Refunds are asked for once, after payment and cancellation, answered once
\* and shown only when made, one step at a time: cancellations, timeouts and
\* events implement the abstract refunds, whatever an administrator writes.
ImplementsRefunds == RefundBook!RefundsSpec

\* A cancellation is shown as refunded only when Stripe has taken the refund.
CompletedMeansRefunded ==
  \A b \in Booking : refund[b] = "COMPLETED" => refundRPC[b] = "refunded"

\* A cancelled booking is never revived, neither by a payment event read while
\* it was pending nor by the airline's or the expiry job's bulk update.
CancelledForGood ==
  [][\A b \in Booking :
       status[b] = "CANCELLED" => status'[b] = "CANCELLED"]_vars

\* Every unpaid booking leaves PENDING_PAYMENT: its locks run out, then its
\* expires_at passes, then the job finds it.
PendingEnds ==
  \A b \in Booking :
    (status[b] = "PENDING_PAYMENT") ~> (status[b] # "PENDING_PAYMENT")
-----------------------------------------------------------------------------
(* What the source says of itself and the code does not keep. *)

\* A permanently booked seat is not booked again: no two live tickets name it.
SeatSoldOnce ==
  \A x, y \in ticketed \ cancelled : x # y => SeatsOf(x) \cap SeatsOf(y) = {}

\* The counter stays reduced by every ticket that is not cancelled.
TicketsStayDeducted ==
  avail = Quota - Cardinality(Travellers(ticketed))
                + Cardinality(Travellers(cancelled))
=============================================================================
