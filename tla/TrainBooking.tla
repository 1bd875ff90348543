----------------------------- MODULE TrainBooking -----------------------------
(***************************************************************************)
(* The bookings of Train-service on one class of some train schedules.  A  *)
(* request names a schedule and seats, and nothing compares the two: the   *)
(* locks and the counter are those of the schedule it names, the rows of   *)
(* seats are those it lists.                                               *)
(* Every handler changes a booking, its seats and the counter of available *)
(* seats in one transaction, but decides what to write from what it has    *)
(* read before that transaction, or from nothing at all; the expiry worker *)
(* fetches a list first and works it off afterwards.                       *)
(***************************************************************************)
EXTENDS Integers, FiniteSets

CONSTANTS Booking,     \* booking requests, each becoming at most one row
          Schedule,    \* train_schedules
          Seat,        \* train_inventory of the class
          ScheduleOf,  \* train_inventory.train_schedule_id
          Pickable,    \* bound: the keys somebody locks by the lock endpoint
          Handler,     \* Kafka consumers, payment callbacks, cancellations
          Purchasable, \* seats an administrator may name in a purchase
          MaxAvail,    \* bound: how far failed payments may raise a counter
          None, Picked \* no owner; a seat locked by the lock endpoint

\* seatLockKey: the schedule named and the seat, whether it is on it or not.
Key == Schedule \X Seat

ASSUME TrainAssumption ==
  /\ IsFiniteSet(Booking) /\ IsFiniteSet(Seat)
  /\ ScheduleOf \in [Seat -> Schedule]
  /\ Pickable \subseteq Key
  /\ Purchasable \subseteq Seat
  /\ MaxAvail \in Nat
  /\ None \notin Booking /\ Picked \notin Booking /\ None # Picked

VARIABLES
  pc,        \* where the CreateBooking handler of each booking is
  wanted,    \* booking_seats (and, before the insert, the seat_ids asked for)
  named,     \* train_bookings.schedule_id, the train_schedule_id asked for
  held,      \* the seats that LockSeats has locked so far: its slice locked
  lock,      \* Redis seat:lock:train: who has set each key
  seat,      \* train_inventory.status
  status,    \* train_bookings.status, "NONE" before the row exists
  overdue,   \* bookings whose expires_at has passed
  confirmed, \* bookings with confirmed_at set
  ticketed,  \* booking_id column of train_tickets (unique)
  avail,     \* the class's column of available seats in train_schedules
  unread,    \* history: bookings failed without their seats being known
  cancelled, \* booking_id column of cancellations (unique)
  refund,    \* cancellations.refund_status, "NONE" before the row exists
  announced, \* history: train.booking.cancelled events published
  handler,   \* what each handler is doing
  worklist,  \* bookings the expiry worker has fetched and not reached yet
  unlocking  \* the booking whose locks the worker is about to release

createVars == <<pc, wanted, named, held>>
rowVars    == <<seat, status, confirmed, avail, unread>>
cancelVars == <<cancelled, refund, announced>>
workVars   == <<worklist, unlocking>>
vars == <<createVars, lock, rowVars, overdue, ticketed, cancelVars, handler,
          workVars>>

\* The seats of the class on a schedule.
SeatsOf(c) == {s \in Seat : ScheduleOf[s] = c}

Idle == [step |-> "idle", booking |-> None, job |-> "NONE"]

Init ==
  /\ pc = [b \in Booking |-> "new"]
  /\ wanted = [b \in Booking |-> {}]
  /\ named \in [Booking -> Schedule]
  /\ held = [b \in Booking |-> {}]
  /\ lock = [k \in Key |-> None]
  /\ seat = [s \in Seat |-> "AVAILABLE"]
  /\ status = [b \in Booking |-> "NONE"]
  /\ overdue = {} /\ confirmed = {} /\ ticketed = {} /\ cancelled = {}
  /\ unread = {}
  /\ avail = [c \in Schedule |-> Cardinality(SeatsOf(c))]
  /\ refund = [b \in Booking |-> "NONE"]
  /\ announced = [b \in Booking |-> 0]
  /\ handler = [h \in Handler |-> Idle]
  /\ worklist = {} /\ unlocking = None

\* The seats of booking b with their status written, whatever they hold.
Written(b, st) == [s \in Seat |-> IF s \in wanted[b] THEN st ELSE seat[s]]

\* UnlockSeats: one DEL that asks for no owner; its error is ignored.
Unlocked(K) == {lock, [k \in Key |-> IF k \in K THEN None ELSE lock[k]]}

\* The keys of some seats under the schedule that booking b names.
KeysOf(b, S) == {named[b]} \X S

\* The counter of that schedule moved by n.
Counted(b, n) == [avail EXCEPT ![named[b]] = @ + n]
-----------------------------------------------------------------------------
(* CreateBooking. *)

\* GetSeatsByIDs: all seats in one query by their ids, all of them available.
\* Nobody asks whether they are on the schedule the request names.
CheckSeats(b) ==
  /\ pc[b] = "new"
  /\ \E S \in SUBSET {s \in Seat : seat[s] = "AVAILABLE"} \ {{}} :
       wanted' = [wanted EXCEPT ![b] = S]
  /\ pc' = [pc EXCEPT ![b] = "locking"]
  /\ UNCHANGED <<named, held, lock, rowVars, overdue, ticketed, cancelVars,
                 handler, workVars>>

\* One turn of LockSeats.
LockSeat(b, s) ==
  /\ pc[b] = "locking"
  /\ s \in wanted[b] \ held[b]
  /\ lock[<<named[b], s>>] = None
  /\ lock' = [lock EXCEPT ![<<named[b], s>>] = b]
  /\ held' = [held EXCEPT ![b] = @ \cup {s}]
  /\ UNCHANGED <<pc, wanted, named, rowVars, overdue, ticketed, cancelVars,
                 handler, workVars>>

\* A key is taken, or Redis or the transaction fails: the locks taken so far
\* are released.  The process may also die, and release nothing.
RejectCreate(b) ==
  /\ pc[b] = "locking"
  /\ pc' = [pc EXCEPT ![b] = "rejected"]
  /\ wanted' = [wanted EXCEPT ![b] = {}]
  /\ held' = [held EXCEPT ![b] = {}]
  /\ lock' \in Unlocked(KeysOf(b, held[b]))
  /\ UNCHANGED <<named, rowVars, overdue, ticketed, cancelVars, handler, workVars>>

\* The transaction: row, seats, counter of the schedule named.
InsertBooking(b) ==
  /\ pc[b] = "locking"
  /\ held[b] = wanted[b]
  /\ pc' = [pc EXCEPT ![b] = "created"]
  /\ held' = [held EXCEPT ![b] = {}]
  /\ status' = [status EXCEPT ![b] = "PENDING_PAYMENT"]
  /\ seat' = Written(b, "PENDING_PAYMENT")
  /\ avail' = Counted(b, -Cardinality(wanted[b]))
  /\ UNCHANGED <<wanted, named, lock, overdue, confirmed, unread, ticketed, cancelVars,
                 handler, workVars>>
-----------------------------------------------------------------------------
(* The lock endpoints, time and the administrator. *)

\* POST and DELETE on a seat's lock; the deletion asks for no owner.
PickSeat(k) ==
  /\ lock[k] = None
  /\ lock' = [lock EXCEPT ![k] = Picked]
  /\ UNCHANGED <<createVars, rowVars, overdue, ticketed, cancelVars, handler,
                 workVars>>

\* That deletion, or the end of the key's ten minutes.
LockEnds(k) ==
  /\ lock[k] # None
  /\ lock' = [lock EXCEPT ![k] = None]
  /\ UNCHANGED <<createVars, rowVars, overdue, ticketed, cancelVars, handler,
                 workVars>>

\* expires_at lies fifteen minutes after the locks, whose time is ten.
ExpiresAtPasses(b) ==
  /\ pc[b] = "created"
  /\ b \notin overdue
  /\ \A k \in Key : lock[k] # b
  /\ overdue' = overdue \cup {b}
  /\ UNCHANGED <<createVars, lock, rowVars, ticketed, cancelVars, handler,
                 workVars>>

\* AdminPurchaseInventory with a seat id: available, whatever it was.
PurchaseSeat(s) ==
  /\ seat' = [seat EXCEPT ![s] = "AVAILABLE"]
  /\ UNCHANGED <<createVars, lock, status, confirmed, avail, unread, overdue,
                 ticketed, cancelVars, handler, workVars>>
-----------------------------------------------------------------------------
(* Payments, failures and cancellations: read, commit, unlock, and a last    *)
(* step for those that have one.                                             *)

Goto(h, step) == handler' = [handler EXCEPT ![h].step = step]

\* The jobs a handler may take on, by the status it reads: the callback and
\* the failure read none.
Jobs(b) ==
  {"CALLBACK", "FAILURE"}
    \cup (IF status[b] = "PENDING_PAYMENT" THEN {"EVENT", "CANCEL_UNPAID"} ELSE {})
    \cup (IF status[b] = "CONFIRMED" THEN {"CANCEL_PAID"} ELSE {})

ReadBooking(h, b) ==
  /\ handler[h] = Idle
  /\ pc[b] = "created"
  /\ \E job \in Jobs(b) :
       handler' = [handler EXCEPT ![h] =
         [step |-> "commit", booking |-> b, job |-> job]]
  /\ UNCHANGED <<createVars, lock, rowVars, overdue, ticketed, cancelVars,
                 workVars>>

\* ConfirmBooking and MarkSeatsBooked, of the consumer and of the callback.  The
\* callback discards the error of GetSeatIDsByBooking and may write no seat.
ConfirmCommit(h) ==
  LET b == handler[h].booking IN
  /\ handler[h].step = "commit"
  /\ handler[h].job \in {"EVENT", "CALLBACK"}
  /\ status' = [status EXCEPT ![b] = "CONFIRMED"]
  /\ confirmed' = confirmed \cup {b}
  /\ \/ seat' = Written(b, "BOOKED")
     \/ handler[h].job = "CALLBACK" /\ seat' = seat
  /\ Goto(h, "unlock")
  /\ UNCHANGED <<createVars, lock, avail, unread, overdue, ticketed, cancelVars,
                 workVars>>

\* Mutated forms: the seats stay as they are, or the counter does.
KeepSeats(b) == seat' = seat /\ avail' = Counted(b, Cardinality(wanted[b]))
KeepCounter(b) == seat' = Written(b, "AVAILABLE") /\ avail' = avail

\* UpdateSeatStatuses and IncrementAvailability, of the schedule named.
ReturnSeats(b) ==
  /\ seat' = Written(b, "AVAILABLE")
  /\ avail' = Counted(b, Cardinality(wanted[b]))

\* handlePaymentFailed and the FAILED branch of the callback.  Events and
\* callbacks may repeat: MaxAvail bounds the repeats.
FailCommit(h) ==
  LET b == handler[h].booking IN
  /\ handler[h].step = "commit"
  /\ handler[h].job = "FAILURE"
  /\ avail[named[b]] + Cardinality(wanted[b]) <= MaxAvail
  /\ status' = [status EXCEPT ![b] = "FAILED"]
  /\ ReturnSeats(b)
  /\ Goto(h, "unlock")
  /\ UNCHANGED <<createVars, lock, confirmed, unread, overdue, ticketed,
                 cancelVars, workVars>>

\* The same when GetSeatIDsByBooking has failed: its error is discarded too, so
\* the booking fails and its seats stay where they are.
FailUnread(h) ==
  LET b == handler[h].booking IN
  /\ handler[h].step = "commit"
  /\ handler[h].job = "FAILURE"
  /\ status' = [status EXCEPT ![b] = "FAILED"]
  /\ unread' = unread \cup {b}
  /\ handler' = [handler EXCEPT ![h] = Idle]
  /\ UNCHANGED <<createVars, lock, seat, confirmed, avail, overdue, ticketed,
                 cancelVars, workVars>>

\* The result of that transaction is not looked at.
FailRollsBack(h) ==
  /\ handler[h].step = "commit"
  /\ handler[h].job = "FAILURE"
  /\ Goto(h, "unlock")
  /\ UNCHANGED <<createVars, lock, rowVars, overdue, ticketed, cancelVars,
                 workVars>>

\* Mutated form: cancellations.booking_id without its unique index.
AnyCancellation(b) == TRUE

\* The unique index on cancellations.booking_id lets the transaction through.
CancellationUnique(b) == b \notin cancelled

\* The transaction of CancelBookingByUser.
CancelCommit(h) ==
  LET b == handler[h].booking IN
  /\ handler[h].step = "commit"
  /\ handler[h].job \in {"CANCEL_UNPAID", "CANCEL_PAID"}
  /\ CancellationUnique(b)
  /\ status' = [status EXCEPT ![b] = "CANCELLED"]
  /\ ReturnSeats(b)
  /\ cancelled' = cancelled \cup {b}
  /\ refund' = [refund EXCEPT ![b] = "PENDING"]
  /\ Goto(h, "unlock")
  /\ UNCHANGED <<createVars, lock, confirmed, unread, overdue, ticketed,
                 announced, workVars>>

\* What comes after the locks: the callback issues a ticket, the consumer of
\* the same event does not; the cancellation of a paid booking is announced.
UnlockSeats(h) ==
  /\ handler[h].step = "unlock"
  /\ LET b == handler[h].booking IN lock' \in Unlocked(KeysOf(b, wanted[b]))
  /\ CASE handler[h].job = "CALLBACK"    -> Goto(h, "ticket")
       [] handler[h].job = "CANCEL_PAID" -> Goto(h, "publish")
       [] OTHER -> handler' = [handler EXCEPT ![h] = Idle]
  /\ UNCHANGED <<createVars, rowVars, overdue, ticketed, cancelVars, workVars>>

\* A duplicate ticket or another error is only logged.
IssueTicket(h) ==
  /\ handler[h].step = "ticket"
  /\ ticketed' \in {ticketed, ticketed \cup {handler[h].booking}}
  /\ handler' = [handler EXCEPT ![h] = Idle]
  /\ UNCHANGED <<createVars, lock, rowVars, overdue, cancelVars, workVars>>

\* PublishBookingCancelled; a failure is only logged.
PublishCancelled(h) ==
  LET b == handler[h].booking IN
  /\ handler[h].step = "publish"
  /\ announced' \in {announced, [announced EXCEPT ![b] = @ + 1]}
  /\ handler' = [handler EXCEPT ![h] = Idle]
  /\ UNCHANGED <<createVars, lock, rowVars, overdue, ticketed, cancelled,
                 refund, workVars>>

\* An error return, or the process dies: the message was committed when read.
HandlerFails(h) ==
  /\ handler[h] # Idle
  /\ handler' = [handler EXCEPT ![h] = Idle]
  /\ UNCHANGED <<createVars, lock, rowVars, overdue, ticketed, cancelVars,
                 workVars>>

\* Mutated form: the status word of bus-service.
BusRefunded == "SUCCESS"
Refunded == "COMPLETED"

\* handlePaymentRefunded, once somebody has refunded what was announced.
PaymentRefunded(b) ==
  /\ announced[b] > 0
  /\ refund' = [refund EXCEPT ![b] = IF b \in cancelled THEN Refunded ELSE @]
  /\ UNCHANGED <<createVars, lock, rowVars, overdue, ticketed, cancelled,
                 announced, handler, workVars>>
-----------------------------------------------------------------------------
(* The expiry worker. *)

\* Mutated form: expires_at > now.
NotYetStale == {b \in Booking \ overdue : status[b] = "PENDING_PAYMENT"}

\* GetExpiredPendingBookings.
Stale == {b \in overdue : status[b] = "PENDING_PAYMENT"}

FetchExpired ==
  /\ worklist = {} /\ unlocking = None
  /\ Stale # {}
  /\ worklist' = Stale
  /\ UNCHANGED <<createVars, lock, rowVars, overdue, ticketed, cancelVars,
                 handler, unlocking>>

\* The transaction for one booking of the list, whatever its row holds by now.
ExpireCommit(b) ==
  /\ b \in worklist /\ unlocking = None
  /\ status' = [status EXCEPT ![b] = "EXPIRED"]
  /\ ReturnSeats(b)
  /\ worklist' = worklist \ {b}
  /\ unlocking' = b
  /\ UNCHANGED <<createVars, lock, confirmed, unread, overdue, ticketed,
                 cancelVars, handler>>

ExpireUnlock ==
  /\ unlocking # None
  /\ lock' \in Unlocked(KeysOf(unlocking, wanted[unlocking]))
  /\ unlocking' = None
  /\ UNCHANGED <<createVars, rowVars, overdue, ticketed, cancelVars, handler,
                 worklist>>

\* The transaction fails and the worker goes on to the next booking.
ExpireSkips(b) ==
  /\ b \in worklist /\ unlocking = None
  /\ worklist' = worklist \ {b}
  /\ UNCHANGED <<createVars, lock, rowVars, overdue, ticketed, cancelVars,
                 handler, unlocking>>

\* The process restarts: the list is gone.
WorkerRestarts ==
  /\ worklist # {} \/ unlocking # None
  /\ worklist' = {} /\ unlocking' = None
  /\ UNCHANGED <<createVars, lock, rowVars, overdue, ticketed, cancelVars,
                 handler>>
-----------------------------------------------------------------------------
CreateBooking(b) ==
  \/ CheckSeats(b) \/ RejectCreate(b) \/ InsertBooking(b)
  \/ \E s \in Seat : LockSeat(b, s)

Handle(h) ==
  \/ \E b \in Booking : ReadBooking(h, b)
  \/ ConfirmCommit(h) \/ CancelCommit(h)
  \/ FailCommit(h) \/ FailUnread(h) \/ FailRollsBack(h)
  \/ UnlockSeats(h) \/ IssueTicket(h) \/ PublishCancelled(h) \/ HandlerFails(h)

Expire ==
  \/ FetchExpired \/ ExpireUnlock \/ WorkerRestarts
  \/ \E b \in Booking : ExpireCommit(b) \/ ExpireSkips(b)

Next ==
  \/ \E b \in Booking :
       CreateBooking(b) \/ ExpiresAtPasses(b) \/ PaymentRefunded(b)
  \/ \E k \in Pickable : PickSeat(k)
  \/ \E k \in Key : LockEnds(k)
  \/ \E s \in Purchasable : PurchaseSeat(s)
  \/ \E h \in Handler : Handle(h)
  \/ Expire

Spec == Init /\ [][Next]_vars

\* Redis expires keys, the clock advances, the worker's ticker runs while the
\* service is up, and its transactions do not fail every single time.
Fairness ==
  /\ \A k \in Key : WF_vars(LockEnds(k))
  /\ \A b \in Booking : WF_vars(ExpiresAtPasses(b)) /\ SF_vars(ExpireCommit(b))
  /\ WF_vars(FetchExpired \/ ExpireUnlock)

FairSpec == Spec /\ Fairness
-----------------------------------------------------------------------------
Live(b) == status[b] \in {"PENDING_PAYMENT", "CONFIRMED"}

Jobnames == {"NONE", "EVENT", "CALLBACK", "FAILURE", "CANCEL_UNPAID", "CANCEL_PAID"}

CreationOK ==
  /\ pc \in [Booking -> {"new", "locking", "created", "rejected"}]
  /\ wanted \in [Booking -> SUBSET Seat]
  /\ named \in [Booking -> Schedule]
  /\ held \in [Booking -> SUBSET Seat]
  /\ lock \in [Key -> Booking \cup {None, Picked}]

RowsOK ==
  /\ seat \in [Seat -> {"AVAILABLE", "PENDING_PAYMENT", "BOOKED"}]
  /\ status \in [Booking -> {"NONE", "PENDING_PAYMENT", "CONFIRMED", "FAILED",
                             "EXPIRED", "CANCELLED"}]
  /\ overdue \subseteq Booking /\ confirmed \subseteq Booking
  /\ ticketed \subseteq Booking /\ cancelled \subseteq Booking
  /\ unread \subseteq Booking
  /\ avail \in [Schedule -> Int]
  /\ refund \in [Booking -> {"NONE", "PENDING", "COMPLETED"}]
  /\ announced \in [Booking -> Nat]

HandlersOK ==
  /\ handler \in [Handler -> [step : {"idle", "commit", "unlock", "ticket", "publish"},
                              booking : Booking \cup {None}, job : Jobnames]]
  /\ \A h \in Handler : handler[h].step # "idle" => handler[h].booking \in Booking
  /\ worklist \subseteq Booking
  /\ unlocking \in Booking \cup {None}

TypeOK == CreationOK /\ RowsOK /\ HandlersOK
-----------------------------------------------------------------------------
\* The bookings that account for their seats: those alive, and those that a
\* failure left without knowing their seats.
Holds(b) == Live(b) \/ b \in unread

\* Whatever late or repeated writes do to bookings and seats, a seat that is
\* not available belongs to a booking that is still alive, or to one that failed
\* when booking_seats could not be read: no other order of writes leaves a seat
\* that somebody must put back by hand.
NoStrandedSeat ==
  \A s \in Seat :
    seat[s] # "AVAILABLE" => \E b \in Booking : Holds(b) /\ s \in wanted[b]

\* The seats that such bookings have taken from the counter of a schedule: those
\* they list, whichever schedule the seats are on.
Claims(c) ==
  {k \in Booking \X Seat : named[k[1]] = c /\ Holds(k[1]) /\ k[2] \in wanted[k[1]]}

\* What a booking takes from the counter of the schedule it names comes back to
\* that counter when the booking ends, whatever is repeated or comes late: only
\* bookings that are alive, or failed without their seats being read, keep it
\* below the seats of the schedule.
CounterComesBack ==
  \A c \in Schedule : avail[c] + Cardinality(Claims(c)) >= Cardinality(SeatsOf(c))

\* A refund is announced at most once, for a booking that was confirmed and
\* whose cancellation is recorded, although two cancellations may read the
\* same CONFIRMED and a payment may confirm the booking again in between.
RefundAnnouncedOnce ==
  \A b \in Booking :
    /\ announced[b] <= 1
    /\ announced[b] = 1 => b \in confirmed \cap cancelled

\* The tables as the abstract refunds see them: the event asks for the refund,
\* and the service hears of no refusal.
RefundBook == INSTANCE Refunds WITH
  paid <- confirmed, recorded <- cancelled, calls <- announced,
  accepted <- {b \in Booking : refund[b] = "COMPLETED"},
  refused <- {},
  shown <- {b \in Booking : refund[b] = "COMPLETED"}

\* Refunds are announced once, after payment and cancellation, and shown only
\* when somebody made what was announced, although two cancellations may read
\* the same CONFIRMED and a payment may confirm the booking again in between.
ImplementsRefunds == RefundBook!RefundsSpec

\* Every unpaid booking leaves PENDING_PAYMENT.
PendingEnds ==
  \A b \in Booking :
    (status[b] = "PENDING_PAYMENT") ~> (status[b] # "PENDING_PAYMENT")
-----------------------------------------------------------------------------
(* What the source says of itself and the code does not keep. *)

\* The worker expires bookings that are PENDING_PAYMENT.
ExpiresOnlyPending ==
  [][\A b \in Booking : ExpireCommit(b) => status[b] = "PENDING_PAYMENT"]_vars
=============================================================================
