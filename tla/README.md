# Tripneo: a verification project

TripNeo sells seats on flights, buses and trains. It is eight Go services (and
one Python one) around PostgreSQL, Redis and Kafka, with Stripe behind a payment
service. This directory holds TLA+ models of the parts of it that keep shared
state, TLC configurations that check them on small instances, and TLAPS proofs of
what matters most for every instance. `PROJECT.json` lists the components, the
runs, the lines of code behind every definition, the hazards and the theorems.

    tlc -workers 2 -config FlightRaces.cfg MCFlightBooking   # one run
    tlapm FlightBookingProofs.tla                            # the proofs

## 1. Inventory

| part | state | operations | hard behaviour |
|---|---|---|---|
| flight-service, bookings | tables `bookings`, `passengers`, `seats`, `e_tickets`, `cancellations`, counters of `flight_instances`; Redis `seat_lock:<seat>` | create, pay, confirm, cancel; consumers of payment and refund events; expiry cron | reads before writes in other transactions, locks with a ten-minute life, repeated and lost events, crashes between steps |
| flight-service, inventory job | the same counters and seats | nightly and start-up upsert and seat refresh | runs over instances with live bookings |
| flight-service, administration | the same rows | status override, cancellation of an instance | interferes with everything above |
| flight-, bus-, chat-service, websockets | map user -> connection; in chat also rows of messages | connect, end, push, save, delete | a reconnect races the end of the old connection; pushes leave the lock before they write |
| payment-service | none of its own; Stripe holds it | CreateOrder, CreateRefund, webhook, two topics | publish failures are only logged; calls time out while Stripe succeeds; consumers commit before they handle |
| bus-service, bookings | as flight, plus `operator_inventory`, `prebooking_accounting` | create, pay, confirm, cancel, administrator's cancel, expiry | confirmation and cancellation are sequences of separate transactions |
| bus-service, accounts | `prebooking_accounting` | the job that closes accounts | day and quarter boundaries, overlapping runs |
| bus-service, inventory and seeding | instances with seats, fares, availability, route points, accounts | nightly and start-up generator, seeders, deletion | the generator, the seeder, a deletion and a restart meet on one date |
| bus-service, pricing | fares, current prices, rules | pricing job, rule updates | overlapping runs with different rules, written row by row |
| Train-service, bookings | `train_bookings`, seat rows with a status, availability counters, Redis locks | create, callback, consumers, expiry worker, cancel | handlers write statuses without reading them again |
| Train-service, inventory | schedules and berths | nightly and administrator's generation | two generations of one day at once |
| Train-service, pricing and search | berth prices, rules; search cache in Redis | pricing engine, searches | passes and cached results that were read long before they are written |
| auth-service | users; one-time codes and cool-downs in Redis; tokens | register, resend, verify, login, assign role | steps on two stores and a mail without a transaction; roles that are taken away while tokens live |
| api-gateway | Redis rate counters | token check, limits by address and by user | INCR and EXPIRE are two commands |
| chat-service, bot | sessions in memory | webhook | webhooks of one phone run at once on one session |
| flight and bus searches, fares, tracking; train tickets; qr-service; infrastructure | none, or read only | | |

The services call each other over HTTP through the gateway, over gRPC
(bookings -> payment) and over Kafka (payment -> bookings). Every booking service
owns its database; the seat lock lives in Redis and is deleted by whoever
confirms or fails.

What makes each part correct: the bookings must sell a seat to one live ticket,
move the counters once per ticket and once per cancellation, never revive a
cancelled booking, refund once, and end every unpaid booking; a payment must reach
the booking it pays for and confirm no other; what a search can find must be whole,
cost what it says, and not stay stale; accounts are closed in time and never early;
an account is verified by its own code and can always be; a role that was taken away
runs out; rate limits must let a client back in; a connection that replies are pushed to
must have a handler; the bot must send no link that lacks a field.

## 2. Modules

| module | what it is |
|---|---|
| `SeatLedger` | abstract specification: the counter of one departure is moved once by a ticket and once by a cancellation |
| `Refunds` | abstract specification: the money of a booking is asked back once, after payment and recorded cancellation, goes back or not once, and is shown as gone back only when it has |
| `FlightBooking` | the booking core of flight-service for one flight instance; implements `SeatLedger` and `Refunds` |
| `BusBooking` | the booking core of bus-service for one bus instance, statement by statement; implements `Refunds` |
| `TrainBooking` | the booking core of Train-service for one class of some schedules; implements `Refunds` |
| `MCFlightBooking`, `MCBusBooking`, `MCTrainBooking` | small instances of these for TLC |
| `Payments` | the way of a payment from the booking service to Stripe and back through webhook, topic and consumer |
| `AuthService` | registration, one-time codes and verification |
| `Sessions` | roles, the tokens that carry them, and the gateway that believes the tokens |
| `ApiGateway` | chains of middleware and the two rate limiters |
| `ChatSockets` | the socket managers of three services and the messages of chat-service |
| `ChatBot` | the WhatsApp bot's conversation under concurrent webhooks |
| `MCFrontEnd` | small instances of the six modules above |
| `BusLayouts` | pure: the seats of a bus as the generator and the seeder draw them, and how many are for sale |
| `BusInventory` | generator, seeder, deletions and bookings of the departures of one bus |
| `BusPricing` | overlapping runs of the bus pricing job |
| `BusAccounting` | the job that closes the prebooking account of a departed bus, with its failures and restarts, against the bookings that still move it |
| `TrainInventory` | generator and seeder of the schedules of one train, and what bookings do to their counters |
| `TrainPricing` | the train pricing engine, and searches with their cache |
| `MCBackOffice` | small instances of these and of `SeatLedger` |
| `SeatLedgerProofs`, `FlightBookingProofs`, `BusBookingProofs`, `BusAccountingProofs`, `TrainBookingProofs`, `FrontEndProofs`, `BackOfficeProofs`, `BackOfficeTypes` | the theorems |

`MCFrontEnd` and `MCBackOffice` put modules side by side that share no state. Which
of them a behaviour belongs to is chosen at the start (`part`) and never changes, so
the state space is the sum of theirs and not the product; the invariants of the
others hold trivially in their initial states, and their fairness asks for nothing
there.

### Refunds and the three booking modules

No code of its own: `Refunds` states what a traveller is promised about money, once for
three services that keep it in different tables. Each of them maps it (`RefundBook`):

| `Refunds` | flight | bus | train |
|---|---|---|---|
| `paid` | a ticket is issued | a payment reference is stored | confirmed by a payment |
| `recorded` | row in `cancellations` | the same, with an amount due | row in `cancellations` |
| `calls` | calls of CreateRefund | calls of CreateRefund | announcements on `train.booking.cancelled` |
| `accepted`, `refused` | what payment-service did | what payment-service did | told by an event alone; nothing tells of a refusal |
| `shown` | `refund_status` COMPLETED | SUCCESS, where an amount is due | COMPLETED |

`Accept` may show what it accepts in the same step, because Train-service hears of a
refund by the event alone; `Hide` is the late timeout of a call whose refund was made
and reported (`RefundErrors` writes over what the event wrote). Nothing is promised of
when money goes back: a crash between commit and call loses a refund in all three.

### FlightBooking and the code

One transaction or one Redis command is one action; what a handler has read and
will still use is its local state (`cur`, `seatOf` before the insert,
`consumer[c]`, `request[r]`).

* **Creating** (`services/booking_service.go` `CreateBooking`). `CheckSeat` is
  `GetSeatByID` with the test of `is_available`; `LockSeat` is SETNX; the loop may
  take the passengers in any order and skip any of them (infants, no seat chosen).
  `FailCreate` is any early return with its deferred release of the locks taken so
  far, `CrashCreate` the same without it. `InsertBooking` ends the handler; the
  call to payment-service after it changes nothing here.
* **Time.** `LockExpires` may happen whenever a key exists. `ExpiresAtPasses`
  comes after the booking's own keys are gone, because `expires_at` is computed,
  ten minutes ahead, after the last SETNX with the same ten minutes.
* **Confirming** (`ProcessPaymentEvent`, `ConfirmBooking`,
  `ConfirmBookingAndSeats`). `ReceivePayment` is the last read of the row;
  `ConfirmCommit` the transaction, which saves the whole row read before;
  `ReleaseSeats` the deletion of the locks. Consumers overlap during a rolling
  update or a rebalance, and events repeat because users may pay several intents
  and Stripe repeats webhooks. `ConfirmFails` is a rollback or a crash: the message
  was committed when it was read (`kafka/consumer.go`), so it is gone.
* **Cancelling** (`CancelBooking`, `CreateCancellation`). `CancelRead`,
  `CancelCommit`, then `CallRefund` when the plan is PENDING; the call returns
  (`RefundReturns`), or errs or times out while payment-service goes on
  (`RefundErrors`); outcomes arrive as events, or are lost.
* **The unique indexes** on `e_tickets.booking_id` and `cancellations.booking_id`
  are the guards `TicketUnique` and `CancellationUnique`: the code has no other
  protection against a second confirmation or cancellation, and the mutants that
  remove them break five of the properties.
* **Jobs and administrators.** `ExpireBookings` is one UPDATE;
  `ResetCounters`/`RefreshSeats` are the inventory job's upsert and its seat
  refresh for this instance (the delete fails as a whole, unnoticed, when a
  passenger row refers to an available seat); `ForceUpdateBookingStatus` writes any
  status of `Overrides`; `CancelFlightInstance` is one transaction.

Two things are history, not state of the program: `refundCalls`, and
`soldBefore`/`returnedBefore`, which remember what the counter has forgotten.

### BusBooking and the code

bus-service looks like flight-service and is built differently: a confirmation and
a cancellation are sequences of separate statements, without a transaction around
them, and a handler never reads again what it has read at its start. So
`handler[h]` is a program counter (`step`), the booking and what was decided from
the row (`plan`); each statement is an action, and `HandlerFails` may follow any of
them.

* **Creating** (`CreateBooking`, `redis/seat_lock.go`). All seats are read
  (`CheckSeat`, `NoSeat`), then all are locked (`LockSeat`), then the rows are
  inserted. A lock carries its user; `UnlockSeatsByOwner` is the Lua script that
  deletes a key only for that user.
* **Confirming** (`ConfirmBooking`, from the Kafka consumer with a payment
  reference or from the endpoint without). `ConfirmRead`, then `ConfirmStatus`,
  `TakeSeats`, `UnlockTaken`, `DecrementInventory`, `AddProfit`, `SaveETicket`; the
  last three ignore or log their errors. A booking read past its `expires_at` goes
  to `ExpireStatus` instead.
* **Cancelling** (`CancelBooking` of the user and of the administrator, which are
  the same statements). `CancelRead`, `FreeSeats`, `UnlockFreed`,
  `IncrementInventory`, `SubtractProfit`, `CreateCancellation`, `CallRefund`, its
  answer, `CancelStatus`. The unique index on `cancellations.booking_id` comes
  after the first four of them: two cancellations of one booking both free the
  seats and both subtract the profit, and only one asks for a refund.
* **Inventory.** `Moved` is the counter's update through `availableColumn`, which
  knows upper-case seat types only; every seat type that is stored is lower-case.

An administrator can delete an instance only while no booking refers to it
(foreign keys), so the deletion is not an action.

### TrainBooking and the code

Train-service writes a booking, its seats and the counter of available seats in one
transaction everywhere, but no transaction looks at what it overwrites. A handler
reads the booking (`ReadBooking`), commits, releases the locks and may do one more
thing; `Jobs` says which handlers ask for a status when they read, and which ask for
none.

* **Creating** (`service/booking_service.go` `CreateBooking`). `CheckSeats` is one
  query for all seats; `LockSeat` one turn of `LockSeats`; `RejectCreate` every
  return that releases the locks taken so far, or the end of the process, which
  releases none; `InsertBooking` the transaction. Nothing compares the seats of a
  request with the schedule it names (`named`): seats are rows taken by their ids, the
  lock and the counter are those of `named`, so a booking may take a seat of one train
  off sale and lower the counter of another.
* **The lock endpoints** (`handlers/extra_handler.go` `LockSeat`, `UnlockSeat`).
  `PickSeat` sets the same key as a creation, so a seat picked through the endpoint
  cannot be booked before the key ends, not even by its own user; the deletion asks
  for no owner (`LockEnds`).
* **Payment.** `EVENT` is the Kafka consumer's `handlePaymentCompleted`, which asks
  for PENDING_PAYMENT; `CALLBACK` is `PaymentCallback`, which asks for nothing and is
  the only one that issues a ticket. `FAILURE` is both failed branches, which ask for
  nothing either and look at no result (`FailRollsBack`); the callback and both
  failures also discard the error of `GetSeatIDsByBooking` (`FailUnread`, and a
  choice in `ConfirmCommit`). What tells these bookings apart afterwards is the
  history variable `unread`.
* **Cancelling.** `CancelCommit` is the transaction with the unique index on
  `cancellations.booking_id`; only the cancellation of a paid booking is announced
  (`PublishCancelled`), and the announcement may be lost.
* **The expiry worker** (`service/expiry_worker.go`). `FetchExpired` reads a list,
  `ExpireCommit` and `ExpireUnlock` work it off booking by booking, without reading
  again; a transaction may fail (`ExpireSkips`) and the process restart.

payment-service publishes no events for trains at this commit and nobody consumes
`train.booking.cancelled`: payment events, callbacks and `PaymentRefunded` are
modelled as the consumers in Train-service expect them, from an environment that may
send them at any time and any number of times.

### Payments and the code

`InitiatePayment` is the booking service's call of CreateOrder, which makes a new
PaymentIntent each time (`CreateOrder`; the secret may come after the caller's five
seconds). `Pay` is the traveller, at any time, also after the booking has ended.
`HandleStripeWebhook` handles both types of event, selects the topic by the domain in
the metadata (`TopicOf`) and answers 200 whatever `Publish` did; Stripe delivers again
until it has had the answer. `ReadMessage` commits the offset and returns the event
(`kafka-go`), so a consumer that stops afterwards has lost it (`lost`, with the events
that could not be written); an error of ReadMessage leaves the loop for good
(`LoopEnds`), while the process goes on, and only a start of the process
(`ServiceStarts`) begins it again. `ProcessPaymentEvent` confirms a pending booking and
skips any other: of two paid intents of one booking one is never given back
(`payment_service.go:45` offers refunds, and nobody calls for this one). It reads
(`FindPending`) and writes (`ConfirmPaid`) apart, and so does the confirm endpoint of
bus-service, by which a traveller confirms a pending booking without any payment
(`ConfirmByHand`, `ConfirmUnpaid`); an administrator of flight-service writes any
status (`ForceUpdateBookingStatus`). `byHand` is history: bookings that either has
written. Train events are left out, since payment-service publishes none.

### AuthService and Sessions and the code

A request of `AuthService` is a program counter (`visit`). `CreateUser` inserts the row,
and `StoreOtp`, `StoreCooldown` and `SendEmail` follow; `ResendOtp` asks for a known and
unverified address without a cool-down and takes the same three steps.
`RequestFails` may come before any of them and undoes nothing. `CheckOtp` compares
(`ValidateOtpInRedis`), `UpdateUserVerified` writes; the code is not used up. The keys
end by `OtpExpires` and `CooldownExpires`; a code outlives the request that stored it.
`stored` and `entered` are history: codes ever stored for an address, and the one that
verified it.

In `Sessions`, `LoginReads` reads the row and `GenerateToken` signs the role that was
read; `GatewayAdmits` passes a request on with the token's role and `ServiceAnswers`
ends it; `AssignRole` is the superadmin's update of the row. `heldUntil` is history.
Logging out deletes a cookie and nothing on the server (`Logout`).

### ApiGateway and the code

A request is the rest of its chain (`passing[p].chain`), and `Register` lists the
chains of the route files. `Incr` and `Expire` are the two commands of a limiter;
`ExpireLost` is an EXPIRE that failed, which nobody looks at, or a gateway that stopped
before it. Such a key never ends (`unexpiring`), and its client is refused for ever
once it has used up its count.

### ChatSockets and ChatBot and the code

`clients` is the managers' map. `Connect` overwrites, `HandlerEnds` removes and closes
whatever the map has for the user by then, as `RemoveConnection`/`RemoveClient` do.
`AdminReply` saves a row and takes the connection out of the map under the lock;
`Write` is the goroutine that writes to it later, and fails without notice if the
connection has. `LoadPage` reads the conversation from the table.

A call of `ChatBot` reads the step, fills in a field, sends a message and then writes
the next step (`TakeAnswer`, `WriteStep`). Nothing locks the session: `torn` is a step
that two calls wrote at once, word by word, which matches no case (`NoCase`) until
somebody cancels.

### BusAccounting and the code

`FinalizePrebookingAccounting` (`jobs/accounting_job.go`) fetches the rows of
departed instances (`Fetch`, by cron in `CronRun` and once by the start of the
service in `BootRun`) and then writes one row after the other (`Finalize`) from
what was fetched, while bookings go on (`AddProfit`, `SubtractProfit`). A query that
fails ends the run (`FetchFails`), an update that fails is passed over (the second
disjunct of `Finalize`), and a process that stops (`ServiceStops`) takes the run and the
rest of its loop with it; while it is down, cron starts nothing (`Tick`). Whatever that
leaves undone is `missed`, which is history, until a later run fetches it again. The clock
counts fractions of the job's quarter of an hour (`Period`), and `Day` such fractions
make a day, so a departure may lie between two runs or on midnight.

### BusInventory, BusLayouts and the code

`gen[r]` is how far a run of `GenerateUpcomingInventory` has come and what its open
transaction holds (`row`). `CheckExisting` is the query before the transaction;
`InsertInstance` waits for and loses to another transaction on the same date, through
the unique index; `PickTemplate`, `CloneBoarding` and `CloneDropping` are the three reads of
the route cloning in `generateForDate` (331-390), between which the template may be deleted; `RollBack` is any
statement that fails, those whose error is dropped included, because Postgres then
refuses the commit. `SeedAll` is the seeder's one transaction at the start of the
service, before the job. `DeleteBusInstance` succeeds only while neither an account
nor a booking refers to the instance. `BookInstance` is the first booking of an
instance, `ConfirmSeat` and `CancelSeat` take a seat off sale and put it back, and none
of them moves the counter (see `Moved` in BusBooking). A route that the seeder has added points to, or that was copied
while its template was being deleted, is `marred`, and so are its copies.

`BusLayouts` translates the generator's arithmetic (`BuildSeats`) and the seeder's
loops (`ComputationallyMapSeats`) apart from each other, and both lists of prebooked
seats; `LayoutsAgree`, a part of `SearchableIsWhole`, compares them for all three kinds
of bus, so that it does not matter that the instance has buses of two kinds only.

What these modules leave out, or take as it is: the types and positions of berths differ between the
generator and the seeder (no reader tells them apart by it); the generator ignores
the layout of bus types that an administrator made (`inventory_job.go:395`); the origin and
destination of a bus may be changed by `UpdateBus` and stay what they are here; a
seeded instance that was deleted is generated again the next night, and a generated
one can never be deleted, because its account refers to it, although
`admin_repo.go:238` speaks of deleting what refers to an instance first.

### BusPricing, TrainInventory, TrainPricing and the code

A run of the bus pricing job reads rules, then instances, then seats and time of one
instance, and writes its fares and its current price in one transaction
(`FetchRules`, `FetchInstances`, `ApplyRules`, `UpdateFares`, `UpdateInstance`,
`CommitPrices`). The first `UPDATE` locks the fares until the commit, which is what
keeps two runs apart. `SeedFares` is a restart with the seeder on: it writes the
prices of the files over the fares and not over the instances, until the next run
(`reseeded`).

`TrainInventory` has the same shape with one transaction for a schedule and its
berths (`CreateSchedule`, `CreateBerths`, `CommitSchedule`) and the unique index on
train and date (`InsertIsUnique`). `MoveCounter` is what bookings and their ends do to
the counter of a class, up or down and without a look at what is left; `moved` adds up
by how much. The engine of `TrainPricing` reads rules and berths
(`FetchPriceRules`, `FetchBerths`) and writes each price on its own (`WritePrice`).
Its DEMAND rules never fire: only AVAILABLE rows are fetched
(`pricing_service.go:55`), and the share of sold ones among them is nought
(`SoldIn`). A search reads the tables and caches later what it has read
(`SearchTrains`, `CacheResult`), over what a later search may have found. A berth that is
sold may leave the counter of its own schedule alone (`BerthSold`), and the counter may
move without a berth (`CounterMoves`): see `named` in TrainBooking.

## 3. Runs

| run | question | instance |
|---|---|---|
| `flight_races` | do statuses, tables and counters agree under every race of confirmations and cancellations; is a seat ever off sale for nobody; do the tables implement the ledger? | 1 booking of 2 passengers, 2 seats, 2 consumers, 2 requests |
| `flight_overrides` | is the counter safe from statuses written by hand; do cancellations, calls, timeouts and events implement `Refunds`; does every pending booking end? | 1 booking of 2 passengers, 2 consumers, 2 requests, overrides to PENDING_PAYMENT and CONFIRMED |
| `bus_races` | do two handlers on one booking implement `Refunds` and record truthfully, wherever they stop; does the booking end? | 1 booking, 1 seat, 2 handlers |
| `bus_seats` | with handlers one at a time, is a seat ever stranded, a fare invented, another user's lock deleted? | 2 bookings of 2 users, 1 seat, 1 handler |
| `train_races` | do late, repeated and overlapping writes strand a seat, or keep for good what they took from a counter; do they implement `Refunds`; does the booking end? | 1 booking of 1 or 2 seats, 2 schedules with 1 seat each, 2 handlers, 1 seat an administrator may buy, 1 key the lock endpoint sets (`Pickable`), `MaxAvail` = 2 |
| `front_end` | accounts: is anybody verified with another's code, does everybody get verified? | 2 addresses, one of a superadmin, 2 codes, 2 requests, `MaxFaults` = 3 |
| | sessions: how long does a lost role open doors? | 1 member, `SessionTTL` = `Slow` = 1, `Midnight` = 4 |
| | gateway: is a client let in again? | 1 address, 1 user, 2 requests at once, limits of 1 |
| | sockets: is the map served? | 3 connections of 2 users, 1 message, 1 reply |
| | bot: does a link lack a field? | 3 webhooks at once |
| | payments: is a booking confirmed unpaid but by hand; is a payment heard of? | 1 booking of flight- or bus-service, 2 intents |
| `back_office` | ledger: does the abstract counter keep its type? | 3 bookings, 4 passengers |
| | accounts: closed after departure, and always unless the last run of the day missed them? | departures at noon (between two runs) and at midnight sharp, cron's and start-up run, `Period` 2, `Day` 4, `Horizon` 7 |
| | departures: is what a search finds whole but for what was sold; does its route run forward? | 2 dates, one seeded, 2 kinds of bus, 2 runs, 1 seat sold at a time on the second date (`MaxSold`) |
| | fares: does a search show what a fare costs; do prices catch up? | 1 trip, 4 rules of 3 types, 2 runs, `MaxChanges` = 2 |
| | schedules: one a day, with the berths it counts but for what bookings moved? | 2 dates, 2 runs, `MaxMoved` = 1 |
| | berths: do prices and cached searches catch up? | 1 berth, 3 rules, 2 searches at once, `MaxEdits` = 1 |
| `flight_double_sale`, `flight_reset`, `bus_resale`, `train_expiry`, `bot_cancel` | five statements of the source that the code does not keep | the smallest instance that shows each |

Two consumers and two requests are enough for a race between two of a kind, which
is all the code can meet: a third finds the same rows as the second. Two bookings
are enough for two owners of one seat. The flight's `NoStrandedSeat` is checked with one
booking; that it holds with any number is a theorem, and that two bookings may
nevertheless get one seat is `flight_double_sale`. Symmetry is used for seats, in one
run without a liveness property. Deadlock is not checked:
users may stop booking, and then the system rests; the accounts rest at the end of
the clock.

The bounds that are not sets of the bookings: `MaxDebt` stops a user from repeating a failing
cancellation for ever (each repeat subtracts a fare again), `MaxProfit` the fares
of one bus, `Horizon` the clock, after a whole day and most of the next one.
`NoStrandedSeat` and `ProfitIsEarned` of BusBooking hold for handlers that run one
after the other, as the consumer does by itself (it reads one message at a time)
and as one user's requests usually do; with two at once they fail, because no
statement checks what the handler has read. `MaxDebt = 0` in `bus_seats`: the
invariant it checks bounds the profit from above only. `MaxAvail` stops failed
payments from raising a train counter for ever: each of them adds the seats again,
and 2 lets the failure of a booking of one seat be repeated. `Pickable` keeps the lock
endpoint to one key. One train booking with two
handlers and the worker is enough for its rows, since handlers meet other bookings
only through the seats; that several bookings may hold one seat is covered by the
proofs, which are about any number of them.

Those of the composed runs: `MaxFaults` counts requests of auth-service that fail half-way; three let each of row,
code and mail fail before the one that repairs it. `Midnight` is late enough for a
login, a change of role, the token's life and a request to take as long as they may.
Limits of one request per window are reached by the second of two requests; the
counter stops one above the limit, where nothing tells higher values apart.
`MaxChanges` and `MaxEdits` count what happens to prices from outside: one change is
enough to come between the reading and the writing of a run or a search, and two to do
so to runs that overlap. `MaxSold` and `MaxMoved` bound what bookings have taken at one
time; the theorems are about any number. `IdleServicesStayUp` leaves the consumer of
the service without a booking alone. `LastDate` and `LastDay` leave a date to copy a route from and
one to copy it to.

**Fairness.** `flight_overrides` and `bus_races` assume weak fairness of `LockExpires` (Redis),
`ExpiresAtPasses` (the clock) and `ExpireBookings` (robfig/cron runs the job every
five minutes while the service is up). Nothing is assumed of users,
administrators, consumers or payment-service. `train_races` assumes the same of Redis
and the clock, weak fairness of the worker's fetch and release (its ticker runs while
the service is up), and strong fairness of `ExpireCommit`: between two restarts of
the service and two failures of the transaction there is at last one that goes
through. Weak fairness would say too little, since a restart takes the list away and
so disables the step again and again.

In `front_end`: `AuthFairness` lets requests go on and Redis delete cool-downs, and a
person who has registered asks again and enters a code that has arrived, again and
again (strong fairness, since other requests take the cool-down and expiry takes the
code away in between). `GatewayFairness`: a request goes on, and Redis deletes what has
expired. `PaymentFairness`: Stripe delivers until it has an answer, and a consumer loop
that runs reads its topic, which is a queue, and deals with what it has read. Nothing is
assumed of `Publish`, and nothing makes a loop that has ended start again:
`PaymentIsHeard` speaks of services whose loop runs for good in the end, and excepts the
events whose write failed and those a process took with it. Nothing is assumed of sockets
or of the bot.

In `back_office`: the clock advances, cron starts a run that is due or its query fails,
a row that a run of the accounting has fetched is written, or its update fails, unless the
service stops first; nothing brings it up again. A run of the bus or train pricing goes on
to its end, its failures being bounded; a search that has read writes its result, and the
cache's entries run out. Nothing is assumed of travellers, administrators, seeders or the
generators.

**What does not hold.** The five violation runs are in `PROJECT.json` under
`findings`, each with the line of the source it contradicts: a late payment sells a
flight seat twice; the inventory job forgets the tickets sold; cancelling an unpaid
bus booking puts somebody else's seat on sale; the train worker expires bookings that
have been paid since it fetched its list; a webhook of the bot writes the next step
over a cancellation. Others were met while modelling and have no run of their own,
because no line of the source promises the contrary in so many words, or because the models take them in and their
properties say so:

* a cancelled flight instance gets active bookings: nothing looks at the
  instance's status (`admin_service.go:139`);
* confirming a bus booking never moves the counter of available seats, because no
  stored seat type has a column (`Moved`); a confirmation that read the booking past
  `expires_at` writes EXPIRED over whatever it has become (`booking_service.go:460`);
* a traveller confirms a pending bus booking without paying
  (`handler/booking_handler.go:91`), and an administrator any flight booking:
  `ConfirmedWasPaid` excepts what was written by hand;
* a consumer loop that a read error has ended stays ended while the process runs
  (`kafka/consumer.go:70`), and payments stay in the topic;
* locks of train seats are deleted by key alone, whoever holds them
  (`utils/seat_lock.go:64`); seats of another schedule lower the counter of the one a
  train booking names (`booking_service.go:120-134`, 192), which may then promise fewer
  seats than are free: `CounterComesBack` counts what a living booking keeps by the
  schedule it names, and asks that it come back there;
* the accounting job writes losses from rows it fetched earlier
  (`accounting_job.go:28`); accounts of buses that leave after the day's last run, or
  that this run misses by a failed query, a failed update or a stopped service, are never
  closed, as every run asks for the current day only;
* a reply in the chat may never be seen: the push fails without notice, and only a page
  that is loaded again shows it; the end of an old connection removes and closes a new one;
* while tables change, an old search may cache its result over that of a newer one;
* the one lost EXPIRE of a window refuses its client for ever; the second of two paid
  intents is never given back; a payment event that could not be written, or that a
  consumer took with it, is gone;
* `GetActiveCancellationPolicy` of bus-service (188-207) does not query what its
  comment says; the notices of expired holds are never sent, because the pattern that
  `expiry_subscriber.go` gives to `Sscanf` is not one that Go has.

## 4. Proofs

`FlightBookingProofs` proves, for any finite set of passengers and any bookings,
seats, consumers and requests:

* `FlightTypeOK`, action by action from `NextCases`, which flattens `Next`.
* `CounterCorrect` and `TablesImplementLedger`. `StepsOnLedger` says that every
  step is a sale, a return, a reset or a stutter of the ledger; the arithmetic of
  those three is proved once in `SeatLedgerProofs` and instantiated. The counter is
  right whatever statuses are written by hand; the refinement needs
  `"CONFIRMED" \notin Overrides`, because a booking confirmed by hand has no ticket
  and its cancellation gives back seats that were never deducted.
* `OneRefundPerBooking`, from `RefundInv`: a handler about to call CreateRefund
  has itself recorded the cancellation, no other handler is about to, and nobody
  has called yet. The property alone is not inductive: it says nothing of the
  handlers between commit and call.
* `CompletedIsTrue` (the property `CompletedMeansRefunded`), from `OutcomesAreTrue`: an
  event on its way says what payment-service did, payment-service does nothing before it
  is asked, and no handler is about to insert a cancellation that is complete already.
  `RefundInv` is needed with it: without it a second cancellation could overwrite the
  outcome of the first.
* `FlightRefunds`: the tables implement `Refunds`, from the same two invariants and
  whatever is written by hand. A commit is `Record`, the call is `Call`, the answer of
  payment-service is `Accept` or `Refuse` whether or not its caller still waits
  (`AnswersAreRefunds`), what is then written into the row is `Show`, `Hide` or a stutter
  (`WordsAreRefunds`), and all the rest leaves the six values alone (`BookFrame`).
* `UnavailableSeatsAreTicketed`, `StatusFollowsTables`, `CancellationIsFinal`, from
  `LifeInv`: rows, and what handlers have read of rows, follow the order inserted,
  ticketed, confirmed, cancelled. The last two assume that no status is written by
  hand.

`BusBookingProofs` proves, for any bookings, users, seats and handlers:

* `BusTypeOK`, action by action.
* `OneRefundPerBooking`, `CancellationsAreRecorded` and `SuccessMeansSettled`, all
  from one inductive invariant, `RefundInv`. None of the three is inductive: they
  say nothing of handlers that are half-way. `PlansOK` says what a handler's step
  promises about the tables (past the insert, the record is there; about to call,
  the refund is owed, paid and not yet called for), `OneCaller` that the unique
  index lets one handler through, `CallsFollowRecords` that calls come after
  records, and answers and events after calls. Most steps are quiet: they touch none of
  this, and `QuietStep` deals with them once.
* `BusRefunds`: the tables implement `Refunds`, from `RefundInv`, along the same lemmas as
  in flight-service. A cancellation of an unpaid booking is recorded with nothing due and
  is a stutter.
* `SeatsOffSaleAreConfirmed` and `ProfitFollowsConfirmations` (`NoStrandedSeat` and
  `ProfitIsEarned`), each of the form `Spec /\ []OneHandlerEach => []P`. The hypothesis says that
  no two handlers work on one booking at the same time; several may work on several
  bookings, fail anywhere and leave their work half done. Without it both are false: a
  cancellation that has freed the seats can be overtaken by a confirmation that read the
  booking before, and two confirmations add one fare twice. The consumer reads one
  message at a time and a user seldom sends two requests at once, but nothing in the
  code sees to it. `HandlersInv` says what a handler may still believe of its row
  (`ReadsHold`) while it is alone with it; `SeatsAreHeld` adds to the first
  property that the booking that holds a seat is not one whose seats were just given back,
  `ProfitIsBooked` to the second that bookings whose fare is still to come have brought
  in nothing.
* `LocksFallToTheirUser`, the action property, from `BusTypeOK`.

`TrainBookingProofs` proves, for any finite sets of bookings and seats and any
handlers:

* `TrainTypeOK`, action by action.
* `NoTrainSeatStranded` and `TrainCounterComesBack`, from `SeatInv`, which adds
  `RowsFirst`: whatever a handler, the worker's list or the seats refer to has its
  row already. Without it a step could change the seats of a booking that somebody is
  about to return. The counter's part is about the cardinality of `Claims`, the pairs
  of a booking that names the schedule and a seat it lists, on whichever schedule:
  `ClaimsLost` and `ClaimsAdded` bound it when one booking gives up or takes its seats,
  and `ReturnedClaims` and `KeptClaims` say so of all schedules at once.
* `TrainRefundOnce`, from `RefundInv`: whoever is between the commit of a paid
  cancellation and its announcement has recorded it, is the only one there, and
  nobody has announced before. The unique index is what gives all three.
* `TrainRefunds`: the tables implement `Refunds`, from `RefundInv` and
  `CompletedWasAnnounced`: the refund of a booking that nobody announced is not complete.

`BusAccountingProofs` proves `AccountTypeOK` (the types of `AccountingTypeOK`) and `NoneClosedEarly`; the invariant
is inductive because it also speaks of the rows a run has fetched and not written.

`FrontEndProofs` proves, for any sets of people, connections, codes, bookings and
requests:

* `VerifiedByOwnCode`: a visit that is past the comparison carries a code that was
  stored for its own address (`VisitsAreWhole`, `CodesWereStored`).
* `StaleRolesRunOut`: `RolesAreRecent` bounds the age of the role at each of its stops,
  the login that has read it, the token, the request; each stop adds its own time to
  the bound, and the property is the bound of the last one.
* `MapIsServed`, `SearchLinksAreWhole` and `ConfirmedByPayment`. The first says that a
  connection in the map has a handler that runs, not that it is open. The second needs
  `FilledBefore`: a step that the session has, or that a call is about to write, comes
  after fields that are filled, because a cancellation leaves them as they are; the
  third `EventsArePaid`: whatever is on its way was paid and made for its booking, and
  only the two actions that write `byHand` confirm without it.
* `WindowsClose`, the safety core of the liveness property `RefusedNotForever`
  (`EveryWindowCloses`): a counter that is not nought has an expiry, or the request that
  opened its window is still to set it, or that one EXPIRE was lost. `GatewayInv`
  says of every request in flight that what is left of its chain is the rest of a
  registered one (`RegisteredChains`, `RestOfRoute`), and that a count it holds is of the
  limiter it stands at; the steps on `hits` are told apart by whose window they open.
* `FrontEndTypes`, the type invariant of all six parts: each part's inductive invariant
  contains its types, and `PartsAreThemselves` takes a behaviour of the composition apart.

`BackOfficeProofs` proves, for any numbers of runs, dates and instances:

* `RoutesRunForward`, from `RouteInv`: rows that are not marred run forward
  (`RowsAreForward`), a run that copies has so far exactly what its template has
  (`CopiesAreExact`), and no two transactions, nor a transaction and a committed row,
  have the same date (`DatesAreOwned`), without which a commit could replace somebody's
  template. `GeneratorStep` deals once with everything that a run does to itself.
* `WhatIsQuotedIsCharged`, almost inductive as it is, since one transaction writes all
  three prices.
* `InstancesStayWhole` (`SearchableIsWhole`): `WholeInv` says that a committed row, and the
  row in a transaction that is past its insert, has its seats, fares, account and the
  counter of what was bought in advance, and so many seats on sale until it is booked, and
  never more; with `RouteInv`, because a commit writes to the date its
  transaction owns. That generator and seeder draw the same seats is arithmetic,
  for the three kinds of bus that the source knows: `ProgramsAgree`, from `CoachesAgree` and
  `SleepersAgree` (a seat has one index and an index one seat) and `BlocksAreCounted` (how
  many seats a block has). `InventoryTypes` follows from the same invariant.
* `SchedulesStayWhole`: all the berths of the train, and counters that differ from them by
  no more than bookings have moved (`Told`). `DaysAreOwned` again, and two lemmas on the coaches:
  `BerthsAreCounted` counts the berths of a class by a bijection with coaches times
  numbers, `BerthsAreDistinct` tells them apart.

`BackOfficeTypes` proves the types of the remaining parts and puts the parts together:

* `PricingTypes`, `ScheduleTypes` and `BerthPriceTypes`. A price is a base times the factors of
  rules that apply, so the point is that those products are natural numbers. The rule of
  a bus is the first by number, and `LeastNumber` says that there is a first; the
  product of the train rules is a fold over a set, and `ProductIsNatural` shows that the
  fold is what it should be for every finite set of rules. Its induction is
  `NumbersFrom0`, about a set of numbers instead of a predicate, which keeps
  it within reach of the provers.
* `BackTypes` and `DeparturesStayWhole` (`BackTypeOK` and `DeparturesAreWhole`, the
  invariants of the run), from the theorems of the parts and `PartsGoOn`, by which a step of
  the composition is a step of one part and a stutter of the others.

The proofs assume of the constants what the ASSUMEs of the modules say: finitely
many passengers, bookings, seats and berths of trains and train price rules; natural
bounds, prices, factors and rule numbers; a known seat type and known classes;
sequences of points on file; at least two stops of a train that is priced.

Only model-checked are the seven liveness properties, which are beyond the prover:
`PendingEnds`, `AccountsAreClosed`, `RegisteredGetsVerified`, `RefusedNotForever`,
`PaymentIsHeard`, `PricesAreKept`, `StaleSearchesEnd`. Every other property of a passing run
is stated by a theorem; `NoStrandedSeat` and `ProfitIsEarned` of BusBooking with
`[]OneHandlerEach` before them, `CancellationIsFinal`, `StatusFollowsTables` and
`TablesImplementLedger` for administrators who write no CONFIRMED or nothing at all.

## 5. What is left

Worth proving next: the safety cores of the liveness properties other than
`RefusedNotForever`, which leave only fairness to TLC (that a visitor with a code can
always still use it, that a price which does not match its rules is on the list of some
run); theorems of `Refunds` by itself, which all three services would inherit;
an abstract specification of a departure's generation that `BusInventory` and
`TrainInventory` implement, since `DatesAreOwned` and `DaysAreOwned` are one argument.

**Not modelled.**

* flight-service's search, fares and tracking, bus-service's search, Train-service's
  tickets and tracking: queries, calls to an external tracking API and formatting,
  which keep no state.
* The notices of expired holds (`expiry_subscriber.go`), which are never sent.
* Which dates and which seat numbers the flight inventory job generates, flight
  templates and price overrides, and master data of all services (stops, operators,
  bus types, stations): row updates that nothing races with.
* Amounts: refunds are due or not, fares are counted, prices are multiples of a least
  one; policies select an amount and are left out.
* qr-service draws an image from its query string; the infrastructure is deployment
  descriptions. Both keep no state.
