---------------------------- MODULE BusInventory ----------------------------
(***************************************************************************)
(* The departures of one bus.  A job (cron's, and one at the start of the  *)
(* service) makes an instance for every date that lacks one: its rows are  *)
(* written in one transaction, and its route is copied from the latest     *)
(* instance that has one.  At the start of the service a seeder may first  *)
(* write the instances and routes of the data files, in a transaction of   *)
(* its own.  Administrators and operators delete instances, which Postgres *)
(* refuses when an account or a booking refers to them; travellers book,   *)
(* which takes seats off sale and leaves the counter as it is.             *)
(***************************************************************************)
EXTENDS BusLayouts, Sequences

CONSTANTS LastDate,   \* travel dates are 1..LastDate
          BusKinds,   \* kinds of the bus types that the bus is given
          Runs,       \* dates whose weekday is in days_of_week
          Weekend,    \* dates on a Saturday or Sunday
          Seeded,     \* dates with an instance in the data files
          RawBoarding, RawDropping, \* RawBoarding[d]: the file's points, in order:
                                    \* each a stop and its sequence_order
          OriginStop, DestinationStop,
          Generator,  \* goroutines the job runs in
          MaxSold     \* MaxSold[d], a bound: seats of date d sold at a time

TravelDate == 1..LastDate

ASSUME InventoryAssumption ==
  /\ LastDate \in Nat /\ MaxSold \in [TravelDate -> Nat]
  /\ BusKinds \subseteq Kind
  /\ Runs \subseteq TravelDate /\ Weekend \subseteq TravelDate /\ Seeded \subseteq TravelDate
  /\ \A d \in Seeded : /\ Len(RawBoarding[d]) \in Nat /\ Len(RawDropping[d]) \in Nat
                       /\ DOMAIN RawBoarding[d] = 1..Len(RawBoarding[d])
                       /\ DOMAIN RawDropping[d] = 1..Len(RawDropping[d])

VARIABLES
  kind,     \* the kind of seats of the bus's type
  isActive, \* is_active of the bus
  inst,     \* inst[d]: the committed instance of date d, with what refers to it
  gen       \* gen[r]: how far the job has come in goroutine r

inventoryVars == <<kind, isActive, inst, gen>>

\* No instance.
NoRow == [kind |-> "none"]

IdleGen == [at |-> "idle", kind |-> "seater", date |-> 1, row |-> NoRow, template |-> 0]

InventoryInit ==
  /\ kind \in BusKinds
  /\ isActive = TRUE
  /\ inst = [d \in TravelDate |-> NoRow]
  /\ gen = [r \in Generator |-> IdleGen]

\* An instance with its seats, fares and availability, and no route yet.
NewRow(k, seats, active, account) ==
  [kind |-> k, seats |-> seats,
   free |-> LeftAvailable(seats, active), counter |-> SumOf(active),
   fares |-> IF k = "sleeper" THEN {"GENERAL", "FLEXI"} ELSE {"GENERAL"},
   account |-> account, boarding |-> {}, dropping |-> {},
   booked |-> FALSE, marred |-> FALSE]

Exists(d) == inst[d] # NoRow
-----------------------------------------------------------------------------
(* The seeder. *)

\* The points of a date, numbered through; none when the file's are refused.
Stops(points) == {points[i].stop : i \in DOMAIN points}

Increasing(points) ==
  \A i \in DOMAIN points : i > 1 => points[i - 1].order < points[i].order

ValidRoute(b, p) ==
  /\ b # <<>> /\ p # <<>>
  /\ b[Len(b)].order < p[1].order
  /\ Increasing(b) /\ Increasing(p)
  /\ Cardinality(Stops(b) \cup Stops(p)) = Len(b) + Len(p)
  /\ b[1].stop = OriginStop /\ p[Len(p)].stop = DestinationStop

\* FirstOrCreate: a stop that is there already keeps its number.
AddPoints(there, points, from) ==
  there \cup {[stop |-> points[i].stop, order |-> from + i] :
                i \in {j \in DOMAIN points : \A x \in there : x.stop # points[j].stop}}

\* Mutated form: the dropping points are numbered from the last boarding point.
SeedRoutePointsFromLast(row, b, p) ==
  IF ~ValidRoute(b, p) THEN row
  ELSE [row EXCEPT !.boarding = AddPoints(@, b, 0),
                   !.dropping = AddPoints(@, p, Len(b) - 1)]

\* A route that is there already, which the job has made, is mended with the
\* points it lacks, which keep the file's numbers: the row is marked.
SeedRoutePoints(row, b, p) ==
  LET boarding == AddPoints(row.boarding, b, 0)
      dropping == AddPoints(row.dropping, p, Len(b))
      mended == /\ row.boarding \cup row.dropping # {}
                /\ boarding # row.boarding \/ dropping # row.dropping
  IN IF ~ValidRoute(b, p) THEN row
     ELSE [row EXCEPT !.boarding = boarding, !.dropping = dropping, !.marred = @ \/ mended]

\* SeedFareTypes, when seats may be sold.
SeedFareTypes(row) ==
  IF row.counter > 0 THEN [row EXCEPT !.fares = @ \cup {"SUPER FLEXI"}] ELSE row

SeedBusInstance(d) ==
  IF Exists(d) THEN inst[d]
  ELSE NewRow(kind, ComputationallyMapSeats(kind), Prebooked(kind, d \in Weekend), FALSE)

SeedDate(d) ==
  SeedFareTypes(SeedRoutePoints(SeedBusInstance(d), RawBoarding[d], RawDropping[d]))

\* SeedAll is one transaction: everything or nothing.
SeedAll ==
  \/ inst' = [d \in TravelDate |-> IF d \in Seeded THEN SeedDate(d) ELSE inst[d]]
  \/ UNCHANGED inst

\* The process stops, whatever it was doing, and starts: open transactions are
\* rolled back, and the seeder is through, if it is switched on, before the job
\* starts.
InventoryBoots ==
  /\ gen' = [r \in Generator |-> IdleGen]
  /\ SeedAll
  /\ UNCHANGED <<kind, isActive>>
-----------------------------------------------------------------------------
(* GenerateUpcomingInventory. *)

Step(r, g) == gen' = [gen EXCEPT ![r] = g]
NextDate(r) ==
  Step(r, [gen[r] EXCEPT !.at = "check", !.date = @ + 1, !.row = NoRow, !.template = 0])

\* Buses that are active when the run starts, with their type.
GenerateUpcomingInventory(r) ==
  /\ gen[r].at = "idle" /\ isActive
  /\ Step(r, [IdleGen EXCEPT !.at = "check", !.kind = kind])
  /\ UNCHANGED <<kind, isActive, inst>>

CheckExisting(r) ==
  /\ gen[r].at = "check"
  /\ CASE gen[r].date > LastDate -> Step(r, IdleGen)
       [] gen[r].date \in TravelDate ->
            IF gen[r].date \notin Runs \/ Exists(gen[r].date)
            THEN NextDate(r)
            ELSE Step(r, [gen[r] EXCEPT !.at = "insert"])
  /\ UNCHANGED <<kind, isActive, inst>>

\* In its transaction, after the insert of the instance.
Writing(r, d) == gen[r].date = d /\ gen[r].at \in {"route", "boarding", "dropping", "commit"}

\* Account, seats, availability and fares.
CreateRows(g) ==
  [g EXCEPT !.at = "route",
            !.row = NewRow(g.kind, BuildSeats(g.kind), Active(g.kind, g.date \in Weekend), TRUE)]

\* The unique index on bus and date: the insert waits for a transaction that has
\* inserted the same date, and fails once it has committed.  The other rows
\* follow, which nobody else sees yet.
InsertInstance(r) ==
  /\ gen[r].at = "insert"
  /\ \A q \in Generator \ {r} : ~Writing(q, gen[r].date)
  /\ IF Exists(gen[r].date) THEN NextDate(r) ELSE Step(r, CreateRows(gen[r]))
  /\ UNCHANGED <<kind, isActive, inst>>

\* The latest instance with boarding points, whose route is to be copied; or the
\* bus goes straight from its origin to its destination.
PickTemplate(r) ==
  /\ gen[r].at = "route"
  /\ LET with == {d \in TravelDate : Exists(d) /\ inst[d].boarding # {}} IN
       \/ \E latest \in with : /\ \A d \in with : d <= latest
                               /\ Step(r, [gen[r] EXCEPT !.at = "boarding", !.template = latest])
       \/ /\ with = {}
          /\ Step(r, [gen[r] EXCEPT
               !.at = "commit",
               !.row.boarding = {[stop |-> OriginStop, order |-> 1]},
               !.row.dropping = {[stop |-> DestinationStop, order |-> 2]}])
  /\ UNCHANGED <<kind, isActive, inst>>

\* Template 0 is an instance that has been deleted meanwhile: no points are found.
CloneBoarding(r) ==
  /\ gen[r].at = "boarding"
  /\ Step(r, [gen[r] EXCEPT
       !.at = "dropping",
       !.row.boarding = IF gen[r].template = 0 THEN {} ELSE inst[gen[r].template].boarding])
  /\ UNCHANGED <<kind, isActive, inst>>

CloneDropping(r) ==
  /\ gen[r].at = "dropping"
  /\ Step(r, [gen[r] EXCEPT
       !.at = "commit",
       !.row.dropping = IF gen[r].template = 0 THEN {} ELSE inst[gen[r].template].dropping,
       !.row.marred = gen[r].template = 0 \/ inst[gen[r].template].marred])
  /\ UNCHANGED <<kind, isActive, inst>>

CommitInstance(r) ==
  /\ gen[r].at = "commit"
  /\ inst' = [inst EXCEPT ![gen[r].date] = gen[r].row]
  /\ NextDate(r)
  /\ UNCHANGED <<kind, isActive>>

\* Any statement fails, those whose error is not looked at included: Postgres
\* has given the transaction up by then, and the commit fails too.
RollBack(r) ==
  /\ Writing(r, gen[r].date)
  /\ NextDate(r)
  /\ UNCHANGED <<kind, isActive, inst>>
-----------------------------------------------------------------------------
(* Administrators, operators and travellers. *)

\* Foreign keys on the instance: an account, a booking.
Referenced(d) == inst[d].account \/ inst[d].booked

\* The instance is gone, also for a job that was about to copy its route.
Gone(d) ==
  /\ inst' = [inst EXCEPT ![d] = NoRow]
  /\ gen' = [r \in Generator |-> IF gen[r].template = d
                                 THEN [gen[r] EXCEPT !.template = 0] ELSE gen[r]]

\* Mutated form: what was deleted first stays deleted when the rest is refused.
DeleteWithoutTransaction(d) ==
  /\ Exists(d)
  /\ IF Referenced(d)
     THEN /\ inst' = [inst EXCEPT ![d].boarding = {}, ![d].dropping = {},
                                  ![d].seats = {}, ![d].free = 0]
          /\ UNCHANGED gen
     ELSE Gone(d)
  /\ UNCHANGED <<kind, isActive>>

\* DeleteBusInstance: points, seats, fares and the instance in one transaction,
\* rolled back when something refers to it.  An operator's also asks for
\* confirmed bookings, which is less.
DeleteBusInstance(d) ==
  /\ Exists(d) /\ ~Referenced(d)
  /\ Gone(d)
  /\ UNCHANGED <<kind, isActive>>

\* CreateBooking: a booking refers to the instance from now on, whatever becomes
\* of it.
BookInstance(d) ==
  /\ Exists(d) /\ ~inst[d].booked
  /\ inst' = [inst EXCEPT ![d].booked = TRUE]
  /\ UNCHANGED <<kind, isActive, gen>>

\* A confirmation takes a seat off sale.  The counter stays: the types of seats are
\* written in small letters, and availableColumn knows none of these.
ConfirmSeat(d) ==
  /\ Exists(d) /\ inst[d].booked
  /\ inst[d].free > 0 /\ inst[d].counter - inst[d].free < MaxSold[d]
  /\ inst' = [inst EXCEPT ![d].free = @ - 1]
  /\ UNCHANGED <<kind, isActive, gen>>

\* A cancellation puts it on sale again; seats that are booked were on sale once.
CancelSeat(d) ==
  /\ Exists(d) /\ inst[d].booked
  /\ inst[d].free < inst[d].counter
  /\ inst' = [inst EXCEPT ![d].free = @ + 1]
  /\ UNCHANGED <<kind, isActive, gen>>

\* The bus is given another type, or is put in or out of service; instances that
\* are there stay as they are.
UpdateBus ==
  /\ \/ kind' \in BusKinds \ {kind} /\ UNCHANGED isActive
     \/ isActive' = ~isActive /\ UNCHANGED kind
  /\ UNCHANGED <<inst, gen>>

\* An operator's status is passed on to its buses.
UpdateOperatorStatus ==
  /\ isActive' = ~isActive
  /\ UNCHANGED <<kind, inst, gen>>

InventoryNext ==
  \/ InventoryBoots \/ UpdateBus \/ UpdateOperatorStatus
  \/ \E r \in Generator :
       \/ GenerateUpcomingInventory(r) \/ CheckExisting(r) \/ InsertInstance(r)
       \/ PickTemplate(r) \/ CloneBoarding(r) \/ CloneDropping(r)
       \/ CommitInstance(r) \/ RollBack(r)
  \/ \E d \in TravelDate : \/ DeleteBusInstance(d) \/ BookInstance(d)
                           \/ ConfirmSeat(d) \/ CancelSeat(d)

InventorySpec == InventoryInit /\ [][InventoryNext]_inventoryVars
-----------------------------------------------------------------------------
InventoryTypeOK ==
  /\ kind \in Kind /\ isActive \in BOOLEAN
  /\ \A d \in TravelDate : Exists(d) =>
       /\ inst[d].kind \in Kind /\ inst[d].free \in Nat /\ inst[d].counter \in Nat
       /\ inst[d].fares \subseteq {"GENERAL", "FLEXI", "SUPER FLEXI"}
  /\ \A r \in Generator :
       /\ gen[r].at \in {"idle", "check", "insert", "route",
                         "boarding", "dropping", "commit"}
       /\ gen[r].kind \in Kind
       /\ gen[r].date \in 1..(LastDate + 1) /\ gen[r].template \in 0..LastDate

\* Whichever program draws the seats and counts those for sale.
LayoutsAgree ==
  \A k \in Kind :
    /\ BuildSeats(k) = ComputationallyMapSeats(k)
    /\ \A weekend \in BOOLEAN : Active(k, weekend) = Prebooked(k, weekend)

SeatsOf == [k \in Kind |-> ComputationallyMapSeats(k)]

\* Every instance that a search can find has all the seats of its kind of bus,
\* whichever program drew them; its counter says how many were bought in advance,
\* and so many are on sale until it is first booked, and never more; and it has its
\* fares and, unless it came from the data files, its account: whatever runs
\* overlap, fail, are cut off, or meet deletions.
SearchableIsWhole ==
  /\ LayoutsAgree
  /\ \A d \in TravelDate : Exists(d) =>
       LET row == inst[d] IN
       /\ row.seats = SeatsOf[row.kind]
       /\ row.counter = SumOf(Active(row.kind, d \in Weekend))
       /\ row.free <= row.counter /\ (~row.booked => row.free = row.counter)
       /\ "GENERAL" \in row.fares /\ (row.kind = "sleeper" => "FLEXI" \in row.fares)
       /\ d \in Seeded \/ row.account

\* On every route each boarding point comes before each dropping point, as the
\* search demands of the pair it looks for, and neither kind is missing alone;
\* but a route mended by the seeder, or copied while its template was being
\* deleted, may be out of order or cut off, and so may its copies.
RouteRunsForward ==
  \A d \in TravelDate : Exists(d) /\ ~inst[d].marred =>
    /\ inst[d].boarding = {} <=> inst[d].dropping = {}
    /\ \A b \in inst[d].boarding, p \in inst[d].dropping : b.order < p.order
=============================================================================
