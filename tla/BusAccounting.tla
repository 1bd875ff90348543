---------------------------- MODULE BusAccounting ----------------------------
(***************************************************************************)
(* The prebooking accounts of bus-service: seats are bought in advance,    *)
(* bookings earn fares, and a cron job closes the account of an instance   *)
(* that has departed by recording what was not earned back.  A run whose   *)
(* query fails, a row that cannot be written, a run that nobody starts     *)
(* because the service is down: all are passed over.  Time counts in       *)
(* fractions of the job's period, so that a departure may fall between two *)
(* runs.                                                                   *)
(***************************************************************************)
EXTENDS Integers

CONSTANTS Instance,   \* bus instances, one account each
          Departure,  \* Departure[i]: departure_date_time
          Spend,      \* spend_amount_total, in fares
          MaxProfit,  \* bound: fares a bus can earn
          Period,     \* the job runs when the clock is a multiple of it
          Day,        \* midnight is when the clock is a multiple of it
          Horizon,    \* bound: the clock stops here
          Runner      \* goroutines the job runs in: cron's and the start-up's

ASSUME AccountingAssumption ==
  /\ Departure \in [Instance -> Nat]
  /\ Spend \in Nat /\ MaxProfit \in Nat /\ Horizon \in Nat
  /\ Period \in Nat \ {0} /\ Day \in Nat \ {0} /\ Day % Period = 0

VARIABLES
  now,        \* the clock
  up,         \* the service is running
  due,        \* cron has a run to start at this instant
  profit,     \* profit_amount
  loss,       \* loss_amount
  finalized,  \* accounts with is_finalized = true
  read,       \* read[r]: the rows that runner r has fetched and not written
  missed      \* history: accounts that the last run meant for them has not closed

accountVars == <<now, up, due, profit, loss, finalized, read, missed>>

AccountInit ==
  /\ now = 0 /\ up = TRUE /\ due = FALSE
  /\ profit = [i \in Instance |-> 0]
  /\ loss = [i \in Instance |-> 0]
  /\ finalized = {}
  /\ read = [r \in Runner |-> {}] /\ missed = {}
-----------------------------------------------------------------------------
(* FinalizePrebookingAccounting. *)

\* Mutated form: departures still ahead are not left out.
AnyToday ==
  {i \in Instance \ finalized : Departure[i] \div Day = now \div Day}

\* Mutated form: a departure at the start of the day is left out.
AfterMidnight ==
  {i \in Instance \ finalized : /\ Departure[i] > (now \div Day) * Day
                                /\ Departure[i] <= now}

\* The query: from the start of today, gone by now, not finalized.
DepartedToday ==
  {i \in Instance \ finalized : /\ Departure[i] >= (now \div Day) * Day
                                /\ Departure[i] <= now}

\* A run comes to each of its rows, those that an earlier run has missed included.
Fetch(r) ==
  /\ read[r] = {}
  /\ read' = [read EXCEPT ![r] =
                {[inst |-> i, profit |-> profit[i]] : i \in DepartedToday}]
  /\ missed' = missed \ DepartedToday

\* A run of the cron, and the run at the start of the service, at any time.
CronRun(r) ==
  /\ due
  /\ Fetch(r)
  /\ due' = FALSE
  /\ UNCHANGED <<now, up, profit, loss, finalized>>

BootRun(r) ==
  /\ up
  /\ Fetch(r)
  /\ UNCHANGED <<now, up, due, profit, loss, finalized>>

\* The query of a run of the cron fails: it is logged, and the run is over.  (Of
\* the run at the start nothing is left.)
FetchFails ==
  /\ due
  /\ due' = FALSE
  /\ missed' = missed \cup DepartedToday
  /\ UNCHANGED <<now, up, profit, loss, finalized, read>>

\* Mutated form: a gain is recorded as a negative loss.
SignedShortfall(earned) == Spend - earned

Shortfall(earned) == IF Spend > earned THEN Spend - earned ELSE 0

\* One turn of the loop: the loss computed from the row as it was fetched; or its
\* update fails, which is logged, and the loop goes on.
Finalize(r) ==
  /\ \E row \in read[r] :
       /\ \/ /\ loss' = [loss EXCEPT ![row.inst] = Shortfall(row.profit)]
             /\ finalized' = finalized \cup {row.inst}
             /\ UNCHANGED missed
          \/ /\ missed' = missed \cup {row.inst}
             /\ UNCHANGED <<loss, finalized>>
       /\ read' = [read EXCEPT ![r] = @ \ {row}]
  /\ UNCHANGED <<now, up, due, profit>>
-----------------------------------------------------------------------------
(* The clock and the service. *)

\* Cron starts a run as soon as it is due, if there is a cron.
Tick ==
  /\ now < Horizon /\ ~due
  /\ now' = now + 1
  /\ due' = (up /\ now' % Period = 0)
  /\ UNCHANGED <<up, profit, loss, finalized, read>>
  /\ missed' = IF ~up /\ now' % Period = 0 THEN missed \cup DepartedToday' ELSE missed

\* The process stops: rows not yet written and the run now due are passed over.
ServiceStops ==
  /\ up
  /\ up' = FALSE /\ due' = FALSE
  /\ read' = [r \in Runner |-> {}]
  /\ missed' = missed \cup {row.inst : row \in UNION {read[r] : r \in Runner}}
                     \cup (IF due THEN DepartedToday ELSE {})
  /\ UNCHANGED <<now, profit, loss, finalized>>

ServiceStarts ==
  /\ ~up
  /\ up' = TRUE
  /\ UNCHANGED <<now, due, profit, loss, finalized, read, missed>>
-----------------------------------------------------------------------------
(* The bookings. *)

\* A confirmation.  Neither CreateBooking nor ConfirmBooking asks whether the
\* bus has left.  MaxProfit bounds the fares earned.
AddProfit(i) ==
  /\ profit[i] < MaxProfit
  /\ profit' = [profit EXCEPT ![i] = @ + 1]
  /\ UNCHANGED <<now, up, due, loss, finalized, read, missed>>

\* A cancellation with a refund, refused once the bus has left.
SubtractProfit(i) ==
  /\ profit[i] > 0
  /\ now < Departure[i]
  /\ profit' = [profit EXCEPT ![i] = @ - 1]
  /\ UNCHANGED <<now, up, due, loss, finalized, read, missed>>

AccountNext ==
  \/ Tick \/ ServiceStops \/ ServiceStarts \/ FetchFails
  \/ \E r \in Runner : CronRun(r) \/ BootRun(r) \/ Finalize(r)
  \/ \E i \in Instance : AddProfit(i) \/ SubtractProfit(i)

AccountSpec == AccountInit /\ [][AccountNext]_accountVars
-----------------------------------------------------------------------------
AccountingTypeOK ==
  /\ now \in 0..Horizon /\ up \in BOOLEAN /\ due \in BOOLEAN
  /\ profit \in [Instance -> 0..MaxProfit]
  /\ loss \in [Instance -> 0..Spend]
  /\ finalized \subseteq Instance /\ missed \subseteq Instance
  /\ read \in [Runner -> SUBSET [inst : Instance, profit : 0..MaxProfit]]

\* No account is closed, nor about to be, before its bus has left: refunds may
\* still change what it earned.
ClosedAfterDeparture ==
  \A i \in Instance :
    (\/ i \in finalized
     \/ \E r \in Runner : \E row \in read[r] : row.inst = i) => Departure[i] <= now

\* The last run of the job on the day of time t.
LastRun(t) == (((t \div Day + 1) * Day - 1) \div Period) * Period

\* Once the last run of the day of a departure is past, with at least one at or
\* after the departure, the account is closed, whatever earlier runs have failed
\* and whatever the start-up run does at the same time; but no later run makes
\* up for what the last one has missed.
SameDayIsClosed ==
  \A i \in Instance :
    LastRun(Departure[i]) >= Departure[i] =>
      (now > LastRun(Departure[i])) ~> (i \in finalized \cup missed)
=============================================================================
