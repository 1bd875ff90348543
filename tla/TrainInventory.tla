--------------------------- MODULE TrainInventory ---------------------------
(***************************************************************************)
(* The schedules of one train of Train-service.  A job runs at the start   *)
(* of the service, every night, and in a goroutine of its own whenever an  *)
(* administrator asks for it: for every date that lacks one it writes a    *)
(* schedule and the berths of all coaches in one transaction.  A unique    *)
(* index on train and date is all that keeps two runs apart.  Bookings move *)
(* the counters of the schedules that are there.                           *)
(***************************************************************************)
EXTENDS Integers, FiniteSets

CONSTANTS LastDay,     \* schedule dates are 1..LastDay
          DaysOfWeek,  \* dates whose weekday is in days_of_week
          StopsOnFile, \* stops of the train in the data files
          Run,         \* goroutines the job runs in
          MaxMoved     \* bound: seats that bookings move a schedule's counters by

ScheduleDate == 1..LastDay

ASSUME TrainInventoryAssumption ==
  /\ LastDay \in Nat /\ StopsOnFile \in Nat /\ MaxMoved \in Nat
  /\ DaysOfWeek \subseteq ScheduleDate

VARIABLES
  stopCount,   \* stops of the train
  trainActive, \* is_active of the train
  schedule,    \* schedule[d]: the committed schedules of date d, at most one if all is well
  run          \* run[r]: how far the job has come in goroutine r

trainInventoryVars == <<stopCount, trainActive, schedule, run>>
-----------------------------------------------------------------------------
(* defaultCoachConfig. *)

Class == {"SL", "3AC", "2AC", "1AC"}

Coaches(class) ==
  CASE class = "SL"  -> {<<"S", n>> : n \in 1..3}
    [] class = "3AC" -> {<<"B", n>> : n \in 1..2}
    [] class = "2AC" -> {<<"A", 1>>}
    [] class = "1AC" -> {<<"H", 1>>}

Berths(class) ==
  CASE class \in {"SL", "3AC"} -> 1..8
    [] class = "2AC" -> 1..4
    [] class = "1AC" -> 1..2

\* The berths written, and, computed apart from them, the counters.
AllBerths ==
  UNION {{[coach |-> c, number |-> n, class |-> k] : c \in Coaches(k), n \in Berths(k)} :
           k \in Class}

BerthCount == [k \in Class |-> Cardinality(Coaches(k)) * Cardinality(Berths(k))]
-----------------------------------------------------------------------------
AtRest == [at |-> "idle", date |-> 1, until |-> 0, berths |-> {}]

TrainInventoryInit ==
  /\ stopCount = 0 /\ trainActive \in BOOLEAN
  /\ schedule = [d \in ScheduleDate |-> {}]
  /\ run = [r \in Run |-> AtRest]

\* SeedTrains, in one transaction with the stations: the stops of the data files
\* are there afterwards, or the transaction has failed, which is only logged.  A
\* train that is there keeps its is_active.
SeedTrains == stopCount' \in {stopCount, StopsOnFile} /\ UNCHANGED trainActive

\* The process stops, whatever it was doing, and starts: open transactions are
\* rolled back, and the seeder is through before the job starts.
TrainBoots ==
  /\ run' = [r \in Run |-> AtRest]
  /\ SeedTrains
  /\ UNCHANGED schedule

\* AdminUpdateTrain.
AdminUpdateTrain ==
  /\ trainActive' = ~trainActive
  /\ UNCHANGED <<stopCount, schedule, run>>

StepTo(r, g) == run' = [run EXCEPT ![r] = g]
NextDay(r) == StepTo(r, [run[r] EXCEPT !.at = "check", !.date = @ + 1, !.berths = {}])

\* The train and its stops are read once, when the run starts; an administrator
\* says for how many days.
StartRun(r) ==
  /\ run[r].at = "idle"
  /\ trainActive /\ stopCount >= 2
  /\ \E days \in ScheduleDate : StepTo(r, [AtRest EXCEPT !.at = "check", !.until = days])
  /\ UNCHANGED <<stopCount, trainActive, schedule>>

CheckSchedule(r) ==
  /\ run[r].at = "check"
  /\ CASE run[r].date > run[r].until -> StepTo(r, AtRest)
       [] run[r].date <= run[r].until ->
            IF run[r].date \notin DaysOfWeek \/ schedule[run[r].date] # {}
            THEN NextDay(r)
            ELSE StepTo(r, [run[r] EXCEPT !.at = "insert"])
  /\ UNCHANGED <<stopCount, trainActive, schedule>>

InTransaction(r) == run[r].at \in {"berths", "commit"}

\* Mutated form: there is no unique index.
AnyInsert(r) == TRUE

\* idx_train_schedule_unique: the insert waits for another transaction that has
\* inserted the same date, and fails when it has committed.
InsertIsUnique(r) ==
  /\ \A q \in Run \ {r} : ~(InTransaction(q) /\ run[q].date = run[r].date)
  /\ schedule[run[r].date] = {}

CreateSchedule(r) ==
  /\ run[r].at = "insert"
  /\ InsertIsUnique(r)
  /\ StepTo(r, [run[r] EXCEPT !.at = "berths"])
  /\ UNCHANGED <<stopCount, trainActive, schedule>>

CreateBerths(r) ==
  /\ run[r].at = "berths"
  /\ StepTo(r, [run[r] EXCEPT !.at = "commit", !.berths = AllBerths])
  /\ UNCHANGED <<stopCount, trainActive, schedule>>

CommitSchedule(r) ==
  /\ run[r].at = "commit"
  /\ schedule' = [schedule EXCEPT ![run[r].date] =
       @ \cup {[by |-> r, berths |-> run[r].berths, left |-> BerthCount, moved |-> 0]}]
  /\ NextDay(r)
  /\ UNCHANGED <<stopCount, trainActive>>

\* A statement fails, the insert of a date that has its schedule among others:
\* the run goes on with the next date.
TransactionFails(r) ==
  /\ run[r].at = "insert" \/ InTransaction(r)
  /\ NextDay(r)
  /\ UNCHANGED <<stopCount, trainActive, schedule>>

\* DecrementAvailability and IncrementAvailability: a booking is made, or it ends, and
\* the counter of its class moves by its seats, without a look at what is left or at
\* which schedule the seats are on.
MoveCounter(d) ==
  /\ \E s \in schedule[d], k \in Class :
       \E n \in 1..(MaxMoved - s.moved) : \E to \in {s.left[k] - n, s.left[k] + n} :
         schedule' = [schedule EXCEPT ![d] =
           (@ \ {s}) \cup {[s EXCEPT !.left[k] = to, !.moved = @ + n]}]
  /\ UNCHANGED <<stopCount, trainActive, run>>

TrainInventoryNext ==
  \/ TrainBoots \/ AdminUpdateTrain
  \/ \E d \in ScheduleDate : MoveCounter(d)
  \/ \E r \in Run : \/ StartRun(r) \/ CheckSchedule(r) \/ CreateSchedule(r)
                    \/ CreateBerths(r) \/ CommitSchedule(r) \/ TransactionFails(r)

TrainInventorySpec == TrainInventoryInit /\ [][TrainInventoryNext]_trainInventoryVars
-----------------------------------------------------------------------------
TrainInventoryTypeOK ==
  /\ stopCount \in Nat /\ trainActive \in BOOLEAN
  /\ \A r \in Run : /\ run[r].at \in {"idle", "check", "insert", "berths", "commit"}
                    /\ run[r].date \in 1..(LastDay + 1) /\ run[r].until \in 0..LastDay
                    /\ run[r].berths \subseteq AllBerths

\* Berths of a class.
BerthsIn(s, k) == Cardinality({b \in s.berths : b.class = k})

\* A date has one schedule at most, however many runs write at once, and every
\* schedule that a search can find has all its berths, no two with the same number
\* in the same coach, and says of each class that as many are left as there are,
\* give or take the seats that bookings have moved.
SchedulesAreWhole ==
  \A d \in ScheduleDate :
    /\ Cardinality(schedule[d]) <= 1
    /\ \A s \in schedule[d] :
         /\ s.berths = AllBerths
         /\ \A k \in Class : /\ BerthsIn(s, k) - s.moved <= s.left[k]
                             /\ s.left[k] <= BerthsIn(s, k) + s.moved
         /\ \A b, c \in s.berths : b.coach = c.coach /\ b.number = c.number => b = c
=============================================================================
