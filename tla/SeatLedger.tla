----------------------------- MODULE SeatLedger -----------------------------
(***************************************************************************)
(* What a travel service promises about the seat counter of one departure, *)
(* whatever its handlers, jobs and consumers do concurrently: a booking is *)
(* deducted from the counter at most once, when its ticket is issued, and  *)
(* given back at most once, when it is cancelled, and never given back     *)
(* without having been deducted.  The nightly inventory job may set the    *)
(* counter back to the full quota; what was sold before that is then       *)
(* forgotten by the counter, which soldBefore and returnedBefore record.   *)
(* FlightBooking implements this specification.                            *)
(***************************************************************************)
EXTENDS Integers, FiniteSets

CONSTANTS Booking,    \* bookings of the departure
          Passenger,  \* passengers travelling on them
          BookingOf,  \* BookingOf[p] is the booking that passenger p is on
          Quota       \* seats the platform may sell on the departure

ASSUME LedgerAssumption ==
  /\ IsFiniteSet(Passenger)
  /\ BookingOf \in [Passenger -> Booking]
  /\ Quota \in Nat

VARIABLES sold,           \* bookings whose ticket has been issued
          returned,       \* bookings whose cancellation has been recorded
          avail,          \* the seat counter
          soldBefore,     \* sold, when the counter was last reset
          returnedBefore  \* returned, when the counter was last reset

ledgerVars == <<sold, returned, avail, soldBefore, returnedBefore>>

\* The passengers of a set of bookings.
Travellers(B) == {p \in Passenger : BookingOf[p] \in B}

LedgerInit ==
  /\ sold = {} /\ returned = {}
  /\ soldBefore = {} /\ returnedBefore = {}
  /\ avail = Quota

\* Mutated form: the other tickets are lost when one is issued.
SellOnly(b) ==
  /\ b \notin sold
  /\ sold' = {b}
  /\ avail' = avail - Cardinality(Travellers({b}))
  /\ UNCHANGED <<returned, soldBefore, returnedBefore>>

Sell(b) ==
  /\ b \notin sold
  /\ sold' = sold \cup {b}
  /\ avail' = avail - Cardinality(Travellers({b}))
  /\ UNCHANGED <<returned, soldBefore, returnedBefore>>

\* Recording a cancellation of b, sold or not.
GiveBack(b) ==
  /\ b \notin returned
  /\ returned' = returned \cup {b}
  /\ avail' = avail + Cardinality(Travellers({b}))
  /\ UNCHANGED <<sold, soldBefore, returnedBefore>>

Return(b) == b \in sold /\ GiveBack(b)

\* The inventory job writes the full quota over the counter.
Reset ==
  /\ avail' = Quota
  /\ soldBefore' = sold
  /\ returnedBefore' = returned
  /\ UNCHANGED <<sold, returned>>

LedgerNext == (\E b \in Booking : Sell(b) \/ Return(b)) \/ Reset

LedgerSpec == LedgerInit /\ [][LedgerNext]_ledgerVars
-----------------------------------------------------------------------------
LedgerTypeOK ==
  /\ sold \subseteq Booking /\ returned \subseteq Booking
  /\ soldBefore \subseteq sold /\ returnedBefore \subseteq returned
  /\ avail \in Int

\* The counter is the quota less the passengers ticketed and plus the
\* passengers cancelled since the counter was last reset: no confirmation and
\* no cancellation is counted twice or lost.
Conserved ==
  avail = Quota - Cardinality(Travellers(sold \ soldBefore))
                + Cardinality(Travellers(returned \ returnedBefore))

\* Seats are only ever given back for bookings that had been deducted.
ReturnedWereSold == returned \subseteq sold
=============================================================================
