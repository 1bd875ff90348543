------------------------- MODULE FlightBookingProofs -------------------------
(***************************************************************************)
(* Theorems about FlightBooking, for any number of bookings, passengers,   *)
(* seats, consumers and cancellation requests.                             *)
(***************************************************************************)
EXTENDS FlightBooking, FiniteSetTheorems, TLAPS

\* Every step of the specification is one of these: the disjuncts of Next with
\* the handlers' own disjunctions flattened.
LEMMA NextCases ==
  ASSUME Next
  PROVE
    \/ \E b \in Booking :
         \/ StartCreate(b) \/ LockSeat(b) \/ InsertBooking(b)
         \/ FailCreate(b) \/ CrashCreate(b)
         \/ \E p \in Passenger : SkipSeat(b, p)
         \/ \E p \in Passenger, s \in Seat : CheckSeat(b, p, s)
         \/ ExpiresAtPasses(b) \/ PaymentRefunds(b)
         \/ ForceUpdateBookingStatus(b)
         \/ \E c \in Consumer : ReceivePayment(c, b)
         \/ \E r \in Request : CancelRead(r, b)
    \/ \E s \in Seat : LockExpires(s)
    \/ \E c \in Consumer : ConfirmCommit(c) \/ ConfirmFails(c) \/ ReleaseSeats(c)
    \/ \E r \in Request : \/ CancelCommit(r) \/ CancelFails(r) \/ CallRefund(r)
                          \/ RefundReturns(r) \/ RefundErrors(r)
    \/ \E e \in events : ConsumeRefundEvent(e)
    \/ ExpireBookings \/ CancelFlightInstance \/ ResetCounters \/ RefreshSeats
  BY Zenon DEF Next, CreateBooking, ConfirmBooking, CancelBooking

\* The number of travellers of one booking is a natural number.
LEMMA TravellersFinite ==
  ASSUME NEW B
  PROVE  /\ IsFiniteSet(Travellers(B))
         /\ Cardinality(Travellers(B)) \in Nat
  <1>1. Travellers(B) \subseteq Passenger
    BY DEF Travellers
  <1>2. IsFiniteSet(Travellers(B))
    BY <1>1, FlightAssumption, FS_Subset
  <1>3. QED
    BY <1>2, FS_CardinalityType

\* Deleting lock keys leaves a well-typed lock table.
LEMMA ReleasedType ==
  ASSUME lock \in [Seat -> Booking \cup {None}], NEW S
  PROVE  Released(S) \in [Seat -> Booking \cup {None}]
  BY DEF Released

-----------------------------------------------------------------------------
(* Type correctness. *)

LEMMA InitTypeOK == Init => TypeOK
  <1> SUFFICES ASSUME Init PROVE TypeOK
    OBVIOUS
  <1> USE FlightAssumption DEF Init
  <1>1. CreationOK
    BY DEF CreationOK
  <1>2. RowsOK
    <2>1. status \in [Booking -> Status]
      BY DEF Status
    <2>2. refund \in [Booking -> RefundStatus]
      BY DEF RefundStatus
    <2>3. available \subseteq Seat /\ avail \in Int /\ instance \in {"SCHEDULED", "CANCELLED"}
      OBVIOUS
    <2>4. /\ ticketed = {} /\ soldBefore = {} /\ overdue = {}
          /\ cancelled = {} /\ returnedBefore = {}
      OBVIOUS
    <2>5. QED
      BY <2>1, <2>2, <2>3, <2>4 DEF RowsOK
  <1>3. ConsumersOK
    BY DEF ConsumersOK, IdleConsumer
  <1>4. RequestsOK
    BY DEF RequestsOK, IdleRequest, RefundStatus
  <1>5. OutsideOK
    BY DEF OutsideOK
  <1>6. QED
    BY <1>1, <1>2, <1>3, <1>4, <1>5 DEF TypeOK
\* No step of any handler, job or administrator leaves the types.
LEMMA TypeOKStep == TypeOK /\ [Next]_vars => TypeOK'
  <1> SUFFICES ASSUME TypeOK, [Next]_vars PROVE TypeOK'
    OBVIOUS
  <1> USE DEF TypeOK, CreationOK, RowsOK, ConsumersOK, RequestsOK, OutsideOK,
              createVars, rowVars, refundVars, resetVars
  <1>1. ASSUME NEW b \in Booking, StartCreate(b)
        PROVE  TypeOK'
    BY <1>1 DEF StartCreate
  <1>2. ASSUME NEW b \in Booking, NEW p \in Passenger, SkipSeat(b, p)
        PROVE  TypeOK'
    BY <1>2 DEF SkipSeat
  <1>3. ASSUME NEW b \in Booking, NEW p \in Passenger, NEW s \in Seat, CheckSeat(b, p, s)
        PROVE  TypeOK'
    BY <1>3 DEF CheckSeat
  <1>4. ASSUME NEW b \in Booking, LockSeat(b)
        PROVE  TypeOK'
    BY <1>4 DEF LockSeat
  <1>5. ASSUME NEW b \in Booking, FailCreate(b)
        PROVE  TypeOK'
    BY ReleasedType, <1>5 DEF FailCreate, Forget, Creating
  <1>6. ASSUME NEW b \in Booking, CrashCreate(b)
        PROVE  TypeOK'
    BY <1>6 DEF CrashCreate, Forget, Creating
  <1>7. ASSUME NEW b \in Booking, InsertBooking(b)
        PROVE  TypeOK'
    BY <1>7 DEF InsertBooking, Status
  <1>8. ASSUME NEW s \in Seat, LockExpires(s)
        PROVE  TypeOK'
    BY ReleasedType, <1>8 DEF LockExpires
  <1>9. ASSUME NEW b \in Booking, ExpiresAtPasses(b)
        PROVE  TypeOK'
    BY <1>9 DEF ExpiresAtPasses
  <1>10. CASE ExpireBookings
    BY <1>10 DEF ExpireBookings, Status
  <1>11. ASSUME NEW c \in Consumer, NEW b \in Booking, ReceivePayment(c, b)
        PROVE  TypeOK'
    BY <1>11 DEF ReceivePayment
  <1>12. ASSUME NEW c \in Consumer, ConfirmCommit(c)
        PROVE  TypeOK'
    BY TravellersFinite, <1>12 DEF ConfirmCommit, Status
  <1>13. ASSUME NEW c \in Consumer, ConfirmFails(c)
        PROVE  TypeOK'
    BY <1>13 DEF ConfirmFails, IdleConsumer
  <1>14. ASSUME NEW c \in Consumer, ReleaseSeats(c)
        PROVE  TypeOK'
    BY ReleasedType, <1>14 DEF ReleaseSeats, IdleConsumer
  <1>15. ASSUME NEW r \in Request, NEW b \in Booking, CancelRead(r, b)
        PROVE  TypeOK'
    BY <1>15 DEF CancelRead, RefundPlans, RefundStatus
  <1>16. ASSUME NEW r \in Request, CancelCommit(r)
        PROVE  TypeOK'
    <2> DEFINE b == request[r].booking
    <2>1. b \in Booking /\ request[r].refund \in RefundStatus
      BY <1>16 DEF CancelCommit
    <2>2. RowsOK'
      <3>1. available' \subseteq Seat
        BY <1>16 DEF CancelCommit, Vacated, SeatsOf, Travellers
      <3>2. avail' \in Int
        BY <1>16, TravellersFinite DEF CancelCommit
      <3>3. refund' \in [Booking -> RefundStatus]
        BY <1>16, <2>1 DEF CancelCommit
      <3>4. QED
        BY <1>16, <2>1, <3>1, <3>2, <3>3 DEF CancelCommit, Status
    <2>3. RequestsOK'
      <3>1. CASE request' = [request EXCEPT ![r].step = "call"]
        BY <1>16, <2>1, <3>1
      <3>2. CASE request' = [request EXCEPT ![r] = IdleRequest]
        BY <3>2 DEF IdleRequest, RefundStatus
      <3>3. QED
        BY <1>16, <3>1, <3>2 DEF CancelCommit
    <2>4. QED
      BY <1>16, <2>2, <2>3 DEF CancelCommit
  <1>17. ASSUME NEW r \in Request, CancelFails(r)
        PROVE  TypeOK'
    BY <1>17 DEF CancelFails, IdleRequest, RefundStatus
  <1>18. ASSUME NEW r \in Request, CallRefund(r)
        PROVE  TypeOK'
    <2>1. RequestsOK'
      BY <1>18 DEF CallRefund
    <2>2. refundCalls' \in [Booking -> Nat]
      BY <1>18 DEF CallRefund
    <2>3. refundRPC' \in [Booking -> {"none", "sent", "refunded", "refund_failed"}]
      BY <1>18 DEF CallRefund
    <2>4. QED
      BY <1>18, <2>1, <2>2, <2>3 DEF CallRefund
  <1>19. ASSUME NEW b \in Booking, PaymentRefunds(b)
        PROVE  TypeOK'
    BY <1>19 DEF PaymentRefunds
  <1>20. ASSUME NEW r \in Request, RefundReturns(r)
        PROVE  TypeOK'
    BY <1>20 DEF RefundReturns, IdleRequest, RefundStatus
  <1>21. ASSUME NEW r \in Request, RefundErrors(r)
        PROVE  TypeOK'
    BY <1>21 DEF RefundErrors, IdleRequest, RefundStatus
  <1>22. ASSUME NEW e \in events, ConsumeRefundEvent(e)
        PROVE  TypeOK'
    BY <1>22 DEF ConsumeRefundEvent, OutcomeStatus, RefundStatus
  <1>23. ASSUME NEW b \in Booking, ForceUpdateBookingStatus(b)
        PROVE  TypeOK'
    BY FlightAssumption, <1>23 DEF ForceUpdateBookingStatus, Status
  <1>24. CASE CancelFlightInstance
    BY <1>24 DEF CancelFlightInstance, Status
  <1>25. CASE ResetCounters
    BY FlightAssumption, <1>25 DEF ResetCounters
  <1>26. CASE RefreshSeats
    BY ReleasedType, FlightAssumption, <1>26 DEF RefreshSeats
  <1>27. CASE UNCHANGED vars
    BY <1>27 DEF vars
  <1>28. QED
    BY Zenon, NextCases, <1>1, <1>2, <1>3, <1>4, <1>5, <1>6, <1>7, <1>8, <1>9,
       <1>10, <1>11, <1>12, <1>13, <1>14, <1>15, <1>16, <1>17, <1>18, <1>19,
       <1>20, <1>21, <1>22, <1>23, <1>24, <1>25, <1>26, <1>27

\* Every handler keeps its rows, locals and messages in their types, however
\* the handlers, consumers and jobs interleave.
THEOREM FlightTypeOK == Spec => []TypeOK
  BY InitTypeOK, TypeOKStep, PTL DEF Spec
-----------------------------------------------------------------------------
(* The seat counter. *)

LedgerProofs ==
  INSTANCE SeatLedgerProofs WITH sold <- ticketed, returned <- cancelled

\* Sets are counted alike in the three modules.
LEMMA SameCardinality ==
  ASSUME NEW S
  PROVE  /\ LedgerProofs!Cardinality(S) = Cardinality(S)
         /\ Ledger!Cardinality(S) = Cardinality(S)
  <1>1. LedgerProofs!Cardinality(S) = Cardinality(S)
    BY DEF LedgerProofs!Cardinality, Cardinality
  <1>2. Ledger!Cardinality(S) = Cardinality(S)
    BY DEF Ledger!Cardinality, Cardinality
  <1>3. QED
    BY <1>1, <1>2

LEMMA LedgerAssumed == LedgerProofs!LedgerAssumption
  <1>1. LedgerProofs!IsFiniteSet(Passenger)
    BY FlightAssumption DEF FlightAssumption, LedgerProofs!IsFiniteSet,
       IsFiniteSet
  <1>2. QED
    BY <1>1, FlightAssumption DEF LedgerProofs!LedgerAssumption

\* Whatever the handlers do, the tables behind the counter change in one of the
\* ledger's three ways: the two unique indexes are what makes it so.
LEMMA StepsOnLedger ==
  ASSUME TypeOK, [Next]_vars
  PROVE  \/ \E b \in Booking : \/ LedgerProofs!Sell(b)
                               \/ \E r \in Request : /\ request[r].booking = b
                                                     /\ CancelCommit(r)
                                                     /\ LedgerProofs!GiveBack(b)
         \/ LedgerProofs!Reset
         \/ UNCHANGED LedgerProofs!ledgerVars
  <1> USE DEF LedgerProofs!ledgerVars, createVars, rowVars, refundVars, resetVars
  <1>1. ASSUME NEW c \in Consumer, ConfirmCommit(c)
        PROVE  \E b \in Booking : LedgerProofs!Sell(b)
    <2>1. consumer[c].booking \in Booking
      BY <1>1 DEF TypeOK, ConsumersOK, ConfirmCommit
    <2>2. LedgerProofs!Sell(consumer[c].booking)
      BY <1>1, SameCardinality
      DEF ConfirmCommit, TicketUnique, LedgerProofs!Sell, Travellers,
          LedgerProofs!Travellers
    <2>3. QED
      BY <2>1, <2>2
  <1>2. ASSUME NEW r \in Request, CancelCommit(r)
        PROVE  \E b \in Booking : /\ request[r].booking = b
                                  /\ CancelCommit(r) /\ LedgerProofs!GiveBack(b)
    <2>1. request[r].booking \in Booking
      BY <1>2 DEF TypeOK, RequestsOK, CancelCommit
    <2>2. LedgerProofs!GiveBack(request[r].booking)
      BY <1>2, SameCardinality
      DEF CancelCommit, CancellationUnique, LedgerProofs!GiveBack, Travellers,
          LedgerProofs!Travellers
    <2>3. QED
      BY <1>2, <2>1, <2>2
  <1>3. CASE ResetCounters
    BY <1>3 DEF ResetCounters, LedgerProofs!Reset
  <1>4. ASSUME NEW b \in Booking,
               \/ StartCreate(b) \/ LockSeat(b) \/ InsertBooking(b)
               \/ FailCreate(b) \/ CrashCreate(b)
               \/ \E p \in Passenger : SkipSeat(b, p)
               \/ \E p \in Passenger, s \in Seat : CheckSeat(b, p, s)
        PROVE  UNCHANGED LedgerProofs!ledgerVars
    BY <1>4 DEF StartCreate, LockSeat, InsertBooking, FailCreate, CrashCreate,
                SkipSeat, CheckSeat
  <1>5. ASSUME NEW b \in Booking,
               \/ ExpiresAtPasses(b) \/ PaymentRefunds(b)
               \/ ForceUpdateBookingStatus(b)
               \/ \E c \in Consumer : ReceivePayment(c, b)
               \/ \E r \in Request : CancelRead(r, b)
        PROVE  UNCHANGED LedgerProofs!ledgerVars
    BY <1>5 DEF ExpiresAtPasses, PaymentRefunds, ForceUpdateBookingStatus,
                ReceivePayment, CancelRead
  <1>6. ASSUME NEW c \in Consumer, ConfirmFails(c) \/ ReleaseSeats(c)
        PROVE  UNCHANGED LedgerProofs!ledgerVars
    BY <1>6 DEF ConfirmFails, ReleaseSeats
  <1>7. ASSUME NEW r \in Request,
               \/ CancelFails(r) \/ CallRefund(r)
               \/ RefundReturns(r) \/ RefundErrors(r)
        PROVE  UNCHANGED LedgerProofs!ledgerVars
    BY <1>7 DEF CancelFails, CallRefund, RefundReturns, RefundErrors
  <1>8. ASSUME \/ \E s \in Seat : LockExpires(s)
               \/ \E e \in events : ConsumeRefundEvent(e)
               \/ ExpireBookings \/ CancelFlightInstance \/ RefreshSeats
        PROVE  UNCHANGED LedgerProofs!ledgerVars
    BY <1>8 DEF LockExpires, ConsumeRefundEvent, ExpireBookings,
                CancelFlightInstance, RefreshSeats
  <1>9. CASE UNCHANGED vars
    BY <1>9 DEF vars
  <1>10. QED
    BY Zenon, NextCases, <1>1, <1>2, <1>3, <1>4, <1>5, <1>6, <1>7, <1>8, <1>9

\* For any number of bookings, consumers and cancellation requests, and
\* whatever statuses an administrator writes, available_* is the quota less
\* the passengers ticketed and plus those cancelled since the last run of the
\* inventory job.
THEOREM CounterCorrect == Spec => []CounterMatchesTables
  <1> DEFINE IInv == LedgerProofs!LedgerTypeOK /\ LedgerProofs!Conserved
  <1>1. Init => IInv
    <2>1. Init => LedgerProofs!LedgerInit
      BY DEF Init, LedgerProofs!LedgerInit
    <2>2. QED
      BY <2>1, LedgerAssumed, LedgerProofs!InitConserved
  <1>2. ASSUME TypeOK, IInv, [Next]_vars
        PROVE  IInv'
    <2>1. ASSUME NEW b \in Booking, LedgerProofs!Sell(b) PROVE IInv'
      BY <1>2, <2>1, LedgerAssumed, LedgerProofs!SellConserves
    <2>2. ASSUME NEW b \in Booking, LedgerProofs!GiveBack(b) PROVE IInv'
      BY <1>2, <2>2, LedgerAssumed, LedgerProofs!GiveBackConserves
    <2>3. CASE LedgerProofs!Reset
      BY <1>2, <2>3, LedgerAssumed, LedgerProofs!ResetConserves
    <2>4. CASE UNCHANGED LedgerProofs!ledgerVars
      BY <1>2, <2>4 DEF LedgerProofs!ledgerVars, LedgerProofs!LedgerTypeOK,
         LedgerProofs!Conserved, LedgerProofs!Travellers
    <2>5. QED
      BY <1>2, <2>1, <2>2, <2>3, <2>4, StepsOnLedger
  <1>3. IInv => CounterMatchesTables
    BY SameCardinality DEF CounterMatchesTables, Ledger!Conserved,
       LedgerProofs!Conserved,
           Ledger!Travellers, LedgerProofs!Travellers
  <1>4. QED
    BY FlightTypeOK, <1>1, <1>2, <1>3, PTL DEF Spec
-----------------------------------------------------------------------------
(* Refunds. *)

\* What RefundOnce rests on: a handler about to call CreateRefund has itself
\* recorded the cancellation, nobody has called for that booking yet, and no
\* other handler is about to.
RefundInv ==
  /\ \A r \in Request :
       request[r].step = "call" =>
         /\ request[r].booking \in ticketed \cap cancelled
         /\ refundCalls[request[r].booking] = 0
  /\ \A r, q \in Request :
       /\ request[r].step = "call" /\ request[q].step = "call"
       /\ request[r].booking = request[q].booking
       => r = q
  /\ \A r \in Request :
       request[r].step = "cancel" /\ request[r].refund = "PENDING" =>
         request[r].booking \in ticketed
  /\ \A b \in Booking : b \notin cancelled => refundCalls[b] = 0
  /\ RefundOnce

\* Only the cancellation handlers touch their own state, the cancellations and
\* the refund calls; the others at most issue tickets.
LEMMA OtherSteps ==
  ASSUME TypeOK, [Next]_vars,
         ~ \E r \in Request :
             \/ \E b \in Booking : CancelRead(r, b)
             \/ CancelCommit(r) \/ CancelFails(r)
             \/ CallRefund(r) \/ RefundReturns(r) \/ RefundErrors(r)
  PROVE  /\ UNCHANGED <<request, cancelled, refundCalls>>
         /\ ticketed \subseteq ticketed'
  <1> DEFINE Frame == /\ UNCHANGED <<request, cancelled, refundCalls>>
                      /\ ticketed \subseteq ticketed'
  <1> USE DEF createVars, rowVars, refundVars, resetVars
  <1>1. ASSUME NEW c \in Consumer, ConfirmCommit(c)
        PROVE  Frame
    BY <1>1 DEF ConfirmCommit
  <1>2. CASE ResetCounters
    BY <1>2 DEF ResetCounters
  <1>3. ASSUME NEW b \in Booking,
               \/ StartCreate(b) \/ LockSeat(b) \/ InsertBooking(b)
               \/ FailCreate(b) \/ CrashCreate(b)
               \/ \E p \in Passenger : SkipSeat(b, p)
               \/ \E p \in Passenger, s \in Seat : CheckSeat(b, p, s)
        PROVE  Frame
    BY <1>3 DEF StartCreate, LockSeat, InsertBooking, FailCreate, CrashCreate,
                SkipSeat, CheckSeat
  <1>4. ASSUME NEW b \in Booking,
               \/ ExpiresAtPasses(b) \/ PaymentRefunds(b)
               \/ ForceUpdateBookingStatus(b)
               \/ \E c \in Consumer : ReceivePayment(c, b)
        PROVE  Frame
    BY <1>4 DEF ExpiresAtPasses, PaymentRefunds, ForceUpdateBookingStatus,
                ReceivePayment
  <1>5. ASSUME NEW c \in Consumer, ConfirmFails(c) \/ ReleaseSeats(c)
        PROVE  Frame
    BY <1>5 DEF ConfirmFails, ReleaseSeats
  <1>6. ASSUME \/ \E s \in Seat : LockExpires(s)
               \/ \E e \in events : ConsumeRefundEvent(e)
               \/ ExpireBookings \/ CancelFlightInstance \/ RefreshSeats
        PROVE  Frame
    BY <1>6 DEF LockExpires, ConsumeRefundEvent, ExpireBookings,
                CancelFlightInstance, RefreshSeats
  <1>7. CASE UNCHANGED vars
    BY <1>7 DEF vars
  <1>8. QED
    BY Zenon, NextCases, <1>1, <1>2, <1>3, <1>4, <1>5, <1>6, <1>7

\* Confirmations only add tickets, which RefundInv survives.
LEMMA RefundInvFrame ==
  ASSUME TypeOK, RefundInv, UNCHANGED <<request, cancelled, refundCalls>>,
         ticketed \subseteq ticketed'
  PROVE  RefundInv'
  BY DEF RefundInv, RefundOnce, TypeOK, RequestsOK

\* A handler that steps without entering "cancel" or "call".
LEMMA RefundInvIdle ==
  ASSUME TypeOK, RefundInv, NEW r \in Request, NEW x,
         request' = [request EXCEPT ![r] = x],
         x.step \notin {"cancel", "call"},
         UNCHANGED <<ticketed, cancelled, refundCalls>>
  PROVE  RefundInv'
  <1>1. \A q \in Request : q # r => request'[q] = request[q]
    BY DEF TypeOK, RequestsOK
  <1>2. request'[r] = x
    BY DEF TypeOK, RequestsOK
  <1>3. QED
    BY <1>1, <1>2 DEF RefundInv, RefundOnce

LEMMA RefundInvCancel ==
  ASSUME TypeOK, RefundInv, NEW r \in Request,
         CancelCommit(r)
  PROVE  RefundInv'
  <1> DEFINE b == request[r].booking
  <1>1. /\ b \in Booking /\ b \notin cancelled
        /\ cancelled' = cancelled \cup {b}
        /\ UNCHANGED <<ticketed, refundCalls>>
    BY DEF TypeOK, RequestsOK, CancelCommit, CancellationUnique
  <1>2. \A q \in Request \ {r} : request'[q] = request[q]
    BY DEF TypeOK, RequestsOK, CancelCommit
  <1>3. /\ request'[r].step # "cancel"
        /\ request'[r].step = "call" =>
             request'[r].booking = b /\ request[r].refund = "PENDING"
    BY DEF TypeOK, RequestsOK, CancelCommit, IdleRequest
  <1>4. request[r].refund = "PENDING" => b \in ticketed
    BY DEF RefundInv, CancelCommit
  <1>5. refundCalls[b] = 0
    BY <1>1 DEF RefundInv
  <1>6. \A q \in Request \ {r} : request[q].step = "call" => request[q].booking # b
    BY <1>1 DEF RefundInv
  <1>7. RefundOnce'
    BY <1>1 DEF RefundInv, RefundOnce
  <1>8. QED
    BY <1>1, <1>2, <1>3, <1>4, <1>5, <1>6, <1>7 DEF RefundInv

LEMMA RefundInvCall ==
  ASSUME TypeOK, RefundInv, NEW r \in Request, CallRefund(r)
  PROVE  RefundInv'
  <1> DEFINE b == request[r].booking
  <1>1. /\ b \in ticketed \cap cancelled /\ refundCalls[b] = 0
        /\ UNCHANGED <<ticketed, cancelled>>
    BY DEF RefundInv, CallRefund, rowVars
  <1>2. \A q \in Request \ {r} : request'[q] = request[q]
    BY DEF TypeOK, RequestsOK, CallRefund
  <1>3. request'[r].step = "wait"
    BY DEF TypeOK, RequestsOK, CallRefund
  <1>4. /\ refundCalls'[b] = 1
        /\ \A d \in Booking \ {b} : refundCalls'[d] = refundCalls[d]
    BY <1>1 DEF TypeOK, RowsOK, OutsideOK, CallRefund
  <1>5. \A q \in Request \ {r} : request[q].step = "call" => request[q].booking # b
    BY DEF RefundInv, CallRefund
  <1>6. \A q \in Request \ {r} :
          request[q].step = "call" => request[q].booking \in Booking
    BY DEF TypeOK, RequestsOK
  <1>7. RefundOnce'
    BY <1>1, <1>4 DEF RefundInv, RefundOnce
  <1>8. QED
    BY <1>1, <1>2, <1>3, <1>4, <1>5, <1>6, <1>7 DEF RefundInv

LEMMA RefundInvStep ==
  ASSUME TypeOK, RefundInv, [Next]_vars
  PROVE  RefundInv'
  <1>1. ASSUME NEW r \in Request, NEW b \in Booking, CancelRead(r, b)
        PROVE  RefundInv'
    <2>1. \A q \in Request \ {r} : request'[q] = request[q]
      BY <1>1 DEF TypeOK, RequestsOK, CancelRead
    <2>2. /\ request'[r].step = "cancel"
          /\ request'[r].booking = b
          /\ request'[r].refund = "PENDING" => b \in ticketed
      BY <1>1 DEF TypeOK, RequestsOK, CancelRead, RefundPlans
    <2>3. UNCHANGED <<ticketed, cancelled, refundCalls>>
      BY <1>1 DEF CancelRead, rowVars, refundVars
    <2>4. QED
      BY <2>1, <2>2, <2>3 DEF RefundInv, RefundOnce
  <1>2. ASSUME NEW r \in Request, CancelFails(r) \/ RefundReturns(r) \/ RefundErrors(r)
        PROVE  RefundInv'
    <2>1. request' = [request EXCEPT ![r] = IdleRequest]
      BY <1>2 DEF CancelFails, RefundReturns, RefundErrors
    <2>2. UNCHANGED <<ticketed, cancelled, refundCalls>>
      BY <1>2 DEF CancelFails, RefundReturns, RefundErrors, rowVars, refundVars
    <2>3. IdleRequest.step \notin {"cancel", "call"}
      BY DEF IdleRequest
    <2>4. QED
      BY <2>1, <2>2, <2>3, RefundInvIdle
  <1>3. QED
    BY <1>1, <1>2, OtherSteps, RefundInvFrame, RefundInvCancel, RefundInvCall

\* However many handlers cancel a booking at once, and whatever statuses an
\* administrator writes in between, payment-service is asked for one refund at
\* most, and only for a booking both paid and cancelled.
THEOREM OneRefundPerBooking == Spec => []RefundOnce
  <1>1. Init => RefundInv
    BY DEF Init, RefundInv, RefundOnce, IdleRequest
  <1>2. RefundInv => RefundOnce
    BY DEF RefundInv
  <1>3. QED
    BY FlightTypeOK, <1>1, <1>2, RefundInvStep, PTL DEF Spec

\* What the refund shown to the user rests on: an event on the way says what
\* payment-service did, payment-service does nothing before it is asked, and
\* the row of a cancellation starts with no outcome.
OutcomesAreTrue ==
  /\ \A e \in events : refundRPC[e.booking] = e.type
  /\ \A b \in Booking : refundCalls[b] = 0 => refundRPC[b] = "none"
  /\ \A r \in Request :
       request[r].step = "cancel" => request[r].refund # "COMPLETED"
  /\ CompletedMeansRefunded

\* Creations, confirmations, time and administrators have no part in refunds.
LEMMA RefundFrame ==
  ASSUME [Next]_vars,
         ~ \E r \in Request :
             \/ \E b \in Booking : CancelRead(r, b)
             \/ CancelCommit(r) \/ CancelFails(r)
             \/ CallRefund(r) \/ RefundReturns(r) \/ RefundErrors(r),
         ~ \E b \in Booking : PaymentRefunds(b),
         ~ \E e \in events : ConsumeRefundEvent(e)
  PROVE  UNCHANGED <<request, refundVars>>
  <1>1. ASSUME NEW b \in Booking,
               \/ StartCreate(b) \/ LockSeat(b) \/ InsertBooking(b)
               \/ FailCreate(b) \/ CrashCreate(b)
               \/ \E p \in Passenger : SkipSeat(b, p)
               \/ \E p \in Passenger, s \in Seat : CheckSeat(b, p, s)
        PROVE  UNCHANGED <<request, refundVars>>
    BY <1>1 DEF StartCreate, LockSeat, InsertBooking, FailCreate, CrashCreate,
                SkipSeat, CheckSeat
  <1>2. ASSUME NEW b \in Booking,
               \/ ExpiresAtPasses(b) \/ ForceUpdateBookingStatus(b)
               \/ \E c \in Consumer : ReceivePayment(c, b)
        PROVE  UNCHANGED <<request, refundVars>>
    BY <1>2 DEF ExpiresAtPasses, ForceUpdateBookingStatus, ReceivePayment
  <1>3. ASSUME NEW c \in Consumer,
               ConfirmCommit(c) \/ ConfirmFails(c) \/ ReleaseSeats(c)
        PROVE  UNCHANGED <<request, refundVars>>
    BY <1>3 DEF ConfirmCommit, ConfirmFails, ReleaseSeats
  <1>4. ASSUME \/ \E s \in Seat : LockExpires(s)
               \/ ExpireBookings \/ CancelFlightInstance
               \/ ResetCounters \/ RefreshSeats
        PROVE  UNCHANGED <<request, refundVars>>
    BY <1>4 DEF LockExpires, ExpireBookings, CancelFlightInstance,
                ResetCounters, RefreshSeats
  <1>5. CASE UNCHANGED vars
    BY <1>5 DEF vars
  <1>6. QED
    BY Zenon, NextCases, <1>1, <1>2, <1>3, <1>4, <1>5

\* The cancellation's own transaction, and the timeout of its call.
LEMMA CancellationOutcomes ==
  ASSUME TypeOK, OutcomesAreTrue, NEW r \in Request,
         \/ \E b \in Booking : CancelRead(r, b)
         \/ CancelCommit(r) \/ CancelFails(r)
         \/ RefundReturns(r) \/ RefundErrors(r)
  PROVE  OutcomesAreTrue'
  <1>1. UNCHANGED <<refundRPC, refundCalls, events>>
    BY DEF CancelRead, CancelCommit, CancelFails, RefundReturns, RefundErrors,
           refundVars
  <1>2. \A q \in Request :
          request'[q].step = "cancel" => request'[q].refund # "COMPLETED"
    <2>1. ASSUME NEW b \in Booking, CancelRead(r, b)
          PROVE  \A q \in Request :
                   request'[q].step = "cancel" => request'[q].refund # "COMPLETED"
      <3>1. "COMPLETED" \notin RefundPlans(b)
        BY DEF RefundPlans
      <3>2. QED
        BY <2>1, <3>1 DEF CancelRead, OutcomesAreTrue, TypeOK, RequestsOK
    <2>2. ASSUME \/ CancelCommit(r) \/ CancelFails(r)
                 \/ RefundReturns(r) \/ RefundErrors(r)
          PROVE  \A q \in Request :
                   request'[q].step = "cancel" => request'[q].refund # "COMPLETED"
      BY <2>2 DEF CancelCommit, CancelFails, RefundReturns, RefundErrors,
                  IdleRequest, OutcomesAreTrue, TypeOK, RequestsOK
    <2>3. QED
      BY <2>1, <2>2
  <1>3. \A b \in Booking :
          refund'[b] = "COMPLETED" => refund[b] = "COMPLETED"
    BY DEF CancelRead, CancelCommit, CancelFails, RefundReturns, RefundErrors,
           refundVars, OutcomesAreTrue, TypeOK, RowsOK
  <1>4. QED
    BY <1>1, <1>2, <1>3 DEF OutcomesAreTrue, CompletedMeansRefunded

\* The call is the first for its booking: nothing has been reported yet.
LEMMA CallOutcomes ==
  ASSUME TypeOK, RefundInv, OutcomesAreTrue, NEW r \in Request, CallRefund(r)
  PROVE  OutcomesAreTrue'
  <1> DEFINE b == request[r].booking
  <1>1. /\ b \in Booking /\ refundCalls[b] = 0 /\ refundRPC[b] = "none"
        /\ refundRPC' = [refundRPC EXCEPT ![b] = "sent"]
        /\ refundCalls' = [refundCalls EXCEPT ![b] = @ + 1]
        /\ UNCHANGED <<refund, events>>
    BY DEF CallRefund, RefundInv, OutcomesAreTrue, TypeOK, RequestsOK
  <1>2. \A e \in events : e.booking # b
    BY <1>1 DEF OutcomesAreTrue, TypeOK, OutsideOK
  <1>3. refund[b] # "COMPLETED"
    BY <1>1 DEF OutcomesAreTrue, CompletedMeansRefunded
  <1>4. \A q \in Request :
          request'[q].step = "cancel" => request'[q].refund # "COMPLETED"
    BY DEF CallRefund, OutcomesAreTrue, TypeOK, RequestsOK
  <1>5. /\ refundRPC'[b] = "sent" /\ refundCalls'[b] = 1
        /\ \A d \in Booking \ {b} : /\ refundRPC'[d] = refundRPC[d]
                                    /\ refundCalls'[d] = refundCalls[d]
    BY <1>1 DEF TypeOK, OutsideOK
  <1>6. \A e \in events' : e.booking \in Booking \ {b}
    BY <1>1, <1>2 DEF TypeOK, OutsideOK
  <1>7. QED
    BY <1>1, <1>3, <1>4, <1>5, <1>6 DEF OutcomesAreTrue, CompletedMeansRefunded

\* payment-service answers a call it has, once, and the row follows the event.
LEMMA ReportOutcomes ==
  ASSUME TypeOK, OutcomesAreTrue,
         \/ \E b \in Booking : PaymentRefunds(b)
         \/ \E e \in events : ConsumeRefundEvent(e)
  PROVE  OutcomesAreTrue'
  <1>1. ASSUME NEW b \in Booking, PaymentRefunds(b)
        PROVE  OutcomesAreTrue'
    <2>1. PICK outcome \in {"refunded", "refund_failed"} :
            /\ refundRPC' = [refundRPC EXCEPT ![b] = outcome]
            /\ events' \subseteq events \cup {[type |-> outcome, booking |-> b]}
      BY <1>1 DEF PaymentRefunds
    <2>2. refundRPC[b] = "sent" /\ UNCHANGED <<refund, refundCalls, request>>
      BY <1>1 DEF PaymentRefunds
    <2>3. \A e \in events : e.booking # b
      BY <2>2 DEF OutcomesAreTrue, TypeOK, OutsideOK
    <2>4. \A e \in events' : refundRPC'[e.booking] = e.type
      BY <2>1, <2>3 DEF OutcomesAreTrue, TypeOK, OutsideOK
    <2>5. QED
      BY <2>1, <2>2, <2>4
      DEF OutcomesAreTrue, CompletedMeansRefunded, TypeOK, OutsideOK
  <1>2. ASSUME NEW e \in events, ConsumeRefundEvent(e)
        PROVE  OutcomesAreTrue'
    <2>1. /\ events' \subseteq events
          /\ UNCHANGED <<refundRPC, refundCalls, request>>
      BY <1>2 DEF ConsumeRefundEvent
    <2>2. OutcomeStatus(e.type) = "COMPLETED" => refundRPC[e.booking] = "refunded"
      BY DEF OutcomeStatus, OutcomesAreTrue
    <2>3. \A b \in Booking :
            refund'[b] = "COMPLETED" =>
              refund[b] = "COMPLETED" \/ refundRPC[b] = "refunded"
      BY <1>2, <2>2 DEF ConsumeRefundEvent, TypeOK, RowsOK, OutsideOK
    <2>4. QED
      BY <2>1, <2>3 DEF OutcomesAreTrue, CompletedMeansRefunded
  <1>3. QED
    BY <1>1, <1>2

LEMMA OutcomesStep ==
  ASSUME TypeOK, RefundInv, OutcomesAreTrue, [Next]_vars
  PROVE  OutcomesAreTrue'
  <1>1. ASSUME UNCHANGED <<request, refundVars>>
        PROVE  OutcomesAreTrue'
    BY <1>1 DEF OutcomesAreTrue, CompletedMeansRefunded, refundVars
  <1>2. QED
    BY Zenon, RefundFrame, CancellationOutcomes, CallOutcomes, ReportOutcomes,
       <1>1

\* No cancellation is shown as refunded before Stripe took the refund, in
\* whatever order the call, its timeout, its answer and the events are seen,
\* and whatever an administrator writes.
THEOREM CompletedIsTrue == Spec => []CompletedMeansRefunded
  <1>1. Init => RefundInv /\ OutcomesAreTrue
    BY DEF Init, RefundInv, RefundOnce, IdleRequest, OutcomesAreTrue,
           CompletedMeansRefunded
  <1>2. OutcomesAreTrue => CompletedMeansRefunded
    BY DEF OutcomesAreTrue
  <1>3. QED
    BY FlightTypeOK, <1>1, <1>2, RefundInvStep, OutcomesStep, PTL DEF Spec

\* Steps that neither pay, cancel, call, answer nor show.
LEMMA BookFrame ==
  ASSUME [Next]_vars,
         ~ \E c \in Consumer : ConfirmCommit(c),
         ~ \E r \in Request : CancelCommit(r) \/ CallRefund(r) \/ RefundErrors(r),
         ~ \E b \in Booking : PaymentRefunds(b),
         ~ \E e \in events : ConsumeRefundEvent(e)
  PROVE  UNCHANGED <<ticketed, cancelled, refundCalls, refundRPC, refund>>
  <1> USE DEF rowVars, refundVars
  <1>1. ASSUME NEW b \in Booking,
               \/ StartCreate(b) \/ LockSeat(b) \/ InsertBooking(b)
               \/ FailCreate(b) \/ CrashCreate(b)
               \/ \E p \in Passenger : SkipSeat(b, p)
               \/ \E p \in Passenger, s \in Seat : CheckSeat(b, p, s)
        PROVE  UNCHANGED <<ticketed, cancelled, refundCalls, refundRPC, refund>>
    BY <1>1 DEF StartCreate, LockSeat, InsertBooking, FailCreate, CrashCreate,
                SkipSeat, CheckSeat
  <1>2. ASSUME NEW b \in Booking,
               \/ ExpiresAtPasses(b) \/ ForceUpdateBookingStatus(b)
               \/ \E c \in Consumer : ReceivePayment(c, b)
               \/ \E r \in Request : CancelRead(r, b)
        PROVE  UNCHANGED <<ticketed, cancelled, refundCalls, refundRPC, refund>>
    BY <1>2 DEF ExpiresAtPasses, ForceUpdateBookingStatus, ReceivePayment,
                CancelRead
  <1>3. ASSUME \/ \E c \in Consumer : ConfirmFails(c) \/ ReleaseSeats(c)
               \/ \E r \in Request : CancelFails(r) \/ RefundReturns(r)
               \/ \E s \in Seat : LockExpires(s)
        PROVE  UNCHANGED <<ticketed, cancelled, refundCalls, refundRPC, refund>>
    BY <1>3 DEF ConfirmFails, ReleaseSeats, CancelFails, RefundReturns,
                LockExpires
  <1>4. ASSUME \/ ExpireBookings \/ CancelFlightInstance
               \/ ResetCounters \/ RefreshSeats
        PROVE  UNCHANGED <<ticketed, cancelled, refundCalls, refundRPC, refund>>
    BY <1>4 DEF ExpireBookings, CancelFlightInstance, ResetCounters, RefreshSeats
  <1>5. CASE UNCHANGED vars
    BY <1>5 DEF vars
  <1>6. QED
    BY Zenon, NextCases, <1>1, <1>2, <1>3, <1>4, <1>5

\* The answer of payment-service comes to a call that is open.
LEMMA AnswersAreRefunds ==
  ASSUME TypeOK, RefundInv, OutcomesAreTrue, NEW b \in Booking, PaymentRefunds(b)
  PROVE  RefundBook!Accept(b) \/ RefundBook!Refuse(b)
  <1>1. /\ refundRPC[b] = "sent"
        /\ UNCHANGED <<ticketed, cancelled, refundCalls, refund>>
    BY DEF PaymentRefunds, rowVars
  <1>2. refundCalls[b] = 1
    BY <1>1 DEF OutcomesAreTrue, RefundInv, RefundOnce, TypeOK, OutsideOK
  <1>3. CASE refundRPC' = [refundRPC EXCEPT ![b] = "refunded"]
    <2>1. /\ {d \in Booking : refundRPC'[d] = "refunded"}
               = {d \in Booking : refundRPC[d] = "refunded"} \cup {b}
          /\ {d \in Booking : refundRPC'[d] = "refund_failed"}
               = {d \in Booking : refundRPC[d] = "refund_failed"}
      BY <1>1, <1>3 DEF TypeOK, OutsideOK
    <2>2. RefundBook!Accept(b)
      BY <1>1, <1>2, <2>1 DEF RefundBook!Accept, RefundBook!Open
    <2>3. QED
      BY <2>2
  <1>4. CASE refundRPC' = [refundRPC EXCEPT ![b] = "refund_failed"]
    <2>1. /\ {d \in Booking : refundRPC'[d] = "refund_failed"}
               = {d \in Booking : refundRPC[d] = "refund_failed"} \cup {b}
          /\ {d \in Booking : refundRPC'[d] = "refunded"}
               = {d \in Booking : refundRPC[d] = "refunded"}
      BY <1>1, <1>4 DEF TypeOK, OutsideOK
    <2>2. RefundBook!Refuse(b)
      BY <1>1, <1>2, <2>1 DEF RefundBook!Refuse, RefundBook!Open
    <2>3. QED
      BY <2>2
  <1>5. QED
    BY <1>3, <1>4 DEF PaymentRefunds

\* A status written for a booking shows it, hides it or changes nothing; it is
\* shown only when the money went back.
LEMMA WordsAreRefunds ==
  ASSUME TypeOK, OutcomesAreTrue, NEW b \in Booking, NEW w,
         refund' = [refund EXCEPT ![b] = w],
         w = "COMPLETED" => refundRPC[b] = "refunded",
         UNCHANGED <<ticketed, cancelled, refundCalls, refundRPC>>
  PROVE  [RefundBook!RefundsNext]_(RefundBook!refundsVars)
  <1> DEFINE shown == {d \in Booking : refund[d] = "COMPLETED"}
  <1>1. shown' = IF w = "COMPLETED" THEN shown \cup {b} ELSE shown \ {b}
    BY DEF TypeOK, RowsOK
  <1>2. CASE b \in shown /\ w # "COMPLETED"
    BY <1>1, <1>2 DEF RefundBook!Hide, RefundBook!RefundsNext
  <1>3. CASE b \notin shown /\ w = "COMPLETED"
    BY <1>1, <1>3 DEF RefundBook!Show, RefundBook!RefundsNext
  <1>4. CASE b \in shown <=> w = "COMPLETED"
    BY <1>1, <1>4 DEF RefundBook!refundsVars
  <1>5. QED
    BY <1>2, <1>3, <1>4

\* Every step is a step of the abstract refunds or none.
LEMMA StepsOnRefunds ==
  ASSUME TypeOK, RefundInv, OutcomesAreTrue, [Next]_vars
  PROVE  [RefundBook!RefundsNext]_(RefundBook!refundsVars)
  <1> DEFINE Mapped == [RefundBook!RefundsNext]_(RefundBook!refundsVars)
  <1>1. ASSUME NEW c \in Consumer, ConfirmCommit(c)
        PROVE  Mapped
    <2> DEFINE b == consumer[c].booking
    <2>1. /\ b \in Booking /\ b \notin ticketed
          /\ ticketed' = ticketed \cup {b}
          /\ UNCHANGED <<cancelled, refundCalls, refundRPC, refund>>
      BY <1>1 DEF ConfirmCommit, TicketUnique, TypeOK, ConsumersOK, refundVars
    <2>2. RefundBook!Pay(b)
      BY <2>1 DEF RefundBook!Pay
    <2>3. QED
      BY <2>1, <2>2 DEF RefundBook!RefundsNext
  <1>2. ASSUME NEW r \in Request, CancelCommit(r)
        PROVE  Mapped
    <2> DEFINE b == request[r].booking
    <2>1. /\ b \in Booking /\ b \notin cancelled
          /\ cancelled' = cancelled \cup {b}
          /\ refund' = [refund EXCEPT ![b] = request[r].refund]
          /\ request[r].refund # "COMPLETED"
          /\ UNCHANGED <<ticketed, refundCalls, refundRPC>>
      BY <1>2 DEF CancelCommit, CancellationUnique, TypeOK, RequestsOK,
                  OutcomesAreTrue
    <2>2. refund[b] # "COMPLETED"
      BY <2>1 DEF RefundInv, OutcomesAreTrue, CompletedMeansRefunded
    <2>3. {d \in Booking : refund'[d] = "COMPLETED"}
            = {d \in Booking : refund[d] = "COMPLETED"}
      BY <2>1, <2>2 DEF TypeOK, RowsOK
    <2>4. RefundBook!Record(b)
      BY <2>1, <2>3 DEF RefundBook!Record
    <2>5. QED
      BY <2>1, <2>4 DEF RefundBook!RefundsNext
  <1>3. ASSUME NEW r \in Request, CallRefund(r)
        PROVE  Mapped
    <2> DEFINE b == request[r].booking
    <2>1. /\ b \in Booking /\ b \in ticketed \cap cancelled
          /\ refundCalls[b] = 0 /\ refundRPC[b] = "none"
          /\ refundCalls' = [refundCalls EXCEPT ![b] = @ + 1]
          /\ refundRPC' = [refundRPC EXCEPT ![b] = "sent"]
          /\ UNCHANGED <<ticketed, cancelled, refund>>
      BY <1>3 DEF CallRefund, RefundInv, OutcomesAreTrue, TypeOK, RequestsOK,
                  rowVars
    <2>2. refundCalls' = [refundCalls EXCEPT ![b] = 1]
      BY <2>1 DEF TypeOK, OutsideOK
    <2>3. \A w \in {"refunded", "refund_failed"} :
            {d \in Booking : refundRPC'[d] = w} = {d \in Booking : refundRPC[d] = w}
      BY <2>1 DEF TypeOK, OutsideOK
    <2>4. RefundBook!Call(b)
      BY <2>1, <2>2, <2>3 DEF RefundBook!Call
    <2>5. QED
      BY <2>1, <2>4 DEF RefundBook!RefundsNext
  <1>4. ASSUME NEW b \in Booking, PaymentRefunds(b)
        PROVE  Mapped
    BY <1>4, AnswersAreRefunds DEF RefundBook!RefundsNext
  <1>5. ASSUME NEW r \in Request, RefundErrors(r)
        PROVE  Mapped
    <2>1. /\ request[r].booking \in Booking
          /\ refund' = [refund EXCEPT ![request[r].booking] = "FAILED"]
          /\ UNCHANGED <<ticketed, cancelled, refundCalls, refundRPC>>
      BY <1>5 DEF RefundErrors, TypeOK, RequestsOK, rowVars
    <2>2. QED
      BY <2>1, WordsAreRefunds
  <1>6. ASSUME NEW e \in events, ConsumeRefundEvent(e)
        PROVE  Mapped
    <2> DEFINE b == e.booking
               w == IF b \in cancelled THEN OutcomeStatus(e.type) ELSE refund[b]
    <2>1. /\ b \in Booking
          /\ refund' = [refund EXCEPT ![b] = w]
          /\ UNCHANGED <<ticketed, cancelled, refundCalls, refundRPC>>
      BY <1>6 DEF ConsumeRefundEvent, TypeOK, OutsideOK, RowsOK, rowVars
    <2>2. w = "COMPLETED" => refundRPC[b] = "refunded"
      BY <2>1 DEF OutcomeStatus, OutcomesAreTrue, CompletedMeansRefunded
    <2> HIDE DEF b, w
    <2>3. QED
      BY <2>1, <2>2, WordsAreRefunds
  <1>7. ASSUME UNCHANGED <<ticketed, cancelled, refundCalls, refundRPC, refund>>
        PROVE  Mapped
    BY <1>7 DEF RefundBook!refundsVars
  <1> HIDE DEF Mapped
  <1>8. Mapped
    BY Zenon, BookFrame, <1>1, <1>2, <1>3, <1>4, <1>5, <1>6, <1>7
  <1>9. QED
    BY <1>8 DEF Mapped

\* Cancellations, calls, timeouts, answers and events, in any order and with
\* any statuses written by hand, implement the abstract refunds.
THEOREM FlightRefunds == Spec => ImplementsRefunds
  <1>1. Init => RefundInv /\ OutcomesAreTrue
    BY DEF Init, RefundInv, RefundOnce, IdleRequest, OutcomesAreTrue,
           CompletedMeansRefunded
  <1>2. Init => RefundBook!RefundsInit
    BY DEF Init, RefundBook!RefundsInit
  <1>3. QED
    BY FlightTypeOK, <1>1, <1>2, RefundInvStep, OutcomesStep, StepsOnRefunds, PTL
    DEF Spec, ImplementsRefunds, RefundBook!RefundsSpec
-----------------------------------------------------------------------------
(* The life of a booking.  These theorems need administrators not to write   *)
(* CONFIRMED by hand: a booking so confirmed has no ticket, and cancelling   *)
(* it gives back seats that were never deducted.                             *)

\* A booking is inserted before it is paid, ticketed before it is confirmed,
\* and confirmed before it is cancelled, in the rows and in what the handlers
\* have read of them.
LifeInv ==
  /\ \A b \in Booking :
       /\ status[b] # "NONE" => pc[b] = "created"
       /\ b \in ticketed => pc[b] = "created"
       /\ status[b] = "CONFIRMED" => b \in ticketed
  /\ \A c \in Consumer :
       consumer[c].step # "idle" => pc[consumer[c].booking] = "created"
  /\ \A r \in Request :
       request[r].step = "cancel" => request[r].booking \in ticketed
  /\ cancelled \subseteq ticketed

\* The steps of CreateBooking before the insert.
Seating(b) ==
  \/ StartCreate(b) \/ LockSeat(b) \/ FailCreate(b) \/ CrashCreate(b)
  \/ \E p \in Passenger : SkipSeat(b, p)
  \/ \E p \in Passenger, s \in Seat : CheckSeat(b, p, s)

\* They are taken before the booking has a row, and change no row.
LEMMA SeatingFrame ==
  ASSUME TypeOK, NEW b \in Booking, Seating(b)
  PROVE  /\ pc[b] # "created"
         /\ \A d \in Booking \ {b} : pc'[d] = pc[d]
         /\ UNCHANGED <<rowVars, refundVars, instance, consumer, request>>
  <1>1. ASSUME FailCreate(b) \/ CrashCreate(b)
        PROVE  /\ pc[b] # "created"
               /\ \A d \in Booking \ {b} : pc'[d] = pc[d]
               /\ UNCHANGED <<rowVars, refundVars, instance, consumer, request>>
    BY <1>1 DEF FailCreate, CrashCreate, Forget, Creating, TypeOK, CreationOK
  <1>2. ASSUME \/ StartCreate(b) \/ LockSeat(b)
               \/ \E p \in Passenger : SkipSeat(b, p)
               \/ \E p \in Passenger, s \in Seat : CheckSeat(b, p, s)
        PROVE  /\ pc[b] # "created"
               /\ \A d \in Booking \ {b} : pc'[d] = pc[d]
               /\ UNCHANGED <<rowVars, refundVars, instance, consumer, request>>
    BY <1>2 DEF StartCreate, LockSeat, SkipSeat, CheckSeat, TypeOK, CreationOK
  <1>3. QED
    BY <1>1, <1>2 DEF Seating

\* The steps that leave every row and the creations alone, or only write a
\* refund status, a lock, a flag of the instance or a mark of time.
LEMMA QuietFrame ==
  ASSUME \/ \E b \in Booking : ExpiresAtPasses(b) \/ PaymentRefunds(b)
         \/ \E s \in Seat : LockExpires(s)
         \/ \E e \in events : ConsumeRefundEvent(e)
         \/ ResetCounters \/ UNCHANGED vars
  PROVE  UNCHANGED <<createVars, available, status, ticketed, cancelled,
                     consumer, request>>
  BY DEF ExpiresAtPasses, PaymentRefunds, LockExpires, ConsumeRefundEvent,
         ResetCounters, vars, createVars, rowVars, refundVars, resetVars

\* The steps that write bookings.status and nothing else LifeInv speaks of.
LEMMA StatusFrame ==
  ASSUME TypeOK,
         \/ \E b \in Booking : ForceUpdateBookingStatus(b)
         \/ ExpireBookings \/ CancelFlightInstance
  PROVE  /\ \A d \in Booking :
              \/ status'[d] = status[d]
              \/ /\ status[d] # "NONE"
                 /\ status'[d] \in Overrides \cup {"EXPIRED", "CANCELLED_BY_AIRLINE"}
         /\ UNCHANGED <<createVars, available, ticketed, cancelled, consumer,
                        request>>
  <1>1. ASSUME NEW b \in Booking, ForceUpdateBookingStatus(b)
        PROVE  \A d \in Booking :
                 \/ status'[d] = status[d]
                 \/ status[d] # "NONE" /\ status'[d] \in Overrides
    BY <1>1 DEF ForceUpdateBookingStatus, TypeOK, RowsOK
  <1>2. ASSUME ExpireBookings \/ CancelFlightInstance
        PROVE  \A d \in Booking :
                 \/ status'[d] = status[d]
                 \/ /\ status[d] # "NONE"
                    /\ status'[d] \in {"EXPIRED", "CANCELLED_BY_AIRLINE"}
    BY <1>2 DEF ExpireBookings, CancelFlightInstance, Stale
  <1>3. UNCHANGED <<createVars, available, ticketed, cancelled, consumer, request>>
    BY DEF ForceUpdateBookingStatus, ExpireBookings, CancelFlightInstance
  <1>4. QED
    BY <1>1, <1>2, <1>3

LEMMA LifeInvStep ==
  ASSUME "CONFIRMED" \notin Overrides, TypeOK, LifeInv, [Next]_vars
  PROVE  LifeInv'
  <1> USE DEF createVars, rowVars
  <1>1. ASSUME NEW b \in Booking, Seating(b) PROVE LifeInv'
    BY <1>1, SeatingFrame DEF LifeInv, TypeOK, ConsumersOK
  <1>2. ASSUME NEW b \in Booking, InsertBooking(b) PROVE LifeInv'
    BY <1>2 DEF InsertBooking, LifeInv, TypeOK, CreationOK, RowsOK, ConsumersOK
  <1>3. ASSUME \/ \E b \in Booking : ExpiresAtPasses(b) \/ PaymentRefunds(b)
               \/ \E s \in Seat : LockExpires(s)
               \/ \E e \in events : ConsumeRefundEvent(e)
               \/ ResetCounters \/ UNCHANGED vars
        PROVE  LifeInv'
    <2>1. UNCHANGED <<createVars, available, status, ticketed, cancelled,
                      consumer, request>>
      BY <1>3, QuietFrame
    <2>2. QED
      BY <2>1 DEF LifeInv
  <1>4. ASSUME \/ \E b \in Booking : ForceUpdateBookingStatus(b)
               \/ ExpireBookings \/ CancelFlightInstance
        PROVE  LifeInv'
    <2>1. /\ \A d \in Booking :
               \/ status'[d] = status[d]
               \/ /\ status[d] # "NONE"
                  /\ status'[d] \in Overrides \cup {"EXPIRED", "CANCELLED_BY_AIRLINE"}
          /\ UNCHANGED <<createVars, available, ticketed, cancelled, consumer,
                         request>>
      BY <1>4, StatusFrame
    <2>2. QED
      BY <2>1 DEF LifeInv
  <1>5. ASSUME RefreshSeats PROVE LifeInv'
    BY <1>5 DEF RefreshSeats, LifeInv
  <1>6. ASSUME NEW c \in Consumer, NEW b \in Booking, ReceivePayment(c, b)
        PROVE  LifeInv'
    BY <1>6 DEF ReceivePayment, LifeInv, TypeOK, ConsumersOK
  <1>7. ASSUME NEW c \in Consumer, ConfirmCommit(c) PROVE LifeInv'
    <2> DEFINE b == consumer[c].booking
    <2>1. /\ b \in Booking /\ pc[b] = "created"
          /\ ticketed' = ticketed \cup {b}
          /\ UNCHANGED <<pc, cancelled, request>>
      BY <1>7 DEF ConfirmCommit, LifeInv, TypeOK, ConsumersOK
    <2>2. \A d \in Booking \ {b} : status'[d] = status[d]
      BY <1>7 DEF ConfirmCommit, TypeOK, RowsOK
    <2>3. \A d \in Consumer : /\ consumer'[d].booking = consumer[d].booking
                              /\ consumer'[d].step # "idle" => consumer[d].step # "idle"
      BY <1>7 DEF ConfirmCommit, TypeOK, ConsumersOK
    <2>4. QED
      BY <2>1, <2>2, <2>3 DEF LifeInv
  <1>8. ASSUME NEW c \in Consumer, ConfirmFails(c) \/ ReleaseSeats(c)
        PROVE  LifeInv'
    BY <1>8 DEF ConfirmFails, ReleaseSeats, IdleConsumer, LifeInv, TypeOK,
       ConsumersOK
  <1>9. ASSUME NEW r \in Request, NEW b \in Booking, CancelRead(r, b)
        PROVE  LifeInv'
    BY <1>9 DEF CancelRead, LifeInv, TypeOK, RequestsOK
  <1>10. ASSUME NEW r \in Request, CancelCommit(r) PROVE LifeInv'
    <2> DEFINE b == request[r].booking
    <2>1. /\ b \in ticketed
          /\ cancelled' = cancelled \cup {b}
          /\ UNCHANGED <<pc, ticketed, consumer>>
      BY <1>10 DEF CancelCommit, LifeInv
    <2>2. \A d \in Booking : \/ status'[d] = status[d]
                             \/ status'[d] = "CANCELLED" /\ d \in ticketed
      BY <1>10, <2>1 DEF CancelCommit, TypeOK, RowsOK
    <2>3. \A q \in Request : request'[q].step = "cancel" => request'[q] = request[q]
      BY <1>10 DEF CancelCommit, IdleRequest, TypeOK, RequestsOK
    <2>4. QED
      BY <2>1, <2>2, <2>3 DEF LifeInv
  <1>11. ASSUME NEW r \in Request,
                \/ CancelFails(r) \/ CallRefund(r)
                \/ RefundReturns(r) \/ RefundErrors(r)
         PROVE  LifeInv'
    <2>1. \A q \in Request : request'[q].step = "cancel" => request'[q] = request[q]
      BY <1>11 DEF CancelFails, CallRefund, RefundReturns, RefundErrors,
                   IdleRequest, TypeOK, RequestsOK
    <2>2. UNCHANGED <<createVars, status, ticketed, cancelled, consumer>>
      BY <1>11 DEF CancelFails, CallRefund, RefundReturns, RefundErrors
    <2>3. QED
      BY <2>1, <2>2 DEF LifeInv
  <1>12. QED
    BY Zenon, NextCases, <1>1, <1>2, <1>3, <1>4, <1>5, <1>6, <1>7, <1>8, <1>9,
       <1>10, <1>11 DEF Seating

LEMMA LifeInvInit == Init => LifeInv
  BY DEF Init, LifeInv, IdleConsumer, IdleRequest

\* The tables and the counter behave as the abstract ledger: every ticket is
\* deducted once, and only ticketed bookings are ever given back.
THEOREM TablesImplementLedger ==
  ASSUME "CONFIRMED" \notin Overrides
  PROVE  Spec => ImplementsLedger
  <1>1. Init => Ledger!LedgerInit
    BY DEF Init, Ledger!LedgerInit
  <1>2. ASSUME TypeOK, LifeInv, [Next]_vars
        PROVE  [Ledger!LedgerNext]_Ledger!ledgerVars
    <2>1. ASSUME NEW b \in Booking, LedgerProofs!Sell(b) PROVE Ledger!LedgerNext
      BY <2>1, SameCardinality
         DEF LedgerProofs!Sell, Ledger!LedgerNext, Ledger!Sell, LedgerProofs!Travellers,
             Ledger!Travellers
    <2>2. ASSUME NEW r \in Request, request[r].booking \in Booking,
                 CancelCommit(r), LedgerProofs!GiveBack(request[r].booking)
          PROVE  Ledger!LedgerNext
      <3>1. request[r].booking \in ticketed
        BY <1>2, <2>2 DEF CancelCommit, LifeInv
      <3>2. QED
        BY <2>2, <3>1, SameCardinality
           DEF LedgerProofs!GiveBack, Ledger!LedgerNext, Ledger!Return, Ledger!GiveBack,
               LedgerProofs!Travellers, Ledger!Travellers
    <2>3. CASE LedgerProofs!Reset
      BY <2>3 DEF LedgerProofs!Reset, Ledger!LedgerNext, Ledger!Reset
    <2>4. CASE UNCHANGED LedgerProofs!ledgerVars
      BY <2>4 DEF LedgerProofs!ledgerVars, Ledger!ledgerVars
    <2>5. QED
      BY <1>2, <2>1, <2>2, <2>3, <2>4, StepsOnLedger
  <1>3. QED
    BY FlightTypeOK, LifeInvInit, LifeInvStep, <1>1, <1>2,
       PTL DEF Spec, ImplementsLedger, Ledger!LedgerSpec

\* Passengers of inserted bookings keep their seats.
LEMMA SeatsFrame ==
  ASSUME TypeOK, LifeInv, [Next]_vars, NEW b \in ticketed
  PROVE  \A s \in Seat \ available : s \in SeatsOf(b) => s \in SeatsOf(b)'
  <1> DEFINE Kept == \A p \in Travellers({b}) :
                       seatOf[p] \in Seat \ available => seatOf'[p] = seatOf[p]
  <1>1. pc[b] = "created" /\ b \in Booking
    BY DEF TypeOK, RowsOK, LifeInv
  <1>2. ASSUME NEW d \in Booking, Seating(d) PROVE Kept
    <2>1. d # b
      BY <1>1, <1>2, SeatingFrame
    <2>2. ASSUME FailCreate(d) \/ CrashCreate(d) PROVE Kept
      BY <2>1, <2>2 DEF FailCreate, CrashCreate, Forget, Travellers, TypeOK,
         CreationOK
    <2>3. ASSUME StartCreate(d) \/ LockSeat(d) \/ \E p \in Passenger : SkipSeat(d, p)
          PROVE  Kept
      BY <2>3 DEF StartCreate, LockSeat, SkipSeat
    <2>4. ASSUME NEW p \in Passenger, NEW s \in Seat, CheckSeat(d, p, s) PROVE Kept
      BY <2>1, <2>4 DEF CheckSeat, Travellers, TypeOK, CreationOK
    <2>5. QED
      BY <1>2, <2>2, <2>3, <2>4 DEF Seating
  <1>3. ASSUME RefreshSeats PROVE Kept
    BY <1>3 DEF RefreshSeats, Deleted, Travellers, TypeOK, CreationOK
  <1>4. ASSUME UNCHANGED seatOf PROVE Kept
    BY <1>4
  <1>5. Kept
    <2> USE DEF createVars, rowVars
    <2>1. ASSUME \/ \E d \in Booking : ForceUpdateBookingStatus(d)
                 \/ ExpireBookings \/ CancelFlightInstance
          PROVE  UNCHANGED seatOf
      BY <2>1, StatusFrame
    <2>2. ASSUME \/ \E d \in Booking : ExpiresAtPasses(d) \/ PaymentRefunds(d)
                 \/ \E s \in Seat : LockExpires(s)
                 \/ \E e \in events : ConsumeRefundEvent(e)
                 \/ ResetCounters \/ UNCHANGED vars
          PROVE  UNCHANGED seatOf
      BY <2>2, QuietFrame
    <2>3. ASSUME NEW d \in Booking,
                 \/ InsertBooking(d)
                 \/ \E c \in Consumer : ReceivePayment(c, d)
                 \/ \E r \in Request : CancelRead(r, d)
          PROVE  UNCHANGED seatOf
      BY <2>3 DEF InsertBooking, ReceivePayment, CancelRead
    <2>4. ASSUME NEW c \in Consumer, ConfirmCommit(c) \/ ConfirmFails(c) \/ ReleaseSeats(c)
          PROVE  UNCHANGED seatOf
      BY <2>4 DEF ConfirmCommit, ConfirmFails, ReleaseSeats
    <2>5. ASSUME NEW r \in Request,
                 \/ CancelCommit(r) \/ CancelFails(r) \/ CallRefund(r)
                 \/ RefundReturns(r) \/ RefundErrors(r)
          PROVE  UNCHANGED seatOf
      BY <2>5 DEF CancelCommit, CancelFails, CallRefund, RefundReturns,
         RefundErrors
    <2>6. QED
      BY Zenon, NextCases, <1>2, <1>3, <1>4, <2>1, <2>2, <2>3, <2>4, <2>5 DEF
         Seating
  <1>6. QED
    BY <1>5, FlightAssumption DEF SeatsOf, FlightAssumption

\* Only confirmations and cancellations touch seats, tickets or cancellations.
LEMMA OwnerFrame ==
  ASSUME TypeOK, [Next]_vars,
         ~ \E c \in Consumer : ConfirmCommit(c),
         ~ \E r \in Request : CancelCommit(r)
  PROVE  UNCHANGED <<available, ticketed, cancelled>>
  <1> DEFINE Same == UNCHANGED <<available, ticketed, cancelled>>
  <1> USE DEF createVars, rowVars
  <1>1. ASSUME NEW b \in Booking, Seating(b) PROVE Same
    BY <1>1, SeatingFrame
  <1>2. ASSUME \/ \E d \in Booking : ForceUpdateBookingStatus(d)
               \/ ExpireBookings \/ CancelFlightInstance
        PROVE  Same
    BY <1>2, StatusFrame
  <1>3. ASSUME \/ \E d \in Booking : ExpiresAtPasses(d) \/ PaymentRefunds(d)
               \/ \E s \in Seat : LockExpires(s)
               \/ \E e \in events : ConsumeRefundEvent(e)
               \/ ResetCounters \/ UNCHANGED vars
        PROVE  Same
    BY <1>3, QuietFrame
  <1>4. ASSUME NEW d \in Booking,
               \/ InsertBooking(d)
               \/ \E c \in Consumer : ReceivePayment(c, d)
               \/ \E r \in Request : CancelRead(r, d)
        PROVE  Same
    BY <1>4 DEF InsertBooking, ReceivePayment, CancelRead
  <1>5. ASSUME NEW c \in Consumer, ConfirmFails(c) \/ ReleaseSeats(c)
        PROVE  Same
    BY <1>5 DEF ConfirmFails, ReleaseSeats
  <1>6. ASSUME NEW r \in Request,
               \/ CancelFails(r) \/ CallRefund(r)
               \/ RefundReturns(r) \/ RefundErrors(r)
        PROVE  Same
    BY <1>6 DEF CancelFails, CallRefund, RefundReturns, RefundErrors
  <1>7. ASSUME RefreshSeats PROVE Same
    BY <1>7 DEF RefreshSeats
  <1>8. QED
    BY Zenon, NextCases, <1>1, <1>2, <1>3, <1>4, <1>5, <1>6, <1>7 DEF Seating

LEMMA NoStrandedSeatStep ==
  ASSUME TypeOK, LifeInv, NoStrandedSeat, [Next]_vars
  PROVE  NoStrandedSeat'
  <1>1. ASSUME NEW b \in ticketed \ cancelled, NEW s \in Seat \ available,
               s \in SeatsOf(b)
        PROVE  s \in SeatsOf(b)'
    BY <1>1, SeatsFrame
  <1>2. ASSUME NEW c \in Consumer, ConfirmCommit(c) PROVE NoStrandedSeat'
    <2>0. PICK b \in Booking : b = consumer[c].booking
      BY <1>2 DEF TypeOK, ConsumersOK, ConfirmCommit
    <2>1. /\ b \notin ticketed
          /\ available' = available \ SeatsOf(b)
          /\ ticketed' = ticketed \cup {b}
          /\ UNCHANGED <<cancelled, seatOf>>
      BY <1>2, <2>0 DEF ConfirmCommit, TicketUnique, createVars
    <2>2. b \notin cancelled
      BY <2>1 DEF LifeInv
    <2>3. SeatsOf(b)' = SeatsOf(b)
      BY <2>1 DEF SeatsOf
    <2>4. ASSUME NEW s \in Seat \ available'
          PROVE  \E d \in ticketed' \ cancelled' : s \in SeatsOf(d)'
      <3>1. CASE s \in SeatsOf(b)
        BY <2>1, <2>2, <2>3, <3>1
      <3>2. CASE s \notin SeatsOf(b)
        <4>1. PICK d \in ticketed \ cancelled : s \in SeatsOf(d)
          BY <2>1, <2>4, <3>2 DEF NoStrandedSeat
        <4>2. s \in SeatsOf(d)'
          BY <1>1, <2>1, <2>4, <3>2, <4>1
        <4>3. QED
          BY <2>1, <4>1, <4>2
      <3>3. QED
        BY <3>1, <3>2
    <2>5. QED
      BY <2>4 DEF NoStrandedSeat
  <1>3. ASSUME NEW r \in Request, CancelCommit(r) PROVE NoStrandedSeat'
    <2> DEFINE b == request[r].booking
    <2>1. /\ available' = available \cup SeatsOf(b)
          /\ cancelled' = cancelled \cup {b}
          /\ UNCHANGED ticketed
      BY <1>3 DEF CancelCommit, Vacated
    <2>2. ASSUME NEW s \in Seat \ available'
          PROVE  \E d \in ticketed' \ cancelled' : s \in SeatsOf(d)'
      <3>1. PICK d \in ticketed \ cancelled : s \in SeatsOf(d)
        BY <2>1, <2>2 DEF NoStrandedSeat
      <3>2. d # b
        BY <2>1, <2>2, <3>1
      <3>3. s \in SeatsOf(d)'
        BY <1>1, <2>1, <2>2, <3>1
      <3>4. QED
        BY <2>1, <3>1, <3>2, <3>3
    <2>3. QED
      BY <2>2 DEF NoStrandedSeat
  <1>4. CASE UNCHANGED <<available, ticketed, cancelled>>
    <2>1. ASSUME NEW s \in Seat \ available'
          PROVE  \E d \in ticketed' \ cancelled' : s \in SeatsOf(d)'
      BY <1>1, <1>4 DEF NoStrandedSeat
    <2>2. QED
      BY <2>1 DEF NoStrandedSeat
  <1>5. QED
    BY <1>2, <1>3, <1>4, OwnerFrame

\* For any bookings, seats and handlers: a seat off sale is the seat of a
\* ticket that was not cancelled.
THEOREM UnavailableSeatsAreTicketed ==
  ASSUME "CONFIRMED" \notin Overrides
  PROVE  Spec => []NoStrandedSeat
  <1>1. Init => NoStrandedSeat
    BY DEF Init, NoStrandedSeat
  <1>2. QED
    BY FlightTypeOK, LifeInvInit, LifeInvStep, <1>1, NoStrandedSeatStep, PTL
       DEF Spec
-----------------------------------------------------------------------------
(* Without overrides by hand, bookings.status is a function of the tables.   *)

\* The only steps that write bookings.status, and what they write.
LEMMA StatusSteps ==
  ASSUME Overrides = {}, TypeOK, [Next]_vars
  PROVE  \/ \E b \in Booking : InsertBooking(b)
         \/ \E c \in Consumer : ConfirmCommit(c)
         \/ \E r \in Request : CancelCommit(r)
         \/ /\ \A b \in Booking :
                 \/ status'[b] = status[b]
                 \/ /\ status[b] = "PENDING_PAYMENT"
                    /\ status'[b] \in {"EXPIRED", "CANCELLED_BY_AIRLINE"}
                 \/ /\ status[b] = "CONFIRMED"
                    /\ status'[b] = "CANCELLED_BY_AIRLINE"
            /\ UNCHANGED <<ticketed, cancelled>>
  <1> DEFINE Frame == /\ \A b \in Booking :
                           \/ status'[b] = status[b]
                           \/ /\ status[b] = "PENDING_PAYMENT"
                              /\ status'[b] \in {"EXPIRED", "CANCELLED_BY_AIRLINE"}
                           \/ /\ status[b] = "CONFIRMED"
                              /\ status'[b] = "CANCELLED_BY_AIRLINE"
                      /\ UNCHANGED <<ticketed, cancelled>>
  <1> USE DEF createVars, rowVars
  <1>1. ASSUME NEW b \in Booking, Seating(b) PROVE Frame
    BY <1>1, SeatingFrame
  <1>2. ASSUME NEW b \in Booking, ForceUpdateBookingStatus(b) PROVE FALSE
    BY <1>2 DEF ForceUpdateBookingStatus
  <1>3. ASSUME ExpireBookings \/ CancelFlightInstance PROVE Frame
    BY <1>3 DEF ExpireBookings, CancelFlightInstance, Stale
  <1>4. ASSUME \/ \E d \in Booking : ExpiresAtPasses(d) \/ PaymentRefunds(d)
               \/ \E s \in Seat : LockExpires(s)
               \/ \E e \in events : ConsumeRefundEvent(e)
               \/ ResetCounters \/ UNCHANGED vars
        PROVE  Frame
    BY <1>4, QuietFrame
  <1>5. ASSUME NEW d \in Booking,
               \/ \E c \in Consumer : ReceivePayment(c, d)
               \/ \E r \in Request : CancelRead(r, d)
        PROVE  Frame
    BY <1>5 DEF ReceivePayment, CancelRead
  <1>6. ASSUME NEW c \in Consumer, ConfirmFails(c) \/ ReleaseSeats(c)
        PROVE  Frame
    BY <1>6 DEF ConfirmFails, ReleaseSeats
  <1>7. ASSUME NEW r \in Request,
               \/ CancelFails(r) \/ CallRefund(r)
               \/ RefundReturns(r) \/ RefundErrors(r)
        PROVE  Frame
    BY <1>7 DEF CancelFails, CallRefund, RefundReturns, RefundErrors
  <1>8. ASSUME RefreshSeats PROVE Frame
    BY <1>8 DEF RefreshSeats
  <1>9. QED
    BY Zenon, NextCases, <1>1, <1>2, <1>3, <1>4, <1>5, <1>6, <1>7, <1>8 DEF
       Seating

\* A row is inserted for a booking that has neither ticket nor cancellation.
LEMMA InsertedIsNew ==
  ASSUME TypeOK, LifeInv, StatusAgrees, NEW b \in Booking, InsertBooking(b)
  PROVE  /\ b \notin ticketed /\ b \notin cancelled
         /\ status[b] = "NONE" /\ status'[b] = "PENDING_PAYMENT"
         /\ \A d \in Booking \ {b} : status'[d] = status[d]
         /\ UNCHANGED <<ticketed, cancelled>>
  BY DEF InsertBooking, LifeInv, TypeOK, RowsOK

\* A ticket is issued for a booking that has none, hence no cancellation.
LEMMA ConfirmedIsNew ==
  ASSUME TypeOK, LifeInv, StatusAgrees, NEW c \in Consumer, ConfirmCommit(c)
  PROVE  \E b \in Booking :
           /\ b \notin ticketed /\ b \notin cancelled
           /\ status[b] # "CANCELLED" /\ status'[b] = "CONFIRMED"
           /\ \A d \in Booking \ {b} : status'[d] = status[d]
           /\ ticketed' = ticketed \cup {b} /\ cancelled' = cancelled
  <1>1. PICK b \in Booking : b = consumer[c].booking
    BY DEF TypeOK, ConsumersOK, ConfirmCommit
  <1>2. /\ b \notin ticketed /\ status'[b] = "CONFIRMED"
        /\ \A d \in Booking \ {b} : status'[d] = status[d]
        /\ ticketed' = ticketed \cup {b} /\ cancelled' = cancelled
    BY <1>1 DEF ConfirmCommit, TicketUnique, TypeOK, RowsOK
  <1>3. b \notin cancelled /\ status[b] # "CANCELLED"
    BY <1>2 DEF LifeInv, StatusAgrees
  <1>4. QED
    BY <1>2, <1>3

\* A cancellation is recorded for a ticketed booking that has none.
LEMMA CancelledIsTicketed ==
  ASSUME TypeOK, LifeInv, NEW r \in Request, CancelCommit(r)
  PROVE  \E b \in Booking :
           /\ b \in ticketed /\ status'[b] = "CANCELLED"
           /\ \A d \in Booking \ {b} : status'[d] = status[d]
           /\ cancelled' = cancelled \cup {b} /\ ticketed' = ticketed
  <1>1. PICK b \in Booking : b = request[r].booking
    BY DEF TypeOK, RequestsOK, CancelCommit
  <1>2. b \in ticketed
    BY <1>1 DEF CancelCommit, LifeInv
  <1>3. /\ status'[b] = "CANCELLED"
        /\ \A d \in Booking \ {b} : status'[d] = status[d]
        /\ cancelled' = cancelled \cup {b} /\ ticketed' = ticketed
    BY <1>1 DEF CancelCommit, TypeOK, RowsOK
  <1>4. QED
    BY <1>2, <1>3

LEMMA StatusAgreesStep ==
  ASSUME Overrides = {}, TypeOK, LifeInv, StatusAgrees, [Next]_vars
  PROVE  /\ StatusAgrees'
         /\ \A b \in Booking : status[b] = "CANCELLED" => status'[b] = "CANCELLED"
  <1> DEFINE Good ==
        /\ StatusAgrees'
        /\ \A b \in Booking : status[b] = "CANCELLED" => status'[b] = "CANCELLED"
  <1>1. ASSUME NEW b \in Booking, InsertBooking(b)
        PROVE  Good
    BY <1>1, InsertedIsNew DEF StatusAgrees
  <1>2. ASSUME NEW c \in Consumer, ConfirmCommit(c)
        PROVE  Good
    BY <1>2, ConfirmedIsNew DEF StatusAgrees
  <1>3. ASSUME NEW r \in Request, CancelCommit(r)
        PROVE  Good
    BY <1>3, CancelledIsTicketed DEF StatusAgrees
  <1>4. ASSUME /\ \A b \in Booking :
                    \/ status'[b] = status[b]
                    \/ /\ status[b] = "PENDING_PAYMENT"
                       /\ status'[b] \in {"EXPIRED", "CANCELLED_BY_AIRLINE"}
                    \/ /\ status[b] = "CONFIRMED"
                       /\ status'[b] = "CANCELLED_BY_AIRLINE"
               /\ UNCHANGED <<ticketed, cancelled>>
        PROVE  Good
    BY <1>4 DEF StatusAgrees
  <1>5. QED
    BY StatusSteps, <1>1, <1>2, <1>3, <1>4

\* Stale reads and repeated events notwithstanding, the status of a booking
\* says whether it has a ticket and whether it has a cancellation.
THEOREM StatusFollowsTables ==
  ASSUME Overrides = {}
  PROVE  Spec => []StatusAgrees
  <1>1. Init => StatusAgrees
    BY DEF Init, StatusAgrees
  <1>2. "CONFIRMED" \notin Overrides
    OBVIOUS
  <1>3. QED
    BY FlightTypeOK, LifeInvInit, LifeInvStep, <1>1, <1>2, StatusAgreesStep,
       PTL DEF Spec

\* No step of any handler, consumer or job revives a cancelled booking.
THEOREM CancellationIsFinal ==
  ASSUME Overrides = {}
  PROVE  Spec => CancelledForGood
  <1>1. "CONFIRMED" \notin Overrides
    OBVIOUS
  <1>2. QED
    BY FlightTypeOK, LifeInvInit, LifeInvStep, StatusFollowsTables, <1>1,
       StatusAgreesStep, PTL DEF Spec, CancelledForGood
=============================================================================
