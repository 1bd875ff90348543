-------------------------- MODULE SeatLedgerProofs --------------------------
(***************************************************************************)
(* The seat counter is conserved by selling, giving back and resetting,    *)
(* for any bookings and any finite set of passengers.                      *)
(***************************************************************************)
EXTENDS SeatLedger, FiniteSetTheorems, TLAPS

\* The passengers of any set of bookings can be counted.
LEMMA TravellersFinite ==
  ASSUME NEW B
  PROVE  /\ IsFiniteSet(Travellers(B))
         /\ Cardinality(Travellers(B)) \in Nat
  <1>1. Travellers(B) \subseteq Passenger
    BY DEF Travellers
  <1>2. IsFiniteSet(Travellers(B))
    BY <1>1, LedgerAssumption, FS_Subset
  <1>3. QED
    BY <1>2, FS_CardinalityType

\* A booking not yet in a set adds exactly its own passengers to it.
LEMMA TravellersAdd ==
  ASSUME NEW B, NEW b, b \notin B
  PROVE  Cardinality(Travellers(B \cup {b})) =
           Cardinality(Travellers(B)) + Cardinality(Travellers({b}))
  <1>1. Travellers(B \cup {b}) = Travellers(B) \cup Travellers({b})
    BY DEF Travellers
  <1>2. Travellers(B) \cap Travellers({b}) = {}
    BY DEF Travellers
  <1>3. Cardinality(Travellers(B) \cap Travellers({b})) = 0
    BY <1>2, FS_EmptySet
  <1>4. Cardinality(Travellers(B) \cup Travellers({b})) =
          Cardinality(Travellers(B)) + Cardinality(Travellers({b}))
          - Cardinality(Travellers(B) \cap Travellers({b}))
    BY TravellersFinite, FS_Union
  <1>5. /\ Cardinality(Travellers(B)) \in Nat
        /\ Cardinality(Travellers({b})) \in Nat
    BY TravellersFinite
  <1>6. Cardinality(Travellers(B)) + Cardinality(Travellers({b})) - 0 =
          Cardinality(Travellers(B)) + Cardinality(Travellers({b}))
    BY <1>5
  <1>7. Cardinality(Travellers(B \cup {b})) =
          Cardinality(Travellers(B)) + Cardinality(Travellers({b})) - 0
    BY <1>1, <1>3, <1>4, Zenon
  <1>8. QED
    BY <1>6, <1>7, Zenon

\* Nobody travels on no booking.
LEMMA TravellersNone == Cardinality(Travellers({})) = 0
  <1>1. Travellers({}) = {}
    BY DEF Travellers
  <1>2. QED
    BY <1>1, FS_EmptySet
-----------------------------------------------------------------------------
LEMMA InitConserved == LedgerInit => LedgerTypeOK /\ Conserved /\ ReturnedWereSold
  <1> SUFFICES ASSUME LedgerInit PROVE LedgerTypeOK /\ Conserved /\ ReturnedWereSold
    OBVIOUS
  <1>1. LedgerTypeOK /\ ReturnedWereSold
    BY LedgerAssumption DEF LedgerInit, LedgerTypeOK, ReturnedWereSold
  <1>2. sold \ soldBefore = {} /\ returned \ returnedBefore = {}
    BY DEF LedgerInit
  <1>3. Conserved
    BY <1>2, TravellersNone, LedgerAssumption DEF LedgerInit, Conserved
  <1>4. QED
    BY <1>1, <1>3

\* Issuing a ticket moves the counter by that booking's passengers.
LEMMA SellConserves ==
  ASSUME LedgerTypeOK, Conserved, NEW b \in Booking, Sell(b)
  PROVE  LedgerTypeOK' /\ Conserved'
  <1>1. LedgerTypeOK'
    BY TravellersFinite DEF LedgerTypeOK, Sell
  <1>2. sold' \ soldBefore' = (sold \ soldBefore) \cup {b}
    BY DEF LedgerTypeOK, Sell
  <1>3. b \notin sold \ soldBefore
    BY DEF Sell
  <1>4. Cardinality(Travellers(sold' \ soldBefore')) =
          Cardinality(Travellers(sold \ soldBefore)) + Cardinality(Travellers({b}))
    BY <1>2, <1>3, TravellersAdd
  <1>5. Conserved'
    BY <1>4, TravellersFinite, LedgerAssumption DEF Conserved, Sell, LedgerTypeOK
  <1>6. QED
    BY <1>1, <1>5

\* Recording a cancellation moves it back by as much.
LEMMA GiveBackConserves ==
  ASSUME LedgerTypeOK, Conserved, NEW b \in Booking, GiveBack(b)
  PROVE  LedgerTypeOK' /\ Conserved'
  <1>1. LedgerTypeOK'
    BY TravellersFinite DEF LedgerTypeOK, GiveBack
  <1>2. returned' \ returnedBefore' = (returned \ returnedBefore) \cup {b}
    BY DEF LedgerTypeOK, GiveBack
  <1>3. b \notin returned \ returnedBefore
    BY DEF GiveBack
  <1>4. Cardinality(Travellers(returned' \ returnedBefore')) =
          Cardinality(Travellers(returned \ returnedBefore))
          + Cardinality(Travellers({b}))
    BY <1>2, <1>3, TravellersAdd
  <1>5. Conserved'
    BY <1>4, TravellersFinite, LedgerAssumption DEF Conserved, GiveBack, LedgerTypeOK
  <1>6. QED
    BY <1>1, <1>5

\* After a reset the counter has nothing to remember.
LEMMA ResetConserves ==
  ASSUME LedgerTypeOK, Conserved, Reset
  PROVE  LedgerTypeOK' /\ Conserved'
  <1>1. LedgerTypeOK'
    BY LedgerAssumption DEF LedgerTypeOK, Reset
  <1>2. sold' \ soldBefore' = {} /\ returned' \ returnedBefore' = {}
    BY DEF Reset
  <1>3. Conserved'
    BY <1>2, TravellersNone, LedgerAssumption DEF Conserved, Reset
  <1>4. QED
    BY <1>1, <1>3
-----------------------------------------------------------------------------
\* The abstract ledger keeps its counter equal to the quota less the tickets
\* and plus the cancellations since the last reset, and gives back only what
\* it sold.
THEOREM LedgerCorrect == LedgerSpec => [](LedgerTypeOK /\ Conserved /\ ReturnedWereSold)
  <1> DEFINE IInv == LedgerTypeOK /\ Conserved /\ ReturnedWereSold
  <1>1. IInv /\ [LedgerNext]_ledgerVars => IInv'
    <2> SUFFICES ASSUME IInv, [LedgerNext]_ledgerVars PROVE IInv'
      OBVIOUS
    <2>1. ASSUME NEW b \in Booking, Sell(b) PROVE IInv'
      BY <2>1, SellConserves DEF Sell, ReturnedWereSold
    <2>2. ASSUME NEW b \in Booking, Return(b) PROVE IInv'
      BY <2>2, GiveBackConserves DEF Return, GiveBack, ReturnedWereSold
    <2>3. CASE Reset
      BY <2>3, ResetConserves DEF Reset, ReturnedWereSold
    <2>4. CASE UNCHANGED ledgerVars
      BY <2>4 DEF ledgerVars, LedgerTypeOK, Conserved, ReturnedWereSold, Travellers
    <2>5. QED
      BY <2>1, <2>2, <2>3, <2>4 DEF LedgerNext
  <1>2. QED
    BY InitConserved, <1>1, PTL DEF LedgerSpec
=============================================================================
