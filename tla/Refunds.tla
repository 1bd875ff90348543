------------------------------- MODULE Refunds -------------------------------
(***************************************************************************)
(* What a booking service promises about money that goes back, whatever    *)
(* its handlers, consumers and payment-service do at the same time: for a  *)
(* booking, a refund is asked for once at most, after it was paid and      *)
(* after its cancellation was recorded; the money goes back or it does     *)
(* not, once; and the user is never told that it went back when it did     *)
(* not.  What the user is told may lag behind, or be overwritten by the    *)
(* late news of a call that took too long.                                 *)
(* FlightBooking, BusBooking and TrainBooking implement this               *)
(* specification, each with tables of its own.                             *)
(***************************************************************************)
EXTENDS Naturals

CONSTANT Booking

VARIABLES paid,      \* bookings whose payment is on record
          recorded,  \* bookings whose cancellation, with a refund, is on record
          calls,     \* how often the refund of a booking was asked for
          accepted,  \* bookings whose money has gone back
          refused,   \* bookings whose refund was turned down
          shown      \* bookings that the user sees as refunded

refundsVars == <<paid, recorded, calls, accepted, refused, shown>>

RefundsInit ==
  /\ paid = {} /\ recorded = {}
  /\ calls = [b \in Booking |-> 0]
  /\ accepted = {} /\ refused = {} /\ shown = {}

Pay(b) ==
  /\ b \notin paid
  /\ paid' = paid \cup {b}
  /\ UNCHANGED <<recorded, calls, accepted, refused, shown>>

Record(b) ==
  /\ b \notin recorded
  /\ recorded' = recorded \cup {b}
  /\ UNCHANGED <<paid, calls, accepted, refused, shown>>

\* CreateRefund, or the event that asks for it.
Call(b) ==
  /\ b \in paid \cap recorded
  /\ calls[b] = 0
  /\ calls' = [calls EXCEPT ![b] = 1]
  /\ UNCHANGED <<paid, recorded, accepted, refused, shown>>

\* The refund was asked for and not answered.
Open(b) == calls[b] = 1 /\ b \notin accepted \cup refused

\* A service that hears of it by an event alone shows it in the same step.
Accept(b) ==
  /\ Open(b)
  /\ accepted' = accepted \cup {b}
  /\ shown' \in {shown, shown \cup {b}}
  /\ UNCHANGED <<paid, recorded, calls, refused>>

Refuse(b) ==
  /\ Open(b)
  /\ refused' = refused \cup {b}
  /\ UNCHANGED <<paid, recorded, calls, accepted, shown>>

Show(b) ==
  /\ b \in accepted \ shown
  /\ shown' = shown \cup {b}
  /\ UNCHANGED <<paid, recorded, calls, accepted, refused>>

\* The call is over its time, although the money went back.
Hide(b) ==
  /\ b \in shown
  /\ shown' = shown \ {b}
  /\ UNCHANGED <<paid, recorded, calls, accepted, refused>>

RefundsNext ==
  \E b \in Booking :
    \/ Pay(b) \/ Record(b) \/ Call(b)
    \/ Accept(b) \/ Refuse(b) \/ Show(b) \/ Hide(b)

RefundsSpec == RefundsInit /\ [][RefundsNext]_refundsVars
=============================================================================
