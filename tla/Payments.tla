------------------------------ MODULE Payments ------------------------------
(***************************************************************************)
(* The way of a payment: a booking service asks payment-service for a      *)
(* PaymentIntent of Stripe, the traveller pays it, Stripe calls the        *)
(* webhook until it is answered, the webhook writes an event to the topic  *)
(* of the booking's domain, and the consumer of that service, which has    *)
(* already committed the offset of the event it reads, confirms a booking  *)
(* that it has found pending.  A booking may also be confirmed by hand: by *)
(* its traveller in bus-service, by an administrator in flight-service.    *)
(* What confirming does is FlightBooking and BusBooking; here a booking is *)
(* a status and a payment.                                                 *)
(***************************************************************************)
EXTENDS Naturals, Sequences

CONSTANTS Trip,      \* bookings
          Domain,    \* the services that take payments: "flight" and "bus"
          Intent,    \* bound: PaymentIntents
          NoTrip, NoIntent

ASSUME PaymentAssumption ==
  /\ Domain \subseteq {"flight", "bus"}
  /\ NoTrip \notin Trip /\ NoIntent \notin Intent

TripStatus == {"PENDING_PAYMENT", "CONFIRMED", "ENDED"}

VARIABLES
  domainOf,   \* domainOf[b]: the service that booking b was made with
  tripStatus, \* status of a booking
  paidBy,     \* payment_ref of a booking
  asking,     \* bookings with a CreateOrder call under way
  tripOf,     \* tripOf[i]: booking_id in the metadata of PaymentIntent i
  payable,    \* intents whose client secret has reached the traveller
  paid,       \* intents that have succeeded
  hooks,      \* intents whose success Stripe has not had an answer 200 to
  topic,      \* topic[d]: events written and not read, in order
  reading,    \* reading[d]: the event that the consumer has read
  found,      \* domains whose consumer has found the booking pending
  running,    \* domains whose consumer loop is running
  confirming, \* bus bookings whose traveller's request has found them pending
  byHand,     \* history: bookings whose status somebody has written by hand
  lost,       \* intents an event of which could not be written to the topic, or
              \* went down with the consumer that had read it
  heard       \* intents that a consumer has dealt with

orderVars == <<domainOf, asking, tripOf, payable, paid, hooks>>
topicVars == <<topic, lost>>
loopVars  == <<reading, found, running, heard>>
handVars  == <<confirming, byHand>>
payVars == <<tripStatus, paidBy, orderVars, topicVars, loopVars, handVars>>

PaymentInit ==
  /\ domainOf \in [Trip -> Domain]
  /\ tripStatus = [b \in Trip |-> "PENDING_PAYMENT"]
  /\ paidBy = [b \in Trip |-> NoIntent]
  /\ asking = {} /\ payable = {} /\ paid = {} /\ hooks = {}
  /\ tripOf = [i \in Intent |-> NoTrip]
  /\ topic = [d \in Domain |-> <<>>] /\ lost = {}
  /\ reading = [d \in Domain |-> NoIntent] /\ found = {} /\ running = Domain
  /\ heard = {} /\ confirming = {} /\ byHand = {}
-----------------------------------------------------------------------------
(* The intents. *)

NewIntent == {i \in Intent : tripOf[i] = NoTrip}

\* Each call makes a new intent; nothing looks for an earlier one.
InitiatePayment(b) ==
  /\ tripStatus[b] = "PENDING_PAYMENT"
  /\ NewIntent # {}
  /\ asking' = asking \cup {b}
  /\ UNCHANGED <<domainOf, tripStatus, paidBy, tripOf, payable, paid, hooks,
                 topicVars, loopVars, handVars>>

\* The secret may come after the five seconds that the booking service waits for
\* it; the intent exists all the same.  Which new intent it is is no matter.
CreateOrder(b, i) ==
  /\ b \in asking /\ tripOf[i] = NoTrip
  /\ i = CHOOSE new \in NewIntent : TRUE
  /\ tripOf' = [tripOf EXCEPT ![i] = b]
  /\ payable' \in {payable, payable \cup {i}}
  /\ asking' = asking \ {b}
  /\ UNCHANGED <<domainOf, tripStatus, paidBy, paid, hooks, topicVars, loopVars,
                 handVars>>

\* Stripe refuses, or payment-service is not there.
OrderFails(b) ==
  /\ b \in asking
  /\ asking' = asking \ {b}
  /\ UNCHANGED <<domainOf, tripStatus, paidBy, tripOf, payable, paid, hooks,
                 topicVars, loopVars, handVars>>

\* The traveller pays, whatever has become of the booking.
Pay(i) ==
  /\ i \in payable \ paid
  /\ paid' = paid \cup {i}
  /\ hooks' = hooks \cup {i}
  /\ UNCHANGED <<domainOf, tripStatus, paidBy, asking, tripOf, payable, topicVars,
                 loopVars, handVars>>
-----------------------------------------------------------------------------
(* The webhook and the topics. *)

EventType == {"payment_intent.created", "payment_intent.succeeded"}

\* Mutated form: what the event says is not looked at.
AnyType(type) == TRUE

Forwarded(type) == type = "payment_intent.succeeded"

\* Mutated form: the first domain only.
FlightTopic(i) == IF domainOf[tripOf[i]] = "flight" THEN {"flight"} ELSE {}

\* The topic that the domain in the metadata selects: flight-payment-topic or
\* bus-payment-topic.
TopicOf(i) == {d \in Domain : domainOf[tripOf[i]] = d}

\* One event for an intent at a time, and one partition: what the webhooks write
\* comes in any order to begin with.
Queued(events, i) ==
  IF \E n \in DOMAIN events : events[n] = i THEN events ELSE Append(events, i)

\* An error of the write is logged, and that is all.
Publish(i) ==
  \/ /\ topic' = [d \in Domain |-> IF d \in TopicOf(i) THEN Queued(topic[d], i)
                                                        ELSE topic[d]]
     /\ UNCHANGED lost
  \/ /\ lost' = lost \cup {i}
     /\ UNCHANGED topic

\* The webhook answers 200 whatever Publish did; the answer may be lost, and the
\* event is then delivered again.
HandleStripeWebhook(i, type) ==
  /\ IF type = "payment_intent.succeeded" THEN i \in hooks ELSE tripOf[i] # NoTrip
  /\ IF Forwarded(type) THEN Publish(i) ELSE UNCHANGED topicVars
  /\ hooks' \in IF type = "payment_intent.succeeded" THEN {hooks, hooks \ {i}} ELSE {hooks}
  /\ UNCHANGED <<domainOf, tripStatus, paidBy, asking, tripOf, payable, paid,
                 loopVars, handVars>>
-----------------------------------------------------------------------------
(* The consumers. *)

\* ReadMessage commits the offset and returns the event.
ReadMessage(d) ==
  /\ d \in running /\ reading[d] = NoIntent
  /\ topic[d] # <<>>
  /\ reading' = [reading EXCEPT ![d] = Head(topic[d])]
  /\ topic' = [topic EXCEPT ![d] = Tail(topic[d])]
  /\ UNCHANGED <<tripStatus, paidBy, orderVars, lost, found, running, heard, handVars>>

\* An error of ReadMessage ends the loop, while the process goes on.
LoopEnds(d) ==
  /\ d \in running /\ reading[d] = NoIntent
  /\ running' = running \ {d}
  /\ UNCHANGED <<tripStatus, paidBy, orderVars, topicVars, reading, found, heard, handVars>>

\* The process stops, and takes the event it has read with it.
ServiceStops(d) ==
  /\ d \in running
  /\ running' = running \ {d}
  /\ lost' = lost \cup ({reading[d]} \ {NoIntent})
  /\ reading' = [reading EXCEPT ![d] = NoIntent]
  /\ found' = found \ {d}
  /\ UNCHANGED <<tripStatus, paidBy, orderVars, topic, heard, handVars>>

\* main starts the consumers: nothing else does, and nothing in the program
\* starts the process again.
ServiceStarts(d) ==
  /\ d \notin running
  /\ running' = running \cup {d}
  /\ UNCHANGED <<tripStatus, paidBy, orderVars, topicVars, reading, found, heard, handVars>>

Done(d) ==
  /\ heard' = heard \cup {reading[d]}
  /\ reading' = [reading EXCEPT ![d] = NoIntent]

\* ProcessPaymentEvent goes on with a booking that is pending.
FindPending(d) ==
  /\ reading[d] # NoIntent /\ d \notin found
  /\ tripStatus[tripOf[reading[d]]] = "PENDING_PAYMENT"
  /\ found' = found \cup {d}
  /\ UNCHANGED <<tripStatus, paidBy, orderVars, topicVars, reading, running, heard, handVars>>

\* One that is not pending is skipped, and its payment with it, and so is one
\* that cannot be read.
SkipEvent(d) ==
  /\ reading[d] # NoIntent /\ d \notin found
  /\ Done(d)
  /\ UNCHANGED <<tripStatus, paidBy, orderVars, topicVars, found, running, handVars>>

\* ConfirmBooking: status and payment_ref by the booking's id alone, whatever
\* has become of it since it was read; or an error that is logged.
ConfirmPaid(d) ==
  /\ d \in found
  /\ LET b == tripOf[reading[d]] IN
       \/ /\ tripStatus' = [tripStatus EXCEPT ![b] = "CONFIRMED"]
          /\ paidBy' = [paidBy EXCEPT ![b] = reading[d]]
       \/ UNCHANGED <<tripStatus, paidBy>>
  /\ Done(d)
  /\ found' = found \ {d}
  /\ UNCHANGED <<orderVars, topicVars, running, handVars>>

ProcessPaymentEvent(d) == FindPending(d) \/ SkipEvent(d) \/ ConfirmPaid(d)
-----------------------------------------------------------------------------
(* Bookings without a payment. *)

\* POST /:bookingId/confirm of bus-service, for the traveller: ConfirmBooking
\* with no payment_ref, again by what it has read before.
ConfirmByHand(b) ==
  /\ domainOf[b] = "bus" /\ b \notin confirming
  /\ tripStatus[b] = "PENDING_PAYMENT"
  /\ confirming' = confirming \cup {b}
  /\ UNCHANGED <<tripStatus, paidBy, orderVars, topicVars, loopVars, byHand>>

\* Its write, which leaves payment_ref as it is; or it fails.
ConfirmUnpaid(b) ==
  /\ b \in confirming
  /\ confirming' = confirming \ {b}
  /\ \/ /\ tripStatus' = [tripStatus EXCEPT ![b] = "CONFIRMED"]
        /\ byHand' = byHand \cup {b}
     \/ UNCHANGED <<tripStatus, byHand>>
  /\ UNCHANGED <<paidBy, orderVars, topicVars, loopVars>>

\* PUT /admin/bookings/:id/status of flight-service: any status.
ForceUpdateBookingStatus(b) ==
  /\ domainOf[b] = "flight"
  /\ \E st \in TripStatus : tripStatus' = [tripStatus EXCEPT ![b] = st]
  /\ byHand' = byHand \cup {b}
  /\ UNCHANGED <<paidBy, orderVars, topicVars, loopVars, confirming>>

\* The booking expires or is cancelled.  flight-service saves the whole row as it
\* was read, perhaps before the payment was written into it.
TripEnds(b) ==
  /\ tripStatus[b] # "ENDED"
  /\ tripStatus' = [tripStatus EXCEPT ![b] = "ENDED"]
  /\ \/ UNCHANGED paidBy
     \/ domainOf[b] = "flight" /\ paidBy' = [paidBy EXCEPT ![b] = NoIntent]
  /\ UNCHANGED <<orderVars, topicVars, loopVars, handVars>>

PaymentNext ==
  \/ \E b \in Trip :
       \/ InitiatePayment(b) \/ OrderFails(b) \/ TripEnds(b)
       \/ ConfirmByHand(b) \/ ConfirmUnpaid(b) \/ ForceUpdateBookingStatus(b)
       \/ \E i \in Intent : CreateOrder(b, i)
  \/ \E i \in Intent : \/ Pay(i)
                        \/ \E type \in EventType : HandleStripeWebhook(i, type)
  \/ \E d \in Domain : \/ LoopEnds(d) \/ ServiceStops(d) \/ ServiceStarts(d)
                        \/ ReadMessage(d) \/ FindPending(d) \/ SkipEvent(d) \/ ConfirmPaid(d)

PaymentSpec == PaymentInit /\ [][PaymentNext]_payVars

\* Stripe delivers events, and a loop that runs reads and deals with them.  Nobody
\* promises that a loop which has ended is started again.
PaymentFairness ==
  /\ \A i \in Intent :
       WF_payVars(HandleStripeWebhook(i, "payment_intent.succeeded"))
  /\ \A d \in Domain : WF_payVars(ReadMessage(d) \/ ProcessPaymentEvent(d))
-----------------------------------------------------------------------------
PaymentTypeOK ==
  /\ domainOf \in [Trip -> Domain]
  /\ tripStatus \in [Trip -> TripStatus]
  /\ paidBy \in [Trip -> Intent \cup {NoIntent}]
  /\ asking \subseteq Trip /\ tripOf \in [Intent -> Trip \cup {NoTrip}]
  /\ payable \subseteq Intent /\ paid \subseteq payable
  /\ hooks \subseteq paid
  /\ topic \in [Domain -> Seq(Intent)] /\ lost \subseteq Intent
  /\ reading \in [Domain -> Intent \cup {NoIntent}] /\ running \subseteq Domain
  /\ found \subseteq {d \in Domain : reading[d] # NoIntent}
  /\ heard \subseteq Intent /\ confirming \subseteq Trip /\ byHand \subseteq Trip

\* The payment a booking shows was made for that booking and has succeeded, and
\* a booking that nobody wrote by hand is confirmed with one only, however often
\* the events of all its intents are delivered, in whatever order, and whatever
\* happens between the consumer's read and its write.
ConfirmedWasPaid ==
  \A b \in Trip :
    /\ paidBy[b] # NoIntent => paidBy[b] \in paid /\ tripOf[paidBy[b]] = b
    /\ tripStatus[b] = "CONFIRMED" /\ b \notin byHand => paidBy[b] # NoIntent

\* A consumer whose loop runs for good gets to know of every payment made for a
\* booking of its service, those included that were made while it was down,
\* unless the one write to the topic failed or the event was lost with a process
\* that had read it.
PaymentIsHeard ==
  \A d \in Domain :
    <>[](d \in running) =>
      <>[](\A i \in paid : domainOf[tripOf[i]] = d => i \in heard \cup lost)
=============================================================================
