--------------------------- MODULE FrontEndProofs ---------------------------
(***************************************************************************)
(* Theorems about the modules of the front end, each for any number of     *)
(* concurrent webhooks, connections, requests and intents.                 *)
(***************************************************************************)
EXTENDS MCFrontEnd, SequenceTheorems, TLAPS
-----------------------------------------------------------------------------
(* The bot.  Whatever step has been read, written, or is still to be       *)
(* written, the fields asked for before it have been filled, since nothing *)
(* but a restart empties them.                                             *)

\* The fields that are asked for before a step.
Before(s) ==
  CASE s = "ASK_ORIGIN" -> {"Type"}
    [] s = "ASK_DEST"   -> {"Type", "Origin"}
    [] s = "ASK_DATE"   -> {"Type", "Origin", "Dest"}
    [] s = "ASK_PASSENGERS" -> {"Type", "Origin", "Dest", "Date"}
    [] OTHER -> {}

FilledBefore ==
  /\ Before(step) \subseteq filled
  /\ \A w \in Webhook : call[w] # NoCall => Before(call[w]) \subseteq filled

BotInv == BotTypeOK /\ NoBlankSearch /\ FilledBefore

\* An answer fills what the next step takes for granted.
LEMMA AnswerFills ==
  ASSUME NEW s \in Asking
  PROVE  /\ FieldOf(s) \in Field
         /\ After(s) \in Asking \cup {"IDLE"}
         /\ Before(After(s)) \subseteq Before(s) \cup {FieldOf(s)}
         /\ s = "ASK_PASSENGERS" => Field \subseteq Before(s) \cup {FieldOf(s)}
  BY SMT DEF Asking, FieldOf, After, Before, Field

LEMMA InitBotInv == BotInit => BotInv
  BY DEF BotInit, BotInv, BotTypeOK, NoBlankSearch, FilledBefore, Before

LEMMA NextBotInv ==
  ASSUME BotInv, [BotNext]_botVars
  PROVE  BotInv'
  <1> USE DEF BotInv, BotTypeOK, NoBlankSearch, FilledBefore
  <1>1. ASSUME NEW w \in Webhook, Cancel(w)
        PROVE  BotInv'
    <2>1. Before(step') = {}
      BY <1>1 DEF Cancel, Before
    <2>2. QED
      BY <1>1, <2>1 DEF Cancel, KeptOnCancel
  <1>2. ASSUME NEW w \in Webhook, Greet(w)
        PROVE  BotInv'
    <2>1. After(step) = "ASK_TYPE" /\ Before("ASK_TYPE") = {} /\ "ASK_TYPE" \in Asking
      BY <1>2 DEF Greet, After, Before, Asking
    <2>2. QED
      BY <1>2, <2>1 DEF Greet
  <1>3. ASSUME NEW w \in Webhook, TakeAnswer(w)
        PROVE  BotInv'
    <2>1. CASE UNCHANGED <<filled, call, searches>>
      BY <1>3, <2>1 DEF TakeAnswer
    <2>2. CASE /\ filled' = filled \cup {FieldOf(step)}
               /\ call' = [call EXCEPT ![w] = After(step)]
               /\ searches' = IF step = "ASK_PASSENGERS"
                              THEN searches \cup (Field \ filled') ELSE searches
      <3>1. step \in Asking /\ UNCHANGED step /\ cancelled' = FALSE
        BY <1>3 DEF TakeAnswer
      <3>2. searches' = {}
        BY <2>2, <3>1, AnswerFills
      <3>3. filled' \subseteq Field /\ filled \subseteq filled'
        BY <2>2, <3>1, AnswerFills
      <3>4. call' \in [Webhook -> Asking \cup {"IDLE", NoCall}]
        BY <2>2, <3>1, AnswerFills
      <3>5. FilledBefore'
        BY <2>2, <3>1, <3>3, AnswerFills
      <3>6. QED
        BY <3>1, <3>2, <3>3, <3>4, <3>5
    <2>3. QED
      BY <1>3, <2>1, <2>2 DEF TakeAnswer
  <1>4. ASSUME NEW w \in Webhook, NoCase(w)
        PROVE  BotInv'
    BY <1>4 DEF NoCase
  <1>5. ASSUME NEW w \in Webhook, WriteStep(w)
        PROVE  BotInv'
    <2>1. Before("torn") = {}
      BY DEF Before
    <2>2. step' \in {call[w], "torn"} /\ call[w] # NoCall
      BY <1>5 DEF WriteStep
    <2>3. Before(step') \subseteq filled
      BY <2>1, <2>2
    <2>4. QED
      BY <1>5, <2>2, <2>3 DEF WriteStep
  <1>6. CASE Restart
    <2>1. Before("IDLE") = {}
      BY DEF Before
    <2>2. QED
      BY <1>6, <2>1 DEF Restart
  <1>7. CASE UNCHANGED botVars
    BY <1>7 DEF botVars
  <1>8. QED
    BY <1>1, <1>2, <1>3, <1>4, <1>5, <1>6, <1>7 DEF BotNext, HandleMessage

\* However many webhooks of one person run at once, repeat or cancel each other
\* (handleConversation), no search link lacks a field.
THEOREM SearchLinksAreWhole == BotSpec => []NoBlankSearch
  <1>1. BotInv => NoBlankSearch
    BY DEF BotInv
  <1>2. QED
    BY InitBotInv, NextBotInv, <1>1, PTL DEF BotSpec
-----------------------------------------------------------------------------
(* Connections. *)

SocketInv == SocketTypeOK /\ RegisteredIsServed

LEMMA InitSocketInv == SocketInit => SocketInv
  BY SocketAssumption DEF SocketInit, SocketInv, SocketTypeOK, RegisteredIsServed

\* What the steps of the conversation leave alone.
LEMMA TalkInv ==
  ASSUME SocketInv, UNCHANGED <<serving, clients>>, SocketTypeOK'
  PROVE  SocketInv'
  BY DEF SocketInv, RegisteredIsServed

LEMMA NextSocketInv ==
  ASSUME SocketInv, [SocketNext]_socketVars
  PROVE  SocketInv'
  <1> USE SocketAssumption DEF SocketTypeOK
  <1>0. SocketTypeOK /\ RegisteredIsServed
    BY DEF SocketInv
  <1>1. ASSUME NEW s \in Socket, Connect(s)
        PROVE  SocketInv'
    <2>1. SocketTypeOK'
      BY <1>0, <1>1 DEF Connect
    <2>2. RegisteredIsServed'
      BY <1>0, <1>1 DEF Connect, RegisteredIsServed
    <2>3. QED
      BY <2>1, <2>2 DEF SocketInv
  <1>2. ASSUME NEW s \in Socket, ConnectionFails(s)
        PROVE  SocketInv'
    BY <1>0, <1>2, TalkInv DEF ConnectionFails
  <1>3. ASSUME NEW s \in Socket, HandlerEnds(s)
        PROVE  SocketInv'
    <2>1. clients' = [clients EXCEPT ![UserOf[s]] = NoSocket]
      BY <1>3 DEF HandlerEnds, Removed
    <2>2. SocketTypeOK'
      BY <1>0, <1>3, <2>1 DEF HandlerEnds
    <2>3. ASSUME NEW p \in Person, clients'[p] # NoSocket
          PROVE  clients'[p] \in serving' /\ UserOf[clients'[p]] = p
      <3>1. p # UserOf[s] /\ clients'[p] = clients[p]
        BY <1>0, <2>1, <2>3
      <3>2. clients[p] \in serving /\ UserOf[clients[p]] = p
        BY <1>0, <2>3, <3>1 DEF RegisteredIsServed
      <3>3. QED
        BY <1>3, <3>1, <3>2 DEF HandlerEnds
    <2>4. QED
      BY <2>2, <2>3 DEF SocketInv, RegisteredIsServed
  <1>4. ASSUME NEW s \in Socket, NEW x \in Message, HandleSend(s, x) \/ HandleDelete(s, x)
        PROVE  SocketInv'
    BY <1>0, <1>4, TalkInv DEF HandleSend, HandleDelete
  <1>5. ASSUME NEW x \in Message, AdminReply(x)
        PROVE  SocketInv'
    <2>1. Pushed(x) \subseteq [socket : Socket, message : Replies]
      BY <1>0, <1>5 DEF AdminReply, Pushed
    <2>2. SocketTypeOK'
      BY <1>0, <1>5, <2>1 DEF AdminReply
    <2>3. QED
      BY <1>5, <2>2, TalkInv DEF AdminReply
  <1>6. ASSUME NEW w \in pushing, Write(w)
        PROVE  SocketInv'
    BY <1>0, <1>6, TalkInv DEF Write
  <1>7. ASSUME NEW p \in Person, LoadPage(p)
        PROVE  SocketInv'
    BY <1>0, <1>7, TalkInv DEF LoadPage, History
  <1>8. CASE UNCHANGED socketVars
    BY <1>0, <1>8, TalkInv DEF socketVars
  <1>9. QED
    BY <1>1, <1>2, <1>3, <1>4, <1>5, <1>6, <1>7, <1>8 DEF SocketNext

\* Whatever handlers end, and whosever connections they remove and close
\* (RemoveConnection), a connection in the map is its user's and its handler has
\* not returned; it may have failed, and the handler not have noticed yet.
THEOREM MapIsServed == SocketSpec => []RegisteredIsServed
  <1>1. SocketInv => RegisteredIsServed
    BY DEF SocketInv
  <1>2. QED
    BY InitSocketInv, NextSocketInv, <1>1, PTL DEF SocketSpec
-----------------------------------------------------------------------------
(* Payments.  An event is only ever about an intent that was paid, an      *)
(* intent that was paid has had its booking since it was made, and only    *)
(* ConfirmUnpaid and ForceUpdateBookingStatus confirm without a payment:   *)
(* they are written down in byHand.                                        *)

EventsArePaid ==
  /\ topic \in [Domain -> Seq(paid)]
  /\ \A d \in Domain : reading[d] # NoIntent => reading[d] \in paid
  /\ \A i \in payable : tripOf[i] \in Trip

PaymentInv == PaymentTypeOK /\ EventsArePaid /\ ConfirmedWasPaid

LEMMA InitPaymentInv == PaymentInit => PaymentInv
  BY PaymentAssumption
     DEF PaymentInit, PaymentInv, PaymentTypeOK, TripStatus, EventsArePaid,
         ConfirmedWasPaid

\* Steps that touch neither the bookings nor what has been paid for them.
LEMMA PaymentFrame ==
  ASSUME PaymentInv, PaymentTypeOK', EventsArePaid',
         UNCHANGED <<tripStatus, paidBy, byHand>>,
         paid \subseteq paid',
         \A i \in paid : tripOf'[i] = tripOf[i]
  PROVE  PaymentInv'
  BY DEF PaymentInv, ConfirmedWasPaid

\* The intents, the webhook and the topics.
LEMMA OrderPaymentInv ==
  ASSUME PaymentInv,
         \/ \E b \in Trip : \/ InitiatePayment(b) \/ OrderFails(b)
                            \/ \E i \in Intent : CreateOrder(b, i)
         \/ \E i \in Intent : \/ Pay(i)
                              \/ \E type \in EventType : HandleStripeWebhook(i, type)
  PROVE  PaymentInv'
  <1> USE PaymentAssumption
      DEF PaymentTypeOK, EventsArePaid, orderVars, topicVars, loopVars, handVars
  <1>0. PaymentTypeOK /\ EventsArePaid
    BY DEF PaymentInv
  <1>1. ASSUME NEW b \in Trip, InitiatePayment(b) \/ OrderFails(b)
        PROVE  PaymentInv'
    BY <1>0, <1>1, PaymentFrame DEF InitiatePayment, OrderFails
  <1>2. ASSUME NEW b \in Trip, NEW i \in Intent, CreateOrder(b, i)
        PROVE  PaymentInv'
    <2>1. tripOf[i] = NoTrip /\ i \notin payable /\ i \notin paid
      BY <1>0, <1>2 DEF CreateOrder
    <2>2. PaymentTypeOK'
      BY <1>0, <1>2 DEF CreateOrder
    <2>3. EventsArePaid'
      BY <1>0, <1>2, <2>1 DEF CreateOrder
    <2>4. QED
      BY <1>0, <1>2, <2>1, <2>2, <2>3, PaymentFrame DEF CreateOrder
  <1>3. ASSUME NEW i \in Intent, Pay(i)
        PROVE  PaymentInv'
    BY <1>0, <1>3, PaymentFrame DEF Pay
  <1>4. ASSUME NEW i \in Intent, NEW type \in EventType, HandleStripeWebhook(i, type)
        PROVE  PaymentInv'
    <2>1. Forwarded(type) => i \in paid
      BY <1>0, <1>4 DEF HandleStripeWebhook, Forwarded
    <2>2. /\ topic' \in [Domain -> Seq(Intent)]
          /\ lost' \subseteq Intent
          /\ topic' \in [Domain -> Seq(paid)]
      <3>1. CASE UNCHANGED topic
        BY <1>0, <1>4, <3>1 DEF HandleStripeWebhook, Publish
      <3>2. CASE Forwarded(type) /\ UNCHANGED lost /\
                 topic' = [d \in Domain |-> IF d \in TopicOf(i) THEN Queued(topic[d], i)
                                                               ELSE topic[d]]
        <4>1. ASSUME NEW d \in Domain
              PROVE  /\ Queued(topic[d], i) \in Seq(Intent)
                     /\ Queued(topic[d], i) \in Seq(paid)
          <5>1. topic[d] \in Seq(Intent) /\ topic[d] \in Seq(paid)
            BY <1>0
          <5>2. i \in paid
            BY <2>1, <3>2
          <5>3. QED
            BY <5>1, <5>2 DEF Queued
        <4>2. QED
          BY <1>0, <3>2, <4>1
      <3>3. QED
        BY <1>4, <3>1, <3>2 DEF HandleStripeWebhook, Publish
    <2>3. hooks' \subseteq hooks
      BY <1>4 DEF HandleStripeWebhook
    <2>4. /\ UNCHANGED <<domainOf, tripStatus, paidBy, asking, tripOf, payable, paid>>
          /\ UNCHANGED <<loopVars, handVars>>
      BY <1>4 DEF HandleStripeWebhook
    <2>5. PaymentTypeOK' /\ EventsArePaid'
      BY <1>0, <2>2, <2>3, <2>4
    <2>6. QED
      BY <2>4, <2>5, PaymentFrame
  <1>5. QED
    BY <1>1, <1>2, <1>3, <1>4

\* The consumers.
LEMMA LoopPaymentInv ==
  ASSUME PaymentInv, NEW d \in Domain,
         \/ LoopEnds(d) \/ ServiceStops(d) \/ ServiceStarts(d)
         \/ ReadMessage(d) \/ FindPending(d) \/ SkipEvent(d) \/ ConfirmPaid(d)
  PROVE  PaymentInv'
  <1> USE PaymentAssumption
      DEF PaymentTypeOK, EventsArePaid, orderVars, topicVars, loopVars, handVars
  <1>0. PaymentTypeOK /\ EventsArePaid
    BY DEF PaymentInv
  <1>1. CASE LoopEnds(d) \/ ServiceStarts(d) \/ FindPending(d)
    BY <1>0, <1>1, PaymentFrame DEF LoopEnds, ServiceStarts, FindPending
  <1>2. CASE ServiceStops(d)
    BY <1>0, <1>2, PaymentFrame DEF ServiceStops
  <1>3. CASE ReadMessage(d)
    BY <1>0, <1>3, PaymentFrame DEF ReadMessage
  <1>4. CASE SkipEvent(d)
    BY <1>0, <1>4, PaymentFrame DEF SkipEvent, Done
  <1>5. CASE ConfirmPaid(d)
    <2>1. reading[d] \in paid /\ reading[d] # NoIntent /\ tripOf[reading[d]] \in Trip
      BY <1>0, <1>5 DEF ConfirmPaid
    <2>0. tripStatus' \in [Trip -> TripStatus] /\ paidBy' \in [Trip -> Intent \cup {NoIntent}]
      BY <1>0, <1>5, <2>1 DEF ConfirmPaid, TripStatus
    <2>2. PaymentTypeOK'
      BY <1>0, <1>5, <2>0 DEF ConfirmPaid, Done
    <2>3. EventsArePaid'
      BY <1>0, <1>5 DEF ConfirmPaid, Done
    <2>4. ConfirmedWasPaid'
      BY <1>0, <1>5, <2>1 DEF ConfirmPaid, ConfirmedWasPaid, PaymentInv
    <2>5. QED
      BY <2>2, <2>3, <2>4 DEF PaymentInv
  <1>6. QED
    BY <1>1, <1>2, <1>3, <1>4, <1>5

\* Whoever writes bookings otherwise.
LEMMA HandPaymentInv ==
  ASSUME PaymentInv, NEW b \in Trip,
         \/ TripEnds(b) \/ ConfirmByHand(b) \/ ConfirmUnpaid(b)
         \/ ForceUpdateBookingStatus(b)
  PROVE  PaymentInv'
  <1> USE PaymentAssumption
      DEF PaymentTypeOK, EventsArePaid, orderVars, topicVars, loopVars, handVars
  <1>0. PaymentTypeOK /\ EventsArePaid
    BY DEF PaymentInv
  <1>1. CASE TripEnds(b)
    <2>1. PaymentTypeOK' /\ EventsArePaid'
      BY <1>0, <1>1 DEF TripEnds, TripStatus
    <2>2. ConfirmedWasPaid'
      BY <1>0, <1>1 DEF TripEnds, ConfirmedWasPaid, PaymentInv
    <2>3. QED
      BY <2>1, <2>2 DEF PaymentInv
  <1>2. CASE ConfirmByHand(b)
    BY <1>0, <1>2, PaymentFrame DEF ConfirmByHand
  <1>3. CASE ConfirmUnpaid(b) \/ ForceUpdateBookingStatus(b)
    <2>0. tripStatus' \in [Trip -> TripStatus]
      BY <1>0, <1>3 DEF ConfirmUnpaid, ForceUpdateBookingStatus, TripStatus
    <2>1. PaymentTypeOK' /\ EventsArePaid'
      BY <1>0, <1>3, <2>0 DEF ConfirmUnpaid, ForceUpdateBookingStatus
    <2>2. ConfirmedWasPaid'
      BY <1>0, <1>3 DEF ConfirmUnpaid, ForceUpdateBookingStatus, ConfirmedWasPaid,
                        PaymentInv
    <2>3. QED
      BY <2>1, <2>2 DEF PaymentInv
  <1>4. QED
    BY <1>1, <1>2, <1>3

LEMMA NextPaymentInv ==
  ASSUME PaymentInv, [PaymentNext]_payVars
  PROVE  PaymentInv'
  <1>1. CASE PaymentNext
    BY <1>1, OrderPaymentInv, LoopPaymentInv, HandPaymentInv DEF PaymentNext
  <1>2. CASE UNCHANGED payVars
    <2>1. PaymentTypeOK' /\ EventsArePaid'
      BY <1>2 DEF payVars, orderVars, topicVars, loopVars, handVars, PaymentInv,
                  PaymentTypeOK, EventsArePaid
    <2>2. QED
      BY <1>2, <2>1, PaymentFrame DEF payVars, orderVars, handVars
  <1>3. QED
    BY <1>1, <1>2

\* However often Stripe delivers an event, whenever consumers stop and whatever
\* is written between their reads and writes (ProcessPaymentEvent), the payment a
\* booking shows is its own and was made, and a booking that nobody confirmed by
\* hand has one.
THEOREM ConfirmedByPayment == PaymentSpec => []ConfirmedWasPaid
  <1>1. PaymentInv => ConfirmedWasPaid
    BY DEF PaymentInv
  <1>2. QED
    BY InitPaymentInv, NextPaymentInv, <1>1, PTL DEF PaymentSpec
-----------------------------------------------------------------------------
(* One-time codes. *)

CodesWereStored ==
  /\ \A e \in Email : otp[e] # AuthNone => otp[e] \in stored[e]
  /\ \A v \in Visitor : VisitAt(v, "verify") => visit[v].code \in stored[visit[v].email]

\* Requests that are under way have an address and a code.
VisitsAreWhole ==
  \A v \in Visitor : ~VisitAt(v, "idle") => /\ visit[v].email \in users
                                            /\ visit[v].code \in Code

AuthInv == AuthTypeOK /\ VisitsAreWhole /\ CodesWereStored /\ CodeIsItsOwn

LEMMA InitAuthInv == AuthInit => AuthInv
  BY AuthAssumption
     DEF AuthInit, AuthInv, AuthTypeOK, NoVisit, VisitsAreWhole, VisitAt, CodesWereStored,
         CodeIsItsOwn

LEMMA NextAuthInv ==
  ASSUME AuthInv, [AuthNext]_authVars
  PROVE  AuthInv'
  <1> USE AuthAssumption DEF AuthInv, AuthTypeOK, VisitsAreWhole, CodesWereStored,
                             CodeIsItsOwn, VisitAt, Proceed, Answer, NoVisit
  <1>1. ASSUME NEW v \in Visitor, RegisterRequest(v)
        PROVE  AuthInv'
    BY <1>1 DEF RegisterRequest, CreateUser, InsertUser
  <1>2. ASSUME NEW v \in Visitor, ResendOtpRequest(v)
        PROVE  AuthInv'
    BY <1>2 DEF ResendOtpRequest, ResendOtp, Resendable
  <1>3. ASSUME NEW v \in Visitor, VerifyOtpRequest(v)
        PROVE  AuthInv'
    BY <1>3 DEF VerifyOtpRequest, CheckOtp, ValidateOtpInRedis
  <1>4. ASSUME NEW v \in Visitor, StoreOtp(v)
        PROVE  AuthInv'
    <2>1. visit[v].email \in users /\ visit[v].code \in Code
      BY <1>4 DEF StoreOtp
    <2>2. \A e \in Email : stored[e] \subseteq stored'[e]
      BY <1>4 DEF StoreOtp
    <2>3. AuthTypeOK' /\ VisitsAreWhole'
      BY <1>4, <2>1 DEF StoreOtp
    <2>4. CodesWereStored' /\ CodeIsItsOwn'
      BY <1>4, <2>1, <2>2 DEF StoreOtp
    <2>5. QED
      BY <2>3, <2>4
  <1>5. ASSUME NEW v \in Visitor, StoreCooldown(v)
        PROVE  AuthInv'
    BY <1>5 DEF StoreCooldown
  <1>6. ASSUME NEW v \in Visitor, SendEmail(v)
        PROVE  AuthInv'
    BY <1>6 DEF SendEmail
  <1>7. ASSUME NEW v \in Visitor, UpdateUserVerified(v)
        PROVE  AuthInv'
    <2>1. visit[v].email \in users /\ visit[v].code \in stored[visit[v].email]
      BY <1>7 DEF UpdateUserVerified
    <2>2. QED
      BY <1>7, <2>1 DEF UpdateUserVerified
  <1>8. ASSUME NEW v \in Visitor, RequestFails(v)
        PROVE  AuthInv'
    BY <1>8 DEF RequestFails
  <1>9. ASSUME NEW e \in Email, OtpExpires(e) \/ CooldownExpires(e)
        PROVE  AuthInv'
    BY <1>9 DEF OtpExpires, CooldownExpires
  <1>10. CASE UNCHANGED authVars
    BY <1>10 DEF authVars
  <1>11. QED
    BY <1>1, <1>2, <1>3, <1>4, <1>5, <1>6, <1>7, <1>8, <1>9, <1>10 DEF AuthNext

\* Between the comparison of a code and the update of the user (ValidateOtp)
\* other codes come and go: the code entered has been stored for that very
\* address, though it need not be there any more when the user is updated.
THEOREM VerifiedByOwnCode == AuthSpec => []CodeIsItsOwn
  <1>1. AuthInv => CodeIsItsOwn
    BY DEF AuthInv
  <1>2. QED
    BY InitAuthInv, NextAuthInv, <1>1, PTL DEF AuthSpec
-----------------------------------------------------------------------------
(* Roles.  Each place that a role is copied to knows how long ago the row  *)
(* still had it: a login since it read the row, a token for its lifetime   *)
(* longer, a request as much longer as it is under way.                    *)

RolesAreRecent ==
  /\ \A m \in Member : heldUntil[m][roleOf[m]] = clock
  /\ \A m \in Member, r \in MemberRole : heldUntil[m][r] <= clock
  /\ signing # NoLogin =>
       /\ signing.member \in Member
       /\ signing.since <= heldUntil[signing.member][signing.role]
       /\ clock <= signing.since + Slow
  /\ \A t \in tokens :
       /\ 0 <= heldUntil[t.member][t.role]
       /\ clock <= t.expires
       /\ t.expires <= heldUntil[t.member][t.role] + Slow + SessionTTL
  /\ served # NoLogin =>
       /\ served.member \in Member
       /\ 0 <= heldUntil[served.member][served.role]
       /\ served.since <= heldUntil[served.member][served.role] + Slow + SessionTTL
       /\ clock <= served.since + Slow

SessionInv == SessionTypeOK /\ RolesAreRecent

LEMMA InitSessionInv == SessionInit => SessionInv
  BY SessionAssumption
     DEF SessionInit, SessionInv, SessionTypeOK, RolesAreRecent, NoLogin, MemberRole

\* Steps that leave the rows and the clock alone and only forget.
LEMMA ForgettingIsQuiet ==
  ASSUME SessionInv, UNCHANGED <<clock, roleOf, heldUntil>>,
         signing' \in {signing, NoLogin}, served' \in {served, NoLogin},
         tokens' \subseteq tokens
  PROVE  SessionInv'
  <1>1. NoLogin \in [member : Member \cup {NoMember}, role : MemberRole, since : 0..Midnight]
    BY SessionAssumption DEF NoLogin, MemberRole
  <1>2. SessionTypeOK'
    BY <1>1 DEF SessionInv, SessionTypeOK
  <1>3. RolesAreRecent'
    BY DEF SessionInv, RolesAreRecent
  <1>4. QED
    BY <1>2, <1>3 DEF SessionInv

LEMMA TickInv ==
  ASSUME SessionInv, ClockTicks
  PROVE  SessionInv'
  <1> USE SessionAssumption
  <1>0. SessionTypeOK /\ RolesAreRecent
    BY DEF SessionInv
  <1>1. clock \in 0..Midnight /\ clock' = clock + 1 /\ clock' \in 0..Midnight
    BY <1>0 DEF ClockTicks, SessionTypeOK
  <1>2. UNCHANGED <<roleOf, signing, served>> /\ tokens' = {t \in tokens : t.expires > clock}
    BY DEF ClockTicks
  <1>3. heldUntil' \in [Member -> [MemberRole -> -1..Midnight]]
    BY <1>0, <1>1 DEF ClockTicks, SessionTypeOK
  <1>4. ASSUME NEW m \in Member, NEW r \in MemberRole
        PROVE  /\ heldUntil'[m][r] = IF r = roleOf[m] THEN clock + 1 ELSE heldUntil[m][r]
               /\ heldUntil[m][r] \in Int /\ heldUntil[m][r] <= clock
               /\ heldUntil[m][r] <= heldUntil'[m][r]
    BY <1>0, <1>1 DEF ClockTicks, SessionTypeOK, RolesAreRecent
  <1>5. SessionTypeOK'
    BY <1>0, <1>1, <1>2, <1>3 DEF SessionTypeOK
  <1>6. \A m \in Member : heldUntil'[m][roleOf'[m]] = clock'
    BY <1>0, <1>1, <1>2, <1>4 DEF SessionTypeOK
  <1>7. \A m \in Member, r \in MemberRole : heldUntil'[m][r] <= clock'
    BY <1>1, <1>4
  <1>8. signing # NoLogin =>
          /\ signing.member \in Member
          /\ signing.since <= heldUntil'[signing.member][signing.role]
          /\ clock' <= signing.since + Slow
    <2> HAVE signing # NoLogin
    <2>1. /\ signing.member \in Member /\ signing.role \in MemberRole
          /\ signing.since \in Nat
      BY <1>0 DEF SessionTypeOK, RolesAreRecent
    <2>2. clock < signing.since + Slow
      BY <2>1 DEF ClockTicks
    <2>3. signing.since <= heldUntil[signing.member][signing.role]
      BY <1>0 DEF RolesAreRecent
    <2>4. QED
      BY <1>1, <1>3, <1>4, <2>1, <2>2, <2>3
  <1>9. ASSUME NEW t \in tokens'
        PROVE  /\ 0 <= heldUntil'[t.member][t.role]
               /\ clock' <= t.expires
               /\ t.expires <= heldUntil'[t.member][t.role] + Slow + SessionTTL
    <2>1. t \in tokens /\ clock < t.expires
      BY <1>2
    <2>2. t.member \in Member /\ t.role \in MemberRole /\ t.expires \in Nat
      BY <1>0, <2>1 DEF SessionTypeOK
    <2>3. /\ 0 <= heldUntil[t.member][t.role]
          /\ t.expires <= heldUntil[t.member][t.role] + Slow + SessionTTL
      BY <1>0, <2>1 DEF RolesAreRecent
    <2>4. heldUntil'[t.member][t.role] \in Int
      BY <1>3, <2>2
    <2>5. QED
      BY <1>1, <1>4, <2>1, <2>2, <2>3, <2>4
  <1>10. served # NoLogin =>
           /\ served.member \in Member
           /\ 0 <= heldUntil'[served.member][served.role]
           /\ served.since <= heldUntil'[served.member][served.role] + Slow + SessionTTL
           /\ clock' <= served.since + Slow
    <2> HAVE served # NoLogin
    <2>1. served.member \in Member /\ served.role \in MemberRole /\ served.since \in Nat
      BY <1>0 DEF SessionTypeOK, RolesAreRecent
    <2>2. clock < served.since + Slow
      BY <2>1 DEF ClockTicks
    <2>3. /\ 0 <= heldUntil[served.member][served.role]
          /\ served.since <= heldUntil[served.member][served.role] + Slow + SessionTTL
      BY <1>0 DEF RolesAreRecent
    <2>4. heldUntil'[served.member][served.role] \in Int
      BY <1>3, <2>1
    <2>5. QED
      BY <1>1, <1>4, <2>1, <2>2, <2>3, <2>4
  <1>11. RolesAreRecent'
    BY <1>2, <1>6, <1>7, <1>8, <1>9, <1>10 DEF RolesAreRecent
  <1>12. QED
    BY <1>5, <1>11 DEF SessionInv

LEMMA AssignRoleInv ==
  ASSUME SessionInv, NEW m \in Member, NEW r \in MemberRole, AssignRole(m, r)
  PROVE  SessionInv'
  <1> USE SessionAssumption
  <1>0. SessionTypeOK /\ RolesAreRecent
    BY DEF SessionInv
  <1>1. clock \in 0..Midnight /\ UNCHANGED <<clock, signing, tokens, served>>
    BY <1>0 DEF AssignRole, SessionTypeOK
  <1>2. roleOf' \in [Member -> MemberRole]
    BY <1>0 DEF AssignRole, SessionTypeOK
  <1>3. heldUntil' \in [Member -> [MemberRole -> -1..Midnight]]
    BY <1>0, <1>1 DEF AssignRole, SessionTypeOK
  <1>4. ASSUME NEW n \in Member, NEW q \in MemberRole
        PROVE  /\ heldUntil'[n][q] = IF n = m /\ q = r THEN clock ELSE heldUntil[n][q]
               /\ heldUntil[n][q] <= heldUntil'[n][q] /\ heldUntil'[n][q] <= clock
               /\ {heldUntil[n][q], heldUntil'[n][q]} \subseteq Int
    BY <1>0, <1>1, <1>3 DEF AssignRole, SessionTypeOK, RolesAreRecent
  <1>5. SessionTypeOK'
    BY <1>0, <1>1, <1>2, <1>3 DEF SessionTypeOK
  <1>6. \A n \in Member : heldUntil'[n][roleOf'[n]] = clock'
    <2> TAKE n \in Member
    <2>1. roleOf'[n] = IF n = m THEN r ELSE roleOf[n]
      BY <1>0 DEF AssignRole, SessionTypeOK
    <2>2. heldUntil[n][roleOf[n]] = clock /\ roleOf[n] \in MemberRole
      BY <1>0 DEF SessionTypeOK, RolesAreRecent
    <2>3. QED
      BY <1>1, <1>4, <2>1, <2>2
  <1>7. signing # NoLogin => signing.member \in Member /\ signing.role \in MemberRole
                             /\ signing.since \in Int
    BY <1>0 DEF SessionTypeOK, RolesAreRecent
  <1>8. served # NoLogin => served.member \in Member /\ served.role \in MemberRole
                            /\ served.since \in Int
    BY <1>0 DEF SessionTypeOK, RolesAreRecent
  <1>9. \A t \in tokens : t.member \in Member /\ t.role \in MemberRole /\ t.expires \in Int
    BY <1>0 DEF SessionTypeOK
  <1>10. RolesAreRecent'
    BY <1>0, <1>1, <1>4, <1>6, <1>7, <1>8, <1>9 DEF RolesAreRecent
  <1>11. QED
    BY <1>5, <1>10 DEF SessionInv

LEMMA NextSessionInv ==
  ASSUME SessionInv, [SessionNext]_sessionVars
  PROVE  SessionInv'
  <1> USE SessionAssumption
  <1>0. SessionTypeOK /\ RolesAreRecent
    BY DEF SessionInv
  <1>1. ASSUME NEW m \in Member, LoginReads(m)
        PROVE  SessionInv'
    <2>1. /\ roleOf[m] \in MemberRole /\ clock \in 0..Midnight
          /\ heldUntil[m][roleOf[m]] = clock
      BY <1>0 DEF SessionTypeOK, RolesAreRecent
    <2>2. SessionTypeOK'
      BY <1>0, <1>1, <2>1 DEF LoginReads, SessionTypeOK
    <2>3. RolesAreRecent'
      BY <1>0, <1>1, <2>1 DEF LoginReads, RolesAreRecent
    <2>4. QED
      BY <2>2, <2>3 DEF SessionInv
  <1>2. CASE GenerateToken
    <2> DEFINE new == [member |-> signing.member, role |-> signing.role, expires |-> Expiry]
    <2>1. /\ signing.member \in Member /\ signing.role \in MemberRole
          /\ signing.since \in Nat /\ clock \in Nat
          /\ heldUntil[signing.member][signing.role] \in Int
      BY <1>0, <1>2 DEF GenerateToken, SessionTypeOK, RolesAreRecent
    <2>2. /\ 0 <= heldUntil[signing.member][signing.role]
          /\ clock <= Expiry /\ Expiry \in Nat
          /\ Expiry <= heldUntil[signing.member][signing.role] + Slow + SessionTTL
      BY <1>0, <1>2, <2>1 DEF GenerateToken, Expiry, RolesAreRecent
    <2>3. tokens' = tokens \cup {new} /\ signing' = NoLogin
          /\ UNCHANGED <<clock, roleOf, heldUntil, served>>
      BY <1>2 DEF GenerateToken
    <2>4. NoLogin \in [member : Member \cup {NoMember}, role : MemberRole, since : 0..Midnight]
      BY DEF NoLogin, MemberRole
    <2>5. SessionTypeOK'
      BY <1>0, <2>1, <2>2, <2>3, <2>4 DEF SessionTypeOK
    <2>6. RolesAreRecent'
      BY <1>0, <2>1, <2>2, <2>3 DEF RolesAreRecent
    <2>7. QED
      BY <2>5, <2>6 DEF SessionInv
  <1>3. ASSUME NEW t \in tokens, GatewayAdmits(t)
        PROVE  SessionInv'
    <2>1. /\ t.member \in Member /\ t.role \in MemberRole /\ t.expires \in Nat
          /\ clock \in 0..Midnight /\ heldUntil[t.member][t.role] \in Int
      BY <1>0 DEF SessionTypeOK
    <2>2. SessionTypeOK'
      BY <1>0, <1>3, <2>1 DEF GatewayAdmits, SessionTypeOK
    <2>3. RolesAreRecent'
      BY <1>0, <1>3, <2>1 DEF GatewayAdmits, RolesAreRecent
    <2>4. QED
      BY <2>2, <2>3 DEF SessionInv
  <1>4. CASE ServiceAnswers
    BY <1>4, ForgettingIsQuiet DEF ServiceAnswers
  <1>5. ASSUME NEW t \in tokens, Logout(t)
        PROVE  SessionInv'
    BY <1>5, ForgettingIsQuiet DEF Logout
  <1>6. CASE UNCHANGED sessionVars
    BY <1>6, ForgettingIsQuiet DEF sessionVars
  <1>7. QED
    BY <1>1, <1>2, <1>3, <1>4, <1>5, <1>6, TickInv, AssignRoleInv DEF SessionNext, Login

\* A role that a superadmin took away (AssignRole) is still told to services by
\* tokens that carry it, for one lifetime of a token and two requests at most.
THEOREM StaleRolesRunOut == SessionSpec => []RoleWasHeldLately
  <1>1. SessionInv => RoleWasHeldLately
    <2> SUFFICES ASSUME SessionInv, served # NoLogin
                 PROVE  /\ heldUntil[served.member][served.role] >= 0
                        /\ clock <= heldUntil[served.member][served.role]
                                      + SessionTTL + 2 * Slow
      BY DEF RoleWasHeldLately
    <2>1. /\ served.member \in Member /\ served.role \in MemberRole
          /\ served.since \in Nat /\ clock \in Nat
          /\ heldUntil[served.member][served.role] \in Int
      BY DEF SessionInv, SessionTypeOK, RolesAreRecent
    <2>2. QED
      BY <2>1, SessionAssumption DEF SessionInv, RolesAreRecent
  <1>2. QED
    BY InitSessionInv, NextSessionInv, <1>1, PTL DEF SessionSpec
-----------------------------------------------------------------------------
(* The gateway.  What the types say of a request in it needs its record to  *)
(* be one, which is why the invariant is a little stronger than the types.  *)

Middleware == {"ip", "jwt", "user"}

RequestRecord == [chain : Seq(Middleware), address : Address \cup {Nobody},
                  token : Account \cup {Nobody}, user : Account \cup {Nobody},
                  count : 0..(IpMax + UserMax + 1)]

\* What is left of a request's chain is the end of a registered one.
OnARoute(rest) ==
  rest = <<>> \/ \E c \in Register : \E n \in 1..Len(c) : rest = SubSeq(c, n, Len(c))

\* A limiter counts an address or a user, so a request only ever waits for its
\* verdict with a key that a counter exists for.
GatewayInv ==
  /\ hits \in [LimitKey -> 0..(IpMax + UserMax + 1)]
  /\ ttl \subseteq LimitKey /\ unexpiring \subseteq LimitKey
  /\ passing \in [Passing -> RequestRecord]
  /\ \A p \in Passing :
       /\ OnARoute(passing[p].chain)
       /\ passing[p].count > 0 => Limited(p) /\ KeyOf(p) \in LimitKey

LEMMA RegisteredChains ==
  ASSUME NEW c \in Register
  PROVE  c \in Seq(Middleware) /\ Len(c) \in Nat \ {0}
  <1>1. \/ c = <<"ip">> \/ c = <<"ip", "jwt">> \/ c = <<"ip", "user">>
        \/ c = <<"ip", "jwt", "user">>
    BY Zenon DEF Register, FlightRoutes, BusRoutes, ChatRoutes, TrainRoutes,
             QRRoutes, AuthRoutes
  <1>2. CASE c = <<"ip">>
    BY <1>2 DEF Middleware
  <1>3. CASE c = <<"ip", "jwt">>
    BY <1>3 DEF Middleware
  <1>4. CASE c = <<"ip", "user">>
    BY <1>4 DEF Middleware
  <1>5. CASE c = <<"ip", "jwt", "user">>
    BY <1>5 DEF Middleware
  <1>6. QED
    BY <1>1, <1>2, <1>3, <1>4, <1>5

\* A chain that is not at its last middleware goes on inside its route.
LEMMA RestOfRoute ==
  ASSUME NEW rest, rest # <<>>, Len(rest) # 1, OnARoute(rest)
  PROVE  Tail(rest) \in Seq(Middleware) /\ OnARoute(Tail(rest))
  <1>0. PICK c \in Register : \E n \in 1..Len(c) : rest = SubSeq(c, n, Len(c))
    BY DEF OnARoute
  <1>1. PICK n \in 1..Len(c) : rest = SubSeq(c, n, Len(c))
    BY <1>0
  <1>2. c \in Seq(Middleware) /\ Len(c) \in Nat \ {0}
    BY RegisteredChains
  <1>3. \A i \in n..Len(c) : c[i] \in Middleware
    BY <1>2
  <1>4. rest \in Seq(Middleware) /\ Len(rest) = Len(c) - n + 1
    BY <1>1, <1>2, <1>3, SubSeqProperties
  <1>5. n + 1 \in 1..Len(c)
    BY <1>1, <1>2, <1>4
  <1>6. Tail(rest) = SubSeq(c, n + 1, Len(c))
    BY <1>1, <1>2, HeadTailOfSubSeq
  <1>7. QED
    BY <1>4, <1>5, <1>6, HeadTailProperties DEF OnARoute

LEMMA InitGatewayInv == GatewayInit => GatewayInv
  BY GatewayAssumption
  DEF GatewayInit, GatewayInv, RequestRecord, NoRequest, OnARoute

\* A request that ends, whether answered by the gateway or by a service.
LEMMA LeavesInv ==
  ASSUME GatewayInv, NEW p \in Passing, Leaves(p),
         hits' \in [LimitKey -> 0..(IpMax + UserMax + 1)],
         ttl' \subseteq LimitKey, unexpiring' \subseteq LimitKey
  PROVE  GatewayInv'
  <1>1. passing' \in [Passing -> RequestRecord]
    BY GatewayAssumption DEF Leaves, GatewayInv, RequestRecord, NoRequest
  <1>2. \A q \in Passing : q # p => passing'[q] = passing[q]
    BY DEF Leaves, GatewayInv
  <1>3. passing'[p] = NoRequest
    BY DEF Leaves, GatewayInv
  <1>4. QED
    BY <1>1, <1>2, <1>3
    DEF GatewayInv, NoRequest, OnARoute, Limited, KeyOf, At

\* A request that goes on, as nobody or as a user.
LEMMA GoesInv ==
  ASSUME GatewayInv, NEW p \in Passing, NEW u \in Account \cup {Nobody},
         passing[p].chain # <<>>, Goes(p, u),
         UNCHANGED hits,
         ttl' \subseteq LimitKey, unexpiring' \subseteq LimitKey
  PROVE  GatewayInv'
  <1> DEFINE rest == Tail(passing[p].chain)
  <1>1. CASE rest = <<>>
    <2>1. Leaves(p)
      BY <1>1 DEF Goes
    <2>2. QED
      BY <2>1, LeavesInv DEF GatewayInv
  <1>2. CASE rest # <<>>
    <2>1. passing' = [passing EXCEPT ![p].chain = rest, ![p].user = u, ![p].count = 0]
      BY <1>2 DEF Goes
    <2>2. rest \in Seq(Middleware) /\ OnARoute(rest)
      <3>1. passing[p].chain \in Seq(Middleware) /\ OnARoute(passing[p].chain)
        BY DEF GatewayInv, RequestRecord
      <3>2. Len(passing[p].chain) # 1
        <4>1. Len(rest) = Len(passing[p].chain) - 1 /\ rest \in Seq(Middleware)
          BY <3>1, HeadTailProperties
        <4>2. Len(rest) = 0 => rest = <<>>
          BY <4>1, EmptySeq
        <4>3. QED
          BY <1>2, <3>1, <4>1, <4>2
      <3>3. QED
        BY <3>1, <3>2, RestOfRoute
    <2>3. passing' \in [Passing -> RequestRecord]
      <3>1. passing \in [Passing -> RequestRecord]
        BY DEF GatewayInv
      <3>2. passing[p] \in RequestRecord
        BY <3>1
      <3>3. [passing[p] EXCEPT !.chain = rest, !.user = u, !.count = 0] \in RequestRecord
        <4>1. 0 \in 0..(IpMax + UserMax + 1)
          BY GatewayAssumption
        <4> HIDE DEF rest
        <4>2. QED
          BY <2>2, <3>2, <4>1 DEF RequestRecord
      <3>4. passing' = [passing EXCEPT ![p] =
                          [passing[p] EXCEPT !.chain = rest, !.user = u, !.count = 0]]
        BY <2>1, <3>1
      <3>5. QED
        BY <3>1, <3>3, <3>4
    <2>4. \A q \in Passing : q # p => passing'[q] = passing[q]
      BY <2>1 DEF GatewayInv
    <2>5. /\ passing'[p].chain = rest
          /\ passing'[p].count = 0
      BY <2>1 DEF GatewayInv, RequestRecord
    <2>6. QED
      BY <2>2, <2>3, <2>4, <2>5 DEF GatewayInv, Limited, KeyOf, At
  <1>3. QED
    BY <1>1, <1>2

LEMMA DecidesInv ==
  ASSUME GatewayInv, NEW p \in Passing, Limited(p), Decides(p), UNCHANGED hits,
         ttl' \subseteq LimitKey, unexpiring' \subseteq LimitKey
  PROVE  GatewayInv'
  <1>1. passing[p].chain # <<>> /\ passing[p].user \in Account \cup {Nobody}
    BY DEF Limited, At, GatewayInv, RequestRecord
  <1>2. Leaves(p) \/ Goes(p, passing[p].user)
    BY DEF Decides
  <1>3. QED
    BY <1>1, <1>2, LeavesInv, GoesInv DEF GatewayInv

\* INCR: the counter stays one above its limit at most, and the request keeps
\* the key that it counted in.
LEMMA IncrInv ==
  ASSUME GatewayInv, NEW p \in Passing, Incr(p)
  PROVE  GatewayInv'
  <1>1. CASE Leaves(p) /\ UNCHANGED hits
    BY <1>1, LeavesInv DEF Incr, GatewayInv
  <1>2. CASE ~ (Leaves(p) /\ UNCHANGED hits)
    <2> DEFINE k == KeyOf(p)
               n == IF hits[k] > MaxOf(k) THEN hits[k] ELSE hits[k] + 1
    <2>1. /\ k # Nobody /\ Limited(p)
          /\ hits' = [hits EXCEPT ![k] = n]
          /\ passing' = [passing EXCEPT ![p].count = n]
          /\ UNCHANGED <<ttl, unexpiring>>
      BY <1>2 DEF Incr
    <2>2. k \in LimitKey
      BY <2>1 DEF KeyOf, LimitKey, GatewayInv, RequestRecord
    <2>3. MaxOf(k) \in 0..(IpMax + UserMax)
      BY GatewayAssumption DEF MaxOf
    <2>4. hits[k] \in 0..(IpMax + UserMax + 1)
      BY <2>2 DEF GatewayInv
    <2>5. n \in 0..(IpMax + UserMax + 1)
      BY <2>3, <2>4, GatewayAssumption
    <2>6. hits' \in [LimitKey -> 0..(IpMax + UserMax + 1)]
      BY <2>1, <2>2, <2>5 DEF GatewayInv
    <2>7. /\ passing' \in [Passing -> RequestRecord]
          /\ passing'[p].chain = passing[p].chain
          /\ passing'[p].address = passing[p].address
          /\ passing'[p].user = passing[p].user
          /\ \A q \in Passing : q # p => passing'[q] = passing[q]
      BY <2>1, <2>5 DEF GatewayInv, RequestRecord
    <2>8. Limited(p)' /\ KeyOf(p)' = k
      BY <2>1, <2>7 DEF Limited, KeyOf, At
    <2>9. \A q \in Passing : q # p =>
            (Limited(q)' <=> Limited(q)) /\ KeyOf(q)' = KeyOf(q)
      BY <2>7 DEF Limited, KeyOf, At
    <2>10. QED
      BY <2>1, <2>2, <2>6, <2>7, <2>8, <2>9 DEF GatewayInv
  <1>3. QED
    BY <1>1, <1>2

LEMMA NextGatewayInv ==
  ASSUME GatewayInv, [GatewayNext]_gatewayVars
  PROVE  GatewayInv'
  <1>1. ASSUME NEW p \in Passing, JwtMiddleware(p)
        PROVE  GatewayInv'
    <2>1. /\ passing[p].chain # <<>> /\ passing[p].token \in Account \cup {Nobody}
          /\ UNCHANGED <<hits, ttl, unexpiring>>
          /\ Leaves(p) \/ Goes(p, passing[p].token)
      BY <1>1 DEF JwtMiddleware, At, GatewayInv, RequestRecord
    <2>2. QED
      BY <2>1, LeavesInv, GoesInv DEF GatewayInv
  <1>2. ASSUME NEW p \in Passing, Incr(p)
        PROVE  GatewayInv'
    BY <1>2, IncrInv
  <1>3. ASSUME NEW p \in Passing, Expire(p)
        PROVE  GatewayInv'
    <2>1. KeyOf(p) \in LimitKey
      BY <1>3 DEF Expire, GatewayInv
    <2>2. QED
      BY <1>3, <2>1, DecidesInv DEF Expire, GatewayInv
  <1>4. ASSUME NEW p \in Passing, ExpireLost(p)
        PROVE  GatewayInv'
    <2>1. KeyOf(p) \in LimitKey
      BY <1>4 DEF ExpireLost, OpensWindow, GatewayInv
    <2>2. QED
      BY <1>4, <2>1, DecidesInv, LeavesInv DEF ExpireLost, GatewayInv
  <1>5. ASSUME NEW p \in Passing, NEW a \in Address, NEW chain \in Register,
               NEW t \in Account \cup {Nobody}, Arrive(p, a, chain, t)
        PROVE  GatewayInv'
    <2>1. chain \in Seq(Middleware) /\ Len(chain) \in Nat \ {0}
      BY RegisteredChains
    <2>2. OnARoute(chain)
      <3>1. chain = SubSeq(chain, 1, Len(chain)) /\ 1 \in 1..Len(chain)
        BY <2>1, SubSeqFull
      <3>2. QED
        BY <3>1 DEF OnARoute
    <2>3. /\ passing' \in [Passing -> RequestRecord]
          /\ passing'[p].chain = chain /\ passing'[p].count = 0
          /\ \A q \in Passing : q # p => passing'[q] = passing[q]
      BY <1>5, <2>1, GatewayAssumption DEF Arrive, GatewayInv, RequestRecord
    <2>4. QED
      BY <1>5, <2>2, <2>3 DEF Arrive, GatewayInv, Limited, KeyOf, At
  <1>6. ASSUME NEW k \in LimitKey, KeyExpires(k)
        PROVE  GatewayInv'
    <2>1. \A p \in Passing :
            (Limited(p)' <=> Limited(p)) /\ KeyOf(p)' = KeyOf(p)
      BY <1>6 DEF KeyExpires, Limited, KeyOf, At
    <2>2. QED
      BY <1>6, <2>1, GatewayAssumption DEF KeyExpires, GatewayInv
  <1>7. CASE UNCHANGED gatewayVars
    BY <1>7 DEF gatewayVars, GatewayInv, Limited, KeyOf, At
  <1>8. QED
    BY <1>1, <1>2, <1>3, <1>4, <1>5, <1>6, <1>7 DEF GatewayNext

LEMMA GatewayInvHolds == GatewaySpec => []GatewayInv
  BY InitGatewayInv, NextGatewayInv, PTL DEF GatewaySpec

\* The request that p has counted is the one that opened the window of k, and
\* it is still to send the EXPIRE.
Opening(p, k) == Limited(p) /\ KeyOf(p) = k /\ OpensWindow(passing[p].count)

\* What RefusedNotForever rests on: a counter has an expiry, or the request
\* that opened its window is about to give it one, or that one EXPIRE was lost.
EveryWindowCloses ==
  \A k \in LimitKey : hits[k] > 0 =>
    k \in ttl \cup unexpiring \/ \E p \in Passing : Opening(p, k)

\* A step that leaves the counters, and the requests that have opened a window.
LEMMA WindowFrame ==
  ASSUME EveryWindowCloses, UNCHANGED hits,
         ttl \subseteq ttl', unexpiring \subseteq unexpiring',
         \A p \in Passing, k \in LimitKey :
           Opening(p, k) => Opening(p, k)' \/ k \in ttl' \cup unexpiring'
  PROVE  EveryWindowCloses'
  BY DEF EveryWindowCloses

\* Nothing but Expire and ExpireLost ends a request that has opened a window.
LEMMA OpeningKept ==
  ASSUME NEW p \in Passing, NEW q \in Passing, GatewayInv,
         \/ passing'[q] = passing[q]
         \/ q = p /\ ~ (Limited(p) /\ passing[p].count > 0)
  PROVE  \A k \in LimitKey : Opening(q, k) => Opening(q, k)'
  BY DEF Opening, Limited, KeyOf, At, OpensWindow, GatewayInv, RequestRecord

LEMMA IncrWindow ==
  ASSUME GatewayInv, EveryWindowCloses, NEW p \in Passing, Incr(p)
  PROVE  EveryWindowCloses'
  <1>1. \A q \in Passing : q # p => passing'[q] = passing[q]
    BY DEF Incr, Leaves, GatewayInv
  <1>2. ~ (Limited(p) /\ passing[p].count > 0)
    BY DEF Incr
  <1>3. \A q \in Passing, k \in LimitKey : Opening(q, k) => Opening(q, k)'
    BY <1>1, <1>2, OpeningKept
  <1>4. CASE Leaves(p) /\ UNCHANGED hits
    BY <1>3, <1>4, WindowFrame DEF Incr
  <1>5. CASE ~ (Leaves(p) /\ UNCHANGED hits)
    <2> DEFINE k == KeyOf(p)
               n == IF hits[k] > MaxOf(k) THEN hits[k] ELSE hits[k] + 1
    <2>1. /\ k # Nobody /\ Limited(p)
          /\ hits' = [hits EXCEPT ![k] = n]
          /\ passing' = [passing EXCEPT ![p].count = n]
          /\ UNCHANGED <<ttl, unexpiring>>
      BY <1>5 DEF Incr
    <2>2. k \in LimitKey /\ hits[k] \in Nat /\ MaxOf(k) \in Nat \ {0}
      BY <2>1, GatewayAssumption
      DEF KeyOf, LimitKey, MaxOf, GatewayInv, RequestRecord
    <2>3. /\ passing'[p].chain = passing[p].chain
          /\ passing'[p].address = passing[p].address
          /\ passing'[p].user = passing[p].user
          /\ passing'[p].count = n
      BY <2>1 DEF GatewayInv, RequestRecord
    <2>4. ASSUME NEW j \in LimitKey, j = k, hits[k] = 0
          PROVE  Opening(p, j)'
      <3>1. Limited(p)' /\ KeyOf(p)' = k
        BY <2>1, <2>3 DEF Limited, KeyOf, At
      <3>2. n = 1
        BY <2>2, <2>4
      <3>3. QED
        BY <2>3, <2>4, <3>1, <3>2 DEF Opening, OpensWindow
    <2>5. \A j \in LimitKey : j # k => hits'[j] = hits[j]
      BY <2>1 DEF GatewayInv
    <2>6. ASSUME NEW j \in LimitKey, hits'[j] > 0
          PROVE  j \in ttl' \cup unexpiring' \/ \E q \in Passing : Opening(q, j)'
      <3>1. CASE hits[j] > 0
        <4>1. j \in ttl \cup unexpiring \/ \E q \in Passing : Opening(q, j)
          BY <3>1 DEF EveryWindowCloses
        <4>2. UNCHANGED <<ttl, unexpiring>>
          BY <2>1
        <4>3. CASE \E q \in Passing : Opening(q, j)
          <5>1. PICK q \in Passing : Opening(q, j)
            BY <4>3
          <5>2. Opening(q, j)'
            BY <1>3, <5>1
          <5>3. QED
            BY <5>2
        <4>4. QED
          BY <4>1, <4>2, <4>3
      <3>2. CASE ~ (hits[j] > 0)
        <4>1. j = k /\ hits[k] = 0
          BY <2>2, <2>5, <2>6, <3>2
        <4>2. Opening(p, j)'
          BY <2>4, <4>1
        <4>3. QED
          BY <4>2
      <3>3. QED
        BY <3>1, <3>2
    <2>7. QED
      BY <2>6 DEF EveryWindowCloses
  <1>6. QED
    BY <1>4, <1>5

LEMMA WindowStep ==
  ASSUME GatewayInv, EveryWindowCloses, [GatewayNext]_gatewayVars
  PROVE  EveryWindowCloses'
  <1>1. ASSUME NEW p \in Passing, JwtMiddleware(p)
        PROVE  EveryWindowCloses'
    <2>1. \A q \in Passing : q # p => passing'[q] = passing[q]
      BY <1>1 DEF JwtMiddleware, Leaves, Goes, GatewayInv
    <2>2. ~ Limited(p)
      BY <1>1 DEF JwtMiddleware, Limited, At
    <2>3. \A q \in Passing, k \in LimitKey : Opening(q, k) => Opening(q, k)'
      BY <2>1, <2>2, OpeningKept
    <2>4. QED
      BY <1>1, <2>3, WindowFrame DEF JwtMiddleware
  <1>2. ASSUME NEW p \in Passing, Incr(p)
        PROVE  EveryWindowCloses'
    BY <1>2, IncrWindow
  <1>3. ASSUME NEW p \in Passing, Expire(p) \/ ExpireLost(p)
        PROVE  EveryWindowCloses'
    <2>1. \A q \in Passing : q # p => passing'[q] = passing[q]
      BY <1>3 DEF Expire, ExpireLost, Decides, Leaves, Goes, GatewayInv
    <2>2. \A q \in Passing, k \in LimitKey : q # p => (Opening(q, k) => Opening(q, k)')
      BY <2>1, OpeningKept
    <2>3. \A k \in LimitKey : Opening(p, k) => k \in ttl' \cup unexpiring'
      BY <1>3 DEF Expire, ExpireLost, Opening
    <2>4. UNCHANGED hits /\ ttl \subseteq ttl' /\ unexpiring \subseteq unexpiring'
      BY <1>3 DEF Expire, ExpireLost
    <2>5. QED
      BY <2>2, <2>3, <2>4, WindowFrame
  <1>4. ASSUME NEW p \in Passing, NEW a \in Address, NEW chain \in Register,
               NEW t \in Account \cup {Nobody}, Arrive(p, a, chain, t)
        PROVE  EveryWindowCloses'
    <2>1. \A q \in Passing : q # p => passing'[q] = passing[q]
      BY <1>4 DEF Arrive, GatewayInv
    <2>2. ~ Limited(p)
      BY <1>4 DEF Arrive, NoRequest, Limited, At
    <2>3. \A q \in Passing, k \in LimitKey : Opening(q, k) => Opening(q, k)'
      BY <2>1, <2>2, OpeningKept
    <2>4. QED
      BY <1>4, <2>3, WindowFrame DEF Arrive
  <1>5. ASSUME NEW k \in LimitKey, KeyExpires(k)
        PROVE  EveryWindowCloses'
    <2>1. \A q \in Passing, j \in LimitKey : Opening(q, j) => Opening(q, j)'
      BY <1>5 DEF KeyExpires, Opening, Limited, KeyOf, At
    <2>2. \A j \in LimitKey : hits'[j] > 0 => j # k /\ hits[j] > 0
      BY <1>5 DEF KeyExpires, GatewayInv
    <2>3. ttl' = ttl \ {k} /\ UNCHANGED unexpiring
      BY <1>5 DEF KeyExpires
    <2>4. QED
      BY <2>1, <2>2, <2>3 DEF EveryWindowCloses
  <1>6. CASE UNCHANGED gatewayVars
    <2>1. \A q \in Passing, k \in LimitKey : Opening(q, k) => Opening(q, k)'
      BY <1>6 DEF gatewayVars, Opening, Limited, KeyOf, At
    <2>2. QED
      BY <1>6, <2>1, WindowFrame DEF gatewayVars
  <1>7. QED
    BY <1>1, <1>2, <1>3, <1>4, <1>5, <1>6 DEF GatewayNext

\* However many requests are counted at once (RateLimit), and whichever of them
\* fail, no counter is left without an expiry but by the loss of its EXPIRE.
THEOREM WindowsClose == GatewaySpec => []EveryWindowCloses
  <1>1. GatewayInit => EveryWindowCloses
    BY DEF GatewayInit, EveryWindowCloses
  <1>2. QED
    BY GatewayInvHolds, WindowStep, <1>1, PTL DEF GatewaySpec
-----------------------------------------------------------------------------
(* The parts together. *)

\* What each part does in the composition is what it does on its own, so that
\* the theorems about the parts are theorems about the composition.
LEMMA PartsAreThemselves ==
  Spec => /\ AuthSpec /\ SessionSpec /\ GatewaySpec
          /\ SocketSpec /\ BotSpec /\ PaymentSpec
  <1>1. Init => /\ AuthInit /\ SessionInit /\ GatewayInit
                /\ SocketInit /\ BotInit /\ PaymentInit
    BY DEF Init
  <1>2. [Next]_FrontVars => [AuthNext]_authVars /\ [SessionNext]_sessionVars
    BY DEF Next, FrontVars
  <1>3. [Next]_FrontVars => [GatewayNext]_gatewayVars /\ [SocketNext]_socketVars
    BY DEF Next, FrontVars
  <1>4. [Next]_FrontVars => [BotNext]_botVars /\ [PaymentNext]_payVars
    BY DEF Next, FrontVars
  <1>5. QED
    BY <1>1, <1>2, <1>3, <1>4, PTL
    DEF Spec, AuthSpec, SessionSpec, GatewaySpec, SocketSpec, BotSpec, PaymentSpec

\* Accounts, sessions, counters, connections, conversations and payments keep
\* their types, for every value of the constants.
THEOREM FrontEndTypes == Spec => []FrontTypeOK
  <1>1. AuthSpec => []AuthInv
    BY InitAuthInv, NextAuthInv, PTL DEF AuthSpec
  <1>2. SessionSpec => []SessionInv
    BY InitSessionInv, NextSessionInv, PTL DEF SessionSpec
  <1>3. SocketSpec => []SocketInv
    BY InitSocketInv, NextSocketInv, PTL DEF SocketSpec
  <1>4. BotSpec => []BotInv
    BY InitBotInv, NextBotInv, PTL DEF BotSpec
  <1>5. PaymentSpec => []PaymentInv
    BY InitPaymentInv, NextPaymentInv, PTL DEF PaymentSpec
  <1>6. GatewayInv => GatewayTypeOK
    BY DEF GatewayInv, GatewayTypeOK, RequestRecord, OnARoute
  <1>7. /\ AuthInv /\ SessionInv /\ GatewayInv /\ SocketInv /\ BotInv /\ PaymentInv
        => FrontTypeOK
    BY <1>6 DEF FrontTypeOK, AuthInv, SessionInv, SocketInv, BotInv, PaymentInv
  <1>8. QED
    BY PartsAreThemselves, GatewayInvHolds, <1>1, <1>2, <1>3, <1>4, <1>5, <1>7, PTL
=============================================================================
