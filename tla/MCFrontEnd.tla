----------------------------- MODULE MCFrontEnd -----------------------------
(***************************************************************************)
(* Small instances of what stands between travellers and the bookings:     *)
(* accounts, sessions, the gateway's limiters, websockets, the bot and the *)
(* way of a payment.  They share no state, so a behaviour of this module   *)
(* is a behaviour of one of them, whose part it is, while the others stay  *)
(* in their initial states, where their fairness asks nothing of them.     *)
(***************************************************************************)
EXTENDS AuthService, Sessions, ApiGateway, ChatSockets, ChatBot, Payments, TLC

CONSTANTS ann, bob, s1, s2, s3, question, reply

\* Two connections of ann's, one of bob's; both messages in ann's conversation.
AnnAndBob == (s1 :> ann) @@ (s2 :> ann) @@ (s3 :> bob)
AnnsChat == (question :> ann) @@ (reply :> ann)

VARIABLE part

Parts == {"accounts", "sessions", "gateway", "sockets", "bot", "payments"}

Init ==
  /\ part \in Parts
  /\ AuthInit /\ SessionInit /\ GatewayInit /\ SocketInit /\ BotInit /\ PaymentInit

Next ==
  /\ \/ /\ part = "accounts" /\ AuthNext
        /\ UNCHANGED <<sessionVars, gatewayVars, socketVars, botVars, payVars>>
     \/ /\ part = "sessions" /\ SessionNext
        /\ UNCHANGED <<authVars, gatewayVars, socketVars, botVars, payVars>>
     \/ /\ part = "gateway" /\ GatewayNext
        /\ UNCHANGED <<authVars, sessionVars, socketVars, botVars, payVars>>
     \/ /\ part = "sockets" /\ SocketNext
        /\ UNCHANGED <<authVars, sessionVars, gatewayVars, botVars, payVars>>
     \/ /\ part = "bot" /\ BotNext
        /\ UNCHANGED <<authVars, sessionVars, gatewayVars, socketVars, payVars>>
     \/ /\ part = "payments" /\ PaymentNext
        /\ UNCHANGED <<authVars, sessionVars, gatewayVars, socketVars, botVars>>
  /\ UNCHANGED part

FrontVars == <<authVars, sessionVars, gatewayVars, socketVars, botVars, payVars, part>>

Spec == Init /\ [][Next]_FrontVars
             /\ AuthFairness /\ GatewayFairness /\ PaymentFairness

\* A bound of the run: the consumer of a service without a booking neither
\* stops nor starts.
IdleServicesStayUp ==
  \A d \in Domain : (d \in running) # (d \in running') => \E b \in Trip : domainOf[b] = d

FrontTypeOK ==
  /\ AuthTypeOK /\ SessionTypeOK /\ GatewayTypeOK
  /\ SocketTypeOK /\ BotTypeOK /\ PaymentTypeOK
=============================================================================
