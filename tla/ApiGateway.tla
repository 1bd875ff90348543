----------------------------- MODULE ApiGateway -----------------------------
(***************************************************************************)
(* The middlewares of api-gateway.  A route is a chain of them; the two    *)
(* rate limiters count the requests of an address, or of a user, in a key  *)
(* of Redis that the first request of a window creates (INCR) and gives a  *)
(* minute to live (EXPIRE, a second command whose error nobody looks at).  *)
(***************************************************************************)
EXTENDS Naturals, Sequences

CONSTANTS Address,   \* client addresses
          Account,   \* users with a token
          Passing,   \* requests that may be in the gateway at the same time
          IpMax,     \* requests of an address per window (60 in the code)
          UserMax,   \* requests of a user per window (500 in the code)
          Nobody

ASSUME GatewayAssumption ==
  /\ IpMax \in Nat \ {0} /\ UserMax \in Nat \ {0}
  /\ Nobody \notin Account /\ Address \cap Account = {}

LimitKey == Address \cup Account

VARIABLES
  hits,       \* hits[k]: the value of the key ratelimit:<k>, 0 when there is none
  ttl,        \* keys that have an expiry
  unexpiring, \* keys whose EXPIRE has failed, or was never sent
  passing     \* passing[p]: the rest of p's chain, its identity, the count it got

gatewayVars == <<hits, ttl, unexpiring, passing>>

\* The chains that requests go through, one per group of routes.  main puts
\* IpLimit before all of them.
FlightRoutes == {<<"ip">>, <<"ip", "jwt">>, <<"ip", "jwt", "user">>}
BusRoutes    == {<<"ip">>, <<"ip", "jwt">>, <<"ip", "jwt", "user">>}
ChatRoutes   == {<<"ip">>, <<"ip", "jwt">>, <<"ip", "jwt", "user">>}
TrainRoutes  == {<<"ip">>}
QRRoutes     == {<<"ip">>}
\* The logout route limits by user without the token having been looked at.
AuthRoutes   == {<<"ip">>, <<"ip", "user">>, <<"ip", "jwt">>}

Register == FlightRoutes \cup BusRoutes \cup ChatRoutes \cup TrainRoutes
              \cup QRRoutes \cup AuthRoutes

NoRequest == [chain |-> <<>>, address |-> Nobody, token |-> Nobody,
              user |-> Nobody, count |-> 0]

GatewayInit ==
  /\ hits = [k \in LimitKey |-> 0]
  /\ ttl = {} /\ unexpiring = {}
  /\ passing = [p \in Passing |-> NoRequest]

Leaves(p) == passing' = [passing EXCEPT ![p] = NoRequest]

\* On to the next middleware, or to the proxied service, as user u.
Goes(p, u) ==
  LET rest == Tail(passing[p].chain) IN
  IF rest = <<>> THEN Leaves(p)
    ELSE passing' = [passing EXCEPT ![p].chain = rest, ![p].user = u, ![p].count = 0]

At(p, step) == passing[p].chain # <<>> /\ Head(passing[p].chain) = step

Arrive(p, a, chain, t) ==
  /\ passing[p] = NoRequest
  /\ passing' = [passing EXCEPT ![p] = [chain |-> chain, address |-> a, token |-> t,
                                        user |-> Nobody, count |-> 0]]
  /\ UNCHANGED <<hits, ttl, unexpiring>>

\* A token that is missing or not valid ends the request; otherwise its user is
\* the identity that the rest of the chain sees.
JwtMiddleware(p) ==
  /\ At(p, "jwt")
  /\ IF passing[p].token = Nobody THEN Leaves(p) ELSE Goes(p, passing[p].token)
  /\ UNCHANGED <<hits, ttl, unexpiring>>

\* The key that a limiter counts in, and what it allows.
KeyOf(p) == IF At(p, "ip") THEN passing[p].address ELSE passing[p].user
MaxOf(k) == IF k \in Address THEN IpMax ELSE UserMax

Limited(p) == At(p, "ip") \/ At(p, "user")

\* INCR.  The counter is bounded one above the limit: nothing distinguishes
\* higher values.  An error of Redis, and a limiter that finds no user, answer
\* 500.
Incr(p) ==
  /\ Limited(p) /\ passing[p].count = 0
  /\ LET k == KeyOf(p) IN
       IF k = Nobody
       THEN Leaves(p) /\ UNCHANGED hits
       ELSE LET n == IF hits[k] > MaxOf(k) THEN hits[k] ELSE hits[k] + 1 IN
            \/ /\ hits' = [hits EXCEPT ![k] = n]
               /\ passing' = [passing EXCEPT ![p].count = n]
            \/ Leaves(p) /\ UNCHANGED hits
  /\ UNCHANGED <<ttl, unexpiring>>

\* Mutated form: the limiter takes the counter to start at zero.
OpensWindowAtZero(n) == n = 0

\* EXPIRE is sent by the request that created the key.
OpensWindow(n) == n = 1

Decides(p) ==
  IF passing[p].count > MaxOf(KeyOf(p)) THEN Leaves(p) ELSE Goes(p, passing[p].user)

\* EXPIRE, by the request that has to, and the verdict.
Expire(p) ==
  /\ Limited(p) /\ passing[p].count > 0
  /\ ttl' = IF OpensWindow(passing[p].count) THEN ttl \cup {KeyOf(p)} ELSE ttl
  /\ Decides(p)
  /\ UNCHANGED <<hits, unexpiring>>

\* EXPIRE fails and the request goes on, or the gateway stops before it.
ExpireLost(p) ==
  /\ Limited(p) /\ OpensWindow(passing[p].count)
  /\ unexpiring' = unexpiring \cup {KeyOf(p)}
  /\ Decides(p) \/ Leaves(p)
  /\ UNCHANGED <<hits, ttl>>

KeyExpires(k) ==
  /\ k \in ttl
  /\ hits' = [hits EXCEPT ![k] = 0]
  /\ ttl' = ttl \ {k}
  /\ UNCHANGED <<unexpiring, passing>>

GatewayNext ==
  \/ \E p \in Passing :
       \/ JwtMiddleware(p) \/ Incr(p) \/ Expire(p) \/ ExpireLost(p)
       \/ \E a \in Address, chain \in Register, t \in Account \cup {Nobody} :
            Arrive(p, a, chain, t)
  \/ \E k \in LimitKey : KeyExpires(k)

GatewaySpec == GatewayInit /\ [][GatewayNext]_gatewayVars

\* A request in the gateway goes on and Redis deletes expired keys.
GatewayFairness ==
  /\ \A p \in Passing : WF_gatewayVars(Expire(p))
  /\ \A k \in LimitKey : WF_gatewayVars(KeyExpires(k))
-----------------------------------------------------------------------------
GatewayTypeOK ==
  /\ hits \in [LimitKey -> 0..(IpMax + UserMax + 1)]
  /\ ttl \subseteq LimitKey /\ unexpiring \subseteq LimitKey
  /\ \A p \in Passing :
       /\ passing[p].address \in Address \cup {Nobody}
       /\ {passing[p].token, passing[p].user} \subseteq Account \cup {Nobody}
       /\ passing[p].count \in 0..(IpMax + UserMax + 1)
       /\ passing[p].chain = <<>> \/ \E c \in Register : \E n \in 1..Len(c) :
            passing[p].chain = SubSeq(c, n, Len(c))

\* A client that has used up its window is let in again, unless the one EXPIRE
\* of that window was lost: then its key stays, and it is refused for ever.
RefusedNotForever ==
  \A k \in LimitKey : (hits[k] > MaxOf(k)) ~> (hits[k] = 0 \/ k \in unexpiring)
=============================================================================
