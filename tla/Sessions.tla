------------------------------ MODULE Sessions ------------------------------
(***************************************************************************)
(* Roles and the tokens that carry them.  Login copies the role of a user  *)
(* into a signed token; api-gateway believes the token and tells every     *)
(* service the role it names, whatever the row says by then; a superadmin  *)
(* assigns roles by writing the row.  Login reads the row and signs later, *)
(* and the gateway passes a request on that a service handles later.       *)
(***************************************************************************)
EXTENDS Integers

CONSTANTS Member,     \* users, superadmins left out
          SessionTTL, \* JWT_EXPIRY
          Slow,       \* bound: time from the first statement of a request to its last
          Midnight,   \* bound: the clock stops here
          NoMember

ASSUME SessionAssumption ==
  /\ SessionTTL \in Nat /\ Slow \in Nat /\ Midnight \in Nat
  /\ NoMember \notin Member

MemberRole == {"user", "admin"}

VARIABLES
  clock,     \* the time
  roleOf,    \* the column role
  heldUntil, \* heldUntil[m][r]: when m last had role r, -1 for never
  signing,   \* a login that has read its row: whose, which role, and when
  tokens,    \* tokens: whose, which role, and when each expires
  served     \* the request that a service has been given last

sessionVars == <<clock, roleOf, heldUntil, signing, tokens, served>>

NoLogin == [member |-> NoMember, role |-> "user", since |-> 0]

\* DEFAULT 'user', and no token.
SessionInit ==
  /\ clock = 0
  /\ roleOf = [m \in Member |-> "user"]
  /\ heldUntil = [m \in Member |-> [r \in MemberRole |-> IF r = "user" THEN 0 ELSE -1]]
  /\ signing = NoLogin
  /\ tokens = {}
  /\ served = NoLogin

\* A login or a request that is under way is over in time.  A token that has
\* expired is worth nothing from then on.
ClockTicks ==
  /\ clock < Midnight
  /\ signing.member # NoMember => clock < signing.since + Slow
  /\ served.member # NoMember => clock < served.since + Slow
  /\ clock' = clock + 1
  /\ heldUntil' = [m \in Member |-> [heldUntil[m] EXCEPT ![roleOf[m]] = clock + 1]]
  /\ tokens' = {t \in tokens : t.expires > clock}
  /\ UNCHANGED <<roleOf, signing, served>>

\* FindUserByEmail and the password.
LoginReads(m) ==
  /\ signing = NoLogin
  /\ signing' = [member |-> m, role |-> roleOf[m], since |-> clock]
  /\ UNCHANGED <<clock, roleOf, heldUntil, tokens, served>>

\* Mutated form: the token outlives its lifetime by the time it took to sign it.
ExpiryTwice == clock + SessionTTL + Slow

\* GenerateToken: the lifetime runs from now, not from the reading of the role.
Expiry == clock + SessionTTL

GenerateToken ==
  /\ signing # NoLogin
  /\ tokens' = tokens \cup {[member |-> signing.member, role |-> signing.role,
                             expires |-> Expiry]}
  /\ signing' = NoLogin
  /\ UNCHANGED <<clock, roleOf, heldUntil, served>>

\* JwtMiddleware: a token is good until it expires, and its role is what the
\* service is told.  Logging out only clears a cookie of the browser.
GatewayAdmits(t) ==
  /\ t \in tokens
  /\ served = NoLogin
  /\ served' = [member |-> t.member, role |-> t.role, since |-> clock]
  /\ UNCHANGED <<clock, roleOf, heldUntil, signing, tokens>>

ServiceAnswers ==
  /\ served # NoLogin
  /\ served' = NoLogin
  /\ UNCHANGED <<clock, roleOf, heldUntil, signing, tokens>>

\* A browser or a script drops a token.
Logout(t) ==
  /\ tokens' = tokens \ {t}
  /\ UNCHANGED <<clock, roleOf, heldUntil, signing, served>>

\* A superadmin assigns a role: the row, and no token.
AssignRole(m, r) ==
  /\ roleOf' = [roleOf EXCEPT ![m] = r]
  /\ heldUntil' = [heldUntil EXCEPT ![m][r] = clock]
  /\ UNCHANGED <<clock, signing, tokens, served>>

\* The handler: a token that could not be signed is an error and no token.
Login == (\E m \in Member : LoginReads(m)) \/ GenerateToken

SessionNext ==
  \/ ClockTicks \/ Login \/ ServiceAnswers
  \/ \E m \in Member, r \in MemberRole : AssignRole(m, r)
  \/ \E t \in tokens : GatewayAdmits(t) \/ Logout(t)

SessionSpec == SessionInit /\ [][SessionNext]_sessionVars
-----------------------------------------------------------------------------
SessionTypeOK ==
  /\ clock \in 0..Midnight
  /\ roleOf \in [Member -> MemberRole]
  /\ heldUntil \in [Member -> [MemberRole -> -1..Midnight]]
  /\ \A l \in {signing, served} :
       l \in [member : Member \cup {NoMember}, role : MemberRole, since : 0..Midnight]
  /\ tokens \subseteq [member : Member, role : MemberRole,
                       expires : Nat]

\* A role that was taken away still opens doors, but not for longer than a token
\* lives and two requests take: the login that read it, and the request made
\* with it.
RoleWasHeldLately ==
  served # NoLogin =>
    /\ heldUntil[served.member][served.role] >= 0
    /\ clock <= heldUntil[served.member][served.role] + SessionTTL + 2 * Slow
=============================================================================
