----------------------------- MODULE AuthService -----------------------------
(***************************************************************************)
(* The accounts of auth-service: registration with a one-time code sent by *)
(* mail, the code sent again, verification.  A request is a few statements *)
(* on two stores (Postgres, Redis) and a mail, and nothing undoes the      *)
(* first of them when the next one fails: Redis may refuse a write, the    *)
(* mail may not leave, and the process may stop between any two of them.   *)
(***************************************************************************)
EXTENDS Integers

CONSTANTS Email,       \* addresses, superadmins' included
          SuperAdmin,  \* the addresses in SUPER_ADMINS
          Code,        \* one-time codes
          Visitor,     \* requests under way
          MaxFaults,   \* bound: requests that fail half-way
          AuthNone     \* no code, no address

ASSUME AuthAssumption ==
  /\ SuperAdmin \subseteq Email
  /\ AuthNone \notin Code \cup Email
  /\ MaxFaults \in Nat

VARIABLES
  users,     \* rows of users
  verified,  \* users with is_verified = true
  otp,       \* otp[e]: the value of the key otp:<e>
  cooldown,  \* addresses whose key otp:cooldown<e> exists
  stored,    \* stored[e]: codes ever stored for e
  inbox,     \* inbox[e]: codes that have arrived by mail
  entered,   \* entered[e]: the code that verified e
  visit,     \* visit[v]: how far request v has come
  authFaults \* requests that have failed half-way

authVars == <<users, verified, otp, cooldown, stored, inbox, entered, visit, authFaults>>

NoVisit == [at |-> "idle", email |-> AuthNone, code |-> AuthNone]

\* SeedSuperAdmins: they exist, verified, before the first request.
AuthInit ==
  /\ users = SuperAdmin /\ verified = SuperAdmin
  /\ otp = [e \in Email |-> AuthNone] /\ cooldown = {}
  /\ stored = [e \in Email |-> {}] /\ inbox = [e \in Email |-> {}]
  /\ entered = [e \in Email |-> AuthNone]
  /\ visit = [v \in Visitor |-> NoVisit]
  /\ authFaults = 0

VisitAt(v, step) == visit[v].at = step

Proceed(v, step, e, c) ==
  visit' = [visit EXCEPT ![v] = [at |-> step, email |-> e, code |-> c]]

Answer(v) == visit' = [visit EXCEPT ![v] = NoVisit]
-----------------------------------------------------------------------------
(* CreateUser and ResendOtp: the code, its cooldown and the mail. *)

\* Refused by the unique index when the address is taken.
InsertUser(e) ==
  /\ e \notin users
  /\ users' = users \cup {e}

\* The row, then a code is drawn.
CreateUser(v, e) ==
  /\ VisitAt(v, "idle")
  /\ InsertUser(e)
  /\ \E c \in Code : Proceed(v, "store", e, c)
  /\ UNCHANGED <<verified, otp, cooldown, stored, inbox, entered, authFaults>>

\* Mutated form: a code is sent again only to replace one.
ReplacesCode(e) == e \in users \ verified /\ e \notin cooldown /\ otp[e] # AuthNone

\* The address is known and not verified, and its cooldown key is gone.
Resendable(e) == e \in users \ verified /\ e \notin cooldown

ResendOtp(v, e) ==
  /\ VisitAt(v, "idle")
  /\ Resendable(e)
  /\ \E c \in Code : Proceed(v, "store", e, c)
  /\ UNCHANGED <<users, verified, otp, cooldown, stored, inbox, entered, authFaults>>

\* Both requests write the code, then the cooldown, under keys with the address.
StoreOtp(v) ==
  /\ VisitAt(v, "store")
  /\ otp' = [otp EXCEPT ![visit[v].email] = visit[v].code]
  /\ stored' = [stored EXCEPT ![visit[v].email] = @ \cup {visit[v].code}]
  /\ Proceed(v, "hold", visit[v].email, visit[v].code)
  /\ UNCHANGED <<users, verified, cooldown, inbox, entered, authFaults>>

StoreCooldown(v) ==
  /\ VisitAt(v, "hold")
  /\ cooldown' = cooldown \cup {visit[v].email}
  /\ Proceed(v, "mail", visit[v].email, visit[v].code)
  /\ UNCHANGED <<users, verified, otp, stored, inbox, entered, authFaults>>

SendEmail(v) ==
  /\ VisitAt(v, "mail")
  /\ inbox' = [inbox EXCEPT ![visit[v].email] = @ \cup {visit[v].code}]
  /\ Answer(v)
  /\ UNCHANGED <<users, verified, otp, cooldown, stored, entered, authFaults>>

\* A write is refused, the mail is not sent, or the process stops: what was
\* written stays, and the visitor gets an internal error, if anything.
RequestFails(v) ==
  /\ ~VisitAt(v, "idle")
  /\ authFaults < MaxFaults
  /\ authFaults' = authFaults + 1
  /\ Answer(v)
  /\ UNCHANGED <<users, verified, otp, cooldown, stored, inbox, entered>>

\* Redis deletes a code after five minutes, which no request takes, and its
\* cooldown after one.
OtpExpires(e) ==
  /\ otp[e] # AuthNone
  /\ \A v \in Visitor : visit[v].email = e => ~(VisitAt(v, "hold") \/ VisitAt(v, "mail"))
  /\ otp' = [otp EXCEPT ![e] = AuthNone]
  /\ UNCHANGED <<users, verified, cooldown, stored, inbox, entered, visit, authFaults>>

CooldownExpires(e) ==
  /\ e \in cooldown
  /\ cooldown' = cooldown \ {e}
  /\ UNCHANGED <<users, verified, otp, stored, inbox, entered, visit, authFaults>>
-----------------------------------------------------------------------------
(* ValidateOtp. *)

\* Mutated form: any code will do while there is one.
AnyOtp(e, c) == otp[e] # AuthNone

\* The key's value is compared; the code is not used up.
ValidateOtpInRedis(e, c) == otp[e] = c

\* The user is read, unverified, and the code entered, of the mail or not, is
\* compared.
CheckOtp(v, e, c) ==
  /\ VisitAt(v, "idle")
  /\ e \in users \ verified
  /\ ValidateOtpInRedis(e, c)
  /\ Proceed(v, "verify", e, c)
  /\ UNCHANGED <<users, verified, otp, cooldown, stored, inbox, entered, authFaults>>

UpdateUserVerified(v) ==
  /\ VisitAt(v, "verify")
  /\ verified' = verified \cup {visit[v].email}
  /\ entered' = [entered EXCEPT ![visit[v].email] = visit[v].code]
  /\ Answer(v)
  /\ UNCHANGED <<users, otp, cooldown, stored, inbox, authFaults>>

\* The three handlers; what is not well formed is answered without a change.
RegisterRequest(v) == \E e \in Email : CreateUser(v, e)
ResendOtpRequest(v) == \E e \in Email : ResendOtp(v, e)
VerifyOtpRequest(v) == \E e \in Email, c \in Code : CheckOtp(v, e, c)

AuthNext ==
  \/ \E v \in Visitor :
       \/ RegisterRequest(v) \/ ResendOtpRequest(v) \/ VerifyOtpRequest(v)
       \/ StoreOtp(v) \/ StoreCooldown(v) \/ SendEmail(v)
       \/ UpdateUserVerified(v) \/ RequestFails(v)
  \/ \E e \in Email : OtpExpires(e) \/ CooldownExpires(e)

AuthSpec == AuthInit /\ [][AuthNext]_authVars

\* Requests go on, Redis deletes the cooldown, and a person who has registered
\* keeps asking for a code and entering the one that arrived.
AuthFairness ==
  /\ \A v \in Visitor : WF_authVars(StoreOtp(v) \/ StoreCooldown(v) \/ SendEmail(v)
                                    \/ UpdateUserVerified(v))
  /\ \A e \in Email :
       /\ WF_authVars(CooldownExpires(e))
       /\ SF_authVars(\E v \in Visitor : ResendOtp(v, e))
       /\ SF_authVars(\E v \in Visitor, c \in Code : c \in inbox[e] /\ CheckOtp(v, e, c))
-----------------------------------------------------------------------------
AuthTypeOK ==
  /\ users \subseteq Email /\ verified \subseteq users
  /\ otp \in [Email -> Code \cup {AuthNone}] /\ cooldown \subseteq Email
  /\ stored \in [Email -> SUBSET Code] /\ inbox \in [Email -> SUBSET Code]
  /\ entered \in [Email -> Code \cup {AuthNone}]
  /\ visit \in [Visitor -> [at : {"idle", "store", "hold", "mail", "verify"},
                            email : Email \cup {AuthNone},
                            code : Code \cup {AuthNone}]]
  /\ authFaults \in 0..MaxFaults

\* An address is verified with a code that was stored for that very address,
\* whatever other visitors ask for between the comparison and the update.
CodeIsItsOwn == \A e \in verified \ SuperAdmin : entered[e] \in stored[e]

\* Whatever failed after the row was inserted, and the address cannot register
\* a second time, it can still be verified: asking again repairs it.
RegisteredGetsVerified == \A e \in Email \ SuperAdmin : (e \in users) ~> (e \in verified)
=============================================================================
