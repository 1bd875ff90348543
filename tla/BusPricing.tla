----------------------------- MODULE BusPricing -----------------------------
(***************************************************************************)
(* The pricing job of bus-service.  Every ten minutes, and at the start of *)
(* the service, a run reads the active rules, reads the instances still on *)
(* sale, and for one instance after the other measures how full it is and  *)
(* how soon it leaves, multiplies its base price by the first matching     *)
(* rule of each type, and writes its fares and the price that searches     *)
(* show.  Runs overlap, and everything a run has read may have changed     *)
(* when it writes.  Prices are in multiples of the least one.              *)
(***************************************************************************)
EXTENDS Naturals, Sequences, FiniteSetsExt

CONSTANTS Trips,       \* instances
          Weekends,    \* instances that leave on a Saturday or Sunday
          RuleList,    \* rules by priority: type, factor, and what they ask for
          Pricer,      \* goroutines the job runs in
          Base,        \* base price: what was paid for a seat and 30 percent
          FilePrice,   \* the price in the data files
          Flexi,       \* what a FLEXI fare costs more
          MaxChanges,  \* bound: changes of rules, seats, statuses, and restarts
          NoTrips

ASSUME PricingAssumption ==
  /\ Weekends \subseteq Trips /\ NoTrips \notin Trips
  /\ Base \in Nat /\ FilePrice \in Nat /\ Flexi \in Nat /\ MaxChanges \in Nat
  /\ \A n \in DOMAIN RuleList : n \in Nat /\ RuleList[n].factor \in Nat

VARIABLES
  activeRules, \* rules with is_active = true, by number
  taken,       \* taken[i]: seats of i that are not available
  phase,       \* phase[i]: how soon i leaves
  scheduled,   \* instances with status SCHEDULED
  fare,        \* fare[i]: price of its GENERAL fare
  flexiFare,   \* flexiFare[i]: price of its FLEXI fare
  current,     \* current[i]: current_price_* of the instance
  reseeded,    \* instances whose fares the seeder has written last
  pricer,      \* pricer[r]: what a run has read, and where it is
  changes

pricingVars == <<activeRules, taken, phase, scheduled, fare, flexiFare, current,
                 reseeded, pricer, changes>>

IdlePricer == [at |-> "idle", rules |-> {}, todo |-> {}, trip |-> NoTrips, multiplier |-> 1]

PricingInit ==
  /\ activeRules = DOMAIN RuleList
  /\ taken = [i \in Trips |-> 0]
  /\ phase = [i \in Trips |-> "early"]
  /\ scheduled = Trips
  /\ fare = [i \in Trips |-> Base] /\ current = [i \in Trips |-> Base]
  /\ flexiFare = [i \in Trips |-> Base + Flexi]
  /\ reseeded = {}
  /\ pricer = [r \in Pricer |-> IdlePricer]
  /\ changes = 0
-----------------------------------------------------------------------------
(* applyRulesToInstance. *)

\* Does rule n match instance i, as seats and time are now?
Matches(n, i) ==
  LET rule == RuleList[n] IN
  \/ rule.type = "DEMAND" /\ taken[i] >= rule.above
  \/ rule.type = "TIME_TO_DEPARTURE" /\ phase[i] = rule.phase
  \/ rule.type = "WEEKEND" /\ i \in Weekends

\* The first rule of a type that matches, if any.
FactorOf(type, rules, i) ==
  LET matching == {n \in rules : RuleList[n].type = type /\ Matches(n, i)}
  IN IF matching = {} THEN 1 ELSE RuleList[Min(matching)].factor

FinalMultiplier(rules, i) ==
  FactorOf("DEMAND", rules, i) * FactorOf("TIME_TO_DEPARTURE", rules, i)
                               * FactorOf("WEEKEND", rules, i)

\* Mutated form: a price is never lowered.
RaisedPrice(i, multiplier) == Max({current[i], Base * multiplier})

NewPrice(i, multiplier) == Base * multiplier

Goto(r, p) == pricer' = [pricer EXCEPT ![r] = p]
NextTrip(r) == Goto(r, [pricer[r] EXCEPT !.at = "next", !.trip = NoTrips, !.multiplier = 1])

FetchRules(r) ==
  /\ pricer[r].at = "idle"
  /\ Goto(r, [IdlePricer EXCEPT !.at = "rules", !.rules = activeRules])
  /\ UNCHANGED <<activeRules, taken, phase, scheduled, fare, flexiFare, current,
                 reseeded, changes>>

OnSale(i) == i \in scheduled /\ phase[i] # "left"

FetchInstances(r) ==
  /\ pricer[r].at = "rules"
  /\ Goto(r, [pricer[r] EXCEPT !.at = "next", !.todo = {i \in Trips : OnSale(i)}])
  /\ UNCHANGED <<activeRules, taken, phase, scheduled, fare, flexiFare, current,
                 reseeded, changes>>

\* Seats are counted and rules matched before the transaction.
ApplyRules(r) ==
  /\ pricer[r].at = "next"
  /\ IF pricer[r].todo = {}
     THEN Goto(r, IdlePricer)
     ELSE \E i \in pricer[r].todo :
            Goto(r, [pricer[r] EXCEPT !.at = "fares", !.trip = i, !.todo = @ \ {i},
                       !.multiplier = FinalMultiplier(pricer[r].rules, i)])
  /\ UNCHANGED <<activeRules, taken, phase, scheduled, fare, flexiFare, current,
                 reseeded, changes>>

\* The fares first: their rows are locked until the transaction ends.
UpdateFares(r) ==
  /\ pricer[r].at = "fares"
  /\ \A q \in Pricer : ~(pricer[q].at \in {"instance", "commit"} /\ pricer[q].trip = pricer[r].trip)
  /\ Goto(r, [pricer[r] EXCEPT !.at = "instance"])
  /\ UNCHANGED <<activeRules, taken, phase, scheduled, fare, flexiFare, current,
                 reseeded, changes>>

\* Mutated form: the instance is written outside the transaction.
UpdateInstanceAtOnce(r) ==
  /\ pricer[r].at = "instance"
  /\ current' = [current EXCEPT ![pricer[r].trip] =
                   NewPrice(pricer[r].trip, pricer[r].multiplier)]
  /\ Goto(r, [pricer[r] EXCEPT !.at = "commit"])
  /\ UNCHANGED <<activeRules, taken, phase, scheduled, fare, flexiFare, reseeded, changes>>

\* Then the instance, which nobody else sees yet.
UpdateInstance(r) ==
  /\ pricer[r].at = "instance"
  /\ Goto(r, [pricer[r] EXCEPT !.at = "commit"])
  /\ UNCHANGED <<activeRules, taken, phase, scheduled, fare, flexiFare, current,
                 reseeded, changes>>

CommitPrices(r) ==
  /\ pricer[r].at = "commit"
  /\ LET i == pricer[r].trip
         price == NewPrice(i, pricer[r].multiplier)
     IN /\ fare' = [fare EXCEPT ![i] = price]
        /\ flexiFare' = [flexiFare EXCEPT ![i] = price + Flexi]
        /\ current' = [current EXCEPT ![i] = price]
        /\ reseeded' = reseeded \ {i}
  /\ NextTrip(r)
  /\ UNCHANGED <<activeRules, taken, phase, scheduled, changes>>
-----------------------------------------------------------------------------
(* What happens meanwhile.  MaxChanges bounds it. *)

Change == changes < MaxChanges /\ changes' = changes + 1

\* A statement fails or two transactions deadlock: this one is rolled back.
PricesFail(r) ==
  /\ Change
  /\ pricer[r].at \in {"fares", "instance", "commit"}
  /\ NextTrip(r)
  /\ UNCHANGED <<activeRules, taken, phase, scheduled, fare, flexiFare, current, reseeded>>

\* CreatePricingRule, UpdatePricingRule: a rule comes into force or goes out of it.
UpdatePricingRule(n) ==
  /\ Change
  /\ activeRules' = IF n \in activeRules THEN activeRules \ {n} ELSE activeRules \cup {n}
  /\ UNCHANGED <<taken, phase, scheduled, fare, flexiFare, current, reseeded, pricer>>

\* Bookings confirmed and cancelled.
SeatsChange(i, n) ==
  /\ Change
  /\ taken' = [taken EXCEPT ![i] = n]
  /\ UNCHANGED <<activeRules, phase, scheduled, fare, flexiFare, current, reseeded, pricer>>

\* UpdateBusInstanceStatus: to SCHEDULED from whatever it is, and back.
UpdateBusInstanceStatus(i) ==
  /\ Change
  /\ scheduled' = IF i \in scheduled THEN scheduled \ {i} ELSE scheduled \cup {i}
  /\ UNCHANGED <<activeRules, taken, phase, fare, flexiFare, current, reseeded, pricer>>

TimePasses(i) ==
  /\ phase[i] # "left"
  /\ phase' = [phase EXCEPT ![i] = IF @ = "early" THEN "soon" ELSE "left"]
  /\ UNCHANGED <<activeRules, taken, scheduled, fare, flexiFare, current, reseeded,
                 pricer, changes>>

\* The service restarts with the seeder switched on: it writes the fares of the
\* data files, GENERAL ones of I and FLEXI ones of F, over those of the instances
\* it knows, and not the instances.
SeedFares(I, F) ==
  /\ Change
  /\ fare' = [i \in Trips |-> IF i \in I THEN FilePrice ELSE fare[i]]
  /\ flexiFare' = [i \in Trips |-> IF i \in F THEN FilePrice ELSE flexiFare[i]]
  /\ reseeded' = reseeded \cup I \cup F
  /\ pricer' = [r \in Pricer |-> IdlePricer]
  /\ UNCHANGED <<activeRules, taken, phase, scheduled, current>>

\* What a run does of itself.
RunSteps(r) ==
  \/ FetchRules(r) \/ FetchInstances(r) \/ ApplyRules(r)
  \/ UpdateFares(r) \/ UpdateInstance(r) \/ CommitPrices(r)

PricingNext ==
  \/ \E r \in Pricer : RunSteps(r) \/ PricesFail(r)
  \/ \E n \in DOMAIN RuleList : UpdatePricingRule(n)
  \/ \E i \in Trips : \/ UpdateBusInstanceStatus(i) \/ TimePasses(i)
                      \/ \E n \in 0..2 : SeatsChange(i, n)
  \/ \E I, F \in SUBSET Trips : SeedFares(I, F)

PricingSpec == PricingInit /\ [][PricingNext]_pricingVars
-----------------------------------------------------------------------------
PricingTypeOK ==
  /\ activeRules \subseteq DOMAIN RuleList
  /\ taken \in [Trips -> 0..2]
  /\ phase \in [Trips -> {"early", "soon", "left"}]
  /\ scheduled \subseteq Trips /\ reseeded \subseteq Trips
  /\ \A i \in Trips : {fare[i], flexiFare[i], current[i]} \subseteq Nat
  /\ \A r \in Pricer :
       /\ pricer[r].at \in {"idle", "rules", "next", "fares", "instance", "commit"}
       /\ pricer[r].rules \subseteq DOMAIN RuleList /\ pricer[r].todo \subseteq Trips
       /\ pricer[r].trip \in Trips \cup {NoTrips} /\ pricer[r].multiplier \in Nat
  /\ changes \in 0..MaxChanges

\* The price that a search shows is what a GENERAL fare costs, and a FLEXI fare
\* costs the supplement more, although two runs with different rules in mind
\* write them row by row; until the next run, fares of the data files differ.
QuotedIsCharged ==
  \A i \in Trips \ reseeded : fare[i] = current[i] /\ flexiFare[i] = fare[i] + Flexi

\* Whatever stale runs have written, prices come to be what the rules, the seats
\* and the time make of the base price, or the trip goes off sale.
PricesCatchUp ==
  \A i \in Trips :
    []<>(~OnSale(i) \/ fare[i] = Base * FinalMultiplier(activeRules, i))
=============================================================================
