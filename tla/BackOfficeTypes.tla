-------------------------- MODULE BackOfficeTypes --------------------------
(***************************************************************************)
(* The parts behind the bookings, put together: a behaviour of the         *)
(* composition is one of each part, so what is proved of a part holds of   *)
(* it.  Here are also the types of the prices and of the trains'           *)
(* schedules, for which products have to be shown to be numbers.           *)
(***************************************************************************)
EXTENDS MCBackOffice, BackOfficeProofs, SeatLedgerProofs, BusAccountingProofs,
        WellFoundedInduction
-----------------------------------------------------------------------------
(* Products. *)

\* Induction for sets of numbers, from the order of the naturals being well founded.
LEMMA NumbersFrom0 ==
  ASSUME NEW T, 0 \in T, \A n \in Nat : n \in T => n + 1 \in T
  PROVE  \A n \in Nat : n \in T
  <1> DEFINE U == Nat \ T
             R == OpToRel(<, Nat)
  <1>1. ASSUME U # {} PROVE FALSE
    <2>1. IsWellFoundedOn(R, Nat)
      BY NatLessThanWellFounded
    <2>2. U \subseteq Nat
      OBVIOUS
    <2> HIDE DEF R
    <2>3. \E x \in U : \A y \in U : <<y, x>> \notin R
      BY <1>1, <2>1, <2>2, WFMin
    <2>4. PICK m \in U : \A y \in U : <<y, m>> \notin R
      BY <2>3
    <2>5. m # 0 /\ m - 1 \in Nat /\ (m - 1) + 1 = m
      BY <2>4
    <2>6. <<m - 1, m>> \in R
      BY <2>5 DEF R, OpToRel
    <2>7. m - 1 \in T
      BY <2>4, <2>5, <2>6
    <2>8. QED
      BY <2>4, <2>5, <2>7
  <1>2. QED
    BY <1>1

\* What rules that apply make of a price, one upon the other.
Multiplied(S) == FoldSet(LAMBDA p, product : p.multiplier * product, 1, S)

\* The fold is defined by recursion on finite sets: that there is a function that
\* obeys it, and that all such functions have natural values, both go by induction.
LEMMA ProductIsNatural ==
  ASSUME NEW S, IsFiniteSet(S), \A p \in S : p.multiplier \in Nat
  PROVE  Multiplied(S) \in Nat
  <1> DEFINE any(s) == CHOOSE x \in s : TRUE
             step(f, s) == IF s = {} THEN 1 ELSE any(s).multiplier * f[s \ {any(s)}]
             iter == CHOOSE f : f = [s \in SUBSET S |-> step(f, s)]
             Recurs(f, n) == \A s \in SUBSET S : Cardinality(s) <= n => f[s] = step(f, s)
  <1>1. Multiplied(S) = iter[S]
    BY DEF Multiplied, FoldSet, MapThenFoldSet
  <1>2. \A s \in SUBSET S :
          /\ Cardinality(s) \in Nat
          /\ Cardinality(s) = 0 <=> s = {}
          /\ s # {} => /\ any(s) \in S /\ s \ {any(s)} \in SUBSET S
                       /\ Cardinality(s \ {any(s)}) = Cardinality(s) - 1
    <2> SUFFICES ASSUME NEW s \in SUBSET S
                 PROVE  /\ Cardinality(s) \in Nat
                        /\ Cardinality(s) = 0 <=> s = {}
                        /\ s # {} => /\ any(s) \in S /\ s \ {any(s)} \in SUBSET S
                                     /\ Cardinality(s \ {any(s)}) = Cardinality(s) - 1
      OBVIOUS
    <2>1. IsFiniteSet(s)
      BY FS_Subset
    <2>2. Cardinality(s) \in Nat /\ (Cardinality(s) = 0 <=> s = {})
      BY <2>1, FS_CardinalityType, FS_EmptySet
    <2>3. s # {} => any(s) \in s
      OBVIOUS
    <2>4. s # {} => Cardinality(s \ {any(s)}) = Cardinality(s) - 1
      BY <2>1, <2>3, FS_RemoveElement
    <2>5. QED
      BY <2>2, <2>3, <2>4
  <1> HIDE DEF any
  <1>3. \A f \in [SUBSET S -> Nat], s \in SUBSET S : step(f, s) \in Nat
    <2> SUFFICES ASSUME NEW f \in [SUBSET S -> Nat], NEW s \in SUBSET S, s # {}
                 PROVE  any(s).multiplier * f[s \ {any(s)}] \in Nat
      OBVIOUS
    <2>1. any(s).multiplier \in Nat /\ f[s \ {any(s)}] \in Nat
      BY <1>2
    <2>2. \A a, b \in Nat : a * b \in Nat
      OBVIOUS
    <2>3. QED
      BY <2>1, <2>2, Zenon
  \* A function that obeys the recursion for all small sets can be mended to obey
  \* it for sets of one element more.
  <1>4. \A n \in Nat : \E f \in [SUBSET S -> Nat] : Recurs(f, n)
    <2> DEFINE T == {n \in Nat : \E f \in [SUBSET S -> Nat] : Recurs(f, n)}
    <2>1. 0 \in T
      <3> DEFINE f == [s \in SUBSET S |-> 1]
      <3>1. f \in [SUBSET S -> Nat]
        OBVIOUS
      <3>2. ASSUME NEW s \in SUBSET S, Cardinality(s) <= 0 PROVE f[s] = step(f, s)
        <4>1. Cardinality(s) \in Nat /\ (Cardinality(s) = 0 <=> s = {})
          BY <1>2
        <4>2. s = {}
          BY <3>2, <4>1
        <4>3. QED
          BY <4>2
      <3> HIDE DEF f
      <3>3. QED
        BY <3>1, <3>2
    <2>2. ASSUME NEW n \in Nat, n \in T PROVE n + 1 \in T
      <3>1. PICK f \in [SUBSET S -> Nat] : Recurs(f, n)
        BY <2>2
      <3> DEFINE g == [s \in SUBSET S |-> step(f, s)]
      <3>2. g \in [SUBSET S -> Nat]
        BY <1>3
      <3>3. ASSUME NEW s \in SUBSET S, Cardinality(s) <= n + 1
            PROVE  g[s] = step(g, s)
        <4>1. CASE s = {}
          BY <4>1
        <4>2. CASE s # {}
          <5> DEFINE t == s \ {any(s)}
          <5>1. t \in SUBSET S /\ Cardinality(t) <= n
            BY <1>2, <3>3, <4>2
          <5>2. g[t] = f[t]
            BY <3>1, <5>1
          <5>3. g[s] = any(s).multiplier * f[t]
            BY <4>2
          <5>4. QED
            BY <4>2, <5>2, <5>3
        <4>3. QED
          BY <4>1, <4>2
      <3> HIDE DEF g
      <3>4. Recurs(g, n + 1)
        BY <3>3, Zenon
      <3> HIDE DEF Recurs
      <3>5. QED
        BY <3>2, <3>4
    <2> HIDE DEF T
    <2>3. \A n \in Nat : n \in T
      BY <2>1, <2>2, NumbersFrom0
    <2>4. QED
      BY <2>3 DEF T
  <1>5. iter = [s \in SUBSET S |-> step(iter, s)]
    <2>1. PICK f \in [SUBSET S -> Nat] : Recurs(f, Cardinality(S))
      BY <1>2, <1>4
    <2>2. \A s \in SUBSET S : f[s] = step(f, s)
      <3>1. \A s \in SUBSET S : Cardinality(s) <= Cardinality(S)
        BY FS_Subset
      <3>2. QED
        BY <2>1, <3>1
    <2>3. f = [s \in SUBSET S |-> step(f, s)]
      BY <2>1, <2>2
    <2>4. QED
      BY <2>3
  <1> HIDE DEF iter
  <1>6. \A n \in Nat : \A s \in SUBSET S : Cardinality(s) = n => iter[s] \in Nat
    <2> DEFINE T == {n \in Nat : \A s \in SUBSET S : Cardinality(s) = n => iter[s] \in Nat}
    <2>1. 0 \in T
      <3>1. iter[{}] = 1
        BY <1>5
      <3>2. \A s \in SUBSET S : Cardinality(s) = 0 => s = {}
        BY <1>2
      <3>3. QED
        BY <3>1, <3>2
    <2>2. ASSUME NEW n \in Nat, n \in T PROVE n + 1 \in T
      <3> SUFFICES ASSUME NEW s \in SUBSET S, Cardinality(s) = n + 1
                   PROVE  iter[s] \in Nat
        OBVIOUS
      <3>1. s # {} /\ any(s) \in S /\ s \ {any(s)} \in SUBSET S
            /\ Cardinality(s \ {any(s)}) = n
        BY <1>2
      <3>2. iter[s] = any(s).multiplier * iter[s \ {any(s)}]
        BY <1>5, <3>1
      <3>3. any(s).multiplier \in Nat /\ iter[s \ {any(s)}] \in Nat
        BY <2>2, <3>1
      <3>4. \A a, b \in Nat : a * b \in Nat
        OBVIOUS
      <3>5. QED
        BY <3>2, <3>3, <3>4, Zenon
    <2> HIDE DEF T
    <2>3. \A n \in Nat : n \in T
      BY <2>1, <2>2, NumbersFrom0
    <2>4. QED
      BY <2>3 DEF T
  <1>7. S \in SUBSET S /\ Cardinality(S) \in Nat
    BY FS_CardinalityType
  <1>8. QED
    BY <1>1, <1>6, <1>7
-----------------------------------------------------------------------------
(* The prices of a bus. *)

LEMMA NaturalProduct == \A a, b \in Nat : a * b \in Nat
  OBVIOUS

\* Every set of numbers that is not empty has a least one.
LEMMA LeastNumber ==
  ASSUME NEW T, T \subseteq Nat, T # {}
  PROVE  Min(T) \in T
  <1> DEFINE R == OpToRel(<, Nat)
  <1>1. IsWellFoundedOn(R, Nat)
    BY NatLessThanWellFounded
  <1> HIDE DEF R
  <1>2. PICK m \in T : \A n \in T : <<n, m>> \notin R
    BY <1>1, WFMin
  <1>3. \A n \in T : m <= n
    <2> TAKE n \in T
    <2>1. n < m => <<n, m>> \in R
      BY DEF R, OpToRel
    <2>2. QED
      BY <1>2, <2>1
  <1>4. QED
    BY <1>2, <1>3 DEF Min

LEMMA FactorsAreNatural ==
  \A rules \in SUBSET (DOMAIN RuleList) : \A i : FinalMultiplier(rules, i) \in Nat
  <1>1. ASSUME NEW rules \in SUBSET (DOMAIN RuleList), NEW i, NEW type
        PROVE  FactorOf(type, rules, i) \in Nat
    <2> DEFINE matching == {n \in rules : RuleList[n].type = type /\ Matches(n, i)}
    <2>1. matching \subseteq Nat /\ matching \subseteq DOMAIN RuleList
      BY PricingAssumption
    <2>2. FactorOf(type, rules, i) =
            IF matching = {} THEN 1 ELSE RuleList[Min(matching)].factor
      BY DEF FactorOf
    <2> HIDE DEF matching
    <2>3. matching # {} => Min(matching) \in DOMAIN RuleList
      BY <2>1, LeastNumber
    <2>4. \A n \in DOMAIN RuleList : RuleList[n].factor \in Nat
      BY PricingAssumption
    <2>5. QED
      BY <2>2, <2>3, <2>4
  <1>2. QED
    BY <1>1, NaturalProduct DEF FinalMultiplier

PricerState ==
  [at : {"idle", "rules", "next", "fares", "instance", "commit"},
   rules : SUBSET (DOMAIN RuleList), todo : SUBSET Trips,
   trip : Trips \cup {NoTrips}, multiplier : Nat]

\* The same types, of functions and records as a whole.
PricingInv ==
  /\ PricingTypeOK
  /\ fare \in [Trips -> Nat] /\ flexiFare \in [Trips -> Nat] /\ current \in [Trips -> Nat]
  /\ pricer \in [Pricer -> PricerState]

LEMMA PricerStep ==
  ASSUME PricingInv, NEW r \in Pricer, NEW p \in PricerState, Goto(r, p)
  PROVE  pricer' \in [Pricer -> PricerState]
  BY DEF PricingInv, Goto

LEMMA NextPricingInv ==
  ASSUME PricingInv, [PricingNext]_pricingVars
  PROVE  PricingInv'
  <1> USE PricingAssumption
  <1>0. \A q \in PricerState : /\ q.at \in {"idle", "rules", "next", "fares", "instance", "commit"}
                               /\ q.rules \subseteq DOMAIN RuleList /\ q.todo \subseteq Trips
                               /\ q.trip \in Trips \cup {NoTrips} /\ q.multiplier \in Nat
    BY DEF PricerState
  <1>1. ASSUME pricer' \in [Pricer -> PricerState],
               fare' \in [Trips -> Nat], flexiFare' \in [Trips -> Nat],
               current' \in [Trips -> Nat], activeRules' \subseteq DOMAIN RuleList,
               taken' \in [Trips -> 0..2], phase' \in [Trips -> {"early", "soon", "left"}],
               scheduled' \subseteq Trips, reseeded' \subseteq Trips, changes' \in 0..MaxChanges
        PROVE  PricingInv'
    BY <1>0, <1>1 DEF PricingInv, PricingTypeOK
  <1>2. ASSUME Change PROVE changes' \in 0..MaxChanges
    BY <1>2 DEF Change, PricingInv, PricingTypeOK
  <1>3. IdlePricer \in PricerState
    BY DEF IdlePricer, PricerState
  <1>4. ASSUME NEW r \in Pricer
        PROVE  [pricer[r] EXCEPT !.at = "next", !.trip = NoTrips, !.multiplier = 1] \in PricerState
    BY DEF PricingInv, PricerState
  <1>5. ASSUME NEW r \in Pricer, RunSteps(r) \/ PricesFail(r), ~CommitPrices(r)
        PROVE  PricingInv'
    <2>1. /\ UNCHANGED <<activeRules, taken, phase, scheduled, fare, flexiFare, current, reseeded>>
          /\ UNCHANGED changes \/ Change
      BY <1>5 DEF RunSteps, PricesFail, FetchRules, FetchInstances, ApplyRules,
                  UpdateFares, UpdateInstance
    <2>2. changes' \in 0..MaxChanges
      BY <1>2, <2>1 DEF PricingInv, PricingTypeOK
    <2>3. pricer' \in [Pricer -> PricerState]
      <3>1. CASE FetchRules(r)
        <4>1. [IdlePricer EXCEPT !.at = "rules", !.rules = activeRules] \in PricerState
          BY DEF IdlePricer, PricerState, PricingInv, PricingTypeOK
        <4>2. QED
          BY <3>1, <4>1, PricerStep DEF FetchRules
      <3>2. CASE FetchInstances(r)
        <4>1. [pricer[r] EXCEPT !.at = "next", !.todo = {i \in Trips : OnSale(i)}] \in PricerState
          BY DEF PricingInv, PricerState
        <4>2. QED
          BY <3>2, <4>1, PricerStep DEF FetchInstances
      <3>3. CASE ApplyRules(r)
        <4>1. ASSUME NEW i \in pricer[r].todo
              PROVE  [pricer[r] EXCEPT !.at = "fares", !.trip = i, !.todo = @ \ {i},
                       !.multiplier = FinalMultiplier(pricer[r].rules, i)] \in PricerState
          <5>1. pricer[r] \in PricerState /\ i \in Trips
            BY DEF PricingInv, PricerState
          <5>2. FinalMultiplier(pricer[r].rules, i) \in Nat
            BY <1>0, <5>1, FactorsAreNatural
          <5>3. QED
            BY <5>1, <5>2 DEF PricerState
        <4>2. QED
          BY <1>3, <3>3, <4>1, PricerStep DEF ApplyRules
      <3>4. CASE UpdateFares(r)
        <4>1. [pricer[r] EXCEPT !.at = "instance"] \in PricerState
          BY DEF PricingInv, PricerState
        <4>2. QED
          BY <3>4, <4>1, PricerStep DEF UpdateFares
      <3>5. CASE UpdateInstance(r)
        <4>1. [pricer[r] EXCEPT !.at = "commit"] \in PricerState
          BY DEF PricingInv, PricerState
        <4>2. QED
          BY <3>5, <4>1, PricerStep DEF UpdateInstance
      <3>6. CASE PricesFail(r)
        BY <1>4, <3>6, PricerStep DEF PricesFail, NextTrip
      <3>7. QED
        BY <1>5, <3>1, <3>2, <3>3, <3>4, <3>5, <3>6 DEF RunSteps
    <2>4. QED
      BY <1>1, <2>1, <2>2, <2>3 DEF PricingInv, PricingTypeOK
  <1>6. ASSUME NEW r \in Pricer, CommitPrices(r)
        PROVE  PricingInv'
    <2> DEFINE i == pricer[r].trip
               amount == NewPrice(i, pricer[r].multiplier)
    <2>1. /\ fare' = [fare EXCEPT ![i] = amount]
          /\ flexiFare' = [flexiFare EXCEPT ![i] = amount + Flexi]
          /\ current' = [current EXCEPT ![i] = amount]
          /\ reseeded' = reseeded \ {i}
          /\ NextTrip(r) /\ UNCHANGED <<activeRules, taken, phase, scheduled, changes>>
      BY <1>6 DEF CommitPrices
    <2>2. amount \in Nat
      BY <1>0, NaturalProduct DEF NewPrice, PricingInv
    <2> HIDE DEF i, amount
    <2>3. fare' \in [Trips -> Nat] /\ flexiFare' \in [Trips -> Nat] /\ current' \in [Trips -> Nat]
      <3>1. amount + Flexi \in Nat
        BY <2>2
      <3>2. \A f \in [Trips -> Nat], n \in Nat : [f EXCEPT ![i] = n] \in [Trips -> Nat]
        OBVIOUS
      <3>3. QED
        BY <2>1, <2>2, <3>1, <3>2 DEF PricingInv
    <2>4. pricer' \in [Pricer -> PricerState]
      BY <1>4, <2>1, PricerStep DEF NextTrip
    <2>5. QED
      BY <1>1, <2>1, <2>3, <2>4 DEF PricingInv, PricingTypeOK
  <1>7. ASSUME NEW n \in DOMAIN RuleList, UpdatePricingRule(n)
        PROVE  PricingInv'
    BY <1>1, <1>2, <1>7 DEF UpdatePricingRule, PricingInv, PricingTypeOK
  <1>8. ASSUME NEW i \in Trips, UpdateBusInstanceStatus(i)
        PROVE  PricingInv'
    BY <1>1, <1>2, <1>8 DEF UpdateBusInstanceStatus, PricingInv, PricingTypeOK
  <1>9. ASSUME NEW i \in Trips, TimePasses(i)
        PROVE  PricingInv'
    BY <1>1, <1>9 DEF TimePasses, PricingInv, PricingTypeOK
  <1>10. ASSUME NEW i \in Trips, NEW n \in 0..2, SeatsChange(i, n)
         PROVE  PricingInv'
    BY <1>1, <1>2, <1>10 DEF SeatsChange, PricingInv, PricingTypeOK
  <1>11. ASSUME NEW I \in SUBSET Trips, NEW F \in SUBSET Trips, SeedFares(I, F)
         PROVE  PricingInv'
    BY <1>1, <1>2, <1>3, <1>11 DEF SeedFares, PricingInv, PricingTypeOK
  <1>12. CASE UNCHANGED pricingVars
    BY <1>12 DEF pricingVars, PricingInv, PricingTypeOK
  <1>13. QED
    BY <1>5, <1>6, <1>7, <1>8, <1>9, <1>10, <1>11, <1>12 DEF PricingNext

\* Prices, multipliers and what the runs have read have their types: no product of
\* factors leaves the naturals (applyRulesToInstance).
THEOREM PricingTypes == PricingSpec => []PricingTypeOK
  <1>1. PricingInit => PricingInv
    BY PricingAssumption
       DEF PricingInit, PricingInv, PricingTypeOK, IdlePricer, PricerState
  <1>2. PricingInv => PricingTypeOK
    BY DEF PricingInv
  <1>3. QED
    BY <1>1, <1>2, NextPricingInv, PTL DEF PricingSpec
-----------------------------------------------------------------------------
(* The schedules of a train. *)

LEMMA NextTrainInventoryType ==
  ASSUME ScheduleInv, TrainInventoryTypeOK, [TrainInventoryNext]_trainInventoryVars
  PROVE  TrainInventoryTypeOK'
  <1> USE TrainInventoryAssumption
  <1> DEFINE Typed(g) ==
        /\ g.at \in {"idle", "check", "insert", "berths", "commit"}
        /\ g.date \in 1..(LastDay + 1) /\ g.until \in 0..LastDay
        /\ g.berths \subseteq AllBerths
  <1>1. Typed(AtRest)
    BY DEF AtRest
  <1>2. DOMAIN run = Run /\ \A r \in Run : DOMAIN run[r] = RunFields /\ Typed(run[r])
    BY DEF ScheduleInv, RunShape, TrainInventoryTypeOK
  <1>3. ASSUME NEW r \in Run, NEW g, StepTo(r, g), Typed(g), UNCHANGED <<stopCount, trainActive>>
        PROVE  TrainInventoryTypeOK'
    <2>1. \A q \in Run : run'[q] = IF q = r THEN g ELSE run[q]
      BY <1>2, <1>3 DEF StepTo
    <2>2. \A q \in Run : Typed(run'[q])
      BY <1>2, <1>3, <2>1
    <2>3. QED
      BY <1>3, <2>2 DEF TrainInventoryTypeOK
  <1>4. ASSUME NEW r \in Run, NextDay(r), run[r].date \in ScheduleDate,
               UNCHANGED <<stopCount, trainActive>>
        PROVE  TrainInventoryTypeOK'
    <2> DEFINE g == [run[r] EXCEPT !.at = "check", !.date = @ + 1, !.berths = {}]
    <2>1. /\ g.at = "check" /\ g.date = run[r].date + 1 /\ g.until = run[r].until
          /\ g.berths = {}
      BY <1>2 DEF RunFields
    <2>2. run[r].date + 1 \in 1..(LastDay + 1)
      BY <1>4 DEF ScheduleDate
    <2> HIDE DEF g
    <2>3. Typed(g)
      BY <1>2, <2>1, <2>2
    <2>4. QED
      BY <1>3, <1>4, <2>3 DEF NextDay, g
  <1>5. CASE TrainBoots
    BY <1>1, <1>5 DEF TrainBoots, SeedTrains, TrainInventoryTypeOK
  <1>6. CASE AdminUpdateTrain \/ \E d \in ScheduleDate : MoveCounter(d)
    BY <1>6 DEF AdminUpdateTrain, MoveCounter, TrainInventoryTypeOK
  <1>7. ASSUME NEW r \in Run,
               \/ StartRun(r) \/ CheckSchedule(r) \/ CreateSchedule(r)
               \/ CreateBerths(r) \/ CommitSchedule(r) \/ TransactionFails(r)
        PROVE  TrainInventoryTypeOK'
    <2>1. UNCHANGED <<stopCount, trainActive>>
      BY <1>7 DEF StartRun, CheckSchedule, CreateSchedule, CreateBerths, CommitSchedule,
                  TransactionFails
    <2>2. /\ DOMAIN run[r] = RunFields /\ Typed(run[r])
          /\ run[r].at \in {"insert", "berths", "commit"} => run[r].date \in ScheduleDate
      BY <1>2 DEF ScheduleInv, RunShape
    <2>3. CASE StartRun(r)
      <3>1. PICK days \in ScheduleDate : StepTo(r, [AtRest EXCEPT !.at = "check", !.until = days])
        BY <2>3 DEF StartRun
      <3>2. Typed([AtRest EXCEPT !.at = "check", !.until = days])
        BY DEF AtRest, ScheduleDate
      <3>3. QED
        BY <1>3, <2>1, <3>1, <3>2
    <2>4. CASE CheckSchedule(r)
      <3>1. CASE run[r].date > run[r].until
        <4>1. ~(run[r].date <= run[r].until)
          BY <2>2, <3>1
        <4>2. StepTo(r, AtRest)
          BY <2>4, <3>1, <4>1 DEF CheckSchedule
        <4>3. QED
          BY <1>1, <1>3, <2>1, <4>2
      <3>2. CASE run[r].date <= run[r].until
        <4>1. ~(run[r].date > run[r].until) /\ run[r].date \in ScheduleDate
          BY <2>2, <3>2 DEF ScheduleDate
        <4>2. NextDay(r) \/ StepTo(r, [run[r] EXCEPT !.at = "insert"])
          BY <2>4, <3>2, <4>1 DEF CheckSchedule
        <4>3. Typed([run[r] EXCEPT !.at = "insert"])
          BY <2>2 DEF RunFields
        <4>4. QED
          BY <1>3, <1>4, <2>1, <4>1, <4>2, <4>3
      <3>3. QED
        BY <2>2, <3>1, <3>2
    <2>5. CASE CreateSchedule(r)
      <3>1. Typed([run[r] EXCEPT !.at = "berths"])
        BY <2>2 DEF RunFields
      <3>2. QED
        BY <1>3, <2>1, <2>5, <3>1 DEF CreateSchedule
    <2>6. CASE CreateBerths(r)
      <3>1. Typed([run[r] EXCEPT !.at = "commit", !.berths = AllBerths])
        BY <2>2 DEF RunFields
      <3>2. QED
        BY <1>3, <2>1, <2>6, <3>1 DEF CreateBerths
    <2>7. CASE CommitSchedule(r)
      BY <1>4, <2>1, <2>2, <2>7 DEF CommitSchedule
    <2>8. CASE TransactionFails(r)
      BY <1>4, <2>1, <2>2, <2>8 DEF TransactionFails, InTransaction
    <2>9. QED
      BY <1>7, <2>3, <2>4, <2>5, <2>6, <2>7, <2>8
  <1>8. CASE UNCHANGED trainInventoryVars
    BY <1>8 DEF trainInventoryVars, TrainInventoryTypeOK
  <1>9. QED
    BY <1>5, <1>6, <1>7, <1>8 DEF TrainInventoryNext

\* The runs of the job stay within the days they were asked for (generateForTrain).
THEOREM ScheduleTypes == TrainInventorySpec => []TrainInventoryTypeOK
  <1>1. TrainInventoryInit => ScheduleInv /\ TrainInventoryTypeOK
    BY InitScheduleInv, TrainInventoryAssumption
       DEF TrainInventoryInit, TrainInventoryTypeOK, AtRest
  <1>2. /\ ScheduleInv /\ TrainInventoryTypeOK
        /\ [TrainInventoryNext]_trainInventoryVars
        => (ScheduleInv /\ TrainInventoryTypeOK)'
    BY ScheduleInvKept, NextTrainInventoryType
  <1>3. QED
    BY <1>1, <1>2, PTL DEF TrainInventorySpec
-----------------------------------------------------------------------------
(* The prices of a train. *)

LEMMA RulesMultiply == \A rules \in SUBSET PriceRule : ApplyPriceRules(rules) \in Nat
  <1> TAKE rules \in SUBSET PriceRule
  <1> DEFINE matching == {p \in rules : RuleMatches(p)}
  <1>1. IsFiniteSet(matching)
    <2>1. matching \subseteq PriceRule
      OBVIOUS
    <2>2. QED
      BY <2>1, FS_Subset, TrainPricingAssumption
  <1>2. \A p \in matching : p.multiplier \in Nat
    BY TrainPricingAssumption
  <1>3. ApplyPriceRules(rules) = Multiplied(matching)
    BY DEF ApplyPriceRules, Multiplied
  <1> HIDE DEF matching
  <1>4. QED
    BY <1>1, <1>2, <1>3, ProductIsNatural

LEMMA BerthPricesAreNatural ==
  \A b \in Berth, stops \in Nat, rules \in SUBSET PriceRule : FinalPrice(b, stops, rules) \in Nat
  <1> TAKE b \in Berth, stops \in Nat, rules \in SUBSET PriceRule
  <1>1. 100 + 20 * stops \in Nat
    OBVIOUS
  <1>2. ClassMultiplier(ClassOf[b]) \in Nat
    BY TrainPricingAssumption DEF ClassMultiplier
  <1>3. BerthMultiplier(b) \in Nat
    BY DEF BerthMultiplier
  <1>4. ApplyPriceRules(rules) \in Nat
    BY RulesMultiply
  <1>5. (100 + 20 * stops) * ClassMultiplier(ClassOf[b]) \in Nat
    BY <1>1, <1>2, NaturalProduct, Zenon
  <1>6. (100 + 20 * stops) * ClassMultiplier(ClassOf[b]) * BerthMultiplier(b) \in Nat
    BY <1>3, <1>5, NaturalProduct, Zenon
  <1>7. QED
    BY <1>4, <1>6, NaturalProduct, Zenon DEF FinalPrice

PassState ==
  [at : {"waiting", "rules", "write"}, rules : SUBSET PriceRule,
   stops : 0..MaxStops, todo : SUBSET Berth]

TrainPricingInv ==
  /\ TrainPricingTypeOK
  /\ pass \in PassState

LEMMA NextTrainPricingInv ==
  ASSUME TrainPricingInv, [TrainPricingNext]_priceVars
  PROVE  TrainPricingInv'
  <1> USE TrainPricingAssumption
  <1>2. \A p \in PassState : /\ p.at \in {"waiting", "rules", "write"}
                             /\ p.rules \subseteq PriceRule
                             /\ p.stops \in 0..MaxStops /\ p.todo \subseteq Berth
    BY DEF PassState
  <1>3. NoPass \in PassState
    BY DEF NoPass, PassState
  <1>4. ASSUME Edit PROVE edits' \in 0..MaxEdits
    BY <1>4 DEF Edit, TrainPricingInv, TrainPricingTypeOK
  <1>5. ASSUME pass' \in PassState, edits' \in 0..MaxEdits, UNCHANGED RestOfPricing
        PROVE  TrainPricingInv'
    BY <1>2, <1>5 DEF TrainPricingInv, TrainPricingTypeOK, RestOfPricing
  <1>6. CASE FetchPriceRules
    <2>1. [NoPass EXCEPT !.at = "rules", !.rules = inForce] \in PassState
      <3>1. inForce \in SUBSET PriceRule
        BY DEF TrainPricingInv, TrainPricingTypeOK
      <3>2. QED
        BY <1>3, <3>1 DEF PassState
    <2>2. QED
      BY <1>5, <1>6, <2>1 DEF FetchPriceRules, TrainPricingInv, TrainPricingTypeOK
  <1>7. CASE FetchBerths
    <2>1. [pass EXCEPT !.at = "write", !.stops = trainStops, !.todo = available] \in PassState
      <3>1. trainStops \in 0..MaxStops /\ available \subseteq Berth
        BY DEF TrainPricingInv, TrainPricingTypeOK
      <3>2. QED
        BY <3>1 DEF PassState, TrainPricingInv
    <2>2. QED
      BY <1>3, <1>5, <1>7, <2>1 DEF FetchBerths, TrainPricingInv, TrainPricingTypeOK
  <1>8. ASSUME NEW b \in pass.todo
        PROVE  [pass EXCEPT !.todo = @ \ {b}] \in PassState
    BY DEF PassState, TrainPricingInv
  <1>9. CASE WritePrice
    <2>1. PICK b \in pass.todo :
            /\ price' = [price EXCEPT ![b] = Written(b, FinalPrice(b, pass.stops, pass.rules))]
            /\ pass' = [pass EXCEPT !.todo = @ \ {b}]
      BY <1>9 DEF WritePrice
    <2>2. FinalPrice(b, pass.stops, pass.rules) \in Nat
      BY <1>2, BerthPricesAreNatural DEF TrainPricingInv
    <2>3. price' \in [Berth -> Nat]
      BY <2>1, <2>2 DEF Written, TrainPricingInv, TrainPricingTypeOK
    <2>4. pass' \in PassState
      BY <1>8, <2>1
    <2>5. QED
      BY <1>2, <1>9, <2>3, <2>4 DEF WritePrice, TrainPricingInv, TrainPricingTypeOK
  <1>10. CASE PassEnds
    BY <1>3, <1>5, <1>10 DEF PassEnds, TrainPricingInv, TrainPricingTypeOK
  <1>11. CASE CacheExpires
    BY <1>11 DEF CacheExpires, RestOfPricing, TrainPricingInv, TrainPricingTypeOK
  <1>12. ASSUME NEW q \in Searcher, SearchTrains(q) \/ CacheResult(q)
         PROVE  TrainPricingInv'
    BY <1>12 DEF SearchTrains, CacheResult, RestOfPricing, TrainPricingInv, TrainPricingTypeOK
  <1>13. ASSUME NEW p \in PriceRule, AdminUpdatePricingRule(p)
         PROVE  TrainPricingInv'
    BY <1>4, <1>13 DEF AdminUpdatePricingRule, TrainPricingInv, TrainPricingTypeOK
  <1>14. ASSUME NEW b \in Berth, BerthSold(b) \/ BerthReturned(b)
         PROVE  TrainPricingInv'
    <2>1. /\ available' \in SUBSET Berth /\ left' \in Int /\ edits' \in 0..MaxEdits
          /\ UNCHANGED <<inForce, trainStops, ahead, month, price, pass>>
      BY <1>4, <1>14 DEF BerthSold, BerthReturned, TrainPricingInv, TrainPricingTypeOK
    <2>2. QED
      BY <2>1 DEF TrainPricingInv, TrainPricingTypeOK
  <1>15. CASE CounterMoves
    BY <1>4, <1>15 DEF CounterMoves, TrainPricingInv, TrainPricingTypeOK
  <1>16. CASE EngineRestarts
    BY <1>2, <1>3, <1>4, <1>16 DEF EngineRestarts, TrainPricingInv, TrainPricingTypeOK
  <1>17. CASE WriteFails
    BY <1>4, <1>5, <1>8, <1>17 DEF WriteFails
  <1>18. CASE TimeGoesOn
    BY <1>18 DEF TimeGoesOn, TrainPricingInv, TrainPricingTypeOK
  <1>19. CASE UNCHANGED priceVars
    BY <1>19 DEF priceVars, TrainPricingInv, TrainPricingTypeOK
  <1>20. QED
    BY <1>6, <1>7, <1>9, <1>10, <1>11, <1>12, <1>13, <1>14, <1>15, <1>16, <1>17, <1>18, <1>19
       DEF TrainPricingNext, EngineSteps

\* Every berth's price is a number whatever rules match, and a pass of the engine has
\* nothing but rules and berths in hand (runPricingPass).
THEOREM BerthPriceTypes == TrainPricingSpec => []TrainPricingTypeOK
  <1>1. TrainPricingInit => TrainPricingInv
    <2>1. Cardinality(Berth) \in Int
      BY TrainPricingAssumption, FS_CardinalityType
    <2>2. QED
      BY <2>1, TrainPricingAssumption
         DEF TrainPricingInit, TrainPricingInv, TrainPricingTypeOK, NoPass, PassState
  <1>2. TrainPricingInv => TrainPricingTypeOK
    BY DEF TrainPricingInv
  <1>3. QED
    BY <1>1, <1>2, NextTrainPricingInv, PTL DEF TrainPricingSpec
-----------------------------------------------------------------------------
(* All parts together. *)

\* Whoever's part it is, the others stutter.
LEMMA PartsGoOn ==
  Spec => /\ LedgerSpec /\ AccountSpec /\ InventorySpec
          /\ PricingSpec /\ TrainInventorySpec /\ TrainPricingSpec
  <1>1. Init => /\ LedgerInit /\ AccountInit /\ InventoryInit
                /\ PricingInit /\ TrainInventoryInit /\ TrainPricingInit
    BY DEF Init
  <1>2. [Next]_BackVars =>
          /\ [LedgerNext]_ledgerVars /\ [AccountNext]_accountVars
          /\ [InventoryNext]_inventoryVars /\ [PricingNext]_pricingVars
          /\ [TrainInventoryNext]_trainInventoryVars /\ [TrainPricingNext]_priceVars
    BY DEF Next, BackVars, ledgerVars
  <1>3. QED
    BY <1>1, <1>2, PTL
       DEF Spec, LedgerSpec, AccountSpec, InventorySpec, PricingSpec, TrainInventorySpec,
           TrainPricingSpec

\* Every variable of the parts has its type.
THEOREM BackTypes == Spec => []BackTypeOK
  <1>1. LedgerTypeOK /\ AccountingTypeOK /\ InventoryTypeOK
          /\ PricingTypeOK /\ TrainInventoryTypeOK /\ TrainPricingTypeOK => BackTypeOK
    BY DEF BackTypeOK
  <1>2. QED
    BY <1>1, PartsGoOn, LedgerCorrect, AccountTypeOK, InventoryTypes, PricingTypes,
       ScheduleTypes, BerthPriceTypes, PTL

\* Every instance of a bus and every schedule of a train that a search can find is
\* whole, whatever runs of the generators overlap, fail or are cut off
\* (generateForDate, generateForTrain, SeedBusInstances).
THEOREM DeparturesStayWhole == Spec => []DeparturesAreWhole
  <1>1. SearchableIsWhole /\ SchedulesAreWhole => DeparturesAreWhole
    BY DEF DeparturesAreWhole
  <1>2. QED
    BY <1>1, PartsGoOn, InstancesStayWhole, SchedulesStayWhole, PTL
=============================================================================
