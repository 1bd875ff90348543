-------------------------- MODULE BackOfficeProofs --------------------------
(***************************************************************************)
(* Theorems about the jobs that put buses and trains on sale, for any      *)
(* number of runs at a time, of dates and of instances.                    *)
(***************************************************************************)
EXTENDS BusInventory, BusPricing, TrainInventory, FiniteSetTheorems, TLAPS
-----------------------------------------------------------------------------
(* The routes of a bus. *)

RowFields == {"kind", "seats", "free", "counter", "fares", "account",
              "boarding", "dropping", "booked", "marred"}

Forward(row) ==
  /\ row.boarding = {} <=> row.dropping = {}
  /\ \A b \in row.boarding, p \in row.dropping : b.order < p.order

\* What is there, as far as the route goes.
RowsAreForward ==
  /\ DOMAIN inst = TravelDate
  /\ \A d \in TravelDate : Exists(d) =>
       /\ DOMAIN inst[d] = RowFields
       /\ ~inst[d].marred => Forward(inst[d])

\* What a run has copied so far, and from where.
CopiesAreExact ==
  \A r \in Generator :
    /\ gen[r].at \in {"route", "boarding", "dropping", "commit"} => DOMAIN gen[r].row = RowFields
    /\ gen[r].at \in {"boarding", "dropping"} /\ gen[r].template # 0 =>
         gen[r].template \in TravelDate /\ Exists(gen[r].template)
    /\ gen[r].at = "dropping" /\ gen[r].template # 0 =>
         gen[r].row.boarding = inst[gen[r].template].boarding
    /\ gen[r].at = "commit" /\ ~gen[r].row.marred => Forward(gen[r].row)

\* The unique index: nobody writes a date that is there, or that another writes.
DatesAreOwned ==
  \A d \in TravelDate, r \in Generator : Writing(r, d) =>
    /\ ~Exists(d)
    /\ \A q \in Generator : Writing(q, d) => q = r

GenFields == {"at", "kind", "date", "row", "template"}

GenShape ==
  /\ DOMAIN gen = Generator
  /\ \A r \in Generator : /\ DOMAIN gen[r] = GenFields
                          /\ gen[r].date \in Nat /\ gen[r].date # 0
                          /\ gen[r].at \in {"insert", "route", "boarding", "dropping", "commit"} =>
                               gen[r].date \in TravelDate

RouteInv == GenShape /\ RowsAreForward /\ CopiesAreExact /\ DatesAreOwned

\* A route of the data files, where there is none, runs forward.
LEMMA SeededRoute ==
  ASSUME NEW d \in Seeded, ValidRoute(RawBoarding[d], RawDropping[d])
  PROVE  /\ AddPoints({}, RawBoarding[d], 0) # {}
         /\ AddPoints({}, RawDropping[d], Len(RawBoarding[d])) # {}
         /\ \A b \in AddPoints({}, RawBoarding[d], 0),
               p \in AddPoints({}, RawDropping[d], Len(RawBoarding[d])) : b.order < p.order
  <1> DEFINE bs == RawBoarding[d]
             ps == RawDropping[d]
  <1>1. /\ Len(bs) \in Nat /\ Len(ps) \in Nat
        /\ DOMAIN bs = 1..Len(bs) /\ DOMAIN ps = 1..Len(ps)
    BY InventoryAssumption
  <1> HIDE DEF bs, ps
  <1>2. /\ AddPoints({}, bs, 0) = {[stop |-> bs[i].stop, order |-> 0 + i] : i \in DOMAIN bs}
        /\ AddPoints({}, ps, Len(bs)) =
             {[stop |-> ps[i].stop, order |-> Len(bs) + i] : i \in DOMAIN ps}
    BY DEF AddPoints
  <1>3. \A b \in AddPoints({}, bs, 0), p \in AddPoints({}, ps, Len(bs)) : b.order < p.order
    BY <1>1, <1>2
  <1>4. bs[Len(bs)].order < ps[1].order /\ bs # <<>> /\ ps # <<>>
    BY DEF ValidRoute, bs, ps
  <1>5. 1 \in DOMAIN bs /\ 1 \in DOMAIN ps
    BY <1>1, <1>4
  <1>6. AddPoints({}, bs, 0) # {} /\ AddPoints({}, ps, Len(bs)) # {}
    <2>1. [stop |-> bs[1].stop, order |-> 0 + 1] \in AddPoints({}, bs, 0)
      BY <1>2, <1>5, Zenon
    <2>2. [stop |-> ps[1].stop, order |-> Len(bs) + 1] \in AddPoints({}, ps, Len(bs))
      BY <1>2, <1>5, Zenon
    <2>3. QED
      BY <2>1, <2>2, Zenon
  <1>7. QED
    BY <1>3, <1>6 DEF bs, ps

\* What a run may become, for the invariant to go on.
Fitting(r, g) ==
  /\ DOMAIN g = GenFields
  /\ g.date \in Nat /\ g.date # 0
  /\ g.at \in {"insert", "route", "boarding", "dropping", "commit"} => g.date \in TravelDate
  /\ g.at \in {"route", "boarding", "dropping", "commit"} => DOMAIN g.row = RowFields
  /\ g.at \in {"boarding", "dropping"} /\ g.template # 0 =>
       g.template \in TravelDate /\ Exists(g.template)
  /\ g.at = "dropping" /\ g.template # 0 => g.row.boarding = inst[g.template].boarding
  /\ g.at = "commit" /\ ~g.row.marred => Forward(g.row)
  /\ g.at \in {"route", "boarding", "dropping", "commit"} =>
       /\ ~Exists(g.date)
       /\ \A q \in Generator \ {r} : ~Writing(q, g.date)

LEMMA GeneratorStep ==
  ASSUME NEW r \in Generator, NEW g, RouteInv, Step(r, g), Fitting(r, g), inst' = inst
  PROVE  RouteInv'
  <1>1. gen' = [gen EXCEPT ![r] = g] /\ DOMAIN gen = Generator
    BY DEF Step, RouteInv, GenShape
  <1>2. gen'[r] = g /\ \A q \in Generator \ {r} : gen'[q] = gen[q]
    BY <1>1
  <1>3. GenShape'
    BY <1>1, <1>2 DEF GenShape, Fitting, RouteInv
  <1>4. RowsAreForward'
    BY DEF RowsAreForward, RouteInv, Exists, Forward
  <1>5. CopiesAreExact'
    BY <1>2 DEF CopiesAreExact, Fitting, RouteInv, Exists, Forward
  <1>6. DatesAreOwned'
    <2> SUFFICES ASSUME NEW d \in TravelDate, NEW q \in Generator, Writing(q, d)'
                 PROVE  ~Exists(d)' /\ \A p \in Generator : Writing(p, d)' => p = q
      BY DEF DatesAreOwned
    <2>1. \A p \in Generator \ {r} : Writing(p, d)' <=> Writing(p, d)
      BY <1>2 DEF Writing
    <2>2. Writing(r, d)' => ~Exists(d) /\ \A p \in Generator \ {r} : ~Writing(p, d)
      BY <1>2 DEF Writing, Fitting
    <2>3. Exists(d)' <=> Exists(d)
      BY DEF Exists
    <2>4. CASE q = r
      BY <2>1, <2>2, <2>3, <2>4
    <2>5. CASE q # r
      BY <2>1, <2>2, <2>3, <2>5 DEF DatesAreOwned, RouteInv
    <2>6. QED
      BY <2>4, <2>5
  <1>7. QED
    BY <1>3, <1>4, <1>5, <1>6 DEF RouteInv

\* A run that writes nothing may go on to any date.
LEMMA NextDateStep ==
  ASSUME NEW r \in Generator, RouteInv, NextDate(r), inst' = inst
  PROVE  RouteInv'
  <1> DEFINE g == [gen[r] EXCEPT !.at = "check", !.date = @ + 1, !.row = NoRow, !.template = 0]
  <1>1. DOMAIN gen[r] = GenFields /\ gen[r].date \in Nat
    BY DEF RouteInv, GenShape
  <1>2. DOMAIN g = GenFields /\ g.at = "check" /\ g.date = gen[r].date + 1
    BY <1>1 DEF GenFields
  <1>3. Fitting(r, g)
    BY <1>1, <1>2 DEF Fitting
  <1>4. Step(r, g)
    BY DEF NextDate
  <1>5. QED
    BY <1>3, <1>4, GeneratorStep

LEMMA SeedingKeepsForward ==
  ASSUME NEW d \in Seeded, RouteInv
  PROVE  LET row == SeedDate(d) IN
         /\ row # NoRow => DOMAIN row = RowFields
         /\ row # NoRow /\ ~row.marred => Forward(row)
  <1> DEFINE row == SeedBusInstance(d)
             bs == RawBoarding[d]
             ps == RawDropping[d]
             boarding == AddPoints(row.boarding, bs, 0)
             dropping == AddPoints(row.dropping, ps, Len(bs))
             mended == /\ row.boarding \cup row.dropping # {}
                       /\ boarding # row.boarding \/ dropping # row.dropping
             routed == SeedRoutePoints(row, bs, ps)
  <1>1. d \in TravelDate
    BY InventoryAssumption
  <1>2. DOMAIN row = RowFields /\ (~row.marred => Forward(row))
    <2>1. CASE Exists(d)
      BY <1>1, <2>1 DEF SeedBusInstance, RouteInv, RowsAreForward
    <2>2. CASE ~Exists(d)
      BY <2>2 DEF SeedBusInstance, NewRow, RowFields, Forward
    <2>3. QED
      BY <2>1, <2>2
  <1>3. DOMAIN routed = RowFields /\ (~routed.marred => Forward(routed))
    <2>1. CASE ~ValidRoute(bs, ps)
      BY <1>2, <2>1 DEF SeedRoutePoints
    <2>2. CASE ValidRoute(bs, ps)
      <3> HIDE DEF row
      <3>1. routed = [row EXCEPT !.boarding = boarding, !.dropping = dropping,
                                 !.marred = @ \/ mended]
        BY <2>2 DEF SeedRoutePoints
      <3> HIDE DEF boarding, dropping, mended, routed
      <3>2. DOMAIN routed = RowFields
        BY <1>2, <3>1
      <3>3. routed.boarding = boarding /\ routed.dropping = dropping
        BY <1>2, <3>1 DEF RowFields
      <3>4. routed.marred = (row.marred \/ mended)
        BY <1>2, <3>1 DEF RowFields
      <3>5. ASSUME ~routed.marred PROVE Forward(routed)
        <4>1. ~row.marred /\ ~mended
          BY <3>4, <3>5
        <4>2. CASE row.boarding \cup row.dropping # {}
          BY <1>2, <3>3, <4>1, <4>2 DEF mended, Forward
        <4>3. CASE row.boarding \cup row.dropping = {}
          <5>1. row.boarding = {} /\ row.dropping = {}
            BY <4>3
          <5>2. boarding = AddPoints({}, RawBoarding[d], 0)
                /\ dropping = AddPoints({}, RawDropping[d], Len(RawBoarding[d]))
            BY <5>1 DEF boarding, dropping
          <5>3. QED
            BY <2>2, <3>3, <5>2, SeededRoute DEF Forward
        <4>4. QED
          BY <4>2, <4>3
      <3>6. QED
        BY <3>2, <3>5
    <2>3. QED
      BY <2>1, <2>2
  <1>4. SeedDate(d) = SeedFareTypes(routed)
    BY DEF SeedDate
  <1> HIDE DEF routed
  <1>5. QED
    BY <1>3, <1>4 DEF SeedFareTypes, Forward, RowFields

LEMMA InitRouteInv == ASSUME InventoryInit PROVE RouteInv
  <1>1. GenShape
    BY DEF InventoryInit, GenShape, IdleGen, GenFields
  <1>2. \A r \in Generator : gen[r].at = "idle"
    BY DEF InventoryInit, IdleGen
  <1>3. \A d \in TravelDate : ~Exists(d)
    BY DEF InventoryInit, Exists
  <1>4. RowsAreForward
    BY <1>3 DEF RowsAreForward, InventoryInit
  <1>5. CopiesAreExact /\ DatesAreOwned
    BY <1>2 DEF CopiesAreExact, DatesAreOwned, Writing
  <1>6. QED
    BY <1>1, <1>4, <1>5 DEF RouteInv

LEMMA NextRouteInv ==
  ASSUME RouteInv, InventoryNext
  PROVE  RouteInv'
  <1>1. CASE InventoryBoots
    <2>1. GenShape' /\ \A r \in Generator : gen'[r].at = "idle"
      BY <1>1 DEF InventoryBoots, GenShape, IdleGen, GenFields
    <2>2. CopiesAreExact' /\ DatesAreOwned'
      BY <2>1 DEF CopiesAreExact, DatesAreOwned, Writing
    <2>3. RowsAreForward'
      <3>1. CASE inst' = inst
        BY <3>1 DEF RowsAreForward, RouteInv, Exists, Forward
      <3>2. CASE inst' = [d \in TravelDate |-> IF d \in Seeded THEN SeedDate(d) ELSE inst[d]]
        <4>1. \A d \in TravelDate : inst'[d] = IF d \in Seeded THEN SeedDate(d) ELSE inst[d]
          BY <3>2
        <4>2. \A d \in TravelDate : inst'[d] # NoRow =>
                /\ DOMAIN inst'[d] = RowFields
                /\ ~inst'[d].marred => Forward(inst'[d])
          <5> SUFFICES ASSUME NEW d \in TravelDate, inst'[d] # NoRow
                       PROVE  /\ DOMAIN inst'[d] = RowFields
                              /\ ~inst'[d].marred => Forward(inst'[d])
            OBVIOUS
          <5>1. CASE d \in Seeded
            BY <4>1, <5>1, SeedingKeepsForward
          <5>2. CASE d \notin Seeded
            BY <4>1, <5>2 DEF RouteInv, RowsAreForward, Exists
          <5>3. QED
            BY <5>1, <5>2
        <4>3. QED
          BY <3>2, <4>2 DEF RowsAreForward, Exists, Forward
      <3>3. QED
        BY <1>1, <3>1, <3>2 DEF InventoryBoots, SeedAll
    <2>4. QED
      BY <2>1, <2>2, <2>3 DEF RouteInv
  <1>2. CASE UpdateBus \/ UpdateOperatorStatus
    <2>1. gen' = gen /\ inst' = inst
      BY <1>2 DEF UpdateBus, UpdateOperatorStatus
    <2>2. QED
      BY <2>1 DEF RouteInv, GenShape, RowsAreForward, CopiesAreExact, DatesAreOwned,
                  Exists, Writing, Forward
  <1>3. ASSUME NEW r \in Generator,
               \/ GenerateUpcomingInventory(r) \/ CheckExisting(r) \/ InsertInstance(r)
               \/ PickTemplate(r) \/ CloneBoarding(r) \/ CloneDropping(r)
               \/ CommitInstance(r) \/ RollBack(r)
        PROVE  RouteInv'
    <2>1. /\ DOMAIN gen[r] = GenFields
          /\ gen[r].date \in Nat /\ gen[r].date # 0
          /\ gen[r].at \in {"insert", "route", "boarding", "dropping", "commit"} =>
               gen[r].date \in TravelDate
      BY DEF RouteInv, GenShape
    <2>2. /\ gen[r].at \in {"route", "boarding", "dropping", "commit"} =>
               DOMAIN gen[r].row = RowFields
          /\ gen[r].at \in {"boarding", "dropping"} /\ gen[r].template # 0 =>
               gen[r].template \in TravelDate /\ Exists(gen[r].template)
          /\ gen[r].at = "dropping" /\ gen[r].template # 0 =>
               gen[r].row.boarding = inst[gen[r].template].boarding
          /\ gen[r].at = "commit" /\ ~gen[r].row.marred => Forward(gen[r].row)
      BY DEF RouteInv, CopiesAreExact
    <2>3. gen[r].at \in {"route", "boarding", "dropping", "commit"} =>
            /\ ~Exists(gen[r].date)
            /\ \A q \in Generator \ {r} : ~Writing(q, gen[r].date)
      BY <2>1 DEF RouteInv, DatesAreOwned, Writing
    <2>4. CASE GenerateUpcomingInventory(r)
      <3> DEFINE g == [IdleGen EXCEPT !.at = "check", !.kind = kind]
      <3>1. Fitting(r, g)
        BY DEF Fitting, IdleGen, GenFields
      <3>2. Step(r, g) /\ inst' = inst
        BY <2>4 DEF GenerateUpcomingInventory
      <3>3. QED
        BY <3>1, <3>2, GeneratorStep
    <2>5. CASE CheckExisting(r)
      <3>0. /\ \/ gen[r].date > LastDate /\ Step(r, IdleGen)
               \/ gen[r].date \in TravelDate /\ NextDate(r)
               \/ gen[r].date \in TravelDate /\ Step(r, [gen[r] EXCEPT !.at = "insert"])
            /\ inst' = inst
        <4>1. CASE gen[r].date > LastDate
          BY <2>1, <2>5, <4>1, InventoryAssumption DEF CheckExisting, TravelDate
        <4>2. CASE gen[r].date \in TravelDate
          <5>1. ~(gen[r].date > LastDate)
            BY <4>2, InventoryAssumption DEF TravelDate
          <5>2. QED
            BY <2>5, <4>2, <5>1 DEF CheckExisting
        <4>3. QED
          BY <2>1, <4>1, <4>2, InventoryAssumption DEF TravelDate
      <3>1. CASE Step(r, IdleGen)
        <4>1. Fitting(r, IdleGen)
          BY DEF Fitting, IdleGen, GenFields
        <4>2. QED
          BY <3>0, <3>1, <4>1, GeneratorStep
      <3>2. CASE NextDate(r)
        BY <3>0, <3>2, NextDateStep
      <3>3. CASE gen[r].date \in TravelDate /\ Step(r, [gen[r] EXCEPT !.at = "insert"])
        <4> DEFINE g == [gen[r] EXCEPT !.at = "insert"]
        <4>1. Fitting(r, g)
          BY <2>1, <3>3 DEF Fitting, GenFields
        <4>2. QED
          BY <3>0, <3>3, <4>1, GeneratorStep
      <3>4. QED
        BY <3>0, <3>1, <3>2, <3>3
    <2>6. CASE InsertInstance(r)
      <3>1. CASE Exists(gen[r].date)
        BY <2>6, <3>1, NextDateStep DEF InsertInstance
      <3>2. CASE ~Exists(gen[r].date)
        <4> DEFINE g == CreateRows(gen[r])
        <4>1. Step(r, g) /\ inst' = inst /\ gen[r].at = "insert"
              /\ \A q \in Generator \ {r} : ~Writing(q, gen[r].date)
          BY <2>6, <3>2 DEF InsertInstance
        <4>2. DOMAIN g = GenFields /\ g.at = "route" /\ g.date = gen[r].date
          BY <2>1 DEF CreateRows, GenFields
        <4>3. DOMAIN g.row = RowFields
          BY <2>1 DEF CreateRows, NewRow, GenFields, RowFields
        <4> HIDE DEF g
        <4>4. Fitting(r, g)
          BY <2>1, <3>2, <4>1, <4>2, <4>3 DEF Fitting
        <4>5. QED
          BY <4>1, <4>4, GeneratorStep
      <3>3. QED
        BY <3>1, <3>2
    <2>7. CASE PickTemplate(r)
      <3>0. gen[r].at = "route" /\ inst' = inst
        BY <2>7 DEF PickTemplate
      <3>1. ASSUME NEW latest \in TravelDate, Exists(latest),
                   Step(r, [gen[r] EXCEPT !.at = "boarding", !.template = latest])
            PROVE  RouteInv'
        <4> DEFINE g == [gen[r] EXCEPT !.at = "boarding", !.template = latest]
        <4>1. /\ DOMAIN g = GenFields /\ g.at = "boarding" /\ g.date = gen[r].date
              /\ g.row = gen[r].row /\ g.template = latest
          BY <2>1 DEF GenFields
        <4> HIDE DEF g
        <4>2. Fitting(r, g)
          BY <2>1, <2>2, <2>3, <3>0, <3>1, <4>1 DEF Fitting
        <4>3. QED
          BY <3>0, <3>1, <4>2, GeneratorStep DEF g
      <3>2. ASSUME Step(r, [gen[r] EXCEPT
                     !.at = "commit",
                     !.row.boarding = {[stop |-> OriginStop, order |-> 1]},
                     !.row.dropping = {[stop |-> DestinationStop, order |-> 2]}])
            PROVE  RouteInv'
        <4> DEFINE g == [gen[r] EXCEPT
                     !.at = "commit",
                     !.row.boarding = {[stop |-> OriginStop, order |-> 1]},
                     !.row.dropping = {[stop |-> DestinationStop, order |-> 2]}]
        <4>1. DOMAIN g = GenFields /\ g.at = "commit" /\ g.date = gen[r].date
          BY <2>1 DEF GenFields
        <4>2. /\ DOMAIN g.row = RowFields
              /\ g.row.boarding = {[stop |-> OriginStop, order |-> 1]}
              /\ g.row.dropping = {[stop |-> DestinationStop, order |-> 2]}
          BY <2>1, <2>2, <3>0 DEF GenFields, RowFields
        <4> HIDE DEF g
        <4>3. Forward(g.row)
          <5>1. g.row.boarding # {} /\ g.row.dropping # {}
            BY <4>2
          <5>2. \A b \in g.row.boarding : b.order = 1
            BY <4>2
          <5>3. \A p \in g.row.dropping : p.order = 2
            BY <4>2
          <5>4. QED
            BY <5>1, <5>2, <5>3 DEF Forward
        <4>4. Fitting(r, g)
          BY <2>1, <2>3, <3>0, <4>1, <4>2, <4>3 DEF Fitting
        <4>5. QED
          BY <3>0, <3>2, <4>4, GeneratorStep DEF g
      <3>3. QED
        BY <2>7, <3>1, <3>2 DEF PickTemplate
    <2>8. CASE CloneBoarding(r)
      <3> DEFINE points == IF gen[r].template = 0 THEN {} ELSE inst[gen[r].template].boarding
                 g == [gen[r] EXCEPT !.at = "dropping", !.row.boarding = points]
      <3>1. gen[r].at = "boarding" /\ inst' = inst /\ Step(r, g)
        BY <2>8 DEF CloneBoarding
      <3>2. /\ DOMAIN g = GenFields /\ g.at = "dropping" /\ g.date = gen[r].date
            /\ g.template = gen[r].template
        BY <2>1 DEF GenFields
      <3>3. DOMAIN g.row = RowFields /\ g.row.boarding = points
        BY <2>1, <2>2, <3>1 DEF GenFields, RowFields
      <3> HIDE DEF g
      <3>4. Fitting(r, g)
        BY <2>1, <2>2, <2>3, <3>1, <3>2, <3>3 DEF Fitting
      <3>5. QED
        BY <3>1, <3>4, GeneratorStep
    <2>9. CASE CloneDropping(r)
      <3> DEFINE points == IF gen[r].template = 0 THEN {} ELSE inst[gen[r].template].dropping
                 marred == gen[r].template = 0 \/ inst[gen[r].template].marred
                 g == [gen[r] EXCEPT !.at = "commit", !.row.dropping = points,
                                     !.row.marred = marred]
      <3>1. gen[r].at = "dropping" /\ inst' = inst /\ Step(r, g)
        BY <2>9 DEF CloneDropping
      <3>2. DOMAIN g = GenFields /\ g.at = "commit" /\ g.date = gen[r].date
        BY <2>1 DEF GenFields
      <3>3. /\ DOMAIN g.row = RowFields /\ g.row.boarding = gen[r].row.boarding
            /\ g.row.dropping = points
        BY <2>1, <2>2, <3>1 DEF GenFields, RowFields
      <3>4. g.row.marred = marred
        BY <2>1, <2>2, <3>1 DEF GenFields, RowFields
      <3> HIDE DEF g
      <3>5. ASSUME ~g.row.marred PROVE Forward(g.row)
        <4>1. gen[r].template # 0 /\ ~inst[gen[r].template].marred
          BY <3>4, <3>5
        <4>2. gen[r].template \in TravelDate /\ Exists(gen[r].template)
              /\ gen[r].row.boarding = inst[gen[r].template].boarding
          BY <2>2, <3>1, <4>1
        <4>3. Forward(inst[gen[r].template])
          BY <4>1, <4>2 DEF RouteInv, RowsAreForward
        <4>4. QED
          BY <3>3, <4>1, <4>2, <4>3 DEF Forward
      <3>6. Fitting(r, g)
        BY <2>1, <2>3, <3>1, <3>2, <3>3, <3>5 DEF Fitting
      <3>7. QED
        BY <3>1, <3>6, GeneratorStep
    <2>10. CASE CommitInstance(r)
      <3> DEFINE d == gen[r].date
      <3>1. gen[r].at = "commit" /\ inst' = [inst EXCEPT ![d] = gen[r].row] /\ NextDate(r)
        BY <2>10 DEF CommitInstance
      <3>2. d \in TravelDate /\ ~Exists(d) /\ \A q \in Generator \ {r} : ~Writing(q, d)
        BY <2>1, <2>3, <3>1
      <3>3. DOMAIN inst = TravelDate
        BY DEF RouteInv, RowsAreForward
      <3>4. DOMAIN inst' = TravelDate /\ inst'[d] = gen[r].row
            /\ \A e \in TravelDate : e # d => inst'[e] = inst[e]
        BY <3>1, <3>2, <3>3
      <3> DEFINE g == [gen[r] EXCEPT !.at = "check", !.date = @ + 1, !.row = NoRow, !.template = 0]
      <3>5. gen' = [gen EXCEPT ![r] = g] /\ DOMAIN gen = Generator
        BY <3>1 DEF NextDate, Step, RouteInv, GenShape
      <3>6. DOMAIN g = GenFields /\ g.at = "check" /\ g.date = d + 1
        BY <2>1 DEF GenFields
      <3> HIDE DEF g
      <3>7. gen'[r] = g /\ \A q \in Generator \ {r} : gen'[q] = gen[q]
        BY <3>5
      <3>8. GenShape'
        BY <2>1, <3>5, <3>6, <3>7 DEF GenShape, RouteInv
      <3>9. RowsAreForward'
        <4> SUFFICES ASSUME NEW e \in TravelDate, inst'[e] # NoRow
                     PROVE  /\ DOMAIN inst'[e] = RowFields
                            /\ ~inst'[e].marred => Forward(inst'[e])
          BY <3>4 DEF RowsAreForward, Exists, Forward
        <4>1. CASE e = d
          BY <2>2, <3>1, <3>4, <4>1
        <4>2. CASE e # d
          BY <3>4, <4>2 DEF RouteInv, RowsAreForward, Exists
        <4>3. QED
          BY <4>1, <4>2
      <3>10. CopiesAreExact'
        <4> SUFFICES ASSUME NEW q \in Generator
                     PROVE
          /\ gen'[q].at \in {"route", "boarding", "dropping", "commit"} => DOMAIN gen'[q].row = RowFields
          /\ gen'[q].at \in {"boarding", "dropping"} /\ gen'[q].template # 0 =>
               gen'[q].template \in TravelDate /\ inst'[gen'[q].template] # NoRow
          /\ gen'[q].at = "dropping" /\ gen'[q].template # 0 =>
               gen'[q].row.boarding = inst'[gen'[q].template].boarding
          /\ gen'[q].at = "commit" /\ ~gen'[q].row.marred => Forward(gen'[q].row)
          BY DEF CopiesAreExact, Exists, Forward
        <4>1. CASE q = r
          BY <3>6, <3>7, <4>1
        <4>2. CASE q # r
          <5>1. gen'[q] = gen[q]
            BY <3>7, <4>2
          <5>2. gen[q].at \in {"boarding", "dropping"} /\ gen[q].template # 0 =>
                  gen[q].template \in TravelDate /\ Exists(gen[q].template)
            BY DEF RouteInv, CopiesAreExact
          <5>3. gen[q].at \in {"boarding", "dropping"} /\ gen[q].template # 0 =>
                  gen[q].template # d /\ inst'[gen[q].template] = inst[gen[q].template]
            BY <3>2, <3>4, <5>2
          <5>4. QED
            BY <5>1, <5>2, <5>3 DEF RouteInv, CopiesAreExact, Exists
        <4>3. QED
          BY <4>1, <4>2
      <3>11. DatesAreOwned'
        <4> SUFFICES ASSUME NEW e \in TravelDate, NEW q \in Generator, Writing(q, e)'
                     PROVE  inst'[e] = NoRow /\ \A p \in Generator : Writing(p, e)' => p = q
          BY DEF DatesAreOwned, Exists
        <4>1. \A p \in Generator : Writing(p, e)' <=> p # r /\ Writing(p, e)
          BY <3>6, <3>7 DEF Writing
        <4>2. q # r /\ Writing(q, e)
          BY <4>1
        <4>3. e # d
          BY <3>2, <4>2
        <4>4. QED
          BY <3>4, <4>1, <4>2, <4>3 DEF RouteInv, DatesAreOwned, Exists
      <3>12. QED
        BY <3>8, <3>9, <3>10, <3>11 DEF RouteInv
    <2>11. CASE RollBack(r)
      BY <2>11, NextDateStep DEF RollBack
    <2>12. QED
      BY <1>3, <2>4, <2>5, <2>6, <2>7, <2>8, <2>9, <2>10, <2>11
  <1>4. ASSUME NEW d \in TravelDate, DeleteBusInstance(d)
        PROVE  RouteInv'
    <2>1. /\ inst' = [inst EXCEPT ![d] = NoRow] /\ DOMAIN inst = TravelDate
          /\ gen' = [r \in Generator |-> IF gen[r].template = d
                                         THEN [gen[r] EXCEPT !.template = 0] ELSE gen[r]]
      BY <1>4 DEF DeleteBusInstance, Gone, RouteInv, RowsAreForward
    <2>2. inst'[d] = NoRow /\ \A e \in TravelDate : e # d => inst'[e] = inst[e]
      BY <2>1
    <2>3. \A r \in Generator :
            /\ DOMAIN gen'[r] = GenFields /\ gen'[r].at = gen[r].at
            /\ gen'[r].date = gen[r].date /\ gen'[r].row = gen[r].row
            /\ gen'[r].template = IF gen[r].template = d THEN 0 ELSE gen[r].template
      BY <2>1 DEF RouteInv, GenShape, GenFields
    <2>4. GenShape'
      BY <2>1, <2>3 DEF GenShape, RouteInv
    <2>5. RowsAreForward'
      BY <2>1, <2>2 DEF RouteInv, RowsAreForward, Exists, Forward
    <2>6. CopiesAreExact'
      <3> SUFFICES ASSUME NEW q \in Generator
                   PROVE
        /\ gen'[q].at \in {"route", "boarding", "dropping", "commit"} => DOMAIN gen'[q].row = RowFields
        /\ gen'[q].at \in {"boarding", "dropping"} /\ gen'[q].template # 0 =>
             gen'[q].template \in TravelDate /\ inst'[gen'[q].template] # NoRow
        /\ gen'[q].at = "dropping" /\ gen'[q].template # 0 =>
             gen'[q].row.boarding = inst'[gen'[q].template].boarding
        /\ gen'[q].at = "commit" /\ ~gen'[q].row.marred => Forward(gen'[q].row)
        BY DEF CopiesAreExact, Exists, Forward
      <3>1. gen'[q].template # 0 => gen'[q].template = gen[q].template /\ gen[q].template # d
        BY <2>3
      <3>2. QED
        BY <2>2, <2>3, <3>1 DEF RouteInv, CopiesAreExact, Exists
    <2>7. DatesAreOwned'
      BY <2>2, <2>3 DEF RouteInv, DatesAreOwned, Writing, Exists
    <2>8. QED
      BY <2>4, <2>5, <2>6, <2>7 DEF RouteInv
  <1>5. ASSUME NEW d \in TravelDate, BookInstance(d) \/ ConfirmSeat(d) \/ CancelSeat(d)
        PROVE  RouteInv'
    <2>1. /\ DOMAIN inst = TravelDate /\ gen' = gen /\ inst[d] # NoRow
          /\ \/ inst' = [inst EXCEPT ![d].booked = TRUE]
             \/ inst' = [inst EXCEPT ![d].free = @ - 1]
             \/ inst' = [inst EXCEPT ![d].free = @ + 1]
      BY <1>5 DEF BookInstance, ConfirmSeat, CancelSeat, RouteInv, RowsAreForward, Exists
    <2>2. DOMAIN inst[d] = RowFields
      BY <2>1 DEF RouteInv, RowsAreForward, Exists
    <2>3. /\ DOMAIN inst'[d] = RowFields /\ inst'[d].boarding = inst[d].boarding
          /\ inst'[d].dropping = inst[d].dropping
      BY <2>1, <2>2 DEF RowFields
    <2>4. inst'[d].marred = inst[d].marred
      BY <2>1, <2>2 DEF RowFields
    <2>5. DOMAIN inst' = TravelDate /\ \A e \in TravelDate : e # d => inst'[e] = inst[e]
      BY <2>1
    <2>6. GenShape'
      BY <2>1 DEF GenShape, RouteInv
    <2>7. RowsAreForward'
      <3> SUFFICES ASSUME NEW e \in TravelDate, inst'[e] # NoRow
                   PROVE  /\ DOMAIN inst'[e] = RowFields
                          /\ ~inst'[e].marred => Forward(inst'[e])
        BY <2>5 DEF RowsAreForward, Exists, Forward
      <3>1. CASE e = d
        BY <2>1, <2>3, <2>4, <3>1 DEF RouteInv, RowsAreForward, Exists, Forward
      <3>2. CASE e # d
        BY <2>5, <3>2 DEF RouteInv, RowsAreForward, Exists
      <3>3. QED
        BY <3>1, <3>2
    <2>8. inst'[d] # NoRow
      BY <2>3 DEF NoRow, RowFields
    <2>9. CopiesAreExact'
      <3>1. \A e \in TravelDate : inst[e] # NoRow =>
              inst'[e].boarding = inst[e].boarding /\ inst'[e] # NoRow
        BY <2>3, <2>5, <2>8
      <3>2. QED
        BY <2>1, <3>1 DEF RouteInv, CopiesAreExact, Exists, Forward
    <2>10. DatesAreOwned'
      <3>1. \A e \in TravelDate : inst[e] = NoRow => inst'[e] = NoRow
        BY <2>1, <2>5
      <3>2. QED
        BY <2>1, <3>1 DEF RouteInv, DatesAreOwned, Exists, Writing
    <2>11. QED
      BY <2>6, <2>7, <2>9, <2>10 DEF RouteInv
  <1>6. QED
    BY <1>1, <1>2, <1>3, <1>4, <1>5 DEF InventoryNext

\* On every route that nothing has mended or cut off, boarding comes before
\* dropping, whatever runs of the job overlap, fail, or copy from one another
\* (generateForDate, seedRoutePoints).
THEOREM RoutesRunForward == InventorySpec => []RouteRunsForward
  <1>1. InventoryInit => RouteInv
    BY InitRouteInv
  <1>2. RouteInv /\ [InventoryNext]_inventoryVars => RouteInv'
    <2>1. RouteInv /\ UNCHANGED inventoryVars => RouteInv'
      BY DEF inventoryVars, RouteInv, GenShape, RowsAreForward, CopiesAreExact,
             DatesAreOwned, Exists, Writing, Forward
    <2>2. QED
      BY <2>1, NextRouteInv
  <1>3. RouteInv => RouteRunsForward
    BY DEF RouteInv, RowsAreForward, RouteRunsForward, Forward
  <1>4. QED
    BY <1>1, <1>2, <1>3, PTL DEF InventorySpec
-----------------------------------------------------------------------------
(* The seats of a bus. *)

SeatAt(k, i) == [number |-> SeatNumber(k, i), category |-> CategoryAt(k, i)]

Seats(k) == SumOf(Total(k))

LEMMA SeatsAreIndexed ==
  \A k \in Kind : Seats(k) \in Nat /\ BuildSeats(k) = {SeatAt(k, i) : i \in 0..(Seats(k) - 1)}
  <1>1. \A k \in Kind : Seats(k) \in Nat
    BY DEF Kind, Seats, SumOf, Total, Counts
  <1>2. QED
    BY <1>1 DEF BuildSeats, SeatAt, Seats

\* A coach's rows, walked through one after the other, count its seats as one
\* index does.
LEMMA CoachesAgree ==
  \A k \in {"seater", "semi_sleeper"} : BuildSeats(k) = ComputationallyMapSeats(k)
  <1> SUFFICES ASSUME NEW k \in {"seater", "semi_sleeper"}
               PROVE  BuildSeats(k) = ComputationallyMapSeats(k)
    OBVIOUS
  <1> DEFINE c == IF k = "seater" THEN 5 ELSE 4
             Drawn(row, column) == [number |-> <<"S", row, column>>,
                                    category |-> CategoryOf((row - 1) * c + column - 1)]
  <1>1. Seats(k) = 8 * c
    BY DEF Seats, SumOf, Total, Counts
  <1>2. ComputationallyMapSeats(k) = {Drawn(row, column) : row \in 1..8, column \in 1..c}
    BY DEF ComputationallyMapSeats, CoachSeats, SeatLayout
  <1>3. \A i \in 0..(8 * c - 1) : CategoryAt(k, i) = CategoryOf(i)
    BY DEF CategoryAt, CategoryOf, Total, Counts
  <1>4. ASSUME NEW i \in 0..(8 * c - 1)
        PROVE  \E row \in 1..8, column \in 1..c : SeatAt(k, i) = Drawn(row, column)
    <2> DEFINE row == (i \div c) + 1
               column == (i % c) + 1
    <2>1. row \in 1..8 /\ column \in 1..c /\ (row - 1) * c + column - 1 = i
      <3>1. CASE k = "seater"
        BY <3>1
      <3>2. CASE k = "semi_sleeper"
        BY <3>2
      <3>3. QED
        BY <3>1, <3>2
    <2>2. SeatNumber(k, i) = <<"S", row, column>>
      BY DEF SeatNumber
    <2>3. SeatAt(k, i) = Drawn(row, column)
      BY <1>3, <2>1, <2>2 DEF SeatAt
    <2>4. QED
      BY <2>1, <2>3
  <1>5. ASSUME NEW row \in 1..8, NEW column \in 1..c
        PROVE  \E i \in 0..(8 * c - 1) : SeatAt(k, i) = Drawn(row, column)
    <2> DEFINE i == (row - 1) * c + column - 1
    <2>1. i \in 0..(8 * c - 1) /\ (i \div c) + 1 = row /\ (i % c) + 1 = column
      <3>1. CASE k = "seater"
        BY <3>1
      <3>2. CASE k = "semi_sleeper"
        BY <3>2
      <3>3. QED
        BY <3>1, <3>2
    <2>2. SeatNumber(k, i) = <<"S", row, column>>
      BY <2>1 DEF SeatNumber
    <2>3. SeatAt(k, i) = Drawn(row, column)
      BY <1>3, <2>1, <2>2 DEF SeatAt
    <2>4. QED
      BY <2>1, <2>3
  <1> HIDE DEF c, Drawn
  <1>6. BuildSeats(k) = {SeatAt(k, i) : i \in 0..(8 * c - 1)}
    BY <1>1, SeatsAreIndexed DEF Kind
  <1>7. QED
    BY <1>2, <1>4, <1>5, <1>6

\* A sleeper's index alternates between the decks of one place.
LEMMA SleepersAgree == BuildSeats("sleeper") = ComputationallyMapSeats("sleeper")
  <1> DEFINE Drawn(deck, row, column) ==
               [number |-> <<deck, row, column>>, category |-> "GENERAL"]
  <1>1. Seats("sleeper") = 16
    BY DEF Seats, SumOf, Total, Counts
  <1>2. ComputationallyMapSeats("sleeper") =
          {Drawn(deck, row, column) : deck \in {"L", "U"}, row \in 1..4, column \in 1..2}
    BY DEF ComputationallyMapSeats, SleeperSeats, SeatLayout
  <1>3. \A i \in 0..15 : CategoryAt("sleeper", i) = "GENERAL"
    BY DEF CategoryAt, Total, Counts
  <1>4. ASSUME NEW i \in 0..15
        PROVE  \E deck \in {"L", "U"}, row \in 1..4, column \in 1..2 :
                 SeatAt("sleeper", i) = Drawn(deck, row, column)
    <2> DEFINE deck == IF i % 2 = 0 THEN "L" ELSE "U"
               row == (i \div 4) + 1
               column == ((i % 4) \div 2) + 1
    <2>1. deck \in {"L", "U"} /\ row \in 1..4 /\ column \in 1..2
      OBVIOUS
    <2>2. SeatNumber("sleeper", i) = <<deck, row, column>>
      BY DEF SeatNumber
    <2>3. SeatAt("sleeper", i) = Drawn(deck, row, column)
      BY <1>3, <2>2 DEF SeatAt
    <2>4. QED
      BY <2>1, <2>3
  <1>5. ASSUME NEW deck \in {"L", "U"}, NEW row \in 1..4, NEW column \in 1..2
        PROVE  \E i \in 0..15 : SeatAt("sleeper", i) = Drawn(deck, row, column)
    <2> DEFINE i == (row - 1) * 4 + (column - 1) * 2 + (IF deck = "L" THEN 0 ELSE 1)
    <2>1. i \in 0..15 /\ (i \div 4) + 1 = row /\ ((i % 4) \div 2) + 1 = column
      OBVIOUS
    <2>2. (i % 2 = 0) <=> (deck = "L")
      OBVIOUS
    <2>3. SeatNumber("sleeper", i) = <<deck, row, column>>
      BY <2>1, <2>2 DEF SeatNumber
    <2>4. SeatAt("sleeper", i) = Drawn(deck, row, column)
      BY <1>3, <2>1, <2>3 DEF SeatAt
    <2>5. QED
      BY <2>1, <2>4
  <1> HIDE DEF Drawn
  <1>6. BuildSeats("sleeper") = {SeatAt("sleeper", i) : i \in 0..15}
    BY <1>1, SeatsAreIndexed DEF Kind
  <1>7. QED
    BY <1>2, <1>4, <1>5, <1>6

LEMMA ProgramsAgree == LayoutsAgree
  <1>1. \A k \in Kind : BuildSeats(k) = ComputationallyMapSeats(k)
    BY CoachesAgree, SleepersAgree DEF Kind
  <1>2. \A k \in Kind, weekend \in BOOLEAN : Active(k, weekend) = Prebooked(k, weekend)
    BY DEF Kind, Active, Prebooked
  <1>3. QED
    BY <1>1, <1>2 DEF LayoutsAgree

\* No two indices have the same number.
LEMMA NumbersDiffer ==
  \A k \in Kind : \A i, j \in 0..(Seats(k) - 1) :
    SeatNumber(k, i) = SeatNumber(k, j) => i = j
  <1> SUFFICES ASSUME NEW k \in Kind, NEW i \in 0..(Seats(k) - 1), NEW j \in 0..(Seats(k) - 1),
                      SeatNumber(k, i) = SeatNumber(k, j)
               PROVE  i = j
    OBVIOUS
  <1>0. i \in Nat /\ j \in Nat
    BY SeatsAreIndexed
  <1>1. CASE k = "seater"
    <2>1. i \div 5 = j \div 5 /\ i % 5 = j % 5
      BY <1>0, <1>1 DEF SeatNumber
    <2>2. QED
      BY <1>0, <2>1
  <1>2. CASE k = "semi_sleeper"
    <2>1. i \div 4 = j \div 4 /\ i % 4 = j % 4
      BY <1>0, <1>2 DEF SeatNumber
    <2>2. QED
      BY <1>0, <2>1
  <1>3. CASE k = "sleeper"
    <2>1. i \div 4 = j \div 4 /\ (i % 4) \div 2 = (j % 4) \div 2
          /\ (i % 2 = 0 <=> j % 2 = 0)
      BY <1>0, <1>3 DEF SeatNumber
    <2>2. QED
      BY <1>0, <2>1
  <1>4. QED
    BY <1>1, <1>2, <1>3 DEF Kind

Category == {"WOMEN", "MEN", "GENERAL"}

\* Each category has its block of indices.
BlockStart(k, c) ==
  CASE c = "WOMEN" -> 0
    [] c = "MEN" -> Total(k).WOMEN
    [] c = "GENERAL" -> Total(k).WOMEN + Total(k).MEN

\* A bus has as many seats of a category as the job was told to draw.
LEMMA BlocksAreCounted ==
  ASSUME NEW k \in Kind, NEW c \in Category
  PROVE  Cardinality({s \in BuildSeats(k) : s.category = c}) = Total(k)[c]
  <1> DEFINE first == BlockStart(k, c)
             last == first + Total(k)[c] - 1
             block == {s \in BuildSeats(k) : s.category = c}
             at == [i \in first..last |-> SeatAt(k, i)]
  <1>1. first \in Nat /\ Total(k)[c] \in Nat /\ last \in Int
    BY DEF BlockStart, Kind, Category, Total, Counts
  <1>2. \A i \in Int : i \in 0..(Seats(k) - 1) =>
          (CategoryAt(k, i) = c <=> i \in first..last)
    BY DEF BlockStart, Kind, Category, Total, Counts, Seats, SumOf, CategoryAt
  <1>3. first..last \subseteq 0..(Seats(k) - 1)
    BY DEF BlockStart, Kind, Category, Total, Counts, Seats, SumOf
  <1> HIDE DEF first, last
  <1>4. \A s \in block : \E i \in first..last : at[i] = s
    <2> TAKE s \in block
    <2>1. PICK i \in 0..(Seats(k) - 1) : s = SeatAt(k, i)
      BY SeatsAreIndexed
    <2>2. i \in Int /\ CategoryAt(k, i) = c
      BY <2>1, SeatsAreIndexed DEF SeatAt
    <2>3. i \in first..last
      BY <1>2, <2>1, <2>2
    <2>4. QED
      BY <2>1, <2>3
  <1>5. \A i \in first..last : at[i] \in block
    <2> TAKE i \in first..last
    <2>1. SeatAt(k, i) \in BuildSeats(k)
      BY <1>3, SeatsAreIndexed
    <2>2. SeatAt(k, i).category = c
      BY <1>1, <1>2, <1>3 DEF SeatAt
    <2>3. QED
      BY <2>1, <2>2
  <1>6. \A i, j \in first..last : at[i] = at[j] => i = j
    <2> TAKE i, j \in first..last
    <2>1. at[i] = at[j] => SeatNumber(k, i) = SeatNumber(k, j)
      BY DEF SeatAt
    <2>2. QED
      BY <1>3, <2>1, NumbersDiffer
  <1>7. at \in Bijection(first..last, block)
    <2>1. at \in [first..last -> block]
      BY <1>5
    <2> HIDE DEF at, block
    <2>2. QED
      BY <1>4, <1>6, <2>1 DEF Bijection, Injection, Surjection, IsInjective
  <1>8. IsFiniteSet(first..last) /\ Cardinality(first..last) = Total(k)[c]
    <2>1. /\ IsFiniteSet(first..last)
          /\ Cardinality(first..last) = IF first > last THEN 0 ELSE last - first + 1
      BY <1>1, FS_Interval
    <2>2. QED
      BY <1>1, <2>1 DEF last
  <1> HIDE DEF at, block
  <1>9. Cardinality(block) = Cardinality(first..last)
    BY <1>7, <1>8, FS_Bijection DEF ExistsBijection
  <1>10. QED
    BY <1>8, <1>9 DEF block

\* There are never more seats for sale than seats drawn, so that many stay.
LEMMA AllActiveStay ==
  \A k \in Kind, weekend \in BOOLEAN :
    LeftAvailable(ComputationallyMapSeats(k), Active(k, weekend)) = SumOf(Active(k, weekend))
  <1> SUFFICES ASSUME NEW k \in Kind, NEW weekend \in BOOLEAN
               PROVE  LeftAvailable(BuildSeats(k), Active(k, weekend)) = SumOf(Active(k, weekend))
    BY ProgramsAgree DEF LayoutsAgree
  <1> DEFINE active == Active(k, weekend)
             number(c) == Cardinality({s \in BuildSeats(k) : s.category = c})
  <1>1. \A c \in Category : /\ active[c] \in Nat /\ Total(k)[c] \in Nat
                            /\ active[c] <= Total(k)[c]
    BY DEF Category, Kind, Active, Total, Counts
  <1>2. \A c \in Category : Min({number(c), active[c]}) = active[c]
    BY <1>1, BlocksAreCounted DEF Min
  <1>3. QED
    BY <1>2 DEF LeftAvailable, SumOf, Category
LEMMA NumbersOnSale == \A k \in Kind, weekend \in BOOLEAN : SumOf(Active(k, weekend)) \in Nat
  BY DEF Kind, SumOf, Active, Counts
-----------------------------------------------------------------------------
(* The rows of a bus's instances. *)

Fares == {"GENERAL", "FLEXI", "SUPER FLEXI"}

\* Everything a search relies on, but for the route.
WholeRow(d, row) ==
  /\ row.kind \in Kind
  /\ row.seats = ComputationallyMapSeats(row.kind)
  /\ row.counter = SumOf(Active(row.kind, d \in Weekend))
  /\ row.free \in Nat /\ row.free <= row.counter
  /\ ~row.booked => row.free = row.counter
  /\ row.fares \subseteq Fares
  /\ "GENERAL" \in row.fares /\ (row.kind = "sleeper" => "FLEXI" \in row.fares)
  /\ d \in Seeded \/ row.account

\* What is there, and what a transaction is about to commit.
RowsAreWhole == \A d \in TravelDate : Exists(d) => WholeRow(d, inst[d])

Soundly(g) ==
  /\ g.at \in {"idle", "check", "insert", "route", "boarding", "dropping", "commit"}
  /\ g.kind \in Kind /\ g.date \in 1..(LastDate + 1) /\ g.template \in 0..LastDate
  /\ g.at \in {"route", "boarding", "dropping", "commit"} => WholeRow(g.date, g.row)

WholeInv ==
  /\ kind \in Kind /\ isActive \in BOOLEAN
  /\ RowsAreWhole
  /\ \A r \in Generator : Soundly(gen[r])

LEMMA NewRowsAreWhole ==
  ASSUME NEW k \in Kind, NEW d, NEW seats, seats = ComputationallyMapSeats(k),
         NEW active, active = Active(k, d \in Weekend),
         NEW account \in BOOLEAN, d \in Seeded \/ account
  PROVE  WholeRow(d, NewRow(k, seats, active, account))
  <1> DEFINE row == NewRow(k, seats, active, account)
  <1>1. /\ row.kind = k /\ row.seats = seats /\ row.account = account
        /\ row.free = LeftAvailable(seats, active) /\ row.counter = SumOf(active)
        /\ row.fares = IF k = "sleeper" THEN {"GENERAL", "FLEXI"} ELSE {"GENERAL"}
    BY DEF NewRow
  <1>2. LeftAvailable(seats, active) = SumOf(active)
    <2>1. (d \in Weekend) \in BOOLEAN
      OBVIOUS
    <2>2. QED
      BY <2>1, AllActiveStay, Zenon
  <1>3. SumOf(active) \in Nat
    <2>1. (d \in Weekend) \in BOOLEAN
      OBVIOUS
    <2>2. QED
      BY <2>1, NumbersOnSale, Zenon
  <1> HIDE DEF row
  <1>4. row.free \in Nat /\ row.free <= row.counter /\ row.free = row.counter
    BY <1>1, <1>2, <1>3
  <1>5. WholeRow(d, row)
    BY <1>1, <1>4 DEF WholeRow, Fares
  <1>6. QED
    BY <1>5 DEF row

\* Routes and marks are of no account, nor is a first booking.
LEMMA RoutesAside ==
  ASSUME NEW d, NEW row, NEW new, WholeRow(d, row),
         new.kind = row.kind, new.seats = row.seats, new.free = row.free,
         new.counter = row.counter, new.account = row.account,
         row.booked => new.booked,
         row.fares \subseteq new.fares, new.fares \subseteq Fares
  PROVE  WholeRow(d, new)
  BY DEF WholeRow

LEMMA SeedingKeepsWhole ==
  ASSUME NEW d \in Seeded, RouteInv, WholeInv
  PROVE  WholeRow(d, SeedDate(d))
  <1> DEFINE row == SeedBusInstance(d)
             routed == SeedRoutePoints(row, RawBoarding[d], RawDropping[d])
  <1>1. d \in TravelDate
    BY InventoryAssumption
  <1>2. WholeRow(d, row) /\ DOMAIN row = RowFields
    <2>1. CASE Exists(d)
      BY <1>1, <2>1 DEF SeedBusInstance, WholeInv, RowsAreWhole, RouteInv, RowsAreForward
    <2>2. CASE ~Exists(d)
      <3>1. row = NewRow(kind, ComputationallyMapSeats(kind),
                         Prebooked(kind, d \in Weekend), FALSE)
        BY <2>2 DEF SeedBusInstance
      <3>2. kind \in Kind /\ Prebooked(kind, d \in Weekend) = Active(kind, d \in Weekend)
        <4>1. kind \in Kind /\ (d \in Weekend) \in BOOLEAN
          BY DEF WholeInv
        <4>2. QED
          BY <4>1, ProgramsAgree, Zenon DEF LayoutsAgree
      <3>3. DOMAIN row = RowFields
        BY <3>1 DEF NewRow, RowFields
      <3> HIDE DEF row
      <3>4. QED
        BY <3>1, <3>2, <3>3, NewRowsAreWhole
    <2>3. QED
      BY <2>1, <2>2
  <1> HIDE DEF row
  <1>3. WholeRow(d, routed) /\ DOMAIN routed = RowFields
    <2>1. /\ DOMAIN routed = RowFields
          /\ routed.kind = row.kind /\ routed.seats = row.seats /\ routed.free = row.free
          /\ routed.counter = row.counter /\ routed.account = row.account
          /\ routed.fares = row.fares /\ routed.booked = row.booked
      BY <1>2 DEF SeedRoutePoints, RowFields
    <2> HIDE DEF routed
    <2>2. row.fares \subseteq Fares
      BY <1>2 DEF WholeRow
    <2>3. QED
      BY <1>2, <2>1, <2>2, RoutesAside
  <1> HIDE DEF routed
  <1> DEFINE new == SeedFareTypes(routed)
  <1>4. /\ new.kind = routed.kind /\ new.seats = routed.seats /\ new.free = routed.free
        /\ new.counter = routed.counter /\ new.account = routed.account
        /\ new.booked = routed.booked
        /\ routed.fares \subseteq new.fares
        /\ new.fares \subseteq routed.fares \cup {"SUPER FLEXI"}
    BY <1>3 DEF SeedFareTypes, RowFields
  <1> HIDE DEF new
  <1>5. new.fares \subseteq Fares
    BY <1>3, <1>4 DEF WholeRow, Fares
  <1>6. WholeRow(d, new)
    BY <1>3, <1>4, <1>5, RoutesAside
  <1>7. QED
    BY <1>6 DEF SeedDate, new, routed, row

LEMMA WholeStep ==
  ASSUME NEW r \in Generator, NEW g, RouteInv, WholeInv, Step(r, g), Soundly(g),
         UNCHANGED <<kind, isActive, inst>>
  PROVE  WholeInv'
  <1>1. gen' = [gen EXCEPT ![r] = g] /\ DOMAIN gen = Generator
    BY DEF Step, RouteInv, GenShape
  <1>2. \A q \in Generator : Soundly(gen'[q])
    BY <1>1 DEF WholeInv
  <1>3. RowsAreWhole'
    BY DEF WholeInv, RowsAreWhole, Exists, WholeRow
  <1>4. QED
    BY <1>2, <1>3 DEF WholeInv, Soundly, WholeRow

LEMMA SoundNextDate ==
  ASSUME NEW r \in Generator, RouteInv, WholeInv, gen[r].date \in TravelDate
  PROVE  Soundly([gen[r] EXCEPT !.at = "check", !.date = @ + 1, !.row = NoRow, !.template = 0])
  <1> DEFINE g == [gen[r] EXCEPT !.at = "check", !.date = @ + 1, !.row = NoRow, !.template = 0]
  <1>1. DOMAIN gen[r] = GenFields
    BY DEF RouteInv, GenShape
  <1>2. g.at = "check" /\ g.date = gen[r].date + 1 /\ g.kind = gen[r].kind /\ g.template = 0
    BY <1>1 DEF GenFields
  <1> HIDE DEF g
  <1>3. gen[r].kind \in Kind /\ gen[r].date + 1 \in 1..(LastDate + 1)
    BY InventoryAssumption DEF WholeInv, Soundly, TravelDate
  <1>4. Soundly(g)
    BY <1>2, <1>3, InventoryAssumption DEF Soundly
  <1>5. QED
    BY <1>4 DEF g

LEMMA InitWholeInv == ASSUME InventoryInit PROVE WholeInv
  <1>1. kind \in Kind /\ isActive \in BOOLEAN
    BY InventoryAssumption DEF InventoryInit
  <1>2. RowsAreWhole
    BY DEF InventoryInit, RowsAreWhole, Exists
  <1>3. Soundly(IdleGen)
    BY InventoryAssumption DEF Soundly, IdleGen, Kind
  <1>4. QED
    BY <1>1, <1>2, <1>3 DEF InventoryInit, WholeInv

LEMMA NextWholeInv ==
  ASSUME RouteInv, WholeInv, InventoryNext
  PROVE  WholeInv'
  <1>1. CASE InventoryBoots
    <2>1. Soundly(IdleGen)
      BY InventoryAssumption DEF Soundly, IdleGen, Kind
    <2>2. \A r \in Generator : Soundly(gen'[r])
      BY <1>1, <2>1 DEF InventoryBoots
    <2>3. \A d \in TravelDate : inst'[d] # NoRow => WholeRow(d, inst'[d])
      <3>1. CASE inst' = inst
        BY <3>1 DEF WholeInv, RowsAreWhole, Exists
      <3>2. CASE inst' = [d \in TravelDate |-> IF d \in Seeded THEN SeedDate(d) ELSE inst[d]]
        BY <3>2, SeedingKeepsWhole DEF WholeInv, RowsAreWhole, Exists
      <3>3. QED
        BY <1>1, <3>1, <3>2 DEF InventoryBoots, SeedAll
    <2>4. kind' \in Kind /\ isActive' \in BOOLEAN
      BY <1>1 DEF InventoryBoots, WholeInv
    <2>5. QED
      BY <2>2, <2>3, <2>4 DEF WholeInv, RowsAreWhole, Exists, Soundly, WholeRow
  <1>2. CASE UpdateBus \/ UpdateOperatorStatus
    <2>1. kind' \in Kind /\ isActive' \in BOOLEAN /\ UNCHANGED <<inst, gen>>
      BY <1>2, InventoryAssumption DEF UpdateBus, UpdateOperatorStatus, WholeInv
    <2>2. QED
      BY <2>1 DEF WholeInv, RowsAreWhole, Exists, Soundly, WholeRow
  <1>3. ASSUME NEW r \in Generator,
               \/ GenerateUpcomingInventory(r) \/ CheckExisting(r) \/ InsertInstance(r)
               \/ PickTemplate(r) \/ CloneBoarding(r) \/ CloneDropping(r) \/ RollBack(r)
        PROVE  WholeInv'
    <2>1. /\ DOMAIN gen[r] = GenFields
          /\ gen[r].at \in {"insert", "route", "boarding", "dropping", "commit"} =>
               gen[r].date \in TravelDate
          /\ gen[r].at \in {"route", "boarding", "dropping", "commit"} =>
               DOMAIN gen[r].row = RowFields
      BY DEF RouteInv, GenShape, CopiesAreExact
    <2>2. Soundly(gen[r]) /\ kind \in Kind
      BY DEF WholeInv
    <2>3. UNCHANGED <<kind, isActive, inst>>
      BY <1>3 DEF GenerateUpcomingInventory, CheckExisting, InsertInstance, PickTemplate,
                  CloneBoarding, CloneDropping, RollBack
    <2>4. CASE GenerateUpcomingInventory(r)
      <3> DEFINE g == [IdleGen EXCEPT !.at = "check", !.kind = kind]
      <3>1. Soundly(g)
        BY <2>2, InventoryAssumption DEF Soundly, IdleGen
      <3>2. Step(r, g)
        BY <2>4 DEF GenerateUpcomingInventory
      <3>3. QED
        BY <2>3, <3>1, <3>2, WholeStep
    <2>5. ASSUME NextDate(r), gen[r].date \in TravelDate
          PROVE  WholeInv'
      BY <2>3, <2>5, SoundNextDate, WholeStep DEF NextDate
    <2>6. CASE CheckExisting(r)
      <3>0. \/ gen[r].date > LastDate /\ Step(r, IdleGen)
            \/ gen[r].date \in TravelDate /\ NextDate(r)
            \/ gen[r].date \in TravelDate /\ Step(r, [gen[r] EXCEPT !.at = "insert"])
        <4>1. CASE gen[r].date > LastDate
          BY <2>2, <2>6, <4>1, InventoryAssumption DEF CheckExisting, TravelDate, Soundly
        <4>2. CASE gen[r].date \in TravelDate
          <5>1. ~(gen[r].date > LastDate)
            BY <4>2, InventoryAssumption DEF TravelDate
          <5>2. QED
            BY <2>6, <4>2, <5>1 DEF CheckExisting
        <4>3. QED
          BY <2>2, <4>1, <4>2, InventoryAssumption DEF TravelDate, Soundly
      <3>1. CASE Step(r, IdleGen)
        <4>1. Soundly(IdleGen)
          BY InventoryAssumption DEF Soundly, IdleGen, Kind
        <4>2. QED
          BY <2>3, <3>1, <4>1, WholeStep
      <3>2. CASE Step(r, [gen[r] EXCEPT !.at = "insert"])
        <4> DEFINE g == [gen[r] EXCEPT !.at = "insert"]
        <4>1. Soundly(g)
          BY <2>1, <2>2 DEF Soundly, GenFields
        <4>2. QED
          BY <2>3, <3>2, <4>1, WholeStep
      <3>3. QED
        BY <2>5, <3>0, <3>1, <3>2
    <2>7. CASE InsertInstance(r)
      <3>1. gen[r].at = "insert" /\ gen[r].date \in TravelDate
        BY <2>1, <2>7 DEF InsertInstance
      <3>2. CASE Exists(gen[r].date)
        BY <2>5, <2>7, <3>1, <3>2 DEF InsertInstance
      <3>3. CASE ~Exists(gen[r].date)
        <4> DEFINE row == NewRow(gen[r].kind, BuildSeats(gen[r].kind),
                                 Active(gen[r].kind, gen[r].date \in Weekend), TRUE)
                   g == [gen[r] EXCEPT !.at = "route", !.row = row]
        <4>1. Step(r, g)
          BY <2>7, <3>3 DEF InsertInstance, CreateRows
        <4>2. WholeRow(gen[r].date, row)
          <5>1. gen[r].kind \in Kind
            BY <2>2 DEF Soundly
          <5>2. BuildSeats(gen[r].kind) = ComputationallyMapSeats(gen[r].kind)
            BY <5>1, ProgramsAgree DEF LayoutsAgree
          <5>3. QED
            BY <5>1, <5>2, NewRowsAreWhole
        <4> HIDE DEF row
        <4>3. Soundly(g)
          BY <2>1, <2>2, <4>2 DEF Soundly, GenFields
        <4>4. QED
          BY <2>3, <4>1, <4>3, WholeStep
      <3>4. QED
        BY <3>2, <3>3
    <2>8. ASSUME NEW g, Step(r, g), gen[r].at \in {"route", "boarding", "dropping"},
                 g.at \in {"boarding", "dropping", "commit"}, g.kind = gen[r].kind,
                 g.date = gen[r].date, g.template \in 0..LastDate,
                 g.row.kind = gen[r].row.kind, g.row.seats = gen[r].row.seats,
                 g.row.free = gen[r].row.free, g.row.counter = gen[r].row.counter,
                 g.row.account = gen[r].row.account, g.row.fares = gen[r].row.fares,
                 g.row.booked = gen[r].row.booked
          PROVE  WholeInv'
      <3>1. WholeRow(gen[r].date, gen[r].row)
        BY <2>2, <2>8 DEF Soundly
      <3>2. WholeRow(g.date, g.row)
        BY <2>8, <3>1, RoutesAside DEF WholeRow
      <3>3. Soundly(g)
        BY <2>2, <2>8, <3>2 DEF Soundly
      <3>4. QED
        BY <2>3, <2>8, <3>3, WholeStep
    <2>9. CASE PickTemplate(r)
      <3>0. gen[r].at = "route" /\ DOMAIN gen[r].row = RowFields
        BY <2>1, <2>9 DEF PickTemplate
      <3>1. ASSUME NEW latest \in TravelDate,
                   Step(r, [gen[r] EXCEPT !.at = "boarding", !.template = latest])
            PROVE  WholeInv'
        <4> DEFINE g == [gen[r] EXCEPT !.at = "boarding", !.template = latest]
        <4>1. /\ g.at = "boarding" /\ g.kind = gen[r].kind /\ g.date = gen[r].date
              /\ g.template = latest /\ g.row = gen[r].row
          BY <2>1 DEF GenFields
        <4>2. latest \in 0..LastDate
          BY InventoryAssumption DEF TravelDate
        <4> HIDE DEF g
        <4>3. QED
          BY <2>8, <3>0, <3>1, <4>1, <4>2 DEF g
      <3>2. ASSUME Step(r, [gen[r] EXCEPT
                     !.at = "commit",
                     !.row.boarding = {[stop |-> OriginStop, order |-> 1]},
                     !.row.dropping = {[stop |-> DestinationStop, order |-> 2]}])
            PROVE  WholeInv'
        <4> DEFINE g == [gen[r] EXCEPT
                     !.at = "commit",
                     !.row.boarding = {[stop |-> OriginStop, order |-> 1]},
                     !.row.dropping = {[stop |-> DestinationStop, order |-> 2]}]
        <4>1. /\ g.at = "commit" /\ g.kind = gen[r].kind /\ g.date = gen[r].date
              /\ g.template = gen[r].template
          BY <2>1 DEF GenFields
        <4>2. /\ g.row.kind = gen[r].row.kind /\ g.row.seats = gen[r].row.seats
              /\ g.row.free = gen[r].row.free /\ g.row.counter = gen[r].row.counter
              /\ g.row.account = gen[r].row.account /\ g.row.fares = gen[r].row.fares
              /\ g.row.booked = gen[r].row.booked
          BY <2>1, <3>0 DEF GenFields, RowFields
        <4>3. gen[r].template \in 0..LastDate
          BY <2>2 DEF Soundly
        <4> HIDE DEF g
        <4>4. QED
          BY <2>8, <3>0, <3>2, <4>1, <4>2, <4>3 DEF g
      <3>3. QED
        BY <2>9, <3>1, <3>2 DEF PickTemplate
    <2>10. CASE CloneBoarding(r)
      <3> DEFINE points == IF gen[r].template = 0 THEN {} ELSE inst[gen[r].template].boarding
                 g == [gen[r] EXCEPT !.at = "dropping", !.row.boarding = points]
      <3>1. gen[r].at = "boarding" /\ Step(r, g) /\ DOMAIN gen[r].row = RowFields
        BY <2>1, <2>10 DEF CloneBoarding
      <3>2. /\ g.at = "dropping" /\ g.kind = gen[r].kind /\ g.date = gen[r].date
            /\ g.template = gen[r].template
        BY <2>1 DEF GenFields
      <3>3. /\ g.row.kind = gen[r].row.kind /\ g.row.seats = gen[r].row.seats
            /\ g.row.free = gen[r].row.free /\ g.row.counter = gen[r].row.counter
            /\ g.row.account = gen[r].row.account /\ g.row.fares = gen[r].row.fares
            /\ g.row.booked = gen[r].row.booked
        BY <2>1, <3>1 DEF GenFields, RowFields
      <3>4. gen[r].template \in 0..LastDate
        BY <2>2 DEF Soundly
      <3> HIDE DEF g
      <3>5. QED
        BY <2>8, <3>1, <3>2, <3>3, <3>4
    <2>11. CASE CloneDropping(r)
      <3> DEFINE points == IF gen[r].template = 0 THEN {} ELSE inst[gen[r].template].dropping
                 marred == gen[r].template = 0 \/ inst[gen[r].template].marred
                 g == [gen[r] EXCEPT !.at = "commit", !.row.dropping = points,
                                     !.row.marred = marred]
      <3>1. gen[r].at = "dropping" /\ Step(r, g) /\ DOMAIN gen[r].row = RowFields
        BY <2>1, <2>11 DEF CloneDropping
      <3>2. /\ g.at = "commit" /\ g.kind = gen[r].kind /\ g.date = gen[r].date
            /\ g.template = gen[r].template
        BY <2>1 DEF GenFields
      <3>3. /\ g.row.kind = gen[r].row.kind /\ g.row.seats = gen[r].row.seats
            /\ g.row.free = gen[r].row.free /\ g.row.counter = gen[r].row.counter
            /\ g.row.account = gen[r].row.account /\ g.row.fares = gen[r].row.fares
            /\ g.row.booked = gen[r].row.booked
        BY <2>1, <3>1 DEF GenFields, RowFields
      <3>4. gen[r].template \in 0..LastDate
        BY <2>2 DEF Soundly
      <3> HIDE DEF g
      <3>5. QED
        BY <2>8, <3>1, <3>2, <3>3, <3>4
    <2>12. CASE RollBack(r)
      BY <2>1, <2>5, <2>12 DEF RollBack, Writing
    <2>13. QED
      BY <1>3, <2>4, <2>6, <2>7, <2>9, <2>10, <2>11, <2>12
  <1>4. ASSUME NEW r \in Generator, CommitInstance(r)
        PROVE  WholeInv'
    <2> DEFINE d == gen[r].date
               g == [gen[r] EXCEPT !.at = "check", !.date = @ + 1, !.row = NoRow, !.template = 0]
    <2>1. /\ gen[r].at = "commit" /\ inst' = [inst EXCEPT ![d] = gen[r].row]
          /\ gen' = [gen EXCEPT ![r] = g] /\ UNCHANGED <<kind, isActive>>
      BY <1>4 DEF CommitInstance, NextDate, Step
    <2>2. d \in TravelDate /\ DOMAIN inst = TravelDate /\ DOMAIN gen = Generator
      BY <2>1 DEF RouteInv, GenShape, RowsAreForward
    <2>3. Soundly(g)
      BY <2>2, SoundNextDate
    <2> HIDE DEF g
    <2>4. \A q \in Generator : Soundly(gen'[q])
      BY <2>1, <2>2, <2>3 DEF WholeInv
    <2>5. WholeRow(d, gen[r].row)
      BY <2>1 DEF WholeInv, Soundly
    <2>6. \A e \in TravelDate : inst'[e] # NoRow => WholeRow(e, inst'[e])
      BY <2>1, <2>2, <2>5 DEF WholeInv, RowsAreWhole, Exists
    <2>7. QED
      BY <2>1, <2>4, <2>6 DEF WholeInv, RowsAreWhole, Exists, Soundly, WholeRow
  <1>5. ASSUME NEW d \in TravelDate, DeleteBusInstance(d)
        PROVE  WholeInv'
    <2>1. /\ inst' = [inst EXCEPT ![d] = NoRow] /\ DOMAIN inst = TravelDate
          /\ gen' = [r \in Generator |-> IF gen[r].template = d
                                         THEN [gen[r] EXCEPT !.template = 0] ELSE gen[r]]
          /\ UNCHANGED <<kind, isActive>>
      BY <1>5 DEF DeleteBusInstance, Gone, RouteInv, RowsAreForward
    <2>2. \A r \in Generator :
            /\ gen'[r].at = gen[r].at /\ gen'[r].kind = gen[r].kind
            /\ gen'[r].date = gen[r].date /\ gen'[r].row = gen[r].row
            /\ gen'[r].template = IF gen[r].template = d THEN 0 ELSE gen[r].template
      BY <2>1 DEF RouteInv, GenShape, GenFields
    <2>3. \A r \in Generator : Soundly(gen'[r])
      BY <2>2, InventoryAssumption DEF WholeInv, Soundly
    <2>4. \A e \in TravelDate : inst'[e] # NoRow => WholeRow(e, inst'[e])
      BY <2>1 DEF WholeInv, RowsAreWhole, Exists
    <2>5. QED
      BY <2>1, <2>3, <2>4 DEF WholeInv, RowsAreWhole, Exists, Soundly, WholeRow
  <1>6. ASSUME NEW d \in TravelDate, BookInstance(d)
        PROVE  WholeInv'
    <2>1. /\ inst' = [inst EXCEPT ![d].booked = TRUE] /\ DOMAIN inst = TravelDate
          /\ UNCHANGED <<kind, isActive, gen>> /\ inst[d] # NoRow
      BY <1>6 DEF BookInstance, RouteInv, RowsAreForward, Exists
    <2>2. DOMAIN inst[d] = RowFields /\ WholeRow(d, inst[d])
      BY <2>1 DEF RouteInv, RowsAreForward, Exists, WholeInv, RowsAreWhole
    <2>3. /\ inst'[d].kind = inst[d].kind /\ inst'[d].seats = inst[d].seats
          /\ inst'[d].free = inst[d].free /\ inst'[d].counter = inst[d].counter
          /\ inst'[d].account = inst[d].account /\ inst'[d].fares = inst[d].fares
          /\ inst'[d].booked = TRUE
      BY <2>1, <2>2 DEF RowFields
    <2>4. WholeRow(d, inst'[d])
      BY <2>2, <2>3, RoutesAside DEF WholeRow
    <2>5. \A e \in TravelDate : inst'[e] # NoRow => WholeRow(e, inst'[e])
      BY <2>1, <2>4 DEF WholeInv, RowsAreWhole, Exists
    <2>6. QED
      BY <2>1, <2>5 DEF WholeInv, RowsAreWhole, Exists, Soundly, WholeRow
  <1>7. ASSUME NEW d \in TravelDate, ConfirmSeat(d) \/ CancelSeat(d)
        PROVE  WholeInv'
    <2>1. /\ DOMAIN inst[d] = RowFields /\ WholeRow(d, inst[d]) /\ inst[d].booked
          /\ DOMAIN inst = TravelDate
      BY <1>7 DEF ConfirmSeat, CancelSeat, RouteInv, RowsAreForward, Exists, WholeInv,
                  RowsAreWhole
    <2>2. inst[d].counter \in Nat
      <3>1. inst[d].kind \in Kind /\ (d \in Weekend) \in BOOLEAN
        BY <2>1 DEF WholeRow
      <3>2. SumOf(Active(inst[d].kind, d \in Weekend)) \in Nat
        BY <3>1, NumbersOnSale, Zenon
      <3>3. QED
        BY <2>1, <3>2 DEF WholeRow
    <2>3. PICK free \in Nat : /\ free <= inst[d].counter
                              /\ inst' = [inst EXCEPT ![d].free = free]
                              /\ UNCHANGED <<kind, isActive, gen>>
      <3>1. inst[d].free \in Nat
        BY <2>1 DEF WholeRow
      <3>2. CASE ConfirmSeat(d)
        <4>1. /\ inst[d].free - 1 \in Nat /\ inst[d].free - 1 <= inst[d].counter
              /\ inst' = [inst EXCEPT ![d].free = inst[d].free - 1]
              /\ UNCHANGED <<kind, isActive, gen>>
          BY <2>1, <2>2, <3>1, <3>2 DEF ConfirmSeat, WholeRow
        <4>2. QED
          BY <4>1
      <3>3. CASE CancelSeat(d)
        <4>1. /\ inst[d].free + 1 \in Nat /\ inst[d].free + 1 <= inst[d].counter
              /\ inst' = [inst EXCEPT ![d].free = inst[d].free + 1]
              /\ UNCHANGED <<kind, isActive, gen>>
          BY <2>2, <3>1, <3>3 DEF CancelSeat
        <4>2. QED
          BY <4>1
      <3>4. QED
        BY <1>7, <3>2, <3>3
    <2>4. /\ inst'[d].kind = inst[d].kind /\ inst'[d].seats = inst[d].seats
          /\ inst'[d].free = free /\ inst'[d].counter = inst[d].counter
          /\ inst'[d].account = inst[d].account /\ inst'[d].fares = inst[d].fares
          /\ inst'[d].booked = inst[d].booked
      BY <2>1, <2>3 DEF RowFields
    <2>5. WholeRow(d, inst'[d])
      BY <2>1, <2>3, <2>4 DEF WholeRow
    <2>6. \A e \in TravelDate : inst'[e] # NoRow => WholeRow(e, inst'[e])
      BY <2>1, <2>3, <2>5 DEF WholeInv, RowsAreWhole, Exists
    <2>7. QED
      BY <2>3, <2>6 DEF WholeInv, RowsAreWhole, Exists, Soundly, WholeRow
  <1>8. QED
    BY <1>1, <1>2, <1>3, <1>4, <1>5, <1>6, <1>7 DEF InventoryNext

LEMMA InventoryInvHolds == InventorySpec => [](RouteInv /\ WholeInv)
  <1>1. InventoryInit => RouteInv /\ WholeInv
    BY InitRouteInv, InitWholeInv
  <1>2. RouteInv /\ WholeInv /\ [InventoryNext]_inventoryVars => RouteInv' /\ WholeInv'
    <2>1. ASSUME RouteInv, WholeInv, UNCHANGED inventoryVars
          PROVE  RouteInv' /\ WholeInv'
      BY <2>1 DEF inventoryVars, RouteInv, GenShape, RowsAreForward, CopiesAreExact,
             DatesAreOwned, Exists, Writing, Forward, WholeInv, RowsAreWhole, Soundly, WholeRow
    <2>2. QED
      BY <2>1, NextRouteInv, NextWholeInv
  <1>3. QED
    BY <1>1, <1>2, PTL DEF InventorySpec

\* Every instance of a bus that a search can find has its seats, the fares and the
\* account; its counter says what was for sale when it was made, and no more seats
\* are on sale, nor fewer until it is first booked: whichever of two programs drew
\* them, whatever runs of the job overlap, fail, are cut off or meet deletions, and
\* whatever bookings are confirmed and cancelled (generateForDate,
\* SeedBusInstances, updateAvailability).
THEOREM InstancesStayWhole == InventorySpec => []SearchableIsWhole
  <1>1. WholeInv => SearchableIsWhole
    BY ProgramsAgree DEF WholeInv, RowsAreWhole, WholeRow, SearchableIsWhole, SeatsOf
  <1>2. QED
    BY <1>1, InventoryInvHolds, PTL

\* The rows of a bus's instances and the runs of the job have their types.
THEOREM InventoryTypes == InventorySpec => []InventoryTypeOK
  <1>1. WholeInv => InventoryTypeOK
    <2> SUFFICES ASSUME WholeInv PROVE InventoryTypeOK
      OBVIOUS
    <2>1. \A d \in TravelDate : Exists(d) =>
            /\ inst[d].kind \in Kind /\ inst[d].free \in Nat /\ inst[d].counter \in Nat
            /\ inst[d].fares \subseteq {"GENERAL", "FLEXI", "SUPER FLEXI"}
      <3>1. \A k \in Kind, d \in TravelDate : SumOf(Active(k, d \in Weekend)) \in Nat
        <4>1. \A d \in TravelDate : (d \in Weekend) \in BOOLEAN
          OBVIOUS
        <4>2. QED
          BY <4>1, NumbersOnSale, Zenon
      <3>2. QED
        BY <3>1 DEF WholeInv, RowsAreWhole, WholeRow, Fares
    <2>2. \A r \in Generator :
            /\ gen[r].at \in {"idle", "check", "insert", "route",
                              "boarding", "dropping", "commit"}
            /\ gen[r].kind \in Kind
            /\ gen[r].date \in 1..(LastDate + 1) /\ gen[r].template \in 0..LastDate
      BY DEF WholeInv, Soundly
    <2>3. QED
      BY <2>1, <2>2 DEF WholeInv, InventoryTypeOK
  <1>2. QED
    BY <1>1, InventoryInvHolds, PTL
-----------------------------------------------------------------------------
(* The prices of a bus. *)

\* A price that no seeder has written last is that of one run's transaction.
QuotedInv ==
  /\ DOMAIN fare = Trips /\ DOMAIN flexiFare = Trips /\ DOMAIN current = Trips
  /\ QuotedIsCharged

\* The job writes the fares and the instance of a trip together, and nothing
\* else writes either but the seeder, which leaves a mark (applyRulesToInstance).
THEOREM WhatIsQuotedIsCharged == PricingSpec => []QuotedIsCharged
  <1>1. PricingInit => QuotedInv
    BY DEF PricingInit, QuotedInv, QuotedIsCharged
  <1>2. QuotedInv /\ [PricingNext]_pricingVars => QuotedInv'
    <2> SUFFICES ASSUME QuotedInv, [PricingNext]_pricingVars PROVE QuotedInv'
      OBVIOUS
    <2>1. CASE UNCHANGED <<fare, flexiFare, current, reseeded>>
      BY <2>1 DEF QuotedInv, QuotedIsCharged
    <2>2. ASSUME NEW r \in Pricer, CommitPrices(r) PROVE QuotedInv'
      <3> DEFINE i == pricer[r].trip
                 price == NewPrice(i, pricer[r].multiplier)
      <3>1. /\ fare' = [fare EXCEPT ![i] = price]
            /\ flexiFare' = [flexiFare EXCEPT ![i] = price + Flexi]
            /\ current' = [current EXCEPT ![i] = price]
            /\ reseeded' = reseeded \ {i}
        BY <2>2 DEF CommitPrices
      <3> HIDE DEF i, price
      <3>2. DOMAIN fare' = Trips /\ DOMAIN flexiFare' = Trips /\ DOMAIN current' = Trips
        BY <3>1 DEF QuotedInv
      <3>3. ASSUME NEW j \in Trips \ reseeded'
            PROVE  fare'[j] = current'[j] /\ flexiFare'[j] = fare'[j] + Flexi
        <4>1. CASE j = i
          BY <3>1, <4>1 DEF QuotedInv
        <4>2. CASE j # i
          <5>1. j \in Trips \ reseeded
            BY <3>1, <3>3, <4>2
          <5>2. fare[j] = current[j] /\ flexiFare[j] = fare[j] + Flexi
            BY <5>1 DEF QuotedInv, QuotedIsCharged
          <5>3. QED
            BY <3>1, <4>2, <5>2 DEF QuotedInv
        <4>3. QED
          BY <4>1, <4>2
      <3>4. QED
        BY <3>2, <3>3 DEF QuotedInv, QuotedIsCharged
    <2>3. ASSUME NEW I \in SUBSET Trips, NEW F \in SUBSET Trips, SeedFares(I, F)
          PROVE  QuotedInv'
      <3>1. \A j \in Trips \ reseeded' :
              j \in Trips \ reseeded /\ fare'[j] = fare[j] /\ flexiFare'[j] = flexiFare[j]
        BY <2>3 DEF SeedFares
      <3>2. current' = current /\ DOMAIN fare' = Trips /\ DOMAIN flexiFare' = Trips
        BY <2>3 DEF SeedFares
      <3>3. QED
        BY <3>1, <3>2 DEF QuotedInv, QuotedIsCharged
    <2>4. ASSUME NEW r \in Pricer, RunSteps(r) \/ PricesFail(r), ~CommitPrices(r)
          PROVE  UNCHANGED <<fare, flexiFare, current, reseeded>>
      BY <2>4 DEF RunSteps, PricesFail, FetchRules, FetchInstances, ApplyRules,
                  UpdateFares, UpdateInstance
    <2>5. ASSUME NEW i \in Trips, UpdateBusInstanceStatus(i) \/ TimePasses(i)
                                  \/ \E n \in 0..2 : SeatsChange(i, n)
          PROVE  UNCHANGED <<fare, flexiFare, current, reseeded>>
      BY <2>5 DEF UpdateBusInstanceStatus, TimePasses, SeatsChange
    <2>6. ASSUME NEW n \in DOMAIN RuleList, UpdatePricingRule(n)
          PROVE  UNCHANGED <<fare, flexiFare, current, reseeded>>
      BY <2>6 DEF UpdatePricingRule
    <2>7. CASE UNCHANGED pricingVars
      BY <2>1, <2>7 DEF pricingVars
    <2>8. QED
      BY <2>1, <2>2, <2>3, <2>4, <2>5, <2>6, <2>7 DEF PricingNext
  <1>3. QuotedInv => QuotedIsCharged
    BY DEF QuotedInv
  <1>4. QED
    BY <1>1, <1>2, <1>3, PTL DEF PricingSpec
-----------------------------------------------------------------------------
(* The schedules of a train. *)

BerthsOf(k) == {[coach |-> c, number |-> n, class |-> k] : c \in Coaches(k), n \in Berths(k)}

LEMMA ClassesAreFinite ==
  ASSUME NEW k \in Class
  PROVE  IsFiniteSet(Coaches(k)) /\ IsFiniteSet(Berths(k))
  <1>1. IsFiniteSet(1..2) /\ IsFiniteSet(1..3) /\ IsFiniteSet(1..4) /\ IsFiniteSet(1..8)
    <2>1. 1 \in Int /\ 2 \in Int /\ 3 \in Int /\ 4 \in Int /\ 8 \in Int
      OBVIOUS
    <2>2. \A n \in Int : IsFiniteSet(1..n)
      BY FS_Interval
    <2>3. QED
      BY <2>1, <2>2, Zenon
  <1>2. Berths(k) \in {1..8, 1..4, 1..2}
    <2>1. k \in {"SL", "3AC"} \/ k = "2AC" \/ k = "1AC"
      BY DEF Class
    <2>2. QED
      BY <2>1 DEF Berths
  <1>3. IsFiniteSet({<<"S", n>> : n \in 1..3}) /\ IsFiniteSet({<<"B", n>> : n \in 1..2})
    <2>1. ASSUME NEW letter, NEW m, IsFiniteSet(1..m)
          PROVE  IsFiniteSet({<<letter, n>> : n \in 1..m})
      <3> DEFINE T == {<<letter, n>> : n \in 1..m}
                 h == [n \in 1..m |-> <<letter, n>>]
      <3>1. h \in Surjection(1..m, T)
        BY DEF Surjection
      <3> HIDE DEF T, h
      <3>2. IsFiniteSet(T)
        BY <2>1, <3>1, FS_Surjection
      <3>3. QED
        BY <3>2 DEF T
    <2>2. QED
      BY <1>1, <2>1, Zenon
  <1>4. IsFiniteSet({<<"A", 1>>}) /\ IsFiniteSet({<<"H", 1>>})
    BY FS_Singleton
  <1>5. IsFiniteSet(Coaches(k))
    BY <1>3, <1>4 DEF Coaches, Class
  <1>6. IsFiniteSet(Berths(k))
    BY <1>1, <1>2, Zenon
  <1>7. QED
    BY <1>5, <1>6

\* Of each class there are as many berths as its counter says.
LEMMA BerthsAreCounted ==
  \A k \in Class : Cardinality({b \in AllBerths : b.class = k}) = BerthCount[k]
  <1> SUFFICES ASSUME NEW k \in Class
               PROVE  Cardinality({b \in AllBerths : b.class = k}) = BerthCount[k]
    OBVIOUS
  <1>1. {b \in AllBerths : b.class = k} = BerthsOf(k)
    <2>1. AllBerths = UNION {BerthsOf(j) : j \in Class}
      BY DEF AllBerths, BerthsOf
    <2>2. \A j \in Class : \A b \in BerthsOf(j) : b.class = j
      BY DEF BerthsOf
    <2>3. QED
      BY <2>1, <2>2
  <1>2. IsFiniteSet(Coaches(k)) /\ IsFiniteSet(Berths(k))
    BY ClassesAreFinite
  <1> DEFINE f == [p \in Coaches(k) \X Berths(k) |->
                     [coach |-> p[1], number |-> p[2], class |-> k]]
  <1>3. f \in Bijection(Coaches(k) \X Berths(k), BerthsOf(k))
    <2>1. f \in [Coaches(k) \X Berths(k) -> BerthsOf(k)]
      <3>1. \A p \in Coaches(k) \X Berths(k) :
              [coach |-> p[1], number |-> p[2], class |-> k] \in BerthsOf(k)
        BY DEF BerthsOf
      <3>2. QED
        BY <3>1
    <2>2. \A p, q \in Coaches(k) \X Berths(k) : f[p] = f[q] => p = q
      <3> TAKE p, q \in Coaches(k) \X Berths(k)
      <3>1. f[p] = [coach |-> p[1], number |-> p[2], class |-> k]
            /\ f[q] = [coach |-> q[1], number |-> q[2], class |-> k]
        OBVIOUS
      <3>2. f[p].coach = p[1] /\ f[p].number = p[2]
            /\ f[q].coach = q[1] /\ f[q].number = q[2]
        BY <3>1
      <3>3. p = <<p[1], p[2]>> /\ q = <<q[1], q[2]>>
        OBVIOUS
      <3> HIDE DEF f
      <3>4. QED
        BY <3>2, <3>3
    <2>3. \A b \in BerthsOf(k) : \E p \in Coaches(k) \X Berths(k) : f[p] = b
      <3> TAKE b \in BerthsOf(k)
      <3>0. PICK c \in Coaches(k), n \in Berths(k) : b = [coach |-> c, number |-> n, class |-> k]
        BY DEF BerthsOf
      <3>1. <<c, n>> \in Coaches(k) \X Berths(k)
        OBVIOUS
      <3>2. f[<<c, n>>] = [coach |-> c, number |-> n, class |-> k]
        BY <3>1
      <3> HIDE DEF f
      <3>3. QED
        BY <3>0, <3>1, <3>2
    <2> HIDE DEF f
    <2>4. IsInjective(f)
      BY <2>1, <2>2 DEF IsInjective
    <2>5. QED
      BY <2>1, <2>3, <2>4 DEF Bijection, Injection, Surjection
  <1> HIDE DEF f
  <1>4. /\ IsFiniteSet(Coaches(k) \X Berths(k))
        /\ Cardinality(Coaches(k) \X Berths(k)) = Cardinality(Coaches(k)) * Cardinality(Berths(k))
    BY <1>2, FS_Product
  <1>5. Cardinality(BerthsOf(k)) = Cardinality(Coaches(k) \X Berths(k))
    BY <1>3, <1>4, FS_Bijection DEF ExistsBijection
  <1>6. QED
    BY <1>1, <1>4, <1>5 DEF BerthCount

\* No two berths have the same number in the same coach.
LEMMA BerthsAreDistinct ==
  \A b, c \in AllBerths : b.coach = c.coach /\ b.number = c.number => b = c
  <1>1. \A b \in AllBerths :
          /\ b.class \in Class /\ b.coach[1] = CASE b.class = "SL"  -> "S"
                                                 [] b.class = "3AC" -> "B"
                                                 [] b.class = "2AC" -> "A"
                                                 [] b.class = "1AC" -> "H"
          /\ b = [coach |-> b.coach, number |-> b.number, class |-> b.class]
    BY DEF AllBerths, Coaches, Class
  <1>2. \A b, c \in AllBerths : b.coach = c.coach => b.class = c.class
    BY <1>1 DEF Class
  <1>3. QED
    BY <1>1, <1>2

LEMMA BerthsAreNumbers == BerthCount \in [Class -> Nat]
  <1>1. BerthCount = [k \in Class |-> BerthCount[k]]
    BY DEF BerthCount
  <1>2. \A k \in Class : BerthCount[k] \in Nat
    <2> TAKE k \in Class
    <2>1. Cardinality(Coaches(k)) \in Nat /\ Cardinality(Berths(k)) \in Nat
      BY ClassesAreFinite, FS_CardinalityType
    <2>2. \A m, n \in Nat : m * n \in Nat
      OBVIOUS
    <2>3. BerthCount[k] = Cardinality(Coaches(k)) * Cardinality(Berths(k))
      BY DEF BerthCount
    <2>4. QED
      BY <2>1, <2>2, <2>3, Zenon
  <1>3. QED
    BY <1>1, <1>2

RunFields == {"at", "date", "until", "berths"}

RunShape ==
  /\ DOMAIN run = Run
  /\ \A r \in Run :
       /\ DOMAIN run[r] = RunFields
       /\ run[r].date \in Nat /\ run[r].date # 0 /\ run[r].until \in 0..LastDay
       /\ run[r].at \in {"insert", "berths", "commit"} => run[r].date \in ScheduleDate
       /\ run[r].at = "commit" => run[r].berths = AllBerths

\* The unique index: nobody writes a date that has its schedule, or that another
\* writes.
DaysAreOwned ==
  \A r \in Run : InTransaction(r) =>
    /\ schedule[run[r].date] = {}
    /\ \A q \in Run : InTransaction(q) /\ run[q].date = run[r].date => q = r

\* A schedule's counters, give or take what bookings have moved.
Told(s) ==
  /\ DOMAIN s = {"by", "berths", "left", "moved"}
  /\ s.left \in [Class -> Int] /\ s.moved \in Nat
  /\ \A k \in Class : /\ BerthCount[k] - s.moved <= s.left[k]
                      /\ s.left[k] <= BerthCount[k] + s.moved

DaysAreWhole ==
  /\ DOMAIN schedule = ScheduleDate
  /\ \A d \in ScheduleDate : \A s \in schedule[d] :
       /\ s.berths = AllBerths /\ Told(s)
       /\ \A t \in schedule[d] : t = s

ScheduleInv == RunShape /\ DaysAreOwned /\ DaysAreWhole

\* What a run may become, for the invariant to go on.
Apt(r, g) ==
  /\ DOMAIN g = RunFields
  /\ g.date \in Nat /\ g.date # 0 /\ g.until \in 0..LastDay
  /\ g.at \in {"insert", "berths", "commit"} => g.date \in ScheduleDate
  /\ g.at = "commit" => g.berths = AllBerths
  /\ g.at \in {"berths", "commit"} =>
       /\ schedule[g.date] = {}
       /\ \A q \in Run \ {r} : ~(InTransaction(q) /\ run[q].date = g.date)

LEMMA RunStep ==
  ASSUME NEW r \in Run, NEW g, ScheduleInv, StepTo(r, g), Apt(r, g), schedule' = schedule
  PROVE  ScheduleInv'
  <1>1. run' = [run EXCEPT ![r] = g] /\ DOMAIN run = Run
    BY DEF StepTo, ScheduleInv, RunShape
  <1>2. run'[r] = g /\ \A q \in Run \ {r} : run'[q] = run[q]
    BY <1>1
  <1>3. RunShape'
    BY <1>1, <1>2 DEF RunShape, Apt, ScheduleInv
  <1>4. DaysAreWhole'
    BY DEF DaysAreWhole, ScheduleInv
  <1>5. DaysAreOwned'
    <2>1. \A q \in Run \ {r} : InTransaction(q)' <=> InTransaction(q)
      BY <1>2 DEF InTransaction
    <2>2. InTransaction(r)' => g.at \in {"berths", "commit"}
      BY <1>2 DEF InTransaction
    <2> SUFFICES ASSUME NEW p \in Run, InTransaction(p)'
                 PROVE  /\ schedule[run'[p].date] = {}
                        /\ \A q \in Run : InTransaction(q)' /\ run'[q].date = run'[p].date
                                            => q = p
      BY DEF DaysAreOwned
    <2>3. CASE p = r
      BY <1>2, <2>1, <2>2, <2>3 DEF Apt
    <2>4. CASE p # r
      BY <1>2, <2>1, <2>2, <2>4 DEF Apt, ScheduleInv, DaysAreOwned
    <2>5. QED
      BY <2>3, <2>4
  <1>6. QED
    BY <1>3, <1>4, <1>5 DEF ScheduleInv

LEMMA NextDayStep ==
  ASSUME NEW r \in Run, ScheduleInv, NextDay(r), schedule' = schedule
  PROVE  ScheduleInv'
  <1> DEFINE g == [run[r] EXCEPT !.at = "check", !.date = @ + 1, !.berths = {}]
  <1>1. DOMAIN run[r] = RunFields /\ run[r].date \in Nat /\ run[r].until \in 0..LastDay
    BY DEF ScheduleInv, RunShape
  <1>2. DOMAIN g = RunFields /\ g.at = "check" /\ g.date = run[r].date + 1
        /\ g.until = run[r].until
    BY <1>1 DEF RunFields
  <1>3. Apt(r, g)
    BY <1>1, <1>2 DEF Apt
  <1>4. QED
    BY <1>3, RunStep DEF NextDay

LEMMA NextScheduleInv ==
  ASSUME ScheduleInv, TrainInventoryNext
  PROVE  ScheduleInv'
  <1>1. CASE TrainBoots
    <2>1. RunShape' /\ \A r \in Run : run'[r].at = "idle"
      BY <1>1, TrainInventoryAssumption DEF TrainBoots, RunShape, AtRest, RunFields
    <2>2. DaysAreOwned'
      BY <2>1 DEF DaysAreOwned, InTransaction
    <2>3. DaysAreWhole'
      BY <1>1 DEF TrainBoots, DaysAreWhole, ScheduleInv
    <2>4. QED
      BY <2>1, <2>2, <2>3 DEF ScheduleInv
  <1>2. CASE AdminUpdateTrain
    BY <1>2 DEF AdminUpdateTrain, ScheduleInv, RunShape, DaysAreOwned, DaysAreWhole, InTransaction
  <1>3. ASSUME NEW r \in Run,
               \/ StartRun(r) \/ CheckSchedule(r) \/ CreateSchedule(r)
               \/ CreateBerths(r) \/ CommitSchedule(r) \/ TransactionFails(r)
        PROVE  ScheduleInv'
    <2>1. /\ DOMAIN run[r] = RunFields
          /\ run[r].date \in Nat /\ run[r].date # 0 /\ run[r].until \in 0..LastDay
          /\ run[r].at \in {"insert", "berths", "commit"} => run[r].date \in ScheduleDate
          /\ run[r].at = "commit" => run[r].berths = AllBerths
      BY DEF ScheduleInv, RunShape
    <2>2. run[r].at \in {"berths", "commit"} =>
            /\ schedule[run[r].date] = {}
            /\ \A q \in Run \ {r} : ~(InTransaction(q) /\ run[q].date = run[r].date)
      BY DEF ScheduleInv, DaysAreOwned, InTransaction
    <2>3. CASE StartRun(r)
      <3>1. PICK days \in ScheduleDate :
              StepTo(r, [AtRest EXCEPT !.at = "check", !.until = days])
        BY <2>3 DEF StartRun
      <3> DEFINE g == [AtRest EXCEPT !.at = "check", !.until = days]
      <3>2. DOMAIN g = RunFields /\ g.at = "check" /\ g.date = 1 /\ g.until = days
        BY DEF AtRest, RunFields
      <3>3. days \in 0..LastDay
        BY TrainInventoryAssumption DEF ScheduleDate
      <3>4. Apt(r, g)
        BY <3>2, <3>3 DEF Apt
      <3>5. schedule' = schedule
        BY <2>3 DEF StartRun
      <3>6. QED
        BY <3>1, <3>4, <3>5, RunStep
    <2>4. CASE CheckSchedule(r)
      <3>1. run[r].at = "check" /\ schedule' = schedule
        BY <2>4 DEF CheckSchedule
      <3>2. CASE run[r].date > run[r].until
        <4>1. StepTo(r, AtRest)
          <5>1. ~(run[r].date <= run[r].until)
            BY <2>1, <3>2
          <5>2. QED
            BY <2>4, <3>2, <5>1 DEF CheckSchedule
        <4>2. Apt(r, AtRest)
          BY TrainInventoryAssumption DEF Apt, AtRest, RunFields
        <4>3. QED
          BY <3>1, <4>1, <4>2, RunStep
      <3>3. CASE run[r].date <= run[r].until
        <4> DEFINE g == [run[r] EXCEPT !.at = "insert"]
        <4>1. ~(run[r].date > run[r].until)
          BY <2>1, <3>3
        <4>2. NextDay(r) \/ StepTo(r, g)
          BY <2>4, <3>3, <4>1 DEF CheckSchedule
        <4>3. run[r].date \in ScheduleDate
          BY <2>1, <3>3, TrainInventoryAssumption DEF ScheduleDate
        <4>4. DOMAIN g = RunFields /\ g.at = "insert" /\ g.date = run[r].date
              /\ g.until = run[r].until
          BY <2>1 DEF RunFields
        <4>5. Apt(r, g)
          BY <2>1, <4>3, <4>4 DEF Apt
        <4>6. QED
          BY <3>1, <4>2, <4>5, RunStep, NextDayStep
      <3>4. QED
        BY <2>1, <3>2, <3>3
    <2>5. CASE CreateSchedule(r)
      <3> DEFINE g == [run[r] EXCEPT !.at = "berths"]
      <3>1. run[r].at = "insert" /\ StepTo(r, g) /\ schedule' = schedule
            /\ schedule[run[r].date] = {}
            /\ \A q \in Run \ {r} : ~(InTransaction(q) /\ run[q].date = run[r].date)
        BY <2>5 DEF CreateSchedule, InsertIsUnique
      <3>2. DOMAIN g = RunFields /\ g.at = "berths" /\ g.date = run[r].date
            /\ g.until = run[r].until
        BY <2>1 DEF RunFields
      <3>3. Apt(r, g)
        BY <2>1, <3>1, <3>2 DEF Apt
      <3>4. QED
        BY <3>1, <3>3, RunStep
    <2>6. CASE CreateBerths(r)
      <3> DEFINE g == [run[r] EXCEPT !.at = "commit", !.berths = AllBerths]
      <3>1. run[r].at = "berths" /\ StepTo(r, g) /\ schedule' = schedule
        BY <2>6 DEF CreateBerths
      <3>2. DOMAIN g = RunFields /\ g.at = "commit" /\ g.date = run[r].date
            /\ g.until = run[r].until /\ g.berths = AllBerths
        BY <2>1 DEF RunFields
      <3>3. Apt(r, g)
        BY <2>1, <2>2, <3>1, <3>2 DEF Apt
      <3>4. QED
        BY <3>1, <3>3, RunStep
    <2>7. CASE CommitSchedule(r)
      <3> DEFINE d == run[r].date
                 new == [by |-> r, berths |-> run[r].berths, left |-> BerthCount, moved |-> 0]
                 g == [run[r] EXCEPT !.at = "check", !.date = @ + 1, !.berths = {}]
      <3>1. run[r].at = "commit" /\ schedule' = [schedule EXCEPT ![d] = @ \cup {new}]
            /\ StepTo(r, g)
        BY <2>7 DEF CommitSchedule, NextDay
      <3>2. d \in ScheduleDate /\ schedule[d] = {}
            /\ \A q \in Run \ {r} : ~(InTransaction(q) /\ run[q].date = d)
        BY <2>1, <2>2, <3>1
      <3>3. DOMAIN schedule = ScheduleDate /\ DOMAIN run = Run
        BY DEF ScheduleInv, DaysAreWhole, RunShape
      <3>4. new.berths = AllBerths /\ Told(new)
        BY <2>1, <3>1, BerthsAreNumbers DEF Told
      <3>5. DOMAIN g = RunFields /\ g.at = "check" /\ g.date = d + 1
            /\ g.until = run[r].until
        BY <2>1 DEF RunFields
      <3> HIDE DEF new, g
      <3>6. DOMAIN schedule' = ScheduleDate /\ schedule'[d] = {new}
            /\ \A e \in ScheduleDate : e # d => schedule'[e] = schedule[e]
        BY <3>1, <3>2, <3>3
      <3>7. DOMAIN run' = Run /\ run'[r] = g /\ \A q \in Run \ {r} : run'[q] = run[q]
        BY <3>1, <3>3 DEF StepTo
      <3>8. RunShape'
        BY <2>1, <3>5, <3>7 DEF RunShape, ScheduleInv
      <3>9. DaysAreOwned'
        <4>1. \A q \in Run : InTransaction(q)' <=> q # r /\ InTransaction(q)
          BY <3>5, <3>7 DEF InTransaction
        <4> SUFFICES ASSUME NEW p \in Run, InTransaction(p)'
                     PROVE  /\ schedule'[run'[p].date] = {}
                            /\ \A q \in Run : InTransaction(q)' /\ run'[q].date = run'[p].date
                                                => q = p
          BY DEF DaysAreOwned
        <4>2. p # r /\ InTransaction(p) /\ run'[p] = run[p] /\ run[p].date # d
          BY <3>2, <3>7, <4>1
        <4>3. run[p].date \in ScheduleDate /\ schedule[run[p].date] = {}
          BY <4>2 DEF ScheduleInv, RunShape, DaysAreOwned, InTransaction
        <4>4. schedule'[run'[p].date] = {}
          BY <3>6, <4>2, <4>3
        <4>5. ASSUME NEW q \in Run, InTransaction(q)', run'[q].date = run'[p].date
              PROVE  q = p
          <5>1. InTransaction(q) /\ run'[q] = run[q]
            BY <3>7, <4>1, <4>5
          <5>2. QED
            BY <4>2, <4>5, <5>1 DEF ScheduleInv, DaysAreOwned
        <4>6. QED
          BY <4>4, <4>5
      <3>10. DaysAreWhole'
        BY <3>4, <3>6 DEF DaysAreWhole, ScheduleInv
      <3>11. QED
        BY <3>8, <3>9, <3>10 DEF ScheduleInv
    <2>8. CASE TransactionFails(r)
      BY <2>8, NextDayStep DEF TransactionFails
    <2>9. QED
      BY <1>3, <2>3, <2>4, <2>5, <2>6, <2>7, <2>8
  <1>4. ASSUME NEW d \in ScheduleDate, MoveCounter(d)
        PROVE  ScheduleInv'
    <2>1. PICK s \in schedule[d], k \in Class :
            \E n \in 1..(MaxMoved - s.moved) : \E to \in {s.left[k] - n, s.left[k] + n} :
              schedule' = [schedule EXCEPT ![d] =
                (@ \ {s}) \cup {[s EXCEPT !.left[k] = to, !.moved = @ + n]}]
      BY <1>4 DEF MoveCounter
    <2>2. /\ s.berths = AllBerths /\ Told(s) /\ \A t \in schedule[d] : t = s
          /\ DOMAIN schedule = ScheduleDate
      BY <2>1 DEF ScheduleInv, DaysAreWhole
    <2>3. PICK n \in 1..(MaxMoved - s.moved) : \E to \in {s.left[k] - n, s.left[k] + n} :
            schedule' = [schedule EXCEPT ![d] =
              (@ \ {s}) \cup {[s EXCEPT !.left[k] = to, !.moved = @ + n]}]
      BY <2>1
    <2>4. PICK to \in {s.left[k] - n, s.left[k] + n} :
            schedule' = [schedule EXCEPT ![d] =
              (@ \ {s}) \cup {[s EXCEPT !.left[k] = to, !.moved = @ + n]}]
      BY <2>3
    <2> DEFINE new == [s EXCEPT !.left[k] = to, !.moved = @ + n]
    <2>5. /\ n \in Nat /\ to \in Int /\ s.left[k] - n <= to /\ to <= s.left[k] + n
      BY <2>2, <2>3, <2>4, TrainInventoryAssumption DEF Told
    <2>6. /\ DOMAIN new = DOMAIN s /\ new.berths = s.berths /\ new.moved = s.moved + n
          /\ new.left = [s.left EXCEPT ![k] = to]
      BY <2>2 DEF Told
    <2>7. /\ schedule'[d] = {new} /\ DOMAIN schedule' = ScheduleDate
          /\ \A e \in ScheduleDate : e # d => schedule'[e] = schedule[e]
      BY <2>1, <2>2, <2>4
    <2> HIDE DEF new
    <2>8. Told(new)
      <3>1. new.left \in [Class -> Int] /\ new.moved \in Nat
        BY <2>2, <2>5, <2>6 DEF Told
      <3>2. ASSUME NEW j \in Class
            PROVE  /\ BerthCount[j] - new.moved <= new.left[j]
                   /\ new.left[j] <= BerthCount[j] + new.moved
        <4>1. BerthCount[j] \in Nat /\ s.left[j] \in Int /\ s.moved \in Nat
              /\ BerthCount[j] - s.moved <= s.left[j]
              /\ s.left[j] <= BerthCount[j] + s.moved
          BY <2>2, BerthsAreNumbers DEF Told
        <4>2. new.left[j] = IF j = k THEN to ELSE s.left[j]
          BY <2>2, <2>6 DEF Told
        <4>3. QED
          BY <2>5, <2>6, <4>1, <4>2
      <3>3. DOMAIN new = {"by", "berths", "left", "moved"}
        BY <2>2, <2>6 DEF Told
      <3>4. QED
        BY <3>1, <3>2, <3>3 DEF Told
    <2>9. DaysAreWhole'
      BY <2>2, <2>6, <2>7, <2>8 DEF DaysAreWhole, ScheduleInv
    <2>10. run' = run /\ RunShape'
      BY <1>4 DEF MoveCounter, RunShape, ScheduleInv
    <2>11. DaysAreOwned'
      <3> SUFFICES ASSUME NEW p \in Run, InTransaction(p)'
                   PROVE  /\ schedule'[run[p].date] = {}
                          /\ \A q \in Run : InTransaction(q)' /\ run[q].date = run[p].date
                                              => q = p
        BY <2>10 DEF DaysAreOwned
      <3>1. \A q \in Run : InTransaction(q)' <=> InTransaction(q)
        BY <2>10 DEF InTransaction
      <3>2. schedule[run[p].date] = {} /\ run[p].date \in ScheduleDate
        BY <3>1 DEF ScheduleInv, RunShape, DaysAreOwned, InTransaction
      <3>3. run[p].date # d
        BY <2>1, <3>2
      <3>4. QED
        BY <2>7, <3>1, <3>2, <3>3 DEF ScheduleInv, DaysAreOwned
    <2>12. QED
      BY <2>9, <2>10, <2>11 DEF ScheduleInv
  <1>5. QED
    BY <1>1, <1>2, <1>3, <1>4 DEF TrainInventoryNext

LEMMA InitScheduleInv == TrainInventoryInit => ScheduleInv
  BY TrainInventoryAssumption
     DEF TrainInventoryInit, ScheduleInv, RunShape, DaysAreOwned, DaysAreWhole,
         InTransaction, AtRest, RunFields

LEMMA ScheduleInvKept == ScheduleInv /\ [TrainInventoryNext]_trainInventoryVars => ScheduleInv'
  <1>1. ScheduleInv /\ UNCHANGED trainInventoryVars => ScheduleInv'
    BY DEF trainInventoryVars, ScheduleInv, RunShape, DaysAreOwned, DaysAreWhole,
           InTransaction
  <1>2. QED
    BY <1>1, NextScheduleInv

\* Of a train no date has two schedules, and each has all its berths; its counters
\* tell of as many, give or take the seats that bookings have moved, whatever runs of
\* the job write at once (generateForTrain, DecrementAvailability,
\* IncrementAvailability).
THEOREM SchedulesStayWhole == TrainInventorySpec => []SchedulesAreWhole
  <1>1. TrainInventoryInit => ScheduleInv
    BY InitScheduleInv
  <1>2. ScheduleInv /\ [TrainInventoryNext]_trainInventoryVars => ScheduleInv'
    BY ScheduleInvKept
  <1>3. ScheduleInv => SchedulesAreWhole
    <2> SUFFICES ASSUME ScheduleInv, NEW d \in ScheduleDate
                 PROVE
      /\ Cardinality(schedule[d]) <= 1
      /\ \A s \in schedule[d] :
           /\ s.berths = AllBerths
           /\ \A k \in Class : /\ BerthsIn(s, k) - s.moved <= s.left[k]
                               /\ s.left[k] <= BerthsIn(s, k) + s.moved
           /\ \A b, c \in s.berths : b.coach = c.coach /\ b.number = c.number => b = c
      BY DEF SchedulesAreWhole
    <2>1. Cardinality(schedule[d]) <= 1
      <3>1. schedule[d] = {} \/ \E s : schedule[d] = {s}
        BY DEF ScheduleInv, DaysAreWhole
      <3>2. Cardinality(schedule[d]) = 0 \/ Cardinality(schedule[d]) = 1
        BY <3>1, FS_EmptySet, FS_Singleton
      <3>3. QED
        BY <3>2
    <2>2. \A s \in schedule[d] : s.berths = AllBerths /\ Told(s)
      BY DEF ScheduleInv, DaysAreWhole
    <2>3. \A s \in schedule[d], k \in Class : BerthsIn(s, k) = BerthCount[k]
      BY <2>2, BerthsAreCounted DEF BerthsIn
    <2>4. QED
      BY <2>1, <2>2, <2>3, BerthsAreDistinct DEF Told
  <1>4. QED
    BY <1>1, <1>2, <1>3, PTL DEF TrainInventorySpec
=============================================================================
