---------------------------- MODULE TrainPricing ----------------------------
(***************************************************************************)
(* The prices of the berths of one train schedule and what a search shows  *)
(* of them.  A pass of the pricing engine reads the active rules, reads    *)
(* the schedule's stops and its AVAILABLE berths, and writes the price of  *)
(* each berth it read on its own, in no transaction.  Searches are cached. *)
(***************************************************************************)
EXTENDS Integers, FiniteSetsExt

CONSTANTS Berth,
          ClassOf,      \* ClassOf[b]: "SL", "3AC", "2AC" or "1AC"
          LowerBerth,   \* berths of type LOWER or SIDE_LOWER
          PriceRule,    \* rules: a record of type, multiplier and condition each
          MaxStops,     \* bound: stops of the train
          MaxEdits,     \* bound: changes by travellers, administrators, failures
          Searcher,     \* requests for a search of this class and day
          NoResult

ASSUME TrainPricingAssumption ==
  /\ IsFiniteSet(Berth) /\ LowerBerth \subseteq Berth
  /\ ClassOf \in [Berth -> {"SL", "3AC", "2AC", "1AC"}]
  /\ IsFiniteSet(PriceRule) /\ \A p \in PriceRule : p.multiplier \in Nat
  /\ MaxStops \in Nat \ {0, 1} /\ MaxEdits \in Nat

VARIABLES
  inForce,   \* rules with is_active = true
  trainStops,
  ahead,     \* departure_at: "early", "soon" or "gone"
  month,     \* the current month: "peak" or "quiet"
  available, \* berths with status AVAILABLE
  left,      \* available_* of the schedule
  price,     \* price[b] of train_inventory
  pass,      \* what the pass of the engine has read and not yet written
  cache,     \* the cached result of the search
  search,    \* search[q]: what a request has read and not yet cached
  edits

priceVars == <<inForce, trainStops, ahead, month, available, left, price, pass,
               cache, search, edits>>

NoPass == [at |-> "waiting", rules |-> {}, stops |-> 0, todo |-> {}]
-----------------------------------------------------------------------------
(* The formula, in tenths of the class and of the berth. *)

ClassMultiplier(class) ==
  CASE class = "SL" -> 10 [] class = "3AC" -> 25 [] class = "2AC" -> 40 [] class = "1AC" -> 60

BerthMultiplier(b) == IF b \in LowerBerth THEN 11 ELSE 10

\* Berths counted as sold among those read: all of those are AVAILABLE.
SoldIn(class) == 0

RuleMatches(p) ==
  CASE p.type = "DEMAND" -> \E b \in Berth : SoldIn(ClassOf[b]) > p.above
    [] p.type = "TIME_TO_DEPARTURE" -> ahead = p.when
    [] p.type = "SEASONAL" -> month = p.month

\* All matching rules, one upon the other.
ApplyPriceRules(rules) ==
  LET matching == {p \in rules : RuleMatches(p)}
  IN FoldSet(LAMBDA p, product : p.multiplier * product, 1, matching)

FinalPrice(b, stops, rules) ==
  (100 + 20 * stops) * ClassMultiplier(ClassOf[b]) * BerthMultiplier(b)
    * ApplyPriceRules(rules)
-----------------------------------------------------------------------------
\* Price 0 stands for what the inventory job has written.
TrainPricingInit ==
  /\ inForce = PriceRule /\ trainStops = 2
  /\ ahead = "early" /\ month = "quiet"
  /\ available = Berth /\ left = Cardinality(Berth)
  /\ price = [b \in Berth |-> 0]
  /\ pass = NoPass /\ cache = NoResult /\ search = [q \in Searcher |-> NoResult]
  /\ edits = 0

RestOfPricing == <<inForce, trainStops, ahead, month, available, left, price>>

FetchPriceRules ==
  /\ pass.at = "waiting"
  /\ pass' = [NoPass EXCEPT !.at = "rules", !.rules = inForce]
  /\ UNCHANGED <<RestOfPricing, cache, search, edits>>

\* Schedules that have not left, their stops and their AVAILABLE berths.
FetchBerths ==
  /\ pass.at = "rules"
  /\ pass' = IF ahead = "gone" THEN NoPass
             ELSE [pass EXCEPT !.at = "write", !.stops = trainStops, !.todo = available]
  /\ UNCHANGED <<RestOfPricing, cache, search, edits>>

\* Mutated form: only higher prices are written.
OnlyRaise(b, new) == IF new > price[b] THEN new ELSE price[b]

Written(b, new) == new

\* By id alone: the berth may have been sold since, and the rules changed.
WritePrice ==
  /\ pass.at = "write" /\ pass.todo # {}
  /\ \E b \in pass.todo :
       /\ price' = [price EXCEPT ![b] = Written(b, FinalPrice(b, pass.stops, pass.rules))]
       /\ pass' = [pass EXCEPT !.todo = @ \ {b}]
  /\ UNCHANGED <<inForce, trainStops, ahead, month, available, left, cache, search, edits>>

PassEnds ==
  /\ pass.at = "write" /\ pass.todo = {}
  /\ pass' = NoPass
  /\ UNCHANGED <<RestOfPricing, cache, search, edits>>
-----------------------------------------------------------------------------
(* Searches of one class and day. *)

\* The query: nothing when the class counts as sold out, else its counter and what its
\* AVAILABLE berths cost on the average (here: each of them).
QueryResult ==
  IF left <= 0 THEN [left |-> 0, prices |-> {}]
  ELSE [left |-> left, prices |-> {<<b, price[b]>> : b \in available}]

\* A request that does not find the cache filled reads the tables.
SearchTrains(q) ==
  /\ cache = NoResult /\ search[q] = NoResult
  /\ search' = [search EXCEPT ![q] = QueryResult]
  /\ UNCHANGED <<RestOfPricing, pass, cache, edits>>

\* And writes the cache, over what another request has found out later; or the
\* write fails, which nobody looks at.
CacheResult(q) ==
  /\ search[q] # NoResult
  /\ cache' \in {cache, search[q]}
  /\ search' = [search EXCEPT ![q] = NoResult]
  /\ UNCHANGED <<RestOfPricing, pass, edits>>

\* Mutated form: a result is cached without a time to live.
NeverExpires == FALSE /\ UNCHANGED priceVars

CacheExpires ==
  /\ cache # NoResult
  /\ cache' = NoResult
  /\ UNCHANGED <<RestOfPricing, pass, search, edits>>
-----------------------------------------------------------------------------
(* What happens meanwhile.  MaxEdits bounds it. *)

Edit == edits < MaxEdits /\ edits' = edits + 1

AdminUpdatePricingRule(p) ==
  /\ Edit
  /\ inForce' = IF p \in inForce THEN inForce \ {p} ELSE inForce \cup {p}
  /\ UNCHANGED <<trainStops, ahead, month, available, left, price, pass, cache, search>>

\* A booking is made, or it ends.  It takes its seats by their id alone, whichever
\* schedule they are on, and the counter of the schedule that it names.
BerthSold(b) ==
  /\ Edit /\ b \in available
  /\ available' = available \ {b} /\ left' \in {left - 1, left}
  /\ UNCHANGED <<inForce, trainStops, ahead, month, price, pass, cache, search>>

BerthReturned(b) ==
  /\ Edit /\ b \notin available
  /\ available' = available \cup {b} /\ left' \in {left + 1, left}
  /\ UNCHANGED <<inForce, trainStops, ahead, month, price, pass, cache, search>>

\* A booking that names this schedule and has a seat of another is made, or ends.
CounterMoves ==
  /\ Edit
  /\ left' \in {left - 1, left + 1}
  /\ UNCHANGED <<inForce, trainStops, ahead, month, available, price, pass, cache, search>>

\* The service starts again: the seeds may bring a stop, and the engine begins anew.
EngineRestarts ==
  /\ Edit
  /\ trainStops' \in {trainStops, MaxStops}
  /\ pass' = NoPass /\ search' = [q \in Searcher |-> NoResult]
  /\ UNCHANGED <<inForce, ahead, month, available, left, price, cache>>

\* The write of one price fails: it is logged and the pass goes on.
WriteFails ==
  /\ Edit
  /\ \E b \in pass.todo : pass' = [pass EXCEPT !.todo = @ \ {b}]
  /\ UNCHANGED <<RestOfPricing, cache, search>>

TimeGoesOn ==
  /\ \/ ahead = "early" /\ ahead' = "soon" /\ UNCHANGED month
     \/ ahead = "soon" /\ ahead' = "gone" /\ UNCHANGED month
     \/ month = "quiet" /\ month' = "peak" /\ UNCHANGED ahead
  /\ UNCHANGED <<inForce, trainStops, available, left, price, pass, cache, search, edits>>

EngineSteps == FetchPriceRules \/ FetchBerths \/ WritePrice \/ PassEnds

TrainPricingNext ==
  \/ EngineSteps \/ CacheExpires \/ EngineRestarts \/ WriteFails \/ TimeGoesOn \/ CounterMoves
  \/ \E q \in Searcher : SearchTrains(q) \/ CacheResult(q)
  \/ \E p \in PriceRule : AdminUpdatePricingRule(p)
  \/ \E b \in Berth : BerthSold(b) \/ BerthReturned(b)

TrainPricingSpec == TrainPricingInit /\ [][TrainPricingNext]_priceVars
-----------------------------------------------------------------------------
TrainPricingTypeOK ==
  /\ inForce \subseteq PriceRule /\ trainStops \in {2, MaxStops}
  /\ ahead \in {"early", "soon", "gone"} /\ month \in {"quiet", "peak"}
  /\ available \subseteq Berth /\ left \in Int
  /\ price \in [Berth -> Nat]
  /\ pass.at \in {"waiting", "rules", "write"} /\ pass.rules \subseteq PriceRule
  /\ pass.stops \in 0..MaxStops /\ pass.todo \subseteq Berth
  /\ edits \in 0..MaxEdits

\* Every AVAILABLE berth comes to cost what the rules, the stops and the time ask
\* for, or the train leaves: whatever stale rules and berths a pass goes on with.
BerthPricesCatchUp ==
  \A b \in Berth :
    []<>(\/ ahead = "gone" \/ b \notin available
         \/ price[b] = FinalPrice(b, trainStops, inForce))

\* Once nothing that a search asks for changes any more, there comes a time from
\* which no search shows anything else: a request that has read long ago may cache
\* it over what others have found out later, but not again and again.
SearchesCatchUp ==
  <>[][FALSE]_<<left, available, price>> => <>[](cache \in {NoResult, QueryResult})
=============================================================================
