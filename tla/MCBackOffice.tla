---------------------------- MODULE MCBackOffice ----------------------------
(***************************************************************************)
(* Small instances of what the services do for travellers they have not    *)
(* met yet: departures, prices, accounts, and the ledger that a departure  *)
(* of flight-service keeps.  They share no state, so a behaviour of this   *)
(* module is a behaviour of one of them, whose part it is, while the       *)
(* others stay in their initial states and no fairness is asked of them.   *)
(***************************************************************************)
EXTENDS SeatLedger, BusAccounting, BusInventory, BusPricing, TrainInventory,
        TrainPricing, TLC

CONSTANTS b1, b2, b3, p1, p2, p3, p4, noon, dawn, lower

\* A booking of two, and two bookings of one.
Groups == (p1 :> b1) @@ (p2 :> b1) @@ (p3 :> b2) @@ (p4 :> b3)

\* With a run of the accounting job every two and a day of four: a departure
\* between two runs, and one at midnight sharp with two runs to come.
Timetable == (noon :> 1) @@ (dawn :> 4)

Point(stop, order) == [stop |-> stop, order |-> order]

\* Routes with a stop on the way; the one of date 2 overlaps and is refused.
Boarding == (1 :> <<Point("origin", 1), Point("via", 2)>>) @@ (2 :> <<Point("origin", 4)>>)
Dropping == (1 :> <<Point("suburb", 3), Point("destination", 4)>>)
            @@ (2 :> <<Point("destination", 4)>>)

BusRules ==
  << [type |-> "DEMAND", factor |-> 3, above |-> 2],
     [type |-> "DEMAND", factor |-> 2, above |-> 1],
     [type |-> "TIME_TO_DEPARTURE", factor |-> 5, phase |-> "soon"],
     [type |-> "WEEKEND", factor |-> 7] >>

TrainRules ==
  {[type |-> "DEMAND", multiplier |-> 3, above |-> 0],
   [type |-> "TIME_TO_DEPARTURE", multiplier |-> 5, when |-> "soon"],
   [type |-> "SEASONAL", multiplier |-> 7, month |-> "peak"]}

Sleepers == lower :> "SL"

\* Seats are sold on the weekend only.
SoldOn == <<0, 1>>

VARIABLE part

Parts == {"ledger", "accounts", "departures", "fares", "schedules", "berths"}

\* The choices of the other parts are of no account.
Init ==
  /\ part \in Parts
  /\ LedgerInit /\ AccountInit /\ InventoryInit /\ PricingInit
  /\ TrainInventoryInit /\ TrainPricingInit
  /\ part # "departures" => kind = "seater"
  /\ part # "schedules" => trainActive

Next ==
  /\ \/ /\ part = "ledger" /\ LedgerNext
        /\ UNCHANGED <<accountVars, inventoryVars, pricingVars, trainInventoryVars, priceVars>>
     \/ /\ part = "accounts" /\ AccountNext
        /\ UNCHANGED <<ledgerVars, inventoryVars, pricingVars, trainInventoryVars, priceVars>>
     \/ /\ part = "departures" /\ InventoryNext
        /\ UNCHANGED <<ledgerVars, accountVars, pricingVars, trainInventoryVars, priceVars>>
     \/ /\ part = "fares" /\ PricingNext
        /\ UNCHANGED <<ledgerVars, accountVars, inventoryVars, trainInventoryVars, priceVars>>
     \/ /\ part = "schedules" /\ TrainInventoryNext
        /\ UNCHANGED <<ledgerVars, accountVars, inventoryVars, pricingVars, priceVars>>
     \/ /\ part = "berths" /\ TrainPricingNext
        /\ UNCHANGED <<ledgerVars, accountVars, inventoryVars, pricingVars, trainInventoryVars>>
  /\ UNCHANGED part

BackVars ==
  <<ledgerVars, accountVars, inventoryVars, pricingVars, trainInventoryVars, priceVars, part>>

\* The clock advances, cron starts its runs, and a run that was started goes on;
\* so do the requests for a search, and what they have cached runs out.
Fairness ==
  /\ WF_accountVars(part = "accounts" /\ Tick)
  /\ WF_accountVars(part = "accounts" /\ \E r \in Runner : CronRun(r))
  /\ \A r \in Runner : WF_accountVars(part = "accounts" /\ Finalize(r))
  /\ \A r \in Pricer : WF_pricingVars(part = "fares" /\ RunSteps(r))
  /\ WF_priceVars(part = "berths" /\ EngineSteps)
  /\ WF_priceVars(part = "berths" /\ CacheExpires)
  /\ \A q \in Searcher : WF_priceVars(part = "berths" /\ CacheResult(q))

Spec == Init /\ [][Next]_BackVars /\ Fairness

BackTypeOK ==
  /\ LedgerTypeOK /\ AccountingTypeOK /\ InventoryTypeOK
  /\ PricingTypeOK /\ TrainInventoryTypeOK /\ TrainPricingTypeOK

\* Every bus instance and every train schedule that a search can find is whole,
\* whatever runs of the generators overlap, fail or are cut off.
DeparturesAreWhole == SearchableIsWhole /\ SchedulesAreWhole

\* The accounts of the instances that have departed are closed.
AccountsAreClosed == part = "accounts" => SameDayIsClosed

\* No fare and no berth price stays what stale runs have made it.
PricesAreKept ==
  /\ part = "fares" => PricesCatchUp
  /\ part = "berths" => BerthPricesCatchUp

\* Searches come to show what there is, once it changes no more.
StaleSearchesEnd == part = "berths" => SearchesCatchUp
=============================================================================
