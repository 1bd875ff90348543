------------------------- MODULE BusAccountingProofs -------------------------
(***************************************************************************)
(* Theorems about BusAccounting, for any instances, departures and number  *)
(* of runs at a time.                                                      *)
(***************************************************************************)
EXTENDS BusAccounting, TLAPS

\* A recorded loss is between nothing and everything that was spent.
LEMMA ShortfallType ==
  ASSUME NEW earned \in Nat
  PROVE  Shortfall(earned) \in 0..Spend
  BY AccountingAssumption DEF Shortfall

\* The rows a run fetches are of instances that have left.
LEMMA FetchedHaveLeft ==
  ASSUME AccountingTypeOK, NEW r \in Runner, Fetch(r), NEW q \in Runner,
         NEW row \in read'[q]
  PROVE  \/ row \in read[q]
         \/ /\ row \in [inst : Instance, profit : 0..MaxProfit]
            /\ Departure[row.inst] <= now
  <1>1. CASE q = r
    BY <1>1 DEF Fetch, DepartedToday, AccountingTypeOK
  <1>2. CASE q # r
    BY <1>2 DEF Fetch, AccountingTypeOK
  <1>3. QED
    BY <1>1, <1>2

\* The inductive invariant.
AccountInv == AccountingTypeOK /\ ClosedAfterDeparture

LEMMA InitAccountInv == AccountInit => AccountInv
  <1> SUFFICES ASSUME AccountInit PROVE AccountInv
    OBVIOUS
  <1>1. ClosedAfterDeparture
    BY DEF AccountInit, ClosedAfterDeparture
  <1>2. now \in 0..Horizon /\ finalized \subseteq Instance /\ missed \subseteq Instance
    BY AccountingAssumption, SMT DEF AccountInit
  <1>3. profit \in [Instance -> 0..MaxProfit]
    BY AccountingAssumption DEF AccountInit
  <1>4. loss \in [Instance -> 0..Spend]
    BY AccountingAssumption DEF AccountInit
  <1>5. read \in [Runner -> SUBSET [inst : Instance, profit : 0..MaxProfit]]
    BY DEF AccountInit
  <1>6. up \in BOOLEAN /\ due \in BOOLEAN
    BY Zenon DEF AccountInit
  <1>7. QED
    BY <1>1, <1>2, <1>3, <1>4, <1>5, <1>6 DEF AccountInv, AccountingTypeOK

\* What the query finds are instances.
LEMMA DepartedAreInstances == DepartedToday \subseteq Instance /\ DepartedToday' \subseteq Instance
  BY DEF DepartedToday

LEMMA NextAccountInv ==
  ASSUME AccountInv, [AccountNext]_accountVars
  PROVE  AccountInv'
  <1> USE AccountingAssumption DEF AccountInv
  <1>1. CASE Tick
    <2>1. missed' \subseteq Instance
      BY <1>1, DepartedAreInstances DEF Tick, AccountingTypeOK
    <2>2. AccountingTypeOK'
      BY <1>1, <2>1 DEF Tick, AccountingTypeOK
    <2>3. ClosedAfterDeparture'
      BY <1>1 DEF Tick, AccountingTypeOK, ClosedAfterDeparture
    <2>4. QED
      BY <2>2, <2>3
  <1>2. ASSUME NEW r \in Runner, CronRun(r) \/ BootRun(r)
        PROVE  AccountInv'
    <2>1. /\ Fetch(r) /\ due' \in BOOLEAN /\ missed' \subseteq Instance
          /\ UNCHANGED <<now, up, profit, loss, finalized>>
      BY <1>2 DEF CronRun, BootRun, Fetch, AccountingTypeOK
    <2>2. read' \in [Runner -> SUBSET [inst : Instance, profit : 0..MaxProfit]]
      <3>1. \E f : read' = [read EXCEPT ![r] = f]
        BY <2>1 DEF Fetch
      <3>2. \A q \in Runner : read'[q] \subseteq [inst : Instance, profit : 0..MaxProfit]
        BY <2>1, FetchedHaveLeft DEF AccountingTypeOK
      <3>3. QED
        BY <3>1, <3>2 DEF AccountingTypeOK
    <2>3. AccountingTypeOK'
      BY <2>1, <2>2 DEF AccountingTypeOK
    <2>4. ClosedAfterDeparture'
      BY <2>1, FetchedHaveLeft DEF ClosedAfterDeparture
    <2>5. QED
      BY <2>3, <2>4
  <1>3. ASSUME NEW r \in Runner, Finalize(r)
        PROVE  AccountInv'
    <2>1. PICK row \in read[r] :
            /\ \/ /\ loss' = [loss EXCEPT ![row.inst] = Shortfall(row.profit)]
                  /\ finalized' = finalized \cup {row.inst}
                  /\ UNCHANGED missed
               \/ /\ missed' = missed \cup {row.inst}
                  /\ UNCHANGED <<loss, finalized>>
            /\ read' = [read EXCEPT ![r] = @ \ {row}]
      BY <1>3 DEF Finalize
    <2>2. row.inst \in Instance /\ row.profit \in Nat
      BY <2>1 DEF AccountingTypeOK
    <2>3. Departure[row.inst] <= now
      BY <2>1, <2>2 DEF ClosedAfterDeparture
    <2>4. UNCHANGED <<now, up, due, profit>>
      BY <1>3 DEF Finalize
    <2>5. loss' \in [Instance -> 0..Spend]
      BY <2>1, <2>2, ShortfallType DEF AccountingTypeOK
    <2>6. finalized' \in {finalized, finalized \cup {row.inst}} /\ missed' \subseteq Instance
      BY <2>1, <2>2 DEF AccountingTypeOK
    <2>7. AccountingTypeOK'
      BY <2>1, <2>2, <2>4, <2>5, <2>6 DEF AccountingTypeOK
    <2>8. ClosedAfterDeparture'
      BY <2>1, <2>2, <2>3, <2>4, <2>6 DEF ClosedAfterDeparture, AccountingTypeOK
    <2>9. QED
      BY <2>7, <2>8
  <1>4. ASSUME NEW i \in Instance, AddProfit(i) \/ SubtractProfit(i)
        PROVE  AccountInv'
    <2>1. AccountingTypeOK'
      BY <1>4 DEF AddProfit, SubtractProfit, AccountingTypeOK
    <2>2. ClosedAfterDeparture'
      BY <1>4 DEF AddProfit, SubtractProfit, ClosedAfterDeparture
    <2>3. QED
      BY <2>1, <2>2
  <1>5. CASE UNCHANGED accountVars
    BY <1>5 DEF accountVars, AccountingTypeOK, ClosedAfterDeparture
  <1>6. CASE FetchFails \/ ServiceStarts
    <2>1. AccountingTypeOK'
      BY <1>6, DepartedAreInstances DEF FetchFails, ServiceStarts, AccountingTypeOK
    <2>2. ClosedAfterDeparture'
      BY <1>6 DEF FetchFails, ServiceStarts, ClosedAfterDeparture
    <2>3. QED
      BY <2>1, <2>2
  <1>7. CASE ServiceStops
    <2>1. {row.inst : row \in UNION {read[r] : r \in Runner}} \subseteq Instance
      BY DEF AccountingTypeOK
    <2>2. missed' \subseteq Instance
      BY <1>7, <2>1, DepartedAreInstances DEF ServiceStops, AccountingTypeOK
    <2>3. AccountingTypeOK'
      BY <1>7, <2>2 DEF ServiceStops, AccountingTypeOK
    <2>4. ClosedAfterDeparture'
      BY <1>7 DEF ServiceStops, ClosedAfterDeparture
    <2>5. QED
      BY <2>3, <2>4
  <1>8. QED
    BY <1>1, <1>2, <1>3, <1>4, <1>5, <1>6, <1>7 DEF AccountNext

LEMMA AccountInvHolds == AccountSpec => []AccountInv
  BY InitAccountInv, NextAccountInv, PTL DEF AccountSpec

\* Profits, losses and fetched rows stay within their bounds.
THEOREM AccountTypeOK == AccountSpec => []AccountingTypeOK
  <1>1. AccountInv => AccountingTypeOK
    BY DEF AccountInv
  <1>2. QED
    BY <1>1, AccountInvHolds, PTL

\* No run of the job, started by the clock or by the service's start, closes the
\* account of a bus that has not left.
THEOREM NoneClosedEarly == AccountSpec => []ClosedAfterDeparture
  <1>1. AccountInv => ClosedAfterDeparture
    BY DEF AccountInv
  <1>2. QED
    BY <1>1, AccountInvHolds, PTL
=============================================================================
