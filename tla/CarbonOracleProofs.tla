------------------------- MODULE CarbonOracleProofs -------------------------
(***************************************************************************)
(* The inductive invariant of carbon_oracle, that its freshness answer     *)
(* agrees with the stored data, and the refinement of OracleFeed, for      *)
(* every set of projects, periods, methodologies and prices, every         *)
(* freshness window and lifetime.                                          *)
(***************************************************************************)
EXTENDS CarbonOracle, TimelockProofs

\* A deployed contract satisfies the invariant.
LEMMA OracleInit == Init => OracleInv
<1> SUFFICES ASSUME Init PROVE OracleInv
  OBVIOUS
<1>1. TimelockInv
  BY TimelockInitInv DEF Init
<1>2. OracleTypeOK
  BY <1>1, OracleAssumption DEF Init, OracleTypeOK, TimelockInv
<1>3. LatestIsNewest /\ PricesWithinTTL
  BY DEF Init, LatestIsNewest, PricesWithinTTL
<1> QED
  BY <1>1, <1>2, <1>3 DEF Init, OracleInv, TimelockInv

\* What a write of a positive price does: whether the entry is new, live or
\* expired, it ends up with the whole life, counted from this ledger.
LEMMA WritePriceEffect ==
  ASSUME OracleTypeOK, PricesWithinTTL, NEW k \in Keys, NEW price \in Prices,
         price > 0, WritePrice(k, price)
  PROVE  /\ prices' = [prices EXCEPT
                         ![k] = [price |-> price, liveUntil |-> seq + PriceTTL]]
         /\ [price |-> price, liveUntil |-> seq + PriceTTL] \in BenchmarkPrice
<1> DEFINE entry == TempSet(k, price)
<1>1. /\ seq \in 0 .. MaxSeq
      /\ PriceTTL \in Nat /\ MaxSeq \in Nat
      /\ MinTempTTL \in 1 .. PriceTTL + 1
  BY OracleAssumption DEF OracleTypeOK
<1>2. prices[k] # None => /\ prices[k].liveUntil \in Int
                          /\ prices[k].liveUntil <= seq + PriceTTL
  BY <1>1 DEF OracleTypeOK, BenchmarkPrice, PricesWithinTTL
<1>3. /\ entry.price = price
      /\ entry.liveUntil \in Int
      /\ entry.liveUntil <= seq + PriceTTL
  BY <1>1, <1>2 DEF TempSet, Readable
<1> HIDE DEF entry
<1>4. ExtendTTL(entry, PriceTTL, PriceTTL).price = price
  BY <1>3 DEF ExtendTTL
<1>5. CASE seq + PriceTTL > entry.liveUntil
  <2>1. ExtendTTL(entry, PriceTTL, PriceTTL)
          = [price |-> price, liveUntil |-> seq + PriceTTL]
    BY <1>1, <1>3, <1>5 DEF ExtendTTL
  <2> QED
    BY <1>1, <2>1 DEF WritePrice, entry, BenchmarkPrice
<1>6. CASE seq + PriceTTL = entry.liveUntil
  <2>1. ExtendTTL(entry, PriceTTL, PriceTTL) = entry
    BY <1>1, <1>3, <1>6 DEF ExtendTTL
  <2>2. entry = [price |-> price, liveUntil |-> seq + PriceTTL]
    BY <1>6 DEF entry, TempSet
  <2> QED
    BY <1>1, <2>1, <2>2 DEF WritePrice, entry, BenchmarkPrice
<1> QED
  BY <1>1, <1>3, <1>5, <1>6

\* The part of the invariant about monitoring data, for a submission.
LEMMA SubmissionKeepsNewest ==
  ASSUME OracleInv, NEW a \in Addresses, NEW p \in Projects,
         NEW period \in Periods, NEW tonnes \in Tonnes, NEW score \in Scores,
         SubmitMonitoringData(a, p, period, tonnes, score)
  PROVE  /\ monitoring' \in [Projects -> [Periods -> MonitoringData \cup {None}]]
         /\ latest' \in [Projects -> 0 .. MaxTime \cup {None}]
         /\ LatestIsNewest'
<1> DEFINE data == [tonnes |-> tonnes, score |-> score, submittedAt |-> now]
           row == [monitoring[p] EXCEPT ![period] = data]
<1>1. now \in 0 .. MaxTime /\ now \in Int
  BY DEF OracleInv, OracleTypeOK, TimelockTypeOK
<1>2. data \in MonitoringData /\ data.submittedAt = now /\ data # None
  BY <1>1, OracleRecordAssumption
     DEF SubmitMonitoringData, AssertValidMonitoring, MonitoringData
<1>3. /\ monitoring' = [monitoring EXCEPT ![p] = row]
      /\ latest' = [latest EXCEPT ![p] = now]
      /\ now' = now
  BY DEF SubmitMonitoringData, StampLatest, timelockVars
<1> HIDE DEF data
<1>4. /\ row \in [Periods -> MonitoringData \cup {None}]
      /\ row[period] = data
      /\ \A q \in Periods : q # period => row[q] = monitoring[p][q]
  BY <1>2 DEF OracleInv, OracleTypeOK
<1> HIDE DEF row
<1>5. /\ monitoring' \in [Projects -> [Periods -> MonitoringData \cup {None}]]
      /\ monitoring'[p] = row
      /\ \A r \in Projects : r # p => monitoring'[r] = monitoring[r]
  BY <1>3, <1>4 DEF OracleInv, OracleTypeOK
<1>6. /\ latest' \in [Projects -> 0 .. MaxTime \cup {None}]
      /\ latest'[p] = now
      /\ \A r \in Projects : r # p => latest'[r] = latest[r]
  BY <1>1, <1>3 DEF OracleInv, OracleTypeOK
<1>7. \A q \in Periods : row[q] # None => row[q].submittedAt <= now
  <2> SUFFICES ASSUME NEW q \in Periods, row[q] # None
               PROVE  row[q].submittedAt <= now
    OBVIOUS
  <2>1. CASE q = period
    BY <1>1, <1>2, <1>4, <2>1
  <2>2. CASE q # period
    <3>1. /\ latest[p] # None
          /\ monitoring[p][q].submittedAt <= latest[p]
          /\ latest[p] <= now
      BY <1>4, <2>2 DEF OracleInv, LatestIsNewest
    <3>2. latest[p] \in Int /\ monitoring[p][q].submittedAt \in Int
      BY <1>4, <2>2, <3>1 DEF OracleInv, OracleTypeOK, MonitoringData
    <3> QED
      BY <1>1, <1>4, <2>2, <3>1, <3>2
  <2> QED BY <2>1, <2>2
<1>8. now # None
  BY <1>1, TimelockAssumption
<1>9. LatestIsNewest'
  <2> SUFFICES ASSUME NEW r \in Projects
               PROVE  /\ \A q \in Periods : monitoring'[r][q] # None =>
                           /\ latest'[r] # None
                           /\ monitoring'[r][q].submittedAt <= latest'[r]
                      /\ latest'[r] # None =>
                           /\ latest'[r] <= now'
                           /\ \E q \in Periods :
                                /\ monitoring'[r][q] # None
                                /\ monitoring'[r][q].submittedAt = latest'[r]
    BY DEF LatestIsNewest
  <2>1. CASE r = p
    BY <1>1, <1>2, <1>3, <1>4, <1>5, <1>6, <1>7, <1>8, <2>1
  <2>2. CASE r # p
    BY <1>3, <1>5, <1>6, <2>2 DEF OracleInv, LatestIsNewest
  <2> QED BY <2>1, <2>2
<1> QED
  BY <1>5, <1>6, <1>9

-----------------------------------------------------------------------------
\* The invariant after a step that leaves the monitoring data alone and, of
\* the prices, only writes.
LEMMA KeepsInvariant ==
  ASSUME OracleInv, [TimelockStep]_timelockVars, UNCHANGED <<roles, reportVars>>,
         now' >= now, seq' \in 0 .. MaxSeq, seq' >= seq,
         \/ prices' = prices
         \/ \E k \in Keys, price \in Prices :
              /\ price > 0 /\ WritePrice(k, price) /\ seq' = seq,
         flagged' \subseteq Projects
  PROVE  OracleInv'
<1>1. TimelockInv'
  BY TimelockStepInv DEF OracleInv, OracleTypeOK, TimelockInv
<1>2. /\ now \in Int /\ now' \in Int
      /\ seq \in Int /\ seq' \in Int /\ PriceTTL \in Int
  BY <1>1, OracleAssumption
     DEF TimelockInv, TimelockTypeOK, OracleInv, OracleTypeOK
<1>3. /\ prices' \in [Keys -> BenchmarkPrice \cup {None}]
      /\ PricesWithinTTL'
  <2>1. CASE prices' = prices
    <3>1. \A k \in Keys : prices[k] # None => prices[k].liveUntil \in Int
      BY DEF OracleInv, OracleTypeOK, BenchmarkPrice
    <3> QED
      BY <1>2, <2>1, <3>1 DEF OracleInv, OracleTypeOK, PricesWithinTTL
  <2>2. ASSUME NEW k \in Keys, NEW price \in Prices,
               price > 0, WritePrice(k, price), seq' = seq
        PROVE  /\ prices' \in [Keys -> BenchmarkPrice \cup {None}]
               /\ PricesWithinTTL'
    <3> DEFINE entry == [price |-> price, liveUntil |-> seq + PriceTTL]
    <3>1. prices' = [prices EXCEPT ![k] = entry] /\ entry \in BenchmarkPrice
      BY <2>2, WritePriceEffect DEF OracleInv
    <3>2. entry.liveUntil <= seq' + PriceTTL
      BY <1>2, <2>2
    <3> HIDE DEF entry
    <3>3. /\ prices' \in [Keys -> BenchmarkPrice \cup {None}]
          /\ prices'[k] = entry
          /\ \A j \in Keys : j # k => prices'[j] = prices[j]
      BY <3>1 DEF OracleInv, OracleTypeOK
    <3> QED
      BY <2>2, <3>2, <3>3 DEF OracleInv, PricesWithinTTL
  <2> QED BY <2>1, <2>2
<1>4. LatestIsNewest'
  <2>1. \A p \in Projects : latest[p] # None => latest[p] \in Int
    BY DEF OracleInv, OracleTypeOK
  <2> QED
    BY <1>2, <2>1 DEF OracleInv, LatestIsNewest, reportVars
<1>5. OracleTypeOK'
  BY <1>1, <1>3 DEF OracleInv, OracleTypeOK, TimelockInv, roles, reportVars
<1> QED
  BY <1>1, <1>3, <1>4, <1>5 DEF OracleInv, TimelockInv, roles

\* The operations of the time-lock, but for the proposal.
Procedure ==
  \/ \E a \in Addresses, o \in OpIds : \/ ExecutePriceUpdate(a, o)
                                       \/ Rollback(a, o)
  \/ \E o \in OpIds : Contest(o)
  \/ \E a \in Addresses, d \in Delays : SetDelay(a, d)

\* A step of the time-lock alone.
LEMMA ProcedureIsTimelock ==
  ASSUME Procedure
  PROVE  /\ TimelockStep
         /\ UNCHANGED <<now, roles, reportVars, prices, flagged, seq>>
<1>1. UNCHANGED <<now, roles, reportVars, prices, flagged, seq>>
  BY DEF Procedure, ExecutePriceUpdate, Rollback, Contest, SetDelay,
         ExecuteOp, RollbackOperation, ContestOperation, SetTimelockDelay
<1>2. TimelockStep
  BY DEF Procedure, ExecutePriceUpdate, Rollback, Contest, SetDelay,
         TimelockStep
<1> QED
  BY <1>1, <1>2

\* A step that writes a price, at once or with a proposal.
Pricing(k, price) ==
  \E a \in Addresses :
    \/ UpdateCreditPrice(a, k, price)
    \/ \E o \in OpIds : ProposePriceUpdate(a, o, k, price)

LEMMA PricingEffect ==
  ASSUME NEW k \in Keys, NEW price \in Prices, Pricing(k, price)
  PROVE  /\ price > 0
         /\ WritePrice(k, price)
         /\ [TimelockStep]_timelockVars
         /\ UNCHANGED <<now, roles, reportVars, flagged, seq>>
<1>1. k[1] \in Payloads
  BY DEF Keys, Methodologies
<1>2. CASE \E a \in Addresses : UpdateCreditPrice(a, k, price)
  BY <1>2 DEF UpdateCreditPrice, timelockVars
<1>3. CASE \E a \in Addresses, o \in OpIds : ProposePriceUpdate(a, o, k, price)
  BY <1>1, <1>3 DEF ProposePriceUpdate, ProposeOp, TimelockStep
<1> QED
  BY <1>2, <1>3 DEF Pricing

\* Seconds from one ledger to a later one.
LEMMA Elapsed ==
  \A max \in Nat : \A n \in 0 .. max : \A m \in (n + 1) .. max :
    m \in Int /\ m >= n /\ m - n \in 1 .. max
  OBVIOUS

\* What a ledger that closes does to the two clocks.
LEMMA CloseLedgerEffect ==
  ASSUME OracleInv, CloseLedger
  PROVE  /\ TimelockStep
         /\ seq' = seq + 1 /\ seq' \in 0 .. MaxSeq
         /\ now' \in Int /\ now' >= now
         /\ now' - now \in 1 .. MaxTime
         /\ UNCHANGED <<roles, reportVars, prices, flagged>>
<1>1. /\ now \in 0 .. MaxTime /\ MaxTime \in Nat
      /\ seq \in 0 .. MaxSeq /\ MaxSeq \in Nat
  BY TimelockAssumption, OracleAssumption
     DEF OracleInv, OracleTypeOK, TimelockTypeOK, U64
<1>2. /\ Tick
      /\ seq < MaxSeq /\ seq' = seq + 1
      /\ UNCHANGED <<roles, reportVars, prices, flagged>>
  BY DEF CloseLedger
<1>3. now' \in (now + 1) .. MaxTime
  BY <1>2 DEF Tick
<1>4. now' \in Int /\ now' >= now /\ now' - now \in 1 .. MaxTime
  BY <1>1, <1>3, Elapsed
<1>5. seq' \in 0 .. MaxSeq
  BY <1>1, <1>2
<1>6. TimelockStep
  BY <1>2 DEF TimelockStep
<1> QED
  BY <1>2, <1>4, <1>5, <1>6

-----------------------------------------------------------------------------
\* Every step preserves the invariant.
LEMMA OracleStep == OracleInv /\ [Next]_vars => OracleInv'
<1> SUFFICES ASSUME OracleInv, [Next]_vars PROVE OracleInv'
  OBVIOUS
<1>1. seq \in 0 .. MaxSeq /\ now \in Int /\ flagged \subseteq Projects
  BY DEF OracleInv, OracleTypeOK, TimelockTypeOK
<1>2. ASSUME NEW a \in Addresses, NEW oracle \in Addresses,
             Initialize(a, oracle)
      PROVE  OracleInv'
  <2>1. a # None
    BY OracleAssumption
  <2>2. OracleTypeOK' /\ ContestsInWindow'
    BY <1>2 DEF Initialize, OracleInv, OracleTypeOK, TimelockTypeOK,
                ContestsInWindow, timelockVars, reportVars
  <2>3. LatestIsNewest' /\ PricesWithinTTL'
    BY <1>2 DEF Initialize, OracleInv, LatestIsNewest, PricesWithinTTL,
                timelockVars, reportVars
  <2> QED
    BY <1>2, <2>1, <2>2, <2>3 DEF Initialize, OracleInv
<1>3. ASSUME NEW a \in Addresses, NEW p \in Projects, NEW q \in Periods,
             NEW t \in Tonnes, NEW s \in Scores,
             SubmitMonitoringData(a, p, q, t, s)
      PROVE  OracleInv'
  <2>1. UNCHANGED <<timelockVars, roles, prices, flagged, seq>>
    BY <1>3 DEF SubmitMonitoringData
  <2>2. OracleTypeOK' /\ ContestsInWindow'
    BY <1>3, <2>1, SubmissionKeepsNewest
       DEF OracleInv, OracleTypeOK, TimelockTypeOK, ContestsInWindow,
           timelockVars, roles
  <2>3. PricesWithinTTL' /\ (admin = None => oracleAddress = None)'
    BY <2>1 DEF OracleInv, PricesWithinTTL, roles
  <2> QED
    BY <1>3, <2>2, <2>3, SubmissionKeepsNewest DEF OracleInv
<1>4. ASSUME NEW a \in Addresses, NEW p \in Projects, FlagProject(a, p)
      PROVE  OracleInv'
  <2>1. UNCHANGED <<timelockVars, roles, reportVars, prices, seq>>
    BY <1>4 DEF FlagProject
  <2>2. flagged' \subseteq Projects
    BY <1>1, <1>4 DEF FlagProject
  <2>3. now' = now
    BY <2>1 DEF timelockVars
  <2> QED
    BY <1>1, <2>1, <2>2, <2>3, KeepsInvariant
<1>5. ASSUME NEW k \in Keys, NEW price \in Prices, Pricing(k, price)
      PROVE  OracleInv'
  BY <1>1, <1>5, PricingEffect, KeepsInvariant
<1>6. CASE Procedure
  BY <1>1, <1>6, ProcedureIsTimelock, KeepsInvariant
<1>7. CASE CloseLedger
  <2>1. now' >= now /\ seq' >= seq
    BY <1>1, <1>7, CloseLedgerEffect
  <2> QED
    BY <1>1, <1>7, <2>1, CloseLedgerEffect, KeepsInvariant
<1>8. CASE UNCHANGED vars
  <2>1. /\ UNCHANGED <<timelockVars, roles, reportVars, prices, flagged, seq>>
        /\ now' = now
    BY <1>8 DEF vars, timelockVars
  <2> QED
    BY <1>1, <2>1, KeepsInvariant
<1> QED
  BY <1>2, <1>3, <1>4, <1>5, <1>6, <1>7, <1>8
     DEF Next, Feeding, Governance, Procedure, Pricing

\* The inductive invariant holds in every reachable state: the newest
\* submission is on record, prices live no longer than one quoted now.
THEOREM OracleInvariant == Spec => []OracleInv
  BY OracleInit, OracleStep, PTL DEF Spec

\* is_monitoring_current agrees with the data of all periods.
THEOREM FreshnessIsExact == Spec => []FreshnessMatchesData
<1>1. OracleInv => FreshnessMatchesData
  <2> SUFFICES ASSUME OracleInv, NEW p \in Projects
               PROVE  IsMonitoringCurrent(p) <=>
                        \E q \in Periods :
                          /\ monitoring[p][q] # None
                          /\ now - monitoring[p][q].submittedAt <= Freshness
    BY DEF FreshnessMatchesData
  <2>1. now \in Int /\ Freshness \in Int
    BY OracleAssumption DEF OracleInv, OracleTypeOK, TimelockTypeOK
  <2>2. latest[p] # None => latest[p] \in Int
    BY DEF OracleInv, OracleTypeOK
  <2>3. \A q \in Periods : monitoring[p][q] # None =>
          /\ monitoring[p][q].submittedAt \in Int
          /\ latest[p] # None
          /\ monitoring[p][q].submittedAt <= latest[p]
    BY DEF OracleInv, OracleTypeOK, MonitoringData, LatestIsNewest
  <2>4. latest[p] # None => \E q \in Periods :
          monitoring[p][q] # None /\ monitoring[p][q].submittedAt = latest[p]
    BY DEF OracleInv, LatestIsNewest
  <2> QED
    BY <2>1, <2>2, <2>3, <2>4 DEF IsMonitoringCurrent
<1> QED
  BY <1>1, OracleInvariant, PTL

-----------------------------------------------------------------------------
\* The steps of OracleFeed that the steps of the contract are.

LEMMA QuotesOnly ==
  ASSUME UNCHANGED <<prices, seq>> PROVE UNCHANGED QuoteOf
  BY DEF QuoteOf, Readable

LEMMA ReportsOnly ==
  ASSUME UNCHANGED <<latest, now>> PROVE UNCHANGED ReportOf
  BY DEF ReportOf

\* update_credit_price and propose_price_update quote a price of age 0.
LEMMA PricingRefines ==
  ASSUME OracleInv, NEW k \in Keys, NEW price \in Prices, Pricing(k, price)
  PROVE  Feed!Quote(k, price)
<1> DEFINE entry == [price |-> price, liveUntil |-> seq + PriceTTL]
<1>1. /\ prices' = [prices EXCEPT ![k] = entry]
      /\ entry \in BenchmarkPrice
      /\ price > 0
      /\ UNCHANGED <<now, latest, seq>>
  BY PricingEffect, WritePriceEffect DEF OracleInv, reportVars
<1>2. seq \in Int /\ PriceTTL \in Nat
  BY OracleAssumption DEF OracleInv, OracleTypeOK
<1>3. entry.price = price /\ entry.liveUntil = seq + PriceTTL /\ entry # None
  BY <1>1, OracleRecordAssumption
<1> HIDE DEF entry
<1>4. /\ prices'[k] = entry
      /\ \A j \in Keys : j # k => prices'[j] = prices[j]
  BY <1>1 DEF OracleInv, OracleTypeOK
<1>5. Readable(k)' /\ \A j \in Keys : j # k => (Readable(j)' <=> Readable(j))
  BY <1>1, <1>2, <1>3, <1>4 DEF Readable
<1>6. PriceTTL - (entry.liveUntil - seq') = 0
  BY <1>1, <1>2, <1>3
<1>7. QuoteOf'[k] = [price |-> price, age |-> 0]
  BY <1>3, <1>4, <1>5, <1>6 DEF QuoteOf
<1>8. \A j \in Keys : j # k => QuoteOf'[j] = QuoteOf[j]
  BY <1>1, <1>4, <1>5 DEF QuoteOf
<1>9. QuoteOf' = [QuoteOf EXCEPT ![k] = [price |-> price, age |-> 0]]
  BY <1>7, <1>8 DEF QuoteOf
<1> QED
  BY <1>1, <1>9, ReportsOnly DEF Feed!Quote

\* submit_monitoring_data, for whichever period, is a report of age 0.
LEMMA SubmissionRefines ==
  ASSUME OracleInv, NEW a \in Addresses, NEW p \in Projects,
         NEW q \in Periods, NEW t \in Tonnes, NEW s \in Scores,
         SubmitMonitoringData(a, p, q, t, s)
  PROVE  Feed!Report(p)
<1>1. /\ latest' = [latest EXCEPT ![p] = now]
      /\ UNCHANGED <<now, prices, seq>>
  BY DEF SubmitMonitoringData, StampLatest, timelockVars
<1>2. now \in Int /\ now # None /\ now - now = 0
  BY TimelockAssumption DEF OracleInv, OracleTypeOK, TimelockTypeOK
<1>3. ReportOf' = [ReportOf EXCEPT ![p] = 0]
  BY <1>1, <1>2 DEF ReportOf, OracleInv, OracleTypeOK
<1> QED
  BY <1>1, <1>3, QuotesOnly DEF Feed!Report

\* A ledger that closes makes every readable price a ledger older, or ends its
\* life, and every report older by the seconds that passed.
LEMMA CloseLedgerRefines ==
  ASSUME OracleInv, CloseLedger
  PROVE  Feed!Age(now' - now)
<1>1. /\ UNCHANGED <<prices, latest>>
      /\ seq' = seq + 1
      /\ now' - now \in 1 .. MaxTime
  BY CloseLedgerEffect DEF reportVars
<1>2. seq \in Int /\ PriceTTL \in Nat /\ now \in Int /\ now' \in Int
  BY TimelockAssumption, OracleAssumption
     DEF OracleInv, OracleTypeOK, TimelockTypeOK, CloseLedger, Tick, U64
<1>3. ASSUME NEW k \in Keys
      PROVE  QuoteOf'[k] = Feed!Aged(QuoteOf[k])
  <2>1. prices[k] # None => prices[k].liveUntil \in Int
    BY DEF OracleInv, OracleTypeOK, BenchmarkPrice
  <2>2. CASE prices[k] = None
    BY <1>1, <2>2 DEF QuoteOf, Readable, Feed!Aged
  <2>3. CASE prices[k] # None /\ prices[k].liveUntil > seq
    <3>1. /\ Readable(k) /\ Readable(k)'
          /\ QuoteOf[k].age < PriceTTL
          /\ PriceTTL - (prices[k].liveUntil - seq') = QuoteOf[k].age + 1
      BY <1>1, <1>2, <2>1, <2>3 DEF Readable, QuoteOf
    <3>2. QuoteOf[k] # None
      <4>1. /\ QuoteOf[k] = [price |-> prices[k].price,
                             age |-> PriceTTL - (prices[k].liveUntil - seq)]
            /\ prices[k].price \in Prices
        BY <2>3, <3>1 DEF QuoteOf, OracleInv, OracleTypeOK, BenchmarkPrice
      <4>2. PriceTTL - (prices[k].liveUntil - seq) \in 0 .. PriceTTL
        BY <1>2, <2>1, <2>3 DEF OracleInv, PricesWithinTTL
      <4> QED
        BY <4>1, <4>2, OracleRecordAssumption
    <3> QED
      BY <1>1, <3>1, <3>2 DEF QuoteOf, Feed!Aged
  <2>4. CASE prices[k] # None /\ prices[k].liveUntil = seq
    <3>1. /\ Readable(k) /\ ~Readable(k)'
          /\ ~(QuoteOf[k].age < PriceTTL)
      BY <1>1, <1>2, <2>1, <2>4 DEF Readable, QuoteOf
    <3> QED
      BY <3>1 DEF QuoteOf, Feed!Aged
  <2>5. CASE prices[k] # None /\ prices[k].liveUntil < seq
    BY <1>1, <1>2, <2>1, <2>5 DEF Readable, QuoteOf, Feed!Aged
  <2> QED
    BY <1>2, <2>1, <2>2, <2>3, <2>4, <2>5
<1>4. ASSUME NEW p \in Projects
      PROVE  ReportOf'[p] = IF ReportOf[p] = None
                              THEN None ELSE ReportOf[p] + (now' - now)
  <2>1. latest[p] # None => latest[p] \in Int
    BY DEF OracleInv, OracleTypeOK
  <2>2. CASE latest[p] = None
    BY <1>1, <2>2 DEF ReportOf
  <2>3. CASE latest[p] # None
    <3>1. now - latest[p] \in Int /\ now - latest[p] # None
      BY <1>2, <2>1, <2>3, TimelockAssumption
    <3>2. now' - latest[p] = (now - latest[p]) + (now' - now)
      BY <1>2, <2>1, <2>3
    <3> QED
      BY <1>1, <2>3, <3>1, <3>2 DEF ReportOf
  <2> QED BY <2>2, <2>3
<1>5. QuoteOf' = [k \in Keys |-> Feed!Aged(QuoteOf[k])]
  BY <1>3 DEF QuoteOf
<1>6. ReportOf' = [p \in Projects |-> IF ReportOf[p] = None
                                        THEN None ELSE ReportOf[p] + (now' - now)]
  BY <1>4 DEF ReportOf
<1> QED
  BY <1>5, <1>6 DEF Feed!Age

\* The contract implements OracleFeed: no price is readable that was not
\* quoted in the last PriceTTL ledgers, whatever was quoted before it.
THEOREM ImplementsOracleFeed == Spec => FeedSpec
<1>1. Init => Feed!Init
  BY DEF Init, Feed!Init, QuoteOf, ReportOf, Readable
<1>2. OracleInv /\ [Next]_vars => [Feed!Next]_(Feed!vars)
  <2> SUFFICES ASSUME OracleInv, [Next]_vars
               PROVE  [Feed!Next]_(Feed!vars)
    OBVIOUS
  <2>1. ASSUME UNCHANGED <<now, latest, prices, seq>>
        PROVE  UNCHANGED Feed!vars
    BY <2>1, QuotesOnly, ReportsOnly DEF Feed!vars
  <2>2. ASSUME NEW a \in Addresses, NEW oracle \in Addresses,
               Initialize(a, oracle)
        PROVE  UNCHANGED Feed!vars
    BY <2>1, <2>2 DEF Initialize, timelockVars, reportVars
  <2>3. ASSUME NEW a \in Addresses, NEW p \in Projects, NEW q \in Periods,
               NEW t \in Tonnes, NEW s \in Scores,
               SubmitMonitoringData(a, p, q, t, s)
        PROVE  Feed!Next
    BY <2>3, SubmissionRefines DEF Feed!Next
  <2>4. ASSUME NEW a \in Addresses, NEW p \in Projects, FlagProject(a, p)
        PROVE  UNCHANGED Feed!vars
    BY <2>1, <2>4 DEF FlagProject, timelockVars, reportVars
  <2>5. ASSUME NEW k \in Keys, NEW price \in Prices, Pricing(k, price)
        PROVE  Feed!Next
    BY <2>5, PricingRefines DEF Feed!Next
  <2>6. CASE Procedure
    BY <2>1, <2>6, ProcedureIsTimelock DEF reportVars
  <2>7. CASE CloseLedger
    BY <2>7, CloseLedgerRefines, CloseLedgerEffect DEF Feed!Next
  <2>8. CASE UNCHANGED vars
    BY <2>1, <2>8 DEF vars, timelockVars, reportVars
  <2> QED
    BY <2>2, <2>3, <2>4, <2>5, <2>6, <2>7, <2>8
       DEF Next, Feeding, Governance, Procedure, Pricing
<1> QED
  BY <1>1, <1>2, OracleInit, OracleStep, PTL DEF Spec, FeedSpec, Feed!Spec

-----------------------------------------------------------------------------
\* The price updates keep the promise of the time-lock.
THEOREM OracleContestWindow == Spec => ContestWindowSpec
<1>1. Init => TimelockInit
  BY DEF Init
<1>2. OracleInv /\ [Next]_vars => [TimelockStep]_timelockVars
  <2> SUFFICES ASSUME OracleInv, [Next]_vars
               PROVE  [TimelockStep]_timelockVars
    OBVIOUS
  <2>1. CASE Feeding
    BY <2>1 DEF Feeding, Initialize, SubmitMonitoringData, FlagProject,
                UpdateCreditPrice
  <2>2. ASSUME NEW k \in Keys, NEW price \in Prices, Pricing(k, price)
        PROVE  [TimelockStep]_timelockVars
    BY <2>2, PricingEffect
  <2>3. CASE Procedure
    BY <2>3, ProcedureIsTimelock
  <2>4. CASE CloseLedger
    BY <2>4, CloseLedgerEffect
  <2>5. CASE UNCHANGED vars
    BY <2>5 DEF vars
  <2> QED
    BY <2>1, <2>2, <2>3, <2>4, <2>5
       DEF Next, Governance, Pricing, Procedure
<1>3. OracleInv => TimelockInv
  BY DEF OracleInv, OracleTypeOK, TimelockInv
<1>4. TimelockInit => Window!WindowInit
  BY TimelockInitRefines
<1>5. TimelockInv /\ [TimelockStep]_timelockVars => [Window!WindowNext]_StageOf
  BY TimelockStepRefines
<1> QED
  BY <1>1, <1>2, <1>3, <1>4, <1>5, OracleInit, OracleStep, PTL
     DEF Spec, ContestWindowSpec, Window!WindowSpec
=============================================================================
