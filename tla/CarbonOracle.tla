---------------------------- MODULE CarbonOracle ----------------------------
(***************************************************************************)
(* The carbon_oracle contract: monitoring data by project and period, the  *)
(* freshness of a project's data, benchmark prices that expire, flags, and *)
(* the time-locked price update.                                           *)
(*                                                                         *)
(* One action is one successful invocation, as in CarbonCredit.  Prices    *)
(* live in the host's temporary storage, whose lifetimes are counted in    *)
(* ledgers, while freshness and the time-lock count seconds: a ledger that *)
(* closes advances both clocks, by one and by any number of seconds.       *)
(*                                                                         *)
(* Left out: names, reasons and CIDs, which are only required not to be    *)
(* empty; the warning event of a low score.  Of a pending operation the    *)
(* methodology is kept, its target; the vintage and the new price are not  *)
(* in it.                                                                  *)
(***************************************************************************)
EXTENDS Timelock

CONSTANTS
  Addresses,
  Projects,
  Periods,
  Tonnes,        \* i128 arguments, zero and negative ones included
  Scores,        \* u32 arguments, valid and not
  Vintages,
  Prices,        \* i128 arguments, zero and negative ones included
  Freshness,     \* MONITORING_FRESHNESS_SECS, 31536000 in the code
  PriceTTL,      \* PRICE_CACHE_TTL_LEDGERS, 17280 in the code
  MinTempTTL,    \* the network's shortest life of a temporary entry
  MaxSeq         \* bound of the model: the number of the last ledger

\* What a pending operation carries is the methodology it is about.
Methodologies == Payloads

ASSUME OracleAssumption ==
  /\ None \notin Addresses
  /\ Tonnes \subseteq Int
  /\ Scores \subseteq Nat
  /\ Prices \subseteq Int
  /\ Freshness \in Nat
  /\ PriceTTL \in Nat
  /\ MinTempTTL \in 1 .. PriceTTL + 1
  /\ MaxSeq \in Nat

VARIABLES
  admin,          \* DataKey::Admin
  oracleAddress,  \* DataKey::OracleAddress
  monitoring,     \* DataKey::MonitoringData
  latest,         \* DataKey::LatestMonitoring
  prices,         \* DataKey::BenchmarkPrice, with the life of the entry
  flagged,        \* DataKey::FlaggedProject, as a set
  seq             \* env.ledger().sequence()

roles == <<admin, oracleAddress>>
reportVars == <<monitoring, latest>>
vars == <<timelockVars, roles, reportVars, prices, flagged, seq>>

Keys == Methodologies \X Vintages

MonitoringData ==
  [tonnes : {t \in Tonnes : t > 0}, score : {s \in Scores : s <= 100},
   submittedAt : 0 .. MaxTime]

\* A temporary entry can be read up to the ledger liveUntil.
BenchmarkPrice ==
  [price : {x \in Prices : x > 0}, liveUntil : 0 .. MaxSeq + PriceTTL]

ASSUME OracleRecordAssumption ==
  /\ None \notin MonitoringData
  /\ None \notin BenchmarkPrice
  /\ None \notin [price : Prices, age : 0 .. PriceTTL]

Init ==
  /\ TimelockInit
  /\ admin = None
  /\ oracleAddress = None
  /\ monitoring = [p \in Projects |-> [q \in Periods |-> None]]
  /\ latest = [p \in Projects |-> None]
  /\ prices = [k \in Keys |-> None]
  /\ flagged = {}
  /\ seq = 0

-----------------------------------------------------------------------------
RequireOracle(caller) == oracleAddress = caller

\* Mutation: only the tonnes are validated.
AssertValidMonitoringTonnes(tonnes, score) == tonnes > 0

AssertValidMonitoring(tonnes, score) == tonnes > 0 /\ score <= 100

\* Mutation: any data counts, however old.
IsMonitoringCurrentEver(p) == latest[p] # None

\* is_monitoring_current; the difference is never negative, as the clock does
\* not go back.
IsMonitoringCurrent(p) ==
  latest[p] # None /\ now - latest[p] <= Freshness

\* Mutation: the price is kept in persistent storage.
ReadableForever(k) == prices[k] # None

\* get_benchmark_price finds a price: the entry has not expired.
Readable(k) == prices[k] # None /\ prices[k].liveUntil >= seq

\* temporary().set: a new entry gets the shortest life, a live one keeps its.
TempSet(k, price) ==
  [price |-> price,
   liveUntil |-> IF Readable(k) THEN prices[k].liveUntil
                                ELSE seq + MinTempTTL - 1]

\* temporary().extend_ttl: entries with more than threshold ledgers to live
\* are left alone, and no life is made shorter.
ExtendTTL(entry, threshold, extendTo) ==
  IF entry.liveUntil - seq <= threshold /\ seq + extendTo > entry.liveUntil
    THEN [price |-> entry.price, liveUntil |-> seq + extendTo]
    ELSE entry

\* Mutation: the life is extended only when it is about to end.
WritePriceLate(k, price) ==
  prices' = [prices EXCEPT ![k] = ExtendTTL(TempSet(k, price), 0, PriceTTL)]

\* The two calls that update_credit_price and propose_price_update make.
WritePrice(k, price) ==
  prices' =
    [prices EXCEPT ![k] = ExtendTTL(TempSet(k, price), PriceTTL, PriceTTL)]

-----------------------------------------------------------------------------
Initialize(a, oracle) ==
  /\ admin = None
  /\ admin' = a
  /\ oracleAddress' = oracle
  /\ UNCHANGED <<timelockVars, reportVars, prices, flagged, seq>>

\* Mutation: the time of the first submission is kept.
StampLatestOnce(p) ==
  latest' = [latest EXCEPT ![p] = IF latest[p] = None THEN now ELSE latest[p]]

StampLatest(p) == latest' = [latest EXCEPT ![p] = now]

\* Data for a period that has some replaces it.
SubmitMonitoringData(caller, p, period, tonnes, score) ==
  /\ RequireOracle(caller)
  /\ AssertValidMonitoring(tonnes, score)
  /\ monitoring' =
       [monitoring EXCEPT ![p][period] =
          [tonnes |-> tonnes, score |-> score, submittedAt |-> now]]
  /\ StampLatest(p)
  /\ UNCHANGED <<timelockVars, roles, prices, flagged, seq>>

UpdateCreditPrice(caller, k, price) ==
  /\ RequireOracle(caller)
  /\ price > 0
  /\ WritePrice(k, price)
  /\ UNCHANGED <<timelockVars, roles, reportVars, flagged, seq>>

\* No operation removes a flag.
FlagProject(caller, p) ==
  /\ RequireOracle(caller)
  /\ flagged' = flagged \cup {p}
  /\ UNCHANGED <<timelockVars, roles, reportVars, prices, seq>>

-----------------------------------------------------------------------------
\* The price is written at once, under the key that is read.
ProposePriceUpdate(caller, o, k, price) ==
  /\ RequireOracle(caller)
  /\ price > 0
  /\ ProposeOp(o, k[1])
  /\ WritePrice(k, price)
  /\ UNCHANGED <<roles, reportVars, flagged, seq>>

\* No price is written, and none is read.
ExecutePriceUpdate(caller, o) ==
  /\ RequireOracle(caller)
  /\ ExecuteOp(o)
  /\ UNCHANGED <<roles, reportVars, prices, flagged, seq>>

Contest(o) ==
  /\ ContestOperation(o)
  /\ UNCHANGED <<roles, reportVars, prices, flagged, seq>>

Rollback(caller, o) ==
  /\ RequireOracle(caller)
  /\ RollbackOperation(o)
  /\ UNCHANGED <<roles, reportVars, prices, flagged, seq>>

SetDelay(caller, d) ==
  /\ RequireOracle(caller)
  /\ SetTimelockDelay(d)
  /\ UNCHANGED <<roles, reportVars, prices, flagged, seq>>

\* MaxSeq and MaxTime bound the model; the last conjunct leaves a second for
\* each ledger up to MaxSeq.
CloseLedger ==
  /\ seq < MaxSeq
  /\ seq' = seq + 1
  /\ Tick
  /\ MaxTime - now' >= MaxSeq - seq'
  /\ UNCHANGED <<roles, reportVars, prices, flagged>>

-----------------------------------------------------------------------------
Feeding ==
  \/ \E a \in Addresses, oracle \in Addresses : Initialize(a, oracle)
  \/ \E a \in Addresses, p \in Projects :
       \/ \E period \in Periods, tonnes \in Tonnes, score \in Scores :
            SubmitMonitoringData(a, p, period, tonnes, score)
       \/ FlagProject(a, p)
  \/ \E a \in Addresses, k \in Keys, price \in Prices :
       UpdateCreditPrice(a, k, price)

Governance ==
  \/ \E a \in Addresses, o \in OpIds :
       \/ \E k \in Keys, price \in Prices : ProposePriceUpdate(a, o, k, price)
       \/ ExecutePriceUpdate(a, o)
       \/ Rollback(a, o)
  \/ \E o \in OpIds : Contest(o)
  \/ \E a \in Addresses, d \in Delays : SetDelay(a, d)

Next == Feeding \/ Governance \/ CloseLedger

\* The network goes on closing ledgers, whoever calls the contract.
Spec == Init /\ [][Next]_vars /\ WF_vars(CloseLedger)

-----------------------------------------------------------------------------
OracleTypeOK ==
  /\ TimelockTypeOK
  /\ admin \in Addresses \cup {None}
  /\ oracleAddress \in Addresses \cup {None}
  /\ monitoring \in [Projects -> [Periods -> MonitoringData \cup {None}]]
  /\ latest \in [Projects -> 0 .. MaxTime \cup {None}]
  /\ prices \in [Keys -> BenchmarkPrice \cup {None}]
  /\ flagged \subseteq Projects
  /\ seq \in 0 .. MaxSeq

\* The time kept for a project is that of its newest data.
LatestIsNewest ==
  \A p \in Projects :
    /\ \A q \in Periods : monitoring[p][q] # None =>
         latest[p] # None /\ monitoring[p][q].submittedAt <= latest[p]
    /\ latest[p] # None =>
         /\ latest[p] <= now
         /\ \E q \in Periods : /\ monitoring[p][q] # None
                               /\ monitoring[p][q].submittedAt = latest[p]

\* No price lives longer than a price quoted now.
PricesWithinTTL ==
  \A k \in Keys : prices[k] # None => prices[k].liveUntil <= seq + PriceTTL

(***************************************************************************)
(* The inductive invariant: the record of the newest submission agrees     *)
(* with the data of all periods, in whatever order periods are submitted   *)
(* and corrected (submit_monitoring_data), prices are positive and within  *)
(* their life (update_credit_price, propose_price_update), contests lie in *)
(* the window of their operation, and nothing happens before initialize.   *)
(***************************************************************************)
OracleInv ==
  /\ OracleTypeOK
  /\ ContestsInWindow
  /\ LatestIsNewest
  /\ PricesWithinTTL
  /\ admin = None => oracleAddress = None

(***************************************************************************)
(* is_monitoring_current, which reads one time per project, answers as if  *)
(* it had looked at the data of all periods: TRUE exactly when some data   *)
(* now stored was submitted within the freshness window.                   *)
(***************************************************************************)
FreshnessMatchesData ==
  \A p \in Projects :
    IsMonitoringCurrent(p) <=>
      \E q \in Periods : /\ monitoring[p][q] # None
                         /\ now - monitoring[p][q].submittedAt <= Freshness

-----------------------------------------------------------------------------
QuoteOf ==
  [k \in Keys |->
     IF Readable(k)
       THEN [price |-> prices[k].price,
             age |-> PriceTTL - (prices[k].liveUntil - seq)]
       ELSE None]

ReportOf ==
  [p \in Projects |-> IF latest[p] = None THEN None ELSE now - latest[p]]

(***************************************************************************)
(* The contract implements OracleFeed: a price that can be read was quoted *)
(* at most PriceTTL ledgers ago, whatever the entry's life was when it was *)
(* written, through set and extend_ttl on new, live and expired entries; a *)
(* project's age is that of its newest report (update_credit_price,        *)
(* propose_price_update, get_benchmark_price, submit_monitoring_data).     *)
(***************************************************************************)
Feed == INSTANCE OracleFeed
          WITH Ttl <- PriceTTL, MaxGap <- MaxTime, Nothing <- None,
               quotes <- QuoteOf, reports <- ReportOf
FeedSpec == Feed!Spec

(***************************************************************************)
(* docs/formal-spec.md L1: a price stops being readable, unless the oracle *)
(* writes it again and prolongs its life.  Ledgers close; nobody calls.    *)
(* Lives that end with the bound of the model are not asked about.         *)
(***************************************************************************)
PricesRunOut ==
  \A k \in Keys, last \in 0 .. MaxSeq - 1 :
    (Readable(k) /\ prices[k].liveUntil = last)
      ~> (~Readable(k) \/ prices[k].liveUntil > last)

(***************************************************************************)
(* docs/formal-spec.md L2: a project whose data is not renewed stops being *)
(* current.                                                                *)
(***************************************************************************)
DataGoesStale ==
  \A p \in Projects, t \in 0 .. MaxSeq - Freshness - 1 :
    (IsMonitoringCurrent(p) /\ latest[p] = t)
      ~> (~IsMonitoringCurrent(p) \/ latest[p] > t)

(***************************************************************************)
(* What the comment in propose_price_update says: the price is staged "so  *)
(* it's ready on execute".  When an update is executed, some price of its  *)
(* methodology should be readable.  It does not hold: the price lives 24   *)
(* hours from the proposal, and the delay is 48 hours.                     *)
(***************************************************************************)
ExecutedPriceInForce ==
  [][ \A a \in Addresses, o \in OpIds :
        ExecutePriceUpdate(a, o) =>
          \E v \in Vintages : Readable(<<ops[o].payload, v>>) ]_vars
=============================================================================
