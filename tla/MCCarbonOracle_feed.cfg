\* Reports, prices and proposals over the whole life of a price and of data.
SPECIFICATION Spec
CONSTANTS
  Addresses = {a1, a2}
  Payloads = {m1}
  Vintages = {v1}
  Projects = {p1}
  Periods = {q1, q2}
  Tonnes <- MCTonnes
  Scores <- MCScores
  Prices <- MCPrices
  Freshness = 1
  PriceTTL = 2
  MinTempTTL = 2
  OpIds = {o1}
  Delays = {0, 1}
  DefaultDelay = 2
  U64Max = 5
  MaxTime = 5
  MaxSeq = 4
  None = None
INVARIANTS
  OracleInv
  FreshnessMatchesData
PROPERTIES
  
  FeedSpec
  PricesRunOut
  DataGoesStale
CHECK_DEADLOCK FALSE
