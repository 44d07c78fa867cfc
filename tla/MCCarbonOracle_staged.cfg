\* A price update proposed, waited for and executed.  One unit of the clock is
\* a day: a price lives one, the default delay is two.
SPECIFICATION Spec
CONSTANTS
  Addresses = {a1, a2}
  Payloads = {m1}
  Vintages = {v1}
  Projects = {p1}
  Periods = {q1}
  Tonnes <- MCTonnes
  Scores <- MCScores
  Prices <- MCPrices
  Freshness = 3
  PriceTTL = 1
  MinTempTTL = 1
  OpIds = {o1}
  Delays = {1}
  DefaultDelay = 2
  U64Max = 5
  MaxTime = 3
  MaxSeq = 3
  None = None
PROPERTIES
  ExecutedPriceInForce
CHECK_DEADLOCK FALSE
