\* One offer, three parties, a fee that is changed through the time-lock up to the
\* end of the clock, and purchases carried to their end by the host.
SPECIFICATION FairSpec
CONSTANTS
  operator = operator
  maker = maker
  taker = taker
  Addresses <- MCThree
  ListingIds = {l1}
  Amounts = {2}
  Prices = {75}
  FeeBps = {0, 5001, 10000, 10001}
  DefaultFeeBps = 100
  BpsDivisor = 10000
  I128Max = 1499999
  InitialUsdc <- MCUsdcThree
  MaxItems = 1
  MaxListCalls = 1
  OpIds = {o1}
  Payloads = {fee_update}
  Delays = {0, 1}
  DefaultDelay = 2
  U64Max = 2
  MaxTime = 2
  None = None
INVARIANTS
  MarketTypeOK
  MarketInv
  ContestsInWindow
PROPERTIES
  
  NoEffectWhileWaiting
  SettlementSpec
  LockIsReleased
CHECK_DEADLOCK FALSE
