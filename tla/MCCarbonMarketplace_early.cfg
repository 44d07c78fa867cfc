\* A listing made before initialize.
SPECIFICATION Spec
CONSTANTS
  operator = operator
  maker = maker
  taker = taker
  Addresses <- MCTwo
  ListingIds = {l1}
  Amounts = {1}
  Prices = {150}
  FeeBps = {}
  DefaultFeeBps = 100
  BpsDivisor = 10000
  I128Max = 2000000
  InitialUsdc <- MCUsdcTwo
  MaxItems = 1
  MaxListCalls = 1
  OpIds = {}
  Payloads = {fee_update}
  Delays = {}
  DefaultDelay = 1
  U64Max = 1
  MaxTime = 0
  None = None
INVARIANTS
  AllActiveListingsReturned
CHECK_DEADLOCK FALSE
