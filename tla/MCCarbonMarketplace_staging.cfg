\* A fee update proposed, and the fee before the update is executed.
SPECIFICATION Spec
CONSTANTS
  operator = operator
  maker = maker
  taker = taker
  Addresses <- MCTwo
  ListingIds = {l1}
  Amounts = {1}
  Prices = {150}
  FeeBps = {10000}
  DefaultFeeBps = 100
  BpsDivisor = 10000
  I128Max = 2000000
  InitialUsdc <- MCUsdcTwo
  MaxItems = 1
  MaxListCalls = 1
  OpIds = {o1}
  Payloads = {fee_update}
  Delays = {}
  DefaultDelay = 1
  U64Max = 2
  MaxTime = 2
  None = None
PROPERTIES
  FeeChangesOnExecute
CHECK_DEADLOCK FALSE
