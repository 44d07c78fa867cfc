\* Two offers, bought one at a time or together, at the default fee.
SPECIFICATION Spec
CONSTANTS
  operator = operator
  maker = maker
  taker = taker
  Addresses <- MCTwo
  ListingIds = {l1, l2}
  Amounts = {1, 2}
  Prices = {150}
  FeeBps = {}
  DefaultFeeBps = 100
  BpsDivisor = 10000
  I128Max = 2000000
  InitialUsdc <- MCUsdcTwo
  MaxItems = 2
  MaxListCalls = 2
  OpIds = {}
  Payloads = {fee_update}
  Delays = {}
  DefaultDelay = 1
  U64Max = 1
  MaxTime = 0
  None = None
SYMMETRY MCSymmetry
INVARIANTS
  StockMatchesStatus
  BasketInv
PROPERTIES
  NoEffectWhileWaiting
  SettlementSpec
  NoListingForgotten
CHECK_DEADLOCK FALSE
