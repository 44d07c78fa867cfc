\* Reports to the registry, of positive and of negative amounts.
SPECIFICATION Spec
CONSTANTS
  Addresses = {a1}
  Payloads = {p1}
  Amounts <- MCAmounts
  Vintages <- MCVintages
  I128Max = 1
  OpIds = {o1}
  Delays = {1}
  DefaultDelay = 2
  U64Max = 3
  MaxTime = 3
  None = None
PROPERTIES
  IssuedNeverDecreases
CHECK_DEADLOCK FALSE
