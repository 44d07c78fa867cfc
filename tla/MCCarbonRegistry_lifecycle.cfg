\* Projects through all decisions, issuing and corrections, and suspensions
\* through the time-lock to the end of the clock.
SPECIFICATION Spec
CONSTANTS
  Addresses = {a1, a2}
  Payloads = {p1, p2}
  Amounts <- MCAmounts
  Vintages <- MCVintages
  I128Max = 1
  OpIds = {o1}
  Delays = {0, 1, 2}
  DefaultDelay = 2
  U64Max = 3
  MaxTime = 3
  None = None
SYMMETRY MCSymmetry
INVARIANTS
  RegistryInv
PROPERTIES
  SuspensionsSpec
CHECK_DEADLOCK FALSE
