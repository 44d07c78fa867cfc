\* A pause proposed, waited for and executed, and the mint after it.
SPECIFICATION Spec
CONSTANTS
  Addresses = {admin, other}
  ProjectIds = {p1}
  BatchIds = {b1}
  RetirementIds = {r1}
  Amounts <- MCFewAmounts
  Vintages = {2024}
  OpIds = {o1}
  Payloads = {reason}
  Delays = {0, 1, 3}
  DefaultDelay = 2
  U64Max = 3
  MaxTime = 3
  None = None
PROPERTIES
  PauseHaltsMutations
CHECK_DEADLOCK FALSE
