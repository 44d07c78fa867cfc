\* The time-lock inside the contract, to the end of the clock, where the
\* addition of the delay overflows; one small batch keeps the rest moving.
SPECIFICATION Spec
CONSTANTS
  Addresses = {admin, other}
  ProjectIds = {p1}
  BatchIds = {b1}
  RetirementIds = {r1}
  Amounts <- MCFewAmounts
  Vintages = {2024}
  OpIds = {o1, o2}
  Payloads = {reason}
  Delays = {0, 1, 3}
  DefaultDelay = 2
  U64Max = 5
  MaxTime = 5
  None = None
SYMMETRY MCGovernanceSymmetry
INVARIANTS
  ContestsInWindow

  
CHECK_DEADLOCK FALSE
