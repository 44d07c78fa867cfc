\* Mints, reports and decisions about projects, with one address in all roles.
SPECIFICATION Spec
CONSTANTS
  Addresses = {a1}
  Projects = {p1, p2}
  BatchIds = {b1, b2, b3}
  RetirementIds = {r1}
  Amounts <- MCAmounts
  Vintages = {2024}
  RegistryOps = {}
  PauseOps = {}
  Reasons = {}
  Delays = {}
  DefaultDelay = 1
  U64Max = 2
  I128Max <- MCI128Max
  MaxTime = 0
  None = None
SYMMETRY MCSymmetry
INVARIANTS
  IssuedAccounted
  ReportsFit
CHECK_DEADLOCK FALSE
