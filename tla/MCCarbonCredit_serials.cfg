\* Batches, retirements and certificates, with no governance operations.
SPECIFICATION Spec
CONSTANTS
  Addresses = {admin, holder}
  ProjectIds = {p1, p2}
  BatchIds = {b1, b2, b3}
  RetirementIds = {r1, r2, r3}
  Amounts <- MCAmounts
  Vintages <- MCVintages
  OpIds = {}
  Payloads = {}
  Delays = {}
  DefaultDelay = 2
  U64Max = 4
  MaxTime = 0
  None = None
SYMMETRY MCSymmetry
INVARIANTS
  CreditTypeOK
  SerialsUnique
  RegistryMatchesBatches
  BatchAccounting
  NoDoubleRetirement
  ProjectIndexExact
  CreditInv
PROPERTIES
  CertificatesDocumentBurns
  FreshIdsKeepAccount
  LedgerSpec
CHECK_DEADLOCK FALSE
