------------------------- MODULE CarbonLedgerProofs -------------------------
(***************************************************************************)
(* Proofs about the two contracts together, for all sets of identifiers,   *)
(* all arguments and all widths of the integers.                           *)
(*                                                                         *)
(* What is proved of each contract alone is used here: every step of the   *)
(* ledger is a step of each contract or leaves it as it is.  New is that   *)
(* the total kept by one contract accounts for the batches of the other.   *)
(***************************************************************************)
EXTENDS CarbonLedger, FiniteSums

\* The facts about the two contracts come with definitions of their own.
CT ==
  INSTANCE CarbonCreditProofs
    WITH ProjectIds <- Projects, Payloads <- Reasons, OpIds <- PauseOps,
         admin <- creditAdmin, ops <- pauses,
         contests <- pauseContests, delay <- pauseDelay

\* The registry of the ledger takes reports of at least one credit.
RT ==
  INSTANCE CarbonRegistryProofs
    WITH Payloads <- Projects, OpIds <- RegistryOps, Amounts <- 1 .. U64Max,
         admin <- registryAdmin, ops <- suspensions,
         contests <- suspensionContests, delay <- suspensionDelay

USE WidthAssumption, LedgerAssumption, RecordAssumption

-----------------------------------------------------------------------------
\* The definitions agree with those of the ledger, for the credits ...
LEMMA SameCredit ==
  /\ Credit!Init <=> CT!Init
  /\ Credit!Next <=> CT!Next
  /\ Credit!Minted = CT!Minted
  /\ Credit!vars = CT!vars
  /\ Credit!CreditInv <=> CT!CreditInv
  /\ CT!TimelockInv <=> CT!TimelockTypeOK /\ Credit!ContestsInWindow
<1>1. Credit!Init <=> CT!Init
  BY DEF Credit!Init, CT!Init, Credit!TimelockInit, CT!TimelockInit
<1>2. Credit!Next <=> CT!Next
  BY DEF Credit!U64, CT!U64, Credit!timelockVars, CT!timelockVars, Credit!Tick,
         CT!Tick, Credit!ProposeOp, CT!ProposeOp, Credit!Executable,
         CT!Executable, Credit!ExecuteOp, CT!ExecuteOp,
         Credit!ContestOperation, CT!ContestOperation,
         Credit!RollbackOperation, CT!RollbackOperation,
         Credit!SetTimelockDelay, CT!SetTimelockDelay, Credit!serialVars,
         CT!serialVars, Credit!RequireAdmin, CT!RequireAdmin, Credit!AsU64,
         CT!AsU64, Credit!VerifySerialRange, CT!VerifySerialRange,
         Credit!AssertValidBatch, CT!AssertValidBatch, Credit!Mintable,
         CT!Mintable, Credit!AssertValidRetirement, CT!AssertValidRetirement,
         Credit!ActiveAmount, CT!ActiveAmount, Credit!Retirable, CT!Retirable,
         Credit!Initialize, CT!Initialize, Credit!MintCredits, CT!MintCredits,
         Credit!SliceStart, CT!SliceStart, Credit!SliceEnd, CT!SliceEnd,
         Credit!StoreCertificate, CT!StoreCertificate, Credit!RetireCredits,
         CT!RetireCredits, Credit!ProposePause, CT!ProposePause,
         Credit!ExecutePause, CT!ExecutePause, Credit!Contest, CT!Contest,
         Credit!Rollback, CT!Rollback, Credit!SetDelay, CT!SetDelay,
         Credit!CloseLedger, CT!CloseLedger, Credit!Credits, CT!Credits,
         Credit!Governance, CT!Governance, Credit!Next, CT!Next
<1>3. Credit!Minted = CT!Minted
  BY DEF Credit!Minted, CT!Minted
<1>4. Credit!vars = CT!vars
  BY DEF Credit!vars, CT!vars, Credit!timelockVars, CT!timelockVars,
         Credit!serialVars, CT!serialVars
<1>5. Credit!CreditInv <=> CT!CreditInv
  BY DEF Credit!CreditInv, CT!CreditInv, Credit!CreditTypeOK, CT!CreditTypeOK,
         Credit!CreditBatch, CT!CreditBatch, Credit!CreditStatus,
         CT!CreditStatus, Credit!SerialRange, CT!SerialRange,
         Credit!RetirementCertificate, CT!RetirementCertificate,
         Credit!SerialsUnique, CT!SerialsUnique, Credit!RegistryMatchesBatches,
         CT!RegistryMatchesBatches, Credit!BatchAccounting, CT!BatchAccounting,
         Credit!NoDoubleRetirement, CT!NoDoubleRetirement, Credit!Minted,
         CT!Minted, Credit!BatchSerials, CT!BatchSerials, Credit!BurnedSerials,
         CT!BurnedSerials, Credit!CertSerials, CT!CertSerials,
         Credit!TimelockTypeOK, CT!TimelockTypeOK, Credit!U64, CT!U64,
         Credit!PendingOp, CT!PendingOp, Credit!ContestsInWindow,
         CT!ContestsInWindow
<1>6. CT!TimelockInv <=> CT!TimelockTypeOK /\ Credit!ContestsInWindow
  BY DEF CT!TimelockInv, Credit!ContestsInWindow, CT!ContestsInWindow
<1> QED
  BY <1>1, <1>2, <1>3, <1>4, <1>5, <1>6

\* ... and for the registry.
LEMMA SameRegistry ==
  /\ Registry!Init <=> RT!Init
  /\ Registry!RegistryInv <=> RT!RegistryInv
  /\ Registry!Next => RT!Next
  /\ Registry!Registered = RT!Registered
<1>1. Registry!Init <=> RT!Init
  BY DEF Registry!Init, RT!Init, Registry!TimelockInit, RT!TimelockInit,
         Registry!ProjectIds, RT!ProjectIds
<1>2. Registry!RegistryInv <=> RT!RegistryInv
  BY DEF Registry!RegistryInv, RT!RegistryInv, Registry!RegistryTypeOK,
         RT!RegistryTypeOK, Registry!SuspensionsHaveTargets,
         RT!SuspensionsHaveTargets, Registry!Registered, RT!Registered,
         Registry!ProjectIds, RT!ProjectIds, Registry!CarbonProject,
         RT!CarbonProject, Registry!ProjectStatus, RT!ProjectStatus,
         Registry!TimelockTypeOK, RT!TimelockTypeOK, Registry!U64, RT!U64,
         Registry!PendingOp, RT!PendingOp, Registry!ContestsInWindow,
         RT!ContestsInWindow
<1>3. Registry!Next => RT!Next
  BY DEF Registry!U64, RT!U64, Registry!timelockVars, RT!timelockVars,
         Registry!Tick, RT!Tick, Registry!ProposeOp, RT!ProposeOp,
         Registry!Executable, RT!Executable, Registry!ExecuteOp, RT!ExecuteOp,
         Registry!ContestOperation, RT!ContestOperation,
         Registry!RollbackOperation, RT!RollbackOperation,
         Registry!SetTimelockDelay, RT!SetTimelockDelay, Registry!ProjectIds,
         RT!ProjectIds, Registry!roles, RT!roles, Registry!ProjectStatus,
         RT!ProjectStatus, Registry!RequireAdmin, RT!RequireAdmin,
         Registry!RequireVerifier, RT!RequireVerifier, Registry!RequireOracle,
         RT!RequireOracle, Registry!Registered, RT!Registered,
         Registry!SetStatus, RT!SetStatus, Registry!Initialize, RT!Initialize,
         Registry!RegisterProject, RT!RegisterProject, Registry!VerifyProject,
         RT!VerifyProject, Registry!RejectProject, RT!RejectProject,
         Registry!UpdateProjectStatus, RT!UpdateProjectStatus,
         Registry!SuspendProject, RT!SuspendProject, Registry!IncrementIssued,
         RT!IncrementIssued, Registry!ProposeSuspendProject,
         RT!ProposeSuspendProject, Registry!ExecuteSuspendProject,
         RT!ExecuteSuspendProject, Registry!Contest, RT!Contest,
         Registry!Rollback, RT!Rollback, Registry!SetDelay, RT!SetDelay,
         Registry!CloseLedger, RT!CloseLedger, Registry!Lifecycle,
         RT!Lifecycle, Registry!Governance, RT!Governance, Registry!Next,
         RT!Next
<1>4. Registry!Registered = RT!Registered
  BY DEF Registry!Registered, RT!Registered, Registry!ProjectIds, RT!ProjectIds
<1> QED
  BY <1>1, <1>2, <1>3, <1>4

\* The constants of the ledger meet the assumptions of the credit contract.
LEMMA CreditAssumptions ==
  /\ CT!TimelockAssumption
  /\ CT!PendingOpAssumption
  /\ CT!CreditAssumption
  /\ CT!RecordAssumption
  BY DEF CT!TimelockAssumption, CT!PendingOpAssumption, CT!CreditAssumption,
         CT!RecordAssumption, Credit!CreditBatch, CT!CreditBatch,
         Credit!RetirementCertificate, CT!RetirementCertificate, Credit!U64,
         CT!U64, Credit!CreditStatus, CT!CreditStatus, Credit!PendingOp,
         CT!PendingOp

\* The constants of the ledger meet the assumptions of the registry.
LEMMA RegistryAssumptions ==
  /\ RT!TimelockAssumption
  /\ RT!PendingOpAssumption
  /\ RT!RegistryAssumption
  /\ RT!ProjectAssumption
  BY DEF RT!TimelockAssumption, RT!PendingOpAssumption, RT!RegistryAssumption,
         RT!ProjectAssumption, Registry!CarbonProject, RT!CarbonProject,
         Registry!ProjectStatus, RT!ProjectStatus, Registry!U64, RT!U64,
         Registry!ProjectIds, RT!ProjectIds, Registry!PendingOp, RT!PendingOp

-----------------------------------------------------------------------------
\* What a step of the registry does to what the credit contract shares with
\* it, the clock, and to the projects.
LEMMA RegistryMoves ==
  ASSUME Registry!Next
  PROVE  /\ now' = now \/ now' \in (now + 1) .. MaxTime
         /\ \/ projects' = projects
            \/ \E p \in Projects, s \in Registry!ProjectStatus :
                 Registry!SetStatus(p, s)
            \/ \E p \in Projects \ Registry!Registered :
                 projects' = [projects EXCEPT
                                ![p] = [status |-> "Pending", issued |-> 0]]
<1>1. CASE Registry!Lifecycle
  BY <1>1
     DEF Registry!Lifecycle, Registry!Initialize, Registry!RegisterProject,
         Registry!VerifyProject, Registry!RejectProject,
         Registry!UpdateProjectStatus, Registry!SuspendProject,
         Registry!timelockVars, Registry!ProjectIds,
         Registry!ProjectStatus
<1>2. CASE Registry!Governance
  <2>1. ASSUME NEW p, NEW s, Registry!SetStatus(p, s) PROVE p \in Projects
    BY <2>1 DEF Registry!SetStatus, Registry!Registered, Registry!ProjectIds
  <2> QED
    BY <1>2, <2>1
       DEF Registry!Governance, Registry!ProposeSuspendProject,
           Registry!ExecuteSuspendProject, Registry!Contest,
           Registry!Rollback, Registry!SetDelay, Registry!CloseLedger,
           Registry!ProposeOp, Registry!ExecuteOp, Registry!ContestOperation,
           Registry!RollbackOperation, Registry!SetTimelockDelay,
           Registry!Tick, Registry!ProjectStatus
<1> QED
  BY <1>1, <1>2 DEF Registry!Next

\* A step of the credit contract moves the clock forward or not at all.
LEMMA CreditMovesClock ==
  ASSUME Credit!Next
  PROVE  now' = now \/ now' \in (now + 1) .. MaxTime
<1>1. CASE Credit!Credits
  <2>1. ASSUME NEW a, Credit!Initialize(a) PROVE now' = now
    BY <2>1 DEF Credit!Initialize, Credit!timelockVars
  <2>2. ASSUME NEW a, NEW p, NEW amount, NEW v, NEW b, NEW start, NEW end,
               Credit!MintCredits(a, p, amount, v, b, start, end)
        PROVE  now' = now
    BY <2>2 DEF Credit!MintCredits, Credit!timelockVars
  <2>3. ASSUME NEW b, NEW amount, NEW rid,
               Credit!RetireCredits(b, amount, rid)
        PROVE  now' = now
    BY <2>3 DEF Credit!RetireCredits, Credit!timelockVars
  <2> QED
    BY <1>1, <2>1, <2>2, <2>3 DEF Credit!Credits
<1>2. CASE Credit!Governance
  BY <1>2
     DEF Credit!Governance, Credit!ProposePause, Credit!ExecutePause,
         Credit!Contest, Credit!Rollback, Credit!SetDelay,
         Credit!CloseLedger, Credit!ProposeOp, Credit!ExecuteOp,
         Credit!ContestOperation, Credit!RollbackOperation,
         Credit!SetTimelockDelay, Credit!Tick
<1> QED
  BY <1>1, <1>2 DEF Credit!Next

\* Each batch is one of a project, with as many credits as its range has
\* serials, and shares no serial with another.
LEMMA BatchFacts ==
  ASSUME Credit!CreditInv
  PROVE  /\ \A b \in Minted : /\ b \in BatchIds
                              /\ batches[b].project \in Projects
                              /\ batches[b].amount \in 1 .. U64Max
                              /\ batches[b].start \in 0 .. U64Max
                              /\ batches[b].end \in 0 .. U64Max
                              /\ batches[b].amount =
                                   batches[b].end - batches[b].start + 1
         /\ \A b, c \in Minted : b # c =>
              batches[b].start .. batches[b].end
                \cap batches[c].start .. batches[c].end = {}
<1>1. ASSUME NEW b \in Minted
      PROVE  b \in BatchIds /\ batches[b] \in Credit!CreditBatch
  BY DEF Minted, Credit!Minted, Credit!CreditInv, Credit!CreditTypeOK
<1>2. \A b \in Minted :
        batches[b].amount = batches[b].end - batches[b].start + 1
  BY DEF Minted, Credit!Minted, Credit!CreditInv, Credit!BatchAccounting
<1>3. \A b, c \in Minted : b # c =>
        batches[b].start .. batches[b].end
          \cap batches[c].start .. batches[c].end = {}
  BY DEF Minted, Credit!CreditInv, Credit!SerialsUnique, Credit!BatchSerials
<1> QED
  BY <1>1, <1>2, <1>3 DEF Credit!CreditBatch, Credit!U64

\* The total of a registered project is a number an i128 holds.
LEMMA IssuedFacts ==
  ASSUME Registry!RegistryInv, NEW p \in Projects
  PROVE  /\ IssuedOf(p) \in 0 .. I128Max
         /\ p \in Registry!Registered => projects[p].issued = IssuedOf(p)
  BY DEF IssuedOf, Registry!RegistryInv, Registry!RegistryTypeOK,
         Registry!CarbonProject, Registry!Registered, Registry!ProjectIds

-----------------------------------------------------------------------------
\* A project and the events under way have finitely many batches, each with a
\* whole number of credits.
LEMMA CreditsFacts ==
  ASSUME Credit!CreditInv, IsFiniteSet(Minted), NEW S \in SUBSET Minted
  PROVE  /\ IsFiniteSet(S)
         /\ \A b \in S : [c \in Minted |-> batches[c].amount][b] \in Nat
         /\ Credits(S) \in Nat
<1>1. IsFiniteSet(S)
  BY FS_Subset
<1>2. \A b \in S : [c \in Minted |-> batches[c].amount][b] \in Nat
  BY BatchFacts
<1> QED
  BY <1>1, <1>2, SumNat DEF Credits

\* One batch of several.
LEMMA CreditsMember ==
  ASSUME Credit!CreditInv, IsFiniteSet(Minted), NEW S \in SUBSET Minted,
         NEW b \in S
  PROVE  Credits(S) = batches[b].amount + Credits(S \ {b})
<1> DEFINE w == [c \in Minted |-> batches[c].amount]
<1>1. IsFiniteSet(S) /\ \A c \in S : w[c] \in Int
  BY CreditsFacts
<1>2. w[b] = batches[b].amount
  OBVIOUS
<1> HIDE DEF w
<1>3. SumFunctionOnSet(w, S) = w[b] + SumFunctionOnSet(w, S \ {b})
  BY <1>1, SumMember
<1> QED
  BY <1>2, <1>3 DEF Credits, w

\* A project has no more credits than there are serials.
LEMMA CreditsBounded ==
  ASSUME Credit!CreditInv, IsFiniteSet(Minted), NEW S \in SUBSET Minted
  PROVE  Credits(S) <= U64Max + 1
<1> DEFINE w == [b \in Minted |-> batches[b].amount]
           R == [b \in Minted |-> batches[b].start .. batches[b].end]
           All == UNION {R[b] : b \in S}
<1>1. \A b \in S : IsFiniteSet(R[b]) /\ w[b] = Cardinality(R[b])
  <2>1. ASSUME NEW b \in S PROVE IsFiniteSet(R[b]) /\ w[b] = Cardinality(R[b])
    <3>1. /\ R[b] = batches[b].start .. batches[b].end
          /\ w[b] = batches[b].amount
      OBVIOUS
    <3> HIDE DEF R, w
    <3>2. /\ batches[b].start \in Int /\ batches[b].end \in Int
          /\ batches[b].start <= batches[b].end
          /\ batches[b].amount = batches[b].end - batches[b].start + 1
      BY BatchFacts
    <3>3. /\ IsFiniteSet(R[b])
          /\ Cardinality(R[b]) =
               IF batches[b].start > batches[b].end
                 THEN 0 ELSE batches[b].end - batches[b].start + 1
      BY <3>1, <3>2, FS_Interval
    <3> QED
      BY <3>1, <3>2, <3>3
  <2> QED
    BY <2>1
<1>2. \A b, c \in S : b # c => R[b] \cap R[c] = {}
  <2>1. ASSUME NEW b \in S, NEW c \in S, b # c
        PROVE  R[b] \cap R[c] = {}
    <3>1. /\ R[b] = batches[b].start .. batches[b].end
          /\ R[c] = batches[c].start .. batches[c].end
      OBVIOUS
    <3> HIDE DEF R
    <3>2. b \in Minted /\ c \in Minted
      OBVIOUS
    <3>3. batches[b].start .. batches[b].end
            \cap batches[c].start .. batches[c].end = {}
      BY <2>1, <3>2, BatchFacts, Zenon
    <3> QED
      BY <3>1, <3>3
  <2> QED
    BY <2>1
<1>3. All \in SUBSET (0 .. U64Max)
  <2>1. ASSUME NEW b \in S PROVE R[b] \subseteq 0 .. U64Max
    <3>1. R[b] = batches[b].start .. batches[b].end
      OBVIOUS
    <3> HIDE DEF R
    <3>2. batches[b].start \in 0 .. U64Max /\ batches[b].end \in 0 .. U64Max
      BY BatchFacts
    <3> QED
      BY <3>1, <3>2
  <2> QED
    BY <2>1
<1>4. IsFiniteSet(0 .. U64Max) /\ Cardinality(0 .. U64Max) = U64Max + 1
  BY FS_Interval
<1>5. IsFiniteSet(S)
  BY CreditsFacts
<1>6. Credits(S) = SumFunctionOnSet(w, S)
  BY DEF Credits
<1>7. SumFunctionOnSet(w, S) = Cardinality(All)
  <2>1. \A z : z \in All <=> \E b \in S : z \in R[b]
    OBVIOUS
  <2> HIDE DEF w, R, All
  <2> QED
    BY <1>1, <1>2, <1>5, <2>1, SumOfSizes
<1> HIDE DEF w, R, All
<1>8. Cardinality(All) <= Cardinality(0 .. U64Max)
  BY <1>3, <1>4, FS_Subset
<1> QED
  BY <1>4, <1>6, <1>7, <1>8

-----------------------------------------------------------------------------
\* The terms of the accounts once the step is taken.
CreditsAfter(S) == SumFunctionOnSet([b \in Minted' |-> batches'[b].amount], S)

BatchesAfter(p) == {b \in Minted' : batches'[b].project = p}

IssuedAfter(p) == IF p \in Registry!Registered' THEN projects'[p].issued ELSE 0

\* The accounts after the step, in these terms.
LEMMA AccountedAfter ==
  ASSUME unreported' \subseteq Minted',
         \A p \in Projects :
           IssuedAfter(p) + CreditsAfter(BatchesAfter(p) \cap unreported')
             = CreditsAfter(BatchesAfter(p))
  PROVE  IssuedAccounted'
  BY DEF IssuedAccounted, Credits, BatchesOf, IssuedOf, CreditsAfter,
         BatchesAfter, IssuedAfter

\* Batches that stay as they are have as many credits after the step.
LEMMA CreditsKept ==
  ASSUME Credit!CreditInv, IsFiniteSet(Minted), NEW S \in SUBSET Minted,
         Minted \subseteq Minted',
         \A b \in Minted : batches'[b].amount = batches[b].amount
  PROVE  CreditsAfter(S) = Credits(S)
<1> DEFINE w == [b \in Minted |-> batches[b].amount]
           v == [b \in Minted' |-> batches'[b].amount]
<1>1. \A b \in S : w[b] \in Int /\ v[b] = w[b]
  <2>1. ASSUME NEW b \in S
        PROVE  w[b] \in Int /\ v[b] = w[b]
    <3>1. w[b] = batches[b].amount /\ v[b] = batches'[b].amount
      OBVIOUS
    <3> HIDE DEF w, v
    <3>2. batches[b].amount \in Int
      BY BatchFacts
    <3> QED
      BY <3>1, <3>2
  <2> QED
    BY <2>1
<1>2. IsFiniteSet(S)
  BY CreditsFacts
<1>3. Credits(S) = SumFunctionOnSet(w, S)
  BY DEF Credits
<1>4. CreditsAfter(S) = SumFunctionOnSet(v, S)
  BY DEF CreditsAfter
<1> HIDE DEF w, v
<1> QED
  BY <1>1, <1>2, <1>3, <1>4, SumSameTerms

-----------------------------------------------------------------------------
\* No batch is minted and none reported.
LEMMA AccountsKept ==
  ASSUME LedgerInv, Minted' = Minted, unreported' = unreported,
         \A b \in Minted : /\ batches'[b].project = batches[b].project
                           /\ batches'[b].amount = batches[b].amount,
         \A p \in Projects : IssuedAfter(p) = IssuedOf(p)
  PROVE  IssuedAccounted'
<1>1. /\ unreported \subseteq Minted
      /\ Credit!CreditInv /\ IsFiniteSet(Minted)
  BY DEF LedgerInv, IssuedAccounted
<1>2. \A S \in SUBSET Minted : CreditsAfter(S) = Credits(S)
  BY <1>1, CreditsKept
<1>3. ASSUME NEW p \in Projects
      PROVE  IssuedAfter(p) + CreditsAfter(BatchesAfter(p) \cap unreported')
               = CreditsAfter(BatchesAfter(p))
  <2>1. /\ BatchesAfter(p) = BatchesOf(p)
        /\ BatchesOf(p) \in SUBSET Minted
        /\ BatchesOf(p) \cap unreported \in SUBSET Minted
    BY DEF BatchesOf, BatchesAfter
  <2>2. IssuedOf(p) + Credits(BatchesOf(p) \cap unreported)
          = Credits(BatchesOf(p))
    BY DEF LedgerInv, IssuedAccounted
  <2> QED
    BY <1>2, <2>1, <2>2
<1> QED
  BY <1>1, <1>3, AccountedAfter

\* A batch is minted, and its event is under way.
LEMMA MintAccounted ==
  ASSUME LedgerInv, Credit!CreditInv', NEW b \in BatchIds \ Minted,
         Minted' = Minted \cup {b},
         \A c \in Minted : batches'[c] = batches[c],
         unreported' = unreported \cup {b},
         \A p \in Projects : IssuedAfter(p) = IssuedOf(p)
  PROVE  IssuedAccounted' /\ IsFiniteSet(Minted)'
<1>1. /\ unreported \subseteq Minted
      /\ Credit!CreditInv /\ IsFiniteSet(Minted)
      /\ b \notin Minted
  BY DEF LedgerInv, IssuedAccounted
<1>2. \A S \in SUBSET Minted : CreditsAfter(S) = Credits(S)
  BY <1>1, CreditsKept
<1>3. batches'[b].amount \in Int
  <2>1. b \in Minted' /\ Minted' = {c \in BatchIds : batches'[c] # None}
    BY DEF Minted, Credit!Minted
  <2>2. batches' \in [BatchIds -> Credit!CreditBatch \cup {None}]
    BY DEF Credit!CreditInv, Credit!CreditTypeOK
  <2>3. batches'[b] \in Credit!CreditBatch
    BY <2>1, <2>2
  <2> QED
    BY <2>3 DEF Credit!CreditBatch, Credit!U64
<1>4. ASSUME NEW S \in SUBSET Minted
      PROVE  CreditsAfter(S \cup {b}) = batches'[b].amount + CreditsAfter(S)
  <2> DEFINE v == [c \in Minted' |-> batches'[c].amount]
  <2>1. v[b] = batches'[b].amount
    OBVIOUS
  <2>2. ASSUME NEW c \in S PROVE v[c] \in Int
    <3>1. v[c] = batches[c].amount
      OBVIOUS
    <3> HIDE DEF v
    <3> QED
      BY <1>1, <3>1, BatchFacts
  <2>3. IsFiniteSet(S) /\ b \notin S
    BY <1>1, FS_Subset
  <2>4. /\ CreditsAfter(S \cup {b}) = SumFunctionOnSet(v, S \cup {b})
        /\ CreditsAfter(S) = SumFunctionOnSet(v, S)
    BY DEF CreditsAfter
  <2> HIDE DEF v
  <2>5. \A c \in S \cup {b} : v[c] \in Int
    BY <1>3, <2>1, <2>2
  <2>6. SumFunctionOnSet(v, S \cup {b}) = v[b] + SumFunctionOnSet(v, S)
    BY <2>3, <2>5, SumAdd
  <2> QED
    BY <2>1, <2>4, <2>6
<1>5. ASSUME NEW p \in Projects
      PROVE  IssuedAfter(p) + CreditsAfter(BatchesAfter(p) \cap unreported')
               = CreditsAfter(BatchesAfter(p))
  <2> DEFINE S == BatchesOf(p)
             T == BatchesOf(p) \cap unreported
  <2>1. S \in SUBSET Minted /\ T \in SUBSET Minted
    BY DEF BatchesOf
  <2>2. IssuedOf(p) + Credits(T) = Credits(S)
    BY DEF LedgerInv, IssuedAccounted
  <2>3. /\ IssuedOf(p) \in Int /\ Credits(S) \in Int /\ Credits(T) \in Int
    BY <1>1, <2>1, IssuedFacts, CreditsFacts DEF LedgerInv
  <2>4. CASE batches'[b].project = p
    <3>1. /\ BatchesAfter(p) = S \cup {b}
          /\ BatchesAfter(p) \cap unreported' = T \cup {b}
      BY <1>1, <2>4 DEF BatchesOf, BatchesAfter
    <3> HIDE DEF S, T
    <3>2. /\ CreditsAfter(S \cup {b}) = batches'[b].amount + Credits(S)
          /\ CreditsAfter(T \cup {b}) = batches'[b].amount + Credits(T)
      BY <1>2, <1>4, <2>1
    <3>3. /\ CreditsAfter(BatchesAfter(p)) = batches'[b].amount + Credits(S)
          /\ CreditsAfter(BatchesAfter(p) \cap unreported')
               = batches'[b].amount + Credits(T)
      BY <3>1, <3>2
    <3> QED
      BY <1>3, <2>2, <2>3, <3>3
  <2>5. CASE batches'[b].project # p
    <3>1. /\ BatchesAfter(p) = S
          /\ BatchesAfter(p) \cap unreported' = T
      BY <1>1, <2>5 DEF BatchesOf, BatchesAfter
    <3> HIDE DEF S, T
    <3> QED
      BY <1>2, <2>1, <2>2, <3>1
  <2> QED
    BY <2>4, <2>5
<1>6. IsFiniteSet(Minted)'
  BY <1>1, FS_AddElement
<1> QED
  BY <1>1, <1>5, <1>6, AccountedAfter

\* The oracle reports a batch.
LEMMA ReportAccounted ==
  ASSUME LedgerInv, NEW a \in Addresses, NEW b \in BatchIds, Report(a, b)
  PROVE  IssuedAccounted'
<1> DEFINE p == batches[b].project
           amount == batches[b].amount
<1>1. /\ unreported \subseteq Minted
      /\ Credit!CreditInv /\ Registry!RegistryInv /\ IsFiniteSet(Minted)
  BY DEF LedgerInv, IssuedAccounted
<1>2. /\ b \in unreported /\ b \in Minted
      /\ unreported' = unreported \ {b}
      /\ UNCHANGED creditVars
  BY <1>1 DEF Report
<1>3. /\ p \in Projects
      /\ amount \in Int
  BY <1>1, <1>2, BatchFacts
<1>4. /\ batches' = batches /\ Minted' = Minted
  BY <1>2 DEF creditVars, Minted, Credit!Minted
<1>5. /\ p \in Registry!Registered
      /\ projects[p].issued + amount \in 0 .. I128Max
      /\ projects' = [projects EXCEPT ![p].issued = projects[p].issued + amount]
  BY DEF Report, Registry!IncrementIssued
<1>6. IssuedAfter(p) = IssuedOf(p) + amount
  <2>1. projects \in [Projects -> Registry!CarbonProject \cup {None}]
    BY <1>1 DEF Registry!RegistryInv, Registry!RegistryTypeOK,
                Registry!ProjectIds
  <2>2. projects[p] \in Registry!CarbonProject
    BY <1>5, <2>1 DEF Registry!Registered, Registry!ProjectIds
  <2> DEFINE total == projects[p].issued + amount
  <2>3. projects'[p] = [projects[p] EXCEPT !.issued = total]
    BY <1>3, <1>5, <2>1
  <2>4. projects'[p].issued = total /\ projects'[p] # None
    <3>1. total \in 0 .. I128Max
      BY <1>5
    <3> HIDE DEF total
    <3>2. projects'[p] \in Registry!CarbonProject
      BY <2>2, <2>3, <3>1 DEF Registry!CarbonProject
    <3> QED
      BY <2>2, <2>3, <3>2 DEF Registry!CarbonProject
  <2> QED
    BY <1>3, <1>5, <2>4
       DEF IssuedAfter, IssuedOf, Registry!Registered, Registry!ProjectIds
<1>7. \A q \in Projects : q # p => IssuedAfter(q) = IssuedOf(q)
  <2>1. projects \in [Projects -> Registry!CarbonProject \cup {None}]
    BY <1>1 DEF Registry!RegistryInv, Registry!RegistryTypeOK,
                Registry!ProjectIds
  <2>2. \A q \in Projects : q # p => projects'[q] = projects[q]
    BY <1>5, <2>1
  <2> QED
    BY <2>2 DEF IssuedAfter, IssuedOf, Registry!Registered, Registry!ProjectIds
<1> HIDE DEF p, amount
<1>8. \A S \in SUBSET Minted : CreditsAfter(S) = Credits(S)
  BY <1>4 DEF CreditsAfter, Credits
<1>9. ASSUME NEW q \in Projects
      PROVE  IssuedAfter(q) + CreditsAfter(BatchesAfter(q) \cap unreported')
               = CreditsAfter(BatchesAfter(q))
  <2> DEFINE S == BatchesOf(q)
             T == BatchesOf(q) \cap unreported
  <2>1. S \in SUBSET Minted /\ T \in SUBSET Minted
    BY DEF BatchesOf
  <2>2. IssuedOf(q) + Credits(T) = Credits(S)
    BY DEF LedgerInv, IssuedAccounted
  <2>3. /\ IssuedOf(q) \in Int /\ Credits(S) \in Int /\ Credits(T) \in Int
    BY <1>1, <2>1, IssuedFacts, CreditsFacts
  <2>4. BatchesAfter(q) = S
    BY <1>4 DEF BatchesAfter, BatchesOf
  <2>5. CASE q = p
    <3>1. b \in T /\ BatchesAfter(q) \cap unreported' = T \ {b}
      BY <1>2, <2>4, <2>5 DEF BatchesOf, p
    <3> HIDE DEF S, T
    <3>2. Credits(T) = amount + Credits(T \ {b})
      BY <1>1, <2>1, <3>1, CreditsMember DEF amount
    <3>3. Credits(T \ {b}) \in Int
      BY <1>1, <2>1, CreditsFacts
    <3>4. /\ CreditsAfter(BatchesAfter(q) \cap unreported') = Credits(T \ {b})
          /\ CreditsAfter(BatchesAfter(q)) = Credits(S)
      BY <1>8, <2>1, <2>4, <3>1
    <3> QED
      BY <1>3, <1>6, <2>2, <2>3, <2>5, <3>2, <3>3, <3>4
  <2>6. CASE q # p
    <3>1. BatchesAfter(q) \cap unreported' = T
      BY <1>2, <2>4, <2>6 DEF BatchesOf, p
    <3> HIDE DEF S, T
    <3> QED
      BY <1>7, <1>8, <2>1, <2>2, <2>4, <2>6, <3>1
  <2> QED
    BY <2>5, <2>6
<1> QED
  BY <1>1, <1>2, <1>4, <1>9, AccountedAfter

-----------------------------------------------------------------------------
\* The initial state.
LEMMA LedgerInit == Init => LedgerInv
<1> SUFFICES ASSUME Init PROVE LedgerInv
  OBVIOUS
<1>1. Credit!CreditInv /\ Credit!ContestsInWindow
  <2>1. CT!Init => CT!CreditInv /\ CT!TimelockInv
    BY CreditAssumptions, CT!CreditInit DEF CT!CreditInit
  <2> QED
    BY <2>1, SameCredit DEF Init
<1>2. Registry!RegistryInv
  <2>1. RT!Init => RT!RegistryInv
    BY RegistryAssumptions, RT!RegistryInit DEF RT!RegistryInit
  <2> QED
    BY <2>1, SameRegistry DEF Init
<1>3. Minted = {} /\ unreported = {}
  BY DEF Init, Minted, Credit!Minted, Credit!Init
<1>4. IsFiniteSet(Minted)
  BY <1>3, FS_EmptySet
<1>5. IssuedAccounted
  <2>1. ASSUME NEW p \in Projects
        PROVE  IssuedOf(p) + Credits(BatchesOf(p) \cap unreported)
                 = Credits(BatchesOf(p))
    <3>1. IssuedOf(p) = 0
      BY DEF Init, Registry!Init, IssuedOf, Registry!Registered,
             Registry!ProjectIds
    <3>2. BatchesOf(p) = {} /\ BatchesOf(p) \cap unreported = {}
      BY <1>3 DEF BatchesOf
    <3>3. Credits({}) = 0
      BY SumEmpty DEF Credits
    <3> QED
      BY <3>1, <3>2, <3>3
  <2> QED
    BY <1>3, <2>1 DEF IssuedAccounted
<1> QED
  BY <1>1, <1>2, <1>4, <1>5 DEF LedgerInv

\* Every step of the ledger is one of the credit contract, or leaves it as it
\* is: the registry moves nothing of it but the clock.
LEMMA StepsOfCredit ==
  ASSUME [Next]_vars
  PROVE  [Credit!Next]_(Credit!vars)
<1>1. ASSUME UNCHANGED creditVars, now' \in (now + 1) .. MaxTime
      PROVE  Credit!Next
  BY <1>1 DEF creditVars, Credit!Next, Credit!Governance, Credit!CloseLedger,
              Credit!Tick, Credit!serialVars
<1>2. ASSUME UNCHANGED creditVars, now' = now
      PROVE  UNCHANGED Credit!vars
  BY <1>2 DEF creditVars, Credit!vars, Credit!timelockVars, Credit!serialVars
<1>3. CASE RegistryStep
  BY <1>1, <1>2, <1>3, RegistryMoves DEF RegistryStep
<1>4. CASE CreditStep
  BY <1>4 DEF CreditStep
<1>5. ASSUME NEW a \in Addresses, NEW b \in BatchIds, Report(a, b)
      PROVE  UNCHANGED Credit!vars
  BY <1>2, <1>5 DEF Report, Registry!IncrementIssued, Registry!timelockVars
<1>6. CASE UNCHANGED vars
  BY <1>2, <1>6 DEF vars
<1> QED
  BY <1>3, <1>4, <1>5, <1>6 DEF Next

\* Every step of the ledger is one of the registry, or leaves it as it is: a
\* report is one call of increment_issued, with the amount of a batch.
LEMMA StepsOfRegistry ==
  ASSUME LedgerInv, [Next]_vars
  PROVE  [RT!Next]_(RT!vars)
<1>1. ASSUME UNCHANGED registryVars, now' \in (now + 1) .. MaxTime
      PROVE  RT!Next
  BY <1>1 DEF registryVars, RT!Next, RT!Governance, RT!CloseLedger,
              RT!Tick, RT!roles
<1>2. ASSUME UNCHANGED registryVars, now' = now
      PROVE  UNCHANGED RT!vars
  BY <1>2 DEF registryVars, RT!vars, RT!timelockVars, RT!roles
<1>3. CASE RegistryStep
  BY <1>3, SameRegistry DEF RegistryStep
<1>4. CASE CreditStep
  BY <1>1, <1>2, <1>4, CreditMovesClock DEF CreditStep
<1>5. ASSUME NEW a \in Addresses, NEW b \in BatchIds, Report(a, b)
      PROVE  RT!Next
  <2> DEFINE p == batches[b].project
             amount == batches[b].amount
  <2>1. p \in Projects /\ amount \in 1 .. U64Max
    BY <1>5, BatchFacts DEF LedgerInv, IssuedAccounted, Report
  <2>2. Registry!IncrementIssued(a, p, amount)
    BY <1>5 DEF Report
  <2> HIDE DEF p, amount
  <2>3. RT!IncrementIssued(a, p, amount)
    BY <2>2 DEF Registry!IncrementIssued, RT!IncrementIssued,
                Registry!RequireOracle, RT!RequireOracle,
                Registry!Registered, RT!Registered, Registry!ProjectIds,
                RT!ProjectIds, Registry!timelockVars, RT!timelockVars,
                Registry!roles, RT!roles
  <2> QED
    BY <2>1, <2>3 DEF RT!Next, RT!Lifecycle, RT!ProjectIds
<1>6. CASE UNCHANGED vars
  BY <1>2, <1>6 DEF vars
<1> QED
  BY <1>3, <1>4, <1>5, <1>6 DEF Next

\* The definitions agree in the next state as well.
LEMMA SameAfter ==
  /\ (Credit!CreditInv)' <=> CT!CreditInv'
  /\ CT!TimelockInv' => (Credit!ContestsInWindow)'
  /\ (Registry!RegistryInv)' <=> RT!RegistryInv'
<1>1. Credit!CreditInv <=> CT!CreditInv
  BY SameCredit
<1>2. CT!TimelockInv => Credit!ContestsInWindow
  BY SameCredit
<1>3. Registry!RegistryInv <=> RT!RegistryInv
  BY SameRegistry
<1> QED
  BY <1>1, <1>2, <1>3, PTL

\* Each contract keeps its own invariant, whatever the other does.
LEMMA ContractsKept ==
  ASSUME LedgerInv, [Next]_vars
  PROVE  /\ (Credit!CreditInv)'
         /\ (Credit!ContestsInWindow)'
         /\ (Registry!RegistryInv)'
<1>1. CT!CreditInv' /\ CT!TimelockInv'
  <2>1. CT!CreditInv /\ CT!TimelockInv
    <3>1. CT!CreditInv => CT!TimelockTypeOK
      BY DEF CT!CreditInv, CT!CreditTypeOK
    <3> QED
      BY <3>1, SameCredit DEF LedgerInv
  <2>2. [CT!Next]_(CT!vars)
    <3>1. UNCHANGED Credit!vars => UNCHANGED CT!vars
      BY DEF Credit!vars, CT!vars, Credit!timelockVars, CT!timelockVars,
             Credit!serialVars, CT!serialVars
    <3> QED
      BY <3>1, StepsOfCredit, SameCredit
  <2> QED
    BY <2>1, <2>2, CreditAssumptions, CT!CreditStep DEF CT!CreditStep
<1>2. RT!RegistryInv'
  <2>1. RT!RegistryInv
    BY SameRegistry DEF LedgerInv
  <2> QED
    BY <2>1, StepsOfRegistry, RegistryAssumptions, RT!RegistryStep
       DEF RT!RegistryStep
<1> QED
  BY <1>1, <1>2, SameAfter

\* A mint is a step of the credit contract; the totals stay as they are.
LEMMA CreditStepAccounted ==
  ASSUME LedgerInv, CreditStep
  PROVE  IssuedAccounted' /\ IsFiniteSet(Minted)'
<1>1. /\ unreported \subseteq Minted
      /\ Credit!CreditInv /\ IsFiniteSet(Minted)
  BY DEF LedgerInv, IssuedAccounted
<1>2. \A p \in Projects : IssuedAfter(p) = IssuedOf(p)
  BY DEF CreditStep, registryVars, IssuedAfter, IssuedOf, Registry!Registered,
         Registry!ProjectIds
<1>3. unreported' = unreported \cup (Minted' \ Minted)
  BY DEF CreditStep, Minted
<1>4. \/ /\ Minted' = Minted
         /\ \A c \in Minted : /\ batches'[c].project = batches[c].project
                              /\ batches'[c].amount = batches[c].amount
      \/ \E b \in BatchIds \ Minted :
           /\ Minted' = Minted \cup {b}
           /\ \A c \in Minted : batches'[c] = batches[c]
  <2>1. CT!CreditInv /\ CT!TimelockInv /\ [CT!Next]_(CT!vars)
    <3>1. CT!TimelockTypeOK
      BY <1>1, SameCredit DEF CT!CreditInv, CT!CreditTypeOK
    <3> QED
      BY <1>1, <3>1, SameCredit DEF LedgerInv, CreditStep
  <2>2. CT!Minted = Minted
    BY SameCredit DEF Minted
  <2>3. \/ /\ CT!Minted' = CT!Minted
           /\ \A c \in CT!Minted : /\ batches'[c].project = batches[c].project
                                   /\ batches'[c].amount = batches[c].amount
                                   /\ batches'[c].start = batches[c].start
                                   /\ batches'[c].end = batches[c].end
        \/ \E b \in BatchIds \ CT!Minted :
             /\ CT!Minted' = CT!Minted \cup {b}
             /\ \A c \in CT!Minted : batches'[c] = batches[c]
    BY <2>1, CreditAssumptions, CT!BatchesGrow DEF CT!BatchesGrow
  <2> QED
    BY <2>2, <2>3 DEF Minted, Credit!Minted, CT!Minted
<1>5. CASE /\ Minted' = Minted
           /\ \A c \in Minted : /\ batches'[c].project = batches[c].project
                                /\ batches'[c].amount = batches[c].amount
  <2>1. unreported' = unreported
    BY <1>3, <1>5
  <2> QED
    BY <1>1, <1>2, <1>5, <2>1, AccountsKept
<1>6. ASSUME NEW b \in BatchIds \ Minted,
             Minted' = Minted \cup {b},
             \A c \in Minted : batches'[c] = batches[c]
      PROVE  IssuedAccounted' /\ IsFiniteSet(Minted)'
  <2>1. unreported' = unreported \cup {b}
    BY <1>3, <1>6
  <2>2. Credit!CreditInv'
    BY ContractsKept DEF Next
  <2> QED
    BY <1>2, <1>6, <2>1, <2>2, MintAccounted
<1> QED
  BY <1>4, <1>5, <1>6

\* A step of the registry changes no total: only a report does.
LEMMA RegistryStepAccounted ==
  ASSUME LedgerInv, RegistryStep
  PROVE  IssuedAccounted' /\ IsFiniteSet(Minted)'
<1>1. /\ batches' = batches /\ unreported' = unreported
      /\ Minted' = Minted
  BY DEF RegistryStep, creditVars, Minted, Credit!Minted
<1>2. projects \in [Projects -> Registry!CarbonProject \cup {None}]
  BY DEF LedgerInv, Registry!RegistryInv, Registry!RegistryTypeOK,
         Registry!ProjectIds
<1>3. ASSUME NEW q \in Projects PROVE IssuedAfter(q) = IssuedOf(q)
  <2>1. CASE projects' = projects
    BY <2>1 DEF IssuedAfter, IssuedOf, Registry!Registered
  <2>2. ASSUME NEW p \in Projects, NEW s \in Registry!ProjectStatus,
               Registry!SetStatus(p, s)
        PROVE  IssuedAfter(q) = IssuedOf(q)
    <3>1. /\ projects[p] \in Registry!CarbonProject
          /\ projects' = [projects EXCEPT ![p].status = s]
      BY <1>2, <2>2 DEF Registry!SetStatus, Registry!Registered,
                        Registry!ProjectIds
    <3>2. CASE q # p
      <4>1. projects'[q] = projects[q]
        BY <1>2, <3>1, <3>2
      <4> QED
        BY <4>1 DEF IssuedAfter, IssuedOf, Registry!Registered,
                    Registry!ProjectIds
    <3>3. CASE q = p
      <4>1. projects'[q] = [projects[q] EXCEPT !.status = s]
        BY <1>2, <3>1, <3>3
      <4>2. projects'[q].issued = projects[q].issued
        BY <3>1, <3>3, <4>1 DEF Registry!CarbonProject
      <4>3. projects'[q] \in Registry!CarbonProject
        BY <3>1, <3>3, <4>1 DEF Registry!CarbonProject
      <4>4. projects[q] # None /\ projects'[q] # None
        BY <3>1, <3>3, <4>3
      <4> QED
        BY <4>2, <4>4 DEF IssuedAfter, IssuedOf, Registry!Registered,
                          Registry!ProjectIds
    <3> QED
      BY <3>2, <3>3
  <2>3. ASSUME NEW p \in Projects \ Registry!Registered,
               projects' = [projects EXCEPT
                              ![p] = [status |-> "Pending", issued |-> 0]]
        PROVE  IssuedAfter(q) = IssuedOf(q)
    <3>1. CASE q # p
      <4>1. projects'[q] = projects[q]
        BY <1>2, <2>3, <3>1
      <4> QED
        BY <4>1 DEF IssuedAfter, IssuedOf, Registry!Registered,
                    Registry!ProjectIds
    <3>2. CASE q = p
      <4>1. projects'[q] = [status |-> "Pending", issued |-> 0]
        BY <1>2, <2>3, <3>2
      <4>2. projects'[q].issued = 0
        BY <4>1
      <4> QED
        BY <2>3, <3>2, <4>2 DEF IssuedAfter, IssuedOf
    <3> QED
      BY <3>1, <3>2
  <2> QED
    BY <2>1, <2>2, <2>3, RegistryMoves DEF RegistryStep
<1> QED
  BY <1>1, <1>3, AccountsKept DEF LedgerInv

\* Every step keeps the inductive invariant.
LEMMA LedgerStep == LedgerInv /\ [Next]_vars => LedgerInv'
<1> SUFFICES ASSUME LedgerInv, [Next]_vars PROVE LedgerInv'
  OBVIOUS
<1>1. IssuedAccounted' /\ IsFiniteSet(Minted)'
  <2>1. ASSUME NEW a \in Addresses, NEW b \in BatchIds, Report(a, b)
        PROVE  IssuedAccounted' /\ IsFiniteSet(Minted)'
    <3>1. Minted' = Minted
      BY <2>1 DEF Report, creditVars, Minted, Credit!Minted
    <3> QED
      BY <2>1, <3>1, ReportAccounted DEF LedgerInv
  <2>2. CASE UNCHANGED vars
    <3>1. /\ batches' = batches /\ projects' = projects
          /\ unreported' = unreported
      BY <2>2 DEF vars, creditVars, registryVars
    <3>2. Minted' = Minted /\ \A p \in Projects : IssuedAfter(p) = IssuedOf(p)
      BY <3>1 DEF Minted, Credit!Minted, IssuedAfter, IssuedOf,
                  Registry!Registered
    <3> QED
      BY <3>1, <3>2, AccountsKept DEF LedgerInv
  <2> QED
    BY <2>1, <2>2, RegistryStepAccounted, CreditStepAccounted DEF Next
<1> QED
  BY <1>1, ContractsKept DEF LedgerInv

-----------------------------------------------------------------------------
\* The inductive invariant of the ledger: each contract keeps what it keeps
\* alone, and the accounts between them agree.
THEOREM LedgerInvariant == Spec => []LedgerInv
  BY LedgerInit, LedgerStep, PTL DEF Spec

\* No credit is lost and none is counted twice between the contracts: issued
\* totals and pending events account for all credits of every project, for
\* any order of mints, reports and registrations (I-SYS-1 of
\* docs/formal-spec.md).
THEOREM AllIssuedAccounted == Spec => []IssuedAccounted
<1>1. LedgerInv => IssuedAccounted
  BY DEF LedgerInv
<1> QED
  BY <1>1, LedgerInvariant, PTL

\* The total and a pending report together are part of the credits of the
\* project, which are no more than there are serials.
LEMMA LedgerFits == LedgerInv => ReportsFit
<1> SUFFICES ASSUME LedgerInv, NEW b \in unreported,
                    batches[b].project \in Registry!Registered
             PROVE  projects[batches[b].project].issued + batches[b].amount
                      \in 0 .. I128Max
  BY DEF ReportsFit
<1> DEFINE p == batches[b].project
           S == BatchesOf(p)
           T == BatchesOf(p) \cap unreported
<1>1. /\ Credit!CreditInv /\ Registry!RegistryInv /\ IsFiniteSet(Minted)
      /\ b \in Minted
  BY DEF LedgerInv, IssuedAccounted
<1>2. p \in Projects /\ batches[b].amount \in 1 .. U64Max
  BY <1>1, BatchFacts
<1>3. S \in SUBSET Minted /\ T \in SUBSET Minted /\ b \in T
  BY <1>1 DEF BatchesOf
<1>4. IssuedOf(p) + Credits(T) = Credits(S)
  BY <1>2 DEF LedgerInv, IssuedAccounted
<1>5. projects[p].issued = IssuedOf(p) /\ IssuedOf(p) \in 0 .. I128Max
  BY <1>1, <1>2, IssuedFacts
<1> HIDE DEF p, S, T
<1>6. /\ Credits(T) = batches[b].amount + Credits(T \ {b})
      /\ Credits(T \ {b}) \in Nat
  BY <1>1, <1>3, CreditsMember, CreditsFacts
<1>7. Credits(S) \in Nat /\ Credits(S) <= U64Max + 1
  BY <1>1, <1>3, CreditsFacts, CreditsBounded
<1>8. projects[p].issued + batches[b].amount \in 0 .. I128Max
  BY <1>2, <1>4, <1>5, <1>6, <1>7
<1> QED
  BY <1>8 DEF p

\* The registry never refuses a report about a registered project for its
\* amount: increment_issued stays within an i128 (checked_add).
THEOREM EveryReportFits == Spec => []ReportsFit
  BY LedgerInvariant, LedgerFits, PTL

\* The ledger implements the credit contract alone: the registry, and a
\* clock moved by either, add no behaviour to it.
THEOREM ImplementsCredit == Spec => Credit!Spec
<1>1. Init => Credit!Init
  BY DEF Init
<1>2. [Next]_vars => [Credit!Next]_(Credit!vars)
  BY StepsOfCredit
<1> QED
  BY <1>1, <1>2, PTL DEF Spec, Credit!Spec

\* The ledger implements the registry alone, with reports of at least one
\* credit: all its reports are of amounts of batches.
THEOREM ImplementsRegistry == Spec => RT!Spec
<1>1. Init => RT!Init
  BY SameRegistry DEF Init
<1>2. LedgerInv /\ [Next]_vars => [RT!Next]_(RT!vars)
  BY StepsOfRegistry
<1> QED
  BY <1>1, <1>2, LedgerInvariant, PTL DEF Spec, RT!Spec

\* While the registry is told of mints only, no project's issued total ever
\* decreases (I-REG-2): each report is of at least one credit.
THEOREM IssuedOnlyGrows == Spec => RT!IssuedNeverDecreases
<1>1. 1 .. U64Max \subseteq Nat
  OBVIOUS
<1>2. RT!Spec => RT!IssuedNeverDecreases
  BY <1>1, RegistryAssumptions, RT!TotalsOnlyGrow DEF RT!TotalsOnlyGrow
<1> QED
  BY <1>2, ImplementsRegistry, PTL
=============================================================================
