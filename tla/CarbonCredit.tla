---------------------------- MODULE CarbonCredit ----------------------------
(***************************************************************************)
(* The carbon_credit contract: batches of credits with serial numbers that *)
(* are unique across the contract, retirement of parts of a batch with a   *)
(* certificate, and the time-locked pause.                                 *)
(*                                                                         *)
(* The host runs invocations one at a time and discards the writes of one  *)
(* that fails, so one action is one successful invocation.  Each of them   *)
(* takes the re-entrancy lock first and releases it last and calls no      *)
(* other contract in between: the lock is never seen taken.                *)
(*                                                                         *)
(* Left out: names, CIDs, reasons and hashes, which are only required not  *)
(* to be empty (the sets of identifiers below are of non-empty strings);   *)
(* issue and retirement dates; the stored registry address, which no       *)
(* function reads; transfer_credits, which changes no state.               *)
(***************************************************************************)
EXTENDS Timelock, Sequences

CONSTANTS
  Addresses,
  ProjectIds,
  BatchIds,
  RetirementIds,
  Amounts,        \* i128 arguments, zero and negative ones included
  Vintages        \* u32 arguments, valid and not

ASSUME CreditAssumption ==
  /\ Amounts \subseteq Int
  /\ None \notin Addresses

VARIABLES
  admin,           \* DataKey::Admin
  batches,         \* DataKey::Batch
  serialRegistry,  \* DataKey::SerialRegistry; only ever scanned as a whole
  projectBatches,  \* DataKey::ProjectBatches
  retired,         \* RetiredKey::BatchRetired, 0 while not set
  retirements,     \* DataKey::Retirement
  pausePublished   \* whether a "paused" event has been published

serialVars == <<batches, serialRegistry, projectBatches, retired, retirements>>
vars == <<timelockVars, admin, serialVars, pausePublished>>

CreditStatus == {"Active", "PartiallyRetired", "FullyRetired", "Suspended"}

CreditBatch ==
  [project : ProjectIds, amount : U64 \ {0}, start : U64, end : U64,
   status : CreditStatus]

\* serial_numbers is the list of all serials from first to last.
RetirementCertificate ==
  [batch : BatchIds, amount : U64 \ {0}, first : U64, last : U64]

SerialRange == [start : U64, end : U64]

ASSUME RecordAssumption ==
  None \notin CreditBatch /\ None \notin RetirementCertificate

Init ==
  /\ TimelockInit
  /\ admin = None
  /\ batches = [b \in BatchIds |-> None]
  /\ serialRegistry = {}
  /\ projectBatches = [p \in ProjectIds |-> <<>>]
  /\ retired = [b \in BatchIds |-> 0]
  /\ retirements = [r \in RetirementIds |-> None]
  /\ pausePublished = FALSE

-----------------------------------------------------------------------------
Minted == {b \in BatchIds : batches[b] # None}

RequireAdmin(caller) == admin = caller

\* The cast of an i128 to u64 keeps the low 64 bits.
AsU64(x) == IF x \in U64 THEN x ELSE x % (U64Max + 1)

\* Mutation: ranges that share an end point are taken as disjoint.
VerifySerialRangeStrict(start, end) ==
  \A r \in serialRegistry : ~(start < r.end /\ end > r.start)

\* Mutation: only the first serial of the new range is looked up.
VerifySerialRangeEnds(start, end) ==
  \A r \in serialRegistry : ~(start <= r.end /\ start >= r.start)

\* verify_serial_range: TRUE when the range is free.
VerifySerialRange(start, end) ==
  \A r \in serialRegistry : ~(start <= r.end /\ end >= r.start)

\* Mutation: the length of the range is not a checked u64.
AssertValidBatchUnchecked(batch) ==
  /\ batch.amount > 0
  /\ batch.end >= batch.start
  /\ batch.end - batch.start + 1 = batch.amount

\* The length of the range is a checked u64, so a batch of all 2^64 serials
\* is refused.
AssertValidBatch(batch) ==
  LET span == batch.end - batch.start IN
    /\ batch.amount > 0
    /\ batch.end >= batch.start
    /\ span + 1 <= U64Max
    /\ span + 1 = batch.amount

\* Mutation: a batch id can be used again.
MintableAgain(amount, vintage, b, start, end) ==
  /\ amount > 0
  /\ end >= start
  /\ vintage \in 2000 .. 2100
  /\ VerifySerialRange(start, end)

\* The checks mint_credits makes before its first write.
Mintable(amount, vintage, b, start, end) ==
  /\ amount > 0
  /\ end >= start
  /\ vintage \in 2000 .. 2100
  /\ batches[b] = None
  /\ VerifySerialRange(start, end)

AssertValidRetirement(cert) ==
  LET count == cert.last - cert.first + 1 IN
    /\ cert.amount > 0
    /\ count = cert.amount

\* Mutation: the credits retired earlier are not subtracted.
ActiveAmountStale(b) == batches[b].amount

ActiveAmount(b) ==
  IF batches[b].status = "FullyRetired" THEN 0
                                        ELSE batches[b].amount - retired[b]

\* The checks retire_credits makes before it writes.
Retirable(b, amount) ==
  /\ amount > 0
  /\ batches[b] # None
  /\ batches[b].status \notin {"FullyRetired", "Suspended"}
  /\ amount <= ActiveAmount(b)

-----------------------------------------------------------------------------
\* Mutation: initialize does not check that an admin is set.
InitializeAgain(a) ==
  /\ admin' = a
  /\ serialRegistry' = {}
  /\ UNCHANGED <<timelockVars, batches, projectBatches, retired, retirements,
                 pausePublished>>

Initialize(a) ==
  /\ admin = None
  /\ admin' = a
  /\ serialRegistry' = {}
  /\ UNCHANGED <<timelockVars, batches, projectBatches, retired, retirements,
                 pausePublished>>

\* Mutation: the range registered for a batch that turns out invalid stays.
MintCreditsKeepRange(caller, project, amount, vintage, b, start, end) ==
  LET batch == [project |-> project, amount |-> amount, start |-> start,
                end |-> end, status |-> "Active"]
  IN
    /\ RequireAdmin(caller)
    /\ Mintable(amount, vintage, b, start, end)
    /\ serialRegistry' = serialRegistry \cup {[start |-> start, end |-> end]}
    /\ \/ /\ AssertValidBatch(batch)
          /\ batches' = [batches EXCEPT ![b] = batch]
          /\ projectBatches' = [projectBatches EXCEPT ![project] = Append(@, b)]
       \/ /\ ~AssertValidBatch(batch)
          /\ UNCHANGED <<batches, projectBatches>>
    /\ UNCHANGED <<timelockVars, admin, retired, retirements, pausePublished>>

\* The range is registered before the batch is validated; a batch found
\* invalid fails the invocation, and the range goes with it.
MintCredits(caller, project, amount, vintage, b, start, end) ==
  LET batch == [project |-> project, amount |-> amount, start |-> start,
                end |-> end, status |-> "Active"]
  IN
    /\ RequireAdmin(caller)
    /\ Mintable(amount, vintage, b, start, end)
    /\ serialRegistry' = serialRegistry \cup {[start |-> start, end |-> end]}
    /\ AssertValidBatch(batch)
    /\ batches' = [batches EXCEPT ![b] = batch]
    /\ projectBatches' = [projectBatches EXCEPT ![project] = Append(@, b)]
    /\ UNCHANGED <<timelockVars, admin, retired, retirements, pausePublished>>

\* Mutation: every retirement starts at the first serial of the batch.
SliceStartOfBatch(b) == batches[b].start

\* The slice a retirement takes: the serials after those already retired.
SliceStart(b) == batches[b].start + AsU64(retired[b])

SliceEnd(b, amount) == SliceStart(b) + AsU64(amount - 1)

\* Mutation: a certificate on record is kept, and the burn still happens.
StoreCertificateOnce(rid, cert) ==
  retirements' = IF retirements[rid] = None
                   THEN [retirements EXCEPT ![rid] = cert] ELSE retirements

\* The certificate goes under the id the caller supplies, over an earlier
\* one if there is one.
StoreCertificate(rid, cert) ==
  retirements' = [retirements EXCEPT ![rid] = cert]

\* Any authenticated address may retire.
RetireCredits(b, amount, rid) ==
  LET newRetired == retired[b] + amount
      newActive  == batches[b].amount - newRetired
      cert       == [batch |-> b, amount |-> amount,
                     first |-> SliceStart(b), last |-> SliceEnd(b, amount)]
  IN
    /\ Retirable(b, amount)
    /\ SliceStart(b) <= U64Max
    /\ SliceEnd(b, amount) <= U64Max
    /\ retired' = [retired EXCEPT ![b] = newRetired]
    /\ batches' = [batches EXCEPT ![b].status =
         IF newActive = 0 THEN "FullyRetired" ELSE "PartiallyRetired"]
    /\ AssertValidRetirement(cert)
    /\ StoreCertificate(rid, cert)
    /\ UNCHANGED <<timelockVars, admin, serialRegistry, projectBatches,
                   pausePublished>>

-----------------------------------------------------------------------------
\* Governance: the time-lock, with admin as the role.
ProposePause(caller, o, reason) ==
  /\ RequireAdmin(caller)
  /\ ProposeOp(o, reason)
  /\ UNCHANGED <<admin, serialVars, pausePublished>>

\* Only the event says that the contract is paused: nothing is stored.
ExecutePause(caller, o) ==
  /\ RequireAdmin(caller)
  /\ ExecuteOp(o)
  /\ pausePublished' = TRUE
  /\ UNCHANGED <<admin, serialVars>>

Contest(o) ==
  /\ ContestOperation(o)
  /\ UNCHANGED <<admin, serialVars, pausePublished>>

Rollback(caller, o) ==
  /\ RequireAdmin(caller)
  /\ RollbackOperation(o)
  /\ UNCHANGED <<admin, serialVars, pausePublished>>

SetDelay(caller, d) ==
  /\ RequireAdmin(caller)
  /\ SetTimelockDelay(d)
  /\ UNCHANGED <<admin, serialVars, pausePublished>>

CloseLedger ==
  /\ Tick
  /\ UNCHANGED <<admin, serialVars, pausePublished>>

-----------------------------------------------------------------------------
Credits ==
  \/ \E a \in Addresses : Initialize(a)
  \/ \E a \in Addresses, p \in ProjectIds, amount \in Amounts,
        vintage \in Vintages, b \in BatchIds, start \in U64, end \in U64 :
       MintCredits(a, p, amount, vintage, b, start, end)
  \/ \E b \in BatchIds, amount \in Amounts, rid \in RetirementIds :
       RetireCredits(b, amount, rid)

Governance ==
  \/ \E a \in Addresses, o \in OpIds :
       \/ \E reason \in Payloads : ProposePause(a, o, reason)
       \/ ExecutePause(a, o)
       \/ Rollback(a, o)
  \/ \E o \in OpIds : Contest(o)
  \/ \E a \in Addresses, d \in Delays : SetDelay(a, d)
  \/ CloseLedger

Next == Credits \/ Governance

Spec == Init /\ [][Next]_vars

-----------------------------------------------------------------------------
CreditTypeOK ==
  /\ TimelockTypeOK
  /\ admin \in Addresses \cup {None}
  /\ batches \in [BatchIds -> CreditBatch \cup {None}]
  /\ serialRegistry \subseteq SerialRange
  /\ projectBatches \in [ProjectIds -> Seq(BatchIds)]
  /\ retired \in [BatchIds -> U64]
  /\ retirements \in [RetirementIds -> RetirementCertificate \cup {None}]
  /\ pausePublished \in BOOLEAN

BatchSerials(b) == batches[b].start .. batches[b].end

\* Retirement takes the serials of a batch in order, from its start.
BurnedSerials(b) == batches[b].start .. batches[b].start + retired[b] - 1

CertSerials(cert) == cert.first .. cert.last

Burned == UNION {BurnedSerials(b) : b \in Minted}

\* The lots of the abstract ledger: the batches.
IssuedByBatch ==
  [b \in BatchIds |-> IF b \in Minted THEN BatchSerials(b) ELSE {}]
BurnedByBatch ==
  [b \in BatchIds |-> IF b \in Minted THEN BurnedSerials(b) ELSE {}]

(***************************************************************************)
(* No serial number belongs to two batches (mint_credits and the overlap   *)
(* check of verify_serial_range_internal; SerialNumberConflict,            *)
(* DoubleCountingDetected).                                                *)
(***************************************************************************)
SerialsUnique ==
  \A b, c \in Minted : b # c => BatchSerials(b) \cap BatchSerials(c) = {}

(***************************************************************************)
(* The ranges the overlap check consults are exactly the ranges of the     *)
(* batches that exist, though mint_credits registers a range before the    *)
(* batch has been validated: none is missing, so no serial can be issued   *)
(* twice, and none is left by a failed mint, so no serial is lost.         *)
(***************************************************************************)
RegistryMatchesBatches ==
  serialRegistry =
    {[start |-> batches[b].start, end |-> batches[b].end] : b \in Minted}

(***************************************************************************)
(* The records that count the credits of a batch agree: it has as many     *)
(* serials as credits, the counter of retired credits is at most the       *)
(* amount, the status is Active exactly when the counter is zero and       *)
(* FullyRetired exactly when nothing is left, and a batch id that was      *)
(* never minted has no retirements waiting for it.                         *)
(***************************************************************************)
BatchAccounting ==
  \A b \in BatchIds :
    IF batches[b] = None
      THEN retired[b] = 0
      ELSE /\ batches[b].amount = batches[b].end - batches[b].start + 1
           /\ retired[b] <= batches[b].amount
           /\ batches[b].status =
                IF retired[b] = 0 THEN "Active"
                ELSE IF retired[b] = batches[b].amount THEN "FullyRetired"
                ELSE "PartiallyRetired"

(***************************************************************************)
(* No credit is retired twice: the certificates on record name disjoint    *)
(* serials, all of them among the burned serials of their batch, and as    *)
(* many as the certificate's amount -- whatever ids the callers chose.     *)
(***************************************************************************)
NoDoubleRetirement ==
  \A r \in RetirementIds : retirements[r] # None =>
    LET cert == retirements[r] IN
      /\ batches[cert.batch] # None
      /\ CertSerials(cert) \subseteq BurnedSerials(cert.batch)
      /\ cert.last - cert.first + 1 = cert.amount
      /\ \A s \in RetirementIds \ {r} : retirements[s] # None =>
           CertSerials(cert) \cap CertSerials(retirements[s]) = {}

(***************************************************************************)
(* get_project_credits lists a batch once, under its own project, and      *)
(* lists nothing that does not exist.                                      *)
(***************************************************************************)
ProjectIndexExact ==
  \A p \in ProjectIds :
    /\ \A i, j \in DOMAIN projectBatches[p] :
         projectBatches[p][i] = projectBatches[p][j] => i = j
    /\ {projectBatches[p][i] : i \in DOMAIN projectBatches[p]} =
         {b \in Minted : batches[b].project = p}

(***************************************************************************)
(* The inductive invariant of the contract: the accounts above, and that   *)
(* initialize, which empties the registry of ranges, can only run while    *)
(* there is no batch whose range it would forget.                          *)
(***************************************************************************)
CreditInv ==
  /\ CreditTypeOK
  /\ admin = None => Minted = {}
  /\ SerialsUnique
  /\ RegistryMatchesBatches
  /\ BatchAccounting
  /\ NoDoubleRetirement

(***************************************************************************)
(* The certificate written by a retirement names exactly the serials which *)
(* that retirement burned, and no serial is burned without a certificate   *)
(* being written in the same invocation.                                   *)
(***************************************************************************)
CertificatesDocumentBurns ==
  [][ Burned' \ Burned =
        UNION {CertSerials(retirements'[r]) :
                 r \in {q \in RetirementIds :
                          retirements'[q] # retirements[q]}} ]_vars

(***************************************************************************)
(* The certificates are a complete account of each batch: their serials    *)
(* are all its burned serials.                                             *)
(***************************************************************************)
CertificatesComplete ==
  \A b \in Minted :
    BurnedSerials(b) =
      UNION {CertSerials(retirements[r]) :
               r \in {q \in RetirementIds : /\ retirements[q] # None
                                            /\ retirements[q].batch = b}}

\* The obligation which docs/formal-spec.md (Theorem R, Gap 2) puts on the
\* callers: a retirement id is used once.
FreshRetirementId ==
  \A r \in RetirementIds :
    retirements'[r] # retirements[r] => retirements[r] = None

(***************************************************************************)
(* The account stays complete for as long as the callers meet their        *)
(* obligation: only a retirement under an id used before leaves burned     *)
(* serials that no certificate names, never a mint or a retirement of      *)
(* several slices in any order under fresh ids.                            *)
(***************************************************************************)
FreshIdsKeepAccount ==
  [][ CertificatesComplete /\ FreshRetirementId => CertificatesComplete' ]_vars

(***************************************************************************)
(* The contract implements the abstract ledger of serial numbers: every    *)
(* invocation issues one batch of fresh serials, or burns live ones of one *)
(* batch, or does neither.                                                 *)
(***************************************************************************)
Ledger == INSTANCE SerialLedger
            WITH Serials <- U64, Lots <- BatchIds,
                 issued <- IssuedByBatch, burned <- BurnedByBatch
LedgerSpec == Ledger!Spec

-----------------------------------------------------------------------------
(***************************************************************************)
(* What the documentation says and the code does not do.                   *)
(***************************************************************************)

\* "Propose pausing all credit mutations": after an executed pause no batch
\* is minted and no credit is retired (doc comment of propose_pause).
PauseHaltsMutations ==
  [][ pausePublished => UNCHANGED serialVars ]_vars
=============================================================================
