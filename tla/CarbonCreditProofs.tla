------------------------- MODULE CarbonCreditProofs -------------------------
(***************************************************************************)
(* Proofs about the credit contract, for all sets of identifiers, all      *)
(* arguments and all widths of the integers.                               *)
(***************************************************************************)
EXTENDS CarbonCredit, TimelockProofs

USE TimelockAssumption, PendingOpAssumption, CreditAssumption,
    RecordAssumption

-----------------------------------------------------------------------------
\* A batch that exists is a record of type CreditBatch, with a serial range
\* inside u64 and a counter inside its amount: the facts that the proofs
\* below use of the type invariant.
LEMMA MintedFacts ==
  ASSUME CreditInv, NEW b \in Minted
  PROVE  /\ b \in BatchIds
         /\ batches[b] \in CreditBatch
         /\ batches[b].start \in 0 .. U64Max
         /\ batches[b].end \in 0 .. U64Max
         /\ batches[b].amount = batches[b].end - batches[b].start + 1
         /\ batches[b].amount \in 1 .. U64Max
         /\ retired[b] \in 0 .. batches[b].amount
<1>1. b \in BatchIds /\ batches[b] # None
  BY DEF Minted
<1>2. batches[b] \in CreditBatch /\ retired[b] \in U64
  BY <1>1 DEF CreditInv, CreditTypeOK
<1>3. /\ batches[b].start \in U64
      /\ batches[b].end \in U64
      /\ batches[b].amount \in U64 \ {0}
  BY <1>2 DEF CreditBatch
<1>4. /\ batches[b].amount = batches[b].end - batches[b].start + 1
      /\ retired[b] <= batches[b].amount
  BY <1>1 DEF CreditInv, BatchAccounting
<1> QED
  BY <1>1, <1>2, <1>3, <1>4 DEF U64

\* The contract starts in a state of the invariant.
LEMMA CreditInit == Init => CreditInv /\ TimelockInv
<1> SUFFICES ASSUME Init PROVE CreditInv /\ TimelockInv
  OBVIOUS
<1>1. TimelockInv
  BY TimelockInitInv DEF Init
<1>2. CreditTypeOK
  <2>1. 0 \in U64
    BY DEF U64
  <2>2. << >> \in Seq(BatchIds)
    OBVIOUS
  <2>3. TimelockTypeOK
    BY <1>1 DEF TimelockInv
  <2> QED
    BY <2>1, <2>2, <2>3 DEF Init, CreditTypeOK
<1>3. Minted = {}
  BY DEF Init, Minted
<1>4. SerialsUnique /\ RegistryMatchesBatches
  BY <1>3 DEF SerialsUnique, RegistryMatchesBatches, Init
<1>5. BatchAccounting /\ NoDoubleRetirement
  BY DEF Init, BatchAccounting, NoDoubleRetirement
<1> QED
  BY <1>1, <1>2, <1>3, <1>4, <1>5 DEF CreditInv

\* A step that leaves the serials alone keeps the invariant: all the
\* governance calls, the passing of time and stuttering.
LEMMA SerialsUntouched ==
  ASSUME CreditInv, UNCHANGED serialVars, UNCHANGED admin,
         TimelockTypeOK', pausePublished' \in BOOLEAN
  PROVE  CreditInv'
<1>1. CreditTypeOK'
  BY DEF CreditInv, CreditTypeOK, serialVars
<1>2. (admin = None => Minted = {})'
  BY DEF CreditInv, Minted, serialVars
<1>3. SerialsUnique'
  BY DEF CreditInv, SerialsUnique, Minted, BatchSerials, serialVars
<1>4. RegistryMatchesBatches'
  BY DEF CreditInv, RegistryMatchesBatches, Minted, serialVars
<1>5. BatchAccounting'
  BY DEF CreditInv, BatchAccounting, serialVars
<1>6. NoDoubleRetirement'
  BY DEF CreditInv, NoDoubleRetirement, CertSerials, BurnedSerials, serialVars
<1> QED
  BY <1>1, <1>2, <1>3, <1>4, <1>5, <1>6 DEF CreditInv

\* initialize keeps the invariant although it empties the registry of
\* ranges, since no batch exists before it.
LEMMA InitializeKeeps ==
  ASSUME CreditInv, NEW a \in Addresses, Initialize(a)
  PROVE  CreditInv'
<1>1. Minted = {} /\ Minted' = {}
  BY DEF CreditInv, Initialize, Minted
<1>2. CreditTypeOK'
  BY DEF CreditInv, CreditTypeOK, TimelockTypeOK, Initialize, timelockVars
<1>3. SerialsUnique' /\ RegistryMatchesBatches'
  BY <1>1 DEF SerialsUnique, RegistryMatchesBatches, Initialize
<1>4. BatchAccounting'
  BY DEF CreditInv, BatchAccounting, Initialize
<1>5. NoDoubleRetirement'
  BY DEF CreditInv, NoDoubleRetirement, CertSerials, BurnedSerials, Initialize
<1> QED
  BY <1>1, <1>2, <1>3, <1>4, <1>5 DEF CreditInv

-----------------------------------------------------------------------------
\* What mint_credits knows and changes, in the terms the proofs below need:
\* the overlap check, made against the registry, keeps the new range apart
\* from the range of every batch.
LEMMA MintEffect ==
  ASSUME CreditInv,
         NEW caller \in Addresses, NEW project \in ProjectIds,
         NEW amount \in Amounts, NEW vintage \in Vintages,
         NEW b \in BatchIds, NEW start \in U64, NEW end \in U64,
         MintCredits(caller, project, amount, vintage, b, start, end)
  PROVE  /\ start \in 0 .. U64Max
         /\ end \in 0 .. U64Max
         /\ start <= end
         /\ amount = end - start + 1
         /\ amount \in 1 .. U64Max
         /\ Minted' = Minted \cup {b}
         /\ b \notin Minted
         /\ retired[b] = 0
         /\ batches'[b] = [project |-> project, amount |-> amount,
                           start |-> start, end |-> end, status |-> "Active"]
         /\ batches'[b] \in CreditBatch
         /\ batches' = [batches EXCEPT ![b] = batches'[b]]
         /\ \A c \in BatchIds : c # b => batches'[c] = batches[c]
         /\ \A c \in Minted :
              ~(start <= batches[c].end /\ end >= batches[c].start)
         /\ admin # None
<1> DEFINE batch == [project |-> project, amount |-> amount, start |-> start,
                     end |-> end, status |-> "Active"]
<1>1. /\ admin' = admin
      /\ admin # None
      /\ batches' = [batches EXCEPT ![b] = batch]
      /\ serialRegistry' =
           serialRegistry \cup {[start |-> start, end |-> end]}
      /\ projectBatches' =
           [projectBatches EXCEPT ![project] = Append(@, b)]
      /\ UNCHANGED <<timelockVars, retired, retirements, pausePublished>>
  BY DEF MintCredits, RequireAdmin
<1>2. /\ start \in 0 .. U64Max
      /\ end \in 0 .. U64Max
      /\ start <= end
      /\ amount = end - start + 1
      /\ amount \in 1 .. U64Max
  <2>1. start \in Int /\ end \in Int /\ amount \in Int
    BY DEF U64
  <2>2. amount > 0 /\ end >= start
    BY DEF MintCredits, Mintable
  <2>3. end - start + 1 <= U64Max /\ end - start + 1 = amount
    BY DEF MintCredits, AssertValidBatch
  <2> QED
    BY <2>1, <2>2, <2>3 DEF U64
<1>3. batch \in CreditBatch
  BY <1>2 DEF CreditBatch, CreditStatus, U64
<1>4. batches[b] = None
  BY DEF MintCredits, Mintable
<1>5. batches \in [BatchIds -> CreditBatch \cup {None}]
  BY DEF CreditInv, CreditTypeOK
<1>6. /\ batches'[b] = batch
      /\ batches'[b] # None
      /\ \A c \in BatchIds : c # b => batches'[c] = batches[c]
  BY <1>1, <1>3, <1>5
<1>7. Minted' = Minted \cup {b} /\ b \notin Minted
  BY <1>4, <1>6 DEF Minted
<1>8. retired[b] = 0
  BY <1>4 DEF CreditInv, BatchAccounting
<1>9. \A c \in Minted : ~(start <= batches[c].end /\ end >= batches[c].start)
  <2> SUFFICES ASSUME NEW c \in Minted
               PROVE  ~(start <= batches[c].end /\ end >= batches[c].start)
    OBVIOUS
  <2> DEFINE range == [start |-> batches[c].start, end |-> batches[c].end]
  <2>1. range \in serialRegistry
    BY DEF CreditInv, RegistryMatchesBatches
  <2>2. ~(start <= range.end /\ end >= range.start)
    BY <2>1 DEF MintCredits, Mintable, VerifySerialRange
  <2> QED
    BY <2>2
<1> QED
  BY <1>1, <1>2, <1>3, <1>4, <1>6, <1>7, <1>8, <1>9

\* mint_credits keeps the invariant.
LEMMA MintKeeps ==
  ASSUME CreditInv,
         NEW caller \in Addresses, NEW project \in ProjectIds,
         NEW amount \in Amounts, NEW vintage \in Vintages,
         NEW b \in BatchIds, NEW start \in U64, NEW end \in U64,
         MintCredits(caller, project, amount, vintage, b, start, end)
  PROVE  CreditInv'
<1> DEFINE batch == [project |-> project, amount |-> amount, start |-> start,
                     end |-> end, status |-> "Active"]
<1>0. /\ start \in 0 .. U64Max
      /\ end \in 0 .. U64Max
      /\ start <= end
      /\ amount = end - start + 1
      /\ amount \in 1 .. U64Max
      /\ Minted' = Minted \cup {b}
      /\ b \notin Minted
      /\ retired[b] = 0
      /\ batches'[b] = batch
      /\ batches'[b] \in CreditBatch
      /\ batches' = [batches EXCEPT ![b] = batches'[b]]
      /\ \A c \in BatchIds : c # b => batches'[c] = batches[c]
      /\ \A c \in Minted :
           ~(start <= batches[c].end /\ end >= batches[c].start)
      /\ admin # None
  BY MintEffect
<1>1. /\ UNCHANGED <<timelockVars, admin, retired, retirements,
                     pausePublished>>
      /\ serialRegistry' =
           serialRegistry \cup {[start |-> start, end |-> end]}
      /\ projectBatches' =
           [projectBatches EXCEPT ![project] = Append(@, b)]
  BY DEF MintCredits
<1>2. CreditTypeOK'
  <2>1. TimelockTypeOK'
    BY <1>1 DEF CreditInv, CreditTypeOK, TimelockTypeOK, timelockVars
  <2>2. batches' \in [BatchIds -> CreditBatch \cup {None}]
    BY <1>0 DEF CreditInv, CreditTypeOK
  <2>3. serialRegistry' \subseteq SerialRange
    BY <1>1 DEF CreditInv, CreditTypeOK, SerialRange
  <2>4. projectBatches' \in [ProjectIds -> Seq(BatchIds)]
    BY <1>1 DEF CreditInv, CreditTypeOK
  <2> QED
    BY <1>1, <2>1, <2>2, <2>3, <2>4 DEF CreditInv, CreditTypeOK
<1>3. \A c \in Minted : batches'[c] = batches[c]
  BY <1>0 DEF Minted
<1>4. SerialsUnique'
  <2> SUFFICES ASSUME NEW c \in Minted, NEW x \in Int,
                      x \in batches[c].start .. batches[c].end,
                      x \in start .. end
               PROVE  FALSE
    BY <1>3, <1>0, MintedFacts
       DEF CreditInv, SerialsUnique, BatchSerials
  <2> QED
    BY <1>0, MintedFacts
<1>5. RegistryMatchesBatches'
  BY <1>1, <1>3, <1>0 DEF CreditInv, RegistryMatchesBatches
<1>6. BatchAccounting'
  BY <1>1, <1>0 DEF CreditInv, BatchAccounting, Minted
<1>7. NoDoubleRetirement'
  <2>1. \A c \in Minted : BurnedSerials(c)' = BurnedSerials(c)
    BY <1>1, <1>3 DEF BurnedSerials
  <2>2. \A r \in RetirementIds : retirements[r] # None =>
          retirements[r].batch \in Minted
    BY DEF CreditInv, CreditTypeOK, NoDoubleRetirement, Minted,
           RetirementCertificate
  <2>3. \A c \in Minted : batches'[c] # None
    BY <1>3 DEF Minted
  <2> QED
    BY <1>1, <2>1, <2>2, <2>3 DEF CreditInv, NoDoubleRetirement, CertSerials
<1>8. (admin = None => Minted = {})'
  BY <1>1, <1>0
<1> QED
  BY <1>2, <1>4, <1>5, <1>6, <1>7, <1>8 DEF CreditInv

-----------------------------------------------------------------------------
\* A successful retirement computes without overflow and without truncation:
\* the casts of the counter and of the amount to u64 lose nothing, and the
\* slice ends inside the batch.
LEMMA RetireFacts ==
  ASSUME CreditInv, NEW b \in BatchIds, NEW amount \in Amounts,
         Retirable(b, amount)
  PROVE  /\ b \in Minted
         /\ amount \in 1 .. batches[b].amount - retired[b]
         /\ SliceStart(b) = batches[b].start + retired[b]
         /\ SliceEnd(b, amount) = SliceStart(b) + amount - 1
         /\ SliceEnd(b, amount) <= batches[b].end
<1>1. b \in Minted
  BY DEF Retirable, Minted
<1>2. amount \in 1 .. batches[b].amount - retired[b]
  BY <1>1, MintedFacts DEF Retirable, ActiveAmount
<1>3. retired[b] \in U64 /\ amount - 1 \in U64
  BY <1>1, <1>2, MintedFacts DEF U64
<1>4. AsU64(retired[b]) = retired[b] /\ AsU64(amount - 1) = amount - 1
  BY <1>3 DEF AsU64
<1>5. SliceStart(b) = batches[b].start + retired[b]
  BY <1>4 DEF SliceStart
<1>6. SliceEnd(b, amount) = SliceStart(b) + amount - 1
  BY <1>1, <1>2, <1>4, <1>5, MintedFacts DEF SliceEnd
<1>7. SliceEnd(b, amount) <= batches[b].end
  BY <1>1, <1>2, <1>5, <1>6, MintedFacts
<1> QED
  BY <1>1, <1>2, <1>5, <1>6, <1>7

\* The certificate of a successful retirement is well formed.
LEMMA RetireCertificate ==
  ASSUME CreditInv, NEW b \in BatchIds, NEW amount \in Amounts,
         Retirable(b, amount)
  PROVE  [batch |-> b, amount |-> amount, first |-> SliceStart(b),
          last |-> SliceEnd(b, amount)] \in RetirementCertificate
<1>1. /\ b \in Minted
      /\ amount \in 1 .. batches[b].amount - retired[b]
      /\ SliceStart(b) = batches[b].start + retired[b]
      /\ SliceEnd(b, amount) = SliceStart(b) + amount - 1
      /\ SliceEnd(b, amount) <= batches[b].end
  BY RetireFacts
<1>2. /\ batches[b].start \in 0 .. U64Max
      /\ batches[b].end \in 0 .. U64Max
      /\ batches[b].amount \in 1 .. U64Max
      /\ retired[b] \in 0 .. batches[b].amount
  BY <1>1, MintedFacts
<1>3. /\ amount \in U64 \ {0}
      /\ SliceStart(b) \in U64
      /\ SliceEnd(b, amount) \in U64
  BY <1>1, <1>2 DEF U64
<1> QED
  BY <1>3 DEF RetirementCertificate

\* What retire_credits changes, in the terms the proofs below need.
LEMMA RetireEffect ==
  ASSUME CreditInv, NEW b \in BatchIds, NEW amount \in Amounts,
         NEW rid \in RetirementIds, RetireCredits(b, amount, rid)
  PROVE  /\ Minted' = Minted
         /\ \A c \in BatchIds : /\ batches'[c].start = batches[c].start
                                /\ batches'[c].end = batches[c].end
                                /\ batches'[c].amount = batches[c].amount
         /\ \A c \in BatchIds : c # b => batches'[c] = batches[c]
         /\ \A c \in BatchIds : c # b => retired'[c] = retired[c]
         /\ retired'[b] = retired[b] + amount
         /\ retirements' = [retirements EXCEPT ![rid] =
              [batch |-> b, amount |-> amount, first |-> SliceStart(b),
               last |-> SliceEnd(b, amount)]]
         /\ batches' \in [BatchIds -> CreditBatch \cup {None}]
         /\ batches'[b].status =
              IF retired[b] + amount = batches[b].amount
                THEN "FullyRetired" ELSE "PartiallyRetired"
<1> DEFINE status == IF batches[b].amount - (retired[b] + amount) = 0
                       THEN "FullyRetired" ELSE "PartiallyRetired"
<1>1. /\ batches' = [batches EXCEPT ![b].status = status]
      /\ retired' = [retired EXCEPT ![b] = retired[b] + amount]
      /\ retirements' = [retirements EXCEPT ![rid] =
           [batch |-> b, amount |-> amount, first |-> SliceStart(b),
            last |-> SliceEnd(b, amount)]]
  BY DEF RetireCredits, StoreCertificate
<1>2. b \in Minted /\ amount \in Int
  BY RetireFacts DEF RetireCredits
<1>3. /\ batches \in [BatchIds -> CreditBatch \cup {None}]
      /\ retired \in [BatchIds -> U64]
      /\ batches[b] \in CreditBatch
  BY <1>2, MintedFacts DEF CreditInv, CreditTypeOK
<1>4. /\ \A c \in BatchIds : c # b => batches'[c] = batches[c]
      /\ batches'[b] = [batches[b] EXCEPT !.status = status]
  BY <1>1, <1>3
<1>5. /\ batches'[b] \in CreditBatch
      /\ batches'[b].start = batches[b].start
      /\ batches'[b].end = batches[b].end
      /\ batches'[b].amount = batches[b].amount
      /\ batches'[b].status = status
  <2>1. status \in CreditStatus
    BY DEF CreditStatus
  <2> QED
    BY <1>3, <1>4, <2>1 DEF CreditBatch
<1>6. batches' \in [BatchIds -> CreditBatch \cup {None}]
  BY <1>1, <1>3, <1>5
<1>7. Minted' = Minted
  BY <1>2, <1>4, <1>5 DEF Minted
<1>8. /\ \A c \in BatchIds : c # b => retired'[c] = retired[c]
      /\ retired'[b] = retired[b] + amount
  BY <1>1, <1>3
<1>9. status = IF retired[b] + amount = batches[b].amount
                 THEN "FullyRetired" ELSE "PartiallyRetired"
  BY <1>2, MintedFacts
<1> QED
  BY <1>1, <1>4, <1>5, <1>6, <1>7, <1>8, <1>9

\* retire_credits keeps the invariant: the slice starts right after the
\* serials retired before, so it meets no earlier certificate of the batch,
\* and it ends inside the batch, so it meets none of another batch.
LEMMA RetireKeeps ==
  ASSUME CreditInv,
         NEW b \in BatchIds, NEW amount \in Amounts,
         NEW rid \in RetirementIds, RetireCredits(b, amount, rid)
  PROVE  CreditInv'
<1> DEFINE cert == [batch |-> b, amount |-> amount, first |-> SliceStart(b),
                    last |-> SliceEnd(b, amount)]
<1>1. /\ b \in Minted
      /\ amount \in 1 .. batches[b].amount - retired[b]
      /\ SliceStart(b) = batches[b].start + retired[b]
      /\ SliceEnd(b, amount) = SliceStart(b) + amount - 1
      /\ SliceEnd(b, amount) <= batches[b].end
  BY RetireFacts DEF RetireCredits
<1>2. /\ UNCHANGED <<timelockVars, admin, serialRegistry, projectBatches,
                     pausePublished>>
      /\ retired' = [retired EXCEPT ![b] = retired[b] + amount]
  BY DEF RetireCredits
<1>3. cert \in RetirementCertificate
  BY RetireCertificate DEF RetireCredits
<1>4. retirements \in [RetirementIds -> RetirementCertificate \cup {None}]
  BY DEF CreditInv, CreditTypeOK
<1>5. /\ retirements'[rid] = cert
      /\ retirements'[rid] # None
      /\ \A r \in RetirementIds : r # rid => retirements'[r] = retirements[r]
  BY <1>3, <1>4, RetireEffect
<1>6. CreditTypeOK'
  <2>1. retired' \in [BatchIds -> U64]
    BY <1>1, <1>2, MintedFacts DEF CreditInv, CreditTypeOK, U64
  <2>2. retirements' \in [RetirementIds -> RetirementCertificate \cup {None}]
    BY <1>3, <1>4, RetireEffect
  <2>3. batches' \in [BatchIds -> CreditBatch \cup {None}]
    BY RetireEffect
  <2>4. TimelockTypeOK'
    BY <1>2 DEF CreditInv, CreditTypeOK, TimelockTypeOK, timelockVars
  <2> QED
    BY <1>2, <2>1, <2>2, <2>3, <2>4 DEF CreditInv, CreditTypeOK
<1>7. (admin = None => Minted = {})'
  BY <1>2, RetireEffect DEF CreditInv
<1>8. SerialsUnique' /\ RegistryMatchesBatches'
  <2>1. \A c \in Minted : /\ batches'[c].start = batches[c].start
                          /\ batches'[c].end = batches[c].end
    BY RetireEffect DEF Minted
  <2> QED
    BY <1>2, <2>1, RetireEffect
       DEF CreditInv, SerialsUnique, RegistryMatchesBatches, BatchSerials
<1>9. BatchAccounting'
  <2> SUFFICES ASSUME NEW c \in BatchIds
               PROVE  (IF batches[c] = None
                         THEN retired[c] = 0
                         ELSE /\ batches[c].amount =
                                   batches[c].end - batches[c].start + 1
                              /\ retired[c] <= batches[c].amount
                              /\ batches[c].status =
                                   IF retired[c] = 0 THEN "Active"
                                   ELSE IF retired[c] = batches[c].amount
                                     THEN "FullyRetired"
                                   ELSE "PartiallyRetired")'
    BY DEF BatchAccounting
  <2>1. CASE c # b
    BY <2>1, RetireEffect DEF CreditInv, BatchAccounting
  <2>2. CASE c = b
    BY <1>1, <2>2, MintedFacts, RetireEffect DEF Minted
  <2> QED
    BY <2>1, <2>2
<1>10. \A c \in Minted : BurnedSerials(c) \subseteq BurnedSerials(c)'
  BY <1>1, MintedFacts, RetireEffect DEF BurnedSerials
<1>11. CertSerials(cert) \subseteq BurnedSerials(b)'
  BY <1>1, MintedFacts, RetireEffect DEF CertSerials, BurnedSerials
<1>12. \A c \in Minted : CertSerials(cert) \cap BurnedSerials(c) = {}
  <2> SUFFICES ASSUME NEW c \in Minted, NEW x \in CertSerials(cert),
                      x \in BurnedSerials(c)
               PROVE  FALSE
    OBVIOUS
  <2>1. x \in SliceStart(b) .. SliceEnd(b, amount)
    BY DEF CertSerials
  <2>2. x \in BatchSerials(b)
    BY <1>1, <2>1, MintedFacts DEF BatchSerials
  <2>3. x \in BatchSerials(c)
    BY MintedFacts DEF BatchSerials, BurnedSerials
  <2>4. c = b
    BY <1>1, <2>2, <2>3 DEF CreditInv, SerialsUnique
  <2> QED
    BY <1>1, <2>1, <2>4, MintedFacts DEF BurnedSerials
<1>13. NoDoubleRetirement'
  <2>1. ASSUME NEW r \in RetirementIds, retirements'[r] # None
        PROVE  /\ batches'[retirements'[r].batch] # None
               /\ CertSerials(retirements'[r]) \subseteq
                    BurnedSerials(retirements[r].batch)'
               /\ retirements'[r].last - retirements'[r].first + 1 =
                    retirements'[r].amount
    <3>1. CASE r = rid
      <4>1. batches'[b] # None
        BY <1>1, RetireEffect DEF Minted
      <4>2. cert.last - cert.first + 1 = cert.amount
        BY <1>1, MintedFacts
      <4> QED
        BY <1>5, <1>11, <3>1, <4>1, <4>2 DEF BurnedSerials
    <3>2. CASE r # rid
      <4>1. retirements'[r] = retirements[r] /\ retirements[r] # None
        BY <1>5, <2>1, <3>2
      <4>2. PICK c \in Minted : retirements[r].batch = c
        BY <1>4, <4>1 DEF CreditInv, NoDoubleRetirement, Minted,
                          RetirementCertificate
      <4>3. batches'[c] # None
        BY RetireEffect DEF Minted
      <4>4. CertSerials(retirements[r]) \subseteq BurnedSerials(c)'
        BY <1>10, <4>1, <4>2 DEF CreditInv, NoDoubleRetirement
      <4>5. retirements[r].last - retirements[r].first + 1 =
              retirements[r].amount
        BY <4>1 DEF CreditInv, NoDoubleRetirement
      <4> QED
        BY <4>1, <4>2, <4>3, <4>4, <4>5 DEF BurnedSerials
    <3> QED
      BY <3>1, <3>2
  <2>2. ASSUME NEW r \in RetirementIds, r # rid, retirements[r] # None
        PROVE  CertSerials(cert) \cap CertSerials(retirements[r]) = {}
    <3>1. retirements[r].batch \in Minted
      BY <1>4, <2>2 DEF CreditInv, NoDoubleRetirement, Minted,
                        RetirementCertificate
    <3>2. CertSerials(retirements[r]) \subseteq
            BurnedSerials(retirements[r].batch)
      BY <2>2 DEF CreditInv, NoDoubleRetirement
    <3> QED
      BY <1>12, <3>1, <3>2
  <2>3. ASSUME NEW r \in RetirementIds, NEW s \in RetirementIds \ {r},
               retirements'[r] # None, retirements'[s] # None
        PROVE  CertSerials(retirements'[r]) \cap
                 CertSerials(retirements'[s]) = {}
    <3>1. CASE r = rid
      BY <1>5, <2>2, <2>3, <3>1
    <3>2. CASE s = rid
      BY <1>5, <2>2, <2>3, <3>2
    <3>3. CASE r # rid /\ s # rid
      BY <1>5, <2>3, <3>3 DEF CreditInv, NoDoubleRetirement
    <3> QED
      BY <3>1, <3>2, <3>3
  <2> QED
    BY <2>1, <2>3 DEF NoDoubleRetirement, CertSerials
<1> QED
  BY <1>6, <1>7, <1>8, <1>9, <1>13 DEF CreditInv

-----------------------------------------------------------------------------
\* A step of the contract is one of the two that touch serials, the
\* initialisation, or one that leaves the serials alone and takes a step of
\* the time-lock.
LEMMA StepCases ==
  ASSUME [Next]_vars, TimelockInv
  PROVE  \/ \E a \in Addresses : Initialize(a)
         \/ \E a \in Addresses, p \in ProjectIds, amount \in Amounts,
               vintage \in Vintages, b \in BatchIds,
               start \in U64, end \in U64 :
              MintCredits(a, p, amount, vintage, b, start, end)
         \/ \E b \in BatchIds, amount \in Amounts, rid \in RetirementIds :
              RetireCredits(b, amount, rid)
         \/ /\ UNCHANGED serialVars
            /\ UNCHANGED admin
            /\ [TimelockStep]_timelockVars
            /\ pausePublished' \in {TRUE, pausePublished}
<1>1. ASSUME NEW a \in Addresses, NEW o \in OpIds,
             \/ \E reason \in Payloads : ProposePause(a, o, reason)
             \/ ExecutePause(a, o)
             \/ Rollback(a, o)
      PROVE  /\ UNCHANGED serialVars
             /\ UNCHANGED admin
             /\ TimelockStep
             /\ pausePublished' \in {TRUE, pausePublished}
  BY <1>1 DEF ProposePause, ExecutePause, Rollback, TimelockStep
<1>2. ASSUME NEW o \in OpIds, Contest(o)
      PROVE  /\ UNCHANGED serialVars
             /\ UNCHANGED admin
             /\ TimelockStep
             /\ pausePublished' = pausePublished
  BY <1>2 DEF Contest, TimelockStep
<1>3. ASSUME NEW a \in Addresses, NEW d \in Delays, SetDelay(a, d)
      PROVE  /\ UNCHANGED serialVars
             /\ UNCHANGED admin
             /\ TimelockStep
             /\ pausePublished' = pausePublished
  BY <1>3 DEF SetDelay, TimelockStep
<1>4. CASE CloseLedger
  BY <1>4 DEF CloseLedger, TimelockStep
<1>5. CASE UNCHANGED vars
  BY <1>5 DEF vars
<1> QED
  BY <1>1, <1>2, <1>3, <1>4, <1>5 DEF Next, Credits, Governance

\* Every step of the contract keeps the invariants of the serials and of the
\* time-lock.
LEMMA CreditStep ==
  CreditInv /\ TimelockInv /\ [Next]_vars => CreditInv' /\ TimelockInv'
<1> SUFFICES ASSUME CreditInv, TimelockInv, [Next]_vars
             PROVE  CreditInv' /\ TimelockInv'
  OBVIOUS
<1>1. ASSUME UNCHANGED timelockVars PROVE TimelockInv'
  BY <1>1, TimelockStepInv
<1>2. ASSUME NEW a \in Addresses, Initialize(a)
      PROVE  CreditInv' /\ TimelockInv'
  BY <1>1, <1>2, InitializeKeeps DEF Initialize
<1>3. ASSUME NEW a \in Addresses, NEW p \in ProjectIds, NEW amount \in Amounts,
             NEW vintage \in Vintages, NEW b \in BatchIds,
             NEW start \in U64, NEW end \in U64,
             MintCredits(a, p, amount, vintage, b, start, end)
      PROVE  CreditInv' /\ TimelockInv'
  <2>1. CreditInv'
    BY <1>3, MintKeeps
  <2>2. TimelockInv'
    BY <1>1, <1>3 DEF MintCredits
  <2> QED
    BY <2>1, <2>2
<1>4. ASSUME NEW b \in BatchIds, NEW amount \in Amounts,
             NEW rid \in RetirementIds, RetireCredits(b, amount, rid)
      PROVE  CreditInv' /\ TimelockInv'
  BY <1>1, <1>4, RetireKeeps DEF RetireCredits
<1>5. ASSUME UNCHANGED serialVars, UNCHANGED admin,
             [TimelockStep]_timelockVars,
             pausePublished' \in {TRUE, pausePublished}
      PROVE  CreditInv' /\ TimelockInv'
  <2>1. TimelockInv'
    BY <1>5, TimelockStepInv
  <2>2. pausePublished' \in BOOLEAN
    BY <1>5 DEF CreditInv, CreditTypeOK
  <2> QED
    BY <1>5, <2>1, <2>2, SerialsUntouched DEF TimelockInv
<1> QED
  BY <1>2, <1>3, <1>4, <1>5, StepCases

\* What any step does to the batches: it mints one, whose serials no batch
\* has, or leaves the project, amount and range of each as they are.
LEMMA BatchesGrow ==
  ASSUME CreditInv, TimelockInv, [Next]_vars
  PROVE  \/ /\ Minted' = Minted
            /\ \A c \in Minted : /\ batches'[c].project = batches[c].project
                                 /\ batches'[c].amount = batches[c].amount
                                 /\ batches'[c].start = batches[c].start
                                 /\ batches'[c].end = batches[c].end
         \/ \E b \in BatchIds \ Minted :
              /\ Minted' = Minted \cup {b}
              /\ \A c \in Minted : batches'[c] = batches[c]
<1>1. ASSUME NEW a \in Addresses, Initialize(a)
      PROVE  batches' = batches
  BY <1>1 DEF Initialize
<1>2. ASSUME NEW a \in Addresses, NEW p \in ProjectIds, NEW amount \in Amounts,
             NEW vintage \in Vintages, NEW b \in BatchIds,
             NEW start \in U64, NEW end \in U64,
             MintCredits(a, p, amount, vintage, b, start, end)
      PROVE  /\ b \in BatchIds \ Minted
             /\ Minted' = Minted \cup {b}
             /\ \A c \in Minted : batches'[c] = batches[c]
  <2>1. /\ Minted' = Minted \cup {b} /\ b \notin Minted
        /\ batches'[b] = [project |-> p, amount |-> amount,
                          start |-> start, end |-> end, status |-> "Active"]
        /\ \A c \in BatchIds : c # b => batches'[c] = batches[c]
    BY <1>2, MintEffect
  <2>2. Minted \subseteq BatchIds
    BY DEF Minted
  <2> QED
    BY <2>1, <2>2
<1>3. ASSUME NEW b \in BatchIds, NEW amount \in Amounts,
             NEW rid \in RetirementIds, RetireCredits(b, amount, rid)
      PROVE  /\ Minted' = Minted
             /\ \A c \in Minted : /\ batches'[c].project = batches[c].project
                                  /\ batches'[c].amount = batches[c].amount
                                  /\ batches'[c].start = batches[c].start
                                  /\ batches'[c].end = batches[c].end
  <2>1. Minted' = Minted
    BY <1>3, RetireEffect
  <2>2. PICK status : batches' = [batches EXCEPT ![b].status = status]
    BY <1>3 DEF RetireCredits
  <2>3. batches[b] \in CreditBatch
    BY <1>3 DEF CreditInv, CreditTypeOK, RetireCredits, Retirable
  <2>4. ASSUME NEW c \in Minted
        PROVE  /\ batches'[c].project = batches[c].project
               /\ batches'[c].amount = batches[c].amount
               /\ batches'[c].start = batches[c].start
               /\ batches'[c].end = batches[c].end
    <3>1. batches \in [BatchIds -> CreditBatch \cup {None}] /\ c \in BatchIds
      BY DEF CreditInv, CreditTypeOK, Minted
    <3>2. CASE c # b
      BY <2>2, <3>1, <3>2
    <3>3. CASE c = b
      <4>1. batches'[c] = [batches[c] EXCEPT !.status = status]
        BY <2>2, <3>1, <3>3
      <4> QED
        BY <2>3, <3>3, <4>1 DEF CreditBatch
    <3> QED
      BY <3>2, <3>3
  <2> QED
    BY <2>1, <2>4
<1>4. CASE batches' = batches
  BY <1>4 DEF Minted
<1>5. CASE UNCHANGED serialVars
  BY <1>4, <1>5 DEF serialVars
<1> QED
  BY <1>1, <1>2, <1>3, <1>4, <1>5, StepCases

\* The credit contract keeps its inductive invariant: types, unique serials,
\* a registry that matches the batches, counters and statuses that agree, and
\* certificates that share no serial.
THEOREM CreditInvariant == Spec => []CreditInv
<1>1. Init => CreditInv /\ TimelockInv
  BY CreditInit
<1>2. CreditInv /\ TimelockInv /\ [Next]_vars => CreditInv' /\ TimelockInv'
  BY CreditStep
<1> QED
  BY <1>1, <1>2, PTL DEF Spec

\* The variables of the credit contract keep their types; amounts and counters
\* always fit the 64 bits that the casts of retire_credits keep.
THEOREM CreditTypeCorrect == Spec => []CreditTypeOK
<1>1. CreditInv => CreditTypeOK
  BY DEF CreditInv
<1> QED
  BY <1>1, CreditInvariant, PTL

\* No serial number ever belongs to two batches, whatever ranges the admin
\* asks for and in whatever order (Theorem S of docs/formal-spec.md).
THEOREM SerialUniqueness == Spec => []SerialsUnique
<1>1. CreditInv => SerialsUnique
  BY DEF CreditInv
<1> QED
  BY <1>1, CreditInvariant, PTL

\* No credit is retired twice, even when retirement ids are reused.
THEOREM RetirementUniqueness == Spec => []NoDoubleRetirement
<1>1. CreditInv => NoDoubleRetirement
  BY DEF CreditInv
<1> QED
  BY <1>1, CreditInvariant, PTL

\* The pause operations of the credit contract are contested inside their
\* windows only, and no contest outlives its operation.
THEOREM CreditContestsInWindow == Spec => []ContestsInWindow
<1>1. Init => CreditInv /\ TimelockInv
  BY CreditInit
<1>2. CreditInv /\ TimelockInv /\ [Next]_vars => CreditInv' /\ TimelockInv'
  BY CreditStep
<1>3. TimelockInv => ContestsInWindow
  BY DEF TimelockInv
<1> QED
  BY <1>1, <1>2, <1>3, PTL DEF Spec

-----------------------------------------------------------------------------
\* mint_credits issues the serials of the new range to the new batch, none of
\* which is in another batch, and burns none.
LEMMA MintIssues ==
  ASSUME CreditInv,
         NEW caller \in Addresses, NEW project \in ProjectIds,
         NEW amount \in Amounts, NEW vintage \in Vintages,
         NEW b \in BatchIds, NEW start \in U64, NEW end \in U64,
         MintCredits(caller, project, amount, vintage, b, start, end)
  PROVE  /\ start .. end # {}
         /\ start .. end \subseteq U64
         /\ IssuedByBatch[b] = {}
         /\ \A c \in BatchIds : start .. end \cap IssuedByBatch[c] = {}
         /\ IssuedByBatch' = [IssuedByBatch EXCEPT ![b] = start .. end]
         /\ BurnedByBatch' = BurnedByBatch
         /\ Burned' = Burned
<1>1. /\ start \in 0 .. U64Max
      /\ end \in 0 .. U64Max
      /\ start <= end
      /\ Minted' = Minted \cup {b}
      /\ b \notin Minted
      /\ retired[b] = 0
      /\ batches'[b] = [project |-> project, amount |-> amount,
                        start |-> start, end |-> end, status |-> "Active"]
      /\ \A c \in BatchIds : c # b => batches'[c] = batches[c]
      /\ \A c \in Minted :
           ~(start <= batches[c].end /\ end >= batches[c].start)
  BY MintEffect
<1>2. retired' = retired
  BY DEF MintCredits
<1>3. \A c \in Minted : batches'[c] = batches[c]
  BY <1>1 DEF Minted
<1>4. start .. end # {} /\ start .. end \subseteq U64
  BY <1>1 DEF U64
<1>5. /\ IssuedByBatch[b] = {}
      /\ \A c \in BatchIds : start .. end \cap IssuedByBatch[c] = {}
  <2>1. ASSUME NEW c \in Minted PROVE start .. end \cap BatchSerials(c) = {}
    BY <1>1, MintedFacts DEF BatchSerials
  <2> QED
    BY <1>1, <2>1 DEF IssuedByBatch
<1>6. IssuedByBatch' = [IssuedByBatch EXCEPT ![b] = start .. end]
  <2>1. /\ BatchSerials(b)' = start .. end
        /\ \A c \in Minted : BatchSerials(c)' = BatchSerials(c)
    BY <1>1, <1>3 DEF BatchSerials
  <2> QED
    BY <1>1, <2>1 DEF IssuedByBatch
<1>7. /\ BurnedSerials(b)' = {}
      /\ \A c \in Minted : BurnedSerials(c)' = BurnedSerials(c)
  BY <1>1, <1>2, <1>3 DEF BurnedSerials
<1>8. BurnedByBatch' = BurnedByBatch
  BY <1>1, <1>7 DEF BurnedByBatch
<1>9. Burned' = Burned
  BY <1>1, <1>7 DEF Burned
<1> QED
  BY <1>4, <1>5, <1>6, <1>8, <1>9

\* retire_credits burns the serials of its slice, all of them of the batch and
\* none of them burned before under any batch, and issues none.
LEMMA RetireBurns ==
  ASSUME CreditInv, NEW b \in BatchIds, NEW amount \in Amounts,
         NEW rid \in RetirementIds, RetireCredits(b, amount, rid)
  PROVE  LET slice == SliceStart(b) .. SliceEnd(b, amount) IN
         /\ slice # {}
         /\ slice \subseteq U64
         /\ slice \subseteq IssuedByBatch[b] \ BurnedByBatch[b]
         /\ IssuedByBatch' = IssuedByBatch
         /\ BurnedByBatch' =
              [BurnedByBatch EXCEPT ![b] = BurnedByBatch[b] \cup slice]
         /\ slice \cap Burned = {}
         /\ Burned' = Burned \cup slice
<1> DEFINE slice == SliceStart(b) .. SliceEnd(b, amount)
<1>1. /\ b \in Minted
      /\ amount \in 1 .. batches[b].amount - retired[b]
      /\ SliceStart(b) = batches[b].start + retired[b]
      /\ SliceEnd(b, amount) = SliceStart(b) + amount - 1
      /\ SliceEnd(b, amount) <= batches[b].end
  BY RetireFacts DEF RetireCredits
<1>2. /\ Minted' = Minted
      /\ \A c \in Minted : /\ batches'[c].start = batches[c].start
                           /\ batches'[c].end = batches[c].end
      /\ \A c \in Minted : c # b => retired'[c] = retired[c]
      /\ retired'[b] = retired[b] + amount
  BY RetireEffect DEF Minted
<1>3. slice # {} /\ slice \subseteq U64
  <2>1. /\ SliceStart(b) \in 0 .. U64Max
        /\ SliceEnd(b, amount) \in 0 .. U64Max
        /\ SliceStart(b) <= SliceEnd(b, amount)
    BY <1>1, MintedFacts
  <2> QED
    BY <2>1 DEF U64
<1>4. slice \subseteq BatchSerials(b)
  BY <1>1, MintedFacts DEF BatchSerials
<1>5. slice \cap Burned = {}
  <2> SUFFICES ASSUME NEW c \in Minted, NEW x \in slice,
                      x \in BurnedSerials(c)
               PROVE  FALSE
    BY DEF Burned
  <2>1. x \in BatchSerials(c)
    BY MintedFacts DEF BatchSerials, BurnedSerials
  <2>2. c = b
    BY <1>1, <1>4, <2>1 DEF CreditInv, SerialsUnique
  <2> QED
    BY <1>1, <2>2, MintedFacts DEF BurnedSerials
<1>6. slice \subseteq IssuedByBatch[b] \ BurnedByBatch[b]
  <2>1. slice \cap BurnedSerials(b) = {}
    BY <1>1, <1>5 DEF Burned
  <2> QED
    BY <1>1, <1>4, <2>1 DEF IssuedByBatch, BurnedByBatch
<1>7. IssuedByBatch' = IssuedByBatch
  BY <1>2 DEF IssuedByBatch, BatchSerials
<1>8. /\ \A c \in Minted : c # b => BurnedSerials(c)' = BurnedSerials(c)
      /\ BurnedSerials(b)' = BurnedSerials(b) \cup slice
  <2>1. \A c \in Minted : c # b => BurnedSerials(c)' = BurnedSerials(c)
    BY <1>2 DEF BurnedSerials
  <2>2. BurnedSerials(b)' = BurnedSerials(b) \cup slice
    BY <1>1, <1>2, MintedFacts DEF BurnedSerials
  <2> QED
    BY <2>1, <2>2
<1>9. BurnedByBatch' =
        [BurnedByBatch EXCEPT ![b] = BurnedByBatch[b] \cup slice]
  BY <1>1, <1>2, <1>8 DEF BurnedByBatch
<1>10. Burned' = Burned \cup slice
  BY <1>1, <1>2, <1>8 DEF Burned
<1> QED
  BY <1>3, <1>5, <1>6, <1>7, <1>9, <1>10

\* The contract implements the ledger of serial numbers (SerialLedger): a
\* mint is a step that issues, a retirement a step that burns, and everything
\* else stutters.
THEOREM ImplementsSerialLedger == Spec => LedgerSpec
<1>1. Init => Ledger!Init
  <2> SUFFICES ASSUME Init PROVE Ledger!Init
    OBVIOUS
  <2>1. Minted = {}
    BY DEF Init, Minted
  <2> QED
    BY <2>1 DEF Ledger!Init, IssuedByBatch, BurnedByBatch
<1>2. CreditInv /\ TimelockInv /\ [Next]_vars => [Ledger!Next]_(Ledger!vars)
  <2> SUFFICES ASSUME CreditInv, TimelockInv, [Next]_vars
               PROVE  [Ledger!Next]_(Ledger!vars)
    OBVIOUS
  <2>1. ASSUME NEW a \in Addresses, Initialize(a)
        PROVE  UNCHANGED Ledger!vars
    BY <2>1 DEF Initialize, Ledger!vars, IssuedByBatch,
                BurnedByBatch, Minted, BatchSerials, BurnedSerials
  <2>2. ASSUME NEW a \in Addresses, NEW p \in ProjectIds,
               NEW amount \in Amounts, NEW vintage \in Vintages,
               NEW b \in BatchIds, NEW start \in U64, NEW end \in U64,
               MintCredits(a, p, amount, vintage, b, start, end)
        PROVE  Ledger!Next
    <3>1. /\ start .. end # {}
          /\ start .. end \subseteq U64
          /\ IssuedByBatch[b] = {}
          /\ \A c \in BatchIds : start .. end \cap IssuedByBatch[c] = {}
          /\ IssuedByBatch' = [IssuedByBatch EXCEPT ![b] = start .. end]
          /\ BurnedByBatch' = BurnedByBatch
      BY <2>2, MintIssues
    <3>2. Ledger!Mint(b, start .. end)
      BY <3>1 DEF Ledger!Mint
    <3> QED
      BY <3>1, <3>2 DEF Ledger!Next
  <2>3. ASSUME NEW b \in BatchIds, NEW amount \in Amounts,
               NEW rid \in RetirementIds, RetireCredits(b, amount, rid)
        PROVE  Ledger!Next
    <3> DEFINE slice == SliceStart(b) .. SliceEnd(b, amount)
    <3>1. /\ slice # {}
          /\ slice \subseteq U64
          /\ slice \subseteq IssuedByBatch[b] \ BurnedByBatch[b]
          /\ IssuedByBatch' = IssuedByBatch
          /\ BurnedByBatch' =
               [BurnedByBatch EXCEPT ![b] = BurnedByBatch[b] \cup slice]
      BY <2>3, RetireBurns
    <3>2. Ledger!Retire(b, slice)
      BY <3>1 DEF Ledger!Retire
    <3> QED
      BY <3>1, <3>2 DEF Ledger!Next
  <2>4. ASSUME UNCHANGED serialVars
        PROVE  UNCHANGED Ledger!vars
    BY <2>4 DEF serialVars, Ledger!vars, IssuedByBatch,
                BurnedByBatch, Minted, BatchSerials, BurnedSerials
  <2> QED
    BY <2>1, <2>2, <2>3, <2>4, StepCases
<1>3. Init => CreditInv /\ TimelockInv
  BY CreditInit
<1>4. CreditInv /\ TimelockInv /\ [Next]_vars => CreditInv' /\ TimelockInv'
  BY CreditStep
<1> QED
  BY <1>1, <1>2, <1>3, <1>4, PTL DEF Spec, LedgerSpec, Ledger!Spec

-----------------------------------------------------------------------------
\* A retirement under an id used before replaces the certificate by another
\* one: the serials of the new certificate were not burned yet.
LEMMA CertificateIsNew ==
  ASSUME CreditInv, NEW b \in BatchIds, NEW amount \in Amounts,
         NEW rid \in RetirementIds, RetireCredits(b, amount, rid)
  PROVE  retirements[rid] #
           [batch |-> b, amount |-> amount, first |-> SliceStart(b),
            last |-> SliceEnd(b, amount)]
<1> DEFINE cert == [batch |-> b, amount |-> amount,
                    first |-> SliceStart(b), last |-> SliceEnd(b, amount)]
<1> SUFFICES ASSUME cert = retirements[rid] PROVE FALSE
  OBVIOUS
<1>1. /\ CertSerials(cert) # {}
      /\ CertSerials(cert) \cap Burned = {}
  BY RetireBurns DEF CertSerials
<1>2. b \in Minted
  BY DEF RetireCredits, Retirable, Minted
<1>3. cert # None
  BY RetireCertificate DEF RetireCredits
<1>4. CertSerials(cert) \subseteq BurnedSerials(b)
  BY <1>3 DEF CreditInv, NoDoubleRetirement
<1>5. BurnedSerials(b) \subseteq Burned
  BY <1>2 DEF Burned
<1> QED
  BY <1>1, <1>4, <1>5

\* Every certificate names exactly the serials that its retirement burned,
\* and no serial is burned without one.
THEOREM CertificatesAreExact == Spec => CertificatesDocumentBurns
<1>1. CreditInv /\ TimelockInv /\ [Next]_vars =>
        [ Burned' \ Burned =
            UNION {CertSerials(retirements'[r]) :
                     r \in {q \in RetirementIds :
                              retirements'[q] # retirements[q]}} ]_vars
  <2> DEFINE Changed == {r \in RetirementIds :
                           retirements'[r] # retirements[r]}
             Documented == Burned' \ Burned =
                             UNION {CertSerials(retirements'[r]) :
                                      r \in Changed}
  <2> SUFFICES ASSUME CreditInv, TimelockInv, [Next]_vars
               PROVE  Documented
    OBVIOUS
  <2>1. ASSUME UNCHANGED <<Burned, retirements>> PROVE Documented
    BY <2>1
  <2>2. ASSUME NEW a \in Addresses, Initialize(a)
        PROVE  UNCHANGED <<Burned, retirements>>
    BY <2>2 DEF Initialize, Burned, Minted, BurnedSerials
  <2>3. ASSUME NEW a \in Addresses, NEW p \in ProjectIds,
               NEW amount \in Amounts, NEW vintage \in Vintages,
               NEW b \in BatchIds, NEW start \in U64, NEW end \in U64,
               MintCredits(a, p, amount, vintage, b, start, end)
        PROVE  UNCHANGED <<Burned, retirements>>
    <3>1. Burned' = Burned
      BY <2>3, MintIssues
    <3> QED
      BY <2>3, <3>1 DEF MintCredits
  <2>4. ASSUME NEW b \in BatchIds, NEW amount \in Amounts,
               NEW rid \in RetirementIds, RetireCredits(b, amount, rid)
        PROVE  Documented
    <3> DEFINE slice == SliceStart(b) .. SliceEnd(b, amount)
               cert == [batch |-> b, amount |-> amount,
                        first |-> SliceStart(b), last |-> SliceEnd(b, amount)]
    <3>1. /\ slice # {}
          /\ slice \cap Burned = {}
          /\ Burned' = Burned \cup slice
      BY <2>4, RetireBurns
    <3>2. retirements' = [retirements EXCEPT ![rid] = cert]
      BY <2>4 DEF RetireCredits, StoreCertificate
    <3>3. /\ retirements'[rid] = cert
          /\ \A r \in RetirementIds \ {rid} : retirements'[r] = retirements[r]
      BY <3>2 DEF CreditInv, CreditTypeOK
    <3>4. CertSerials(cert) = slice
      BY DEF CertSerials
    <3>5. cert # retirements[rid]
      BY <2>4, CertificateIsNew
    <3>6. Changed = {rid}
      BY <3>3, <3>5
    <3>7. Burned' \ Burned = slice
      BY <3>1
    <3> QED
      BY <3>3, <3>4, <3>6, <3>7
  <2>5. ASSUME UNCHANGED serialVars
        PROVE  UNCHANGED <<Burned, retirements>>
    BY <2>5 DEF serialVars, Burned, Minted, BurnedSerials
  <2> QED
    BY <2>1, <2>2, <2>3, <2>4, <2>5, StepCases
<1>2. Init => CreditInv /\ TimelockInv
  BY CreditInit
<1>3. CreditInv /\ TimelockInv /\ [Next]_vars => CreditInv' /\ TimelockInv'
  BY CreditStep
<1> QED
  BY <1>1, <1>2, <1>3, PTL DEF Spec, CertificatesDocumentBurns

-----------------------------------------------------------------------------
\* The ranges the overlap check consults are those of the batches, no more
\* and no less.
THEOREM RegistryIsExact == Spec => []RegistryMatchesBatches
<1>1. CreditInv => RegistryMatchesBatches
  BY DEF CreditInv
<1> QED
  BY <1>1, CreditInvariant, PTL

\* Amount, range, counter and status of every batch agree.
THEOREM AccountsAgree == Spec => []BatchAccounting
<1>1. CreditInv => BatchAccounting
  BY DEF CreditInv
<1> QED
  BY <1>1, CreditInvariant, PTL

\* The index by project stays exact: a mint puts a batch that is in no list
\* yet at the end of one, and a retirement moves no batch.
LEMMA IndexStep ==
  CreditInv /\ TimelockInv /\ ProjectIndexExact /\ [Next]_vars
    => ProjectIndexExact'
<1> SUFFICES ASSUME CreditInv, TimelockInv, ProjectIndexExact, [Next]_vars
             PROVE  ProjectIndexExact'
  OBVIOUS
<1>1. ASSUME UNCHANGED projectBatches, Minted' = Minted,
             \A c \in Minted : batches'[c].project = batches[c].project
      PROVE  ProjectIndexExact'
  BY <1>1 DEF ProjectIndexExact
<1>2. ASSUME NEW a \in Addresses, Initialize(a)
      PROVE  ProjectIndexExact'
  BY <1>1, <1>2 DEF Initialize, Minted
<1>3. ASSUME NEW a \in Addresses, NEW project \in ProjectIds,
             NEW amount \in Amounts, NEW vintage \in Vintages,
             NEW b \in BatchIds, NEW start \in U64, NEW end \in U64,
             MintCredits(a, project, amount, vintage, b, start, end)
      PROVE  ProjectIndexExact'
  <2>1. /\ Minted' = Minted \cup {b} /\ b \notin Minted
        /\ batches'[b].project = project
        /\ \A c \in Minted : batches'[c] = batches[c]
    <3>1. /\ Minted' = Minted \cup {b} /\ b \notin Minted
          /\ batches'[b] = [project |-> project, amount |-> amount,
                            start |-> start, end |-> end, status |-> "Active"]
          /\ \A c \in BatchIds : c # b => batches'[c] = batches[c]
      BY <1>3, MintEffect
    <3> QED
      BY <3>1 DEF Minted
  <2>2. /\ projectBatches[project] \in Seq(BatchIds)
        /\ projectBatches'[project] = Append(projectBatches[project], b)
        /\ \A p \in ProjectIds \ {project} :
             projectBatches'[p] = projectBatches[p]
    BY <1>3 DEF MintCredits, CreditInv, CreditTypeOK
  <2>3. ASSUME NEW p \in ProjectIds
        PROVE  {c \in Minted' : batches'[c].project = p} =
                 {c \in Minted : batches[c].project = p}
                   \cup (IF p = project THEN {b} ELSE {})
    <3>1. CASE p = project
      BY <2>1, <3>1
    <3>2. CASE p # project
      BY <2>1, <3>2
    <3> QED
      BY <3>1, <3>2
  <2> DEFINE list == projectBatches[project]
             index(q) == {projectBatches[q][i] : i \in DOMAIN projectBatches[q]}
             index2(q) ==
               {projectBatches'[q][i] : i \in DOMAIN projectBatches'[q]}
  <2>4. /\ \A i, j \in DOMAIN list : list[i] = list[j] => i = j
        /\ \A q \in ProjectIds :
             index(q) = {c \in Minted : batches[c].project = q}
    BY DEF ProjectIndexExact
  <2>5. \A i \in DOMAIN list : list[i] # b
    <3>1. \A i \in DOMAIN list : list[i] \in index(project)
      OBVIOUS
    <3> QED
      BY <3>1, <2>1, <2>4
  <2>6. /\ \A i, j \in DOMAIN projectBatches'[project] :
             projectBatches'[project][i] = projectBatches'[project][j] => i = j
        /\ index2(project) = index(project) \cup {b}
    <3> DEFINE longer == projectBatches'[project]
               n == Len(list)
    <3>1. /\ n \in Nat /\ DOMAIN list = 1 .. n
          /\ DOMAIN longer = DOMAIN list \cup {n + 1}
          /\ n + 1 \notin DOMAIN list
      BY <2>2
    <3>2. longer[n + 1] = b /\ \A i \in DOMAIN list : longer[i] = list[i]
      BY <2>2
    <3>3. \A i, j \in DOMAIN longer : longer[i] = longer[j] => i = j
      <4> HIDE DEF list, longer, n
      <4> QED
        BY <2>4, <2>5, <3>1, <3>2
    <3>4. {longer[i] : i \in DOMAIN longer}
            = {list[i] : i \in DOMAIN list} \cup {b}
      <4> HIDE DEF list, longer, n
      <4> QED
        BY <3>1, <3>2
    <3> QED
      BY <3>3, <3>4
  <2>7. ASSUME NEW p \in ProjectIds
        PROVE  /\ \A i, j \in DOMAIN projectBatches'[p] :
                    projectBatches'[p][i] = projectBatches'[p][j] => i = j
               /\ index2(p) = {c \in Minted' : batches'[c].project = p}
    <3>1. CASE p = project
      <4>1. index2(project) = {c \in Minted' : batches'[c].project = project}
        BY <2>3, <2>4, <2>6
      <4> QED
        BY <3>1, <4>1, <2>6
    <3>2. CASE p # project
      <4>1. projectBatches'[p] = projectBatches[p]
        BY <3>2, <2>2
      <4>2. index2(p) = {c \in Minted' : batches'[c].project = p}
        BY <3>2, <4>1, <2>3, <2>4
      <4> QED
        BY <4>1, <4>2 DEF ProjectIndexExact
    <3> QED
      BY <3>1, <3>2
  <2> QED
    BY <2>7 DEF ProjectIndexExact
<1>4. ASSUME NEW b \in BatchIds, NEW amount \in Amounts,
             NEW rid \in RetirementIds, RetireCredits(b, amount, rid)
      PROVE  ProjectIndexExact'
  <2>1. Minted' = Minted /\ UNCHANGED projectBatches
    BY <1>4, RetireEffect DEF RetireCredits
  <2>2. \A c \in Minted : batches'[c].project = batches[c].project
    <3>1. \E status : batches' = [batches EXCEPT ![b].status = status]
      BY <1>4 DEF RetireCredits
    <3> QED
      BY <3>1 DEF CreditInv, CreditTypeOK, Minted, CreditBatch
  <2> QED
    BY <1>1, <2>1, <2>2
<1>5. ASSUME UNCHANGED serialVars PROVE ProjectIndexExact'
  BY <1>1, <1>5 DEF serialVars, Minted
<1> QED
  BY <1>2, <1>3, <1>4, <1>5, StepCases

\* get_project_credits returns each batch once, under its own project only.
THEOREM ProjectIndexIsExact == Spec => []ProjectIndexExact
<1>1. Init => ProjectIndexExact
  BY DEF Init, ProjectIndexExact, Minted
<1> QED
  BY <1>1, IndexStep, CreditInit, CreditStep, PTL DEF Spec

-----------------------------------------------------------------------------
\* The certificates of a batch, and the serials they name.
CertificatesOf(b) ==
  {r \in RetirementIds : retirements[r] # None /\ retirements[r].batch = b}

Named(b) == UNION {CertSerials(retirements[r]) : r \in CertificatesOf(b)}

\* A retirement under a fresh id adds its slice to what the certificates of
\* its batch name, and leaves those of the other batches alone.
LEMMA FreshCertificateNames ==
  ASSUME CreditInv, FreshRetirementId, NEW b \in BatchIds,
         NEW amount \in Amounts, NEW rid \in RetirementIds,
         RetireCredits(b, amount, rid)
  PROVE  /\ Named(b)' = Named(b) \cup (SliceStart(b) .. SliceEnd(b, amount))
         /\ \A c \in BatchIds : c # b => Named(c)' = Named(c)
<1> DEFINE cert == [batch |-> b, amount |-> amount,
                    first |-> SliceStart(b), last |-> SliceEnd(b, amount)]
<1>1. /\ retirements'[rid] = cert
      /\ \A r \in RetirementIds : r # rid => retirements'[r] = retirements[r]
  BY RetireEffect DEF CreditInv, CreditTypeOK
<1>2. retirements[rid] = None
  BY <1>1, CertificateIsNew DEF FreshRetirementId
<1>3. cert # None
  BY RetireCertificate DEF RetireCredits
<1>4. /\ cert.batch = b
      /\ CertSerials(cert) = SliceStart(b) .. SliceEnd(b, amount)
  BY DEF CertSerials
<1> HIDE DEF cert
<1>5. CertificatesOf(b)' = CertificatesOf(b) \cup {rid} /\ rid \notin CertificatesOf(b)
  BY <1>1, <1>2, <1>3, <1>4 DEF CertificatesOf
<1>6. \A c \in BatchIds : c # b => CertificatesOf(c)' = CertificatesOf(c)
  BY <1>1, <1>2, <1>3, <1>4 DEF CertificatesOf
<1>7. \A c \in BatchIds : \A r \in CertificatesOf(c) :
        retirements'[r] = retirements[r]
  BY <1>1, <1>2 DEF CertificatesOf
<1>8. Named(b)' = Named(b) \cup CertSerials(cert)
  BY <1>1, <1>5, <1>7 DEF Named, CertSerials
<1>9. \A c \in BatchIds : c # b => Named(c)' = Named(c)
  BY <1>6, <1>7 DEF Named, CertSerials
<1> QED
  BY <1>4, <1>8, <1>9

\* While retirement ids are fresh, the certificates of every batch name all its
\* burned serials.
THEOREM FreshIdsKeepTheAccount == Spec => FreshIdsKeepAccount
<1>1. CertificatesComplete <=> \A b \in Minted : BurnedSerials(b) = Named(b)
  BY DEF CertificatesComplete, Named, CertificatesOf
<1>2. CreditInv /\ TimelockInv /\ [Next]_vars =>
        [ CertificatesComplete /\ FreshRetirementId
            => CertificatesComplete' ]_vars
  <2> SUFFICES ASSUME CreditInv, TimelockInv, [Next]_vars,
                      CertificatesComplete, FreshRetirementId
               PROVE  CertificatesComplete'
    OBVIOUS
  <2>1. (CertificatesComplete)' <=>
          \A b \in Minted' : BurnedSerials(b)' = Named(b)'
    BY DEF CertificatesComplete, Named, CertificatesOf
  <2>2. ASSUME UNCHANGED <<batches, retired, retirements>>
        PROVE  CertificatesComplete'
    BY <1>1, <2>1, <2>2 DEF Minted, BurnedSerials, Named, CertificatesOf,
                            CertSerials
  <2>3. ASSUME NEW a \in Addresses, Initialize(a)
        PROVE  CertificatesComplete'
    BY <2>2, <2>3 DEF Initialize
  <2>4. ASSUME NEW a \in Addresses, NEW p \in ProjectIds,
               NEW amount \in Amounts, NEW vintage \in Vintages,
               NEW b \in BatchIds, NEW start \in U64, NEW end \in U64,
               MintCredits(a, p, amount, vintage, b, start, end)
        PROVE  CertificatesComplete'
    <3> DEFINE batch == [project |-> p, amount |-> amount, start |-> start,
                         end |-> end, status |-> "Active"]
    <3>0. /\ start \in 0 .. U64Max
          /\ Minted' = Minted \cup {b} /\ b \notin Minted
          /\ retired[b] = 0
          /\ batches'[b] = batch
          /\ \A c \in BatchIds : c # b => batches'[c] = batches[c]
      BY <2>4, MintEffect
    <3>1. /\ UNCHANGED <<retired, retirements>>
          /\ Minted' = Minted \cup {b} /\ b \notin Minted
          /\ \A c \in Minted : BurnedSerials(c)' = BurnedSerials(c)
      <4>1. UNCHANGED <<retired, retirements>>
        BY <2>4 DEF MintCredits
      <4>2. \A c \in Minted : batches'[c] = batches[c]
        BY <3>0 DEF Minted
      <4> QED
        BY <3>0, <4>1, <4>2 DEF BurnedSerials
    <3>2. BurnedSerials(b)' = {}
      <4>1. /\ batches'[b].start = start
            /\ retired'[b] = 0
        BY <3>0, <3>1
      <4> QED
        BY <3>0, <4>1 DEF BurnedSerials
    <3>3. Named(b)' = {}
      BY <3>1 DEF Named, CertificatesOf, Minted, CreditInv, NoDoubleRetirement
    <3>4. \A c \in BatchIds : Named(c)' = Named(c)
      BY <3>1 DEF Named, CertificatesOf, CertSerials
    <3>5. Minted \subseteq BatchIds
      BY DEF Minted
    <3> QED
      BY <1>1, <2>1, <3>1, <3>2, <3>3, <3>4, <3>5
  <2>5. ASSUME NEW b \in BatchIds, NEW amount \in Amounts,
               NEW rid \in RetirementIds, RetireCredits(b, amount, rid)
        PROVE  CertificatesComplete'
    <3> DEFINE slice == SliceStart(b) .. SliceEnd(b, amount)
    <3>1. /\ Named(b)' = Named(b) \cup slice
          /\ \A c \in BatchIds : c # b => Named(c)' = Named(c)
      BY <2>5, FreshCertificateNames
    <3>2. Minted' = Minted /\ b \in Minted /\ Minted \subseteq BatchIds
      BY <2>5, RetireEffect DEF RetireCredits, Retirable, Minted
    <3>3. BurnedByBatch' = [BurnedByBatch EXCEPT
                              ![b] = BurnedByBatch[b] \cup slice]
      BY <2>5, RetireBurns
    <3>4. \A c \in Minted : /\ BurnedByBatch[c] = BurnedSerials(c)
                            /\ BurnedByBatch'[c] = BurnedSerials(c)'
      BY <3>2 DEF BurnedByBatch
    <3> QED
      BY <1>1, <2>1, <3>1, <3>2, <3>3, <3>4 DEF BurnedByBatch
  <2>6. ASSUME UNCHANGED serialVars PROVE CertificatesComplete'
    BY <2>2, <2>6 DEF serialVars
  <2> QED
    BY <2>3, <2>4, <2>5, <2>6, StepCases
<1>3. Init => CreditInv /\ TimelockInv
  BY CreditInit
<1>4. CreditInv /\ TimelockInv /\ [Next]_vars => CreditInv' /\ TimelockInv'
  BY CreditStep
<1> QED
  BY <1>2, <1>3, <1>4, PTL DEF Spec, FreshIdsKeepAccount

-----------------------------------------------------------------------------
\* The pauses of carbon_credit keep the promise of the time-lock: executed
\* only when their window closed without a contest.
THEOREM CreditContestWindow == Spec => ContestWindowSpec
<1>1. Init => TimelockInit
  BY DEF Init
<1>2. TimelockInv /\ [Next]_vars => [TimelockStep]_timelockVars
  <2> SUFFICES ASSUME TimelockInv, [Next]_vars
               PROVE  [TimelockStep]_timelockVars
    OBVIOUS
  <2>1. ASSUME NEW a \in Addresses, Initialize(a)
        PROVE  UNCHANGED timelockVars
    BY <2>1 DEF Initialize
  <2>2. ASSUME NEW a \in Addresses, NEW p \in ProjectIds,
               NEW amount \in Amounts, NEW vintage \in Vintages,
               NEW b \in BatchIds, NEW start \in U64, NEW end \in U64,
               MintCredits(a, p, amount, vintage, b, start, end)
        PROVE  UNCHANGED timelockVars
    BY <2>2 DEF MintCredits
  <2>3. ASSUME NEW b \in BatchIds, NEW amount \in Amounts,
               NEW rid \in RetirementIds, RetireCredits(b, amount, rid)
        PROVE  UNCHANGED timelockVars
    BY <2>3 DEF RetireCredits
  <2> QED
    BY <2>1, <2>2, <2>3, StepCases
<1>3. Init => CreditInv /\ TimelockInv
  BY CreditInit
<1>4. CreditInv /\ TimelockInv /\ [Next]_vars => CreditInv' /\ TimelockInv'
  BY CreditStep
<1>5. TimelockInit => Window!WindowInit
  BY TimelockInitRefines
<1>6. TimelockInv /\ [TimelockStep]_timelockVars => [Window!WindowNext]_StageOf
  BY TimelockStepRefines
<1> QED
  BY <1>1, <1>2, <1>3, <1>4, <1>5, <1>6, PTL
     DEF Spec, ContestWindowSpec, Window!WindowSpec
=============================================================================
