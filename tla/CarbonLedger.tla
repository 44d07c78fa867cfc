---------------------------- MODULE CarbonLedger ----------------------------
(***************************************************************************)
(* carbon_registry and carbon_credit as they work together: not by calls,  *)
(* of which there is none, but through the "minted" events.  Outside the   *)
(* ledger somebody reads the events and has the oracle add the amount of   *)
(* each new batch to the total of its project with increment_issued.       *)
(*                                                                         *)
(* The two contracts share the clock and the names of projects, which      *)
(* carbon_credit takes from its caller without asking the registry.  An    *)
(* event may wait for any time, overtake others, and be refused and tried  *)
(* again; it is applied once.  That the oracle adds nothing else is the    *)
(* assumption of this module: Registry has no Amounts of its own.          *)
(***************************************************************************)
EXTENDS Integers, FiniteSets, FiniteSetsExt

CONSTANTS
  Addresses, Projects, BatchIds, RetirementIds,
  Amounts,      \* i128 arguments of mint_credits and retire_credits
  Vintages,
  RegistryOps,  \* identifiers of operations in the registry, and of pauses
  PauseOps,
  Reasons,
  Delays, DefaultDelay,
  I128Max, U64Max, MaxTime, None

\* Serials are told apart by an u64, totals are counted by an i128.
ASSUME WidthAssumption == U64Max \in Nat /\ I128Max \in Nat /\ I128Max > U64Max

ASSUME LedgerAssumption ==
  /\ MaxTime \in 0 .. U64Max
  /\ DefaultDelay \in 1 .. U64Max
  /\ Delays \subseteq 0 .. U64Max
  /\ Amounts \subseteq Int
  /\ None \notin Int
  /\ None \notin Addresses
  /\ None \notin Projects

VARIABLES
  now,         \* env.ledger().timestamp(), the same for all contracts
  registryAdmin, oracleAddress, verifiers, projects,
  suspensions, suspensionContests, suspensionDelay,
  creditAdmin, batches, serialRegistry, projectBatches, retired, retirements,
  pausePublished, pauses, pauseContests, pauseDelay,
  unreported   \* the batches whose event has not been applied

registryVars ==
  <<registryAdmin, oracleAddress, verifiers, projects,
    suspensions, suspensionContests, suspensionDelay>>
creditVars ==
  <<creditAdmin, batches, serialRegistry, projectBatches, retired, retirements,
    pausePublished, pauses, pauseContests, pauseDelay>>
vars == <<now, registryVars, creditVars, unreported>>

Registry ==
  INSTANCE CarbonRegistry
    WITH Payloads <- Projects, OpIds <- RegistryOps, Amounts <- {},
         admin <- registryAdmin, ops <- suspensions,
         contests <- suspensionContests, delay <- suspensionDelay

Credit ==
  INSTANCE CarbonCredit
    WITH ProjectIds <- Projects, Payloads <- Reasons, OpIds <- PauseOps,
         admin <- creditAdmin, ops <- pauses,
         contests <- pauseContests, delay <- pauseDelay

ASSUME RecordAssumption ==
  /\ None \notin Registry!CarbonProject \cup Registry!ProjectStatus
  /\ None \notin Registry!PendingOp
  /\ None \notin Credit!CreditBatch
  /\ None \notin Credit!RetirementCertificate
  /\ None \notin Credit!PendingOp

Init == Registry!Init /\ Credit!Init /\ unreported = {}

-----------------------------------------------------------------------------
Minted == Credit!Minted

\* A step of one contract; the clock may be what it moves.
RegistryStep == Registry!Next /\ UNCHANGED <<creditVars, unreported>>

\* The event of a mint is published in the step that mints.
CreditStep ==
  /\ Credit!Next
  /\ unreported' = unreported \cup (Credit!Minted' \ Credit!Minted)
  /\ UNCHANGED registryVars

\* The oracle passes an event on; the registry may refuse it, and then it
\* stays to be tried again.
Report(a, b) ==
  /\ b \in unreported
  /\ Registry!IncrementIssued(a, batches[b].project, batches[b].amount)
  /\ unreported' = unreported \ {b}
  /\ UNCHANGED creditVars

Next ==
  \/ RegistryStep
  \/ CreditStep
  \/ \E a \in Addresses, b \in BatchIds : Report(a, b)

Spec == Init /\ [][Next]_vars

-----------------------------------------------------------------------------
\* The credits in a set of batches.
Credits(S) == SumFunctionOnSet([b \in Minted |-> batches[b].amount], S)

BatchesOf(p) == {b \in Minted : batches[b].project = p}

\* The total the registry has on record.
IssuedOf(p) == IF p \in Registry!Registered THEN projects[p].issued ELSE 0

(***************************************************************************)
(* I-SYS-1 of docs/formal-spec.md, as far as it is true of two contracts   *)
(* that do not call each other: the issued total of a project and the      *)
(* events still on their way account for all credits of its batches --     *)
(* through any order of mints, reports and decisions, and for a project    *)
(* registered only after its first credits were minted.                    *)
(***************************************************************************)
IssuedAccounted ==
  /\ unreported \subseteq Minted
  /\ \A p \in Projects :
       IssuedOf(p) + Credits(BatchesOf(p) \cap unreported)
         = Credits(BatchesOf(p))

(***************************************************************************)
(* The inductive invariant of the two contracts together: what holds of    *)
(* each alone, though the clock of one is moved by the other, and that the *)
(* totals and the events under way account for all credits.  Only finitely *)
(* many batches have been minted, whatever the number of ids.              *)
(***************************************************************************)
LedgerInv ==
  /\ Credit!CreditInv
  /\ Credit!ContestsInWindow
  /\ Registry!RegistryInv
  /\ IsFiniteSet(Minted)
  /\ IssuedAccounted

(***************************************************************************)
(* The registry refuses no report about a registered project: the total it *)
(* would have to store fits, because the serials of all batches are        *)
(* distinct (the overlap check of mint_credits) and there are fewer        *)
(* serials than an i128 can count (checked_add in increment_issued).  A    *)
(* report refused for its amount would be refused for ever.                *)
(***************************************************************************)
ReportsFit ==
  \A b \in unreported :
    batches[b].project \in Registry!Registered =>
      projects[batches[b].project].issued + batches[b].amount \in 0 .. I128Max
=============================================================================
