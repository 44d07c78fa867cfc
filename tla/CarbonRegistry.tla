--------------------------- MODULE CarbonRegistry ---------------------------
(***************************************************************************)
(* The carbon_registry contract: registration of projects, the decisions   *)
(* of verifiers, oracle and admin about their status, the running total of *)
(* issued credits, and the time-locked suspension.                         *)
(*                                                                         *)
(* One action is one successful invocation, as in CarbonCredit: each takes *)
(* the re-entrancy lock first, releases it last and calls no contract in   *)
(* between.  Left out: the descriptive fields of a project, which are only *)
(* required not to be empty, and its vintage, which is checked when it is  *)
(* registered and never changes; the total of retired credits, which no    *)
(* function writes and is always 0.  Of a pending operation the target is  *)
(* kept; propose_suspend_project is the only function that makes one.      *)
(***************************************************************************)
EXTENDS Timelock

CONSTANTS
  Addresses,
  Amounts,        \* i128 arguments, zero and negative ones included
  Vintages,       \* u32 arguments, valid and not
  I128Max         \* the largest i128

\* What a pending operation carries is the project to suspend.
ProjectIds == Payloads

ASSUME RegistryAssumption ==
  /\ Amounts \subseteq Int
  /\ I128Max \in Nat
  /\ None \notin Addresses
  /\ None \notin ProjectIds

VARIABLES
  admin,          \* DataKey::RegistryAdmin
  oracleAddress,  \* DataKey::OracleAddress
  verifiers,      \* DataKey::Verifiers, as a set: only membership is asked
  projects        \* DataKey::Project

roles == <<admin, oracleAddress, verifiers>>
vars == <<timelockVars, roles, projects>>

ProjectStatus == {"Pending", "Verified", "Rejected", "Suspended", "Completed"}

CarbonProject == [status : ProjectStatus, issued : 0 .. I128Max]

ASSUME ProjectAssumption == None \notin CarbonProject \cup ProjectStatus

Init ==
  /\ TimelockInit
  /\ admin = None
  /\ oracleAddress = None
  /\ verifiers = {}
  /\ projects = [p \in ProjectIds |-> None]

-----------------------------------------------------------------------------
RequireAdmin(caller) == admin = caller
RequireVerifier(caller) == caller \in verifiers
RequireOracle(caller) == oracleAddress = caller

Registered == {p \in ProjectIds : projects[p] # None}

\* load_project, a new status, and the write that follows.
SetStatus(p, status) ==
  /\ p \in Registered
  /\ projects' = [projects EXCEPT ![p].status = status]

Initialize(a, oracle, vs) ==
  /\ admin = None
  /\ admin' = a
  /\ oracleAddress' = oracle
  /\ verifiers' = vs
  /\ UNCHANGED <<timelockVars, projects>>

\* Mutation: a project can be registered again.
RegisterProjectAgain(caller, p, vintage) ==
  /\ RequireAdmin(caller)
  /\ vintage \in 2000 .. 2100
  /\ projects' = [projects EXCEPT ![p] = [status |-> "Pending", issued |-> 0]]
  /\ UNCHANGED <<timelockVars, roles>>

RegisterProject(caller, p, vintage) ==
  /\ RequireAdmin(caller)
  /\ p \notin Registered
  /\ vintage \in 2000 .. 2100
  /\ projects' = [projects EXCEPT ![p] = [status |-> "Pending", issued |-> 0]]
  /\ UNCHANGED <<timelockVars, roles>>

\* Whatever the status of the project, for this and the next three.
VerifyProject(caller, p) ==
  /\ RequireVerifier(caller)
  /\ SetStatus(p, "Verified")
  /\ UNCHANGED <<timelockVars, roles>>

RejectProject(caller, p) ==
  /\ RequireVerifier(caller)
  /\ SetStatus(p, "Rejected")
  /\ UNCHANGED <<timelockVars, roles>>

UpdateProjectStatus(caller, p, status) ==
  /\ RequireOracle(caller)
  /\ SetStatus(p, status)
  /\ UNCHANGED <<timelockVars, roles>>

\* The direct way, which does not consult the time-lock.
SuspendProject(caller, p) ==
  /\ RequireAdmin(caller)
  /\ SetStatus(p, "Suspended")
  /\ UNCHANGED <<timelockVars, roles>>

\* Mutation: the new total is not validated.
IncrementIssuedUnchecked(caller, p, amount) ==
  LET total == projects[p].issued + amount IN
    /\ RequireOracle(caller)
    /\ p \in Registered
    /\ projects' = [projects EXCEPT ![p].issued = total]
    /\ UNCHANGED <<timelockVars, roles>>

\* A checked i128 addition of any amount; assert_valid_project refuses a
\* negative total.
IncrementIssued(caller, p, amount) ==
  LET total == projects[p].issued + amount IN
    /\ RequireOracle(caller)
    /\ p \in Registered
    /\ total \in 0 .. I128Max
    /\ projects' = [projects EXCEPT ![p].issued = total]
    /\ UNCHANGED <<timelockVars, roles>>

-----------------------------------------------------------------------------
ProposeSuspendProject(caller, o, p) ==
  /\ RequireAdmin(caller)
  /\ p \in Registered
  /\ ProposeOp(o, p)
  /\ UNCHANGED <<roles, projects>>

\* The target is loaded again, from the stored operation.
ExecuteSuspendProject(caller, o) ==
  /\ RequireAdmin(caller)
  /\ ExecuteOp(o)
  /\ SetStatus(ops[o].payload, "Suspended")
  /\ UNCHANGED roles

Contest(o) ==
  /\ ContestOperation(o)
  /\ UNCHANGED <<roles, projects>>

Rollback(caller, o) ==
  /\ RequireAdmin(caller)
  /\ RollbackOperation(o)
  /\ UNCHANGED <<roles, projects>>

SetDelay(caller, d) ==
  /\ RequireAdmin(caller)
  /\ SetTimelockDelay(d)
  /\ UNCHANGED <<roles, projects>>

CloseLedger ==
  /\ Tick
  /\ UNCHANGED <<roles, projects>>

-----------------------------------------------------------------------------
Lifecycle ==
  \/ \E a \in Addresses, oracle \in Addresses, vs \in SUBSET Addresses :
       Initialize(a, oracle, vs)
  \/ \E a \in Addresses, p \in ProjectIds :
       \/ \E vintage \in Vintages : RegisterProject(a, p, vintage)
       \/ VerifyProject(a, p)
       \/ RejectProject(a, p)
       \/ \E status \in ProjectStatus : UpdateProjectStatus(a, p, status)
       \/ SuspendProject(a, p)
       \/ \E amount \in Amounts : IncrementIssued(a, p, amount)

Governance ==
  \/ \E a \in Addresses, o \in OpIds :
       \/ \E p \in ProjectIds : ProposeSuspendProject(a, o, p)
       \/ ExecuteSuspendProject(a, o)
       \/ Rollback(a, o)
  \/ \E o \in OpIds : Contest(o)
  \/ \E a \in Addresses, d \in Delays : SetDelay(a, d)
  \/ CloseLedger

Next == Lifecycle \/ Governance

Spec == Init /\ [][Next]_vars

-----------------------------------------------------------------------------
RegistryTypeOK ==
  /\ TimelockTypeOK
  /\ admin \in Addresses \cup {None}
  /\ oracleAddress \in Addresses \cup {None}
  /\ verifiers \subseteq Addresses
  /\ projects \in [ProjectIds -> CarbonProject \cup {None}]

\* A pending suspension always finds its project, however long it waits.
SuspensionsHaveTargets ==
  \A o \in OpIds : ops[o] # None => ops[o].payload \in Registered

(***************************************************************************)
(* The inductive invariant: totals of issued credits stay within 0 and the *)
(* largest i128 whatever the oracle reports, in whatever order, negative   *)
(* corrections included (increment_issued; a total may shrink, see         *)
(* IssuedNeverDecreases), every pending suspension has a project to        *)
(* suspend (propose_ and execute_suspend_project), contests belong to the  *)
(* window of the operation they block, and nothing happens before          *)
(* initialize.                                                             *)
(***************************************************************************)
RegistryInv ==
  /\ RegistryTypeOK
  /\ ContestsInWindow
  /\ SuspensionsHaveTargets
  /\ admin = None => /\ oracleAddress = None
                     /\ verifiers = {}
                     /\ Registered = {}

-----------------------------------------------------------------------------
StatusOf ==
  [p \in ProjectIds |-> IF p \in Registered THEN projects[p].status ELSE None]

(***************************************************************************)
(* The contract implements Suspensions: an operation suspends its target   *)
(* only after its window closed without a contest, and the target exists,  *)
(* whatever the five functions that decide about projects do meanwhile     *)
(* (propose_suspend_project, execute_suspend_project).                     *)
(***************************************************************************)
TimeLocked == INSTANCE Suspensions
                WITH Ops <- OpIds, Targets <- ProjectIds, NoTarget <- None,
                     Statuses <- ProjectStatus,
                     status <- StatusOf, stage <- StageOf
SuspensionsSpec == TimeLocked!Spec

(***************************************************************************)
(* What docs/formal-spec.md claims (I-REG-2): no step makes the issued     *)
(* total of a project smaller.  It does not hold: increment_issued adds    *)
(* any i128, and only a total below zero is refused.  It does hold while   *)
(* the oracle reports no negative amount.                                  *)
(***************************************************************************)
IssuedNeverDecreases ==
  [][ \A p \in Registered : projects'[p].issued >= projects[p].issued ]_vars
=============================================================================
