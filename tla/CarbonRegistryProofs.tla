------------------------ MODULE CarbonRegistryProofs ------------------------
(***************************************************************************)
(* The inductive invariant of carbon_registry and the refinement of        *)
(* Suspensions, for every set of addresses, projects, operations, amounts  *)
(* and delays, and every width of the integers.                            *)
(***************************************************************************)
EXTENDS CarbonRegistry, TimelockProofs

\* A project that is registered has a status and a total in range.
LEMMA ProjectRecords ==
  ASSUME RegistryTypeOK, NEW p \in Registered
  PROVE  /\ p \in ProjectIds
         /\ projects[p] \in CarbonProject
         /\ projects[p].status \in ProjectStatus
         /\ projects[p].issued \in 0 .. I128Max
  BY DEF RegistryTypeOK, Registered, CarbonProject

\* Writing a status keeps the set of projects and the types.
LEMMA SetStatusEffect ==
  ASSUME RegistryTypeOK, NEW p \in ProjectIds, NEW s \in ProjectStatus,
         SetStatus(p, s)
  PROVE  /\ p \in Registered
         /\ projects' \in [ProjectIds -> CarbonProject \cup {None}]
         /\ Registered' = Registered
         /\ \A q \in Registered :
              projects'[q].status = IF q = p THEN s ELSE projects[q].status
<1> DEFINE project == [projects[p] EXCEPT !.status = s]
<1>1. /\ p \in Registered
      /\ projects' = [projects EXCEPT ![p] = project]
  BY DEF SetStatus
<1>2. project \in CarbonProject /\ project.status = s
  BY <1>1, ProjectRecords DEF CarbonProject
<1> HIDE DEF project
<1>3. projects' \in [ProjectIds -> CarbonProject \cup {None}]
  BY <1>1, <1>2 DEF RegistryTypeOK
<1>4. Registered' = Registered
  BY <1>1, <1>2, ProjectAssumption DEF RegistryTypeOK, Registered
<1>5. /\ projects'[p].status = s
      /\ \A q \in ProjectIds : q # p => projects'[q] = projects[q]
  BY <1>1, <1>2 DEF RegistryTypeOK
<1> QED
  BY <1>1, <1>3, <1>4, <1>5 DEF Registered

\* Five functions decide about the status of a project and nothing else.
Decision ==
  \E a \in Addresses, p \in ProjectIds :
    \/ VerifyProject(a, p)
    \/ RejectProject(a, p)
    \/ \E s \in ProjectStatus : UpdateProjectStatus(a, p, s)
    \/ SuspendProject(a, p)

LEMMA DecisionSetsStatus ==
  ASSUME Decision
  PROVE  /\ \E p \in ProjectIds, s \in ProjectStatus : SetStatus(p, s)
         /\ UNCHANGED <<timelockVars, roles>>
  BY DEF Decision, VerifyProject, RejectProject, UpdateProjectStatus,
         SuspendProject, ProjectStatus

\* The operations of the time-lock that concern no project.
Procedure ==
  \/ \E a \in Addresses, o \in OpIds : Rollback(a, o)
  \/ \E o \in OpIds : Contest(o)
  \/ \E a \in Addresses, d \in Delays : SetDelay(a, d)
  \/ CloseLedger

LEMMA ProcedureIsTimelock ==
  ASSUME Procedure
  PROVE  /\ UNCHANGED <<roles, projects>>
         /\ \/ \E o \in OpIds : RollbackOperation(o) \/ ContestOperation(o)
            \/ \E d \in Delays : SetTimelockDelay(d)
            \/ Tick
  BY DEF Procedure, Rollback, Contest, SetDelay, CloseLedger

-----------------------------------------------------------------------------
\* A deployed contract satisfies the invariant.
LEMMA RegistryInit == Init => RegistryInv
<1> SUFFICES ASSUME Init PROVE RegistryInv
  OBVIOUS
<1>1. TimelockInv
  BY TimelockInitInv DEF Init
<1>2. RegistryTypeOK /\ Registered = {}
  BY <1>1 DEF Init, RegistryTypeOK, TimelockInv, Registered
<1>3. SuspensionsHaveTargets
  BY DEF Init, TimelockInit, SuspensionsHaveTargets
<1> QED
  BY <1>1, <1>2, <1>3 DEF Init, RegistryInv, TimelockInv

\* What is left to show of a step once the part of the time-lock is known:
\* that no project disappears, and that new operations have a target.
LEMMA KeepsInvariant ==
  ASSUME RegistryInv, [TimelockStep]_timelockVars,
         UNCHANGED roles,
         projects' \in [ProjectIds -> CarbonProject \cup {None}],
         Registered \subseteq Registered',
         admin # None \/ Registered' = Registered,
         \A o \in OpIds :
           ops'[o] # None => \/ ops[o] # None /\ ops'[o] = ops[o]
                             \/ ops'[o].payload \in Registered
  PROVE  RegistryInv'
<1>1. TimelockInv'
  BY TimelockStepInv DEF RegistryInv, RegistryTypeOK, TimelockInv
<1>2. RegistryTypeOK'
  BY <1>1 DEF RegistryInv, RegistryTypeOK, TimelockInv, roles
<1>3. SuspensionsHaveTargets'
  BY DEF RegistryInv, SuspensionsHaveTargets
<1>4. (admin = None => oracleAddress = None /\ verifiers = {} /\ Registered = {})'
  BY DEF RegistryInv, roles
<1> QED
  BY <1>1, <1>2, <1>3, <1>4 DEF RegistryInv, TimelockInv

\* An operation keeps its stored record through every step of the time-lock
\* but a proposal under its id.
LEMMA OpsKept ==
  ASSUME RegistryInv,
         \/ \E o \in OpIds : \/ RollbackOperation(o) \/ ContestOperation(o)
                             \/ ExecuteOp(o)
         \/ \E d \in Delays : SetTimelockDelay(d)
         \/ Tick
         \/ UNCHANGED timelockVars
  PROVE  /\ [TimelockStep]_timelockVars
         /\ \A o \in OpIds : ops'[o] # None =>
              ops[o] # None /\ ops'[o] = ops[o]
<1>1. [TimelockStep]_timelockVars
  BY DEF TimelockStep
<1>2. \A o \in OpIds : ops'[o] # None => ops[o] # None /\ ops'[o] = ops[o]
  BY DEF RegistryInv, RegistryTypeOK, TimelockTypeOK, RollbackOperation,
         ContestOperation, ExecuteOp, SetTimelockDelay, Tick, timelockVars
<1> QED
  BY <1>1, <1>2

\* Every step preserves the invariant.
LEMMA RegistryStep == RegistryInv /\ [Next]_vars => RegistryInv'
<1> SUFFICES ASSUME RegistryInv, [Next]_vars PROVE RegistryInv'
  OBVIOUS
<1>1. ASSUME NEW a \in Addresses, NEW oracle \in Addresses,
             NEW vs \in SUBSET Addresses, Initialize(a, oracle, vs)
      PROVE  RegistryInv'
  <2>1. a # None
    BY RegistryAssumption
  <2> QED
    BY <1>1, <2>1 DEF Initialize, RegistryInv, RegistryTypeOK, TimelockTypeOK,
         ContestsInWindow, SuspensionsHaveTargets, Registered, timelockVars
<1>2. ASSUME NEW a \in Addresses, NEW p \in ProjectIds, NEW v \in Vintages,
             RegisterProject(a, p, v)
      PROVE  RegistryInv'
  <2>1. [status |-> "Pending", issued |-> 0] \in CarbonProject
    BY RegistryAssumption DEF CarbonProject, ProjectStatus
  <2>2. /\ projects' \in [ProjectIds -> CarbonProject \cup {None}]
        /\ Registered \subseteq Registered'
    BY <1>2, <2>1 DEF RegisterProject, RegistryInv, RegistryTypeOK, Registered
  <2>3. admin # None
    BY <1>2, RegistryAssumption DEF RegisterProject, RequireAdmin
  <2>4. UNCHANGED timelockVars /\ UNCHANGED roles
    BY <1>2 DEF RegisterProject
  <2> QED
    BY <2>2, <2>3, <2>4, OpsKept, KeepsInvariant
<1>3. CASE Decision
  <2>1. UNCHANGED timelockVars /\ UNCHANGED roles
    BY <1>3, DecisionSetsStatus
  <2>2. /\ projects' \in [ProjectIds -> CarbonProject \cup {None}]
        /\ Registered' = Registered
    BY <1>3, DecisionSetsStatus, SetStatusEffect DEF RegistryInv
  <2> QED
    BY <2>1, <2>2, OpsKept, KeepsInvariant
<1>4. ASSUME NEW a \in Addresses, NEW p \in ProjectIds, NEW amount \in Amounts,
             IncrementIssued(a, p, amount)
      PROVE  RegistryInv'
  <2> DEFINE total == projects[p].issued + amount
             project == [projects[p] EXCEPT !.issued = total]
  <2>1. /\ p \in Registered
        /\ total \in 0 .. I128Max
        /\ projects' = [projects EXCEPT ![p] = project]
    BY <1>4 DEF IncrementIssued
  <2>2. project \in CarbonProject
    BY <2>1, ProjectRecords DEF CarbonProject, RegistryInv
  <2> HIDE DEF project
  <2>3. projects' \in [ProjectIds -> CarbonProject \cup {None}]
    BY <2>1, <2>2 DEF RegistryInv, RegistryTypeOK
  <2>4. Registered' = Registered
    BY <2>1, <2>2, ProjectAssumption
       DEF RegistryInv, RegistryTypeOK, Registered
  <2>5. UNCHANGED timelockVars /\ UNCHANGED roles
    BY <1>4 DEF IncrementIssued
  <2> QED
    BY <2>3, <2>4, <2>5, OpsKept, KeepsInvariant
<1>5. ASSUME NEW a \in Addresses, NEW o \in OpIds, NEW p \in ProjectIds,
             ProposeSuspendProject(a, o, p)
      PROVE  RegistryInv'
  <2>1. /\ ProposeOp(o, p)
        /\ p \in Registered
        /\ UNCHANGED <<roles, projects>>
    BY <1>5 DEF ProposeSuspendProject
  <2>2. TimelockStep
    BY <2>1 DEF TimelockStep, ProjectIds
  <2>3. \A q \in OpIds :
          ops'[q] # None => \/ ops[q] # None /\ ops'[q] = ops[q]
                            \/ ops'[q].payload \in Registered
    BY <2>1 DEF ProposeOp, RegistryInv, RegistryTypeOK, TimelockTypeOK
  <2> QED
    BY <2>1, <2>2, <2>3, KeepsInvariant
       DEF RegistryInv, RegistryTypeOK, Registered
<1>6. ASSUME NEW a \in Addresses, NEW o \in OpIds, ExecuteSuspendProject(a, o)
      PROVE  RegistryInv'
  <2>1. ops[o].payload \in ProjectIds
    BY <1>6 DEF ExecuteSuspendProject, SetStatus, Registered
  <2>2. /\ projects' \in [ProjectIds -> CarbonProject \cup {None}]
        /\ Registered' = Registered
    BY <1>6, <2>1, SetStatusEffect
       DEF ExecuteSuspendProject, RegistryInv, ProjectStatus
  <2>3. ExecuteOp(o) /\ UNCHANGED roles
    BY <1>6 DEF ExecuteSuspendProject
  <2> QED
    BY <2>2, <2>3, OpsKept, KeepsInvariant
<1>7. CASE Procedure
  <2>1. Registered' = Registered
    BY <1>7, ProcedureIsTimelock DEF Registered
  <2>2. projects' \in [ProjectIds -> CarbonProject \cup {None}]
    BY <1>7, ProcedureIsTimelock DEF RegistryInv, RegistryTypeOK
  <2> QED
    BY <1>7, <2>1, <2>2, ProcedureIsTimelock, OpsKept, KeepsInvariant
<1>8. CASE UNCHANGED vars
  <2>1. Registered' = Registered
    BY <1>8 DEF vars, Registered
  <2> QED
    BY <1>8, <2>1, OpsKept, KeepsInvariant
       DEF vars, RegistryInv, RegistryTypeOK
<1> QED
  BY <1>1, <1>2, <1>3, <1>4, <1>5, <1>6, <1>7, <1>8
     DEF Next, Lifecycle, Governance, Decision, Procedure

\* The inductive invariant holds in every reachable state: totals of issued
\* credits within bounds, a target for every pending suspension, contests
\* inside their windows, and nothing before initialize.
THEOREM RegistryInvariant == Spec => []RegistryInv
  BY RegistryInit, RegistryStep, PTL DEF Spec

\* Type correctness, a conjunct of the invariant.
THEOREM RegistryTypeCorrect == Spec => []RegistryTypeOK
<1>1. RegistryInv => RegistryTypeOK
  BY DEF RegistryInv
<1> QED
  BY <1>1, RegistryInvariant, PTL

-----------------------------------------------------------------------------
\* Neither a decision about a project nor a report that is not negative makes
\* a total smaller, and no project is registered twice.
LEMMA TotalsGrow ==
  ASSUME Amounts \subseteq Nat, RegistryInv, [Next]_vars, NEW q \in Registered
  PROVE  projects'[q].issued >= projects[q].issued
<1>1. /\ q \in ProjectIds /\ projects[q] \in CarbonProject
      /\ projects[q].issued \in Nat
      /\ projects \in [ProjectIds -> CarbonProject \cup {None}]
  BY ProjectRecords, RegistryAssumption DEF RegistryInv, RegistryTypeOK
<1>2. ASSUME projects' = projects
      PROVE  projects'[q].issued >= projects[q].issued
  BY <1>1, <1>2
<1>3. ASSUME NEW p \in ProjectIds, NEW s \in ProjectStatus, SetStatus(p, s)
      PROVE  projects'[q].issued >= projects[q].issued
  <2>1. projects'[q].issued = projects[q].issued
    BY <1>1, <1>3 DEF SetStatus, CarbonProject
  <2> QED
    BY <1>1, <2>1
<1>4. ASSUME NEW a \in Addresses, NEW p \in ProjectIds, NEW v \in Vintages,
             RegisterProject(a, p, v)
      PROVE  projects'[q].issued >= projects[q].issued
  <2>1. projects'[q] = projects[q]
    BY <1>1, <1>4 DEF RegisterProject
  <2> QED
    BY <1>1, <2>1
<1>5. ASSUME NEW a \in Addresses, NEW p \in ProjectIds,
             NEW amount \in Amounts, IncrementIssued(a, p, amount)
      PROVE  projects'[q].issued >= projects[q].issued
  <2>1. CASE q = p
    <3>1. projects'[q].issued = projects[q].issued + amount
      BY <1>1, <1>5, <2>1 DEF IncrementIssued, CarbonProject
    <3>2. amount \in Nat
      OBVIOUS
    <3> QED
      BY <1>1, <3>1, <3>2
  <2>2. CASE q # p
    <3>1. projects'[q] = projects[q]
      BY <1>1, <1>5, <2>2 DEF IncrementIssued
    <3> QED
      BY <1>1, <3>1
  <2> QED
    BY <2>1, <2>2
<1>6. CASE Decision
  BY <1>3, <1>6, DecisionSetsStatus
<1>7. CASE Procedure
  BY <1>2, <1>7, ProcedureIsTimelock
<1>8. ASSUME NEW a \in Addresses, NEW o \in OpIds, ExecuteSuspendProject(a, o)
      PROVE  projects'[q].issued >= projects[q].issued
  <2>1. /\ SetStatus(ops[o].payload, "Suspended")
        /\ ops[o].payload \in ProjectIds
    BY <1>8 DEF ExecuteSuspendProject, SetStatus, Registered
  <2> QED
    BY <1>3, <2>1 DEF ProjectStatus
<1>9. ASSUME NEW a \in Addresses, NEW o \in OpIds, NEW p \in ProjectIds,
             ProposeSuspendProject(a, o, p)
      PROVE  projects'[q].issued >= projects[q].issued
  BY <1>2, <1>9 DEF ProposeSuspendProject
<1>10. ASSUME NEW a \in Addresses, NEW oracle \in Addresses,
              NEW vs \in SUBSET Addresses, Initialize(a, oracle, vs)
       PROVE  projects'[q].issued >= projects[q].issued
  BY <1>2, <1>10 DEF Initialize
<1>11. CASE UNCHANGED vars
  BY <1>2, <1>11 DEF vars
<1> QED
  BY <1>4, <1>5, <1>6, <1>7, <1>8, <1>9, <1>10, <1>11
     DEF Next, Lifecycle, Governance, Decision, Procedure

\* I-REG-2 of docs/formal-spec.md under the condition it needs and the code
\* does not check: it holds while the oracle reports no negative amount.
THEOREM TotalsOnlyGrow ==
  ASSUME Amounts \subseteq Nat
  PROVE  Spec => IssuedNeverDecreases
<1>1. RegistryInv /\ [Next]_vars
        => [ \A p \in Registered :
               projects'[p].issued >= projects[p].issued ]_vars
  BY TotalsGrow
<1> QED
  BY <1>1, RegistryInvariant, PTL DEF Spec, IssuedNeverDecreases

-----------------------------------------------------------------------------
\* The steps of Suspensions that the steps of the contract are.  Each lemma
\* is about one operation.

LEMMA StatusesOnly ==
  ASSUME UNCHANGED projects PROVE UNCHANGED StatusOf
  BY DEF StatusOf, Registered

\* register_project.
LEMMA RegisterRefines ==
  ASSUME RegistryInv, NEW a \in Addresses, NEW p \in ProjectIds,
         NEW v \in Vintages, RegisterProject(a, p, v)
  PROVE  TimeLocked!Register(p)
<1>1. UNCHANGED StageOf
  BY StagesOnly DEF RegisterProject, timelockVars
<1> DEFINE project == [status |-> "Pending", issued |-> 0]
<1>2. /\ p \notin Registered
      /\ projects' = [projects EXCEPT ![p] = project]
  BY DEF RegisterProject
<1>3. project \in CarbonProject /\ project # None
  BY RegistryAssumption, ProjectAssumption DEF CarbonProject, ProjectStatus
<1>4. /\ projects'[p] = project
      /\ \A q \in ProjectIds : q # p => projects'[q] = projects[q]
  BY <1>2 DEF RegistryInv, RegistryTypeOK
<1>5. StatusOf[p] = None
  BY <1>2 DEF StatusOf
<1>6. StatusOf' = [StatusOf EXCEPT ![p] = "Pending"]
  <2>1. p \in Registered' /\ projects'[p].status = "Pending"
    BY <1>3, <1>4 DEF Registered
  <2>2. \A q \in ProjectIds : q # p => (q \in Registered' <=> q \in Registered)
    BY <1>4 DEF Registered
  <2> QED
    BY <1>4, <2>1, <2>2 DEF StatusOf
<1> QED
  BY <1>1, <1>5, <1>6 DEF TimeLocked!Register

\* verify_project, reject_project, update_project_status, suspend_project,
\* and the part of execute_suspend_project that concerns the project.
LEMMA StatusRefines ==
  ASSUME RegistryTypeOK, NEW p \in ProjectIds, NEW s \in ProjectStatus,
         SetStatus(p, s)
  PROVE  /\ StatusOf[p] # None
         /\ StatusOf' = [StatusOf EXCEPT ![p] = s]
<1>1. /\ p \in Registered
      /\ Registered' = Registered
      /\ \A q \in Registered :
           projects'[q].status = IF q = p THEN s ELSE projects[q].status
  BY SetStatusEffect
<1>2. StatusOf[p] \in ProjectStatus
  BY <1>1, ProjectRecords DEF StatusOf
<1>3. StatusOf' = [StatusOf EXCEPT ![p] = s]
  BY <1>1 DEF StatusOf
<1> QED
  BY <1>2, <1>3, ProjectAssumption

\* increment_issued changes no status.
LEMMA IncrementRefines ==
  ASSUME RegistryInv, NEW a \in Addresses, NEW p \in ProjectIds,
         NEW amount \in Amounts, IncrementIssued(a, p, amount)
  PROVE  UNCHANGED TimeLocked!vars
<1> DEFINE total == projects[p].issued + amount
           project == [projects[p] EXCEPT !.issued = total]
<1>1. /\ p \in Registered
      /\ total \in 0 .. I128Max
      /\ projects' = [projects EXCEPT ![p] = project]
  BY DEF IncrementIssued
<1>2. project \in CarbonProject /\ project.status = projects[p].status
  BY <1>1, ProjectRecords DEF CarbonProject, RegistryInv
<1> HIDE DEF project
<1>3. /\ projects'[p] = project
      /\ \A q \in ProjectIds : q # p => projects'[q] = projects[q]
  BY <1>1 DEF RegistryInv, RegistryTypeOK
<1>4. UNCHANGED StatusOf
  BY <1>1, <1>2, <1>3, ProjectAssumption DEF StatusOf, Registered
<1>5. UNCHANGED StageOf
  BY StagesOnly DEF IncrementIssued, timelockVars
<1> QED
  BY <1>4, <1>5 DEF TimeLocked!vars

\* propose_suspend_project looks its target up.
LEMMA ProposeSuspendRefines ==
  ASSUME RegistryInv, NEW a \in Addresses, NEW o \in OpIds,
         NEW p \in ProjectIds, ProposeSuspendProject(a, o, p)
  PROVE  TimeLocked!ProposeSuspension(o, p)
<1>1. ProposeOp(o, p) /\ p \in Registered /\ UNCHANGED projects
  BY DEF ProposeSuspendProject
<1>2. Window!Propose(o, p)
  BY <1>1, ProposeRefines
     DEF RegistryInv, RegistryTypeOK, TimelockInv, ProjectIds
<1>3. StatusOf[p] # None
  BY <1>1, ProjectRecords, ProjectAssumption DEF StatusOf, RegistryInv
<1> QED
  BY <1>1, <1>2, <1>3, StatusesOnly
     DEF TimeLocked!ProposeSuspension, TimeLocked!Propose, Window!Propose,
         TimeLocked!Contested, Window!Contested, TimeLocked!Open, Window!Open

\* execute_suspend_project suspends the target of the operation that was due.
LEMMA ExecuteSuspendRefines ==
  ASSUME RegistryInv, NEW a \in Addresses, NEW o \in OpIds,
         ExecuteSuspendProject(a, o)
  PROVE  TimeLocked!Suspend(o)
<1> DEFINE p == ops[o].payload
<1>1. ExecuteOp(o) /\ SetStatus(p, "Suspended") /\ p \in ProjectIds
  BY DEF ExecuteSuspendProject, SetStatus, Registered
<1>2. StageOf[o] = Window!Due(p) /\ Window!Execute(o)
  BY <1>1, ExecuteRefines DEF RegistryInv, RegistryTypeOK, TimelockInv
<1>3. StatusOf' = [StatusOf EXCEPT ![p] = "Suspended"]
  BY <1>1, StatusRefines DEF RegistryInv, ProjectStatus
<1>4. StageOf[o].target = p
  BY <1>2 DEF Window!Due
<1>5. TimeLocked!Execute(o)
  BY <1>2 DEF TimeLocked!Execute, Window!Execute, TimeLocked!Free, Window!Free
<1> QED
  BY <1>3, <1>4, <1>5 DEF TimeLocked!Suspend

\* Contests, withdrawals, changes of the delay, and the clock.
LEMMA ProcedureRefines ==
  ASSUME RegistryInv, Procedure
  PROVE  TimeLocked!Procedure \/ UNCHANGED TimeLocked!vars
<1>1. TimelockInv /\ UNCHANGED StatusOf
  BY ProcedureIsTimelock, StatusesOnly
     DEF RegistryInv, RegistryTypeOK, TimelockInv
<1>2. ASSUME NEW o \in OpIds, RollbackOperation(o)
      PROVE  TimeLocked!Withdraw(o)
  BY <1>1, <1>2, RollbackRefines
     DEF TimeLocked!Withdraw, Window!Withdraw, TimeLocked!Free, Window!Free
<1>3. ASSUME NEW o \in OpIds, ContestOperation(o)
      PROVE  TimeLocked!Contest(o) \/ UNCHANGED StageOf
  BY <1>1, <1>3, ContestRefines
     DEF TimeLocked!Contest, Window!Contest, TimeLocked!Contested,
         Window!Contested
<1>4. ASSUME NEW d \in Delays, SetTimelockDelay(d)
      PROVE  UNCHANGED StageOf
  BY <1>4, StagesOnly DEF SetTimelockDelay
<1>5. ASSUME Tick
      PROVE  \E S \in SUBSET OpIds : TimeLocked!Close(S)
  BY <1>1, <1>5, TickRefines
     DEF TimeLocked!Close, Window!Close, TimeLocked!Due, Window!Due
<1> QED
  BY <1>1, <1>2, <1>3, <1>4, <1>5, ProcedureIsTimelock
     DEF TimeLocked!Procedure, TimeLocked!vars

\* The contract implements Suspensions: a time-locked suspension takes effect
\* only when its window has closed without a contest, and a contest ends by
\* withdrawal only.
THEOREM ImplementsSuspensions == Spec => SuspensionsSpec
<1>1. Init => TimeLocked!Init
  BY TimelockInitRefines
     DEF Init, TimeLocked!Init, TimeLocked!WindowInit, Window!WindowInit,
         TimeLocked!Free, Window!Free, StatusOf, Registered
<1>2. RegistryInv /\ [Next]_vars => [TimeLocked!Next]_(TimeLocked!vars)
  <2> SUFFICES ASSUME RegistryInv, [Next]_vars
               PROVE  [TimeLocked!Next]_(TimeLocked!vars)
    OBVIOUS
  <2>1. ASSUME UNCHANGED <<now, ops, contests, projects>>
        PROVE  UNCHANGED TimeLocked!vars
    BY <2>1, StagesOnly, StatusesOnly DEF TimeLocked!vars
  <2>2. ASSUME NEW a \in Addresses, NEW oracle \in Addresses,
               NEW vs \in SUBSET Addresses, Initialize(a, oracle, vs)
        PROVE  UNCHANGED TimeLocked!vars
    BY <2>1, <2>2 DEF Initialize, timelockVars
  <2>3. ASSUME NEW a \in Addresses, NEW p \in ProjectIds,
               NEW v \in Vintages, RegisterProject(a, p, v)
        PROVE  TimeLocked!Next
    BY <2>3, RegisterRefines DEF TimeLocked!Next
  <2>4. CASE Decision
    <3>1. PICK p \in ProjectIds, s \in ProjectStatus : SetStatus(p, s)
      BY <2>4, DecisionSetsStatus
    <3>2. UNCHANGED StageOf
      BY <2>4, DecisionSetsStatus, StagesOnly DEF timelockVars
    <3>3. TimeLocked!Decide(p, s)
      BY <3>1, <3>2, StatusRefines DEF RegistryInv, TimeLocked!Decide
    <3> QED
      BY <3>3 DEF TimeLocked!Next
  <2>5. ASSUME NEW a \in Addresses, NEW p \in ProjectIds,
               NEW amount \in Amounts, IncrementIssued(a, p, amount)
        PROVE  UNCHANGED TimeLocked!vars
    BY <2>5, IncrementRefines
  <2>6. ASSUME NEW a \in Addresses, NEW o \in OpIds, NEW p \in ProjectIds,
               ProposeSuspendProject(a, o, p)
        PROVE  TimeLocked!Next
    BY <2>6, ProposeSuspendRefines DEF TimeLocked!Next
  <2>7. ASSUME NEW a \in Addresses, NEW o \in OpIds,
               ExecuteSuspendProject(a, o)
        PROVE  TimeLocked!Next
    BY <2>7, ExecuteSuspendRefines DEF TimeLocked!Next
  <2>8. CASE Procedure
    BY <2>8, ProcedureRefines DEF TimeLocked!Next
  <2>9. CASE UNCHANGED vars
    BY <2>1, <2>9 DEF vars, timelockVars
  <2> QED
    BY <2>2, <2>3, <2>4, <2>5, <2>6, <2>7, <2>8, <2>9
       DEF Next, Lifecycle, Governance, Decision, Procedure
<1> QED
  BY <1>1, <1>2, RegistryInit, RegistryStep, PTL
     DEF Spec, SuspensionsSpec, TimeLocked!Spec
=============================================================================
