--------------------------- MODULE TimelockProofs ---------------------------
(***************************************************************************)
(* What the steps of the time-lock preserve, for every set of operations,  *)
(* payloads and delays and every bound of the clock.  The proofs about the *)
(* contracts cite these lemmas.                                            *)
(***************************************************************************)
EXTENDS Timelock, TLAPS

TimelockInv == TimelockTypeOK /\ ContestsInWindow

\* Any step of the time-lock, whoever takes it.
TimelockStep ==
  \/ Tick
  \/ \E o \in OpIds : \/ \E p \in Payloads : ProposeOp(o, p)
                      \/ ExecuteOp(o)
                      \/ ContestOperation(o)
                      \/ RollbackOperation(o)
  \/ \E d \in Delays : SetTimelockDelay(d)

\* The time-lock starts empty, with the default delay (the storage keys of a
\* contract that was just deployed are not set).
LEMMA TimelockInitInv == TimelockInit => TimelockInv
  BY TimelockAssumption
  DEF TimelockInit, TimelockInv, TimelockTypeOK, ContestsInWindow, U64

\* Every step of the time-lock keeps contests inside their windows: the step
\* that moves an eta moves it past now, since the delay is never zero.
LEMMA TimelockStepInv ==
  TimelockInv /\ [TimelockStep]_timelockVars => TimelockInv'
<1> SUFFICES ASSUME TimelockInv, [TimelockStep]_timelockVars
             PROVE  TimelockInv'
  OBVIOUS
<1> USE TimelockAssumption, PendingOpAssumption
    DEF TimelockInv, TimelockTypeOK, ContestsInWindow, U64
<1>1. CASE Tick
  BY <1>1 DEF Tick
<1>2. ASSUME NEW o \in OpIds, NEW p \in Payloads, ProposeOp(o, p)
      PROVE  TimelockInv'
  <2>1. [eta |-> now + delay, payload |-> p] \in PendingOp
    BY <1>2 DEF ProposeOp, PendingOp
  <2>2. TimelockTypeOK'
    BY <1>2, <2>1 DEF ProposeOp
  <2>3. \A q \in OpIds : ops'[q] # None /\ q # o => ops'[q] = ops[q]
    BY <1>2 DEF ProposeOp
  <2>4. ops'[o] # None /\ ops'[o].eta = now + delay
    BY <1>2, <2>1 DEF ProposeOp
  <2>5. ContestsInWindow'
    BY <1>2, <2>3, <2>4 DEF ProposeOp
  <2> QED BY <2>2, <2>5
<1>3. ASSUME NEW o \in OpIds, ExecuteOp(o)
      PROVE  TimelockInv'
  BY <1>3 DEF ExecuteOp, Executable
<1>4. ASSUME NEW o \in OpIds, ContestOperation(o)
      PROVE  TimelockInv'
  BY <1>4 DEF ContestOperation
<1>5. ASSUME NEW o \in OpIds, RollbackOperation(o)
      PROVE  TimelockInv'
  BY <1>5 DEF RollbackOperation
<1>6. ASSUME NEW d \in Delays, SetTimelockDelay(d)
      PROVE  TimelockInv'
  BY <1>6 DEF SetTimelockDelay
<1>7. CASE UNCHANGED timelockVars
  BY <1>7 DEF timelockVars
<1> QED
  BY <1>1, <1>2, <1>3, <1>4, <1>5, <1>6, <1>7 DEF TimelockStep

-----------------------------------------------------------------------------
\* The steps of ContestWindow that the steps of the time-lock are.  Each lemma
\* is about one operation.

LEMMA StagesOnly ==
  ASSUME UNCHANGED <<now, ops, contests>> PROVE UNCHANGED StageOf
  BY DEF StageOf

\* A proposal: the delay is at least one, so a new operation can be contested;
\* a contest on record stays.
LEMMA ProposeRefines ==
  ASSUME TimelockInv, NEW o \in OpIds, NEW p \in Payloads, ProposeOp(o, p)
  PROVE  Window!Propose(o, p)
<1> DEFINE op == [eta |-> now + delay, payload |-> p]
<1>1. /\ UNCHANGED <<now, contests>>
      /\ ops' = [ops EXCEPT ![o] = op]
      /\ now + delay <= U64Max
  BY DEF ProposeOp
<1>2. /\ now \in Int /\ now + delay \in U64 /\ now < now + delay
  BY <1>1, TimelockAssumption DEF TimelockInv, TimelockTypeOK, U64
<1>3. op \in PendingOp /\ op # None
  BY <1>2, PendingOpAssumption DEF PendingOp
<1>4. /\ ops'[o] = op
      /\ \A q \in OpIds : q # o => ops'[q] = ops[q]
  BY <1>1 DEF TimelockInv, TimelockTypeOK
<1>5. (StageOf[o].at = "contested") <=> contests[o] # None
  BY DEF StageOf, TimelockInv, ContestsInWindow
<1>6. StageOf'[o] = IF contests[o] # None THEN Window!Contested(p)
                                          ELSE Window!Open(p)
  BY <1>1, <1>2, <1>3, <1>4 DEF StageOf, Window!Contested, Window!Open
<1>7. \A q \in OpIds : q # o => StageOf'[q] = StageOf[q]
  BY <1>1, <1>4 DEF StageOf
<1>8. StageOf' = [StageOf EXCEPT
        ![o] = IF StageOf[o].at = "contested" THEN Window!Contested(p)
                                              ELSE Window!Open(p)]
  BY <1>5, <1>6, <1>7 DEF StageOf
<1> QED
  BY <1>8 DEF Window!Propose

\* An execution: the operation was due.
LEMMA ExecuteRefines ==
  ASSUME TimelockInv, NEW o \in OpIds, ExecuteOp(o)
  PROVE  /\ StageOf[o] = Window!Due(ops[o].payload)
         /\ Window!Execute(o)
<1>1. /\ ops[o] # None
      /\ contests[o] = None
      /\ now >= ops[o].eta
      /\ ops' = [ops EXCEPT ![o] = None]
      /\ UNCHANGED <<now, contests>>
  BY DEF ExecuteOp, Executable
<1>2. ops[o].eta \in Int /\ now \in Int
  BY <1>1, TimelockAssumption DEF TimelockInv, TimelockTypeOK, PendingOp, U64
<1>3. StageOf[o] = Window!Due(ops[o].payload)
  BY <1>1, <1>2 DEF StageOf, Window!Due
<1>4. StageOf' = [StageOf EXCEPT ![o] = Window!Free]
  BY <1>1 DEF StageOf, Window!Free, TimelockInv, TimelockTypeOK
<1> QED
  BY <1>3, <1>4 DEF Window!Execute, Window!Due

\* A contest: the first one of an operation counts.
LEMMA ContestRefines ==
  ASSUME TimelockInv, NEW o \in OpIds, ContestOperation(o)
  PROVE  Window!Contest(o) \/ UNCHANGED StageOf
<1>1. /\ ops[o] # None
      /\ now < ops[o].eta
      /\ contests' = [contests EXCEPT ![o] = now]
      /\ UNCHANGED <<now, ops>>
  BY DEF ContestOperation
<1>2. /\ contests'[o] # None
      /\ \A q \in OpIds : q # o => contests'[q] = contests[q]
  BY <1>1, TimelockAssumption DEF TimelockInv, TimelockTypeOK, U64
<1>3. CASE contests[o] = None
  <2>1. StageOf[o] = Window!Open(ops[o].payload)
    BY <1>1, <1>3 DEF StageOf, Window!Open
  <2>2. StageOf' = [StageOf EXCEPT ![o] = Window!Contested(StageOf[o].target)]
    BY <1>1, <1>2, <2>1 DEF StageOf, Window!Open, Window!Contested
  <2> QED
    BY <2>1, <2>2 DEF Window!Contest, Window!Open
<1>4. CASE contests[o] # None
  BY <1>1, <1>2, <1>4 DEF StageOf
<1> QED
  BY <1>3, <1>4

\* A withdrawal.
LEMMA RollbackRefines ==
  ASSUME TimelockInv, NEW o \in OpIds, RollbackOperation(o)
  PROVE  Window!Withdraw(o)
<1>1. /\ ops[o] # None
      /\ ops' = [ops EXCEPT ![o] = None]
      /\ contests' = [contests EXCEPT ![o] = None]
      /\ UNCHANGED now
  BY DEF RollbackOperation
<1>2. StageOf[o] # Window!Free
  BY <1>1 DEF StageOf, Window!Free
<1>3. StageOf' = [StageOf EXCEPT ![o] = Window!Free]
  BY <1>1 DEF StageOf, Window!Free, TimelockInv, TimelockTypeOK
<1> QED
  BY <1>2, <1>3 DEF Window!Withdraw

\* The clock closes the windows that end with the ledger.
LEMMA TickRefines ==
  ASSUME TimelockInv, Tick
  PROVE  \E S \in SUBSET OpIds : Window!Close(S)
<1> DEFINE S == {o \in OpIds : /\ ops[o] # None
                               /\ contests[o] = None
                               /\ now < ops[o].eta
                               /\ now' >= ops[o].eta}
<1>1. now' > now /\ now' \in Int /\ UNCHANGED <<ops, contests>>
  BY TimelockAssumption DEF Tick, U64, TimelockInv, TimelockTypeOK
<1>2. \A o \in OpIds : ops[o] # None => ops[o].eta \in Int
  BY TimelockAssumption DEF TimelockInv, TimelockTypeOK, PendingOp, U64
<1>3. now \in Int
  BY DEF TimelockInv, TimelockTypeOK
<1>4. \A o \in S : StageOf[o] = Window!Open(ops[o].payload)
  BY DEF StageOf, Window!Open
<1>5. \A o \in S : StageOf'[o] = Window!Due(StageOf[o].target)
  BY <1>1, <1>2, <1>3, <1>4 DEF StageOf, Window!Open, Window!Due
<1>6. \A o \in OpIds \ S : StageOf'[o] = StageOf[o]
  BY <1>1, <1>2, <1>3 DEF StageOf
<1>7. Window!Close(S)
  BY <1>4, <1>5, <1>6 DEF Window!Close, Window!Open, StageOf
<1> QED
  BY <1>7

\* An empty time-lock, and any step of it.
LEMMA TimelockInitRefines == TimelockInit => Window!WindowInit
  BY DEF TimelockInit, StageOf, Window!WindowInit, Window!Free

LEMMA TimelockStepRefines ==
  TimelockInv /\ [TimelockStep]_timelockVars => [Window!WindowNext]_StageOf
<1> SUFFICES ASSUME TimelockInv, [TimelockStep]_timelockVars
             PROVE  [Window!WindowNext]_StageOf
  OBVIOUS
<1>1. CASE Tick
  BY <1>1, TickRefines DEF Window!WindowNext
<1>2. ASSUME NEW o \in OpIds, NEW p \in Payloads, ProposeOp(o, p)
      PROVE  Window!WindowNext
  BY <1>2, ProposeRefines DEF Window!WindowNext
<1>3. ASSUME NEW o \in OpIds, ExecuteOp(o)
      PROVE  Window!WindowNext
  BY <1>3, ExecuteRefines DEF Window!WindowNext
<1>4. ASSUME NEW o \in OpIds, ContestOperation(o)
      PROVE  [Window!WindowNext]_StageOf
  BY <1>4, ContestRefines DEF Window!WindowNext
<1>5. ASSUME NEW o \in OpIds, RollbackOperation(o)
      PROVE  Window!WindowNext
  BY <1>5, RollbackRefines DEF Window!WindowNext
<1>6. ASSUME NEW d \in Delays, SetTimelockDelay(d)
      PROVE  UNCHANGED StageOf
  BY <1>6, StagesOnly DEF SetTimelockDelay
<1>7. CASE UNCHANGED timelockVars
  BY <1>7, StagesOnly DEF timelockVars
<1> QED
  BY <1>1, <1>2, <1>3, <1>4, <1>5, <1>6, <1>7 DEF TimelockStep
=============================================================================
