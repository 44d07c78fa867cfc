------------------------------ MODULE Timelock ------------------------------
(***************************************************************************)
(* The governance time-lock that the four contracts share.  The same code  *)
(* is repeated in each of them (carbon_registry, carbon_credit,            *)
(* carbon_marketplace and carbon_oracle); the contract modules EXTEND this *)
(* one and add the role check of the caller and what proposing or          *)
(* executing does to the rest of their state.                              *)
(*                                                                         *)
(* A proposal is stored with the time (eta) from which it may be executed. *)
(* Until then anybody may contest it, and a contested operation stays      *)
(* blocked until the role that owns it rolls it back.  Proposing an id     *)
(* again overwrites the stored operation, and leaves a contest in place.   *)
(*                                                                         *)
(* An invocation that returns an error, or panics, has no effect: the host *)
(* discards all its writes.  A failing call is thus a stuttering step, and *)
(* the guards of an action are the conditions of its successful path.      *)
(***************************************************************************)
EXTENDS Integers

CONSTANTS
  OpIds,         \* identifiers of operations, supplied by the caller
  Payloads,      \* what an operation carries: a reason, a fee, a price
  Delays,        \* the arguments callers may give to set_timelock_delay
  DefaultDelay,  \* the delay while none is stored (172800 seconds in the code)
  U64Max,        \* the largest u64; every timestamp and serial is a u64
  MaxTime,       \* bound of the model: the clock stops there
  None           \* the value of a storage key that is not set

U64 == 0 .. U64Max

ASSUME TimelockAssumption ==
  /\ U64Max \in Nat
  /\ MaxTime \in U64
  /\ DefaultDelay \in U64 \ {0}
  /\ Delays \subseteq U64
  /\ None \notin Int

PendingOp == [eta : U64, payload : Payloads]

ASSUME PendingOpAssumption == None \notin PendingOp

VARIABLES
  now,       \* env.ledger().timestamp()
  ops,       \* DataKey::TimelockOp
  contests,  \* DataKey::TimelockContest, reduced to contested_at
  delay      \* DataKey::TimelockDelay, or its default

timelockVars == <<now, ops, contests, delay>>

TimelockInit ==
  /\ now = 0
  /\ ops = [o \in OpIds |-> None]
  /\ contests = [o \in OpIds |-> None]
  /\ delay = DefaultDelay

-----------------------------------------------------------------------------
\* A ledger closes: time passes between invocations, never during one, and
\* by any number of seconds, since nothing in the code bounds a ledger's age.
Tick ==
  /\ now' \in (now + 1) .. MaxTime
  /\ UNCHANGED <<ops, contests, delay>>

\* Queue an operation; now + delay is a checked u64 addition.
ProposeOp(o, payload) ==
  /\ now + delay <= U64Max
  /\ ops' = [ops EXCEPT ![o] = [eta |-> now + delay, payload |-> payload]]
  /\ UNCHANGED <<now, contests, delay>>

\* Mutation: the contest record is not consulted.
ExecutableContested(o) ==
  /\ ops[o] # None
  /\ now >= ops[o].eta

\* An operation may be executed once its delay is over, unless contested.
Executable(o) ==
  /\ ops[o] # None
  /\ contests[o] = None
  /\ now >= ops[o].eta

ExecuteOp(o) ==
  /\ Executable(o)
  /\ ops' = [ops EXCEPT ![o] = None]
  /\ UNCHANGED <<now, contests, delay>>

\* Any address may contest before the delay is over, more than once.
ContestOperation(o) ==
  /\ ops[o] # None
  /\ now < ops[o].eta
  /\ contests' = [contests EXCEPT ![o] = now]
  /\ UNCHANGED <<now, ops, delay>>

\* Mutation: the contest stays when its operation is withdrawn.
RollbackOperationKeepsContest(o) ==
  /\ ops[o] # None
  /\ ops' = [ops EXCEPT ![o] = None]
  /\ UNCHANGED <<now, contests, delay>>

\* Withdraw an operation, contested or not, at any time.
RollbackOperation(o) ==
  /\ ops[o] # None
  /\ ops' = [ops EXCEPT ![o] = None]
  /\ contests' = [contests EXCEPT ![o] = None]
  /\ UNCHANGED <<now, delay>>

\* Mutation: a delay of zero is accepted.
SetTimelockDelayAny(d) ==
  /\ delay' = d
  /\ UNCHANGED <<now, ops, contests>>

\* Takes effect at once, for the operations proposed from now on.
SetTimelockDelay(d) ==
  /\ d # 0
  /\ delay' = d
  /\ UNCHANGED <<now, ops, contests>>

-----------------------------------------------------------------------------
TimelockTypeOK ==
  /\ now \in 0 .. MaxTime
  /\ ops \in [OpIds -> PendingOp \cup {None}]
  /\ contests \in [OpIds -> U64 \cup {None}]
  /\ delay \in U64 \ {0}

(***************************************************************************)
(* A contest on record belongs to an operation that is still pending, and  *)
(* was raised inside the contest window of the eta now stored -- although  *)
(* the operation may have been proposed again, with another delay, after   *)
(* it was contested.  So a contest is never left behind by the removal of  *)
(* its operation to block a later one (contest_operation,                  *)
(* execute_*, rollback_operation, set_timelock_delay).                     *)
(***************************************************************************)
ContestsInWindow ==
  \A o \in OpIds : contests[o] # None =>
    /\ ops[o] # None
    /\ contests[o] <= now
    /\ contests[o] < ops[o].eta

-----------------------------------------------------------------------------
StageOf ==
  [o \in OpIds |->
     IF ops[o] = None
       THEN [at |-> "free", target |-> None]
       ELSE [at |-> IF contests[o] # None THEN "contested"
                      ELSE IF now < ops[o].eta THEN "open" ELSE "due",
             target |-> ops[o].payload]]

(***************************************************************************)
(* The time-lock implements ContestWindow: an operation is executed only   *)
(* after its window closed without a contest -- through repeated           *)
(* proposals, changes of the delay, contests, withdrawals and the passing  *)
(* of time in any order -- and a contest survives all but a withdrawal     *)
(* (propose_*, execute_*, contest_operation, rollback_operation).          *)
(***************************************************************************)
Window == INSTANCE ContestWindow
            WITH Ops <- OpIds, Targets <- Payloads, NoTarget <- None,
                 stage <- StageOf
ContestWindowSpec == Window!WindowSpec
=============================================================================
