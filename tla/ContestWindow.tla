---------------------------- MODULE ContestWindow ----------------------------
(***************************************************************************)
(* What the governance time-lock promises, without times, delays or        *)
(* contest records.  An operation is open while it may be contested, then  *)
(* due; it is executed only when it has come due without a contest, in the *)
(* step that removes it.  A contest is final: nothing but a withdrawal     *)
(* ends it, proposing the operation again included.                        *)
(***************************************************************************)
CONSTANTS
  Ops,
  Targets,    \* what an operation is about
  NoTarget

VARIABLE stage    \* of each operation: where it is, and its target

Free == [at |-> "free", target |-> NoTarget]
Open(t) == [at |-> "open", target |-> t]
Contested(t) == [at |-> "contested", target |-> t]
Due(t) == [at |-> "due", target |-> t]

WindowInit == stage = [o \in Ops |-> Free]

\* A proposal under a contested id stays contested, whatever its new target.
Propose(o, t) ==
  stage' = [stage EXCEPT
    ![o] = IF stage[o].at = "contested" THEN Contested(t) ELSE Open(t)]

\* Time closes the windows of some operations.
Close(S) ==
  /\ \A o \in S : stage[o].at = "open"
  /\ stage' = [o \in Ops |->
                 IF o \in S THEN Due(stage[o].target) ELSE stage[o]]

Contest(o) ==
  /\ stage[o].at = "open"
  /\ stage' = [stage EXCEPT ![o] = Contested(stage[o].target)]

Withdraw(o) ==
  /\ stage[o] # Free
  /\ stage' = [stage EXCEPT ![o] = Free]

Execute(o) ==
  /\ stage[o].at = "due"
  /\ stage' = [stage EXCEPT ![o] = Free]

WindowNext ==
  \/ \E o \in Ops : Contest(o) \/ Withdraw(o) \/ Execute(o)
  \/ \E o \in Ops, t \in Targets : Propose(o, t)
  \/ \E S \in SUBSET Ops : Close(S)

WindowSpec == WindowInit /\ [][WindowNext]_stage
=============================================================================
