---------------------------- MODULE Suspensions ----------------------------
(***************************************************************************)
(* What the registry promises about time-locked suspensions: a project is  *)
(* suspended by an operation only when that operation has passed its       *)
(* window without a contest, and only a project that exists is the target  *)
(* of one.  The other ways to change the status of a project do not touch  *)
(* the operations.                                                         *)
(***************************************************************************)
EXTENDS ContestWindow

CONSTANT Statuses

VARIABLE status    \* of each target, or NoTarget while there is none

vars == <<status, stage>>

Init ==
  /\ WindowInit
  /\ status = [p \in Targets |-> NoTarget]

ProposeSuspension(o, p) ==
  /\ status[p] # NoTarget
  /\ Propose(o, p)
  /\ UNCHANGED status

Suspend(o) ==
  /\ Execute(o)
  /\ status' = [status EXCEPT ![stage[o].target] = "Suspended"]

\* Contests, withdrawals and time leave the projects alone.
Procedure ==
  /\ \/ \E o \in Ops : Contest(o) \/ Withdraw(o)
     \/ \E S \in SUBSET Ops : Close(S)
  /\ UNCHANGED status

Register(p) ==
  /\ status[p] = NoTarget
  /\ status' = [status EXCEPT ![p] = "Pending"]
  /\ UNCHANGED stage

Decide(p, s) ==
  /\ status[p] # NoTarget
  /\ status' = [status EXCEPT ![p] = s]
  /\ UNCHANGED stage

Next ==
  \/ \E o \in Ops, p \in Targets : ProposeSuspension(o, p)
  \/ \E o \in Ops : Suspend(o)
  \/ Procedure
  \/ \E p \in Targets : Register(p)
  \/ \E p \in Targets, s \in Statuses : Decide(p, s)

Spec == Init /\ [][Next]_vars
=============================================================================
