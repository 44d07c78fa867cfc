---------------------------- MODULE SerialLedger ----------------------------
(***************************************************************************)
(* What the credit contract promises about serial numbers, without         *)
(* counters, statuses or certificates: serials come in lots, a lot is      *)
(* issued at once and once only, no serial is in two lots, only a serial   *)
(* of the lot can be burned under it, at most once, and neither issuing    *)
(* nor burning is ever undone.                                             *)
(***************************************************************************)
CONSTANTS Serials, Lots

VARIABLES
  issued,   \* for each lot, the serials it was issued with ({} before that)
  burned    \* for each lot, those of its serials that are retired

vars == <<issued, burned>>

Init ==
  /\ issued = [l \in Lots |-> {}]
  /\ burned = [l \in Lots |-> {}]

\* mint_credits: a new lot, of serials that are in no other lot.
Mint(l, S) ==
  /\ S # {}
  /\ issued[l] = {}
  /\ \A m \in Lots : S \cap issued[m] = {}
  /\ issued' = [issued EXCEPT ![l] = S]
  /\ UNCHANGED burned

\* retire_credits: some serials of the lot that are not burned yet.
Retire(l, S) ==
  /\ S # {}
  /\ S \subseteq issued[l] \ burned[l]
  /\ burned' = [burned EXCEPT ![l] = burned[l] \cup S]
  /\ UNCHANGED issued

Next == \E l \in Lots, S \in SUBSET Serials : Mint(l, S) \/ Retire(l, S)

Spec == Init /\ [][Next]_vars
=============================================================================
