-------------------------- MODULE MCCarbonRegistry --------------------------
(***************************************************************************)
(* Values for TLC.  I128Max is small, so that totals meet both of their    *)
(* ends; corrections by a negative amount are among the inputs.            *)
(***************************************************************************)
EXTENDS CarbonRegistry, TLC

MCAmounts == {-1, 1}

\* The last year refused before the first, and the first accepted one.
MCVintages == {1999, 2000}

\* The identifiers are interchangeable: no definition names one of them.
MCSymmetry ==
  Permutations(OpIds) \cup Permutations(ProjectIds) \cup Permutations(Addresses)
=============================================================================
