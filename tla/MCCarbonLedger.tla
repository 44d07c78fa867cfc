---------------------------- MODULE MCCarbonLedger ----------------------------
(***************************************************************************)
(* Values for TLC.  I128Max is the least that the widths of the two        *)
(* integer types allow.                                                    *)
(***************************************************************************)
EXTENDS CarbonLedger, TLC

MCAmounts == 0 .. 3
MCI128Max == 3

\* The identifiers are interchangeable: no definition names one of them.
MCSymmetry == Permutations(BatchIds) \cup Permutations(Projects)
=============================================================================
