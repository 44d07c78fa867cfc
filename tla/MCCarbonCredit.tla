--------------------------- MODULE MCCarbonCredit ---------------------------
(***************************************************************************)
(* Values for TLC.  With U64Max = 4 the serial space is the whole of a     *)
(* five-valued integer type, so ranges at the top of it, and the one that  *)
(* is all of it, are among the inputs.                                     *)
(***************************************************************************)
EXTENDS CarbonCredit, TLC

\* i128 arguments: zero, and up to more than the serial space.
MCAmounts == 0 .. 5

\* Few amounts, for the runs about governance.
MCFewAmounts == {0, 1, 2}

\* The first accepted year, and the first refused after the last.
MCVintages == {2000, 2101}

\* The identifiers are interchangeable: no definition names one of them.
MCSymmetry == Permutations(BatchIds) \cup Permutations(RetirementIds)
                \cup Permutations(ProjectIds) \cup Permutations(Addresses)

MCGovernanceSymmetry == Permutations(OpIds) \cup Permutations(Addresses)
=============================================================================
