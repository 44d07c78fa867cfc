--------------------------- MODULE MCCarbonOracle ---------------------------
(***************************************************************************)
(* Values for TLC.                                                         *)
(***************************************************************************)
EXTENDS CarbonOracle

MCTonnes == {0, 1}
MCScores == {100, 101}
MCPrices == {0, 1}
=============================================================================
