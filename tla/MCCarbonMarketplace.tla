------------------------ MODULE MCCarbonMarketplace ------------------------
(***************************************************************************)
(* Values for TLC: two or three addresses that may all sell, buy and be    *)
(* admin, prices for which the fee of 1% is not a whole number, and an     *)
(* i128 that overflows in the multiplication by the larger fee.            *)
(***************************************************************************)
EXTENDS Baskets, TLC

CONSTANTS operator, maker, taker

MCThree == {operator, maker, taker}
MCTwo == {maker, taker}

\* The taker can pay 150 stroops twice, and no more.
MCUsdcThree == (operator :> 0) @@ (maker :> 0) @@ (taker :> 310)
MCUsdcTwo == (maker :> 0) @@ (taker :> 310)

\* Listings are interchangeable; addresses are not, their funds differ.
MCSymmetry == Permutations(ListingIds)
=============================================================================
