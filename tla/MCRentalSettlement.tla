------------------------- MODULE MCRentalSettlement -------------------------
(***************************************************************************)
(* Constants for TLC: two devices of equivalent value, a rental of one     *)
(* day, and a damage fee and a repair that eat up the deposit.             *)
(***************************************************************************)
EXTENDS RentalSettlement, TLC

CONSTANTS d1, d2

MCDevices == {d1, d2}
MCOriginalPrice == d1 :> 1000 @@ d2 :> 1200
MCPricePerDay == d1 :> 100 @@ d2 :> 100
MCEndTime == DAY_MS

MCSymmetry == Permutations(Requests) \union Permutations(Reports)
=============================================================================
