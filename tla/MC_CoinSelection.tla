--------------------------- MODULE MC_CoinSelection ---------------------------
EXTENDS CoinSelection, TLC

(* Model-checking instance of CoinSelection: three Beam coins (one     *)
(* shielded), two coins of asset 7 (one shielded), 8-bit amounts that   *)
(* never wrap at these values, fees as in a fee schedule with a default *)
(* explicit fee below the cost of a change output.                      *)

CONSTANTS b1, b2, b3, a1, a2

MCCoins == {b1, b2, b3, a1, a2}
MCValue == (b1 :> 2 @@ b2 :> 3 @@ b3 :> 6 @@ a1 :> 2 @@ a2 :> 3)
MCAssetOf == (b1 :> 0 @@ b2 :> 0 @@ b3 :> 0 @@ a1 :> 7 @@ a2 :> 7)
MCShielded == {b2, a2}
MCFs == [kernel |-> 1, output |-> 1, shieldedOutputTotal |-> 2,
         shieldedInputTotal |-> 1, defaultStd |-> 2, defaultShieldedOut |-> 3]
=============================================================================
