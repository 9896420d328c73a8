------------------------------ MODULE MCGamma ------------------------------
(***************************************************************************)
(* Instances of GammaChannel for TLC.                                      *)
(***************************************************************************)
EXTENDS GammaChannel, TLC

CONSTANTS i1, i2, d1, d2, f1, f2

\* Two displays, each on its own device; displays come before their devices.
TwoHomes == i1 :> d1 @@ i2 :> d2
OneHome  == i1 :> d1

FactorSymmetry == Permutations({f1, f2})

=============================================================================
