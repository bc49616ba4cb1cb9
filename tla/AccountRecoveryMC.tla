-------------------------- MODULE AccountRecoveryMC --------------------------
(***************************************************************************)
(* Bounds and symmetry for the model checking of AccountRecovery.          *)
(***************************************************************************)
EXTENDS AccountRecovery, TLC

CONSTANTS m1, m2, m3

TwoMints   == {m1, m2}
ThreeMints == {m1, m2, m3}
OneLeft    == {m1}
TwoSigned  == {m2, m3}

MintSymmetry == Permutations(Mints)

=============================================================================
