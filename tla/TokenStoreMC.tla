--------------------------- MODULE TokenStoreMC ---------------------------
(* Instances of TokenStore for TLC. *)
EXTENDS TokenStore

CONSTANTS mintA, mintB

TwoMints == {mintA, mintB}
OneTime == {3}
=============================================================================
