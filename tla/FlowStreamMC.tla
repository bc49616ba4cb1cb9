---------------------------- MODULE FlowStreamMC ----------------------------
(***************************************************************************)
(* Bounds for the model checking of FlowStream.                            *)
(***************************************************************************)
EXTENDS FlowStream

CONSTANTS c1, c2, c3
ThreeConns == {c1, c2, c3}

=============================================================================
