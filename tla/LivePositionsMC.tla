--------------------------- MODULE LivePositionsMC ---------------------------
(* Model values and bounds for checking LivePositions with TLC. *)
EXTENDS LivePositions

OneMint == {"m1"}
TwoMints == {"m1", "m2"}
Plain == {"PLAIN"}
Graduating == {"GRAD"}
PlainAndCore == {"PLAIN", "CORE"}

\* Two lots hold the mint at once only while nothing stops and no lot is sold in
\* parts: a process that starts again takes the wallet balance of the mint for
\* the lot it recovers, whoever owns it (see README.md).
SharedWhileUp ==
    \A m \in Mints : Cardinality(PositionsOf(m)) > 1 =>
        /\ stops = 0
        /\ \A l \in PositionsOf(m) : lot[l].mode = "PLAIN"

=============================================================================
