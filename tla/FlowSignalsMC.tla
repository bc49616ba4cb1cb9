---------------------------- MODULE FlowSignalsMC ----------------------------
(* FlowSignals for TLC: two horizons, an excursion up to the second, and a  *)
(* clock that outlasts the lookback of a restart.                           *)
EXTENDS FlowSignals

CONSTANTS primary_3w, profile

OneVariant == {primary_3w}
PrimaryVariant == primary_3w
OneProfile == {profile}
TwoHorizons == {1, 2}
OneExcursion == {2}
SmallBudgets == {[trades |-> 3, signals |-> 1, locks |-> 1, errors |-> 0, restarts |-> 0],
                 [trades |-> 3, signals |-> 1, locks |-> 0, errors |-> 0, restarts |-> 1],
                 [trades |-> 2, signals |-> 1, locks |-> 1, errors |-> 0, restarts |-> 1],
                 [trades |-> 2, signals |-> 2, locks |-> 0, errors |-> 1, restarts |-> 1],
                 [trades |-> 2, signals |-> 1, locks |-> 1, errors |-> 1, restarts |-> 0]}
=============================================================================
