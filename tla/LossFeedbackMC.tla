--------------------------- MODULE LossFeedbackMC ---------------------------
(* LossFeedback for TLC: two positions and one incident, or one position   *)
(* and several.                                                            *)
EXTENDS LossFeedback

SmallBudgets == {[entries |-> 2, faults |-> 1, stops |-> 0],
                 [entries |-> 2, faults |-> 0, stops |-> 1],
                 [entries |-> 1, faults |-> 3, stops |-> 2]}
=============================================================================
