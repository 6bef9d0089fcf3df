---------------------------- MODULE MCWeightStream ----------------------------
(* Instances of WeightStream for TLC. *)
EXTENDS WeightStream

CONSTANTS attn, expert, attn0, expert0, expert1

MCTypes == {attn, expert}
MCTypeOrder == <<attn, expert>>
MCModules == {attn0, expert0, expert1}
MCBothTypes ==
    [t \in MCTypes |-> IF t = attn THEN <<attn0>> ELSE <<expert0, expert1>>]
MCNothing == [t \in MCTypes |-> <<>>]
MCTasks == {MCBothTypes, MCNothing}
MCSmall == [t \in MCTypes |-> 1]
MCLarge == [t \in MCTypes |-> IF t = attn THEN 1 ELSE 2]
MCLayouts == {MCSmall, MCLarge}
MCSmallOnly == {MCSmall}
=============================================================================
