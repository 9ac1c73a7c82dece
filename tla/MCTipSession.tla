---------------------------- MODULE MCTipSession ----------------------------
(* TipSession on small instances. *)
EXTENDS TipSession

MCTips == 10..12
MCBoard == {1}
MCBranches == {1, 2}

(* The tip hour as it is run, and a session with its clock armed at once. *)
MCOptions == {[clock_from_tip |-> TRUE, stage_ahead |-> FALSE, budget_usd |-> 0],
              [clock_from_tip |-> FALSE, stage_ahead |-> TRUE, budget_usd |-> 1]}
=============================================================================
