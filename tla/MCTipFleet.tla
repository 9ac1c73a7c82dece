----------------------------- MODULE MCTipFleet -----------------------------
(* TipFleet on small instances. *)
EXTENDS TipFleet

BothModes == {"chunks", "range"}
=============================================================================
