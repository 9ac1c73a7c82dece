---------------------------- MODULE MCAggregate ----------------------------
(* An instance of Aggregate for TLC. *)
EXTENDS Aggregate
=============================================================================
