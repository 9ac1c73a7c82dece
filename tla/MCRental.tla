------------------------------ MODULE MCRental ------------------------------
(* Rental on small instances. *)
EXTENDS Rental

Opt(adopt, release, keep, grow) ==
  [adopt |-> adopt, release_adopted |-> release, keep |-> keep, grow |-> grow]

(* A run that grows, one that is kept, and the two ways to adopt a fleet. *)
MCOptions == {Opt(FALSE, FALSE, FALSE, TRUE), Opt(FALSE, FALSE, TRUE, FALSE),
              Opt(TRUE, FALSE, FALSE, FALSE), Opt(TRUE, TRUE, FALSE, FALSE)}

MCTargets == {3, 4}
=============================================================================
