----------------------------- MODULE MCArchive -----------------------------
(* An instance of Archive for TLC. *)
EXTENDS Archive, TLC

CONSTANTS R2, B2

\* The two stores are treated alike.
StoreSymmetry == Permutations(Stores)
=============================================================================
