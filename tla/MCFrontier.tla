---------------------------- MODULE MCFrontier ----------------------------
(* An instance of Frontier with Credits: a heavy chain of three blocks, a light
   fork that outgrows it, every way a row can fail to seam, and two keys that
   may be, or become, one contributor's. *)
EXTENDS Credits

CONSTANTS k1, k2, k3

Row(pk, lo, hi, in, out, work) ==
  [lo |-> lo, hi |-> hi, pk |-> pk, in_tip |-> in[1], out_tip |-> out[1],
   in_bhash |-> in[2], out_bhash |-> out[2], work |-> work]

Genesis == <<GENESIS_TIP, "x">>

ForkedRows == {
  Row(k1, 1, 1, Genesis, <<"a1", "x">>, 2),        \* the heavy chain, in leaves
  Row(k1, 2, 2, <<"a1", "x">>, <<"a2", "x">>, 2),
  Row(k2, 1, 2, Genesis, <<"a2", "x">>, 4),        \* and as a fold
  Row(k1, 1, 3, Genesis, <<"a3", "x">>, 3),        \* a chain through all three, of less work
  Row(k2, 1, 1, Genesis, <<"b1", "x">>, 1),        \* the light fork, in leaves
  Row(k1, 2, 3, <<"b1", "x">>, <<"b3", "x">>, 2),
  Row(k2, 2, 3, <<"a1", "y">>, <<"a3", "x">>, 9),  \* same tip, another UTXO state
  Row(k2, 3, 3, <<"a1", "x">>, <<"a3", "x">>, 9),  \* a block height left out
  Row(k1, 2, 2, <<"a1", NoDigest>>, <<"a2", "x">>, 9),
  Row(k1, 3, 3, <<"a2", "x">>, <<"a3", "x">>, 0),  \* a row whose work was not recorded
  Row(k2, 2, 2, <<GENESIS_TIP, "x">>, <<"a2", "x">>, 9) }  \* genesis tip, not at block 1

(* Bound: rotations and spine submissions only between walks and with few rows,
   and while the walk looks at many rows no more are recorded. *)
Notable == Notes = 0 \/ (phase = "idle" /\ Len(table) + Notes < MaxRows)

Walkable == phase = "walk" => Len(table) < MaxRows \/ ToSet(table) = rows
=============================================================================
