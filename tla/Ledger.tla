------------------------------ MODULE Ledger ------------------------------
(***************************************************************************)
(* What the board promises the people who prove for it: a block is held by *)
(* one claim at a time and never once its proof is final, a hold ends but  *)
(* never changes hands, a final proof is never replaced, and a range wider *)
(* than one block is proved only over blocks that have proofs of their own.*)
(***************************************************************************)
EXTENDS Integers

CONSTANTS Blocks,     \* block heights
          Ranges,     \* the ranges <<lo, hi>> that are ever proved
          Claims,     \* who holds a block, and since when
          NoHold,
          Proofs,     \* what a proof may be: its kind, its key, its time
          NoProof,
          Final(_)    \* a proof that counts for good

VARIABLES proof,      \* the proof of each range
          hold        \* the claim each block is held by

vars == <<proof, hold>>

Init == proof = [r \in Ranges |-> NoProof] /\ hold = [h \in Blocks |-> NoHold]

Take(h, c) ==
  /\ hold[h] = NoHold
  /\ ~Final(proof[<<h, h>>])
  /\ hold' = [hold EXCEPT ![h] = c]
  /\ UNCHANGED proof

(* Holds end for many reasons: silence, age, a block parked. *)
End(S) ==
  /\ UNCHANGED proof
  /\ hold' = [h \in Blocks |-> IF h \in S THEN NoHold ELSE hold[h]]

(* A proof may come from somebody else than the claim that holds the block;
   the hold ends with it either way. *)
Prove(r, p) ==
  /\ ~Final(proof[r])
  /\ r[1] # r[2] => \A h \in r[1]..r[2] : proof[<<h, h>>] # NoProof
  /\ proof' = [proof EXCEPT ![r] = p]
  /\ hold' = [h \in Blocks |-> IF r = <<h, h>> THEN NoHold ELSE hold[h]]

Next ==
  \/ \E S \in SUBSET Blocks : End(S)
  \/ \E h \in Blocks, c \in Claims : Take(h, c)
  \/ \E r \in Ranges, p \in Proofs \ {NoProof} : Prove(r, p)

Spec == Init /\ [][Next]_vars
=============================================================================
