------------------------------ MODULE MCBoard ------------------------------
(* Instances of Board for TLC. *)
EXTENDS Board, TLC

Perms == Permutations(Threads) \cup Permutations(Keys)

OneFold == {<<1, 2>>}

(* Workloads: the requests a run sends. Its frontier, cache and threads stay
   those of Board. *)
NoBeats == \A t \in Threads : req[t].pc # "beat"

(* claims, beats and submits of block 1, with one frontier refresh at the
   start; beats name rows that exist *)
ClaimLoad ==
  /\ busy # NoThread => clock = 0
  /\ \A t \in Threads : /\ req[t].pc # "wait"
                        /\ req[t].pc = "beat" => ranges[req[t].rid].status # "none"
                        /\ req[t].pc \in SubmitPCs => req[t].rid = <<1, 1>> /\ clock > 0
=============================================================================
