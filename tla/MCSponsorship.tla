--------------------------- MODULE MCSponsorship ---------------------------
(* Instances of Sponsorship for TLC. *)
EXTENDS Sponsorship, TLC

Perms == Permutations(Threads) \cup Permutations(Keys)

Spans == {<<1, 2>>}
OneBlock == {<<1, 1>>}

(* The section between a check and its write is short: the only sponsorship
   step that falls inside it is a write the poller had ready. *)
ShortSections ==
  lock # NoThread => UNCHANGED <<requesting, paid, clock>> /\ poll' \in {poll, NoPoll}

(* Workload: claims and submits, no beats. *)
NoBeats == \A t \in Threads : req[t].pc # "beat"
=============================================================================
