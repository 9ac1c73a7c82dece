---------------------------- MODULE MCSponsorBot ----------------------------
(* SponsorBot on small instances: two blocks to prove in one run; one block,
   and one whose bundle has to be made first, over two runs. *)
EXTENDS SponsorBot, TLC

TwoBlocks == {1, 2}
OneSponsor == 1 :> "a" @@ 2 :> "a"
SomeBoards == {<<{1, 2}, {}, 1>>, <<{1, 2}, {2}, 2>>, <<{1}, {1}, 2>>}
NoBundle == {<<{1}, {1}, 1>>}
=============================================================================
