------------------------------ MODULE MCFeed -------------------------------
(* An instance of Feed for TLC. *)
EXTENDS Feed

OnDisk == IF file.part = NoRow THEN file.rows ELSE Append(file.rows, file.part)

\* A second feed writes the rows of the first again, and an idle card has the
\* fixture of the next block staged.
Feeds ==
  /\ \A i, j \in DOMAIN OnDisk : OnDisk[i].sec = OnDisk[j].sec => OnDisk[i] = OnDisk[j]
  /\ \A i \in DOMAIN OnDisk : OnDisk[i].phase = "idle" /\ OnDisk[i].h = NoH => job = Blocks
=============================================================================
