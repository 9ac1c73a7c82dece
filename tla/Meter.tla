------------------------------- MODULE Meter -------------------------------
(***************************************************************************)
(* What the live dashboard promises about a card's capture: the figures it  *)
(* shows are those of a collector that reads the whole capture again every  *)
(* time (read_streams without cursors, in tools/live/collect.py).           *)
(***************************************************************************)
EXTENDS Sequences

CONSTANTS Rows,      \* the rows a capture may hold
          Reckon(_)  \* the figures of a capture read whole

VARIABLES capture,   \* the complete rows of the card's file
          figures    \* the figures shown

vars == <<capture, figures>>

Init == capture = <<>> /\ figures = Reckon(<<>>)

Write == /\ \E r \in Rows : capture' = Append(capture, r)
         /\ UNCHANGED figures

\* A new session starts a new file.
Replace == capture' = <<>> /\ UNCHANGED figures

Read == figures' = Reckon(capture) /\ UNCHANGED capture

Spec == Init /\ [][Write \/ Replace \/ Read]_vars
=============================================================================
