------------------------------- MODULE Feed --------------------------------
(***************************************************************************)
(* The live dashboard's collector (tools/live/collect.py) and one card it   *)
(* watches: the coordinator card of a tip run, the only one that names the  *)
(* block in hand.  tip-stream.sh appends a row a second to the card's file  *)
(* over ssh, so a row may be on disk in part, may not name its block, may   *)
(* come twice when a feed has been started twice, and the file may be       *)
(* replaced by a new session's.  The collector counts each file from a      *)
(* cursor, and says which blocks are done.                                  *)
(*                                                                         *)
(* The feed drops and is started again at any time: an outage may be longer *)
(* than the time after which a card counts as gone.                        *)
(*                                                                         *)
(* Times are in units of the silence a block may keep (5 s in the code).    *)
(***************************************************************************)
EXTENDS Integers, Sequences, SequencesExt, FiniteSets, FiniteSetsExt

CONSTANTS
  Blocks,    \* how many blocks the run proves
  MaxNow,    \* last unit of time
  MaxRows,   \* rows in one file
  MaxFiles,  \* files, one after the other
  Silence,   \* a block is silent when nothing named it for more than this
  Stale      \* a card is up when its newest row is younger than this

ASSUME FeedAssumption ==
  /\ Blocks \in Nat \ {0} /\ MaxNow \in Nat /\ MaxRows \in Nat \ {0}
  /\ MaxFiles \in Nat \ {0}
  /\ Silence \in Nat /\ Stale \in Nat \ {0}

VARIABLES
  now,        \* the clock
  job,        \* the block the fleet works on, or the last one it worked on
  stage,      \* how far it is with it
  phaseline,  \* the block $RUNDIR/phase calls verified, if it names one
  outages,    \* history: blocks the feed was gone for, Stale or longer, while worked on
  file,       \* the card's capture: its inode, its rows, a row in part
  cur,        \* the collector's StreamCursor for the card
  at,         \* the collector: between ticks, or has looked at the file
  latched,    \* done_heights
  shown       \* the snapshot: the card's figures, the blocks done

run == <<now, job, stage, phaseline, outages>>
collector == <<cur, at, latched>>
vars == <<run, file, collector, shown>>

NoH == 0
NoRow == [sec |-> -1, phase |-> "idle", h |-> NoH]
Working == {"executed", "proving", "assembling"}
Row == [sec : 0..MaxNow, phase : Working \cup {"idle", "done"}, h : 0..Blocks]
Age(t) == now - t

-----------------------------------------------------------------------------
(* The run and the feed.  A tick of the collector is short, and so is the   *)
(* writing of a row: they interleave with each other, while the run and the *)
(* clock stand still.                                                       *)

Settled == at = "idle" /\ file.part = NoRow

\* The newest row on disk is too old for the card to be up.
Gone(t) == file.rows = <<>> \/ t - Last(file.rows).sec >= Stale

ClockTicks ==
  /\ Settled /\ now < MaxNow
  /\ now' = now + 1
  /\ outages' = outages \cup IF stage \in Working /\ Gone(now + 1) THEN {job} ELSE {}
  /\ UNCHANGED <<job, stage, phaseline, file, collector, shown>>

\* The fleet takes the next block, or gets further with the one it has.
NextStage == [executed |-> "proving", proving |-> "assembling", assembling |-> "done"]
Work ==
  /\ Settled
  /\ \/ stage \in {"idle", "done"} /\ job < Blocks /\ job' = job + 1 /\ stage' = "executed"
     \/ stage \in Working /\ stage' = NextStage[stage] /\ UNCHANGED job
     \/ stage = "done" /\ stage' = "idle" /\ UNCHANGED job
  /\ UNCHANGED <<now, phaseline, outages, file, collector, shown>>

\* The run writes VERIFIED on its phase line, and overwrites it later.
PhaseLine ==
  /\ Settled
  /\ \E h \in {NoH, job} :
       /\ h # phaseline /\ (h # NoH => stage = "done")
       /\ phaseline' = h
  /\ UNCHANGED <<now, job, stage, outages, file, collector, shown>>

\* A row of the feed: the phase of the card, and the block if the banner is
\* still in the tail of the log; the height of an idle card is that of the
\* fixture staged on it.
NewRow(r) ==
  /\ r.sec = now /\ r.phase = stage
  /\ r.h \in IF stage = "idle" THEN {NoH, job + 1} \cap 0..Blocks ELSE {NoH, job}

WriteRow ==
  /\ file.part = NoRow /\ Len(file.rows) < MaxRows
  /\ at = "read" => cur.ino = file.ino
  /\ \E r \in Row :
       /\ NewRow(r)
       /\ \/ file' = [file EXCEPT !.rows = Append(@, r)]
          \/ file' = [file EXCEPT !.part = r]
  /\ UNCHANGED <<run, collector, shown>>

RestOfRow ==
  /\ file.part # NoRow
  /\ file' = [file EXCEPT !.rows = Append(@, file.part), !.part = NoRow]
  /\ UNCHANGED <<run, collector, shown>>

\* A new session's file.  The collector's stat and its read are too close
\* together for the new file to have rows by the read.
ReplaceFile ==
  /\ file.ino < MaxFiles /\ file.part = NoRow /\ stage \notin Working
  /\ file' = [ino |-> file.ino + 1, rows |-> <<>>, part |-> NoRow]
  /\ UNCHANGED <<run, collector, shown>>

-----------------------------------------------------------------------------
(* read_streams: the accumulators a row adds to.                            *)

NoBlock == [n |-> 0, t0 |-> 0, t1 |-> 0]
NoFigures == [secs |-> 0, last_sec |-> -1, last_h |-> NoH,
              peak |-> 0, peak_h |-> NoH, by |-> [h \in 1..Blocks |-> NoBlock]]

\* The furthest the card got with the block it names; a card that has
\* finished reports no segments.
SegmentsDone == [idle |-> -1, executed |-> 0, proving |-> 1, assembling |-> 2, done |-> -1]
Peak(f, r) ==
  IF SegmentsDone[r.phase] < 0 \/ r.h = NoH THEN f
  ELSE [f EXCEPT !.peak = LET best == IF f.peak_h = r.h THEN @ ELSE 0
                          IN IF SegmentsDone[r.phase] > best THEN SegmentsDone[r.phase] ELSE best,
                 !.peak_h = r.h]

\* The height is carried forward while the card works, never across idle.
Carried(f, r) ==
  IF r.h = NoH /\ r.phase \in {"proving", "assembling", "done"} THEN f.last_h ELSE r.h
Carry(f, r) ==
  [f EXCEPT !.last_h = IF r.phase = "idle" THEN NoH
                       ELSE IF Carried(f, r) # NoH THEN Carried(f, r) ELSE @]

\* A block is opened by a row that shows work on it.
Attribute(f, r, h) ==
  IF h = NoH \/ (r.phase = "idle" /\ f.by[h] = NoBlock) THEN f
  ELSE [f EXCEPT !.by[h] = IF @ = NoBlock THEN [n |-> 1, t0 |-> r.sec, t1 |-> r.sec]
                           ELSE [n |-> @.n + 1, t0 |-> Min({@.t0, r.sec}), t1 |-> Max({@.t1, r.sec})]]

\* A second that is the one before it again is not counted.
Add(f, r) ==
  IF r.sec = f.last_sec THEN f
  ELSE Attribute(Carry(Peak([f EXCEPT !.secs = @ + 1, !.last_sec = r.sec], r), r), r, Carried(f, r))

Count(f, rows) == FoldLeft(Add, f, rows)
Recount(rows) == Count(NoFigures, rows)

-----------------------------------------------------------------------------
(* The collector.                                                           *)

FreshCursor == [offset |-> 0, ino |-> 0, size |-> 0, fig |-> NoFigures]
Size == 2 * Len(file.rows) + IF file.part = NoRow THEN 0 ELSE 1

\* A shrunk or replaced file resets the cursor.
Replaced(c) == c.ino # 0 /\ (file.ino # c.ino \/ Size < c.size)
Stat ==
  /\ at = "idle"
  /\ cur' = [(IF Replaced(cur) THEN FreshCursor ELSE cur) EXCEPT !.ino = file.ino, !.size = Size]
  /\ at' = "read"
  /\ UNCHANGED <<run, file, latched, shown>>

\* The whole rows past the offset; a row in part is left for the next tick.
PastPart(c) == Len(file.rows) + IF file.part = NoRow THEN 0 ELSE 1
Cut(c) == IF c.offset > Len(file.rows) THEN c.offset ELSE Len(file.rows)
NewRows == SubSeq(file.rows, cur.offset + 1, Len(file.rows))

\* The card as the end of its file has it: its last phase, the last block it
\* named, and whether it is up.
CardPhase == IF file.rows = <<>> THEN "idle" ELSE Last(file.rows).phase
CardBlock ==
  LET named == SelectSeq(file.rows, LAMBDA r : r.h # NoH)
  IN IF named = <<>> THEN NoH ELSE Last(named).h
CardUp == ~Gone(now)

\* blocks_from_cards: a block is done when the run says so, when the card on
\* it says so, when it was done before, or when it is silent and no card that
\* works can be working on it.
Active == CardUp /\ CardPhase \in Working
Newest(by, h) == \A k \in 1..Blocks : by[k] # NoBlock => by[k].t1 <= by[h].t1
WorkingOn(by, h) == Active /\ (CardBlock = h \/ (CardBlock = NoH /\ Newest(by, h)))
Silent(by, h) == Age(by[h].t1) > Silence
Listed(by) == {h \in 1..Blocks : by[h] # NoBlock}
Done(by) ==
  {h \in Listed(by) :
     \/ h = phaseline
     \/ CardPhase = "done" /\ CardBlock = h
     \/ h \in latched
     \/ Silent(by, h) /\ ~WorkingOn(by, h)}

Read ==
  /\ at = "read"
  /\ LET fig == Count(cur.fig, NewRows)
     IN /\ cur' = [cur EXCEPT !.offset = Cut(cur), !.fig = fig]
        /\ latched' = latched \cup Done(fig.by)
        /\ shown' = [fig |-> fig, done |-> Done(fig.by)]
  /\ at' = "idle"
  /\ UNCHANGED <<run, file>>

\* The collector is stopped and started again: the snapshot stays.
CollectorRestarts ==
  /\ at = "idle"
  /\ cur' = FreshCursor /\ latched' = {}
  /\ UNCHANGED <<run, file, at, shown>>

Init ==
  /\ now = 0 /\ job = 0 /\ stage = "idle" /\ phaseline = NoH /\ outages = {}
  /\ file = [ino |-> 1, rows |-> <<>>, part |-> NoRow]
  /\ cur = FreshCursor /\ at = "idle" /\ latched = {}
  /\ shown = [fig |-> NoFigures, done |-> {}]

Next ==
  \/ ClockTicks \/ Work \/ PhaseLine
  \/ WriteRow \/ RestOfRow \/ ReplaceFile
  \/ Stat \/ Read \/ CollectorRestarts

Spec == Init /\ [][Next]_vars

-----------------------------------------------------------------------------
(* Properties.                                                              *)

TypeOK ==
  /\ now \in 0..MaxNow /\ job \in 0..Blocks /\ phaseline \in 0..Blocks
  /\ stage \in Working \cup {"idle", "done"}
  /\ file.rows \in Seq(Row) /\ Len(file.rows) <= MaxRows
  /\ at \in {"idle", "read"} /\ latched \subseteq 1..Blocks /\ outages \subseteq 1..Blocks

\* Counting from a cursor is counting the whole capture: whatever is on disk
\* in part, whenever the file is replaced and the collector restarted, the
\* figures shown are those of the capture read from its start.
Whole == INSTANCE Meter WITH
  Rows <- Row, Reckon <- Recount, capture <- file.rows, figures <- shown.fig
CountsTheWholeCapture == Whole!Spec

=============================================================================
