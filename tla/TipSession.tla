----------------------------- MODULE TipSession -----------------------------
(***************************************************************************)
(* A tip session (coordinator/tip_session.py, driven by tip_smoke.py): a   *)
(* rented fleet proves tip blocks in sequence as their bundles appear on   *)
(* the bridge, and fills the gaps between them with board blocks.          *)
(*                                                                         *)
(* run_session is one loop: charge the spend, ask for work, plan, prove,   *)
(* record. It is cut where something else can move: the bridge between two *)
(* reads of it, the clock while a claim, a sleep or a proof is under way,  *)
(* the file on disk at every save, and the stage-ahead thread, which       *)
(* downloads the next tip bundle while the current one is proved.          *)
(*                                                                         *)
(* A tip bundle is [h, br, parent]: the height and the branch of its block *)
(* (which together stand for the block's hash), and the branch of the      *)
(* block of height h - 1 it names as its parent. A reorganisation replaces *)
(* the block of a height by one of another branch.                         *)
(***************************************************************************)
EXTENDS Integers, FiniteSets, FiniteSetsExt

CONSTANTS
  Tips,             \* tip heights the bridge may come to serve
  BoardBlocks,      \* heights the board may hand out, all below TIP_FROM
  Branches,         \* the branches a block may be on
  Options,          \* the command lines: clock_from_tip, stage_ahead, budget_usd (0: none)
  DURATION, ARM_DEADLINE,
  DEFAULT_BLOCK_EST, IDLE,
  TIP_MAX_BEHIND,
  MAX_ATTEMPTS, MAX_CONSECUTIVE_FAILS, MAX_CONSECUTIVE_EXHAUSTED_IDLES,
  MaxTime           \* bound: nothing is mined and no time passes after this

Ranges == Tips \cup BoardBlocks

None == -1

NoBundle == [h |-> None, br |-> None, parent |-> None]

FirstTip == Min(Tips)

ASSUME SessionAssumption ==
  /\ Tips \subseteq Nat /\ BoardBlocks \subseteq Nat /\ Tips # {} /\ IsFiniteSet(Tips)
  /\ \E top \in Tips : \A h \in Tips : h <= top
  /\ \A b \in BoardBlocks, h \in Tips : b < h
  /\ Branches \subseteq Nat /\ Branches # {}
  /\ Options \subseteq [clock_from_tip : BOOLEAN, stage_ahead : BOOLEAN, budget_usd : Nat]
  /\ {DURATION, IDLE, MAX_ATTEMPTS, MAX_CONSECUTIVE_FAILS,
      MAX_CONSECUTIVE_EXHAUSTED_IDLES} \subseteq Nat \ {0}
  /\ {ARM_DEADLINE, DEFAULT_BLOCK_EST, TIP_MAX_BEHIND, MaxTime} \subseteq Nat

VARIABLES
  clock,
  opt,       \* the options this run was started with
  bridge,    \* tip_bundles on the bridge host: height -> bundle
  mem,       \* the session state in memory
  disk,      \* session.json
  loop,      \* run_session's locals: pc, t, work, wake, the two guards' counters
  tip,       \* work_fn's closure: floor, header, seen_at, noted (gaps), jumped
  local,     \* bundle_<h>.json in the run directory
  run,       \* the proof in flight: its bundle, the header it was checked with, its ticks
  ahead,     \* the stage-ahead thread
  proved,    \* tip height -> the bundle proved for it (what the receipts commit to)
  failures   \* how often a proof of each range has really failed

vars == <<clock, opt, bridge, mem, disk, loop, tip, local, run, ahead, proved, failures>>

NoBlock == [st |-> "none", wall |-> 0, at |-> 0]

NoWork == [source |-> "idle", rng |-> None, appeared |-> None]

NoRun == [bundle |-> NoBundle, header |-> NoBundle, since |-> 0]

NotAhead == [pc |-> "off", above |-> 0, h |-> 0, bundle |-> NoBundle]

NewState(armed) ==
  [armed_at |-> IF armed THEN 0 ELSE None,
   blocks |-> [r \in Ranges |-> NoBlock], attempts |-> [r \in Ranges |-> 0], spend |-> 0]

(* bundles_above_cmd, run on the bridge host or on this one: the complete
   bundles in its directory, and never one that is still being written. *)
Listed == {h \in Tips : bridge[h] # NoBundle}

(* highest_tip_bundle. (Below Tips are the bundles of before the session.) *)
BridgeTop == Max({FirstTip - 1} \cup Listed)

(* The fleet is ready at time 0; --fresh-tip sets the floor at the current
   tip, so every height of Tips is one the fleet has never seen. *)
Init ==
  /\ clock = 0
  /\ opt \in Options
  /\ bridge = [h \in Tips |-> NoBundle]
  /\ mem = NewState(~opt.clock_from_tip)
  /\ disk = mem
  /\ loop = [pc |-> "top", t |-> 0, work |-> NoWork, wake |-> 0, fails |-> 0, idles |-> 0]
  /\ tip = [floor |-> BridgeTop, header |-> NoBundle, seen |-> [h \in Tips |-> None],
            noted |-> {}, jumped |-> {}]
  /\ local = [h \in Tips |-> NoBundle]
  /\ run = NoRun
  /\ ahead = NotAhead
  /\ proved = [h \in Tips |-> NoBundle]
  /\ failures = [r \in Ranges |-> 0]

Running == loop.pc \notin {"done", "dead"}

-----------------------------------------------------------------------------
(* tip_session.py: the clock of the window.                                *)

IsArmed(s) == s.armed_at # None

ElapsedS(s, now) == IF IsArmed(s) THEN Max({0, now - s.armed_at}) ELSE 0

RemainingS(s, now) == DURATION - ElapsedS(s, now)

WaitedS(s, now) == IF IsArmed(s) THEN s.armed_at ELSE now

(* Fault: the window is armed again by every tip block. *)
RearmClock(s, at) == [s EXCEPT !.armed_at = at]

ArmClock(s, at) ==
  IF IsArmed(s) THEN s ELSE [s EXCEPT !.armed_at = at]

(* What a while of the fleet costs (a card-second is one unit) is added to
   what was spent, never recomputed. *)
AddSpend(s, usd) == [s EXCEPT !.spend = @ + usd]

EstimateS ==
  LET walls == {mem.blocks[r].wall : r \in {q \in Ranges : mem.blocks[q].st = "ok"}} \ {0}
  IN  IF walls = {} THEN DEFAULT_BLOCK_EST ELSE Max(walls)

(* Fault: a failed attempt is given back as if the block had stepped aside. *)
KeepsAttempt(s, r) == s

RecordAttempt(s, r) == [s EXCEPT !.attempts[r] = @ + 1]

UndoAttempt(s, r) == [s EXCEPT !.attempts[r] = IF @ > 0 THEN @ - 1 ELSE 0]

-----------------------------------------------------------------------------
(* The bridge: external. A bundle appears for the next height, or a        *)
(* reorganisation replaces the newest one by a block of another branch.    *)

ParentOf(h) == IF h = FirstTip THEN Min(Branches) ELSE bridge[h - 1].br

Mine ==
  /\ Running /\ clock < MaxTime
  /\ BridgeTop + 1 \in Tips
  /\ bridge' = [bridge EXCEPT ![BridgeTop + 1] =
                  [h |-> BridgeTop + 1, br |-> ParentOf(BridgeTop + 1), parent |-> ParentOf(BridgeTop + 1)]]
  /\ UNCHANGED <<clock, opt, mem, disk, loop, tip, local, run, ahead, proved, failures>>

Reorg ==
  /\ Running /\ clock < MaxTime
  /\ BridgeTop \in Tips
  /\ \E b \in {c \in Branches : c > bridge[BridgeTop].br} : bridge' = [bridge EXCEPT ![BridgeTop].br = b]
  /\ UNCHANGED <<clock, opt, mem, disk, loop, tip, local, run, ahead, proved, failures>>

(* tip_bundles_above: every bundle above a height; an ssh failure reads as
   an empty list. *)
BundlesAbove(above) == {h \in Listed : h > above}

(* Fault: the newest bundle is always taken, and nothing counts as skipped. *)
ChooseNewest(hs) == [chosen |-> Max(hs), skipped |-> {}]

(* choose_tip: the lowest, unless more than TIP_MAX_BEHIND are waiting. *)
ChooseTip(hs) ==
  IF TIP_MAX_BEHIND > 0 /\ Cardinality(hs) > TIP_MAX_BEHIND
    THEN [chosen |-> Max(hs), skipped |-> hs \ {Max(hs)}]
    ELSE [chosen |-> Min(hs), skipped |-> {}]

(* pick_tip's bookkeeping: when each height was first seen, and which are
   given up. *)
PickTip(hs) ==
  [tip EXCEPT !.seen = [h \in Tips |-> IF h \in hs /\ @[h] = None THEN clock ELSE @[h]],
              !.noted = @ \cup ChooseTip(hs).skipped]

-----------------------------------------------------------------------------
(* run_session, up to the plan.                                            *)

(* Read the clock and charge what accrued since the last charge. (Recruits,
   which only a run with --grow-to has, are in module Rental.) *)
LoopTop ==
  /\ loop.pc = "top"
  /\ mem' = AddSpend(mem, clock - loop.t)
  /\ loop' = [loop EXCEPT !.pc = "work", !.t = clock]
  /\ UNCHANGED <<clock, opt, bridge, disk, tip, local, run, ahead, proved, failures>>

Work(source, r, appeared) ==
  loop' = [loop EXCEPT !.pc = "plan", !.work = [source |-> source, rng |-> r, appeared |-> appeared]]

(* work_fn: a bundle above the floor is tip work. A choice that skips is
   remembered as a declared jump. *)
WorkTip ==
  LET hs == BundlesAbove(tip.floor)
      c  == ChooseTip(hs)
  IN  /\ loop.pc = "work" /\ hs # {}
      /\ tip' = [PickTip(hs) EXCEPT !.jumped = IF c.skipped # {} THEN @ \cup {c.chosen} ELSE @]
      /\ Work("tip", c.chosen, tip'.seen[c.chosen])
      /\ UNCHANGED <<clock, opt, bridge, mem, disk, local, run, ahead, proved, failures>>

(* Nothing above the floor, or the bridge could not be asked. *)
WorkNoTip ==
  /\ loop.pc = "work"
  /\ loop' = [loop EXCEPT !.pc = "recheck"]
  /\ UNCHANGED <<clock, opt, bridge, mem, disk, tip, local, run, ahead, proved, failures>>

(* next_work asks once more before it claims board work. This second answer
   does not pass through work_fn, so a jump it takes is not declared. *)
RecheckTip ==
  LET hs == BundlesAbove(tip.floor)
  IN  /\ loop.pc = "recheck" /\ hs # {}
      /\ tip' = PickTip(hs)
      /\ Work("tip", ChooseTip(hs).chosen, tip'.seen[ChooseTip(hs).chosen])
      /\ UNCHANGED <<clock, opt, bridge, mem, disk, local, run, ahead, proved, failures>>

(* tip_board.claim: a block, a busy board, or a refusal that retrying cannot
   fix. *)
ClaimAnswers ==
  {[state |-> "claimed", range |-> b] : b \in BoardBlocks}
    \cup {[state |-> s, range |-> None] : s \in {"idle", "error"}}

(* claim_fn: the refusal is an exception that nobody in the loop catches. *)
ClaimBoard ==
  /\ loop.pc = "recheck"
  /\ \E res \in ClaimAnswers :
       CASE res.state = "claimed" -> Work("board", res.range, None)
         [] res.state = "idle"    -> Work("idle", None, None)
         [] res.state = "error"   -> loop' = [loop EXCEPT !.pc = "dead"]
  /\ UNCHANGED <<clock, opt, bridge, mem, disk, tip, local, run, ahead, proved, failures>>

-----------------------------------------------------------------------------
(* plan_next, on the time read at the top of the loop.                     *)

WindowOver == RemainingS(mem, loop.t) <= 0

(* Fault: an unarmed session has no deadline. *)
NoArmDeadline == FALSE

ArmDeadlinePassed ==
  ~IsArmed(mem) /\ opt.clock_from_tip /\ ARM_DEADLINE > 0 /\ WaitedS(mem, loop.t) >= ARM_DEADLINE

BudgetSpent == opt.budget_usd > 0 /\ mem.spend >= opt.budget_usd

Exhausted(r) == mem.blocks[r].st = "ok" \/ mem.attempts[r] >= MAX_ATTEMPTS

CannotFinish == RemainingS(mem, loop.t) < EstimateS

MustStop == WindowOver \/ ArmDeadlinePassed \/ BudgetSpent

PlanStop ==
  /\ loop.pc = "plan"
  /\ \/ MustStop
     \/ /\ loop.work.rng # None /\ ~Exhausted(loop.work.rng)
        /\ CannotFinish
  /\ loop' = [loop EXCEPT !.pc = "ending"]
  /\ UNCHANGED <<clock, opt, bridge, mem, disk, tip, local, run, ahead, proved, failures>>

SleepUntil == loop.t + Min({IDLE, RemainingS(mem, loop.t)})

(* An idle that may end by itself, *)
PlanIdleBoard ==
  /\ loop.pc = "plan" /\ ~MustStop /\ loop.work.rng = None
  /\ loop' = [loop EXCEPT !.pc = "sleep", !.wake = SleepUntil, !.idles = 0]
  /\ UNCHANGED <<clock, opt, bridge, mem, disk, tip, local, run, ahead, proved, failures>>

(* and one that cannot: the session refuses the block it is offered. *)
PlanIdleExhausted ==
  /\ loop.pc = "plan" /\ ~MustStop
  /\ loop.work.rng # None /\ Exhausted(loop.work.rng)
  /\ loop' = IF loop.idles + 1 >= MAX_CONSECUTIVE_EXHAUSTED_IDLES
               THEN [loop EXCEPT !.pc = "ending", !.idles = @ + 1]
               ELSE [loop EXCEPT !.pc = "sleep", !.wake = SleepUntil, !.idles = @ + 1]
  /\ UNCHANGED <<clock, opt, bridge, mem, disk, tip, local, run, ahead, proved, failures>>

Wake ==
  /\ loop.pc = "sleep" /\ clock >= loop.wake
  /\ loop' = [loop EXCEPT !.pc = "top", !.work = NoWork, !.wake = 0]
  /\ UNCHANGED <<clock, opt, bridge, mem, disk, tip, local, run, ahead, proved, failures>>

(* The window opens when the first tip block's bundle appeared; the attempt
   is counted, and both are saved before the proof begins. *)
ArmAt == IF loop.work.appeared = None THEN loop.t ELSE Min({loop.work.appeared, loop.t})

(* The state file is replaced as a whole. *)
Save == disk' = mem'

PlanProve ==
  /\ loop.pc = "plan" /\ ~MustStop
  /\ loop.work.rng # None /\ ~Exhausted(loop.work.rng)
  /\ ~CannotFinish
  /\ LET s == IF loop.work.source = "tip" THEN ArmClock(mem, ArmAt) ELSE mem
     IN  mem' = RecordAttempt(s, loop.work.rng)
  /\ Save
  /\ loop' = [loop EXCEPT !.pc = "fetch"]
  /\ run' = [NoRun EXCEPT !.since = clock]
  /\ UNCHANGED <<clock, opt, bridge, tip, local, ahead, proved, failures>>

-----------------------------------------------------------------------------
(* prove_one and prove_and_submit.                                         *)

Rng == loop.work.rng

FromTip == Rng \in Tips

(* Fault: the link to the last proved block is not checked. *)
AnyBundle(b, prev) == TRUE

(* Two blocks have the same hash if they are the same block. *)
BlockHash(b) == <<b.h, b.br>>

BundleParent(b) == <<b.h - 1, b.parent>>

(* tip_chain.verdict on a bundle that is well formed: the first of a session
   has nothing to link to. *)
ChainVerdict(b, prev) == prev = NoBundle \/ BundleParent(b) = BlockHash(prev)

(* fetch_bundle_ssh: a complete bundle of that height is on the bridge. *)
Fetchable(h) == bridge[h] # NoBundle

PrevHeader == IF Rng \in tip.jumped THEN NoBundle ELSE tip.header

(* A bundle already in the run directory is used as it is, otherwise it is
   fetched from the bridge; then the file is checked against the last block
   proved. Board bundles come from the API and are not checked. *)
FetchBundle ==
  /\ loop.pc = "fetch" /\ ~FromTip
  /\ loop' = [loop EXCEPT !.pc = "push"]
  /\ UNCHANGED <<clock, opt, bridge, mem, disk, tip, local, run, ahead, proved, failures>>

FetchTipBundle ==
  /\ loop.pc = "fetch" /\ FromTip
  /\ local[Rng] = NoBundle => Fetchable(Rng)
  /\ local' = IF local[Rng] = NoBundle THEN [local EXCEPT ![Rng] = bridge[Rng]] ELSE local
  /\ ChainVerdict(local'[Rng], PrevHeader)
  /\ run' = [run EXCEPT !.header = local'[Rng]]
  /\ ahead' = IF opt.stage_ahead /\ ahead.pc = "off" THEN [NotAhead EXCEPT !.pc = "read", !.above = Rng] ELSE ahead
  /\ loop' = [loop EXCEPT !.pc = "push"]
  /\ UNCHANGED <<clock, opt, bridge, mem, disk, tip, proved, failures>>

(* start_range_aggregate stages whatever file is there now. *)
PushBundle ==
  /\ loop.pc = "push"
  /\ run' = [run EXCEPT !.bundle = IF FromTip THEN local[Rng] ELSE NoBundle]
  /\ loop' = [loop EXCEPT !.pc = "run"]
  /\ UNCHANGED <<clock, opt, bridge, mem, disk, tip, local, ahead, proved, failures>>

(* Any step may raise: no bundle, a bundle that does not link, an aggregate
   that will not start, the fleet, the tick budget, an uncollectable
   receipt. The loop records a failed block either way; the third in a row
   stops the session. *)
Failed ==
  [mem EXCEPT !.blocks[Rng] = [NoBlock EXCEPT !.st = "failed"]]

ProveFails ==
  /\ loop.pc \in {"fetch", "push", "run"}
  /\ mem' = Failed
  /\ Save
  /\ failures' = [failures EXCEPT ![Rng] = @ + 1]
  /\ loop' = [loop EXCEPT !.fails = @ + 1, !.work = NoWork,
                          !.pc = IF loop.fails + 1 >= MAX_CONSECUTIVE_FAILS THEN "ending" ELSE "top"]
  /\ run' = NoRun
  /\ local' \in IF loop.pc = "fetch" /\ FromTip /\ local[Rng] = NoBundle
                 THEN {local, [local EXCEPT ![Rng] = bridge[Rng]]} ELSE {local}
  /\ UNCHANGED <<clock, opt, bridge, tip, ahead, proved>>

TipWaiting == BundlesAbove(tip.floor) # {}

(* Only a board block steps aside. *)
StepAside ==
  LET hs == BundlesAbove(tip.floor)
  IN  /\ loop.pc = "run" /\ ~FromTip /\ TipWaiting
      /\ tip' = PickTip(hs)
      /\ mem' = UndoAttempt(mem, Rng)
      /\ Save
      /\ loop' = [loop EXCEPT !.pc = "top", !.work = NoWork]
      /\ run' = NoRun
      /\ UNCHANGED <<clock, opt, bridge, local, ahead, proved, failures>>

(* Verified, collected and submitted. A rejected submit does not make it a
   failed proof. The floor and the header move only now. *)
ProveOk ==
  /\ loop.pc = "run" /\ clock > run.since
  /\ mem' = [mem EXCEPT !.blocks[Rng] = [st |-> "ok", wall |-> clock - run.since, at |-> clock]]
  /\ Save
  /\ IF FromTip
       THEN /\ tip' = [tip EXCEPT !.floor = Rng, !.header = run.header]
            /\ proved' = [proved EXCEPT ![Rng] = run.bundle]
       ELSE UNCHANGED <<tip, proved>>
  /\ loop' = [loop EXCEPT !.pc = "top", !.work = NoWork, !.fails = 0]
  /\ run' = NoRun
  /\ UNCHANGED <<clock, opt, bridge, local, ahead, failures>>

(* The save after the loop, for every way out of it. *)
Ending ==
  /\ loop.pc = "ending"
  /\ disk' = mem
  /\ loop' = [loop EXCEPT !.pc = "done"]
  /\ UNCHANGED <<clock, opt, bridge, mem, tip, local, run, ahead, proved, failures>>

-----------------------------------------------------------------------------
(* The stage-ahead thread: choose a bundle above the block being proved,   *)
(* download it, and put it where prove_and_submit looks.                   *)

AheadRead ==
  LET hs == BundlesAbove(ahead.above)
  IN  /\ ahead.pc = "read"
      /\ ahead' = IF hs = {} THEN NotAhead
                  ELSE [ahead EXCEPT !.pc = "write", !.h = ChooseTip(hs).chosen,
                                     !.bundle = bridge[ChooseTip(hs).chosen]]
      /\ UNCHANGED <<clock, opt, bridge, mem, disk, loop, tip, local, run, proved, failures>>

AheadWrite ==
  /\ ahead.pc = "write"
  /\ local' = [local EXCEPT ![ahead.h] = ahead.bundle]
  /\ ahead' = NotAhead
  /\ UNCHANGED <<clock, opt, bridge, mem, disk, loop, tip, run, proved, failures>>

-----------------------------------------------------------------------------

Tick ==
  /\ clock < MaxTime
  /\ loop.pc \in {"recheck", "sleep", "run"}
  /\ clock' = clock + 1
  /\ UNCHANGED <<opt, bridge, mem, disk, loop, tip, local, run, ahead, proved, failures>>

Loop ==
  \/ LoopTop \/ WorkTip \/ WorkNoTip \/ RecheckTip \/ ClaimBoard
  \/ PlanStop \/ PlanIdleBoard \/ PlanIdleExhausted \/ PlanProve \/ Wake
  \/ FetchBundle \/ FetchTipBundle \/ PushBundle \/ ProveFails \/ StepAside \/ ProveOk \/ Ending

Next == Loop \/ AheadRead \/ AheadWrite \/ Mine \/ Reorg \/ Tick

Spec == Init /\ [][Next]_vars

(* The loop is one thread that always has a next step, and time passes. *)
FairSpec == Spec /\ WF_vars(Loop) /\ SF_vars(Tick)

-----------------------------------------------------------------------------
(* Properties.                                                             *)

InFlight == loop.pc \in {"fetch", "push", "run"}

(* Every tip block a session proves is the child of the tip block it proved
   last, except where a jump was declared: a reorganisation, a bundle cached
   by a failed attempt and a failed block in between do not break the chain.
   (With the stage-ahead thread on, the file may be replaced between the
   check and the push.) *)
TipChainLinked ==
  \A h \in Tips :
    /\ ~opt.stage_ahead /\ proved[h] # NoBundle /\ h \notin tip.jumped
    /\ \E g \in Tips : g < h /\ proved[g] # NoBundle
    => /\ h - 1 \in Tips /\ proved[h - 1] # NoBundle
       /\ proved[h].parent = proved[h - 1].br

(* The summary's tip_chain_gapless: a tip height the session went past
   without proving it is in the list of gaps, and no height of that list was
   proved after all, though the list is also written by the polls of a board
   block that steps aside. *)
TipGapsAreNoted ==
  \A h \in Tips :
    /\ h <= tip.floor /\ proved[h] = NoBundle => h \in tip.noted
    /\ h \in tip.noted => proved[h] = NoBundle

(* A block is retired only for failing: one that stepped aside for a tip,
   however often, keeps its attempts (#506). *)
RetiredForFailing ==
  Running /\ ~InFlight =>
    \A r \in Ranges : Exhausted(r) /\ mem.blocks[r].st # "ok" => failures[r] >= MAX_ATTEMPTS

(* The hour counts what was proved in it: a block that finished after the
   window opened was begun in it, and no tip block falls outside it. *)
HourCountsItsOwnBlocks ==
  \A r \in Ranges :
    mem.blocks[r].st = "ok" =>
      /\ IsArmed(mem) /\ mem.blocks[r].at > mem.armed_at
           => mem.blocks[r].at - mem.blocks[r].wall >= mem.armed_at
      /\ r \in Tips => IsArmed(mem) /\ mem.blocks[r].at > mem.armed_at

(* The fleet is always let go: no board, no bridge and no sequence of
   failures keeps a session going for ever. *)
SessionEnds == <>(loop.pc \in {"done", "dead"})
=============================================================================
