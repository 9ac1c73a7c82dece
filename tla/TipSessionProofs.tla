-------------------------- MODULE TipSessionProofs --------------------------
(***************************************************************************)
(* Proofs about TipSession: for every set of tips and board blocks, every   *)
(* set of command lines and every limit, the tip blocks a session proves    *)
(* form a chain, its list of gaps is the truth, a block is retired only for *)
(* failing, and the hour counts only what was proved in it.                 *)
(***************************************************************************)
EXTENDS TipSession, TLAPS, FiniteSetTheorems, WellFoundedInduction

-----------------------------------------------------------------------------
(* Types.                                                                  *)

Bundle == [h : Int, br : Int, parent : Int]

State ==
  [armed_at : Int,
   blocks : [Ranges -> [st : {"none", "ok", "failed"}, wall : Int, at : Int]],
   attempts : [Ranges -> Nat], spend : Int]

Local ==
  [pc : {"top", "work", "recheck", "plan", "sleep", "fetch", "push", "run", "ending", "done", "dead"},
   t : Nat, work : [source : {"idle", "tip", "board"}, rng : Ranges \cup {None}, appeared : Int],
   wake : Int, fails : Nat, idles : Nat]

Closure ==
  [floor : Int, header : Bundle, seen : [Tips -> Int], noted : SUBSET Tips, jumped : SUBSET Tips]

SessionTyped ==
  /\ clock \in Nat
  /\ opt \in Options
  /\ bridge \in [Tips -> Bundle]
  /\ mem \in State
  /\ loop \in Local
  /\ tip \in Closure
  /\ local \in [Tips -> Bundle]
  /\ run \in [bundle : Bundle, header : Bundle, since : Int]
  /\ ahead \in [pc : {"off", "read", "write"}, above : Int, h : Int, bundle : Bundle]
  /\ proved \in [Tips -> Bundle]
  /\ failures \in [Ranges -> Nat]

(* The work under way is work on a range, and is tip work for a tip. *)
WorkSound ==
  loop.pc \in {"plan", "fetch", "push", "run"} =>
    /\ loop.work.source = "tip" <=> loop.work.rng \in Tips
    /\ InFlight => loop.work.rng \in Ranges

-----------------------------------------------------------------------------
(* The invariants.                                                         *)

(* The attempts of a block that is not proved are its failures, and the one
   under way. *)
CountSound ==
  /\ InFlight => mem.blocks[Rng].st # "ok"
  /\ \A r \in Ranges :
       mem.blocks[r].st # "ok" =>
         mem.attempts[r] = failures[r] + (IF InFlight /\ Rng = r THEN 1 ELSE 0)

(* A time of the session that every block respects: one that finished after
   it was begun at it or later. *)
Splits(s) ==
  \A r \in Ranges :
    mem.blocks[r].st = "ok" /\ mem.blocks[r].at > s => mem.blocks[r].at - mem.blocks[r].wall >= s

(* Whenever the window is opened, the time it is opened at splits the
   blocks: the first sight of a tip never falls inside a proof that ends
   well, nor does the top of the loop. *)
TimesSound ==
  /\ mem.armed_at = None \/ mem.armed_at \in 0..clock
  /\ \A h \in Tips : tip.seen[h] = None \/ (tip.seen[h] \in 0..clock /\ Splits(tip.seen[h]))
  /\ IsArmed(mem) => Splits(mem.armed_at)
  /\ \A r \in Ranges :
       mem.blocks[r].st = "ok" =>
         /\ mem.blocks[r].at <= clock
         /\ r \in Tips => IsArmed(mem) /\ mem.blocks[r].at > mem.armed_at

LoopTimes ==
  /\ loop.t <= clock
  /\ loop.pc \in {"work", "recheck", "plan"} =>
       \A r \in Ranges : mem.blocks[r].st = "ok" => mem.blocks[r].at <= loop.t
  /\ loop.pc = "plan" /\ Rng \in Tips => loop.work.appeared = tip.seen[Rng] /\ tip.seen[Rng] # None
  /\ InFlight => /\ run.since \in 0..clock
                 /\ IsArmed(mem) => mem.armed_at <= run.since
                 /\ \A h \in Tips : tip.seen[h] <= run.since
                 /\ Rng \in Tips => IsArmed(mem)

HourSound == TimesSound /\ LoopTimes

(* The bridge serves an unbroken run of heights. *)
BridgeSound ==
  \A h \in Tips :
    bridge[h] # NoBundle =>
      /\ bridge[h].h = h
      /\ \A g \in Tips : g < h => bridge[g] # NoBundle

TooManyAbove == TIP_MAX_BEHIND > 0 /\ Cardinality(BundlesAbove(tip.floor)) > TIP_MAX_BEHIND

(* What is proved and what is noted, up to the floor; *)
GapsBelow == TipGapsAreNoted /\ \A h \in Tips : proved[h] # NoBundle => h <= tip.floor

(* a gap noted above the floor is one a higher bundle will be preferred to,
   whenever the loop asks next; *)
GapsAbove ==
  \A h \in tip.noted :
    h > tip.floor => TooManyAbove /\ \E g \in BundlesAbove(tip.floor) : h < g

(* and the tip that is worked on leaves only noted gaps below it and none
   above. *)
GapsOfWork ==
  loop.pc \in {"plan", "fetch", "push", "run"} /\ Rng \in Tips =>
    /\ Rng > tip.floor /\ bridge[Rng] # NoBundle
    /\ \A n \in tip.noted : n < Rng
    /\ \A g \in Tips : tip.floor < g /\ g < Rng => g \in tip.noted

FilesThere ==
  /\ ahead.pc = "write" => ahead.bundle # NoBundle
  /\ loop.pc \in {"push", "run"} /\ Rng \in Tips => local[Rng] # NoBundle
  /\ loop.pc = "run" /\ Rng \in Tips => run.bundle # NoBundle

GapSound == GapsBelow /\ GapsAbove /\ GapsOfWork /\ FilesThere

(* Without the stage-ahead thread a file is written once, so what is pushed
   is what was checked; and the header kept is the last tip block proved. *)
LinkSound ==
  /\ ~opt.stage_ahead =>
       /\ ahead.pc = "off"
       /\ \A h \in Tips : local[h] # NoBundle => local[h].h = h
       /\ loop.pc \in {"push", "run"} /\ Rng \in Tips =>
            /\ run.header = local[Rng]
            /\ ChainVerdict(run.header, PrevHeader)
       /\ loop.pc = "run" /\ Rng \in Tips => run.bundle = run.header
       /\ \/ tip.header = NoBundle /\ \A h \in Tips : proved[h] = NoBundle
          \/ /\ tip.floor \in Tips /\ tip.header = proved[tip.floor]
             /\ tip.header # NoBundle /\ tip.header.h = tip.floor
  /\ TipChainLinked

SessionInv == SessionTyped /\ WorkSound /\ CountSound /\ HourSound /\ BridgeSound /\ GapSound /\ LinkSound

-----------------------------------------------------------------------------
(* Operators: the smallest and the largest of some integers, and the tip    *)
(* that is chosen.                                                         *)

(* The smallest of a set of naturals is one of them. *)
LEMMA MinIn ==
  ASSUME NEW S, S \subseteq Nat, S # {}
  PROVE  Min(S) \in S /\ \A y \in S : Min(S) <= y
<1>1. \E x \in S : \A y \in S : <<y, x>> \notin OpToRel(<, Nat)
  BY NatLessThanWellFounded, WFMin, Zenon
<1>2. \A x, y \in Nat : x < y => <<x, y>> \in OpToRel(<, Nat)
  BY Zenon DEF OpToRel
<1>3. PICK least \in S : \A y \in S : ~(y < least)
  BY <1>1, <1>2, Zenon
<1>4. \E x \in S : \A y \in S : x <= y
  BY <1>3
<1> QED
  BY <1>4, Zenon DEF Min

(* The largest of a bounded set of integers is one of them. *)
LEMMA MaxIn ==
  ASSUME NEW S, S \subseteq Int, S # {}, NEW top \in Int, \A x \in S : x <= top
  PROVE  Max(S) \in S /\ \A y \in S : y <= Max(S)
<1> DEFINE D == {top - x : x \in S}
<1>1. D \subseteq Nat /\ D # {}
  <2>1. \A x \in S : top - x \in Nat
    OBVIOUS
  <2> QED
    BY <2>1, Zenon
<1>2. Min(D) \in D /\ \A d \in D : Min(D) <= d
  BY <1>1, MinIn, Zenon
<1>3. PICK x \in S : Min(D) = top - x
  BY <1>2
<1>4. \A y \in S : y <= x
  BY <1>2, <1>3
<1>5. \E m \in S : \A y \in S : m >= y
  BY <1>4
<1>6. Max(S) \in S /\ \A y \in S : Max(S) >= y
  BY <1>5, Zenon DEF Max
<1> QED
  BY <1>6

LEMMA PairIn ==
  ASSUME NEW a \in Int, NEW b \in Int
  PROVE  /\ Max({a, b}) \in {a, b} /\ a <= Max({a, b}) /\ b <= Max({a, b})
         /\ Min({a, b}) \in {a, b} /\ Min({a, b}) <= a /\ Min({a, b}) <= b
<1>1. \E m \in {a, b} : \A y \in {a, b} : m >= y
  OBVIOUS
<1>2. Max({a, b}) \in {a, b} /\ \A y \in {a, b} : Max({a, b}) >= y
  BY <1>1, Zenon DEF Max
<1>3. \E m \in {a, b} : \A y \in {a, b} : m <= y
  OBVIOUS
<1>4. Min({a, b}) \in {a, b} /\ \A y \in {a, b} : Min({a, b}) <= y
  BY <1>3, Zenon DEF Min
<1> QED
  BY <1>2, <1>4

LEMMA Heights ==
  /\ Tips \subseteq Nat /\ BoardBlocks \subseteq Nat /\ Tips \cap BoardBlocks = {}
  /\ Tips \subseteq Ranges /\ BoardBlocks \subseteq Ranges /\ Ranges \subseteq Nat
  /\ None \notin Ranges /\ None \notin Tips
  /\ FirstTip \in Tips /\ (\A h \in Tips : FirstTip <= h)
  /\ Min(Branches) \in Nat
  /\ NoBundle \in Bundle /\ NoBundle.h = None
<1>1. Tips \subseteq Nat /\ Tips # {} /\ Branches \subseteq Nat /\ Branches # {}
  BY SessionAssumption
<1>2. FirstTip \in Tips /\ \A h \in Tips : FirstTip <= h
  BY <1>1, MinIn, Zenon DEF FirstTip
<1>3. Min(Branches) \in Branches
  BY <1>1, MinIn, Zenon
<1>4. BoardBlocks \subseteq Nat /\ \A b \in BoardBlocks, h \in Tips : b < h
  BY SessionAssumption
<1>5. Tips \cap BoardBlocks = {}
  BY <1>1, <1>4
<1>6. NoBundle \in Bundle /\ NoBundle.h = None
  BY DEF NoBundle, Bundle, None
<1>7. Tips \subseteq Ranges /\ BoardBlocks \subseteq Ranges /\ Ranges \subseteq Nat
  BY <1>1, <1>4 DEF Ranges
<1>8. None \notin Nat
  BY DEF None
<1> QED
  BY <1>1, <1>2, <1>3, <1>4, <1>5, <1>6, <1>7, <1>8

(* A tip is chosen among those that wait: the last of too many, which skips *)
(* the others, or else the first, which skips none.                        *)
LEMMA Chosen ==
  ASSUME NEW hs \in SUBSET Tips, hs # {}
  PROVE  /\ ChooseTip(hs).chosen \in hs
         /\ ChooseTip(hs).skipped \in SUBSET Tips
         /\ \/ /\ TIP_MAX_BEHIND > 0 /\ Cardinality(hs) > TIP_MAX_BEHIND
               /\ ChooseTip(hs).skipped = hs \ {ChooseTip(hs).chosen}
               /\ \A g \in hs : g <= ChooseTip(hs).chosen
            \/ /\ ~(TIP_MAX_BEHIND > 0 /\ Cardinality(hs) > TIP_MAX_BEHIND)
               /\ ChooseTip(hs).skipped = {}
               /\ \A g \in hs : ChooseTip(hs).chosen <= g
<1>1. hs \subseteq Nat /\ hs \subseteq Int
  BY Heights
<1>2. PICK top \in Tips : \A h \in Tips : h <= top
  BY SessionAssumption
<1>3. Max(hs) \in hs /\ \A g \in hs : g <= Max(hs)
  <2>1. top \in Int /\ \A g \in hs : g <= top
    BY <1>2, Heights
  <2> QED
    BY <1>1, <2>1, MaxIn, Zenon
<1>4. Min(hs) \in hs /\ \A g \in hs : Min(hs) <= g
  BY <1>1, MinIn, Zenon
<1>5. CASE TIP_MAX_BEHIND > 0 /\ Cardinality(hs) > TIP_MAX_BEHIND
  BY <1>3, <1>5 DEF ChooseTip
<1>6. CASE ~(TIP_MAX_BEHIND > 0 /\ Cardinality(hs) > TIP_MAX_BEHIND)
  BY <1>4, <1>6 DEF ChooseTip
<1> QED
  BY <1>5, <1>6

(* What a look at the waiting bundles leaves in the closure. *)
LEMMA Picked ==
  ASSUME SessionTyped, NEW hs \in SUBSET Tips, hs # {}
  PROVE  /\ PickTip(hs) \in Closure
         /\ PickTip(hs).floor = tip.floor /\ PickTip(hs).header = tip.header
         /\ PickTip(hs).jumped = tip.jumped
         /\ PickTip(hs).noted = tip.noted \cup ChooseTip(hs).skipped
         /\ \A h \in Tips :
              PickTip(hs).seen[h] = IF h \in hs /\ tip.seen[h] = None THEN clock ELSE tip.seen[h]
<1>1. tip \in Closure /\ clock \in Nat
  BY DEF SessionTyped
<1>2. ChooseTip(hs).skipped \in SUBSET Tips
  BY Chosen
<1>3. tip.noted \cup ChooseTip(hs).skipped \in SUBSET Tips
  BY <1>1, <1>2 DEF Closure
<1> DEFINE sees == [h \in Tips |-> IF h \in hs /\ tip.seen[h] = None THEN clock ELSE tip.seen[h]]
           gaps == tip.noted \cup ChooseTip(hs).skipped
<1>4. sees \in [Tips -> Int]
  BY <1>1 DEF Closure
<1>5. PickTip(hs) = [tip EXCEPT !.seen = sees, !.noted = gaps]
  BY DEF PickTip
<1> HIDE DEF sees, gaps
<1>6. PickTip(hs) \in Closure /\ PickTip(hs).floor = tip.floor /\ PickTip(hs).header = tip.header
      /\ PickTip(hs).jumped = tip.jumped /\ PickTip(hs).noted = gaps /\ PickTip(hs).seen = sees
  <2>1. gaps \in SUBSET Tips
    BY <1>3 DEF gaps
  <2> QED
    BY <1>1, <1>4, <1>5, <2>1 DEF Closure
<1> QED
  BY <1>6 DEF sees, gaps

LEMMA BundlesAboveAreTips == \A f : BundlesAbove(f) \in SUBSET Tips
  BY DEF BundlesAbove, Listed

LEMMA TopOfBridge ==
  ASSUME SessionTyped
  PROVE  /\ BridgeTop = FirstTip - 1 \/ (BridgeTop \in Tips /\ bridge[BridgeTop] # NoBundle)
         /\ BridgeTop \in Int
         /\ \A h \in Tips : bridge[h] # NoBundle => h <= BridgeTop
<1> DEFINE S == {FirstTip - 1} \cup {h \in Tips : bridge[h] # NoBundle}
<1>1. S \subseteq Int /\ S # {}
  <2>1. FirstTip \in Nat /\ Tips \subseteq Int
    BY Heights
  <2>2. FirstTip - 1 \in Int
    BY <2>1
  <2> QED
    BY <2>1, <2>2, Zenon
<1>2. PICK top \in Tips : \A h \in Tips : h <= top
  BY SessionAssumption
<1>3. top \in Int /\ \A x \in S : x <= top
  <2>1. top \in Int /\ FirstTip \in Int /\ FirstTip <= top
    BY <1>2, Heights
  <2>2. FirstTip - 1 <= top
    BY <2>1
  <2>3. \A x \in {h \in Tips : bridge[h] # NoBundle} : x <= top
    BY <1>2
  <2> QED
    BY <2>1, <2>2, <2>3, Zenon
<1>4. Max(S) \in S /\ \A x \in S : x <= Max(S)
  BY <1>1, <1>3, MaxIn, Zenon
<1> QED
  BY <1>1, <1>4 DEF BridgeTop, Listed

(* The time a plan sleeps until, and the time the window is opened at. *)
LEMMA PlannedTimes ==
  ASSUME SessionTyped
  PROVE  /\ SleepUntil \in Int
         /\ loop.work.appeared \in Int => ArmAt \in Int
         /\ loop.work.appeared = None => ArmAt = loop.t
         /\ loop.work.appeared \in Nat =>
              ArmAt \in {loop.work.appeared, loop.t} /\ ArmAt <= loop.work.appeared /\ ArmAt <= loop.t
<1>1. loop.t \in Nat /\ mem.armed_at \in Int /\ IDLE \in Int /\ DURATION \in Int
  BY SessionAssumption DEF SessionTyped, Local, State
<1>2. ElapsedS(mem, loop.t) \in Int
  <2>1. loop.t - mem.armed_at \in Int /\ 0 \in Int
    BY <1>1
  <2>2. Max({0, loop.t - mem.armed_at}) \in {0, loop.t - mem.armed_at}
    BY <2>1, PairIn
  <2> QED
    BY <2>1, <2>2 DEF ElapsedS
<1>3. RemainingS(mem, loop.t) \in Int
  BY <1>1, <1>2 DEF RemainingS
<1>4. Min({IDLE, RemainingS(mem, loop.t)}) \in {IDLE, RemainingS(mem, loop.t)}
  BY <1>1, <1>3, PairIn
<1>5. SleepUntil \in Int
  BY <1>1, <1>3, <1>4 DEF SleepUntil
<1>6. ASSUME loop.work.appeared \in Int
      PROVE  /\ Min({loop.work.appeared, loop.t}) \in {loop.work.appeared, loop.t}
             /\ Min({loop.work.appeared, loop.t}) <= loop.work.appeared
             /\ Min({loop.work.appeared, loop.t}) <= loop.t
  <2>1. loop.t \in Int
    BY <1>1
  <2> QED
    BY <1>6, <2>1, PairIn, Zenon
<1> QED
  BY <1>1, <1>5, <1>6 DEF ArmAt, None

-----------------------------------------------------------------------------
(* Types are kept.                                                         *)

Rest == <<clock, opt, mem, disk, loop, tip, local, run, ahead, proved, failures>>

LEMMA MinedKeepTypes == SessionTyped /\ (Mine \/ Reorg) => SessionTyped'
<1> SUFFICES ASSUME SessionTyped, Mine \/ Reorg PROVE SessionTyped'
  OBVIOUS
<1>1. bridge \in [Tips -> Bundle]
  BY DEF SessionTyped
<1>2. ASSUME Mine PROVE bridge' \in [Tips -> Bundle]
  <2>1. BridgeTop + 1 \in Tips
    BY <1>2 DEF Mine
  <2>2. ParentOf(BridgeTop + 1) \in Int
    <3>1. CASE BridgeTop + 1 = FirstTip
      BY <3>1, Heights DEF ParentOf
    <3>2. CASE BridgeTop + 1 # FirstTip
      <4>1. BridgeTop \in Tips /\ BridgeTop + 1 - 1 = BridgeTop
        <5>1. BridgeTop # FirstTip - 1
          <6>1. FirstTip \in Nat /\ BridgeTop \in Int
            BY Heights, TopOfBridge
          <6> QED
            BY <3>2, <6>1
        <5> QED
          BY <5>1, TopOfBridge
      <4>2. bridge[BridgeTop].br \in Int
        BY <1>1, <4>1 DEF Bundle
      <4>3. ParentOf(BridgeTop + 1) = bridge[BridgeTop].br
        <5>1. BridgeTop \in Int /\ FirstTip \in Int
          BY Heights, TopOfBridge
        <5> QED
          BY <3>2, <4>1, <5>1 DEF ParentOf
      <4> QED
        BY <4>2, <4>3
    <3> QED
      BY <3>1, <3>2
  <2> DEFINE new == [h |-> BridgeTop + 1, br |-> ParentOf(BridgeTop + 1), parent |-> ParentOf(BridgeTop + 1)]
  <2>3. new \in Bundle
    BY <2>2, TopOfBridge DEF Bundle
  <2>4. bridge' = [bridge EXCEPT ![BridgeTop + 1] = new]
    BY <1>2 DEF Mine
  <2> QED
    BY <1>1, <2>3, <2>4
<1>3. ASSUME Reorg PROVE bridge' \in [Tips -> Bundle]
  <2>1. PICK b \in {c \in Branches : c > bridge[BridgeTop].br} : bridge' = [bridge EXCEPT ![BridgeTop].br = b]
    BY <1>3 DEF Reorg
  <2>2. b \in Int /\ BridgeTop \in Tips
    BY <1>3, SessionAssumption DEF Reorg
  <2>3. [bridge[BridgeTop] EXCEPT !.br = b] \in Bundle
    BY <1>1, <2>2 DEF Bundle
  <2> QED
    BY <1>1, <2>1, <2>2, <2>3
<1>4. UNCHANGED Rest
  BY DEF Mine, Reorg, Rest
<1> QED
  BY <1>2, <1>3, <1>4 DEF SessionTyped, Rest, Mine, Reorg

LEMMA WorkKeepsTypes ==
  SessionTyped /\ (LoopTop \/ WorkTip \/ WorkNoTip \/ RecheckTip \/ ClaimBoard) => SessionTyped'
<1> SUFFICES ASSUME SessionTyped, LoopTop \/ WorkTip \/ WorkNoTip \/ RecheckTip \/ ClaimBoard
             PROVE  SessionTyped'
  OBVIOUS
<1>1. loop \in Local /\ mem \in State /\ tip \in Closure /\ clock \in Nat
  BY DEF SessionTyped
<1>2. \A source \in {"idle", "tip", "board"}, r \in Ranges \cup {None}, appeared \in Int :
        Work(source, r, appeared) => loop' \in Local
  <2> SUFFICES ASSUME NEW source \in {"idle", "tip", "board"}, NEW r \in Ranges \cup {None},
                      NEW appeared \in Int, Work(source, r, appeared)
               PROVE  loop' \in Local
    BY Zenon
  <2> DEFINE w == [source |-> source, rng |-> r, appeared |-> appeared]
  <2>1. w \in [source : {"idle", "tip", "board"}, rng : Ranges \cup {None}, appeared : Int]
    OBVIOUS
  <2>2. loop' = [loop EXCEPT !.pc = "plan", !.work = w]
    BY DEF Work
  <2> HIDE DEF w
  <2> QED
    BY <1>1, <2>1, <2>2 DEF Local
<1>3. None \in Int
  BY DEF None
<1>4. ASSUME NEW hs \in SUBSET Tips, hs # {}
      PROVE  ChooseTip(hs).chosen \in Ranges /\ PickTip(hs).seen[ChooseTip(hs).chosen] \in Int
  <2>1. ChooseTip(hs).chosen \in Tips /\ PickTip(hs) \in Closure
    BY <1>4, Chosen, Picked
  <2> QED
    BY <2>1, Heights DEF Closure
<1>5. CASE LoopTop
  <2>1. loop' \in Local
    BY <1>1, <1>5 DEF LoopTop, Local, AddSpend
  <2>2. mem' \in State
    <3>1. clock - loop.t \in Int /\ mem.spend \in Int
      BY <1>1 DEF Local, State
    <3> QED
      BY <1>1, <1>5, <3>1 DEF LoopTop, State, AddSpend
  <2> QED
    BY <1>5, <2>1, <2>2 DEF LoopTop, SessionTyped, AddSpend
<1>6. CASE WorkTip
  <2> DEFINE hs == BundlesAbove(tip.floor)
             c  == ChooseTip(hs)
  <2>1. hs \in SUBSET Tips /\ hs # {}
    BY <1>6, BundlesAboveAreTips DEF WorkTip
  <2>2. PickTip(hs) \in Closure /\ c.chosen \in Tips
    BY <2>1, Picked, Chosen
  <2>3. tip' = [PickTip(hs) EXCEPT !.jumped = IF c.skipped # {} THEN @ \cup {c.chosen} ELSE @]
        /\ Work("tip", c.chosen, tip'.seen[c.chosen])
    BY <1>6 DEF WorkTip
  <2>4. tip' \in Closure /\ tip'.seen = PickTip(hs).seen
    <3> HIDE DEF c
    <3> DEFINE p == PickTip(hs)
    <3>1. p \in Closure /\ tip' = [p EXCEPT !.jumped = IF c.skipped # {} THEN @ \cup {c.chosen} ELSE @]
      BY <2>2, <2>3
    <3> HIDE DEF p, hs
    <3>2. p.jumped \cup {c.chosen} \in SUBSET Tips /\ p.jumped \in SUBSET Tips
      BY <2>2, <3>1 DEF Closure
    <3>3. tip' \in Closure /\ tip'.seen = p.seen
      BY <3>1, <3>2 DEF Closure
    <3> QED
      BY <3>3 DEF p
  <2>5. loop' \in Local
    BY <1>2, <1>4, <2>1, <2>3, <2>4, Zenon
  <2> QED
    BY <1>6, <2>4, <2>5 DEF WorkTip, SessionTyped
<1>7. CASE WorkNoTip
  BY <1>1, <1>7 DEF WorkNoTip, SessionTyped, Local
<1>8. CASE RecheckTip
  <2> DEFINE hs == BundlesAbove(tip.floor)
  <2>1. hs \in SUBSET Tips /\ hs # {}
    BY <1>8, BundlesAboveAreTips DEF RecheckTip
  <2>2. tip' = PickTip(hs) /\ Work("tip", ChooseTip(hs).chosen, tip'.seen[ChooseTip(hs).chosen])
    BY <1>8 DEF RecheckTip
  <2>3. tip' \in Closure
    BY <2>1, <2>2, Picked
  <2>4. loop' \in Local
    BY <1>2, <1>4, <2>1, <2>2, Zenon
  <2> QED
    BY <1>8, <2>3, <2>4 DEF RecheckTip, SessionTyped
<1>9. CASE ClaimBoard
  <2>1. PICK res \in ClaimAnswers :
          CASE res.state = "claimed" -> Work("board", res.range, None)
            [] res.state = "idle"    -> Work("idle", None, None)
            [] res.state = "error"   -> loop' = [loop EXCEPT !.pc = "dead"]
    BY <1>9 DEF ClaimBoard
  <2>2. loop' \in Local
    <3>1. CASE res.state = "claimed"
      <4>1. res.range \in Ranges
        BY <3>1, Heights DEF ClaimAnswers
      <4>2. Work("board", res.range, None)
        BY <2>1, <3>1
      <4> QED
        BY <1>2, <1>3, <4>1, <4>2, Zenon
    <3>2. CASE res.state = "idle"
      <4>1. Work("idle", None, None)
        BY <2>1, <3>2
      <4> QED
        BY <1>2, <1>3, <4>1, Zenon
    <3>3. CASE res.state = "error"
      <4>1. loop' = [loop EXCEPT !.pc = "dead"]
        BY <2>1, <3>3
      <4> QED
        BY <1>1, <4>1 DEF Local
    <3> QED
      BY <3>1, <3>2, <3>3 DEF ClaimAnswers
  <2> QED
    BY <1>9, <2>2 DEF ClaimBoard, SessionTyped
<1> QED
  BY <1>5, <1>6, <1>7, <1>8, <1>9

(* The records a plan and a proof leave in the session state. *)
LEMMA StateUpdates ==
  ASSUME NEW s \in State, NEW r \in Ranges
  PROVE  /\ \A n \in Nat :
              /\ [s EXCEPT !.attempts[r] = n] \in State
              /\ [s EXCEPT !.attempts[r] = n].attempts = [s.attempts EXCEPT ![r] = n]
              /\ [s EXCEPT !.attempts[r] = n].blocks = s.blocks
              /\ [s EXCEPT !.attempts[r] = n].armed_at = s.armed_at
         /\ \A b \in [st : {"none", "ok", "failed"}, wall : Int, at : Int] :
              /\ [s EXCEPT !.blocks[r] = b] \in State
              /\ [s EXCEPT !.blocks[r] = b].blocks = [s.blocks EXCEPT ![r] = b]
              /\ [s EXCEPT !.blocks[r] = b].attempts = s.attempts
              /\ [s EXCEPT !.blocks[r] = b].armed_at = s.armed_at
<1>1. ASSUME NEW n \in Nat PROVE [s.attempts EXCEPT ![r] = n] \in [Ranges -> Nat]
  BY DEF State
<1>2. ASSUME NEW b \in [st : {"none", "ok", "failed"}, wall : Int, at : Int]
      PROVE  [s.blocks EXCEPT ![r] = b] \in [Ranges -> [st : {"none", "ok", "failed"}, wall : Int, at : Int]]
  BY DEF State
<1> QED
  BY <1>1, <1>2 DEF State

LEMMA ArmClockUpdates ==
  ASSUME NEW s \in State, NEW at \in Int
  PROVE  /\ ArmClock(s, at) \in State
         /\ ArmClock(s, at).blocks = s.blocks /\ ArmClock(s, at).attempts = s.attempts
         /\ ArmClock(s, at).armed_at = IF IsArmed(s) THEN s.armed_at ELSE at
  BY DEF ArmClock, State, IsArmed

(* A plan to prove opens the window if it has to, and counts the attempt. *)
LEMMA Planned ==
  ASSUME SessionTyped, WorkSound, PlanProve
  PROVE  /\ Rng \in Ranges /\ mem' \in State
         /\ mem'.attempts = [mem.attempts EXCEPT ![Rng] = mem.attempts[Rng] + 1]
         /\ mem'.blocks = mem.blocks
         /\ mem'.armed_at = IF Rng \in Tips /\ ~IsArmed(mem) THEN ArmAt ELSE mem.armed_at
<1> DEFINE s == IF loop.work.source = "tip" THEN ArmClock(mem, ArmAt) ELSE mem
<1>1. mem \in State /\ Rng \in Ranges /\ loop.work.appeared \in Int
  BY DEF SessionTyped, PlanProve, Rng, Local, RecordAttempt
<1>2. ArmAt \in Int
  BY <1>1, PlannedTimes
<1>3. loop.work.source = "tip" <=> Rng \in Tips
  BY DEF WorkSound, PlanProve, Rng, RecordAttempt
<1>4. /\ s \in State /\ s.blocks = mem.blocks /\ s.attempts = mem.attempts
      /\ s.armed_at = IF Rng \in Tips /\ ~IsArmed(mem) THEN ArmAt ELSE mem.armed_at
  BY <1>1, <1>2, <1>3, ArmClockUpdates
<1>5. mem' = [s EXCEPT !.attempts[Rng] = s.attempts[Rng] + 1]
  BY DEF PlanProve, Rng, RecordAttempt
<1>6. s.attempts[Rng] + 1 \in Nat
  BY <1>1, <1>4 DEF State
<1> HIDE DEF s
<1> QED
  BY <1>1, <1>4, <1>5, <1>6, StateUpdates

LEMMA PlanKeepsTypes ==
  SessionTyped /\ WorkSound /\ (PlanStop \/ PlanIdleBoard \/ PlanIdleExhausted \/ PlanProve \/ Wake) => SessionTyped'
<1> SUFFICES ASSUME SessionTyped, WorkSound, PlanStop \/ PlanIdleBoard \/ PlanIdleExhausted \/ PlanProve \/ Wake
             PROVE  SessionTyped'
  OBVIOUS
<1>1. loop \in Local /\ clock \in Nat
  BY DEF SessionTyped
<1>2. SleepUntil \in Int
  BY PlannedTimes
<1>3. CASE PlanStop
  BY <1>1, <1>3 DEF PlanStop, SessionTyped, Local
<1>4. CASE PlanIdleBoard
  <2>1. loop' \in Local
    BY <1>1, <1>2, <1>4 DEF PlanIdleBoard, Local
  <2> QED
    BY <1>4, <2>1 DEF PlanIdleBoard, SessionTyped
<1>5. CASE PlanIdleExhausted
  <2>1. loop' \in {[loop EXCEPT !.pc = "ending", !.idles = loop.idles + 1],
                   [loop EXCEPT !.pc = "sleep", !.wake = SleepUntil, !.idles = loop.idles + 1]}
    BY <1>5 DEF PlanIdleExhausted
  <2>2. loop.idles + 1 \in Nat
    BY <1>1 DEF Local
  <2>3. loop' \in Local
    <3> DEFINE n == loop.idles + 1
               l == [loop EXCEPT !.idles = n]
    <3> HIDE DEF n
    <3>1. l \in Local
      BY <1>1, <2>2 DEF Local, n
    <3>2. loop' \in {[l EXCEPT !.pc = "ending"], [l EXCEPT !.pc = "sleep", !.wake = SleepUntil]}
      BY <1>1, <2>1 DEF Local, n
    <3> HIDE DEF l
    <3> QED
      BY <1>2, <3>1, <3>2 DEF Local
  <2> QED
    BY <1>5, <2>3 DEF PlanIdleExhausted, SessionTyped
<1>6. CASE PlanProve
  <2>1. loop' \in Local
    BY <1>1, <1>6 DEF PlanProve, Local, RecordAttempt
  <2>2. run' \in [bundle : Bundle, header : Bundle, since : Int]
    BY <1>1, <1>6, Heights DEF PlanProve, NoRun, RecordAttempt
  <2>3. mem' \in State
    BY <1>6, Planned
  <2> QED
    BY <1>6, <2>1, <2>2, <2>3 DEF PlanProve, SessionTyped, RecordAttempt
<1>7. CASE Wake
  <2>1. NoWork \in [source : {"idle", "tip", "board"}, rng : Ranges \cup {None}, appeared : Int]
    BY DEF NoWork, None
  <2>2. loop' = [loop EXCEPT !.pc = "top", !.work = NoWork, !.wake = 0]
    BY <1>7 DEF Wake
  <2> DEFINE l == [loop EXCEPT !.work = NoWork]
  <2>3. l \in Local
    BY <1>1, <2>1 DEF Local
  <2>4. loop' = [l EXCEPT !.pc = "top", !.wake = 0]
    BY <1>1, <2>2 DEF Local
  <2> HIDE DEF l
  <2>5. loop' \in Local
    <3>1. 0 \in Int
      OBVIOUS
    <3>2. [l EXCEPT !.pc = "top"] \in Local
      BY <2>3 DEF Local
    <3>3. \A k \in Local : [k EXCEPT !.wake = 0] \in Local
      BY <3>1 DEF Local
    <3>4. loop' = [[l EXCEPT !.pc = "top"] EXCEPT !.wake = 0]
      BY <2>3, <2>4 DEF Local
    <3> QED
      BY <3>2, <3>3, <3>4, Zenon
  <2> QED
    BY <1>7, <2>5 DEF Wake, SessionTyped
<1> QED
  BY <1>3, <1>4, <1>5, <1>6, <1>7

(* What a proof leaves in memory when it fails, steps aside or ends well. *)
LEMMA Recorded ==
  ASSUME SessionTyped, Rng \in Ranges
  PROVE  /\ Failed \in State /\ Failed.attempts = mem.attempts /\ Failed.armed_at = mem.armed_at
         /\ Failed.blocks = [mem.blocks EXCEPT ![Rng] = [st |-> "failed", wall |-> 0, at |-> 0]]
         /\ UndoAttempt(mem, Rng) \in State /\ UndoAttempt(mem, Rng).armed_at = mem.armed_at
         /\ UndoAttempt(mem, Rng).blocks = mem.blocks
         /\ UndoAttempt(mem, Rng).attempts =
              [mem.attempts EXCEPT ![Rng] = IF mem.attempts[Rng] > 0 THEN mem.attempts[Rng] - 1 ELSE 0]
<1>1. mem \in State
  BY DEF SessionTyped
<1> DEFINE bad  == [st |-> "failed", wall |-> 0, at |-> 0]
           less == IF mem.attempts[Rng] > 0 THEN mem.attempts[Rng] - 1 ELSE 0
<1>2. bad \in [st : {"none", "ok", "failed"}, wall : Int, at : Int]
  OBVIOUS
<1>3. less \in Nat
  BY <1>1 DEF State
<1>4. Failed = [mem EXCEPT !.blocks[Rng] = bad]
  BY DEF Failed, NoBlock
<1>5. UndoAttempt(mem, Rng) = [mem EXCEPT !.attempts[Rng] = less]
  BY DEF UndoAttempt
<1> HIDE DEF bad, less
<1>6. /\ Failed \in State /\ Failed.attempts = mem.attempts /\ Failed.armed_at = mem.armed_at
      /\ Failed.blocks = [mem.blocks EXCEPT ![Rng] = bad]
  BY <1>1, <1>2, <1>4, StateUpdates
<1>7. /\ UndoAttempt(mem, Rng) \in State /\ UndoAttempt(mem, Rng).armed_at = mem.armed_at
      /\ UndoAttempt(mem, Rng).blocks = mem.blocks
      /\ UndoAttempt(mem, Rng).attempts = [mem.attempts EXCEPT ![Rng] = less]
  BY <1>1, <1>3, <1>5, StateUpdates
<1> QED
  BY <1>6, <1>7 DEF bad, less

LEMMA Finished ==
  ASSUME SessionTyped, Rng \in Ranges, ProveOk
  PROVE  /\ mem' \in State /\ mem'.attempts = mem.attempts /\ mem'.armed_at = mem.armed_at
         /\ mem'.blocks = [mem.blocks EXCEPT ![Rng] = [st |-> "ok", wall |-> clock - run.since, at |-> clock]]
<1>1. mem \in State /\ clock \in Int /\ run.since \in Int
  BY DEF SessionTyped
<1> DEFINE good == [st |-> "ok", wall |-> clock - run.since, at |-> clock]
<1>2. good \in [st : {"none", "ok", "failed"}, wall : Int, at : Int]
  BY <1>1
<1>3. mem' = [mem EXCEPT !.blocks[Rng] = good]
  BY DEF ProveOk
<1> HIDE DEF good
<1>4. /\ mem' \in State /\ mem'.attempts = mem.attempts /\ mem'.armed_at = mem.armed_at
      /\ mem'.blocks = [mem.blocks EXCEPT ![Rng] = good]
  BY <1>1, <1>2, <1>3, StateUpdates
<1> QED
  BY <1>4 DEF good

(* The record of a loop that goes on to another block. *)
LEMMA LocalNext ==
  ASSUME NEW l \in Local, NEW pc \in {"top", "ending"}, NEW n \in Nat
  PROVE  /\ [l EXCEPT !.fails = n, !.work = NoWork, !.pc = pc] \in Local
         /\ [l EXCEPT !.pc = pc, !.work = NoWork] \in Local
         /\ [l EXCEPT !.pc = pc, !.work = NoWork, !.fails = n] \in Local
         /\ [l EXCEPT !.fails = n, !.work = NoWork, !.pc = pc].pc = pc
         /\ [l EXCEPT !.pc = pc, !.work = NoWork].pc = pc
         /\ [l EXCEPT !.pc = pc, !.work = NoWork, !.fails = n].pc = pc
         /\ [l EXCEPT !.fails = n, !.work = NoWork, !.pc = pc].t = l.t
         /\ [l EXCEPT !.pc = pc, !.work = NoWork].t = l.t
         /\ [l EXCEPT !.pc = pc, !.work = NoWork, !.fails = n].t = l.t
<1>1. NoWork \in [source : {"idle", "tip", "board"}, rng : Ranges \cup {None}, appeared : Int]
  BY DEF NoWork, None
<1>2. [l EXCEPT !.work = NoWork] \in Local
  BY <1>1 DEF Local
<1>3. \A k \in Local : [k EXCEPT !.pc = pc] \in Local
  BY DEF Local
<1>4. \A k \in Local : [k EXCEPT !.fails = n] \in Local
  BY DEF Local
<1>5. [l EXCEPT !.fails = n, !.work = NoWork, !.pc = pc] = [[[l EXCEPT !.work = NoWork] EXCEPT !.fails = n] EXCEPT !.pc = pc]
  BY DEF Local
<1>6. [l EXCEPT !.pc = pc, !.work = NoWork] = [[l EXCEPT !.work = NoWork] EXCEPT !.pc = pc]
  BY DEF Local
<1>7. [l EXCEPT !.pc = pc, !.work = NoWork, !.fails = n] = [[[l EXCEPT !.work = NoWork] EXCEPT !.fails = n] EXCEPT !.pc = pc]
  BY DEF Local
<1>8. /\ [l EXCEPT !.fails = n, !.work = NoWork, !.pc = pc] \in Local
      /\ [l EXCEPT !.pc = pc, !.work = NoWork] \in Local
      /\ [l EXCEPT !.pc = pc, !.work = NoWork, !.fails = n] \in Local
  BY <1>2, <1>3, <1>4, <1>5, <1>6, <1>7, Zenon
<1> QED
  BY <1>8 DEF Local

LEMMA ProofKeepsTypes ==
  SessionTyped /\ WorkSound
    /\ (FetchBundle \/ FetchTipBundle \/ PushBundle \/ ProveFails \/ StepAside \/ ProveOk \/ Ending)
  => SessionTyped'
<1> SUFFICES ASSUME SessionTyped, WorkSound,
                    FetchBundle \/ FetchTipBundle \/ PushBundle \/ ProveFails \/ StepAside \/ ProveOk \/ Ending
             PROVE  SessionTyped'
  OBVIOUS
<1>1. /\ loop \in Local /\ clock \in Nat /\ mem \in State /\ tip \in Closure
      /\ local \in [Tips -> Bundle] /\ bridge \in [Tips -> Bundle] /\ proved \in [Tips -> Bundle]
      /\ run \in [bundle : Bundle, header : Bundle, since : Int]
      /\ ahead \in [pc : {"off", "read", "write"}, above : Int, h : Int, bundle : Bundle]
  BY DEF SessionTyped
<1>2. NoBundle \in Bundle /\ NoRun \in [bundle : Bundle, header : Bundle, since : Int]
  BY Heights DEF NoRun
<1>3. CASE FetchBundle
  BY <1>1, <1>3 DEF FetchBundle, SessionTyped, Local
<1>4. CASE FetchTipBundle
  <2>1. local' \in [Tips -> Bundle]
    BY <1>1, <1>4 DEF FetchTipBundle
  <2>2. local'[Rng] \in Bundle /\ Rng \in Int
    BY <1>4, <2>1, Heights DEF FetchTipBundle, FromTip
  <2>3. run' \in [bundle : Bundle, header : Bundle, since : Int]
    BY <1>1, <1>4, <2>2 DEF FetchTipBundle
  <2>4. loop' \in Local
    BY <1>1, <1>4 DEF FetchTipBundle, Local
  <2>5. ahead' \in [pc : {"off", "read", "write"}, above : Int, h : Int, bundle : Bundle]
    <3>1. [NotAhead EXCEPT !.pc = "read", !.above = Rng] \in [pc : {"off", "read", "write"}, above : Int, h : Int, bundle : Bundle]
      <4>1. NotAhead \in [pc : {"off", "read", "write"}, above : Int, h : Int, bundle : Bundle]
        BY <1>2 DEF NotAhead
      <4> QED
        BY <2>2, <4>1
    <3> QED
      BY <1>1, <1>4, <3>1 DEF FetchTipBundle
  <2> QED
    BY <1>4, <2>1, <2>3, <2>4, <2>5 DEF FetchTipBundle, SessionTyped
<1>5. CASE PushBundle
  <2>1. loop' \in Local
    BY <1>1, <1>5 DEF PushBundle, Local
  <2>2. run' \in [bundle : Bundle, header : Bundle, since : Int]
    <3> DEFINE b == IF FromTip THEN local[Rng] ELSE NoBundle
    <3>1. b \in Bundle
      BY <1>1, <1>2 DEF FromTip
    <3>2. run' = [run EXCEPT !.bundle = b]
      BY <1>5 DEF PushBundle
    <3> HIDE DEF b
    <3> QED
      BY <1>1, <3>1, <3>2
  <2> QED
    BY <1>5, <2>1, <2>2 DEF PushBundle, SessionTyped
<1>6. CASE ProveFails
  <2>1. Rng \in Ranges
    BY <1>6 DEF ProveFails, WorkSound, InFlight, Rng
  <2>2. mem' \in State
    BY <1>6, <2>1, Recorded DEF ProveFails
  <2>3. loop' \in Local
    <3> DEFINE pc == IF loop.fails + 1 >= MAX_CONSECUTIVE_FAILS THEN "ending" ELSE "top"
               n  == loop.fails + 1
    <3>1. pc \in {"top", "ending"} /\ n \in Nat
      BY <1>1 DEF Local
    <3>2. loop' = [loop EXCEPT !.fails = n, !.work = NoWork, !.pc = pc]
      BY <1>6 DEF ProveFails
    <3> HIDE DEF pc, n
    <3> QED
      BY <1>1, <3>1, <3>2, LocalNext
  <2>4. local' \in [Tips -> Bundle]
    BY <1>1, <1>6 DEF ProveFails, FromTip
  <2>5. failures' \in [Ranges -> Nat]
    BY <1>6, <2>1 DEF ProveFails, SessionTyped
  <2> QED
    BY <1>2, <1>6, <2>2, <2>3, <2>4, <2>5 DEF ProveFails, SessionTyped
<1>7. CASE StepAside
  <2>1. Rng \in Ranges
    BY <1>7 DEF StepAside, WorkSound, InFlight, Rng
  <2>2. mem' \in State
    BY <1>7, <2>1, Recorded DEF StepAside
  <2>3. loop' \in Local
    BY <1>1, <1>7, LocalNext DEF StepAside
  <2>4. tip' \in Closure
    <3>1. BundlesAbove(tip.floor) \in SUBSET Tips /\ BundlesAbove(tip.floor) # {}
      BY <1>7, BundlesAboveAreTips DEF StepAside, TipWaiting
    <3> QED
      BY <1>7, <3>1, Picked DEF StepAside
  <2> QED
    BY <1>2, <1>7, <2>2, <2>3, <2>4 DEF StepAside, SessionTyped
<1>8. CASE ProveOk
  <2>1. Rng \in Ranges
    BY <1>8 DEF ProveOk, WorkSound, InFlight, Rng
  <2>2. mem' \in State
    BY <1>8, <2>1, Finished
  <2>3. loop' \in Local
    BY <1>1, <1>8, LocalNext DEF ProveOk
  <2>4. tip' \in Closure /\ proved' \in [Tips -> Bundle]
    <3>1. CASE FromTip
      <4>1. tip' = [tip EXCEPT !.floor = Rng, !.header = run.header] /\ proved' = [proved EXCEPT ![Rng] = run.bundle]
        BY <1>8, <3>1 DEF ProveOk
      <4>2. Rng \in Int /\ run.header \in Bundle /\ run.bundle \in Bundle
        BY <1>1, <2>1, Heights
      <4> QED
        BY <1>1, <4>1, <4>2 DEF Closure
    <3>2. CASE ~FromTip
      BY <1>1, <1>8, <3>2 DEF ProveOk
    <3> QED
      BY <3>1, <3>2
  <2> QED
    BY <1>2, <1>8, <2>2, <2>3, <2>4 DEF ProveOk, SessionTyped
<1>9. CASE Ending
  BY <1>1, <1>9 DEF Ending, SessionTyped, Local
<1> QED
  BY <1>3, <1>4, <1>5, <1>6, <1>7, <1>8, <1>9

LEMMA AheadKeepsTypes == SessionTyped /\ (AheadRead \/ AheadWrite \/ Tick) => SessionTyped'
<1> SUFFICES ASSUME SessionTyped, AheadRead \/ AheadWrite \/ Tick PROVE SessionTyped'
  OBVIOUS
<1>1. /\ local \in [Tips -> Bundle] /\ bridge \in [Tips -> Bundle]
      /\ ahead \in [pc : {"off", "read", "write"}, above : Int, h : Int, bundle : Bundle]
  BY DEF SessionTyped
<1>2. NotAhead \in [pc : {"off", "read", "write"}, above : Int, h : Int, bundle : Bundle]
  BY Heights DEF NotAhead
<1>3. CASE AheadRead
  <2> DEFINE hs == BundlesAbove(ahead.above)
             h  == ChooseTip(hs).chosen
             b  == bridge[h]
  <2>1. CASE hs = {}
    BY <1>2, <1>3, <2>1 DEF AheadRead, SessionTyped
  <2>2. CASE hs # {}
    <3>1. h \in Tips
      BY <2>2, BundlesAboveAreTips, Chosen
    <3>2. h \in Int /\ b \in Bundle
      <4> HIDE DEF h
      <4>1. h \in Int
        BY <3>1, Heights
      <4> QED
        BY <1>1, <3>1, <4>1
    <3>3. ahead' = [ahead EXCEPT !.pc = "write", !.h = h, !.bundle = b]
      BY <1>3, <2>2 DEF AheadRead
    <3> HIDE DEF h, b
    <3>4. ahead' \in [pc : {"off", "read", "write"}, above : Int, h : Int, bundle : Bundle]
      BY <1>1, <3>2, <3>3
    <3> QED
      BY <1>3, <3>4 DEF AheadRead, SessionTyped
  <2> QED
    BY <2>1, <2>2
<1>4. CASE AheadWrite
  <2>1. local' \in [Tips -> Bundle]
    BY <1>1, <1>4 DEF AheadWrite
  <2> QED
    BY <1>2, <1>4, <2>1 DEF AheadWrite, SessionTyped
<1>5. CASE Tick
  BY <1>5 DEF Tick, SessionTyped
<1> QED
  BY <1>3, <1>4, <1>5

LEMMA WorkKept == SessionTyped /\ WorkSound /\ Next => WorkSound'
<1> SUFFICES ASSUME SessionTyped, WorkSound, Next PROVE WorkSound'
  OBVIOUS
<1>1. loop \in Local
  BY DEF SessionTyped
<1>2. ASSUME NEW source \in {"idle", "tip", "board"}, NEW r \in Ranges \cup {None}, NEW appeared \in Int,
             Work(source, r, appeared), source = "tip" <=> r \in Tips
      PROVE  WorkSound'
  <2> DEFINE w == [source |-> source, rng |-> r, appeared |-> appeared]
  <2>1. loop' = [loop EXCEPT !.pc = "plan", !.work = w]
    BY <1>2 DEF Work
  <2>2. w.source = source /\ w.rng = r
    OBVIOUS
  <2> HIDE DEF w
  <2>3. loop'.pc = "plan" /\ loop'.work = w
    BY <1>1, <2>1 DEF Local
  <2> QED
    BY <1>2, <2>2, <2>3 DEF WorkSound, InFlight
<1>3. ASSUME NEW hs \in SUBSET Tips, hs # {}
      PROVE  ChooseTip(hs).chosen \in Tips /\ ChooseTip(hs).chosen \in Ranges
  BY <1>3, Chosen, Heights
<1>4. None \in Int
  BY DEF None
<1>5. CASE WorkTip
  <2> DEFINE hs == BundlesAbove(tip.floor)
  <2>1. hs \in SUBSET Tips /\ hs # {}
    BY <1>5, BundlesAboveAreTips DEF WorkTip
  <2>2. SessionTyped'
    BY <1>5, WorkKeepsTypes
  <2>3. tip'.seen[ChooseTip(hs).chosen] \in Int
    BY <1>3, <2>1, <2>2 DEF SessionTyped, Closure
  <2>4. Work("tip", ChooseTip(hs).chosen, tip'.seen[ChooseTip(hs).chosen])
    BY <1>5 DEF WorkTip
  <2> QED
    BY <1>2, <1>3, <2>1, <2>3, <2>4, Zenon
<1>6. CASE RecheckTip
  <2> DEFINE hs == BundlesAbove(tip.floor)
  <2>1. hs \in SUBSET Tips /\ hs # {}
    BY <1>6, BundlesAboveAreTips DEF RecheckTip
  <2>2. SessionTyped'
    BY <1>6, WorkKeepsTypes
  <2>3. tip'.seen[ChooseTip(hs).chosen] \in Int
    BY <1>3, <2>1, <2>2 DEF SessionTyped, Closure
  <2>4. Work("tip", ChooseTip(hs).chosen, tip'.seen[ChooseTip(hs).chosen])
    BY <1>6 DEF RecheckTip
  <2> QED
    BY <1>2, <1>3, <2>1, <2>3, <2>4, Zenon
<1>7. CASE ClaimBoard
  <2>1. PICK res \in ClaimAnswers :
          CASE res.state = "claimed" -> Work("board", res.range, None)
            [] res.state = "idle"    -> Work("idle", None, None)
            [] res.state = "error"   -> loop' = [loop EXCEPT !.pc = "dead"]
    BY <1>7 DEF ClaimBoard
  <2>2. CASE res.state = "claimed"
    <3>1. res.range \in Ranges /\ res.range \notin Tips /\ "board" # "tip"
      BY <2>2, Heights DEF ClaimAnswers
    <3>2. Work("board", res.range, None)
      BY <2>1, <2>2
    <3>3. "board" = "tip" <=> res.range \in Tips
      BY <3>1
    <3> QED
      BY <1>2, <1>4, <3>1, <3>2, <3>3
  <2>3. CASE res.state = "idle"
    <3>1. Work("idle", None, None)
      BY <2>1, <2>3
    <3>2. "idle" = "tip" <=> None \in Tips
      BY Heights
    <3> QED
      BY <1>2, <1>4, <3>1, <3>2
  <2>4. CASE res.state = "error"
    <3>1. loop' = [loop EXCEPT !.pc = "dead"]
      BY <2>1, <2>4
    <3> QED
      BY <1>1, <3>1 DEF Local, WorkSound, InFlight
  <2> QED
    BY <2>2, <2>3, <2>4 DEF ClaimAnswers
<1>8. CASE LoopTop \/ WorkNoTip \/ PlanStop \/ PlanIdleBoard \/ Ending
  BY <1>1, <1>8 DEF LoopTop, WorkNoTip, PlanStop, PlanIdleBoard, Ending, Local, WorkSound, InFlight, AddSpend
<1>9. CASE PlanIdleExhausted
  BY <1>1, <1>9 DEF PlanIdleExhausted, Local, WorkSound, InFlight
<1>10. CASE Wake \/ ProveFails \/ StepAside \/ ProveOk
  <2>1. loop'.pc \in {"top", "ending"}
    BY <1>1, <1>10 DEF Wake, ProveFails, StepAside, ProveOk, Local
  <2> QED
    BY <2>1 DEF WorkSound, InFlight
<1>11. CASE PlanProve
  <2>1. loop'.work = loop.work /\ loop'.pc = "fetch" /\ loop.pc = "plan" /\ loop.work.rng \in Ranges
    BY <1>1, <1>11 DEF PlanProve, Local, RecordAttempt
  <2> QED
    BY <2>1 DEF WorkSound, InFlight
<1>12. CASE FetchBundle \/ FetchTipBundle \/ PushBundle
  <2>1. loop'.work = loop.work /\ loop'.pc \in {"push", "run"} /\ loop.pc \in {"fetch", "push"}
    BY <1>1, <1>12 DEF FetchBundle, FetchTipBundle, PushBundle, Local
  <2> QED
    BY <2>1 DEF WorkSound, InFlight
<1>13. CASE AheadRead \/ AheadWrite \/ Mine \/ Reorg \/ Tick
  BY <1>13 DEF AheadRead, AheadWrite, Mine, Reorg, Tick, WorkSound, InFlight
<1> QED
  BY <1>5, <1>6, <1>7, <1>8, <1>9, <1>10, <1>11, <1>12, <1>13 DEF Next, Loop

LEMMA TypesKept == SessionTyped /\ WorkSound /\ Next => SessionTyped' /\ WorkSound'
<1>1. SessionTyped /\ WorkSound /\ Next => SessionTyped'
  BY MinedKeepTypes, WorkKeepsTypes, PlanKeepsTypes, ProofKeepsTypes, AheadKeepsTypes, Zenon DEF Next, Loop
<1> QED
  BY <1>1, WorkKept, Zenon

-----------------------------------------------------------------------------
(* The steps of the loop, by what they leave alone.                        *)

Between ==
  LoopTop \/ WorkTip \/ WorkNoTip \/ RecheckTip \/ ClaimBoard
    \/ PlanStop \/ PlanIdleBoard \/ PlanIdleExhausted \/ Wake \/ Ending

Around == FetchBundle \/ FetchTipBundle \/ PushBundle \/ AheadRead \/ AheadWrite \/ Mine \/ Reorg \/ Tick

LEMMA WorkMoves ==
  ASSUME SessionTyped, NEW source \in {"idle", "tip", "board"}, NEW r \in Ranges \cup {None},
         NEW appeared \in Int, Work(source, r, appeared)
  PROVE  loop'.pc = "plan" /\ loop'.t = loop.t /\ loop'.work.rng = r /\ loop'.work.appeared = appeared
<1> DEFINE w == [source |-> source, rng |-> r, appeared |-> appeared]
<1>1. loop \in Local /\ loop' = [loop EXCEPT !.pc = "plan", !.work = w]
  BY DEF Work, SessionTyped
<1>2. w.rng = r /\ w.appeared = appeared
  OBVIOUS
<1> HIDE DEF w
<1>3. loop'.pc = "plan" /\ loop'.t = loop.t /\ loop'.work = w
  BY <1>1 DEF Local
<1> QED
  BY <1>2, <1>3

(* Work on a tip: what is waiting, what is chosen, and what is remembered. *)
LEMMA TipTaken ==
  ASSUME SessionTyped, WorkTip \/ RecheckTip
  PROVE  /\ BundlesAbove(tip.floor) \in SUBSET Tips /\ BundlesAbove(tip.floor) # {}
         /\ loop.pc \in {"work", "recheck"} /\ loop'.pc = "plan" /\ loop'.t = loop.t
         /\ loop'.work.rng = ChooseTip(BundlesAbove(tip.floor)).chosen
         /\ loop'.work.appeared = tip'.seen[ChooseTip(BundlesAbove(tip.floor)).chosen]
         /\ tip'.floor = tip.floor /\ tip'.header = tip.header
         /\ tip.jumped \subseteq tip'.jumped
         /\ tip'.noted = tip.noted \cup ChooseTip(BundlesAbove(tip.floor)).skipped
         /\ \A h \in Tips :
              tip'.seen[h] = IF h \in BundlesAbove(tip.floor) /\ tip.seen[h] = None THEN clock ELSE tip.seen[h]
<1> DEFINE hs == BundlesAbove(tip.floor)
           c  == ChooseTip(hs)
           p  == PickTip(hs)
<1>1. hs \in SUBSET Tips /\ hs # {} /\ loop.pc \in {"work", "recheck"}
  BY BundlesAboveAreTips DEF WorkTip, RecheckTip
<1>2. c.chosen \in Tips /\ c.chosen \in Ranges
  BY <1>1, Chosen, Heights
<1>3. /\ p \in Closure /\ p.floor = tip.floor /\ p.header = tip.header /\ p.jumped = tip.jumped
      /\ p.noted = tip.noted \cup c.skipped
      /\ \A h \in Tips : p.seen[h] = IF h \in hs /\ tip.seen[h] = None THEN clock ELSE tip.seen[h]
  BY <1>1, Picked
<1>4. Work("tip", c.chosen, tip'.seen[c.chosen])
  BY DEF WorkTip, RecheckTip
<1>5. tip' = [p EXCEPT !.jumped = IF c.skipped # {} THEN p.jumped \cup {c.chosen} ELSE p.jumped] \/ tip' = p
  BY DEF WorkTip, RecheckTip
<1> DEFINE js == IF c.skipped # {} THEN p.jumped \cup {c.chosen} ELSE p.jumped
<1>6. p.jumped \subseteq js
  OBVIOUS
<1>7. tip' = [p EXCEPT !.jumped = js] \/ tip' = p
  BY <1>5
<1> HIDE DEF p, js, c, hs
<1>8. /\ tip'.floor = p.floor /\ tip'.header = p.header /\ p.jumped \subseteq tip'.jumped
      /\ tip'.noted = p.noted /\ tip'.seen = p.seen
  BY <1>3, <1>6, <1>7 DEF Closure
<1>9. tip'.seen[c.chosen] \in Int
  BY <1>2, <1>3, <1>8 DEF Closure
<1>10. /\ loop'.pc = "plan" /\ loop'.t = loop.t /\ loop'.work.rng = c.chosen
       /\ loop'.work.appeared = tip'.seen[c.chosen]
  BY <1>2, <1>4, <1>9, WorkMoves
<1>11. tip'.floor = tip.floor /\ tip'.header = tip.header /\ tip.jumped \subseteq tip'.jumped
       /\ tip'.noted = tip.noted \cup c.skipped
       /\ \A h \in Tips : tip'.seen[h] = IF h \in hs /\ tip.seen[h] = None THEN clock ELSE tip.seen[h]
  BY <1>3, <1>8
<1> QED
  BY <1>1, <1>10, <1>11 DEF hs, c

LEMMA BoardTaken ==
  ASSUME SessionTyped, ClaimBoard
  PROVE  loop.pc = "recheck" /\ loop'.pc \in {"plan", "dead"} /\ loop'.t = loop.t
         /\ (loop'.pc = "plan" => loop'.work.rng \notin Tips)
<1>1. PICK res \in ClaimAnswers :
        CASE res.state = "claimed" -> Work("board", res.range, None)
          [] res.state = "idle"    -> Work("idle", None, None)
          [] res.state = "error"   -> loop' = [loop EXCEPT !.pc = "dead"]
  BY DEF ClaimBoard
<1>2. None \in Int /\ loop.pc = "recheck"
  BY DEF None, ClaimBoard
<1>3. CASE res.state = "claimed"
  <2>1. Work("board", res.range, None) /\ res.range \in Ranges /\ res.range \notin Tips
    BY <1>1, <1>3, Heights DEF ClaimAnswers
  <2> QED
    BY <1>2, <2>1, WorkMoves
<1>4. CASE res.state = "idle"
  <2>1. Work("idle", None, None) /\ None \notin Tips
    BY <1>1, <1>4, Heights
  <2> QED
    BY <1>2, <2>1, WorkMoves
<1>5. CASE res.state = "error"
  <2>1. loop' = [loop EXCEPT !.pc = "dead"]
    BY <1>1, <1>5
  <2> QED
    BY <1>2, <2>1 DEF SessionTyped, Local
<1> QED
  BY <1>3, <1>4, <1>5 DEF ClaimAnswers

LEMMA BetweenKeeps ==
  ASSUME SessionTyped, Between
  PROVE  /\ ~InFlight /\ ~InFlight'
         /\ mem'.blocks = mem.blocks /\ mem'.attempts = mem.attempts /\ mem'.armed_at = mem.armed_at
         /\ UNCHANGED <<clock, opt, bridge, local, run, ahead, proved, failures>>
<1>1. loop \in Local /\ mem \in State
  BY DEF SessionTyped
<1>2. UNCHANGED <<clock, opt, bridge, local, run, ahead, proved, failures>>
  BY DEF Between, LoopTop, WorkTip, WorkNoTip, RecheckTip, ClaimBoard, PlanStop, PlanIdleBoard, AddSpend,
         PlanIdleExhausted, Wake, Ending
<1>3. CASE LoopTop
  <2> DEFINE n == mem.spend + (clock - loop.t)
  <2>1. mem' = [mem EXCEPT !.spend = n] /\ loop.pc = "top" /\ loop' = [loop EXCEPT !.pc = "work", !.t = clock]
    BY <1>3 DEF LoopTop, AddSpend
  <2> HIDE DEF n
  <2> QED
    BY <1>1, <1>2, <2>1 DEF State, Local, InFlight
<1>4. CASE WorkTip \/ RecheckTip
  <2>1. mem' = mem /\ loop.pc \in {"work", "recheck"} /\ loop'.pc = "plan"
    BY <1>4, TipTaken DEF WorkTip, RecheckTip
  <2> QED
    BY <1>2, <2>1 DEF InFlight
<1>5. CASE ClaimBoard
  <2>1. mem' = mem /\ loop.pc = "recheck" /\ loop'.pc \in {"plan", "dead"}
    BY <1>5, BoardTaken DEF ClaimBoard
  <2> QED
    BY <1>2, <2>1 DEF InFlight
<1>6. CASE WorkNoTip \/ PlanStop \/ PlanIdleBoard \/ Ending
  <2>1. mem' = mem /\ loop.pc \in {"work", "plan", "ending"} /\ loop'.pc \in {"recheck", "ending", "sleep", "done"}
    BY <1>1, <1>6 DEF WorkNoTip, PlanStop, PlanIdleBoard, Ending, Local
  <2> QED
    BY <1>2, <2>1 DEF InFlight
<1>7. CASE PlanIdleExhausted
  <2>1. mem' = mem /\ loop.pc = "plan" /\ loop'.pc \in {"ending", "sleep"}
    BY <1>1, <1>7 DEF PlanIdleExhausted, Local
  <2> QED
    BY <1>2, <2>1 DEF InFlight
<1>8. CASE Wake
  <2>1. mem' = mem /\ loop.pc = "sleep" /\ loop'.pc = "top"
    BY <1>1, <1>8 DEF Wake, Local
  <2> QED
    BY <1>2, <2>1 DEF InFlight
<1> QED
  BY <1>3, <1>4, <1>5, <1>6, <1>7, <1>8 DEF Between

LEMMA AroundKeeps ==
  ASSUME SessionTyped, Around
  PROVE  /\ loop'.work = loop.work /\ loop'.t = loop.t /\ (InFlight' <=> InFlight)
         /\ ~InFlight => loop' = loop
         /\ UNCHANGED <<opt, mem, tip, proved, failures>>
<1>1. loop \in Local
  BY DEF SessionTyped
<1>2. CASE FetchBundle \/ FetchTipBundle \/ PushBundle
  <2>1. loop.pc \in {"fetch", "push"} /\ loop'.pc \in {"push", "run"} /\ loop'.work = loop.work /\ loop'.t = loop.t
    BY <1>1, <1>2 DEF FetchBundle, FetchTipBundle, PushBundle, Local
  <2> QED
    BY <1>2, <2>1 DEF FetchBundle, FetchTipBundle, PushBundle, InFlight
<1>3. CASE AheadRead \/ AheadWrite \/ Mine \/ Reorg \/ Tick
  BY <1>3 DEF AheadRead, AheadWrite, Mine, Reorg, Tick, InFlight
<1> QED
  BY <1>2, <1>3 DEF Around

LEMMA NextMoves ==
  Next => Between \/ Around \/ PlanProve \/ ProveFails \/ StepAside \/ ProveOk
  BY DEF Next, Loop, Between, Around

-----------------------------------------------------------------------------
(* Attempts are failures: a block is retired only for failing.             *)

(* Where a proof leaves the loop. *)
LEMMA Leaves ==
  ASSUME SessionTyped, WorkSound, ProveFails \/ StepAside \/ ProveOk
  PROVE  /\ InFlight /\ Rng \in Ranges
         /\ ~InFlight' /\ loop'.pc \in {"top", "ending"} /\ loop'.t = loop.t
<1>1. InFlight
  BY DEF ProveFails, StepAside, ProveOk, InFlight
<1>2. Rng \in Ranges
  BY <1>1 DEF WorkSound, InFlight, Rng
<1>3. loop \in Local /\ loop.fails + 1 \in Nat /\ 0 \in Nat
  BY DEF SessionTyped, Local
<1>4. loop'.pc \in {"top", "ending"} /\ loop'.t = loop.t
  <2>1. CASE ProveFails
    <3> DEFINE pc == IF loop.fails + 1 >= MAX_CONSECUTIVE_FAILS THEN "ending" ELSE "top"
               n  == loop.fails + 1
    <3>1. pc \in {"top", "ending"} /\ n \in Nat
      BY <1>3
    <3>2. loop' = [loop EXCEPT !.fails = n, !.work = NoWork, !.pc = pc]
      BY <2>1 DEF ProveFails
    <3> DEFINE l == [loop EXCEPT !.fails = n, !.work = NoWork, !.pc = pc]
    <3> HIDE DEF pc, n
    <3>3. l.pc = pc /\ l.t = loop.t
      BY <1>3, <3>1 DEF Local
    <3> QED
      BY <3>1, <3>2, <3>3
  <2>2. CASE StepAside
    <3> DEFINE l == [loop EXCEPT !.pc = "top", !.work = NoWork]
    <3>1. loop' = l
      BY <2>2 DEF StepAside
    <3>2. l.pc = "top" /\ l.t = loop.t
      BY <1>3, LocalNext
    <3> QED
      BY <3>1, <3>2
  <2>3. CASE ProveOk
    <3> DEFINE l == [loop EXCEPT !.pc = "top", !.work = NoWork, !.fails = 0]
    <3>1. loop' = l
      BY <2>3 DEF ProveOk
    <3>2. l.pc = "top" /\ l.t = loop.t
      BY <1>3 DEF Local
    <3> QED
      BY <3>1, <3>2
  <2> QED
    BY <2>1, <2>2, <2>3
<1> QED
  BY <1>1, <1>2, <1>4 DEF InFlight

LEMMA CountKept == SessionTyped /\ WorkSound /\ CountSound /\ Next => CountSound'
<1> SUFFICES ASSUME SessionTyped, WorkSound, CountSound, Next PROVE CountSound'
  OBVIOUS
<1>1. mem \in State /\ failures \in [Ranges -> Nat] /\ loop \in Local
  BY DEF SessionTyped
<1>2. CASE Between
  <2>1. /\ ~InFlight /\ ~InFlight' /\ mem'.blocks = mem.blocks /\ mem'.attempts = mem.attempts
        /\ failures' = failures
    BY <1>2, BetweenKeeps
  <2> QED
    BY <2>1 DEF CountSound
<1>3. CASE Around
  <2>1. mem' = mem /\ failures' = failures /\ Rng' = Rng /\ (InFlight' <=> InFlight)
    BY <1>3, AroundKeeps DEF Rng
  <2> QED
    BY <2>1 DEF CountSound
<1>4. CASE PlanProve
  <2>1. /\ Rng \in Ranges /\ mem'.blocks = mem.blocks
        /\ mem'.attempts = [mem.attempts EXCEPT ![Rng] = mem.attempts[Rng] + 1]
    BY <1>4, Planned
  <2>2. ~InFlight /\ InFlight' /\ Rng' = Rng /\ failures' = failures
    BY <1>1, <1>4 DEF PlanProve, Local, InFlight, Rng, RecordAttempt
  <2>3. mem.blocks[Rng].st # "ok"
    BY <1>4 DEF PlanProve, Exhausted, Rng, RecordAttempt
  <2>4. ASSUME NEW r \in Ranges, mem.blocks[r].st # "ok"
        PROVE  mem'.attempts[r] = failures[r] + (IF Rng = r THEN 1 ELSE 0)
    <3>1. mem.attempts[r] = failures[r]
      BY <1>1, <2>2, <2>4 DEF CountSound
    <3> QED
      BY <1>1, <2>1, <3>1 DEF State
  <2> QED
    BY <2>1, <2>2, <2>3, <2>4 DEF CountSound
<1>5. CASE ProveFails
  <2>1. InFlight /\ Rng \in Ranges /\ ~InFlight'
    BY <1>5, Leaves
  <2>2. /\ mem'.attempts = mem.attempts
        /\ mem'.blocks = [mem.blocks EXCEPT ![Rng] = [st |-> "failed", wall |-> 0, at |-> 0]]
    BY <1>5, <2>1, Recorded DEF ProveFails
  <2>3. failures' = [failures EXCEPT ![Rng] = failures[Rng] + 1]
    BY <1>5 DEF ProveFails
  <2>4. ASSUME NEW r \in Ranges, mem'.blocks[r].st # "ok"
        PROVE  mem'.attempts[r] = failures'[r]
    <3>1. mem.blocks[r].st # "ok"
      <4>1. CASE r = Rng
        BY <2>1, <4>1 DEF CountSound
      <4>2. CASE r # Rng
        BY <1>1, <2>2, <2>4, <4>2 DEF State
      <4> QED
        BY <4>1, <4>2
    <3>2. mem.attempts[r] = failures[r] + (IF Rng = r THEN 1 ELSE 0)
      BY <2>1, <3>1 DEF CountSound
    <3> QED
      BY <1>1, <2>1, <2>2, <2>3, <3>2 DEF State
  <2>5. mem'.attempts \in [Ranges -> Nat] /\ failures' \in [Ranges -> Nat]
    BY <1>1, <2>1, <2>2, <2>3 DEF State
  <2> QED
    BY <2>1, <2>4, <2>5 DEF CountSound
<1>6. CASE StepAside
  <2>1. InFlight /\ Rng \in Ranges /\ ~InFlight' /\ failures' = failures
    BY <1>6, Leaves DEF StepAside
  <2>2. /\ mem'.blocks = mem.blocks
        /\ mem'.attempts = [mem.attempts EXCEPT ![Rng] = IF mem.attempts[Rng] > 0 THEN mem.attempts[Rng] - 1 ELSE 0]
    BY <1>6, <2>1, Recorded DEF StepAside
  <2>3. ASSUME NEW r \in Ranges, mem.blocks[r].st # "ok"
        PROVE  mem'.attempts[r] = failures[r]
    <3>1. mem.attempts[r] = failures[r] + (IF Rng = r THEN 1 ELSE 0)
      BY <2>1, <2>3 DEF CountSound
    <3> QED
      BY <1>1, <2>1, <2>2, <3>1 DEF State
  <2> QED
    BY <1>1, <2>1, <2>2, <2>3 DEF CountSound
<1>7. CASE ProveOk
  <2>1. InFlight /\ Rng \in Ranges /\ ~InFlight' /\ failures' = failures
    BY <1>7, Leaves DEF ProveOk
  <2>2. /\ mem'.attempts = mem.attempts
        /\ mem'.blocks = [mem.blocks EXCEPT ![Rng] = [st |-> "ok", wall |-> clock - run.since, at |-> clock]]
    BY <1>7, <2>1, Finished
  <2>3. ASSUME NEW r \in Ranges, mem'.blocks[r].st # "ok"
        PROVE  mem.attempts[r] = failures[r]
    <3>1. r # Rng /\ mem.blocks[r].st # "ok"
      BY <1>1, <2>1, <2>2, <2>3 DEF State
    <3> QED
      BY <1>1, <2>1, <3>1 DEF CountSound
  <2> QED
    BY <1>1, <2>1, <2>2, <2>3 DEF CountSound
<1> QED
  BY <1>2, <1>3, <1>4, <1>5, <1>6, <1>7, NextMoves

-----------------------------------------------------------------------------
(* The hour counts what was proved in it.                                  *)

LEMMA TimesFrame ==
  ASSUME SessionTyped, TimesSound, clock' \in {clock, clock + 1},
         mem'.blocks = mem.blocks, mem'.armed_at = mem.armed_at, tip'.seen = tip.seen
  PROVE  TimesSound'
  BY DEF SessionTyped, State, Closure, TimesSound, Splits, IsArmed, None

(* Tips first seen now: nothing has ended later. *)
LEMMA TimesSeen ==
  ASSUME SessionTyped, TimesSound, clock' = clock,
         mem'.blocks = mem.blocks, mem'.armed_at = mem.armed_at,
         \A h \in Tips : tip'.seen[h] \in {tip.seen[h], clock}
  PROVE  TimesSound'
<1>1. /\ mem'.armed_at = None \/ mem'.armed_at \in 0..clock
      /\ IsArmed(mem)' => Splits(mem.armed_at)'
      /\ \A r \in Ranges :
           mem'.blocks[r].st = "ok" =>
             /\ mem'.blocks[r].at <= clock
             /\ r \in Tips => IsArmed(mem)' /\ mem'.blocks[r].at > mem'.armed_at
  BY DEF TimesSound, Splits, IsArmed
<1>2. ASSUME NEW h \in Tips
      PROVE  tip'.seen[h] = None \/ (tip'.seen[h] \in 0..clock /\ Splits(tip.seen[h])')
  <2>1. CASE tip'.seen[h] = tip.seen[h]
    BY <2>1 DEF TimesSound, Splits
  <2>2. CASE tip'.seen[h] = clock
    <3>1. clock \in 0..clock
      BY DEF SessionTyped
    <3>2. \A r \in Ranges : mem'.blocks[r].st = "ok" => mem'.blocks[r].at <= clock
      BY DEF TimesSound
    <3>3. \A r \in Ranges : mem.blocks[r].at \in Int
      BY DEF SessionTyped, State
    <3> QED
      BY <2>2, <3>1, <3>2, <3>3 DEF Splits, SessionTyped
  <2> QED
    BY <2>1, <2>2
<1> QED
  BY <1>1, <1>2 DEF TimesSound

LEMMA TimesKept == SessionTyped /\ WorkSound /\ HourSound /\ Next => TimesSound'
<1> SUFFICES ASSUME SessionTyped, WorkSound, HourSound, Next PROVE TimesSound'
  OBVIOUS
<1>0. TimesSound /\ LoopTimes
  BY DEF HourSound
<1>1. mem \in State /\ loop \in Local /\ clock \in Nat /\ tip \in Closure
  BY DEF SessionTyped
<1>2. CASE WorkTip \/ RecheckTip
  <2>1. mem'.blocks = mem.blocks /\ mem'.armed_at = mem.armed_at /\ clock' = clock
    BY <1>2 DEF WorkTip, RecheckTip
  <2>2. \A h \in Tips : tip'.seen[h] \in {tip.seen[h], clock}
    BY <1>2, TipTaken
  <2> QED
    BY <1>0, <2>1, <2>2, TimesSeen
<1>3. CASE Between /\ ~(WorkTip \/ RecheckTip)
  <2>1. mem'.blocks = mem.blocks /\ mem'.armed_at = mem.armed_at /\ clock' = clock
    BY <1>3, BetweenKeeps
  <2>2. tip' = tip
    BY <1>3 DEF Between, LoopTop, WorkNoTip, ClaimBoard, PlanStop, PlanIdleBoard, PlanIdleExhausted, Wake, Ending, AddSpend
  <2> QED
    BY <1>0, <2>1, <2>2, TimesFrame
<1>4. CASE Around
  <2>1. mem' = mem /\ tip' = tip
    BY <1>4, AroundKeeps
  <2>2. clock' \in {clock, clock + 1}
    BY <1>4 DEF Around, FetchBundle, FetchTipBundle, PushBundle, AheadRead, AheadWrite, Mine, Reorg, Tick
  <2> QED
    BY <1>0, <2>1, <2>2, TimesFrame
<1>5. CASE StepAside
  <2>1. Rng \in Ranges
    BY <1>5, Leaves
  <2>2. mem'.blocks = mem.blocks /\ mem'.armed_at = mem.armed_at /\ clock' = clock
    BY <1>5, <2>1, Recorded DEF StepAside
  <2>3. BundlesAbove(tip.floor) \in SUBSET Tips /\ BundlesAbove(tip.floor) # {}
    BY <1>5, BundlesAboveAreTips DEF StepAside, TipWaiting
  <2>4. tip' = PickTip(BundlesAbove(tip.floor))
    BY <1>5 DEF StepAside
  <2>5. \A h \in Tips : tip'.seen[h] \in {tip.seen[h], clock}
    BY <2>3, <2>4, Picked
  <2> QED
    BY <1>0, <2>2, <2>5, TimesSeen
<1>6. CASE ProveFails
  <2>1. Rng \in Ranges
    BY <1>6, Leaves
  <2>2. /\ mem'.armed_at = mem.armed_at /\ clock' = clock /\ tip' = tip
        /\ mem'.blocks = [mem.blocks EXCEPT ![Rng] = [st |-> "failed", wall |-> 0, at |-> 0]]
    BY <1>6, <2>1, Recorded DEF ProveFails
  <2>3. \A r \in Ranges : mem'.blocks[r].st = "ok" => mem'.blocks[r] = mem.blocks[r]
    BY <1>1, <2>2 DEF State
  <2> HIDE DEF Next
  <2> QED
    BY <1>0, <2>2, <2>3 DEF TimesSound, Splits, IsArmed
<1>7. CASE ProveOk
  <2>1. InFlight /\ Rng \in Ranges
    BY <1>7, Leaves
  <2>2. /\ mem'.armed_at = mem.armed_at /\ clock' = clock
        /\ mem'.blocks = [mem.blocks EXCEPT ![Rng] = [st |-> "ok", wall |-> clock - run.since, at |-> clock]]
    BY <1>7, <2>1, Finished DEF ProveOk
  <2>3. tip'.seen = tip.seen
    BY <1>1, <1>7 DEF ProveOk, Closure
  <2>4. /\ clock > run.since /\ run.since \in 0..clock
        /\ IsArmed(mem) => mem.armed_at <= run.since
        /\ \A h \in Tips : tip.seen[h] <= run.since
        /\ Rng \in Tips => IsArmed(mem)
    BY <1>0, <1>7, <2>1 DEF LoopTimes, ProveOk
  <2>5. /\ mem'.blocks[Rng].st = "ok" /\ mem'.blocks[Rng].at = clock
        /\ mem'.blocks[Rng].at - mem'.blocks[Rng].wall = run.since
    BY <1>1, <2>1, <2>2, <2>4 DEF State
  <2>6. \A r \in Ranges : r # Rng => mem'.blocks[r] = mem.blocks[r]
    BY <1>1, <2>2 DEF State
  <2>7. ASSUME NEW s \in Int, s <= run.since,
               \A r \in Ranges : mem.blocks[r].st = "ok" /\ mem.blocks[r].at > s
                                   => mem.blocks[r].at - mem.blocks[r].wall >= s
        PROVE  \A r \in Ranges : mem'.blocks[r].st = "ok" /\ mem'.blocks[r].at > s
                                   => mem'.blocks[r].at - mem'.blocks[r].wall >= s
    BY <2>5, <2>6, <2>7
  <2>8. IsArmed(mem)' => Splits(mem.armed_at)'
    <3>1. mem.armed_at \in Int
      BY <1>1 DEF State
    <3> QED
      BY <1>0, <2>2, <2>4, <2>7, <3>1 DEF TimesSound, Splits, IsArmed
  <2>9. ASSUME NEW h \in Tips
        PROVE  tip'.seen[h] = None \/ (tip'.seen[h] \in 0..clock /\ Splits(tip.seen[h])')
    <3>1. tip.seen[h] \in Int /\ tip.seen[h] <= run.since
      BY <1>1, <2>4 DEF Closure
    <3> QED
      BY <1>0, <2>3, <2>7, <3>1 DEF TimesSound, Splits
  <2>10. ASSUME NEW r \in Ranges, mem'.blocks[r].st = "ok"
         PROVE  /\ mem'.blocks[r].at <= clock
                /\ r \in Tips => IsArmed(mem)' /\ mem'.blocks[r].at > mem'.armed_at
    <3>1. CASE r = Rng
      BY <1>1, <2>2, <2>4, <2>5, <3>1 DEF IsArmed, State
    <3>2. CASE r # Rng
      BY <1>0, <2>2, <2>6, <2>10, <3>2 DEF TimesSound, IsArmed
    <3> QED
      BY <3>1, <3>2
  <2> QED
    BY <1>0, <2>2, <2>8, <2>9, <2>10 DEF TimesSound
<1>8. CASE PlanProve
  <2>1. /\ Rng \in Ranges /\ mem'.blocks = mem.blocks
        /\ mem'.armed_at = IF Rng \in Tips /\ ~IsArmed(mem) THEN ArmAt ELSE mem.armed_at
    BY <1>8, Planned
  <2>2. clock' = clock /\ tip' = tip /\ loop.pc = "plan"
    BY <1>8 DEF PlanProve, RecordAttempt
  <2>3. CASE ~(Rng \in Tips /\ ~IsArmed(mem))
    BY <1>0, <2>1, <2>2, <2>3, TimesFrame
  <2>4. CASE Rng \in Tips /\ ~IsArmed(mem)
    <3>1. loop.work.appeared = tip.seen[Rng] /\ tip.seen[Rng] # None
      BY <1>0, <2>2, <2>4 DEF LoopTimes
    <3>2. tip.seen[Rng] \in 0..clock
      BY <1>0, <2>4, <3>1 DEF TimesSound
    <3>3. loop.work.appeared \in Nat
      BY <1>1, <3>1, <3>2
    <3>4. mem'.armed_at \in {tip.seen[Rng], loop.t} /\ mem'.armed_at = ArmAt
      BY <2>1, <2>4, <3>1, <3>3, PlannedTimes
    <3>5. loop.t \in 0..clock
      BY <1>0, <1>1 DEF LoopTimes, Local
    <3>6. mem'.armed_at \in 0..clock /\ mem'.armed_at \in Int
      BY <1>1, <3>2, <3>4, <3>5
    <3>7. \A r \in Ranges : mem.blocks[r].st = "ok" => mem.blocks[r].at <= loop.t
      BY <1>0, <2>2 DEF LoopTimes
    <3>8. Splits(mem.armed_at)'
      <4>1. CASE mem'.armed_at = tip.seen[Rng]
        BY <1>0, <2>1, <2>4, <3>1, <4>1 DEF TimesSound, Splits
      <4>2. CASE mem'.armed_at = loop.t
        <5>1. \A r \in Ranges : mem.blocks[r].at \in Int
          BY <1>1 DEF State
        <5>2. loop.t \in Int
          BY <1>1 DEF Local
        <5> QED
          BY <2>1, <3>7, <4>2, <5>1, <5>2 DEF Splits
      <4> QED
        BY <3>4, <4>1, <4>2
    <3>9. \A r \in Ranges : mem.blocks[r].st = "ok" => mem.blocks[r].at <= clock /\ r \notin Tips
      BY <1>0, <2>4 DEF TimesSound
    <3>10. \A h \in Tips : tip.seen[h] = None \/ (tip.seen[h] \in 0..clock /\ Splits(tip.seen[h])')
      BY <1>0, <2>1, <2>2 DEF TimesSound, Splits
    <3> QED
      BY <2>1, <2>2, <3>6, <3>8, <3>9, <3>10 DEF TimesSound
  <2> QED
    BY <2>3, <2>4
<1> QED
  BY <1>2, <1>3, <1>4, <1>5, <1>6, <1>7, <1>8, NextMoves

LEMMA LoopTimesKept == SessionTyped /\ WorkSound /\ HourSound /\ Next => LoopTimes'
<1> SUFFICES ASSUME SessionTyped, WorkSound, HourSound, Next PROVE LoopTimes'
  OBVIOUS
<1>0. TimesSound /\ LoopTimes
  BY DEF HourSound
<1>1. mem \in State /\ loop \in Local /\ clock \in Nat /\ tip \in Closure
  BY DEF SessionTyped
<1>2. \A r \in Ranges : mem.blocks[r].st = "ok" => mem.blocks[r].at <= clock
  BY <1>0 DEF TimesSound
<1>3. CASE LoopTop
  <2>1. loop'.pc = "work" /\ loop'.t = clock /\ clock' = clock
    BY <1>1, <1>3 DEF LoopTop, Local, AddSpend
  <2>2. mem'.blocks = mem.blocks /\ ~InFlight'
    BY <1>3, BetweenKeeps DEF Between
  <2> QED
    BY <1>1, <1>2, <2>1, <2>2 DEF LoopTimes
<1>4. CASE WorkTip \/ RecheckTip
  <2> DEFINE hs == BundlesAbove(tip.floor)
             c  == ChooseTip(hs).chosen
  <2>1. /\ hs \in SUBSET Tips /\ hs # {} /\ loop.pc \in {"work", "recheck"} /\ loop'.pc = "plan"
        /\ loop'.t = loop.t /\ loop'.work.rng = c /\ loop'.work.appeared = tip'.seen[c]
        /\ \A h \in Tips : tip'.seen[h] = IF h \in hs /\ tip.seen[h] = None THEN clock ELSE tip.seen[h]
    BY <1>4, TipTaken
  <2>2. c \in hs /\ c \in Tips
    BY <2>1, Chosen
  <2>3. tip'.seen[c] # None
    BY <1>1, <2>1, <2>2 DEF None
  <2>4. mem'.blocks = mem.blocks /\ ~InFlight' /\ clock' = clock
    BY <1>4, BetweenKeeps DEF Between
  <2> HIDE DEF c, hs
  <2> QED
    BY <1>0, <2>1, <2>3, <2>4 DEF LoopTimes, Rng
<1>5. CASE ClaimBoard
  <2>1. /\ loop.pc = "recheck" /\ loop'.pc \in {"plan", "dead"} /\ loop'.t = loop.t
        /\ (loop'.pc = "plan" => loop'.work.rng \notin Tips)
    BY <1>5, BoardTaken
  <2>2. mem'.blocks = mem.blocks /\ ~InFlight' /\ clock' = clock
    BY <1>5, BetweenKeeps DEF Between
  <2> QED
    BY <1>0, <2>1, <2>2 DEF LoopTimes, Rng
<1>6. CASE WorkNoTip
  <2>1. loop.pc = "work" /\ loop'.pc = "recheck" /\ loop'.t = loop.t /\ mem' = mem /\ clock' = clock
    BY <1>1, <1>6 DEF WorkNoTip, Local
  <2> QED
    BY <1>0, <2>1 DEF LoopTimes, InFlight
<1>7. CASE PlanStop \/ PlanIdleBoard \/ PlanIdleExhausted \/ Wake \/ Ending
  <2>1. loop'.pc \in {"ending", "sleep", "top", "done"} /\ loop'.t = loop.t
    <3>1. CASE PlanIdleExhausted
      BY <1>1, <3>1 DEF PlanIdleExhausted, Local
    <3>2. CASE PlanStop \/ PlanIdleBoard \/ Wake \/ Ending
      BY <1>1, <3>2 DEF PlanStop, PlanIdleBoard, Wake, Ending, Local
    <3> QED
      BY <1>7, <3>1, <3>2
  <2>2. clock' = clock
    BY <1>7 DEF PlanStop, PlanIdleBoard, PlanIdleExhausted, Wake, Ending
  <2> QED
    BY <1>0, <2>1, <2>2 DEF LoopTimes, InFlight
<1>8. CASE Around
  <2>1. /\ loop'.work = loop.work /\ loop'.t = loop.t /\ (InFlight' <=> InFlight)
        /\ (~InFlight => loop' = loop) /\ mem' = mem /\ tip' = tip
    BY <1>8, AroundKeeps
  <2>2. clock' \in {clock, clock + 1}
    BY <1>8 DEF Around, FetchBundle, FetchTipBundle, PushBundle, AheadRead, AheadWrite, Mine, Reorg, Tick
  <2>3. run'.since = run.since
    BY <1>8 DEF Around, FetchBundle, FetchTipBundle, PushBundle, AheadRead, AheadWrite, Mine, Reorg, Tick, SessionTyped
  <2>4. loop'.t <= clock'
    BY <1>0, <1>1, <2>1, <2>2 DEF LoopTimes, Local
  <2>5. CASE InFlight
    <3>1. run.since \in 0..clock'
      BY <1>0, <1>1, <2>2, <2>5 DEF LoopTimes
    <3>2. loop'.pc \notin {"work", "recheck", "plan"}
      BY <2>1, <2>5 DEF InFlight
    <3> QED
      BY <1>0, <2>1, <2>3, <2>4, <2>5, <3>1, <3>2 DEF LoopTimes, IsArmed, Rng
  <2>6. CASE ~InFlight
    BY <1>0, <2>1, <2>4, <2>6 DEF LoopTimes, Rng
  <2> QED
    BY <2>5, <2>6
<1>9. CASE ProveFails \/ StepAside \/ ProveOk
  <2>1. ~InFlight' /\ loop'.pc \in {"top", "ending"} /\ loop'.t = loop.t
    BY <1>9, Leaves
  <2>2. clock' = clock
    BY <1>9 DEF ProveFails, StepAside, ProveOk
  <2> QED
    BY <1>0, <2>1, <2>2 DEF LoopTimes
<1>10. CASE PlanProve
  <2>1. /\ Rng \in Ranges /\ mem'.armed_at = IF Rng \in Tips /\ ~IsArmed(mem) THEN ArmAt ELSE mem.armed_at
    BY <1>10, Planned
  <2>2. clock' = clock /\ tip' = tip /\ run' = [NoRun EXCEPT !.since = clock] /\ loop.pc = "plan"
        /\ loop' = [loop EXCEPT !.pc = "fetch"]
    BY <1>10 DEF PlanProve, RecordAttempt
  <2>3. run'.since = clock /\ loop'.pc = "fetch" /\ loop'.t = loop.t /\ Rng' = Rng
    BY <1>1, <2>2 DEF NoRun, Local, Rng
  <2>4. TimesSound'
    BY TimesKept
  <2>5. \A h \in Tips : tip.seen[h] <= clock
    <3>1. \A h \in Tips : tip.seen[h] = None \/ tip.seen[h] \in 0..clock
      BY <1>0 DEF TimesSound
    <3> QED
      BY <1>1, <3>1 DEF None
  <2>6. IsArmed(mem)' => mem'.armed_at <= clock
    BY <1>1, <2>2, <2>4 DEF TimesSound, IsArmed
  <2>7. Rng \in Tips => IsArmed(mem)'
    <3>1. SUFFICES ASSUME Rng \in Tips, ~IsArmed(mem) PROVE ArmAt # None
      BY <2>1 DEF IsArmed
    <3>2. loop.work.appeared = tip.seen[Rng] /\ tip.seen[Rng] # None
      BY <1>0, <2>2, <3>1 DEF LoopTimes
    <3>3. loop.work.appeared \in Nat
      BY <1>0, <1>1, <3>1, <3>2 DEF TimesSound
    <3>4. ArmAt \in {loop.work.appeared, loop.t} /\ loop.t \in Nat
      BY <1>1, <3>3, PlannedTimes DEF Local
    <3> QED
      BY <3>3, <3>4 DEF None
  <2>8. loop'.t <= clock /\ clock \in 0..clock
    BY <1>0, <1>1, <2>3 DEF LoopTimes
  <2> QED
    BY <2>2, <2>3, <2>5, <2>6, <2>7, <2>8 DEF LoopTimes
<1> QED
  BY <1>3, <1>4, <1>5, <1>6, <1>7, <1>8, <1>9, <1>10, NextMoves DEF Between

-----------------------------------------------------------------------------
(* The bridge, the gaps and the chain.                                     *)

LEMMA BridgeKept == SessionTyped /\ BridgeSound /\ Next => BridgeSound'
<1> SUFFICES ASSUME SessionTyped, BridgeSound, Next PROVE BridgeSound'
  OBVIOUS
<1>1. bridge \in [Tips -> Bundle] /\ BridgeTop \in Int /\ Tips \subseteq Int /\ FirstTip \in Int
  BY Heights, TopOfBridge DEF SessionTyped
<1>2. CASE Mine
  <2> DEFINE k   == BridgeTop + 1
             new == [h |-> k, br |-> ParentOf(BridgeTop + 1), parent |-> ParentOf(BridgeTop + 1)]
  <2>1. k \in Tips /\ bridge' = [bridge EXCEPT ![k] = new] /\ new.h = k
    BY <1>2 DEF Mine
  <2>2. k # None
    BY <2>1, Heights
  <2>3. new # NoBundle
    BY <2>1, <2>2, Heights
  <2> HIDE DEF new
  <2>4. bridge'[k] = new /\ \A h \in Tips : h # k => bridge'[h] = bridge[h]
    BY <1>1, <2>1
  <2>5. ASSUME NEW g \in Tips, g < k PROVE bridge[g] # NoBundle
    <3>1. CASE BridgeTop = FirstTip - 1
      <4>1. g < FirstTip /\ FirstTip <= g
        BY <1>1, <2>5, <3>1, Heights
      <4> QED
        BY <1>1, <4>1
    <3>2. CASE BridgeTop \in Tips /\ bridge[BridgeTop] # NoBundle
      <4>1. g = BridgeTop \/ g < BridgeTop
        BY <1>1, <2>5
      <4> QED
        BY <3>2, <4>1 DEF BridgeSound
    <3> QED
      BY <3>1, <3>2, TopOfBridge
  <2>6. k \in Int
    BY <1>1
  <2> HIDE DEF k
  <2>7. ASSUME NEW h \in Tips, bridge'[h] # NoBundle
        PROVE  bridge'[h].h = h /\ \A g \in Tips : g < h => bridge'[g] # NoBundle
    <3>1. CASE h = k
      <4>1. \A g \in Tips : g < k => g # k
        BY <1>1, <2>6
      <4> QED
        BY <2>1, <2>4, <2>5, <3>1, <4>1
    <3>2. CASE h # k
      <4>1. bridge[h].h = h /\ \A g \in Tips : g < h => bridge[g] # NoBundle
        BY <2>4, <2>7, <3>2 DEF BridgeSound
      <4> QED
        BY <2>3, <2>4, <3>2, <4>1
    <3> QED
      BY <3>1, <3>2
  <2> QED
    BY <2>7 DEF BridgeSound
<1>3. CASE Reorg
  <2>1. PICK b \in {c \in Branches : c > bridge[BridgeTop].br} : bridge' = [bridge EXCEPT ![BridgeTop].br = b]
    BY <1>3 DEF Reorg
  <2> DEFINE new == [bridge[BridgeTop] EXCEPT !.br = b]
  <2>2. BridgeTop \in Tips /\ bridge[BridgeTop] \in Bundle
    BY <1>1, <1>3 DEF Reorg
  <2>3. new.h = bridge[BridgeTop].h
    BY <2>2 DEF Bundle
  <2>4. bridge[BridgeTop] # NoBundle
    <3>1. BridgeTop # FirstTip - 1
      <4>1. FirstTip <= BridgeTop
        BY <2>2, Heights
      <4> QED
        BY <1>1, <4>1
    <3> QED
      BY <3>1, TopOfBridge
  <2>5. bridge[BridgeTop].h = BridgeTop /\ BridgeTop # None
    BY <2>2, <2>4, Heights DEF BridgeSound
  <2>6. new # NoBundle
    BY <2>3, <2>5, Heights
  <2>7. bridge'[BridgeTop] = new /\ \A h \in Tips : h # BridgeTop => bridge'[h] = bridge[h]
    BY <1>1, <2>1, <2>2
  <2> HIDE DEF new
  <2>8. \A h \in Tips : bridge'[h].h = bridge[h].h /\ (bridge'[h] # NoBundle <=> bridge[h] # NoBundle)
    BY <2>3, <2>4, <2>6, <2>7
  <2> QED
    BY <2>8 DEF BridgeSound
<1>4. CASE ~(Mine \/ Reorg)
  <2>1. bridge' = bridge
    <3>1. CASE Between
      BY <3>1, BetweenKeeps
    <3>2. CASE FetchBundle \/ FetchTipBundle \/ PushBundle \/ AheadRead \/ AheadWrite \/ Tick
      BY <3>2 DEF FetchBundle, FetchTipBundle, PushBundle, AheadRead, AheadWrite, Tick
    <3>3. CASE PlanProve \/ ProveFails \/ StepAside \/ ProveOk
      BY <3>3 DEF PlanProve, ProveFails, StepAside, ProveOk, RecordAttempt
    <3> QED
      BY <1>4, <3>1, <3>2, <3>3, NextMoves DEF Around
  <2> QED
    BY <2>1 DEF BridgeSound
<1> QED
  BY <1>2, <1>3, <1>4

(* What a look at the waiting bundles adds to the gaps. *)
LEMMA GapsPicked ==
  ASSUME SessionTyped, BridgeSound, GapsBelow, GapsAbove,
         NEW hs, hs = BundlesAbove(tip.floor), hs # {},
         NEW c, c = ChooseTip(hs).chosen,
         NEW gaps, gaps = tip.noted \cup ChooseTip(hs).skipped
  PROVE  /\ c \in Tips /\ c > tip.floor /\ bridge[c] # NoBundle
         /\ \A n \in gaps : n < c /\ proved[n] = NoBundle
         /\ \A n \in gaps : n > tip.floor => TooManyAbove /\ \E g \in hs : n < g
         /\ \A g \in Tips : tip.floor < g /\ g < c => g \in gaps
<1>1. tip \in Closure /\ tip.floor \in Int /\ tip.noted \subseteq Tips /\ Tips \subseteq Int
  BY Heights DEF SessionTyped, Closure
<1>2. hs \in SUBSET Tips /\ hs # {} /\ \A h \in Tips : h \in hs <=> h > tip.floor /\ bridge[h] # NoBundle
  BY DEF BundlesAbove, Listed
<1>3. c \in hs
  BY <1>2, Chosen
<1>4. c \in Tips /\ c > tip.floor /\ bridge[c] # NoBundle
  BY <1>2, <1>3
<1>5. \A n \in tip.noted : proved[n] = NoBundle
  BY <1>1 DEF GapsBelow, TipGapsAreNoted
<1>9. c \in Int /\ (\A n \in tip.noted : n \in Int) /\ (\A g \in hs : g \in Int)
  BY <1>1, <1>2, <1>4
<1>6. \A g \in Tips : tip.floor < g /\ g < c => g \in hs
  BY <1>1, <1>2, <1>4 DEF BridgeSound
<1>7. CASE TIP_MAX_BEHIND > 0 /\ Cardinality(hs) > TIP_MAX_BEHIND
  <2>1. gaps = tip.noted \cup (hs \ {c}) /\ \A g \in hs : g <= c
    BY <1>2, <1>7, Chosen
  <2>2. TooManyAbove
    BY <1>7 DEF TooManyAbove
  <2>3. \A n \in tip.noted : n < c
    <3> SUFFICES ASSUME NEW n \in tip.noted PROVE n < c
      OBVIOUS
    <3>1. CASE n > tip.floor
      <4>1. PICK g \in hs : n < g
        BY <3>1 DEF GapsAbove
      <4>2. n \in Int /\ g \in Int /\ g <= c
        BY <1>9, <2>1
      <4> QED
        BY <1>9, <4>1, <4>2
    <3>2. CASE ~(n > tip.floor)
      <4>1. n \in Int /\ tip.floor \in Int /\ tip.floor < c
        BY <1>1, <1>4, <1>9
      <4> QED
        BY <1>9, <3>2, <4>1
    <3> QED
      BY <3>1, <3>2
  <2>4. \A n \in hs \ {c} : n < c /\ proved[n] = NoBundle
    BY <1>1, <1>2, <1>4, <2>1 DEF GapsBelow
  <2>5. \A n \in tip.noted : n > tip.floor => \E g \in hs : n < g
    BY DEF GapsAbove
  <2>6. \A n \in hs \ {c} : \E g \in hs : n < g
    BY <1>3, <2>4
  <2>7. \A n \in gaps : n > tip.floor => TooManyAbove /\ \E g \in hs : n < g
    BY <2>1, <2>2, <2>5, <2>6
  <2>8. \A g \in Tips : tip.floor < g /\ g < c => g \in gaps
    <3>1. \A g \in Tips : g < c => g # c
      BY <1>9
    <3> QED
      BY <1>6, <2>1, <3>1
  <2> QED
    BY <1>4, <1>5, <2>1, <2>3, <2>4, <2>7, <2>8
<1>8. CASE ~(TIP_MAX_BEHIND > 0 /\ Cardinality(hs) > TIP_MAX_BEHIND)
  <2>1. gaps = tip.noted /\ \A g \in hs : c <= g
    BY <1>2, <1>8, Chosen
  <2>2. \A n \in tip.noted : ~(n > tip.floor)
    BY <1>8 DEF GapsAbove, TooManyAbove
  <2>3. \A n \in tip.noted : n < c
    <3>1. tip.floor \in Int /\ tip.floor < c
      BY <1>1, <1>4
    <3> QED
      BY <1>9, <2>2, <3>1
  <2>4. \A g \in Tips : ~(tip.floor < g /\ g < c)
    BY <1>1, <1>4, <1>6, <2>1
  <2> QED
    BY <1>4, <1>5, <2>1, <2>2, <2>3, <2>4
<1> QED
  BY <1>7, <1>8

(* A bundle that is there stays, or gives way to another of its height. *)
LEMMA BridgeGrows ==
  ASSUME SessionTyped, BridgeSound, Mine \/ Reorg
  PROVE  \A h \in Tips : bridge[h] # NoBundle => bridge'[h] # NoBundle
<1>1. bridge \in [Tips -> Bundle] /\ BridgeTop \in Int
  BY TopOfBridge DEF SessionTyped
<1>2. CASE Mine
  <2> DEFINE k   == BridgeTop + 1
             new == [h |-> k, br |-> ParentOf(BridgeTop + 1), parent |-> ParentOf(BridgeTop + 1)]
  <2>1. k \in Tips /\ bridge' = [bridge EXCEPT ![k] = new] /\ new.h = k
    BY <1>2 DEF Mine
  <2>2. new # NoBundle
    BY <2>1, Heights
  <2> HIDE DEF new, k
  <2> QED
    BY <1>1, <2>1, <2>2
<1>3. CASE Reorg
  <2>1. PICK b \in {c \in Branches : c > bridge[BridgeTop].br} : bridge' = [bridge EXCEPT ![BridgeTop].br = b]
    BY <1>3 DEF Reorg
  <2> DEFINE new == [bridge[BridgeTop] EXCEPT !.br = b]
  <2>2. BridgeTop \in Tips /\ bridge[BridgeTop] \in Bundle
    BY <1>1, <1>3 DEF Reorg
  <2>3. new.h = bridge[BridgeTop].h
    BY <2>2 DEF Bundle
  <2>4. bridge[BridgeTop] # NoBundle => new # NoBundle
    BY <2>2, <2>3, Heights DEF BridgeSound
  <2>5. bridge'[BridgeTop] = new /\ \A h \in Tips : h # BridgeTop => bridge'[h] = bridge[h]
    BY <1>1, <2>1, <2>2
  <2> HIDE DEF new
  <2> QED
    BY <2>4, <2>5
<1> QED
  BY <1>2, <1>3

LEMMA GapsMined ==
  ASSUME SessionTyped, BridgeSound, GapSound, Mine \/ Reorg
  PROVE  GapSound'
<1>1. \A h \in Tips : bridge[h] # NoBundle => bridge'[h] # NoBundle
  BY BridgeGrows
<1>2. UNCHANGED <<loop, tip, proved, local, run, ahead>>
  BY DEF Mine, Reorg
<1>3. BundlesAbove(tip.floor) \subseteq BundlesAbove(tip.floor)' /\ BundlesAbove(tip.floor)' \subseteq Tips
  BY <1>1, <1>2 DEF BundlesAbove, Listed
<1>4. TooManyAbove => TooManyAbove'
  <2>1. IsFiniteSet(Tips) /\ TIP_MAX_BEHIND \in Nat
    BY SessionAssumption
  <2>2. IsFiniteSet(BundlesAbove(tip.floor)')
    BY <1>3, <2>1, FS_Subset
  <2>3. /\ Cardinality(BundlesAbove(tip.floor)) <= Cardinality(BundlesAbove(tip.floor)')
        /\ IsFiniteSet(BundlesAbove(tip.floor))
    BY <1>3, <2>2, FS_Subset
  <2>4. Cardinality(BundlesAbove(tip.floor)) \in Nat /\ Cardinality(BundlesAbove(tip.floor)') \in Nat
    BY <2>2, <2>3, FS_CardinalityType
  <2>5. Cardinality(BundlesAbove(tip.floor)) > TIP_MAX_BEHIND => Cardinality(BundlesAbove(tip.floor)') > TIP_MAX_BEHIND
    BY <2>1, <2>3, <2>4
  <2> QED
    BY <1>2, <2>5 DEF TooManyAbove
<1>5. GapsAbove'
  BY <1>2, <1>3, <1>4 DEF GapSound, GapsAbove
<1>6. GapsBelow' /\ GapsOfWork' /\ FilesThere'
  BY <1>1, <1>2 DEF GapSound, GapsBelow, TipGapsAreNoted, GapsOfWork, FilesThere, Rng
<1> QED
  BY <1>5, <1>6 DEF GapSound

LEMMA GapKept ==
  SessionTyped /\ WorkSound /\ BridgeSound /\ GapSound /\ Next => GapSound'
<1> SUFFICES ASSUME SessionTyped, WorkSound, BridgeSound, GapSound, Next PROVE GapSound'
  OBVIOUS
<1>0. GapsBelow /\ GapsAbove /\ GapsOfWork /\ FilesThere
  BY DEF GapSound
<1>1. /\ loop \in Local /\ tip \in Closure /\ Tips \subseteq Int /\ local \in [Tips -> Bundle]
      /\ proved \in [Tips -> Bundle] /\ tip.floor \in Int /\ tip.noted \subseteq Tips
  BY Heights DEF SessionTyped, Closure
<1>2. CASE Mine \/ Reorg
  BY <1>2, GapsMined
<1>3. CASE WorkTip \/ RecheckTip
  <2> DEFINE hs == BundlesAbove(tip.floor)
             c  == ChooseTip(hs).chosen
             gaps == tip.noted \cup ChooseTip(hs).skipped
  <2>1. /\ hs # {} /\ loop'.pc = "plan" /\ loop'.work.rng = c /\ tip'.floor = tip.floor
        /\ tip'.noted = gaps
    BY <1>3, TipTaken
  <2>2. UNCHANGED <<bridge, local, run, ahead, proved>>
    BY <1>3 DEF WorkTip, RecheckTip
  <2>3. /\ c \in Tips /\ c > tip.floor /\ bridge[c] # NoBundle
        /\ \A n \in gaps : n < c /\ proved[n] = NoBundle
        /\ \A n \in gaps : n > tip.floor => TooManyAbove /\ \E g \in hs : n < g
        /\ \A g \in Tips : tip.floor < g /\ g < c => g \in gaps
    BY <1>0, <2>1, GapsPicked
  <2>4. hs' = hs /\ TooManyAbove' = TooManyAbove
    BY <2>1, <2>2 DEF BundlesAbove, TooManyAbove, Listed
  <2>5. tip.noted \subseteq gaps
    OBVIOUS
  <2> HIDE DEF c, gaps
  <2>6. GapsOfWork'
    BY <2>1, <2>2, <2>3 DEF GapsOfWork, Rng
  <2>7. GapsAbove'
    BY <2>1, <2>3, <2>4 DEF GapsAbove
  <2>8. GapsBelow'
    BY <1>0, <2>1, <2>2, <2>3, <2>5 DEF GapsBelow, TipGapsAreNoted
  <2>9. FilesThere'
    BY <1>0, <2>1, <2>2 DEF FilesThere
  <2> QED
    BY <2>6, <2>7, <2>8, <2>9 DEF GapSound
<1>4. CASE Between /\ ~(WorkTip \/ RecheckTip)
  <2>1. UNCHANGED <<bridge, local, run, ahead, proved>>
    BY <1>4, BetweenKeeps
  <2>2. tip' = tip
    BY <1>4 DEF Between, LoopTop, WorkNoTip, ClaimBoard, PlanStop, PlanIdleBoard, PlanIdleExhausted, Wake, Ending, AddSpend
  <2>3. ~(loop'.pc \in {"plan", "fetch", "push", "run"} /\ Rng' \in Tips)
    <3>1. CASE ClaimBoard
      BY <3>1, BoardTaken DEF Rng
    <3>2. CASE LoopTop \/ WorkNoTip \/ PlanStop \/ PlanIdleBoard \/ Wake \/ Ending
      BY <1>1, <3>2 DEF LoopTop, WorkNoTip, PlanStop, PlanIdleBoard, Wake, Ending, Local, AddSpend
    <3>3. CASE PlanIdleExhausted
      BY <1>1, <3>3 DEF PlanIdleExhausted, Local
    <3> QED
      BY <1>4, <3>1, <3>2, <3>3 DEF Between
  <2>4. BundlesAbove(tip.floor)' = BundlesAbove(tip.floor)
    BY <2>1, <2>2 DEF BundlesAbove, Listed
  <2> QED
    BY <1>0, <2>1, <2>2, <2>3, <2>4 DEF GapSound, GapsBelow, TipGapsAreNoted, GapsAbove, TooManyAbove, GapsOfWork, FilesThere
<1>5. CASE PlanProve \/ FetchBundle \/ FetchTipBundle \/ PushBundle
  <2>1. UNCHANGED <<bridge, tip, proved>>
    BY <1>5 DEF PlanProve, FetchBundle, FetchTipBundle, PushBundle, RecordAttempt
  <2>2. Rng' = Rng /\ loop.pc \in {"plan", "fetch", "push"} /\ loop'.pc \in {"fetch", "push", "run"}
    BY <1>1, <1>5 DEF PlanProve, FetchBundle, FetchTipBundle, PushBundle, Local, Rng, RecordAttempt
  <2>3. BundlesAbove(tip.floor)' = BundlesAbove(tip.floor)
    BY <2>1 DEF BundlesAbove, Listed
  <2>4. GapsBelow' /\ GapsAbove' /\ GapsOfWork'
    BY <1>0, <2>1, <2>2, <2>3 DEF GapsBelow, TipGapsAreNoted, GapsAbove, TooManyAbove, GapsOfWork
  <2>5. FilesThere'
    <3>1. CASE PlanProve
      BY <1>0, <1>1, <3>1 DEF PlanProve, FilesThere, Local, RecordAttempt
    <3>2. CASE FetchBundle
      BY <1>0, <1>1, <2>2, <3>2 DEF FetchBundle, FilesThere, FromTip, Local
    <3>3. CASE FetchTipBundle
      <4>1. Rng \in Tips /\ loop'.pc = "push"
        BY <1>1, <3>3 DEF FetchTipBundle, FromTip, Local
      <4>2. local'[Rng] # NoBundle
        BY <1>1, <3>3, <4>1 DEF FetchTipBundle, Fetchable
      <4>3. ahead'.pc = "write" => ahead' = ahead
        BY <3>3 DEF FetchTipBundle, NotAhead
      <4> QED
        BY <1>0, <2>2, <4>1, <4>2, <4>3 DEF FilesThere
    <3>4. CASE PushBundle
      <4>1. loop.pc = "push" /\ loop'.pc = "run" /\ ahead' = ahead /\ local' = local
        BY <1>1, <3>4 DEF PushBundle, Local
      <4>2. Rng \in Tips => run'.bundle = local[Rng]
        BY <3>4 DEF PushBundle, FromTip, SessionTyped
      <4> QED
        BY <1>0, <2>2, <4>1, <4>2 DEF FilesThere
    <3> QED
      BY <1>5, <3>1, <3>2, <3>3, <3>4
  <2> QED
    BY <2>4, <2>5 DEF GapSound
<1>6. CASE AheadRead \/ AheadWrite \/ Tick
  <2>1. UNCHANGED <<bridge, tip, proved, loop, run>>
    BY <1>6 DEF AheadRead, AheadWrite, Tick
  <2>2. BundlesAbove(tip.floor)' = BundlesAbove(tip.floor)
    BY <2>1 DEF BundlesAbove, Listed
  <2>3. GapsBelow' /\ GapsAbove' /\ GapsOfWork'
    BY <1>0, <2>1, <2>2 DEF GapsBelow, TipGapsAreNoted, GapsAbove, TooManyAbove, GapsOfWork, Rng
  <2>4. ahead'.pc = "write" => ahead'.bundle # NoBundle
    <3>1. CASE AheadRead
      <4> DEFINE hs == BundlesAbove(ahead.above)
                 c  == ChooseTip(hs).chosen
                 b  == bridge[c]
      <4>1. CASE hs = {}
        BY <3>1, <4>1 DEF AheadRead, NotAhead
      <4>2. CASE hs # {}
        <5>1. c \in hs
          BY <4>2, BundlesAboveAreTips, Chosen
        <5>2. b # NoBundle
          BY <5>1 DEF BundlesAbove, Listed
        <5>3. ahead' = [ahead EXCEPT !.pc = "write", !.h = c, !.bundle = b]
          BY <3>1, <4>2 DEF AheadRead
        <5> HIDE DEF c, b
        <5> QED
          BY <5>2, <5>3 DEF SessionTyped
      <4> QED
        BY <4>1, <4>2
    <3>2. CASE AheadWrite
      BY <3>2 DEF AheadWrite, NotAhead
    <3>3. CASE Tick
      BY <1>0, <3>3 DEF Tick, FilesThere
    <3> QED
      BY <1>6, <3>1, <3>2, <3>3
  <2>5. \A h \in Tips : local[h] # NoBundle => local'[h] # NoBundle
    <3>1. CASE AheadWrite
      <4>1. ahead.bundle # NoBundle /\ local' = [local EXCEPT ![ahead.h] = ahead.bundle]
        BY <1>0, <3>1 DEF AheadWrite, FilesThere
      <4> QED
        BY <1>1, <4>1
    <3>2. CASE AheadRead \/ Tick
      BY <3>2 DEF AheadRead, Tick
    <3> QED
      BY <1>6, <3>1, <3>2
  <2>6. FilesThere'
    BY <1>0, <2>1, <2>4, <2>5 DEF FilesThere, Rng
  <2> QED
    BY <2>3, <2>6 DEF GapSound
<1>7. CASE ProveFails \/ StepAside
  <2>1. loop'.pc \in {"top", "ending"}
    BY <1>7, Leaves
  <2>2. UNCHANGED <<bridge, proved, ahead>>
    BY <1>7 DEF ProveFails, StepAside
  <2>3. GapsOfWork' /\ FilesThere'
    BY <1>0, <2>1, <2>2 DEF GapsOfWork, FilesThere
  <2>4. CASE ProveFails
    <3>1. tip' = tip
      BY <2>4 DEF ProveFails
    <3>2. BundlesAbove(tip.floor)' = BundlesAbove(tip.floor)
      BY <2>2, <3>1 DEF BundlesAbove, Listed
    <3> QED
      BY <1>0, <2>2, <2>3, <3>1, <3>2 DEF GapSound, GapsBelow, TipGapsAreNoted, GapsAbove, TooManyAbove
  <2>5. CASE StepAside
    <3> DEFINE hs == BundlesAbove(tip.floor)
               c  == ChooseTip(hs).chosen
               gaps == tip.noted \cup ChooseTip(hs).skipped
    <3>1. hs \in SUBSET Tips /\ hs # {} /\ tip' = PickTip(hs)
      BY <2>5, BundlesAboveAreTips DEF StepAside, TipWaiting
    <3>2. tip'.floor = tip.floor /\ tip'.noted = gaps
      BY <3>1, Picked
    <3>0. hs # {} /\ hs = BundlesAbove(tip.floor) /\ c = ChooseTip(hs).chosen
          /\ gaps = tip.noted \cup ChooseTip(hs).skipped
      BY <3>1
    <3> HIDE DEF hs, c, gaps
    <3>3. /\ c \in Tips /\ c > tip.floor /\ bridge[c] # NoBundle
          /\ \A n \in gaps : n < c /\ proved[n] = NoBundle
          /\ \A n \in gaps : n > tip.floor => TooManyAbove /\ \E g \in hs : n < g
          /\ \A g \in Tips : tip.floor < g /\ g < c => g \in gaps
      BY <1>0, <3>0, GapsPicked
    <3> USE DEF hs, c, gaps
    <3>4. hs' = hs /\ TooManyAbove' = TooManyAbove
      BY <2>2, <3>2 DEF BundlesAbove, TooManyAbove, Listed
    <3>5. tip.noted \subseteq gaps
      OBVIOUS
    <3> HIDE DEF c, gaps
    <3>6. GapsAbove'
      BY <3>2, <3>3, <3>4 DEF GapsAbove
    <3>7. GapsBelow'
      BY <1>0, <2>2, <3>2, <3>3, <3>5 DEF GapsBelow, TipGapsAreNoted
    <3> QED
      BY <2>3, <3>6, <3>7 DEF GapSound
  <2> QED
    BY <1>7, <2>4, <2>5
<1>8. CASE ProveOk
  <2>1. loop'.pc \in {"top", "ending"} /\ loop.pc = "run"
    BY <1>8, Leaves DEF ProveOk
  <2>2. UNCHANGED <<bridge, ahead>>
    BY <1>8 DEF ProveOk
  <2>3. GapsOfWork' /\ FilesThere'
    BY <1>0, <2>1, <2>2 DEF GapsOfWork, FilesThere
  <2>4. CASE ~FromTip
    <3>1. tip' = tip /\ proved' = proved
      BY <1>8, <2>4 DEF ProveOk
    <3>2. BundlesAbove(tip.floor)' = BundlesAbove(tip.floor)
      BY <2>2, <3>1 DEF BundlesAbove, Listed
    <3> QED
      BY <1>0, <2>3, <3>1, <3>2 DEF GapSound, GapsBelow, TipGapsAreNoted, GapsAbove, TooManyAbove
  <2>5. CASE FromTip
    <3>1. tip' = [tip EXCEPT !.floor = Rng, !.header = run.header] /\ proved' = [proved EXCEPT ![Rng] = run.bundle]
      BY <1>8, <2>5 DEF ProveOk
    <3>2. /\ Rng \in Tips /\ Rng > tip.floor
          /\ \A n \in tip.noted : n < Rng
          /\ \A g \in Tips : tip.floor < g /\ g < Rng => g \in tip.noted
      BY <1>0, <2>1, <2>5 DEF GapsOfWork, FromTip
    <3>3. tip'.floor = Rng /\ tip'.noted = tip.noted
      BY <1>1, <3>1 DEF Closure
    <3>4. run.bundle # NoBundle
      BY <1>0, <2>1, <3>2 DEF FilesThere
    <3>5. proved'[Rng] # NoBundle /\ \A h \in Tips : h # Rng => proved'[h] = proved[h]
      BY <1>1, <3>1, <3>2, <3>4
    <3>6. Rng \in Int /\ \A n \in tip.noted : n \in Int /\ n \in Tips /\ n # Rng /\ ~(n > Rng)
      <4>1. Rng \in Int
        BY <1>1, <3>2
      <4>2. ASSUME NEW n \in tip.noted PROVE n \in Int /\ n \in Tips /\ n # Rng /\ ~(n > Rng)
        <5>1. n \in Tips /\ n \in Int /\ n < Rng
          BY <1>1, <3>2
        <5> QED
          BY <4>1, <5>1
      <4> QED
        BY <4>1, <4>2
    <3>7. GapsAbove'
      BY <3>3, <3>6 DEF GapsAbove
    <3>8. ASSUME NEW h \in Tips
          PROVE  /\ proved'[h] # NoBundle => h <= Rng
                 /\ h <= Rng /\ proved'[h] = NoBundle => h \in tip.noted
                 /\ h \in tip.noted => proved'[h] = NoBundle
      <4>1. h \in Int /\ tip.floor \in Int /\ Rng \in Int /\ tip.floor < Rng
        BY <1>1, <3>2
      <4>2. CASE h = Rng
        BY <3>5, <3>6, <4>1, <4>2
      <4>3. CASE h # Rng
        <5>1. proved'[h] = proved[h]
          BY <3>5, <4>3
        <5>2. proved[h] # NoBundle => h <= tip.floor
          BY <1>0 DEF GapsBelow
        <5>3. h <= tip.floor /\ proved[h] = NoBundle => h \in tip.noted
          BY <1>0 DEF GapsBelow, TipGapsAreNoted
        <5>4. h \in tip.noted => proved[h] = NoBundle
          BY <1>0 DEF GapsBelow, TipGapsAreNoted
        <5>5. h <= Rng /\ ~(h <= tip.floor) => h \in tip.noted
          BY <3>2, <4>1, <4>3
        <5>6. h <= tip.floor => h <= Rng
          BY <4>1
        <5> QED
          BY <5>1, <5>2, <5>3, <5>4, <5>5, <5>6
      <4> QED
        BY <4>2, <4>3
    <3>9. GapsBelow'
      BY <3>3, <3>8 DEF GapsBelow, TipGapsAreNoted
    <3> QED
      BY <2>3, <3>7, <3>9 DEF GapSound
  <2> QED
    BY <2>4, <2>5
<1> QED
  BY <1>2, <1>3, <1>4, <1>5, <1>6, <1>7, <1>8, NextMoves DEF Around

(* Nothing of the chain moves in this step, and no file does. *)
LEMMA LinkFrame ==
  ASSUME LinkSound, UNCHANGED <<opt, proved, local, run, ahead>>,
         tip'.floor = tip.floor, tip'.header = tip.header, tip.jumped \subseteq tip'.jumped,
         ~(loop'.pc \in {"push", "run"} /\ Rng' \in Tips)
  PROVE  LinkSound'
  BY DEF LinkSound, TipChainLinked

LEMMA LinkKept ==
  SessionTyped /\ WorkSound /\ BridgeSound /\ GapSound /\ LinkSound /\ Next => LinkSound'
<1> SUFFICES ASSUME SessionTyped, WorkSound, BridgeSound, GapSound, LinkSound, Next PROVE LinkSound'
  OBVIOUS
<1>0. GapsBelow /\ GapsOfWork /\ FilesThere
  BY DEF GapSound
<1>1. /\ loop \in Local /\ tip \in Closure /\ Tips \subseteq Int /\ local \in [Tips -> Bundle]
      /\ proved \in [Tips -> Bundle] /\ tip.floor \in Int
  BY Heights DEF SessionTyped, Closure
<1>2. CASE WorkTip \/ RecheckTip
  <2>1. /\ tip'.floor = tip.floor /\ tip'.header = tip.header /\ tip.jumped \subseteq tip'.jumped
        /\ loop'.pc = "plan"
    BY <1>2, TipTaken
  <2>2. UNCHANGED <<opt, proved, local, run, ahead>>
    BY <1>2 DEF WorkTip, RecheckTip
  <2> QED
    BY <2>1, <2>2, LinkFrame
<1>3. CASE Between /\ ~(WorkTip \/ RecheckTip)
  <2>1. UNCHANGED <<opt, proved, local, run, ahead>> /\ ~InFlight'
    BY <1>3, BetweenKeeps
  <2>2. tip' = tip
    BY <1>3 DEF Between, LoopTop, WorkNoTip, ClaimBoard, PlanStop, PlanIdleBoard, PlanIdleExhausted, Wake, Ending, AddSpend
  <2>3. loop'.pc \notin {"push", "run"}
    BY <2>1 DEF InFlight
  <2> QED
    BY <2>1, <2>2, <2>3, LinkFrame
<1>4. CASE PlanProve
  <2>1. UNCHANGED <<opt, proved, local, ahead, tip>> /\ loop'.pc = "fetch"
    BY <1>1, <1>4 DEF PlanProve, Local, RecordAttempt
  <2> QED
    BY <2>1 DEF LinkSound, TipChainLinked
<1>5. CASE FetchBundle
  <2>1. Rng' \notin Tips /\ UNCHANGED <<opt, proved, local, run, ahead, tip>>
    BY <1>1, <1>5 DEF FetchBundle, FromTip, Local, Rng
  <2> QED
    BY <2>1, LinkFrame
<1>6. CASE FetchTipBundle
  <2>1. /\ Rng \in Tips /\ loop'.pc = "push" /\ Rng' = Rng /\ UNCHANGED <<opt, proved, tip, bridge>>
        /\ ChainVerdict(local'[Rng], PrevHeader)
    BY <1>1, <1>6 DEF FetchTipBundle, FromTip, Local, Rng
  <2>2. run'.header = local'[Rng]
    BY <1>6 DEF FetchTipBundle, SessionTyped
  <2>3. PrevHeader' = PrevHeader
    BY <2>1 DEF PrevHeader
  <2>4. ASSUME ~opt.stage_ahead, NEW h \in Tips, local'[h] # NoBundle PROVE local'[h].h = h
    <3>1. CASE local' = local
      BY <2>4, <3>1 DEF LinkSound
    <3>2. CASE local' = [local EXCEPT ![Rng] = bridge[Rng]]
      <4>1. CASE h = Rng
        BY <1>1, <2>1, <2>4, <3>2, <4>1 DEF BridgeSound
      <4>2. CASE h # Rng
        BY <1>1, <2>4, <3>2, <4>2 DEF LinkSound
      <4> QED
        BY <4>1, <4>2
    <3> QED
      BY <1>6, <3>1, <3>2 DEF FetchTipBundle
  <2>5. ~opt.stage_ahead => ahead'.pc = "off"
    BY <1>6 DEF FetchTipBundle, LinkSound
  <2>6. ChainVerdict(local[Rng], PrevHeader)'
    BY <2>1, <2>3 DEF ChainVerdict, BundleParent, BlockHash
  <2>7. ChainVerdict(run.header, PrevHeader)'
    BY <2>1, <2>2, <2>6 DEF ChainVerdict, BundleParent, BlockHash
  <2> QED
    BY <2>1, <2>2, <2>4, <2>5, <2>7 DEF LinkSound, TipChainLinked
<1>7. CASE PushBundle
  <2>1. /\ loop.pc = "push" /\ loop'.pc = "run" /\ Rng' = Rng
        /\ UNCHANGED <<opt, proved, tip, local, ahead>>
    BY <1>1, <1>7 DEF PushBundle, Local, Rng
  <2>2. run'.header = run.header /\ (Rng \in Tips => run'.bundle = local[Rng])
    BY <1>7 DEF PushBundle, FromTip, SessionTyped
  <2>3. ChainVerdict(run.header, PrevHeader) => ChainVerdict(run.header, PrevHeader)'
    BY <2>1, <2>2 DEF ChainVerdict, PrevHeader, BundleParent, BlockHash
  <2> QED
    BY <2>1, <2>2, <2>3 DEF LinkSound, TipChainLinked
<1>8. CASE AheadRead \/ AheadWrite \/ Mine \/ Reorg \/ Tick
  <2>1. UNCHANGED <<opt, proved, tip, loop, run>>
    BY <1>8 DEF AheadRead, AheadWrite, Mine, Reorg, Tick
  <2>2. ~opt.stage_ahead => UNCHANGED <<local, ahead>>
    BY <1>8 DEF AheadRead, AheadWrite, Mine, Reorg, Tick, LinkSound
  <2>3. ChainVerdict(run.header, PrevHeader)' = ChainVerdict(run.header, PrevHeader)
    BY <2>1 DEF ChainVerdict, PrevHeader, Rng, BundleParent, BlockHash
  <2> QED
    BY <2>1, <2>2, <2>3 DEF LinkSound, TipChainLinked, Rng
<1>9. CASE ProveFails \/ StepAside
  <2>1. loop'.pc \in {"top", "ending"}
    BY <1>9, Leaves
  <2>2. UNCHANGED <<opt, proved, ahead>>
    BY <1>9 DEF ProveFails, StepAside
  <2>3. tip'.floor = tip.floor /\ tip'.header = tip.header /\ tip.jumped \subseteq tip'.jumped
    <3>1. CASE ProveFails
      BY <3>1 DEF ProveFails
    <3>2. CASE StepAside
      <4>1. /\ BundlesAbove(tip.floor) \in SUBSET Tips /\ BundlesAbove(tip.floor) # {}
            /\ tip' = PickTip(BundlesAbove(tip.floor))
        BY <3>2, BundlesAboveAreTips DEF StepAside, TipWaiting
      <4> QED
        BY <4>1, Picked
    <3> QED
      BY <1>9, <3>1, <3>2
  <2>4. ASSUME ~opt.stage_ahead, NEW h \in Tips, local'[h] # NoBundle PROVE local'[h].h = h
    <3>1. CASE local' = local
      BY <2>4, <3>1 DEF LinkSound
    <3>2. CASE local' = [local EXCEPT ![Rng] = bridge[Rng]]
      <4>1. CASE h = Rng
        BY <1>1, <2>4, <3>2, <4>1 DEF BridgeSound
      <4>2. CASE h # Rng
        BY <1>1, <2>4, <3>2, <4>2 DEF LinkSound
      <4> QED
        BY <4>1, <4>2
    <3> QED
      BY <1>9, <3>1, <3>2 DEF ProveFails, StepAside
  <2> QED
    BY <2>1, <2>2, <2>3, <2>4 DEF LinkSound, TipChainLinked
<1>10. CASE ProveOk
  <2>1. loop'.pc \in {"top", "ending"} /\ loop.pc = "run"
    BY <1>10, Leaves DEF ProveOk
  <2>2. UNCHANGED <<opt, local, ahead>>
    BY <1>10 DEF ProveOk
  <2>3. CASE ~FromTip
    <3>1. tip' = tip /\ proved' = proved
      BY <1>10, <2>3 DEF ProveOk
    <3> QED
      BY <2>1, <2>2, <3>1 DEF LinkSound, TipChainLinked
  <2>4. CASE FromTip
    <3>1. tip' = [tip EXCEPT !.floor = Rng, !.header = run.header] /\ proved' = [proved EXCEPT ![Rng] = run.bundle]
      BY <1>10, <2>4 DEF ProveOk
    <3>2. Rng \in Tips /\ Rng \in Int /\ tip.floor < Rng
      BY <1>0, <1>1, <2>1, <2>4 DEF GapsOfWork, FromTip
    <3>3. tip'.floor = Rng /\ tip'.header = run.header /\ tip'.jumped = tip.jumped
      BY <1>1, <3>1 DEF Closure
    <3>4. proved'[Rng] = run.bundle /\ \A h \in Tips : h # Rng => proved'[h] = proved[h]
      BY <1>1, <3>1, <3>2
    <3>5. run.bundle # NoBundle
      BY <1>0, <2>1, <3>2 DEF FilesThere
    <3>6. \A h \in Tips : proved[h] # NoBundle => h < Rng
      <4>1. \A h \in Tips : h \in Int /\ (proved[h] # NoBundle => h <= tip.floor)
        BY <1>0, <1>1 DEF GapsBelow
      <4> QED
        BY <1>1, <3>2, <4>1
    <3>7. SUFFICES ASSUME ~opt.stage_ahead PROVE LinkSound'
      BY <2>2 DEF LinkSound, TipChainLinked
    <3>8. /\ run.header = local[Rng] /\ run.bundle = run.header /\ ChainVerdict(run.header, PrevHeader)
          /\ \A h \in Tips : local[h] # NoBundle => local[h].h = h
          /\ ahead.pc = "off"
      BY <2>1, <3>2, <3>7 DEF LinkSound
    <3>9. run.header.h = Rng
      BY <3>2, <3>5, <3>8
    <3>10. ASSUME NEW h \in Tips, proved'[h] # NoBundle, h \notin tip.jumped,
                  NEW g \in Tips, g < h, proved'[g] # NoBundle
           PROVE  h - 1 \in Tips /\ proved'[h - 1] # NoBundle /\ proved'[h].parent = proved'[h - 1].br
      <4>0. h \in Int /\ g \in Int
        BY <1>1
      <4>1. CASE h = Rng
        <5>1. proved[g] # NoBundle
          BY <3>4, <3>10, <4>0, <4>1
        <5>2. /\ tip.floor \in Tips /\ tip.header = proved[tip.floor]
              /\ tip.header # NoBundle /\ tip.header.h = tip.floor
          BY <3>7, <5>1 DEF LinkSound
        <5>3. PrevHeader = tip.header
          BY <3>10, <4>1 DEF PrevHeader
        <5>4. run.header.h = tip.floor + 1 /\ run.header.parent = tip.header.br
          <6>1. BundleParent(run.header) = BlockHash(tip.header)
            BY <3>8, <5>2, <5>3 DEF ChainVerdict
          <6>2. run.header.h - 1 = tip.floor /\ run.header.parent = tip.header.br
            BY <5>2, <6>1 DEF BundleParent, BlockHash
          <6> QED
            BY <1>1, <3>2, <3>9, <6>2
        <5>5. h - 1 = tip.floor
          BY <1>1, <3>2, <3>9, <4>1, <5>4
        <5>6. proved'[tip.floor] = proved[tip.floor]
          BY <1>1, <3>2, <3>4, <5>2
        <5> QED
          BY <3>4, <3>8, <4>1, <5>2, <5>4, <5>5, <5>6
      <4>2. CASE h # Rng
        <5>1. proved'[h] = proved[h] /\ h < Rng
          BY <3>4, <3>6, <3>10, <4>2
        <5>2. g # Rng
          BY <3>2, <3>10, <4>0, <5>1
        <5>3. proved[g] # NoBundle
          BY <3>4, <3>10, <5>2
        <5>4. h - 1 \in Tips /\ proved[h - 1] # NoBundle /\ proved[h].parent = proved[h - 1].br
          BY <3>7, <3>10, <5>1, <5>3 DEF LinkSound, TipChainLinked
        <5>5. h - 1 # Rng
          BY <3>2, <4>0, <5>1
        <5> QED
          BY <3>4, <5>1, <5>4, <5>5
      <4> QED
        BY <4>1, <4>2
    <3>11. TipChainLinked'
      BY <2>2, <3>3, <3>10 DEF TipChainLinked
    <3> QED
      BY <2>1, <2>2, <3>2, <3>3, <3>4, <3>5, <3>8, <3>9, <3>11 DEF LinkSound
  <2> QED
    BY <2>3, <2>4
<1> QED
  BY <1>2, <1>3, <1>4, <1>5, <1>6, <1>7, <1>8, <1>9, <1>10, NextMoves DEF Around

-----------------------------------------------------------------------------
(* The theorems.                                                           *)

LEMMA SessionStarts == Init => SessionInv
<1> SUFFICES ASSUME Init PROVE SessionInv
  OBVIOUS
<1>1. NoBundle \in Bundle /\ FirstTip \in Nat /\ Ranges \subseteq Nat
  BY Heights
<1>2. NoWork \in [source : {"idle", "tip", "board"}, rng : Ranges \cup {None}, appeared : Int]
  BY DEF NoWork, None
<1>3. loop \in Local /\ loop.pc = "top" /\ loop.t = 0
  BY <1>2 DEF Init, Local
<1>4. tip \in Closure /\ tip.floor = FirstTip - 1 /\ tip.header = NoBundle /\ tip.noted = {}
      /\ \A h \in Tips : tip.seen[h] = None
  <2>1. Listed = {}
    BY DEF Init, Listed
  <2>2. BridgeTop = Max({FirstTip - 1, FirstTip - 1})
    <3>1. {FirstTip - 1} \cup Listed = {FirstTip - 1, FirstTip - 1}
      BY <2>1
    <3> QED
      BY <3>1, Zenon DEF BridgeTop
  <2>3. BridgeTop = FirstTip - 1
    <3>1. FirstTip - 1 \in Int
      BY <1>1
    <3>2. Max({FirstTip - 1, FirstTip - 1}) \in {FirstTip - 1, FirstTip - 1}
      BY <3>1, PairIn, Zenon
    <3> QED
      BY <2>2, <3>2
  <2> QED
    BY <1>1, <2>3 DEF Init, Closure, None
<1>5. \A armed \in BOOLEAN :
        /\ NewState(armed) \in State
        /\ NewState(armed).armed_at \in {0, None}
        /\ \A r \in Ranges : NewState(armed).blocks[r].st = "none" /\ NewState(armed).attempts[r] = 0
  BY DEF NewState, State, NoBlock, None
<1>6. /\ mem \in State /\ mem.armed_at \in {0, None}
      /\ \A r \in Ranges : mem.blocks[r].st = "none" /\ mem.attempts[r] = 0
  BY <1>5 DEF Init
<1>7. SessionTyped
  <2>1. run \in [bundle : Bundle, header : Bundle, since : Int]
    BY <1>1 DEF Init, NoRun
  <2>2. ahead \in [pc : {"off", "read", "write"}, above : Int, h : Int, bundle : Bundle]
    BY <1>1 DEF Init, NotAhead
  <2>3. clock \in Nat /\ opt \in Options /\ bridge \in [Tips -> Bundle] /\ local \in [Tips -> Bundle]
        /\ proved \in [Tips -> Bundle] /\ failures \in [Ranges -> Nat]
    BY <1>1 DEF Init
  <2> QED
    BY <1>3, <1>4, <1>6, <2>1, <2>2, <2>3 DEF SessionTyped
<1>8. ~InFlight /\ WorkSound
  BY <1>3 DEF InFlight, WorkSound
<1>9. CountSound
  BY <1>6, <1>8 DEF CountSound, Init
<1>10. HourSound
  BY <1>3, <1>4, <1>6, <1>8 DEF HourSound, TimesSound, LoopTimes, Splits, Init
<1>11. /\ BridgeSound /\ ahead.pc = "off"
       /\ \A h \in Tips : proved[h] = NoBundle /\ local[h] = NoBundle /\ h > tip.floor
  <2>1. \A h \in Tips : h \in Int /\ FirstTip <= h
    BY Heights
  <2> QED
    BY <1>1, <1>4, <2>1 DEF Init, BridgeSound, NotAhead
<1>12. GapSound
  <2>1. TipGapsAreNoted
    <3>1. \A h \in Tips : h \in Int /\ FirstTip <= h
      BY Heights
    <3> QED
      BY <1>1, <1>4, <1>11, <3>1 DEF TipGapsAreNoted
  <2> QED
    BY <1>3, <1>4, <1>11, <2>1 DEF GapSound, GapsBelow, GapsAbove, GapsOfWork, FilesThere
<1>13. LinkSound
  BY <1>3, <1>4, <1>11 DEF LinkSound, TipChainLinked
<1> QED
  BY <1>7, <1>8, <1>9, <1>10, <1>11, <1>12, <1>13 DEF SessionInv

(* A step of the session keeps every part of the invariant. *)
LEMMA SessionStep == SessionInv /\ [Next]_vars => SessionInv'
<1>1. ASSUME SessionInv, Next PROVE SessionInv'
  <2>1. SessionTyped' /\ WorkSound'
    BY <1>1, TypesKept DEF SessionInv
  <2>2. CountSound'
    BY <1>1, CountKept DEF SessionInv
  <2>3. HourSound'
    BY <1>1, TimesKept, LoopTimesKept DEF SessionInv, HourSound
  <2>4. BridgeSound' /\ GapSound'
    BY <1>1, BridgeKept, GapKept DEF SessionInv
  <2>5. LinkSound'
    BY <1>1, LinkKept DEF SessionInv
  <2> QED
    BY <2>1, <2>2, <2>3, <2>4, <2>5 DEF SessionInv
<1>2. ASSUME SessionInv, UNCHANGED vars PROVE SessionInv'
  <2>1. SessionTyped'
    BY <1>2 DEF SessionInv, vars, SessionTyped
  <2>2. InFlight' = InFlight /\ Rng' = Rng
    BY <1>2 DEF vars, InFlight, Rng
  <2>3. WorkSound' /\ CountSound'
    BY <1>2, <2>2 DEF SessionInv, vars, WorkSound, CountSound, InFlight
  <2>4. TimesSound'
    BY <1>2 DEF SessionInv, HourSound, vars, TimesSound, Splits, IsArmed
  <2>5. LoopTimes'
    BY <1>2, <2>2 DEF SessionInv, HourSound, vars, LoopTimes, IsArmed
  <2>6. BridgeSound'
    BY <1>2 DEF SessionInv, vars, BridgeSound
  <2>7. BundlesAbove(tip.floor)' = BundlesAbove(tip.floor)
    BY <1>2 DEF vars, BundlesAbove, Listed
  <2>8. GapsBelow' /\ GapsAbove' /\ GapsOfWork' /\ FilesThere'
    BY <1>2, <2>2, <2>7 DEF SessionInv, GapSound, vars, GapsBelow, TipGapsAreNoted, GapsAbove, TooManyAbove,
       GapsOfWork, FilesThere
  <2>9. ChainVerdict(run.header, PrevHeader)' = ChainVerdict(run.header, PrevHeader)
    BY <1>2, <2>2 DEF vars, ChainVerdict, PrevHeader, BundleParent, BlockHash
  <2>10. LinkSound'
    BY <1>2, <2>2, <2>9 DEF SessionInv, vars, LinkSound, TipChainLinked
  <2> QED
    BY <2>1, <2>3, <2>4, <2>5, <2>6, <2>8, <2>10 DEF SessionInv, HourSound, GapSound
<1> QED
  BY <1>1, <1>2

THEOREM SessionInvariant == Spec => []SessionInv
  BY SessionStarts, SessionStep, PTL DEF Spec

(* Every tip block a session proves is the child of the tip block it proved
   before, unless a jump was declared: tip_chain.verdict against the last
   proved header, over every reorganisation, cached file and failure. *)
THEOREM ChainsAreLinked == Spec => []TipChainLinked
<1>1. SessionInv => TipChainLinked
  BY DEF SessionInv, LinkSound
<1> QED
  BY <1>1, SessionInvariant, PTL

(* The summary's list of gaps is complete, and names no height that was
   proved after all. *)
THEOREM GapsAreNoted == Spec => []TipGapsAreNoted
<1>1. SessionInv => TipGapsAreNoted
  BY DEF SessionInv, GapSound, GapsBelow
<1> QED
  BY <1>1, SessionInvariant, PTL

(* attempts reaches its limit only by proofs that failed (#506). *)
THEOREM RetiredOnlyForFailing == Spec => []RetiredForFailing
<1>1. SessionInv => RetiredForFailing
  <2> SUFFICES ASSUME SessionInv, ~InFlight, NEW r \in Ranges, Exhausted(r), mem.blocks[r].st # "ok"
               PROVE  failures[r] >= MAX_ATTEMPTS
    BY DEF RetiredForFailing
  <2>1. mem.attempts[r] = failures[r] /\ mem.attempts[r] >= MAX_ATTEMPTS
    <3>1. failures[r] \in Nat
      BY DEF SessionInv, SessionTyped
    <3> QED
      BY <3>1 DEF SessionInv, CountSound, Exhausted
  <2> QED
    BY <2>1
<1> QED
  BY <1>1, SessionInvariant, PTL

(* The hour counts the blocks begun in it, and every tip block proved. *)
THEOREM HourIsItsOwn == Spec => []HourCountsItsOwnBlocks
<1>1. SessionInv => HourCountsItsOwnBlocks
  BY DEF SessionInv, HourSound, TimesSound, Splits, HourCountsItsOwnBlocks
<1> QED
  BY <1>1, SessionInvariant, PTL

=============================================================================
