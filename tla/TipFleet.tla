------------------------------ MODULE TipFleet ------------------------------
(***************************************************************************)
(* A fleet proving blocks (coordinator/tip_run.py, tip_fleet.py,           *)
(* tip_runner.py). Two ways of proving share the cards and the aggregate:  *)
(*                                                                         *)
(*  run_block  gives every card one chunk of the block, probes the cards   *)
(*             each tick, stages finished receipts onto the aggregate,     *)
(*             moves or restarts a chunk whose card is wedged, and then    *)
(*             aggregates;                                                 *)
(*  run_range  starts one seg-serve per block on the aggregate and polls   *)
(*             it, beating the claim when progress rises, until it is      *)
(*             verified, given up for a tip block, or refused.             *)
(*                                                                         *)
(* A tick is cut where the cards can move: after the probes, and after     *)
(* each action of the plan. Chunk i starts on card i; card 1 is the        *)
(* aggregate. Tick budgets are an action that may fire at any tick.        *)
(***************************************************************************)
EXTENDS Integers, FiniteSets, FiniteSetsExt

CONSTANTS
  N,                  \* cards, and chunks of the block
  Modes,              \* which of "chunks" and "range" are run
  Blocks,             \* how many blocks a session proves as ranges
  STALL,              \* ticks a log may be static before an idle card is wedged
  UNREACHABLE_LIMIT,
  UNITS,              \* segments and joins of a range proof
  MaxLog,             \* bound: how often a log is seen to grow
  MaxFaults           \* bound: proves that hang or die, transfers and kills that fail, what was left over

ASSUME FleetAssumption ==
  /\ {N, Blocks, STALL, UNREACHABLE_LIMIT, UNITS} \subseteq Nat \ {0}
  /\ Modes \subseteq {"chunks", "range"} /\ {MaxLog, MaxFaults} \subseteq Nat

Chunks == 1..N
Cards == 1..N
Agg == 1
Extra == N + 1        \* the number of a chunk of an earlier, wider run
FileNos == 1..(N + 1)
Dirs == {"own", "re"} \* a card's working directory, and re<chunk> in it

(* What chunk_<n>.bin holds: a receipt of this run; one the run before left
   on the card; one that a prover of an earlier run, which the clear does not
   kill, writes after it; one that an earlier block left in stage_dir, on the
   driver's side; or what a broken transfer leaves. *)
Of == {"none", "this", "before", "late", "stage", "part"}

VARIABLES
  mode,      \* which driver this run uses
  procs,     \* card -> the provers on it: [chunk, dir, st, of, logs]
  files,     \* <<card, n, dir>> -> what chunk_<n>.bin holds there
  local,     \* chunk -> what chunk_<n>.bin holds in stage_dir
  log,       \* chunk -> the size of prove.log in the directory that is probed for it
  quiet,     \* chunk not yet staged -> ticks, up to STALL, since that log really grew
  faults,    \* how many proves hung or died, transfers or kills failed; what was left over
  blk,       \* run_block: pc and locals
  srv,       \* seg-serve on the aggregate: who holds the port, what agg.log shows
  rng,       \* run_range: pc and locals
  proved,    \* blocks whose range proof is really complete
  sent,      \* block -> beats sent for its claim
  worked     \* block -> units of work really done for it

vars == <<mode, procs, files, local, log, quiet, faults, blk, srv, rng, proved, sent, worked>>
cardVars == <<procs, files, local, log, quiet, faults>>
rangeVars == <<srv, rng, proved, sent, worked>>

NoAct == [do |-> "none", to |-> 0]

(* A prover that an earlier run left on the card, if any. *)
LeftOver(n) == IF n = 0 THEN {} ELSE {[chunk |-> n, dir |-> "own", st |-> "busy", of |-> "late", logs |-> FALSE]}

(* A previous run may have left receipts and provers on the cards (a fleet
   that was kept or adopted), and the receipts of a whole block in stage_dir. A
   file of another number counts only on the aggregate. *)
Init ==
  /\ mode \in Modes
  /\ \E running \in [Cards -> 0..Extra], dirty \in SUBSET Cards, kept \in {{}, Chunks} :
       /\ mode = "range" => (\A c \in Cards : running[c] = 0) /\ dirty = {} /\ kept = {}
       /\ \A c \in Cards : running[c] = Extra => c = Agg
       /\ procs = [c \in Cards |-> LeftOver(running[c])]
       /\ files = [x \in Cards \X FileNos \X Dirs |->
                     IF x[1] \in dirty /\ x[2] = x[1] /\ x[3] = "own" THEN "before" ELSE "none"]
       /\ local = [c \in Chunks |-> IF c \in kept THEN "stage" ELSE "none"]
       /\ faults = Cardinality({c \in Cards : running[c] # 0}) + (IF kept = {} THEN 0 ELSE 1)
       /\ faults <= MaxFaults
  /\ log = [c \in Chunks |-> 0] /\ quiet = [c \in Chunks |-> 0]
  /\ blk = [pc |-> IF mode = "chunks" THEN "clear" ELSE "off", assign |-> [c \in Chunks |-> c],
            staged |-> {}, busy |-> {}, moved |-> {}, size |-> [c \in Chunks |-> -1],
            age |-> [c \in Chunks |-> 0], acts |-> [c \in Chunks |-> NoAct], torn |-> {}, swept |-> FALSE]
  /\ srv = [holds |-> 0, log |-> 0, units |-> 0, verified |-> FALSE, work |-> 0]
  /\ rng = [pc |-> IF mode = "range" THEN "start" ELSE "off", h |-> 1, beaten |-> 0, gone |-> 0, res |-> "none"]
  /\ proved = {} /\ sent = [h \in 1..Blocks |-> 0] /\ worked = [h \in 1..Blocks |-> 0]

-----------------------------------------------------------------------------
(* The cards: external. A prove is cold until the GPU picks it up; it grows *)
(* its log, and ends by writing its receipt, holding the card a while       *)
(* longer; it may hang or die on the way, and dies easily where it shares   *)
(* the card's memory with another. A log that was unlinked, because its     *)
(* directory was removed or a later launch took its place, is not probed.   *)

SetSt(card, p, st) == [procs EXCEPT ![card] = (@ \ {p}) \cup {[p EXCEPT !.st = st]}]

CardStep(card, p) ==
  \/ /\ p.st = "cold"
     /\ procs' = SetSt(card, p, "busy") /\ UNCHANGED <<files, log, quiet, faults>>
  \/ /\ p.st = "busy" /\ p.logs /\ blk.pc \in {"probe", "act"} /\ log[p.chunk] < MaxLog
     /\ log' = [log EXCEPT ![p.chunk] = @ + 1] /\ quiet' = [quiet EXCEPT ![p.chunk] = 0]
     /\ UNCHANGED <<procs, files, faults>>
  \/ /\ p.st = "busy"
     /\ procs' = SetSt(card, p, "ending")
     /\ files' = [files EXCEPT ![<<card, p.chunk, p.dir>>] = p.of]
     /\ UNCHANGED <<log, quiet, faults>>
  \/ /\ p.st = "ending"
     /\ procs' = [procs EXCEPT ![card] = @ \ {p}] /\ UNCHANGED <<files, log, quiet, faults>>
  \/ /\ p.st \in {"cold", "busy"} /\ faults < MaxFaults
     /\ faults' = faults + 1
     /\ \/ procs' = SetSt(card, p, "hung")
        \/ procs' = [procs EXCEPT ![card] = @ \ {p}]
     /\ UNCHANGED <<files, log, quiet>>
  \/ /\ p.st \in {"cold", "busy"} /\ Cardinality(procs[card]) > 1
     /\ procs' = [procs EXCEPT ![card] = @ \ {p}]
     /\ UNCHANGED <<files, log, quiet, faults>>

-----------------------------------------------------------------------------
(* run_block.                                                              *)

(* verify_fleet_empty: every card answered that it has nothing left. *)
FleetEmpty(answered) == answered = Cards

NewProver(c, dir) == [chunk |-> c, dir |-> dir, st |-> "cold", of |-> "this", logs |-> TRUE]

(* clear_and_check, on every card at once: files are removed, provers are
   not; one that cannot be reached keeps what it has. Then launch_all. *)
ClearAndLaunch ==
  /\ blk.pc = "clear"
  /\ \E answered \in SUBSET Cards :
       /\ files' = [x \in Cards \X FileNos \X Dirs |-> IF x[1] \in answered THEN "none" ELSE files[x]]
       /\ IF FleetEmpty(answered)
            THEN /\ procs' = [c \in Cards |-> procs[c] \cup {NewProver(c, "own")}]
                 /\ blk' = [blk EXCEPT !.pc = "probe"]
            ELSE UNCHANGED procs /\ blk' = [blk EXCEPT !.pc = "refused"]
  /\ UNCHANGED <<mode, local, log, quiet, faults, rangeVars>>

DirOf(c) == IF c \in blk.moved THEN "re" ELSE "own"

HasReceipt(card, c, dir) == files[<<card, c, dir>>] # "none"

(* The reply to the probe for chunk c: DONE, or the state of the card it is
   on; the process list and the GPU are the card's, whatever proves there. *)
CardState(c) ==
  LET card == blk.assign[c]
  IN  CASE HasReceipt(card, c, DirOf(c)) -> "done"
        [] ~HasReceipt(card, c, DirOf(c)) /\ (\E p \in procs[card] : p.st \in {"busy", "ending"}) -> "working"
        [] OTHER -> "idle"

(* probe_all keys the replies by card: where a card has two chunks, the
   reply that comes back last stands for both. *)
Replies ==
  {f \in [Cards -> {0} \cup Chunks] : \A card \in Cards : f[card] # 0 => blk.assign[f[card]] = card}

(* Fault: a card that does not answer is taken to be idle. *)
SilentIsIdle(reply, c) ==
  IF reply[blk.assign[c]] = 0 THEN "idle" ELSE CardState(reply[blk.assign[c]])

StateOf(reply, c) ==
  IF reply[blk.assign[c]] = 0 THEN "unreachable" ELSE CardState(reply[blk.assign[c]])

IsWedged(state, static) == state = "idle" /\ static > STALL

(* can_accept_reassignment: no prover, and its memory let go. *)
CanAccept(reply, card) == reply[card] # 0 /\ procs[card] = {}

(* plan_recovery: the first card that finished its own chunk, was given no
   other and is free; otherwise restart in place. *)
PlanRecovery(reply, c) ==
  LET finished == blk.staged \cup {d \in Chunks : StateOf(reply, d) = "done"}
      free == {card \in {blk.assign[d] : d \in finished} :
                 card # blk.assign[c] /\ card \notin blk.busy /\ CanAccept(reply, card)}
  IN  IF free = {} THEN [do |-> "restart", to |-> blk.assign[c]] ELSE [do |-> "reassign", to |-> Min(free)]

Tick(n) == IF n > STALL THEN n ELSE n + 1

(* plan_tick on one set of replies. *)
PlanTick(reply, aged, c) ==
  CASE c \in blk.staged -> NoAct
    [] c \notin blk.staged /\ StateOf(reply, c) = "done" -> [do |-> "stage", to |-> blk.assign[c]]
    [] c \notin blk.staged /\ IsWedged(StateOf(reply, c), aged[c]) -> PlanRecovery(reply, c)
    [] OTHER -> NoAct

(* probe_size: the size in the reply that stands for the card, whichever of its chunks
   that reply is about, is not the last one seen for chunk c. *)
Moved(reply, c) ==
  LET d == reply[blk.assign[c]]
  IN  d # 0 /\ CardState(d) # "done" /\ log[d] # blk.size[c]

Probe ==
  /\ blk.pc = "probe"
  /\ \E reply \in Replies :
       LET moved == {c \in Chunks \ blk.staged : Moved(reply, c)}
           aged == [c \in Chunks |-> IF c \in moved THEN 0 ELSE Tick(blk.age[c])]
           acts == [c \in Chunks |-> PlanTick(reply, aged, c)]
           again == {c \in Chunks : acts[c].do \in {"reassign", "restart"}}
       IN  blk' = [blk EXCEPT !.pc = "act", !.acts = acts,
                     !.size = [c \in Chunks |-> CASE c \in again \cup blk.staged -> 0
                                                   [] c \in moved \ again -> log[reply[blk.assign[c]]]
                                                   [] OTHER -> blk.size[c]],
                     !.age = [c \in Chunks |-> IF c \in again \cup blk.staged THEN 0 ELSE aged[c]]]
  /\ quiet' = [c \in Chunks |-> IF c \in blk.staged THEN 0 ELSE IF quiet[c] >= STALL THEN quiet[c] ELSE quiet[c] + 1]
  /\ UNCHANGED <<mode, procs, files, local, log, faults, rangeVars>>

Planned == {c \in Chunks : blk.acts[c].do # "none"}

(* The cards move while the driver works; where it goes from one step to the
   next without acting on them, they move after the second. *)
CardMoves ==
  /\ blk.pc \in IF Planned = {} THEN {"probe", "count"} ELSE {"act", "sweep"}
  /\ \E card \in Cards : \E p \in procs[card] : CardStep(card, p)
  /\ UNCHANGED <<mode, local, blk, rangeVars>>

Due(c, do) == blk.pc = "act" /\ c \in Planned /\ c = Min(Planned) /\ blk.acts[c].do \in do

(* Three tries of fetch and push, as they come out: what stage_dir and what
   the aggregate then hold, and whether the receipt counts as collected.
   fetch looks only at whether the local file is there, not at scp's exit
   status: without a receipt to copy, or when the copy breaks off, what was in
   stage_dir before, or part of a file, serves as well. A push that fails may
   leave part of a file on the aggregate. *)
Transfer(c, src, broke) ==
  LET there == files[<<Agg, c, "own">>]
      held == IF src = "none" THEN local[c] ELSE src
      collected(h) == [had |-> h, there |-> h, ok |-> TRUE]
      failed(h, t) == [had |-> h, there |-> t, ok |-> FALSE]
  IN  IF ~broke THEN {IF held = "none" THEN failed(held, there) ELSE collected(held)}
      ELSE {collected(h) : h \in {local[c], "part"} \ {"none"}}
           \cup {failed(h, t) : h \in {local[c], src, "part"}, t \in {there, "part"}}
           \cup {failed(h, h) : h \in {local[c], src} \ {"none"}}

(* stage_receipt as run_block calls it: the reassigned argument is left out,
   so only the card's own directory is looked in, and the file is pushed
   where the aggregate keeps its own receipts. *)
Stages(c) ==
  \E broke \in BOOLEAN : \E out \in Transfer(c, files[<<blk.assign[c], c, "own">>], broke) :
    /\ broke => faults < MaxFaults
    /\ faults' = IF broke THEN faults + 1 ELSE faults
    /\ local' = [local EXCEPT ![c] = out.had]
    /\ files' = [files EXCEPT ![<<Agg, c, "own">>] = out.there]
    /\ blk' = [blk EXCEPT !.acts[c] = NoAct,
                          !.staged = IF out.ok THEN @ \cup {c} ELSE @,
                          !.torn = IF broke THEN @ \cup {c} ELSE @]

ActStage ==
  /\ \E c \in Chunks : Due(c, {"stage"}) /\ Stages(c)
  /\ UNCHANGED <<mode, procs, log, quiet, rangeVars>>

Superseded(p, c) == IF p.chunk = c THEN [p EXCEPT !.logs = FALSE] ELSE p

(* Kill what proves on the owner (which may not be carried out), empty the
   directory re<chunk> on the target and launch there. *)
ActMove ==
  /\ \E c \in Chunks :
       LET owner == blk.assign[c]
           to == blk.acts[c].to
       IN  /\ Due(c, {"reassign", "restart"})
           /\ \E killed \in BOOLEAN :
                /\ killed \/ faults < MaxFaults
                /\ faults' = IF killed THEN faults ELSE faults + 1
                /\ procs' = [card \in Cards |->
                               (IF card = owner /\ killed THEN {} ELSE {Superseded(p, c) : p \in procs[card]})
                                 \cup (IF card = to THEN {NewProver(c, "re")} ELSE {})]
           /\ files' = [files EXCEPT ![<<to, c, "re">>] = "none"]
           /\ log' = [log EXCEPT ![c] = 0]
           /\ quiet' = [quiet EXCEPT ![c] = 0]
           /\ blk' = [blk EXCEPT !.assign[c] = to, !.moved = @ \cup {c}, !.acts[c] = NoAct,
                                 !.busy = IF blk.acts[c].do = "reassign" THEN @ \cup {to} ELSE @]
  /\ UNCHANGED <<mode, local, rangeVars>>

(* What the ticks kept of the logs is not looked at after them. *)
Forget(b) == [b EXCEPT !.size = [c \in Chunks |-> 0], !.age = [c \in Chunks |-> 0]]

ForgetLogs == log' = [c \in Chunks |-> 0] /\ quiet' = [c \in Chunks |-> 0]

(* The tick is over: the next one begins, *)
EndTick ==
  /\ blk.pc = "act" /\ Planned = {} /\ Cardinality(blk.staged) < N
  /\ blk' = [blk EXCEPT !.pc = "probe"]
  /\ UNCHANGED <<mode, cardVars, rangeVars>>

(* or every chunk is staged, *)
AllStaged ==
  /\ blk.pc = "act" /\ Planned = {} /\ Cardinality(blk.staged) >= N
  /\ blk' = Forget([blk EXCEPT !.pc = "count"]) /\ ForgetLogs
  /\ UNCHANGED <<mode, procs, files, local, faults, rangeVars>>

(* or the tick budget is spent: collect what the ticks did not. *)
Sweep ==
  /\ blk.pc = "act" /\ Planned = {} /\ Cardinality(blk.staged) < N
  /\ blk' = Forget([blk EXCEPT !.pc = "sweep", !.swept = TRUE,
                     !.acts = [c \in Chunks |-> IF c \in blk.staged THEN NoAct
                                                ELSE [do |-> "stage", to |-> blk.assign[c]]]])
  /\ ForgetLogs
  /\ UNCHANGED <<mode, procs, files, local, faults, rangeVars>>

SweepOne ==
  /\ blk.pc = "sweep"
  /\ IF Planned = {} THEN blk' = [blk EXCEPT !.pc = "count"] /\ UNCHANGED <<files, local, faults>>
     ELSE Stages(Min(Planned))
  /\ UNCHANGED <<mode, procs, log, quiet, rangeVars>>

(* Fault: the transfers are taken at their word. *)
AssumeComplete(count) == TRUE

StagingComplete(count) == count >= N

(* staged_count counts the files in the aggregate's directory, its own
   receipt, parts of files and those of other numbers among them. *)
OnAggregate == {n \in FileNos : files[<<Agg, n, "own">>] # "none"}

Aggregate ==
  /\ blk.pc = "count"
  /\ blk' = [blk EXCEPT !.pc = IF StagingComplete(Cardinality(OnAggregate)) THEN "serve" ELSE "refused"]
  /\ UNCHANGED <<mode, cardVars, rangeVars>>

-----------------------------------------------------------------------------
(* seg-serve: external. It works, prints its progress to the log it was    *)
(* started with, and ends when the proof is verified.                      *)

ServeStep ==
  /\ srv.holds # 0
  /\ \/ /\ srv.work < UNITS
        /\ srv' = [srv EXCEPT !.work = @ + 1, !.units = IF srv.log = srv.holds THEN srv.work + 1 ELSE @]
        /\ worked' = [worked EXCEPT ![srv.holds] = @ + 1]
        /\ UNCHANGED proved
     \/ /\ srv.work = UNITS
        /\ proved' = proved \cup {srv.holds} /\ UNCHANGED worked
        /\ srv' = [srv EXCEPT !.verified = @ \/ srv.log = srv.holds, !.holds = 0, !.work = 0]
     \/ srv' = [srv EXCEPT !.holds = 0, !.work = 0] /\ UNCHANGED <<proved, worked>>
  /\ UNCHANGED <<mode, cardVars, blk, rng, sent>>

(* Fault: the log of the block before is still there. *)
KeepLog(s) == s

(* _rotate_agg. *)
RotateAgg(s) == [s EXCEPT !.log = 0, !.units = 0, !.verified = FALSE]

(* The launch: rotate the log, then bind; a port that is still held kills
   the newcomer. *)
Launch(h) ==
  LET s == RotateAgg(srv)
  IN  IF s.holds = 0 THEN [s EXCEPT !.holds = h, !.log = h, !.work = 0] ELSE s

-----------------------------------------------------------------------------
(* run_range, block after block.                                           *)

End(res) == [rng EXCEPT !.pc = "ended", !.res = res, !.beaten = 0, !.gone = 0]

(* start_range_aggregate: the bundle may not land, and the launch command
   may not come back, whether or not it ran. *)
StartRange ==
  /\ rng.pc = "start"
  /\ \/ rng' = End("refused") /\ srv' \in {srv, Launch(rng.h)}
     \/ rng' = [rng EXCEPT !.pc = "poll"] /\ srv' = Launch(rng.h)
  /\ UNCHANGED <<mode, cardVars, blk, proved, sent, worked>>

(* Fault: every poll beats. *)
BeatAlways(units) == TRUE

(* progress_units rose. *)
Rose(units) == units > rng.beaten

(* aggregate_status: agg.log says whether the proof is verified and how much
   of it is done, the process list whether anything still works on it. *)
AggregateStatus == [verified |-> srv.verified, alive |-> srv.holds # 0, units |-> srv.units]

(* It could not be asked: not verified, and not dead. *)
Unanswered == [verified |-> FALSE, alive |-> TRUE, units |-> 0]

(* One poll that was answered: beat, then finish, die, or go on. *)
Poll ==
  /\ rng.pc = "poll"
  /\ LET out == AggregateStatus
     IN  /\ sent' = IF Rose(out.units) /\ sent[rng.h] <= UNITS THEN [sent EXCEPT ![rng.h] = @ + 1] ELSE sent
         /\ rng' = CASE out.verified -> End("ok")
                     [] ~out.verified /\ ~out.alive -> End("refused")
                     [] OTHER -> [rng EXCEPT !.beaten = IF Rose(out.units) THEN out.units ELSE @, !.gone = 0]
  /\ UNCHANGED <<mode, cardVars, blk, srv, proved, worked>>

PollUnreachable ==
  /\ rng.pc = "poll"
  /\ rng' = IF rng.gone + 1 >= UNREACHABLE_LIMIT THEN End("refused") ELSE [rng EXCEPT !.gone = @ + 1]
  /\ UNCHANGED <<mode, cardVars, blk, srv, proved, sent, worked>>

(* The tick budget is spent. Nothing is stopped. *)
OutOfTicks ==
  /\ rng.pc = "poll"
  /\ rng' = End("refused")
  /\ UNCHANGED <<mode, cardVars, blk, srv, proved, sent, worked>>

(* stop_range_aggregate: gone, or still there after every signal. *)
StopServe == {[srv EXCEPT !.holds = 0, !.work = 0], srv}

(* A tip block is waiting. An answer that says verified is taken first. *)
Abort ==
  /\ rng.pc = "poll"
  /\ \E out \in {AggregateStatus, Unanswered} : ~out.verified
  /\ srv' \in StopServe
  /\ rng' = End("aborted")
  /\ UNCHANGED <<mode, cardVars, blk, proved, sent, worked>>

NextBlock ==
  /\ rng.pc = "ended" /\ rng.h < Blocks
  /\ rng' = [rng EXCEPT !.pc = "start", !.h = @ + 1, !.res = "none"]
  /\ UNCHANGED <<mode, cardVars, blk, srv, proved, sent, worked>>

Next ==
  \/ CardMoves \/ ClearAndLaunch \/ Probe \/ ActStage \/ ActMove \/ EndTick \/ AllStaged \/ Sweep \/ SweepOne \/ Aggregate
  \/ ServeStep \/ StartRange \/ Poll \/ PollUnreachable \/ OutOfTicks \/ Abort \/ NextBlock

Spec == Init /\ [][Next]_vars

-----------------------------------------------------------------------------
(* A stale chunk_N.bin reports DONE in seconds and poisons the aggregate,
   and a transfer that dropped a receipt makes it panic (run_block, phases 0
   and 5). When the aggregate is started, every chunk has a file there, and
   it is a whole receipt of this run, except that
     a file of another number, written after the clear by a prover of an
       earlier run, may have been counted for a missing one, and such a prover
       may have written the chunk's own file;
     a transfer of the chunk that broke off may have left part of a file;
     stage_dir's leftover of an earlier block may have been taken, but only
       for a chunk that was moved or restarted, one whose transfer broke, or
       when the tick budget ran out and the sweep took it without asking. *)
AggregateAccountedFor ==
  blk.pc = "serve" =>
    \A c \in Chunks :
      LET of == files[<<Agg, c, "own">>]
      IN  /\ of # "before"
          /\ of = "none" => files[<<Agg, Extra, "own">>] = "late"
          /\ of = "part" => c \in blk.torn
          /\ of = "stage" => c \in blk.moved \cup blk.torn \/ blk.swept

Recovered(c) == blk'.acts[c].do \in {"reassign", "restart"}

(* c is where it began, and no other chunk was ever moved onto that card: the
   card's reply is c's. *)
OnItsOwn(c) == blk.assign[c] = c /\ c \notin blk.busy

(* Three runs killed cards that were proving (tip_fleet.card_state): a chunk
   is only taken from a card, or restarted on it, when nothing on that card
   is at work; and, for a chunk that never shared its card, when its log has
   in fact not grown for as long as the stall limit, however often the card
   could not be asked in between. (Of a card with two chunks the code judges
   one by the other's log.) *)
WedgeIsReal ==
  [][blk.pc = "probe" => \A c \in Chunks : Recovered(c) =>
       /\ \A p \in procs[blk.assign[c]] : p.st \notin {"busy", "ending"}
       /\ OnItsOwn(c) => quiet[c] >= STALL]_vars

(* The range aggregate's log is all that says a block is proved: a run that
   ends well ends with the proof of its own block, whatever the blocks
   before it left behind on the aggregate. *)
VerifiedIsThisBlock ==
  rng.res = "ok" => rng.h \in proved

(* A claim must not be kept alive while nothing is happening: the beats sent
   for a block are never more than the units of work really done for that
   block, whoever holds the port while it is polled. *)
BeatsAreEarned ==
  \A h \in 1..Blocks : sent[h] <= worked[h]
=============================================================================
