----------------------------- MODULE SponsorBot -----------------------------
(***************************************************************************)
(* The sponsor bot (coordinator/sponsor_bot.py): one process that rents    *)
(* pods for the blocks of paid sponsorships, has each prove its blocks,    *)
(* logs the work, regenerates missing bundles one replay at a time, and    *)
(* gives every pod back however it ends. What lives outside the process is *)
(* modelled beside it: the provider's pods, the workers on them, the       *)
(* board, the replay. The database and the pods outlive a bot; pods,       *)
(* counters and the handle on the replay do not.                           *)
(*                                                                         *)
(* A pass of the loop is cut where something else can happen: per pod      *)
(* observed, per termination (the question to the coordinator, then the    *)
(* confirmation), per chunk of work given out (the rows committed, then    *)
(* the pod told), and at each deploy. Time is counted in passes, money in  *)
(* one pod's price for one pass.                                           *)
(***************************************************************************)
EXTENDS Integers, FiniteSets, FiniteSetsExt

CONSTANTS
  Heights,            \* the blocks that are sponsored
  Sponsor,            \* block -> the sponsorship that wants it
  InitBoards,         \* at the start: blocks with a bundle, blocks covered; and a
                      \* bound: how often the bot is started from there
  LiveBridge,         \* whether the bridge of the board is walking on the box
  MaxPods, MAX_USD, MAX_RATE,  \* the three caps of live mode
  LEAD,               \* budget_lead_s: how far ahead spend is looked at
  PATIENCE,           \* passes before a pod that does not get on is ended
  BLOCKS_PER_POD,
  COORD_ERRORS_MAX, RUNPOD_REFUSALS_MAX,
  MaxRented           \* bound: pods made in all

ASSUME BotAssumption ==
  /\ Heights \subseteq Nat
  /\ {MaxPods, MAX_USD, MAX_RATE, LEAD, BLOCKS_PER_POD, COORD_ERRORS_MAX, RUNPOD_REFUSALS_MAX} \subseteq Nat \ {0}
  /\ MaxRented \in Nat
  /\ InitBoards \subseteq (SUBSET Heights) \X (SUBSET Heights) \X Nat /\ LiveBridge \in BOOLEAN

PodId == 1..MaxRented
Closed == {"cancelled", "failed", "stalled"}

VARIABLES
  bot,       \* the process: pc, run, pod being looked at, blocks being given, counters
  pods,      \* pod -> what the bot has in memory
  log,       \* the database: work rows <<height, pod>>, pods ended, the replay queue;
             \* and a history: the rows a signal or a kill took from their pod
  cloud,     \* the provider: pods alive, in which run each was made
  worker,    \* pod -> the blocks its worker was started on
  board,     \* blocks covered, sponsorships held
  box        \* bundles, and the replay process of each height

vars == <<bot, pods, log, cloud, worker, board, box>>

NoPod == [st |-> "none", assigned |-> {}, age |-> 0, fin |-> FALSE]
NoRow == [out |-> "none", landed |-> FALSE]
Proven == [out |-> "proven", landed |-> FALSE]

FreshBot(n, max) ==
  [pc |-> "start", run |-> n, max |-> max, left |-> {}, pod |-> 0, chunk |-> {}, why |-> "", ret |-> "",
   ok |-> TRUE, errs |-> 0, refusals |-> 0, spent |-> 0, proc |-> 0, unconfirmed |-> {}, swept |-> TRUE]

Init ==
  /\ pods = [p \in PodId |-> NoPod]
  /\ log = [row |-> [r \in Heights \X PodId |-> NoRow], ended |-> {}, queue |-> [h \in Heights |-> "no"], lost |-> {}]
  /\ cloud = [alive |-> {}, made |-> [p \in PodId |-> 0]]
  /\ worker = [p \in PodId |-> {}]
  /\ \E b \in InitBoards :
       /\ bot = FreshBot(1, b[3])
       /\ box = [bundles |-> b[1], replay |-> [h \in Heights |-> "none"]]
       /\ board = [covered |-> b[2], held |-> {Sponsor[h] : h \in Heights}]

-----------------------------------------------------------------------------
(* What the bot asks of the world. *)

Up == bot.pc \notin {"ended", "dead"}
Live == {p \in PodId : pods[p].st \in {"waiting_ssh", "booting", "idle", "working"}}
Hourly == Cardinality(Live)                   \* a price unknown counts as the ceiling, 1

(* Fault: what other pods are at is not taken off the list. *)
NothingBusy(lv) == {}

Busy(lv) == UNION {pods[p].assigned : p \in lv}

(* pending_work: the uncovered blocks of the sponsorships that hold theirs. *)
Pending(busy, needBundle) ==
  {h \in Heights : /\ h \notin board.covered /\ Sponsor[h] \in board.held /\ h \notin busy
                   /\ needBundle => h \in box.bundles}

(* bridge_running: the board's bridge, and any replay that has got that far. *)
BridgeRunning == LiveBridge \/ \E h \in Heights : box.replay[h] = "bridge"

Stop == [bot EXCEPT !.pc = "cleanup", !.pod = 0, !.chunk = {}, !.why = "", !.ret = "", !.left = {},
                    !.ok = TRUE, !.errs = 0, !.refusals = 0, !.spent = 0]

CoordError ==
  LET e == bot.errs + 1
  IN  IF e >= COORD_ERRORS_MAX THEN Stop
      ELSE [bot EXCEPT !.errs = e, !.left = {}, !.ok = FALSE, !.pc = IF bot.pc \in {"look", "observe"} THEN "observe" ELSE "look"]

Goto(pc) == bot' = [bot EXCEPT !.pc = pc]

-----------------------------------------------------------------------------
(* Start: correct the log, queue the blocks with no bundle, give up the     *)
(* replays a former bot left, and begin.                                   *)

(* reconcile_work: the proof came under the row's key while the pod lived. *)
ProofInLife(h, p) == log.row[<<h, p>>].landed

Reconciled ==
  LET cand == {r \in Heights \X PodId : /\ log.row[r].out \in Closed /\ r[2] \in log.ended /\ r[1] \in board.covered
                                        /\ ProofInLife(r[1], r[2])}
      done == {r[1] : r \in {q \in Heights \X PodId : log.row[q].out = "proven"}}
      first(r) == \A q \in cand : q[1] = r[1] => r[2] <= q[2]
  IN  [r \in Heights \X PodId |->
         IF r \in cand /\ r[1] \notin done /\ first(r) THEN Proven ELSE log.row[r]]

(* regen_enqueue leaves a queued height alone, whatever became of it; regen_reap
   looks for the pid it logged, the script's, among the bridges. *)
Queued(unbundled) ==
  [h \in Heights |-> CASE log.queue[h] = "no" /\ h \in unbundled -> "queued"
                       [] log.queue[h] = "running" -> "failed"
                       [] OTHER -> log.queue[h]]

Start ==
  /\ bot.pc = "start"
  /\ log' = [log EXCEPT !.row = Reconciled, !.queue = Queued(Pending({}, FALSE) \ box.bundles)]
  /\ Goto("look")
  /\ UNCHANGED <<pods, cloud, worker, board, box>>

-----------------------------------------------------------------------------
(* Ending one pod. *)

EndPod(p, why, ret) == [bot EXCEPT !.pc = "ask", !.pod = p, !.why = why, !.ret = ret]

(* Fault: the rows of an ended pod are left as they are. *)
LeaveOpen(p, landed, why) == log.row

(* _terminate closes the rows: what landed is proven, the rest is as why says. *)
CloseRows(p, landed, why) ==
  [r \in Heights \X PodId |->
     IF r[2] # p \/ r[1] \notin pods[p].assigned \/ log.row[r].out # "open" THEN log.row[r]
     ELSE IF r[1] \in landed THEN Proven ELSE [log.row[r] EXCEPT !.out = why]]

(* The question to the coordinator: one that fails ends nothing. *)
TermAsk ==
  /\ bot.pc = "ask"
  /\ \E answered \in BOOLEAN :
       log' = [log EXCEPT !.row = CloseRows(bot.pod, IF answered THEN board.covered ELSE {}, bot.why)]
  /\ pods' = [pods EXCEPT ![bot.pod].assigned = {}]
  /\ Goto("confirm")
  /\ UNCHANGED <<cloud, worker, board, box>>

NoteUnconfirmed(p, gone) == IF gone THEN bot.unconfirmed ELSE bot.unconfirmed \cup {p}

(* terminate_confirmed: gone from the listing, or given up on: then it may
   be gone or not. The bot counts it as ended either way. *)
TermConfirm ==
  /\ bot.pc = "confirm"
  /\ \E gone, really \in BOOLEAN :
       /\ gone => really
       /\ cloud' = [cloud EXCEPT !.alive = IF really THEN @ \ {bot.pod} ELSE @]
       /\ worker' = [worker EXCEPT ![bot.pod] = IF really THEN {} ELSE @]
       /\ bot' = [bot EXCEPT !.pc = bot.ret, !.unconfirmed = NoteUnconfirmed(bot.pod, gone), !.pod = 0, !.why = "", !.ret = ""]
  /\ pods' = [pods EXCEPT ![bot.pod] = [NoPod EXCEPT !.st = "terminated"]]
  /\ log' = [log EXCEPT !.ended = @ \cup {bot.pod}]
  /\ UNCHANGED <<board, box>>

-----------------------------------------------------------------------------
(* A look: after a pass of time, reconcile, then every live pod, then what  *)
(* is spent.                                                               *)

Older(p) == IF p \in Live /\ pods[p].st # "idle" /\ pods[p].age <= PATIENCE THEN [pods[p] EXCEPT !.age = @ + 1] ELSE pods[p]

Look ==
  /\ bot.pc = "look"
  /\ \/ bot' = [CoordError EXCEPT !.spent = bot.spent + Hourly]
     \/ bot' = [bot EXCEPT !.pc = "observe", !.left = Live, !.ok = TRUE, !.spent = @ + Hourly]
  /\ pods' = [p \in PodId |-> Older(p)]
  /\ UNCHANGED <<log, cloud, worker, board, box>>

Seen(p) == [bot EXCEPT !.left = @ \ {p}]

Overdue(p) == pods[p].age > PATIENCE

(* The boot on the pod, in a thread of its own, ends well. *)
Booted(st) == IF st = "booting" THEN "idle" ELSE "booting"

(* A pod that is coming up: an address, a boot that ends well or not, or
   too long. *)
ObserveComing(p) ==
  /\ pods[p].st \in {"waiting_ssh", "booting"}
  /\ \/ /\ pods' = [pods EXCEPT ![p].st = Booted(@)]
        /\ bot' = Seen(p)
     \/ ~Overdue(p) /\ bot' = Seen(p) /\ UNCHANGED pods
     \/ /\ Overdue(p) \/ pods[p].st = "booting"
        /\ bot' = [EndPod(p, "cancelled", "observe") EXCEPT !.left = @ \ {p}] /\ UNCHANGED pods
  /\ UNCHANGED log

RecordProven(p, done) ==
  [r \in Heights \X PodId |-> IF r[2] = p /\ r[1] \in done /\ log.row[r].out = "open" THEN Proven ELSE log.row[r]]

(* The last line of the worker's log, when it can be read, says finished. *)
Status == {"running", "finished", "unreachable"}

(* _progress: log what landed; end a pod whose sponsorship lost its hold, one
   that stalls, one whose worker finished short. The coordinator may fail at
   either of its two questions, the second with the rows logged. *)
ObserveWorking(p) ==
  LET done == pods[p].assigned \cap board.covered
      rest == pods[p].assigned \ done
      now == [pods[p] EXCEPT !.assigned = rest, !.age = IF done = {} THEN @ ELSE 0]
      end(why) == [EndPod(p, why, "observe") EXCEPT !.left = @ \ {p}]
  IN  /\ pods[p].st = "working"
      /\ \/ bot' = CoordError /\ UNCHANGED <<pods, log>>
         \/ /\ log' = [log EXCEPT !.row = RecordProven(p, done)]
            /\ \/ bot' = CoordError /\ pods' = [pods EXCEPT ![p] = now]
               \/ \E h \in rest : Sponsor[h] \notin board.held /\ bot' = end("cancelled") /\ pods' = [pods EXCEPT ![p] = now]
               \/ rest = {} /\ bot' = Seen(p) /\ pods' = [pods EXCEPT ![p] = [now EXCEPT !.st = "idle", !.fin = FALSE]]
               \/ /\ rest # {} /\ \A h \in rest : Sponsor[h] \in board.held
                  /\ IF done = {} /\ Overdue(p) THEN bot' = end("stalled") /\ pods' = [pods EXCEPT ![p] = now]
                     ELSE \E st \in Status :
                            /\ bot' = IF st = "finished" /\ now.fin THEN end("failed") ELSE Seen(p)
                            /\ pods' = [pods EXCEPT ![p] = [now EXCEPT !.fin = st = "finished"]]

ObservePod ==
  /\ bot.pc = "observe" /\ bot.left \cap Live # {}
  /\ LET p == Min(bot.left \cap Live)
     IN  \/ ObserveComing(p)
         \/ ObserveWorking(p)
         \/ pods[p].st = "idle" /\ bot' = Seen(p) /\ UNCHANGED <<pods, log>>
  /\ UNCHANGED <<cloud, worker, board, box>>

(* Fault: only what is already spent counts. *)
SpentOnly(spent, rate) == spent >= MAX_USD

(* _over_budget: what is spent, and what will be before the next look. *)
OverBudget(spent, rate) == spent + rate * LEAD >= MAX_USD

(* Looked at in every pass, whether or not the coordinator answered. *)
Budget ==
  /\ bot.pc = "observe" /\ bot.left \cap Live = {}
  /\ bot' = IF OverBudget(bot.spent, Hourly) THEN Stop
            ELSE [bot EXCEPT !.pc = IF bot.ok THEN "regen" ELSE "look", !.left = {}, !.ok = TRUE]
  /\ UNCHANGED <<pods, log, cloud, worker, board, box>>

-----------------------------------------------------------------------------
(* The replay queue: at most one replay is advanced, and only a step. *)

InFlight == {h \in Heights : log.queue[h] = "running"}
Waiting == {h \in Heights : log.queue[h] = "queued"}

Regen ==
  /\ bot.pc = "regen"
  /\ CASE bot.proc # 0 /\ box.replay[bot.proc] # "none" -> UNCHANGED <<log, box>> /\ Goto("assign")
       [] bot.proc # 0 /\ box.replay[bot.proc] = "none" ->
            /\ log' = [log EXCEPT !.queue[bot.proc] = IF bot.proc \in box.bundles THEN "done" ELSE "failed"]
            /\ bot' = [bot EXCEPT !.proc = 0, !.pc = "assign"] /\ UNCHANGED box
       [] bot.proc = 0 /\ InFlight = {} /\ Waiting # {} /\ ~BridgeRunning ->
            \/ /\ log' = [log EXCEPT !.queue[Min(Waiting)] = "refused"]
               /\ Goto("assign") /\ UNCHANGED box
            \/ /\ log' = [log EXCEPT !.queue[Min(Waiting)] = "running"]
               /\ box' = [box EXCEPT !.replay[Min(Waiting)] = "script"]
               /\ bot' = [bot EXCEPT !.proc = Min(Waiting), !.pc = "assign"]
       [] OTHER -> UNCHANGED <<log, box>> /\ Goto("assign")
  /\ UNCHANGED <<pods, cloud, worker, board>>

-----------------------------------------------------------------------------
(* Work for the idle pods, then more pods. *)

Chunks(todo) == {c \in SUBSET todo : Cardinality(c) = Min({BLOCKS_PER_POD, Cardinality(todo)})
                                     /\ \A h \in c, k \in todo \ c : h < k}

(* _assign, one idle pod: end it if there is nothing for it; register the
   keys, mark the sponsorships, insert the rows and commit them, of which the
   pod does not know yet. The coordinator may fail before there are any. *)
Assign ==
  /\ bot.pc = "assign"
  /\ LET idle == {p \in Live : pods[p].st = "idle"}
         p == Min(idle)
         todo == Pending(Busy(Live), TRUE)
     IN  IF idle = {} THEN Goto("launch") /\ UNCHANGED log
         ELSE \/ bot' = CoordError /\ UNCHANGED log
              \/ todo = {} /\ bot' = EndPod(p, "cancelled", "assign") /\ UNCHANGED log
              \/ \E c \in Chunks(todo) :
                   /\ todo # {}
                   /\ log' = [log EXCEPT !.row = [r \in Heights \X PodId |->
                                IF r[2] = p /\ r[1] \in c THEN [NoRow EXCEPT !.out = "open"] ELSE log.row[r]]]
                   /\ bot' = [bot EXCEPT !.pc = "given", !.pod = p, !.chunk = c]
  /\ UNCHANGED <<pods, cloud, worker, board, box>>

(* The identities and the work list are copied and the worker started; any
   of it may fail. *)
StartWorker(p, c) == {worker, [worker EXCEPT ![p] = c]}

(* Then the pod has the blocks, in memory, and its worker is started; one
   that cannot start ends the pod. *)
Give ==
  /\ bot.pc = "given"
  /\ pods' = [pods EXCEPT ![bot.pod] = [st |-> "working", assigned |-> bot.chunk, age |-> 0, fin |-> FALSE]]
  /\ worker' \in StartWorker(bot.pod, bot.chunk)
  /\ bot' = IF worker' = worker THEN [EndPod(bot.pod, "failed", "assign") EXCEPT !.chunk = {}]
            ELSE [bot EXCEPT !.pc = "assign", !.pod = 0, !.chunk = {}]
  /\ UNCHANGED <<log, cloud, board, box>>

Unmade == {p \in PodId : cloud.made[p] = 0}
Made(p) == [cloud EXCEPT !.alive = @ \cup {p}, !.made[p] = bot.run]

WantMore ==
  LET todo == Pending(Busy(Live), TRUE)
      coming == {p \in Live : pods[p].st \in {"waiting_ssh", "booting", "idle"}}
  IN  (Cardinality(todo) + BLOCKS_PER_POD - 1) \div BLOCKS_PER_POD > Cardinality(coming)

(* The hourly cap, with one more pod at the ceiling. *)
RoomFor(rate) == rate + 1 <= MAX_RATE

MayDeploy ==
  /\ WantMore
  /\ Hourly < MaxPods /\ RoomFor(Hourly)
  /\ ~OverBudget(bot.spent, Hourly + 1)

(* _launch, one deploy: a pod, a pod over the ceiling that is ended at once,
   no capacity, or a request refused, though a pod may have been made. *)
LaunchOne ==
  /\ bot.pc = "launch" /\ MayDeploy /\ Unmade # {}
  /\ LET p == Min(Unmade)
         up == pods' = [pods EXCEPT ![p] = [NoPod EXCEPT !.st = "waiting_ssh"]]
     IN  \/ cloud' = Made(p) /\ up /\ bot' = [bot EXCEPT !.refusals = 0]
         \/ cloud' = Made(p) /\ up /\ bot' = [EndPod(p, "cancelled", "exit") EXCEPT !.refusals = 0]
         \/ bot' = [bot EXCEPT !.pc = "exit", !.refusals = 0] /\ UNCHANGED <<cloud, pods>>
         \/ /\ cloud' \in {cloud, Made(p)} /\ UNCHANGED pods
            /\ bot' = IF bot.refusals + 1 >= RUNPOD_REFUSALS_MAX
                        THEN Stop
                        ELSE [bot EXCEPT !.pc = "exit", !.refusals = @ + 1]
  /\ UNCHANGED <<log, worker, board, box>>

(* A pass with no deploy: none is wanted or allowed, or the back-off after
   one that came to nothing still runs. *)
LaunchNoMore ==
  /\ bot.pc = "launch"
  /\ \/ Goto("exit")
     \/ bot' = CoordError
  /\ UNCHANGED <<pods, log, cloud, worker, board, box>>

(* Nothing live, nothing to prove, no replay in flight: done. *)
ExitCheck ==
  /\ bot.pc = "exit"
  /\ \/ bot' = CoordError
     \/ bot' = IF Live = {} /\ Pending({}, TRUE) = {} /\ bot.proc = 0 /\ InFlight = {}
                 THEN Stop
                 ELSE [bot EXCEPT !.pc = "look", !.errs = 0]
  /\ UNCHANGED <<pods, log, cloud, worker, board, box>>

-----------------------------------------------------------------------------
(* The end. terminate_all: every pod in memory, then a sweep by this run's  *)
(* prefix for the ones whose deploy was never answered.                    *)

CleanupPod ==
  /\ bot.pc = "cleanup" /\ Live # {}
  /\ bot' = EndPod(Min(Live), "cancelled", "cleanup")
  /\ UNCHANGED <<pods, log, cloud, worker, board, box>>

(* Fault: only what is in memory is swept. *)
NoStrays(listed) == {}

Strays(listed) == IF listed THEN {p \in cloud.alive : cloud.made[p] = bot.run} ELSE {}

CleanupSweep ==
  /\ bot.pc = "cleanup" /\ Live = {}
  /\ \E listed \in BOOLEAN : \E stuck \in SUBSET Strays(listed) :
       /\ cloud' = [cloud EXCEPT !.alive = @ \ (Strays(listed) \ stuck)]
       /\ worker' = [p \in PodId |-> IF p \in Strays(listed) \ stuck THEN {} ELSE worker[p]]
       /\ bot' = [FreshBot(bot.run, bot.max) EXCEPT !.pc = "ended", !.unconfirmed = bot.unconfirmed \cup stuck, !.swept = listed]
  /\ UNCHANGED <<pods, log, board, box>>

(* Rows the interrupted _assign has inserted stay open, the commit of the
   cleanup making good the ones not committed yet: no pod is known to have
   their blocks. *)
Torn(kept) ==
  [log EXCEPT !.row = [r \in Heights \X PodId |-> IF r[2] = bot.pod /\ r[1] \in bot.chunk \ kept THEN NoRow ELSE log.row[r]],
              !.lost = @ \cup (kept \X {bot.pod})]

(* SIGINT, SIGTERM or an error nobody catches, anywhere in the loop: also
   between a deploy and its answer, between the rows of a chunk and the pod
   they are for, and inside a termination. *)
Signal ==
  /\ bot.pc \in {"look", "observe", "regen", "assign", "given", "launch", "exit"}
     \/ (bot.pc \in {"ask", "confirm"} /\ bot.ret # "cleanup")
  /\ bot' = Stop
  /\ cloud' \in {cloud} \cup (IF bot.pc = "launch" /\ MayDeploy /\ Unmade # {} THEN {Made(Min(Unmade))} ELSE {})
  /\ IF bot.pc = "given" THEN \E kept \in SUBSET bot.chunk : log' = Torn(kept) ELSE UNCHANGED log
  /\ UNCHANGED <<pods, worker, board, box>>

(* SIGKILL, or the machine going down: nothing is cleaned up, and nothing of
   what is in flight is known to the next run. *)
Kill ==
  /\ Up /\ bot.run < bot.max
  /\ bot' = [FreshBot(bot.run, bot.max) EXCEPT !.pc = "dead"]
  /\ pods' = [p \in PodId |-> NoPod]
  /\ log' = [log EXCEPT !.lost = {r \in Heights \X PodId : log.row[r].out = "open"}]
  /\ UNCHANGED <<cloud, worker, board, box>>

Restart ==
  /\ ~Up /\ bot.run < bot.max
  /\ bot' = FreshBot(bot.run + 1, bot.max)
  /\ pods' = [p \in PodId |-> NoPod]
  /\ UNCHANGED <<log, cloud, worker, board, box>>

-----------------------------------------------------------------------------
(* Outside the process: external. What moves there is seen only where the   *)
(* bot asks, so it moves before a look, before work is given out, and       *)
(* before the end of a pod is confirmed.                                   *)

Lands(h) ==
  /\ board' = [board EXCEPT !.covered = @ \cup {h}]
  /\ log' = [log EXCEPT !.row = [r \in Heights \X PodId |->
               IF r[1] = h /\ log.row[r].out \in Closed \cup {"open"} /\ r[2] \notin log.ended
                 THEN [log.row[r] EXCEPT !.landed = TRUE] ELSE log.row[r]]]

(* A worker submits a block under its sponsorship's key. *)
WorkerProves ==
  /\ bot.pc \in {"look", "assign", "confirm"}
  /\ \E p \in cloud.alive : \E h \in worker[p] \ board.covered : Lands(h)
  /\ UNCHANGED <<bot, pods, cloud, worker, box>>

(* Somebody else proves it, or a sponsorship loses its hold. *)
BoardMoves ==
  /\ bot.pc \in {"look", "assign"}
  /\ \/ \E h \in Heights \ board.covered : board' = [board EXCEPT !.covered = @ \cup {h}]
     \/ \E s \in board.held : board' = [board EXCEPT !.held = @ \ {s}]
  /\ UNCHANGED <<bot, pods, log, cloud, worker, box>>

ReplayStep ==
  /\ bot.pc = "look"
  /\ \E h \in Heights :
       /\ box.replay[h] # "none"
       /\ \/ box.replay[h] = "script" /\ box' = [box EXCEPT !.replay[h] = "bridge"]
          \/ box.replay[h] = "bridge" /\ box' = [box EXCEPT !.replay[h] = "none", !.bundles = @ \cup {h}]
          \/ box' = [box EXCEPT !.replay[h] = "none"]
  /\ UNCHANGED <<bot, pods, log, cloud, worker, board>>

Pass ==
  \/ Start \/ Look \/ ObservePod \/ Budget \/ Regen \/ Assign \/ Give \/ LaunchOne \/ LaunchNoMore \/ ExitCheck
  \/ TermAsk \/ TermConfirm \/ CleanupPod \/ CleanupSweep

Next == Pass \/ Signal \/ Kill \/ Restart \/ WorkerProves \/ BoardMoves \/ ReplayStep

Spec == Init /\ [][Next]_vars

-----------------------------------------------------------------------------
(* Money is the dangerous part: every pod is given back on every orderly
   end, also one ended in the middle of a deploy or of a termination, or one
   whose deploy was refused though it was made. What is left running is
   named to the operator, unless the provider would not list the pods. *)
EndedMeansGivenBack ==
  bot.pc = "ended" =>
    \A p \in cloud.alive : cloud.made[p] = bot.run => p \in bot.unconfirmed \/ (~bot.swept /\ p \notin log.ended)

(* The log is what the price of a block is measured from: a block is counted
   as proven once, whatever pods it was given to, over every run. *)
CountedOnce ==
  \A h \in Heights : Cardinality({p \in PodId : log.row[<<h, p>>].out = "proven"}) <= 1

(* A row is in flight exactly while a pod of the bot has the block or is
   being given it, and one that a signal or a kill took from its pod stays so
   for good: a restart corrects closed rows only. *)
OpenRowsAreAccountedFor ==
  \A h \in Heights, p \in PodId :
    log.row[<<h, p>>].out = "open" <=>
      \/ h \in pods[p].assigned
      \/ bot.pc = "given" /\ p = bot.pod /\ h \in bot.chunk
      \/ <<h, p>> \in log.lost

(* The total cap: by the bot's own figures, what was spent stays below it,
   the next look being never later than the lead the bot allows for. *)
SpendBelowCap ==
  bot.spent < MAX_USD
=============================================================================
