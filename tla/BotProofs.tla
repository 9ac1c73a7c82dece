----------------------------- MODULE BotProofs -----------------------------
(***************************************************************************)
(* Proofs about SponsorBot: whatever is sponsored, however many pods are   *)
(* rented and wherever the bot is stopped, killed and started again, every *)
(* pod is given back or named, a block is counted as proven once, a row is *)
(* in flight exactly while a pod has the block or when it was taken from   *)
(* its pod, and what was spent stays below the cap.                        *)
(***************************************************************************)
EXTENDS SponsorBot, TLAPS, FiniteSetTheorems, WellFoundedInduction

-----------------------------------------------------------------------------
(* Types. (What the box, the workers and the replay queue hold, and what   *)
(* else the process counts, is not looked into.)                           *)

BotPc ==
  {"start", "look", "observe", "regen", "assign", "given", "launch", "exit", "ask", "confirm", "cleanup", "ended",
   "dead"}

Process(max, proc) ==
  [pc : BotPc, run : Nat, max : {max}, left : SUBSET PodId, pod : PodId \cup {0}, chunk : SUBSET Heights,
   why : Closed \cup {""},
   ret : {"", "observe", "assign", "exit", "cleanup"}, ok : BOOLEAN, errs : Nat, refusals : Nat, spent : Nat,
   proc : {proc}, unconfirmed : SUBSET PodId, swept : BOOLEAN]

LivePod == {"waiting_ssh", "booting", "idle", "working"}

PodState ==
  [st : LivePod \cup {"none", "terminated"}, assigned : SUBSET Heights, age : Nat, fin : BOOLEAN]

Row == [out : {"none", "open", "proven"} \cup Closed, landed : BOOLEAN]

Rows == [Heights \X PodId -> Row]

BotTyped ==
  /\ bot \in Process(bot.max, bot.proc)
  /\ pods \in [PodId -> PodState]
  /\ log \in [row : Rows, ended : SUBSET PodId, queue : {log.queue}, lost : SUBSET (Heights \X PodId)]
  /\ cloud \in [alive : SUBSET PodId, made : [PodId -> Nat]]
  /\ board \in [covered : {board.covered}, held : {board.held}]

-----------------------------------------------------------------------------
(* The invariants.                                                         *)

(* A pod the bot has in memory is one of this run, and only a working one
   has blocks. *)
PodsSound ==
  /\ bot.run >= 1
  /\ \A p \in PodId :
       /\ cloud.made[p] <= bot.run
       /\ pods[p].st \in LivePod => cloud.made[p] = bot.run
       /\ pods[p].st # "working" => pods[p].assigned = {}
       /\ bot.pc = "start" => cloud.made[p] # bot.run
       /\ bot.pc \in {"ended", "dead"} => p \notin Live

(* Blocks on their way to an idle pod: nobody has them, and none is proven. *)
ChunkSound(p, c) ==
  /\ p \in Live /\ pods[p].st = "idle" /\ c \subseteq Heights
  /\ \A q \in PodId : c \cap pods[q].assigned = {}
  /\ \A h \in c, q \in PodId : log.row[<<h, q>>].out # "proven"
  /\ \A h \in c : <<h, p>> \notin log.lost

(* The pod being ended, and the one being given work. *)
HandSound ==
  /\ bot.pc \in {"ask", "confirm"} => bot.pod \in Live /\ bot.why \in Closed /\ bot.ret # ""
  /\ bot.pc = "confirm" => pods[bot.pod].assigned = {}
  /\ bot.pc = "given" => ChunkSound(bot.pod, bot.chunk)

(* Nothing is given out any more. *)
Ending ==
  \/ bot.pc \in {"cleanup", "ended", "dead"}
  \/ bot.pc \in {"ask", "confirm"} /\ bot.ret = "cleanup"

Outcome(h, p) == log.row[<<h, p>>].out

(* A lost row is no pod's, and one of this run only at its end. *)
LostSound ==
  /\ \A h \in Heights, p \in PodId : <<h, p>> \in log.lost => h \notin pods[p].assigned
  /\ ~Ending => \A h \in Heights, p \in PodId : <<h, p>> \in log.lost => cloud.made[p] # bot.run

(* A block is with one pod at a time, and no more once it is proven. *)
RowsSound ==
  /\ \A h \in Heights, p \in PodId : Outcome(h, p) = "proven" => h \in board.covered
  /\ \A p, q \in PodId : p # q => pods[p].assigned \cap pods[q].assigned = {}
  /\ \A p, q \in PodId : \A h \in pods[p].assigned : Outcome(h, q) # "proven"
  /\ \A h \in Heights, p, q \in PodId : Outcome(h, p) = "proven" /\ Outcome(h, q) = "proven" => p = q
  /\ \A h \in Heights, p \in PodId : cloud.made[p] = 0 => Outcome(h, p) # "open"
  /\ LostSound

(* A pod that was ended and may be alive is one the bot names. *)
GivenSound ==
  /\ \A p \in log.ended : cloud.made[p] # 0
  /\ bot.pc # "dead" => \A p \in cloud.alive \cap log.ended : cloud.made[p] = bot.run => p \in bot.unconfirmed

(* Outside an observation the next look is paid for. *)
Ahead ==
  \/ bot.pc \in {"start", "look", "regen", "assign", "given", "launch", "exit"}
  \/ bot.pc \in {"ask", "confirm"} /\ bot.ret \in {"assign", "exit"}

SpendSound ==
  /\ bot.spent < MAX_USD
  /\ Ahead => bot.spent + Hourly * LEAD < MAX_USD

BotInv ==
  /\ BotTyped /\ PodsSound /\ HandSound /\ RowsSound /\ OpenRowsAreAccountedFor
  /\ GivenSound /\ EndedMeansGivenBack /\ SpendSound
-----------------------------------------------------------------------------
(* Operators.                                                              *)

LEMMA Caps ==
  /\ MaxRented \in Nat /\ Heights \subseteq Nat /\ MAX_USD \in Nat \ {0} /\ LEAD \in Nat \ {0}
  /\ PodId \subseteq Nat \ {0} /\ IsFiniteSet(PodId)
<1>1. MaxRented \in Nat /\ Heights \subseteq Nat /\ MAX_USD \in Nat \ {0} /\ LEAD \in Nat \ {0}
  BY BotAssumption
<1>2. PodId \subseteq Nat \ {0} /\ IsFiniteSet(PodId)
  BY <1>1, FS_Interval DEF PodId
<1> QED
  BY <1>1, <1>2

(* The smallest of a set of naturals is one of them. *)
LEMMA MinIn ==
  ASSUME NEW S, S \subseteq Nat, S # {}
  PROVE  Min(S) \in S
<1>1. \E x \in S : \A y \in S : <<y, x>> \notin OpToRel(<, Nat)
  BY NatLessThanWellFounded, WFMin, Zenon
<1>2. \A x, y \in Nat : x < y => <<x, y>> \in OpToRel(<, Nat)
  BY Zenon DEF OpToRel
<1>3. PICK least \in S : \A y \in S : ~(y < least)
  BY <1>1, <1>2, Zenon
<1>4. \E x \in S : \A y \in S : x <= y
  BY <1>3
<1> QED
  BY <1>4, Zenon DEF Min

LEMMA Longer ==
  ASSUME NEW a \in Nat, NEW b \in Nat, NEW k \in Nat, a <= b
  PROVE  a * k <= b * k /\ a * k \in Nat /\ b * k \in Nat
<1>1. PICK d \in Nat : b = a + d
  BY b - a \in Nat, b = a + (b - a)
<1>2. b * k = a * k + d * k
  BY <1>1
<1>3. a * k \in Nat /\ d * k \in Nat
  OBVIOUS
<1> QED
  BY <1>2, <1>3

(* What the live pods cost. *)
LEMMA HourlyIs ==
  /\ Hourly \in Nat /\ IsFiniteSet(Live)
  /\ Hourly' \in Nat /\ IsFiniteSet(Live')
  /\ Live' \subseteq Live => Hourly' <= Hourly
  /\ \A p : Live' \subseteq Live \cup {p} => Hourly' <= Hourly + 1
  /\ Live = {} => Hourly = 0
  /\ Live' = {} => Hourly' = 0
<1>1. Live \subseteq PodId /\ Live' \subseteq PodId
  BY DEF Live, PodId
<1>2. IsFiniteSet(Live) /\ IsFiniteSet(Live')
  BY <1>1, Caps, FS_Subset
<1>3. Hourly = Cardinality(Live) /\ Hourly' = Cardinality(Live')
  BY DEF Hourly
<1> HIDE DEF Live, Hourly
<1>4. Hourly \in Nat /\ Hourly' \in Nat
  BY <1>2, <1>3, FS_CardinalityType
<1>5. Live' \subseteq Live => Hourly' <= Hourly
  BY <1>2, <1>3, FS_Subset
<1>6. ASSUME NEW p, Live' \subseteq Live \cup {p} PROVE Hourly' <= Hourly + 1
  <2>1. IsFiniteSet(Live \cup {p}) /\ Cardinality(Live \cup {p}) <= Cardinality(Live) + 1
    BY <1>2, <1>3, <1>4, FS_AddElement
  <2>2. Cardinality(Live') <= Cardinality(Live \cup {p})
    BY <1>6, <2>1, FS_Subset
  <2>3. Cardinality(Live \cup {p}) \in Nat
    BY <2>1, FS_CardinalityType
  <2> QED
    BY <1>3, <1>4, <2>1, <2>2, <2>3
<1>7. (Live = {} => Hourly = 0) /\ (Live' = {} => Hourly' = 0)
  BY <1>3, FS_EmptySet
<1> QED
  BY <1>2, <1>4, <1>5, <1>6, <1>7

LEMMA SpendKept ==
  ASSUME SpendSound, bot.spent \in Nat, Live' \subseteq Live,
         \/ bot'.spent = bot.spent /\ (Ahead' => Ahead)
         \/ bot'.spent = 0 /\ ~Ahead'
  PROVE  SpendSound'
<1>1. MAX_USD \in Nat \ {0} /\ LEAD \in Nat
  BY Caps
<1>2. Hourly' * LEAD <= Hourly * LEAD /\ Hourly' * LEAD \in Nat /\ Hourly * LEAD \in Nat
  BY <1>1, HourlyIs, Longer
<1> QED
  BY <1>1, <1>2 DEF SpendSound

-----------------------------------------------------------------------------
(* What the bot's moves do to its own state.                               *)

LEMMA StopIs ==
  ASSUME bot \in Process(bot.max, bot.proc)
  PROVE  /\ Stop \in Process(bot.max, bot.proc) /\ Stop.pc = "cleanup" /\ Stop.spent = 0
         /\ Stop.run = bot.run /\ Stop.unconfirmed = bot.unconfirmed
<1>1. "cleanup" \in BotPc /\ {} \in SUBSET PodId
  BY DEF BotPc
<1> QED
  BY <1>1 DEF Stop, Process

LEMMA CoordErrorIs ==
  ASSUME bot \in Process(bot.max, bot.proc)
  PROVE  /\ CoordError \in Process(bot.max, bot.proc)
         /\ CoordError.run = bot.run /\ CoordError.unconfirmed = bot.unconfirmed
         /\ \/ CoordError.pc = "cleanup" /\ CoordError.spent = 0
            \/ /\ CoordError.pc = IF bot.pc \in {"look", "observe"} THEN "observe" ELSE "look"
               /\ CoordError.spent = bot.spent
<1> DEFINE e == bot.errs + 1
           to == IF bot.pc \in {"look", "observe"} THEN "observe" ELSE "look"
<1>1. e \in Nat /\ to \in BotPc
  <2>1. bot.errs \in Nat
    BY DEF Process
  <2>2. e \in Nat
    BY <2>1
  <2>3. to \in BotPc
    BY DEF BotPc
  <2> QED
    BY <2>2, <2>3
<1>2. CASE CoordError = Stop
  BY <1>2, StopIs
<1>3. CASE CoordError = [bot EXCEPT !.errs = e, !.left = {}, !.ok = FALSE, !.pc = to]
  <2> HIDE DEF e, to
  <2>1. /\ CoordError \in Process(bot.max, bot.proc) /\ CoordError.pc = to
        /\ CoordError.run = bot.run /\ CoordError.unconfirmed = bot.unconfirmed /\ CoordError.spent = bot.spent
    BY <1>1, <1>3 DEF Process
  <2> QED
    BY <2>1 DEF to
<1>4. CoordError = Stop \/ CoordError = [bot EXCEPT !.errs = e, !.left = {}, !.ok = FALSE, !.pc = to]
  BY DEF CoordError
<1> QED
  BY <1>2, <1>3, <1>4

LEMMA EndPodIs ==
  ASSUME bot \in Process(bot.max, bot.proc), NEW p \in PodId, NEW why \in Closed,
         NEW ret \in {"observe", "assign", "exit", "cleanup"}
  PROVE  /\ EndPod(p, why, ret) \in Process(bot.max, bot.proc) /\ EndPod(p, why, ret).pc = "ask"
         /\ EndPod(p, why, ret).pod = p /\ EndPod(p, why, ret).why = why /\ EndPod(p, why, ret).ret = ret
         /\ EndPod(p, why, ret).run = bot.run /\ EndPod(p, why, ret).unconfirmed = bot.unconfirmed
         /\ EndPod(p, why, ret).spent = bot.spent
<1>1. "ask" \in BotPc
  BY DEF BotPc
<1> QED
  BY <1>1 DEF EndPod, Process

LEMMA TypedAs ==
  ASSUME NEW m, NEW r, NEW d \in Process(m, r)
  PROVE  d \in Process(d.max, d.proc) /\ d.max = m /\ d.proc = r
  BY DEF Process

-----------------------------------------------------------------------------
(* Frames.                                                                 *)

(* The blocks of every pod, and the outcome of every row, as they were. *)
RowsStay ==
  /\ log'.lost = log.lost
  /\ \A p \in PodId : pods'[p].assigned = pods[p].assigned
  /\ \A r \in Heights \X PodId : log'.row[r].out = log.row[r].out

LEMMA RowsFrame ==
  ASSUME BotInv, RowsStay, bot.pc \notin {"given", "dead"}, bot'.pc # "given", bot'.run = bot.run,
         Ending => Ending', board.covered \subseteq board'.covered,
         \A p \in PodId : cloud'.made[p] = cloud.made[p] \/ (cloud.made[p] = 0 /\ cloud'.made[p] = bot.run)
  PROVE  RowsSound' /\ OpenRowsAreAccountedFor'
<1>1. \A h \in Heights, p \in PodId : log'.row[<<h, p>>].out = log.row[<<h, p>>].out
  BY DEF RowsStay
<1>2. \A p \in PodId : pods'[p].assigned = pods[p].assigned
  BY DEF RowsStay
<1>3. \A p \in PodId : pods[p].assigned \subseteq Heights
  BY DEF BotInv, BotTyped, PodState
<1>4. \A h \in Heights, p \in PodId : log.row[<<h, p>>].out = "proven" => h \in board.covered
  BY DEF BotInv, RowsSound, Outcome
<1>5. \A p, q \in PodId : p # q => pods[p].assigned \cap pods[q].assigned = {}
  BY DEF BotInv, RowsSound
<1>6. \A p, q \in PodId : \A h \in pods[p].assigned : log.row[<<h, q>>].out # "proven"
  BY DEF BotInv, RowsSound, Outcome
<1>7. \A h \in Heights, p, q \in PodId :
        log.row[<<h, p>>].out = "proven" /\ log.row[<<h, q>>].out = "proven" => p = q
  BY DEF BotInv, RowsSound, Outcome
<1>8. \A h \in Heights, p \in PodId : cloud.made[p] = 0 => log.row[<<h, p>>].out # "open"
  BY DEF BotInv, RowsSound, Outcome
<1>9. \A p \in PodId : cloud.made[p] = 0 => pods[p].assigned = {}
  BY DEF BotInv, PodsSound, LivePod
<1>10. /\ \A h \in Heights, p \in PodId :
            log.row[<<h, p>>].out = "open" <=> h \in pods[p].assigned \/ <<h, p>> \in log.lost
       /\ log'.lost = log.lost
  BY DEF BotInv, OpenRowsAreAccountedFor, RowsStay
<1>11. RowsSound'
  <2>1. bot.run # 0
    BY DEF BotInv, PodsSound
  <2>2. LostSound'
    <3>1. /\ \A h \in Heights, p \in PodId : <<h, p>> \in log.lost => h \notin pods[p].assigned
          /\ ~Ending => \A h \in Heights, p \in PodId : <<h, p>> \in log.lost => cloud.made[p] # bot.run
      BY DEF BotInv, RowsSound, LostSound
    <3>2. \A h \in Heights, p \in PodId : <<h, p>> \in log.lost => cloud'.made[p] = cloud.made[p]
      BY <1>8, <1>10
    <3> QED
      BY <1>2, <1>10, <3>1, <3>2 DEF LostSound
  <2> QED
    BY <1>1, <1>2, <1>3, <1>4, <1>5, <1>6, <1>7, <1>8, <2>1, <2>2 DEF RowsSound, Outcome
<1>12. OpenRowsAreAccountedFor'
  BY <1>1, <1>2, <1>10 DEF OpenRowsAreAccountedFor
<1> QED
  BY <1>11, <1>12

LEMMA NotEnding == bot.pc \notin {"ask", "confirm", "cleanup", "ended", "dead"} => ~Ending
  BY DEF Ending

(* A step of the process that leaves the pods, the log, and the cloud alone. *)
LEMMA BotMoves ==
  ASSUME BotInv, bot.pc \notin {"start", "given", "dead", "ended"},
         bot' \in Process(bot'.max, bot'.proc), bot'.run = bot.run, bot'.unconfirmed = bot.unconfirmed,
         bot'.pc \notin {"start", "given", "dead", "ended"}, Ending => Ending',
         UNCHANGED <<pods, cloud, board>>, log' = [log EXCEPT !.queue = log'.queue],
         HandSound', SpendSound'
  PROVE  BotInv'
<1>1. /\ log'.row = log.row /\ log'.ended = log.ended
      /\ (log \in [row : Rows, ended : SUBSET PodId, queue : {log.queue}, lost : SUBSET (Heights \X PodId)])'
  BY DEF BotInv, BotTyped
<1>2. BotTyped'
  BY <1>1 DEF BotInv, BotTyped
<1>3. PodsSound'
  BY DEF BotInv, PodsSound, Live
<1>4. RowsSound' /\ OpenRowsAreAccountedFor'
  BY <1>1, RowsFrame DEF RowsStay
<1>5. GivenSound' /\ EndedMeansGivenBack'
  BY <1>1 DEF BotInv, GivenSound, EndedMeansGivenBack
<1> QED
  BY <1>2, <1>3, <1>4, <1>5 DEF BotInv

(* The same, to a place where nothing is in hand and no more is spent. *)
LEMMA BotGoes ==
  ASSUME BotInv, bot.pc \notin {"start", "given", "dead", "ended"},
         bot' \in Process(bot'.max, bot'.proc), bot'.run = bot.run, bot'.unconfirmed = bot.unconfirmed,
         bot'.pc \in {"look", "observe", "regen", "assign", "launch", "exit", "cleanup"}, Ending => Ending',
         UNCHANGED <<pods, cloud, board>>, log' = [log EXCEPT !.queue = log'.queue],
         \/ bot'.spent = bot.spent /\ (Ahead' => Ahead)
         \/ bot'.spent = 0 /\ ~Ahead'
  PROVE  BotInv'
<1>1. HandSound'
  BY DEF HandSound
<1>2. SpendSound'
  <2>1. bot.spent \in Nat /\ SpendSound
    BY DEF BotInv, BotTyped, Process
  <2>2. Live' = Live
    BY DEF Live
  <2> QED
    BY <2>1, <2>2, SpendKept
<1> QED
  BY <1>1, <1>2, BotMoves

LEMMA LogAlone == BotTyped /\ log' = log => log' = [log EXCEPT !.queue = log'.queue]
  BY DEF BotTyped

LEMMA Fails ==
  ASSUME BotInv, bot.pc \in {"observe", "assign", "launch", "exit"}, bot' = CoordError,
         UNCHANGED <<pods, log, cloud, board>>
  PROVE  BotInv'
<1>1. bot \in Process(bot.max, bot.proc)
  BY DEF BotInv, BotTyped
<1>2. /\ bot' \in Process(bot'.max, bot'.proc) /\ bot'.run = bot.run /\ bot'.unconfirmed = bot.unconfirmed
      /\ \/ bot'.pc = "cleanup" /\ bot'.spent = 0
         \/ /\ bot'.pc = IF bot.pc \in {"look", "observe"} THEN "observe" ELSE "look"
            /\ bot'.spent = bot.spent
  BY <1>1, CoordErrorIs, TypedAs
<1>3. \/ bot'.spent = bot.spent /\ (Ahead' => Ahead)
      \/ bot'.spent = 0 /\ ~Ahead'
  BY <1>2 DEF Ahead
<1>4. log' = [log EXCEPT !.queue = log'.queue]
  BY LogAlone DEF BotInv
<1> QED
  BY <1>2, <1>3, <1>4, NotEnding, BotGoes

-----------------------------------------------------------------------------
(* Moves of the process alone.                                             *)

LEMMA BudgetKeeps == BotInv /\ Budget => BotInv'
<1> SUFFICES ASSUME BotInv, Budget PROVE BotInv'
  OBVIOUS
<1>1. bot \in Process(bot.max, bot.proc) /\ BotTyped
  BY DEF BotInv, BotTyped
<1>2. /\ bot.pc = "observe" /\ UNCHANGED <<pods, log, cloud, worker, board, box>>
      /\ bot' = IF OverBudget(bot.spent, Hourly) THEN Stop
                ELSE [bot EXCEPT !.pc = IF bot.ok THEN "regen" ELSE "look", !.left = {}, !.ok = TRUE]
  BY DEF Budget
<1>3. log' = [log EXCEPT !.queue = log'.queue]
  BY <1>1, <1>2, LogAlone
<1>4. CASE OverBudget(bot.spent, Hourly)
  <2>1. bot' \in Process(bot'.max, bot'.proc) /\ bot'.pc = "cleanup" /\ bot'.spent = 0
        /\ bot'.run = bot.run /\ bot'.unconfirmed = bot.unconfirmed
    BY <1>1, <1>2, <1>4, StopIs, TypedAs
  <2>2. ~Ahead'
    BY <2>1 DEF Ahead
  <2> QED
    BY <1>2, <1>3, <2>1, <2>2, NotEnding, BotGoes
<1>5. CASE ~OverBudget(bot.spent, Hourly)
  <2> DEFINE to == IF bot.ok THEN "regen" ELSE "look"
  <2>1. to \in {"regen", "look"} /\ to \in BotPc
    BY DEF BotPc
  <2>2. bot' = [bot EXCEPT !.pc = to, !.left = {}, !.ok = TRUE]
    BY <1>2, <1>5
  <2> HIDE DEF to
  <2>3. bot' \in Process(bot'.max, bot'.proc) /\ bot'.pc = to /\ bot'.spent = bot.spent
        /\ bot'.run = bot.run /\ bot'.unconfirmed = bot.unconfirmed
    BY <1>1, <2>1, <2>2 DEF Process
  <2>4. HandSound'
    BY <2>1, <2>3 DEF HandSound
  <2>5. bot.spent + Hourly * LEAD < MAX_USD
    <3>1. MAX_USD \in Nat /\ LEAD \in Nat /\ Hourly \in Nat /\ bot.spent \in Nat
      BY <1>1, Caps, HourlyIs DEF Process
    <3>2. Hourly * LEAD \in Nat
      BY <3>1
    <3> QED
      BY <1>5, <3>1, <3>2 DEF OverBudget
  <2>6. SpendSound'
    <3>1. Hourly' = Hourly
      BY <1>2 DEF Hourly, Live
    <3> QED
      BY <2>3, <2>5, <3>1 DEF BotInv, SpendSound
  <2>7. bot'.pc \notin {"start", "given", "dead", "ended"}
    BY <2>1, <2>3
  <2> QED
    BY <1>2, <1>3, <2>3, <2>4, <2>6, <2>7, NotEnding, BotMoves
<1> QED
  BY <1>4, <1>5

LEMMA RegenKeeps == BotInv /\ Regen => BotInv'
<1> SUFFICES ASSUME BotInv, Regen PROVE BotInv'
  OBVIOUS
<1>1. bot \in Process(bot.max, bot.proc) /\ BotTyped /\ "assign" \in BotPc
  BY DEF BotInv, BotTyped, BotPc
<1>2. bot.pc = "regen" /\ UNCHANGED <<pods, cloud, worker, board>>
  BY DEF Regen
<1>3. /\ \E r : bot' = [bot EXCEPT !.proc = r, !.pc = "assign"]
      /\ \E q : log' = [log EXCEPT !.queue = q]
  <2>1. bot' = [bot EXCEPT !.pc = "assign"] => bot' = [bot EXCEPT !.proc = bot.proc, !.pc = "assign"]
    BY <1>1 DEF Process
  <2>2. log' = log => log' = [log EXCEPT !.queue = log.queue]
    BY <1>1 DEF BotTyped
  <2>3. CASE bot.proc # 0 /\ box.replay[bot.proc] # "none"
    BY <2>1, <2>2, <2>3 DEF Regen, Goto
  <2>4. CASE bot.proc # 0 /\ box.replay[bot.proc] = "none"
    <3>1. /\ log' = [log EXCEPT !.queue[bot.proc] = IF bot.proc \in box.bundles THEN "done" ELSE "failed"]
          /\ bot' = [bot EXCEPT !.proc = 0, !.pc = "assign"]
      BY <2>4 DEF Regen
    <3>2. log' = [log EXCEPT !.queue = [log.queue EXCEPT ![bot.proc] = IF bot.proc \in box.bundles THEN "done" ELSE "failed"]]
      BY <3>1
    <3> QED
      BY <3>1, <3>2
  <2>5. CASE bot.proc = 0 /\ InFlight = {} /\ Waiting # {} /\ ~BridgeRunning
    <3>1. \/ /\ log' = [log EXCEPT !.queue[Min(Waiting)] = "refused"]
             /\ bot' = [bot EXCEPT !.pc = "assign"]
          \/ /\ log' = [log EXCEPT !.queue[Min(Waiting)] = "running"]
             /\ bot' = [bot EXCEPT !.proc = Min(Waiting), !.pc = "assign"]
      BY <2>5 DEF Regen, Goto
    <3>2. \E q : log' = [log EXCEPT !.queue = q]
      <4>1. CASE log' = [log EXCEPT !.queue[Min(Waiting)] = "refused"]
        <5>1. log' = [log EXCEPT !.queue = [log.queue EXCEPT ![Min(Waiting)] = "refused"]]
          BY <4>1
        <5> QED
          BY <5>1
      <4>2. CASE log' = [log EXCEPT !.queue[Min(Waiting)] = "running"]
        <5>1. log' = [log EXCEPT !.queue = [log.queue EXCEPT ![Min(Waiting)] = "running"]]
          BY <4>2
        <5> QED
          BY <5>1
      <4> QED
        BY <3>1, <4>1, <4>2
    <3> QED
      BY <2>1, <3>1, <3>2
  <2>6. CASE /\ ~(bot.proc # 0 /\ box.replay[bot.proc] # "none") /\ ~(bot.proc # 0 /\ box.replay[bot.proc] = "none")
             /\ ~(bot.proc = 0 /\ InFlight = {} /\ Waiting # {} /\ ~BridgeRunning)
    BY <2>1, <2>2, <2>6 DEF Regen, Goto
  <2> QED
    BY <2>3, <2>4, <2>5, <2>6
<1>4. PICK r : bot' = [bot EXCEPT !.proc = r, !.pc = "assign"]
  BY <1>3
<1>5. PICK q : log' = [log EXCEPT !.queue = q]
  BY <1>3
<1>6. log' = [log EXCEPT !.queue = log'.queue]
  BY <1>1, <1>5 DEF BotTyped
<1>7. bot' \in Process(bot'.max, bot'.proc) /\ bot'.pc = "assign" /\ bot'.spent = bot.spent
      /\ bot'.run = bot.run /\ bot'.unconfirmed = bot.unconfirmed
  BY <1>1, <1>4 DEF Process
<1>8. Ahead
  BY <1>2 DEF Ahead
<1> QED
  BY <1>2, <1>6, <1>7, <1>8, NotEnding, BotGoes

LEMMA PassGoesOn == BotInv /\ (LaunchNoMore \/ ExitCheck) => BotInv'
<1> SUFFICES ASSUME BotInv, LaunchNoMore \/ ExitCheck PROVE BotInv'
  OBVIOUS
<1>1. bot \in Process(bot.max, bot.proc) /\ BotTyped
  BY DEF BotInv, BotTyped
<1>2. bot.pc \in {"launch", "exit"} /\ UNCHANGED <<pods, log, cloud, worker, board, box>>
  BY DEF LaunchNoMore, ExitCheck
<1>3. log' = [log EXCEPT !.queue = log'.queue]
  BY <1>1, <1>2, LogAlone
<1>4. CASE bot' = CoordError
  BY <1>2, <1>4, Fails
<1>5. CASE bot' = Stop
  <2>1. bot' \in Process(bot.max, bot.proc) /\ bot'.pc = "cleanup" /\ bot'.spent = 0
         /\ bot'.run = bot.run /\ bot'.unconfirmed = bot.unconfirmed
    BY <1>1, <1>5, StopIs
  <2>2. ~Ahead' /\ bot' \in Process(bot'.max, bot'.proc)
    BY <2>1, TypedAs DEF Ahead
  <2> QED
    BY <1>2, <1>3, <2>1, <2>2, NotEnding, BotGoes
<1>6. CASE bot' = [bot EXCEPT !.pc = "look", !.errs = 0] \/ bot' = [bot EXCEPT !.pc = "exit"]
  <2>1. bot' \in Process(bot'.max, bot'.proc) /\ bot'.pc \in {"look", "exit"} /\ bot'.spent = bot.spent
         /\ bot'.run = bot.run /\ bot'.unconfirmed = bot.unconfirmed
    <3>1. "look" \in BotPc /\ "exit" \in BotPc
      BY DEF BotPc
    <3>2. CASE bot' = [bot EXCEPT !.pc = "look", !.errs = 0]
      BY <1>1, <3>1, <3>2 DEF Process
    <3>3. CASE bot' = [bot EXCEPT !.pc = "exit"]
      BY <1>1, <3>1, <3>3 DEF Process
    <3> QED
      BY <1>6, <3>2, <3>3
  <2>2. Ahead
    BY <1>2 DEF Ahead
  <2> QED
    BY <1>2, <1>3, <2>1, <2>2, NotEnding, BotGoes
<1> QED
  BY <1>4, <1>5, <1>6 DEF LaunchNoMore, ExitCheck, Goto

LEMMA CleanupPicks == BotInv /\ CleanupPod => BotInv'
<1> SUFFICES ASSUME BotInv, CleanupPod PROVE BotInv'
  OBVIOUS
<1>1. bot \in Process(bot.max, bot.proc) /\ BotTyped
  BY DEF BotInv, BotTyped
<1>2. bot.pc = "cleanup" /\ Live # {} /\ bot' = EndPod(Min(Live), "cancelled", "cleanup")
      /\ UNCHANGED <<pods, log, cloud, worker, board, box>>
  BY DEF CleanupPod
<1>3. log' = [log EXCEPT !.queue = log'.queue]
  BY <1>1, <1>2, LogAlone
<1>4. Min(Live) \in Live /\ Min(Live) \in PodId
  <2>1. Live \subseteq Nat /\ Live \subseteq PodId
    BY Caps DEF Live
  <2> QED
    BY <1>2, <2>1, MinIn
<1>5. PICK p \in Live : p = Min(Live)
  BY <1>4
<1>6. /\ bot' \in Process(bot.max, bot.proc) /\ bot'.pc = "ask" /\ bot'.pod = p /\ bot'.why = "cancelled"
      /\ bot'.ret = "cleanup" /\ bot'.run = bot.run /\ bot'.unconfirmed = bot.unconfirmed /\ bot'.spent = bot.spent
  <2>1. "cancelled" \in Closed
    BY DEF Closed
  <2> QED
    BY <1>1, <1>2, <1>4, <1>5, <2>1, EndPodIs
<1>7. bot' \in Process(bot'.max, bot'.proc)
  BY <1>6, TypedAs
<1>8. Live' = Live
  BY <1>2 DEF Live
<1>9. HandSound'
  BY <1>6, <1>8 DEF HandSound, Closed
<1>10. SpendSound'
  <2>1. ~Ahead' /\ bot.spent \in Nat
    BY <1>1, <1>6 DEF Ahead, Process
  <2> QED
    BY <1>6, <1>8, <2>1, SpendKept DEF BotInv
<1> QED
  <2>1. Ending'
    BY <1>6 DEF Ending
  <2> QED
    BY <1>2, <1>3, <1>6, <1>7, <1>9, <1>10, <2>1, BotMoves

LEMMA Outside == BotInv /\ (BoardMoves \/ WorkerProves \/ ReplayStep) => BotInv'
<1> SUFFICES ASSUME BotInv, BoardMoves \/ WorkerProves \/ ReplayStep PROVE BotInv'
  OBVIOUS
<1>1. UNCHANGED <<bot, pods, cloud>> /\ bot.pc \in {"look", "assign", "confirm"} /\ BotTyped
  BY DEF BotInv, BoardMoves, WorkerProves, ReplayStep
<1>2. /\ log'.ended = log.ended /\ log'.lost = log.lost
      /\ \A r \in Heights \X PodId : log'.row[r].out = log.row[r].out
      /\ (log \in [row : Rows, ended : SUBSET PodId, queue : {log.queue}, lost : SUBSET (Heights \X PodId)])'
  <2>1. CASE log' = log
    BY <1>1, <2>1 DEF BotTyped
  <2>2. CASE log' # log
    <3>1. PICK h : Lands(h)
      BY <2>2 DEF BoardMoves, WorkerProves, ReplayStep
    <3> DEFINE R == [r \in Heights \X PodId |->
                       IF r[1] = h /\ log.row[r].out \in Closed \cup {"open"} /\ r[2] \notin log.ended
                         THEN [log.row[r] EXCEPT !.landed = TRUE] ELSE log.row[r]]
    <3>2. log' = [log EXCEPT !.row = R]
      BY <3>1 DEF Lands
    <3>3. \A r \in Heights \X PodId : log.row[r] \in Row
      BY <1>1 DEF BotTyped, Rows
    <3>4. \A r \in Heights \X PodId : R[r] \in Row /\ R[r].out = log.row[r].out
      BY <3>3 DEF Row
    <3>5. R \in Rows
      BY <3>4 DEF Rows
    <3> HIDE DEF R
    <3> QED
      BY <1>1, <3>2, <3>4, <3>5 DEF BotTyped
  <2> QED
    BY <2>1, <2>2
<1>3. board.covered \subseteq board'.covered /\ (board \in [covered : {board.covered}, held : {board.held}])'
  <2>1. \/ board' = board
        \/ \E h : board' = [board EXCEPT !.covered = board.covered \cup {h}]
        \/ \E s : board' = [board EXCEPT !.held = board.held \ {s}]
    BY DEF BoardMoves, WorkerProves, ReplayStep, Lands
  <2> QED
    BY <1>1, <2>1 DEF BotTyped
<1>4. BotTyped'
  BY <1>1, <1>2, <1>3 DEF BotTyped
<1>5. RowsSound' /\ OpenRowsAreAccountedFor'
  <2>1. RowsStay
    BY <1>1, <1>2 DEF RowsStay
  <2>2. Ending' = Ending
    BY <1>1 DEF Ending
  <2> QED
    BY <1>1, <1>3, <2>1, <2>2, RowsFrame
<1>6. PodsSound' /\ HandSound' /\ SpendSound'
  BY <1>1 DEF BotInv, PodsSound, HandSound, SpendSound, Live, Hourly, Ahead
<1>7. GivenSound' /\ EndedMeansGivenBack'
  BY <1>1, <1>2 DEF BotInv, GivenSound, EndedMeansGivenBack
<1> QED
  BY <1>4, <1>5, <1>6, <1>7 DEF BotInv

-----------------------------------------------------------------------------
(* A look at the pods.                                                     *)

LogTyped == log \in [row : Rows, ended : SUBSET PodId, queue : {log.queue}, lost : SUBSET (Heights \X PodId)]

LEMMA PodsMove ==
  ASSUME BotInv, bot.pc \notin {"start", "given", "dead", "ended"},
         bot' \in Process(bot'.max, bot'.proc), bot'.run = bot.run, bot'.unconfirmed = bot.unconfirmed,
         bot'.pc \notin {"start", "given", "dead", "ended"}, Ending => Ending',
         pods' \in [PodId -> PodState],
         \A p \in PodId : pods'[p].st \in LivePod => pods[p].st \in LivePod,
         \A p \in PodId : pods'[p].st # "working" => pods'[p].assigned = {},
         UNCHANGED <<cloud, board>>, LogTyped', log'.ended = log.ended,
         HandSound', SpendSound', RowsSound', OpenRowsAreAccountedFor'
  PROVE  BotInv'
<1>1. BotTyped'
  BY DEF BotInv, BotTyped, LogTyped
<1>2. PodsSound'
  BY DEF BotInv, PodsSound, Live
<1>3. GivenSound' /\ EndedMeansGivenBack'
  BY DEF BotInv, GivenSound, EndedMeansGivenBack
<1> QED
  BY <1>1, <1>2, <1>3 DEF BotInv

(* The blocks of D leave the pod p, their rows closed: those of L proven. *)
RowsLeave(p, D, L) ==
  /\ D \subseteq pods[p].assigned /\ L \subseteq D \cap board.covered
  /\ pods'[p].assigned = pods[p].assigned \ D
  /\ \A q \in PodId : q # p => pods'[q].assigned = pods[q].assigned
  /\ \A r \in Heights \X PodId :
       IF r[2] # p \/ r[1] \notin D \/ log.row[r].out # "open" THEN log'.row[r].out = log.row[r].out
       ELSE IF r[1] \in L THEN log'.row[r].out = "proven" ELSE log'.row[r].out \in Closed

(* Some of a pod's blocks leave it, each with its row closed. *)
LEMMA RowsClose ==
  ASSUME BotInv, bot.pc \notin {"given", "dead"}, bot'.pc # "given", bot'.run = bot.run, Ending => Ending',
         UNCHANGED <<cloud, board>>, log'.lost = log.lost, NEW p \in Live, NEW D, NEW L, RowsLeave(p, D, L)
  PROVE  RowsSound' /\ OpenRowsAreAccountedFor'
<1>1. p \in PodId /\ cloud.made[p] = bot.run
  BY DEF BotInv, PodsSound, Live, LivePod
<1>2. \A q \in PodId : pods[q].assigned \subseteq Heights
  BY DEF BotInv, BotTyped, PodState
<1>3. \A h \in Heights, q \in PodId :
        \/ log'.row[<<h, q>>].out = log.row[<<h, q>>].out /\ (q # p \/ h \notin D \/ log.row[<<h, q>>].out # "open")
        \/ q = p /\ h \in L /\ log'.row[<<h, q>>].out = "proven"
        \/ q = p /\ h \in D /\ log'.row[<<h, q>>].out \in Closed
  <2> TAKE h \in Heights, q \in PodId
  <2>1. <<h, q>> \in Heights \X PodId /\ <<h, q>>[1] = h /\ <<h, q>>[2] = q
    OBVIOUS
  <2> QED
    BY <2>1 DEF RowsLeave
<1>4. "proven" \notin Closed /\ "open" \notin Closed
  BY DEF Closed
<1>5. \A h \in Heights, q \in PodId : log.row[<<h, q>>].out = "proven" => h \in board.covered
  BY DEF BotInv, RowsSound, Outcome
<1>6. \A q, r \in PodId : q # r => pods[q].assigned \cap pods[r].assigned = {}
  BY DEF BotInv, RowsSound
<1>7. \A q, r \in PodId : \A h \in pods[q].assigned : log.row[<<h, r>>].out # "proven"
  BY DEF BotInv, RowsSound, Outcome
<1>8. \A h \in Heights, q, r \in PodId :
        log.row[<<h, q>>].out = "proven" /\ log.row[<<h, r>>].out = "proven" => q = r
  BY DEF BotInv, RowsSound, Outcome
<1>9. \A h \in Heights, q \in PodId : cloud.made[q] = 0 => log.row[<<h, q>>].out # "open"
  BY DEF BotInv, RowsSound, Outcome
<1>10. \A h \in Heights, q \in PodId :
         log.row[<<h, q>>].out = "open" <=> h \in pods[q].assigned \/ <<h, q>> \in log.lost
  BY DEF BotInv, OpenRowsAreAccountedFor
<1>11. /\ \A q \in PodId : pods'[q].assigned \subseteq pods[q].assigned
       /\ D \subseteq pods[p].assigned /\ L \subseteq D \cap board.covered
       /\ pods'[p].assigned = pods[p].assigned \ D
       /\ \A q \in PodId : q # p => pods'[q].assigned = pods[q].assigned
  BY DEF RowsLeave
<1>12. \A h \in Heights, q \in PodId : log'.row[<<h, q>>].out = "proven" => h \in board.covered
  BY <1>3, <1>4, <1>5, <1>11
<1>13. \A q, r \in PodId : q # r => pods'[q].assigned \cap pods'[r].assigned = {}
  BY <1>6, <1>11
<1>14. \A q, r \in PodId : \A h \in pods'[q].assigned : log'.row[<<h, r>>].out # "proven"
  <2> SUFFICES ASSUME NEW q \in PodId, NEW r \in PodId, NEW h \in pods'[q].assigned, log'.row[<<h, r>>].out = "proven"
               PROVE  FALSE
    OBVIOUS
  <2>1. h \in pods[q].assigned /\ h \in Heights
    BY <1>2, <1>11
  <2>2. r = p /\ h \in D
    BY <1>3, <1>4, <1>7, <1>11, <2>1
  <2>3. q = p
    BY <1>1, <1>6, <1>11, <2>1, <2>2
  <2> QED
    BY <1>11, <2>2, <2>3
<1>15. \A h \in Heights, q, r \in PodId :
         log'.row[<<h, q>>].out = "proven" /\ log'.row[<<h, r>>].out = "proven" => q = r
  <2> SUFFICES ASSUME NEW h \in Heights, NEW q \in PodId, NEW r \in PodId, q # r,
                      log'.row[<<h, q>>].out = "proven", log'.row[<<h, r>>].out = "proven"
               PROVE  FALSE
    OBVIOUS
  <2>1. CASE log.row[<<h, q>>].out = "proven"
    <3>1. r = p /\ h \in D
      BY <1>3, <1>4, <1>8, <1>11, <2>1
    <3> QED
      BY <1>1, <1>7, <1>11, <2>1, <3>1
  <2>2. CASE log.row[<<h, q>>].out # "proven"
    <3>1. q = p /\ h \in D
      BY <1>3, <1>4, <1>11, <2>2
    <3>2. log.row[<<h, r>>].out = "proven"
      BY <1>3, <1>4, <3>1
    <3> QED
      BY <1>1, <1>7, <1>11, <3>1, <3>2
  <2> QED
    BY <2>1, <2>2
<1>16. \A h \in Heights, q \in PodId : cloud.made[q] = 0 => log'.row[<<h, q>>].out # "open"
  BY <1>3, <1>4, <1>9
<1>17. \A h \in Heights, q \in PodId : <<h, q>> \in log.lost => h \notin pods[q].assigned
  BY DEF BotInv, RowsSound, LostSound
<1>18. OpenRowsAreAccountedFor'
  <2>1. ASSUME NEW h \in Heights, NEW q \in PodId
        PROVE  log'.row[<<h, q>>].out = "open" <=> h \in pods'[q].assigned \/ <<h, q>> \in log'.lost
    <3>1. CASE q = p /\ h \in D
      BY <1>1, <1>3, <1>4, <1>10, <1>11, <1>17, <3>1
    <3>2. CASE q # p \/ h \notin D
      BY <1>1, <1>3, <1>4, <1>10, <1>11, <3>2
    <3> QED
      BY <3>1, <3>2
  <2> QED
    BY <2>1 DEF OpenRowsAreAccountedFor
<1>19. LostSound'
  <2>1. ~Ending => \A h \in Heights, q \in PodId : <<h, q>> \in log.lost => cloud.made[q] # bot.run
    BY DEF BotInv, RowsSound, LostSound
  <2> QED
    BY <1>11, <1>17, <2>1 DEF LostSound
<1>20. RowsSound'
  BY <1>12, <1>13, <1>14, <1>15, <1>16, <1>19 DEF RowsSound, Outcome
<1> QED
  BY <1>18, <1>20

LEMMA LookKeeps == BotInv /\ Look => BotInv'
<1> SUFFICES ASSUME BotInv, Look PROVE BotInv'
  OBVIOUS
<1>1. bot \in Process(bot.max, bot.proc) /\ pods \in [PodId -> PodState] /\ BotTyped
  BY DEF BotInv, BotTyped
<1>2. /\ bot.pc = "look" /\ pods' = [p \in PodId |-> Older(p)] /\ UNCHANGED <<log, cloud, worker, board, box>>
      /\ \/ bot' = [CoordError EXCEPT !.spent = bot.spent + Hourly]
         \/ bot' = [bot EXCEPT !.pc = "observe", !.left = Live, !.ok = TRUE, !.spent = bot.spent + Hourly]
  BY DEF Look
<1>3. \A p \in PodId : pods'[p] \in PodState /\ pods'[p].st = pods[p].st /\ pods'[p].assigned = pods[p].assigned
  <2> TAKE p \in PodId
  <2>1. pods[p] \in PodState
    BY <1>1
  <2>2. pods'[p] = Older(p)
    BY <1>2
  <2>3. Older(p) \in {pods[p], [pods[p] EXCEPT !.age = pods[p].age + 1]}
    BY DEF Older
  <2> QED
    BY <2>1, <2>2, <2>3 DEF PodState
<1>4. pods' \in [PodId -> PodState]
  BY <1>2, <1>3
<1>5. Live' = Live
  BY <1>3 DEF Live
<1>6. Hourly \in Nat /\ bot.spent \in Nat /\ bot.spent + Hourly \in Nat /\ Live \in SUBSET PodId
  <2>1. Live \in SUBSET PodId
    BY DEF Live
  <2>2. bot.spent \in Nat
    BY <1>1 DEF Process
  <2> QED
    BY <2>1, <2>2, HourlyIs
<1>7. /\ bot' \in Process(bot'.max, bot'.proc) /\ bot'.run = bot.run /\ bot'.unconfirmed = bot.unconfirmed
      /\ bot'.pc \in {"observe", "cleanup"} /\ bot'.spent = bot.spent + Hourly
  <2>1. CASE bot' = [CoordError EXCEPT !.spent = bot.spent + Hourly]
    <3>1. /\ CoordError \in Process(bot.max, bot.proc) /\ CoordError.run = bot.run
          /\ CoordError.unconfirmed = bot.unconfirmed /\ CoordError.pc \in {"observe", "cleanup"}
      BY <1>1, <1>2, CoordErrorIs
    <3> QED
      BY <1>6, <2>1, <3>1 DEF Process
  <2>2. CASE bot' = [bot EXCEPT !.pc = "observe", !.left = Live, !.ok = TRUE, !.spent = bot.spent + Hourly]
    <3>1. "observe" \in BotPc
      BY DEF BotPc
    <3> DEFINE lv == Live
               sp == bot.spent + Hourly
    <3>2. lv \in SUBSET PodId /\ sp \in Nat /\ bot' = [bot EXCEPT !.pc = "observe", !.left = lv, !.ok = TRUE, !.spent = sp]
      BY <1>6, <2>2
    <3> HIDE DEF lv, sp
    <3>3. /\ bot' \in Process(bot'.max, bot'.proc) /\ bot'.run = bot.run /\ bot'.unconfirmed = bot.unconfirmed
          /\ bot'.pc = "observe" /\ bot'.spent = sp
      BY <1>1, <3>1, <3>2 DEF Process
    <3> QED
      BY <3>3 DEF sp
  <2> QED
    BY <1>2, <2>1, <2>2
<1>8. HandSound'
  BY <1>7 DEF HandSound
<1>9. SpendSound'
  <2>1. MAX_USD \in Nat /\ LEAD \in Nat \ {0}
    BY Caps
  <2>2. Ahead
    BY <1>2 DEF Ahead
  <2>3. bot.spent + Hourly * LEAD < MAX_USD
    BY <2>2 DEF BotInv, SpendSound
  <2>4. Hourly <= LEAD * Hourly /\ LEAD * Hourly = Hourly * LEAD /\ LEAD * Hourly \in Nat
    <3>1. 1 * Hourly <= LEAD * Hourly /\ LEAD * Hourly \in Nat
      BY <1>6, <2>1, Longer
    <3> QED
      BY <1>6, <2>1, <3>1
  <2>5. bot.spent + Hourly < MAX_USD
    BY <1>6, <2>1, <2>3, <2>4
  <2> QED
    BY <1>7, <2>5 DEF SpendSound, Ahead
<1>10. RowsSound' /\ OpenRowsAreAccountedFor'
  <2>1. RowsStay
    BY <1>2, <1>3 DEF RowsStay
  <2> QED
    BY <1>2, <1>7, <2>1, NotEnding, RowsFrame
<1>11. LogTyped' /\ log'.ended = log.ended
  BY <1>1, <1>2 DEF BotTyped, LogTyped
<1>12. \A p \in PodId : pods'[p].st # "working" => pods'[p].assigned = {}
  BY <1>3 DEF BotInv, PodsSound
<1> QED
  BY <1>2, <1>3, <1>4, <1>7, <1>8, <1>9, <1>10, <1>11, <1>12, NotEnding, PodsMove

(* What the process does after it has looked at a pod. *)
Leaves(p, why) == [EndPod(p, why, "observe") EXCEPT !.left = @ \ {p}]

HasLooked(p) ==
  \/ bot' = Seen(p) \/ bot' = CoordError
  \/ bot' = Leaves(p, "cancelled") \/ bot' = Leaves(p, "stalled") \/ bot' = Leaves(p, "failed")

LEMMA AfterALook ==
  ASSUME bot \in Process(bot.max, bot.proc), bot.pc = "observe", NEW p \in PodId, HasLooked(p)
  PROVE  /\ bot' \in Process(bot'.max, bot'.proc) /\ bot'.run = bot.run /\ bot'.unconfirmed = bot.unconfirmed
         /\ bot'.pc \in {"observe", "cleanup", "ask"} /\ ~Ahead'
         /\ bot'.spent \in {bot.spent, 0}
         /\ bot'.pc = "ask" => bot'.pod = p /\ bot'.why \in Closed /\ bot'.ret = "observe"
<1>1. bot.left \ {p} \in SUBSET PodId
  BY DEF Process
<1>2. CASE bot' = Seen(p)
  <2>1. bot' = [bot EXCEPT !.left = bot.left \ {p}]
    BY <1>2 DEF Seen
  <2>2. /\ bot' \in Process(bot'.max, bot'.proc) /\ bot'.run = bot.run /\ bot'.unconfirmed = bot.unconfirmed
        /\ bot'.pc = "observe" /\ bot'.spent = bot.spent
    BY <1>1, <2>1 DEF Process
  <2> QED
    BY <2>2 DEF Ahead
<1>3. CASE bot' = CoordError
  <2>1. /\ bot' \in Process(bot.max, bot.proc)
        /\ bot'.run = bot.run /\ bot'.unconfirmed = bot.unconfirmed
        /\ bot'.pc \in {"observe", "cleanup"} /\ bot'.spent \in {bot.spent, 0}
    BY <1>3, CoordErrorIs
  <2> QED
    BY <2>1, TypedAs DEF Ahead
<1>4. ASSUME NEW why \in Closed, bot' = Leaves(p, why)
      PROVE  /\ bot' \in Process(bot'.max, bot'.proc) /\ bot'.run = bot.run /\ bot'.unconfirmed = bot.unconfirmed
             /\ bot'.pc = "ask" /\ bot'.spent = bot.spent
             /\ bot'.pod = p /\ bot'.why \in Closed /\ bot'.ret = "observe"
  <2> DEFINE e == EndPod(p, why, "observe")
  <2>1. /\ e \in Process(bot.max, bot.proc) /\ e.pc = "ask" /\ e.pod = p /\ e.why = why /\ e.ret = "observe"
        /\ e.run = bot.run /\ e.unconfirmed = bot.unconfirmed /\ e.spent = bot.spent
    BY EndPodIs
  <2>2. bot' = [e EXCEPT !.left = e.left \ {p}]
    BY <1>4 DEF Leaves
  <2>3. e.left \ {p} \in SUBSET PodId
    BY <2>1 DEF Process
  <2> HIDE DEF e
  <2> QED
    BY <2>1, <2>2, <2>3 DEF Process
<1>5. {"cancelled", "stalled", "failed"} \subseteq Closed
  BY DEF Closed
<1> QED
  BY <1>2, <1>3, <1>4, <1>5 DEF Ahead, HasLooked

LEMMA ObserveKeeps == BotInv /\ ObservePod => BotInv'
<1> SUFFICES ASSUME BotInv, ObservePod PROVE BotInv'
  OBVIOUS
<1>1. bot \in Process(bot.max, bot.proc) /\ pods \in [PodId -> PodState] /\ BotTyped
  BY DEF BotInv, BotTyped
<1>2. bot.pc = "observe" /\ bot.left \cap Live # {} /\ UNCHANGED <<cloud, worker, board, box>>
  BY DEF ObservePod
<1>3. Min(bot.left \cap Live) \in Live /\ Min(bot.left \cap Live) \in PodId
  <2>1. bot.left \cap Live \subseteq Nat /\ bot.left \cap Live \subseteq PodId
    BY Caps DEF Live
  <2>2. Min(bot.left \cap Live) \in bot.left \cap Live
    BY <1>2, <2>1, MinIn
  <2> QED
    BY <2>1, <2>2
<1>4. PICK p \in Live : p = Min(bot.left \cap Live)
  BY <1>3
<1>5. p \in PodId /\ pods[p] \in PodState /\ pods[p].st \in LivePod
  BY <1>1 DEF Live, LivePod
<1>6. \/ ObserveComing(p) \/ ObserveWorking(p)
      \/ pods[p].st = "idle" /\ bot' = Seen(p) /\ UNCHANGED <<pods, log>>
  BY <1>4 DEF ObservePod
<1>7. LogTyped
  BY <1>1 DEF BotTyped, LogTyped
<1>8. ASSUME HasLooked(p), pods' \in [PodId -> PodState], pods'[p].st \in LivePod, \A q \in PodId : q # p => pods'[q] = pods[q],
             pods'[p].st # "working" => pods'[p].assigned = {},
             LogTyped', log'.ended = log.ended, RowsSound', OpenRowsAreAccountedFor'
      PROVE  BotInv'
  <2>1. /\ bot' \in Process(bot'.max, bot'.proc) /\ bot'.run = bot.run /\ bot'.unconfirmed = bot.unconfirmed
        /\ bot'.pc \in {"observe", "cleanup", "ask"} /\ ~Ahead'
        /\ bot'.spent \in {bot.spent, 0}
        /\ bot'.pc = "ask" => bot'.pod = p /\ bot'.why \in Closed /\ bot'.ret = "observe"
    BY <1>1, <1>2, <1>5, <1>8, AfterALook
  <2>2. Live' = Live
    BY <1>5, <1>8 DEF Live, LivePod
  <2>3. HandSound'
    BY <1>4, <2>1, <2>2 DEF HandSound
  <2>4. SpendSound'
    <3>1. bot.spent \in Nat
      BY <1>1 DEF Process
    <3> QED
      BY <2>1, <2>2, <3>1, SpendKept DEF BotInv
  <2>5. \A q \in PodId : pods'[q].st \in LivePod => pods[q].st \in LivePod
    BY <1>5, <1>8
  <2>6. \A q \in PodId : pods'[q].st # "working" => pods'[q].assigned = {}
    BY <1>8 DEF BotInv, PodsSound
  <2> QED
    BY <1>2, <1>8, <2>1, <2>3, <2>4, <2>5, <2>6, NotEnding, PodsMove
<1>9. bot'.run = bot.run /\ bot'.pc # "given"
  <2>1. HasLooked(p)
    BY <1>6 DEF ObserveComing, ObserveWorking, HasLooked, Leaves
  <2> QED
    BY <1>1, <1>2, <1>5, <2>1, AfterALook
<1>10. ASSUME log' = log, pods' \in [PodId -> PodState], \A q \in PodId : pods'[q].assigned = pods[q].assigned
       PROVE  LogTyped' /\ log'.ended = log.ended /\ RowsSound' /\ OpenRowsAreAccountedFor'
  <2>1. RowsStay
    BY <1>10 DEF RowsStay
  <2> QED
    BY <1>2, <1>7, <1>9, <1>10, <2>1, NotEnding, RowsFrame DEF LogTyped
<1>11. CASE pods[p].st = "idle" /\ bot' = Seen(p) /\ UNCHANGED <<pods, log>>
  <2>1. pods[p].assigned = {}
    BY <1>5, <1>11 DEF BotInv, PodsSound
  <2> QED
    BY <1>1, <1>5, <1>8, <1>10, <1>11, <2>1 DEF HasLooked
<1>12. CASE ObserveComing(p)
  <2>1. /\ pods[p].st \in {"waiting_ssh", "booting"} /\ log' = log
        /\ \/ pods' = pods \/ pods' = [pods EXCEPT ![p].st = Booted(pods[p].st)]
        /\ HasLooked(p)
    BY <1>12 DEF ObserveComing, HasLooked, Leaves
  <2>2. pods[p].assigned = {}
    BY <1>5, <2>1 DEF BotInv, PodsSound
  <2>4. Booted(pods[p].st) \in LivePod /\ Booted(pods[p].st) # "working"
    BY DEF Booted, LivePod
  <2>5. /\ pods' \in [PodId -> PodState] /\ pods'[p].st \in LivePod /\ pods'[p].assigned = {}
        /\ \A q \in PodId : q # p => pods'[q] = pods[q]
    <3>1. CASE pods' = pods
      BY <1>1, <1>5, <2>2, <3>1
    <3>2. CASE pods' = [pods EXCEPT ![p].st = Booted(pods[p].st)]
      <4> DEFINE d == [pods[p] EXCEPT !.st = Booted(pods[p].st)]
      <4>1. d \in PodState /\ d.st = Booted(pods[p].st) /\ d.assigned = {}
        BY <1>5, <2>2, <2>4 DEF PodState
      <4>2. pods' = [pods EXCEPT ![p] = d]
        BY <3>2
      <4> HIDE DEF d
      <4> QED
        BY <1>1, <1>5, <2>4, <4>1, <4>2
    <3> QED
      BY <2>1, <3>1, <3>2
  <2> QED
    BY <1>8, <1>10, <2>1, <2>2, <2>5
<1>13. CASE ObserveWorking(p)
  <2> DEFINE done == pods[p].assigned \cap board.covered
             rest == pods[p].assigned \ done
             now == [pods[p] EXCEPT !.assigned = rest, !.age = IF done = {} THEN pods[p].age ELSE 0]
  <2>1. pods[p].st = "working"
    BY <1>13 DEF ObserveWorking
  <2>2. CASE bot' = CoordError /\ UNCHANGED <<pods, log>>
    BY <1>1, <1>5, <1>8, <1>10, <2>1, <2>2 DEF HasLooked
  <2>3. CASE ~(bot' = CoordError /\ UNCHANGED <<pods, log>>)
    <3>1. /\ log' = [log EXCEPT !.row = RecordProven(p, done)]
          /\ HasLooked(p)
          /\ \/ pods' = [pods EXCEPT ![p] = now]
             \/ rest = {} /\ pods' = [pods EXCEPT ![p] = [now EXCEPT !.st = "idle", !.fin = FALSE]]
             \/ \E st \in Status : pods' = [pods EXCEPT ![p] = [now EXCEPT !.fin = (st = "finished")]]
      BY <1>13, <2>3 DEF ObserveWorking, HasLooked, Leaves
    <3>2. rest \in SUBSET Heights /\ (IF done = {} THEN pods[p].age ELSE 0) \in Nat
      BY <1>5 DEF PodState
    <3>3. now \in PodState /\ now.assigned = rest /\ now.st = "working"
      BY <1>5, <2>1, <3>2 DEF PodState
    <3> HIDE DEF now
    <3>4. /\ pods' \in [PodId -> PodState] /\ pods'[p].assigned = rest
          /\ pods'[p].st = "working" \/ (pods'[p].st = "idle" /\ rest = {})
          /\ \A q \in PodId : q # p => pods'[q] = pods[q]
      <4>1. ASSUME NEW d \in PodState, d.assigned = rest, d.st = "working" \/ (d.st = "idle" /\ rest = {}),
                   pods' = [pods EXCEPT ![p] = d]
            PROVE  /\ pods' \in [PodId -> PodState] /\ pods'[p].assigned = rest
                   /\ pods'[p].st = "working" \/ (pods'[p].st = "idle" /\ rest = {})
                   /\ \A q \in PodId : q # p => pods'[q] = pods[q]
        BY <1>1, <1>5, <4>1
      <4>2. CASE pods' = [pods EXCEPT ![p] = now]
        BY <3>3, <4>1, <4>2
      <4>3. CASE rest = {} /\ pods' = [pods EXCEPT ![p] = [now EXCEPT !.st = "idle", !.fin = FALSE]]
        <5> DEFINE d == [now EXCEPT !.st = "idle", !.fin = FALSE]
        <5>1. d \in PodState /\ d.assigned = rest /\ d.st = "idle"
          BY <3>3 DEF PodState, LivePod
        <5> HIDE DEF d
        <5> QED
          BY <4>1, <4>3, <5>1 DEF d
      <4>4. ASSUME NEW st \in Status, pods' = [pods EXCEPT ![p] = [now EXCEPT !.fin = (st = "finished")]]
            PROVE  /\ pods' \in [PodId -> PodState] /\ pods'[p].assigned = rest
                   /\ pods'[p].st = "working" \/ (pods'[p].st = "idle" /\ rest = {})
                   /\ \A q \in PodId : q # p => pods'[q] = pods[q]
        <5> DEFINE b == st = "finished"
                   d == [now EXCEPT !.fin = b]
        <5>1. b \in BOOLEAN
          OBVIOUS
        <5> HIDE DEF b
        <5>2. d \in PodState /\ d.assigned = rest /\ d.st = "working"
          BY <3>3, <5>1 DEF PodState
        <5>3. pods' = [pods EXCEPT ![p] = d]
          BY <4>4 DEF b
        <5> HIDE DEF d
        <5> QED
          BY <4>1, <5>2, <5>3
      <4> QED
        BY <3>1, <4>2, <4>3, <4>4
    <3>5. \A r \in Heights \X PodId :
            /\ RecordProven(p, done)[r] \in Row
            /\ IF r[2] # p \/ r[1] \notin done \/ log.row[r].out # "open"
                 THEN RecordProven(p, done)[r].out = log.row[r].out
                 ELSE RecordProven(p, done)[r].out = "proven"
      <4> TAKE r \in Heights \X PodId
      <4>1. log.row[r] \in Row
        BY <1>7 DEF LogTyped, Rows
      <4>2. RecordProven(p, done)[r] =
              IF r[2] = p /\ r[1] \in done /\ log.row[r].out = "open" THEN Proven ELSE log.row[r]
        BY DEF RecordProven
      <4>3. Proven \in Row /\ Proven.out = "proven"
        BY DEF Proven, Row
      <4> HIDE DEF done
      <4> QED
        BY <4>1, <4>2, <4>3
    <3>6. RecordProven(p, done) \in Rows
      <4>1. RecordProven(p, done) = [r \in Heights \X PodId |-> RecordProven(p, done)[r]]
        BY DEF RecordProven
      <4> QED
        BY <3>5, <4>1 DEF Rows
    <3>7. LogTyped' /\ log'.ended = log.ended /\ log'.lost = log.lost /\ log'.row = RecordProven(p, done)
      BY <1>7, <3>1, <3>6 DEF LogTyped
    <3>8. RowsSound' /\ OpenRowsAreAccountedFor'
      <4> DEFINE D == pods[p].assigned \cap board.covered
      <4>1. D \in SUBSET pods[p].assigned /\ D \in SUBSET (D \cap board.covered)
        OBVIOUS
      <4>2. pods'[p].assigned = pods[p].assigned \ D
        BY <3>4
      <4>3. \A q \in PodId : q # p => pods'[q].assigned = pods[q].assigned
        BY <3>4
      <4>4. \A r \in Heights \X PodId :
              IF r[2] # p \/ r[1] \notin D \/ log.row[r].out # "open" THEN log'.row[r].out = log.row[r].out
              ELSE IF r[1] \in D THEN log'.row[r].out = "proven" ELSE log'.row[r].out \in Closed
        BY <3>5, <3>7
      <4>5. RowsLeave(p, D, D)
        BY <4>1, <4>2, <4>3, <4>4 DEF RowsLeave
      <4> HIDE DEF D
      <4> QED
        BY <1>2, <1>4, <1>9, <3>7, <4>5, NotEnding, RowsClose
    <3> QED
      BY <1>8, <3>1, <3>4, <3>7, <3>8 DEF LivePod
  <2> QED
    BY <2>2, <2>3
<1> QED
  BY <1>6, <1>11, <1>12, <1>13

-----------------------------------------------------------------------------
(* Ending a pod.                                                           *)

LEMMA AskKeeps == BotInv /\ TermAsk => BotInv'
<1> SUFFICES ASSUME BotInv, TermAsk PROVE BotInv'
  OBVIOUS
<1>1. bot \in Process(bot.max, bot.proc) /\ pods \in [PodId -> PodState] /\ LogTyped
  BY DEF BotInv, BotTyped, LogTyped
<1>2. bot.pc = "ask" /\ bot' = [bot EXCEPT !.pc = "confirm"] /\ UNCHANGED <<cloud, worker, board, box>>
  BY DEF TermAsk, Goto
<1>3. bot.pod \in Live /\ bot.why \in Closed /\ bot.ret # ""
  BY <1>2 DEF BotInv, HandSound
<1>4. PICK p \in Live : p = bot.pod
  BY <1>3
<1>5. p \in PodId /\ pods[p] \in PodState /\ pods[p].st \in LivePod
  BY <1>1 DEF Live, LivePod
<1>6. PICK landed \in {board.covered, {}} : log' = [log EXCEPT !.row = CloseRows(p, landed, bot.why)]
  BY <1>4 DEF TermAsk
<1>7. pods' = [pods EXCEPT ![p] = [pods[p] EXCEPT !.assigned = {}]]
  BY <1>4 DEF TermAsk
<1>8. /\ bot' \in Process(bot'.max, bot'.proc) /\ bot'.run = bot.run /\ bot'.unconfirmed = bot.unconfirmed
      /\ bot'.pc = "confirm" /\ bot'.spent = bot.spent /\ bot'.pod = p /\ bot'.why = bot.why /\ bot'.ret = bot.ret
  BY <1>1, <1>2, <1>4 DEF Process, BotPc
<1>9. /\ pods' \in [PodId -> PodState] /\ pods'[p].assigned = {} /\ pods'[p].st = pods[p].st
      /\ \A q \in PodId : q # p => pods'[q] = pods[q]
  <2> DEFINE d == [pods[p] EXCEPT !.assigned = {}]
  <2>1. d \in PodState /\ d.assigned = {} /\ d.st = pods[p].st
    BY <1>5 DEF PodState
  <2>2. pods' = [pods EXCEPT ![p] = d]
    BY <1>7
  <2> HIDE DEF d
  <2> QED
    BY <1>1, <1>5, <2>1, <2>2
<1>10. Live' = Live
  BY <1>5, <1>9 DEF Live
<1> DEFINE A == pods[p].assigned
           R == CloseRows(p, landed, bot.why)
           L == landed \cap A
<1>11. \A r \in Heights \X PodId :
         /\ R[r] \in Row
         /\ IF r[2] # p \/ r[1] \notin A \/ log.row[r].out # "open" THEN R[r].out = log.row[r].out
            ELSE IF r[1] \in L THEN R[r].out = "proven" ELSE R[r].out \in Closed
  <2> TAKE r \in Heights \X PodId
  <2>1. log.row[r] \in Row
    BY <1>1 DEF LogTyped, Rows
  <2>2. R[r] = IF r[2] # p \/ r[1] \notin A \/ log.row[r].out # "open" THEN log.row[r]
               ELSE IF r[1] \in landed THEN Proven ELSE [log.row[r] EXCEPT !.out = bot.why]
    BY DEF CloseRows
  <2>3. Proven \in Row /\ Proven.out = "proven"
    BY DEF Proven, Row
  <2>4. [log.row[r] EXCEPT !.out = bot.why] \in Row /\ [log.row[r] EXCEPT !.out = bot.why].out \in Closed
    BY <1>3, <2>1 DEF Row
  <2> HIDE DEF A, R
  <2> QED
    BY <2>1, <2>2, <2>3, <2>4
<1>12. R \in Rows
  <2>1. R = [r \in Heights \X PodId |-> R[r]]
    BY DEF CloseRows
  <2> QED
    BY <1>11, <2>1 DEF Rows
<1>13. log'.row = R /\ log'.ended = log.ended /\ log'.lost = log.lost /\ LogTyped'
  BY <1>1, <1>6, <1>12 DEF LogTyped
<1> HIDE DEF R
<1>19. Ending => Ending'
  BY <1>2, <1>8 DEF Ending
<1>14. RowsSound' /\ OpenRowsAreAccountedFor'
  <2>1. L \subseteq A \cap board.covered
    BY <1>6
  <2>2. RowsLeave(p, A, L)
    BY <1>9, <1>11, <1>13, <2>1 DEF RowsLeave
  <2>3. bot.pc \notin {"given", "dead"} /\ bot'.pc # "given" /\ bot'.run = bot.run /\ UNCHANGED <<cloud, board>>
    BY <1>2, <1>8
  <2> HIDE DEF A, L
  <2> QED
    BY <1>4, <1>13, <1>19, <2>2, <2>3, RowsClose
<1>15. HandSound'
  BY <1>3, <1>4, <1>8, <1>9, <1>10 DEF HandSound
<1>16. SpendSound'
  <2>1. (Ahead' => Ahead) /\ bot.spent \in Nat
    BY <1>1, <1>2, <1>8 DEF Ahead, Process
  <2> QED
    BY <1>8, <1>10, <2>1, SpendKept DEF BotInv
<1>17. \A q \in PodId : pods'[q].st # "working" => pods'[q].assigned = {}
  BY <1>9 DEF BotInv, PodsSound
<1>18. \A q \in PodId : pods'[q].st \in LivePod => pods[q].st \in LivePod
  BY <1>9
<1> QED
  BY <1>2, <1>8, <1>9, <1>13, <1>14, <1>15, <1>16, <1>17, <1>18, <1>19, PodsMove

LEMMA ConfirmKeeps == BotInv /\ TermConfirm => BotInv'
<1> SUFFICES ASSUME BotInv, TermConfirm PROVE BotInv'
  OBVIOUS
<1>1. /\ bot \in Process(bot.max, bot.proc) /\ pods \in [PodId -> PodState] /\ LogTyped
      /\ cloud \in [alive : SUBSET PodId, made : [PodId -> Nat]] /\ BotTyped
  BY DEF BotInv, BotTyped, LogTyped
<1>2. bot.pc = "confirm" /\ UNCHANGED <<board, box>>
  BY DEF TermConfirm
<1>3. bot.pod \in Live /\ bot.ret # "" /\ pods[bot.pod].assigned = {}
  BY <1>2 DEF BotInv, HandSound
<1>4. PICK p \in Live : p = bot.pod
  BY <1>3
<1>5. p \in PodId /\ pods[p].st \in LivePod /\ pods[p].assigned = {} /\ cloud.made[p] = bot.run /\ bot.run >= 1
  <2>1. p \in PodId /\ pods[p].st \in LivePod
    BY DEF Live, LivePod
  <2> QED
    BY <1>3, <1>4, <2>1 DEF BotInv, PodsSound
<1>6. PICK gone \in BOOLEAN, really \in BOOLEAN :
        /\ gone => really
        /\ cloud' = [cloud EXCEPT !.alive = IF really THEN cloud.alive \ {p} ELSE cloud.alive]
        /\ bot' = [bot EXCEPT !.pc = bot.ret, !.unconfirmed = NoteUnconfirmed(p, gone), !.pod = 0, !.why = "", !.ret = ""]
  BY <1>4 DEF TermConfirm
<1>7. pods' = [pods EXCEPT ![p] = [NoPod EXCEPT !.st = "terminated"]] /\ log' = [log EXCEPT !.ended = log.ended \cup {p}]
  BY <1>4 DEF TermConfirm
<1> DEFINE alive == IF really THEN cloud.alive \ {p} ELSE cloud.alive
           noted == IF gone THEN bot.unconfirmed ELSE bot.unconfirmed \cup {p}
<1>8. alive \in SUBSET PodId /\ noted \in SUBSET PodId /\ bot.ret \in BotPc
  <2>1. cloud.alive \in SUBSET PodId
    BY <1>1
  <2>2. bot.unconfirmed \in SUBSET PodId /\ bot.ret \in {"observe", "assign", "exit", "cleanup"}
    BY <1>1, <1>3 DEF Process
  <2> QED
    BY <1>5, <2>1, <2>2 DEF BotPc
<1>9. cloud' = [cloud EXCEPT !.alive = alive]
      /\ bot' = [bot EXCEPT !.pc = bot.ret, !.unconfirmed = noted, !.pod = 0, !.why = "", !.ret = ""]
  BY <1>6 DEF NoteUnconfirmed
<1>10. /\ bot.unconfirmed \subseteq noted /\ alive \subseteq cloud.alive /\ (p \in alive => p \in noted)
  BY <1>6
<1> HIDE DEF alive, noted
<1>11. cloud'.alive = alive /\ cloud'.made = cloud.made /\ cloud' \in [alive : SUBSET PodId, made : [PodId -> Nat]]
  BY <1>1, <1>8, <1>9
<1>12. /\ bot' \in Process(bot'.max, bot'.proc) /\ bot'.run = bot.run /\ bot'.unconfirmed = noted
       /\ bot'.pc = bot.ret /\ bot'.spent = bot.spent /\ bot'.pc \in {"observe", "assign", "exit", "cleanup"}
  BY <1>1, <1>3, <1>8, <1>9 DEF Process
<1>13. LogTyped' /\ log'.row = log.row /\ log'.lost = log.lost /\ log'.ended = log.ended \cup {p}
  BY <1>1, <1>5, <1>7 DEF LogTyped
<1>14. /\ pods' \in [PodId -> PodState] /\ pods'[p].st = "terminated" /\ pods'[p].assigned = {}
       /\ \A q \in PodId : q # p => pods'[q] = pods[q]
  <2> DEFINE d == [NoPod EXCEPT !.st = "terminated"]
  <2>1. d \in PodState /\ d.st = "terminated" /\ d.assigned = {}
    BY DEF NoPod, PodState
  <2> HIDE DEF d
  <2> QED
    BY <1>1, <1>5, <1>7, <2>1 DEF d
<1>15. BotTyped'
  BY <1>1, <1>2, <1>11, <1>12, <1>13, <1>14 DEF BotTyped, LogTyped
<1>16. Live' \subseteq Live
  BY <1>14 DEF Live
<1>17. PodsSound'
  <2>1. \A q \in PodId : pods'[q].st \in LivePod => pods[q].st \in LivePod
    BY <1>14 DEF LivePod
  <2> QED
    BY <1>11, <1>12, <1>14, <2>1 DEF BotInv, PodsSound
<1>18. HandSound'
  BY <1>12 DEF HandSound
<1>19. RowsSound' /\ OpenRowsAreAccountedFor'
  <2>1. RowsStay
    BY <1>5, <1>13, <1>14 DEF RowsStay
  <2>2. Ending => Ending'
    BY <1>2, <1>12 DEF Ending
  <2> QED
    BY <1>2, <1>11, <1>12, <2>1, <2>2, RowsFrame
<1>20. GivenSound'
  <2>1. \A q \in log'.ended : cloud'.made[q] # 0
    BY <1>5, <1>11, <1>13 DEF BotInv, GivenSound
  <2>2. \A q \in cloud'.alive \cap log'.ended : cloud'.made[q] = bot'.run => q \in bot'.unconfirmed
    BY <1>2, <1>10, <1>11, <1>12, <1>13 DEF BotInv, GivenSound
  <2> QED
    BY <2>1, <2>2 DEF GivenSound
<1>21. EndedMeansGivenBack'
  BY <1>12 DEF EndedMeansGivenBack
<1>22. SpendSound'
  <2>1. (Ahead' => Ahead) /\ bot.spent \in Nat
    BY <1>1, <1>2, <1>12 DEF Ahead, Process
  <2> QED
    BY <1>12, <1>16, <2>1, SpendKept DEF BotInv
<1> QED
  BY <1>15, <1>17, <1>18, <1>19, <1>20, <1>21, <1>22 DEF BotInv

-----------------------------------------------------------------------------
(* Work for an idle pod.                                                   *)

(* The rows of blocks nobody has, and that are not covered, are logged for
   the pod p. *)
RowsGiven(p, c) ==
  /\ ChunkSound(p, c) /\ bot'.pc = "given" /\ bot'.pod = p /\ bot'.chunk = c
  /\ log'.lost = log.lost
  /\ \A r \in Heights \X PodId :
       log'.row[r].out = IF r[2] = p /\ r[1] \in c THEN "open" ELSE log.row[r].out

LEMMA RowsOpen ==
  ASSUME BotInv, bot.pc = "assign", bot'.run = bot.run, UNCHANGED <<pods, cloud, board>>,
         NEW p, NEW c, RowsGiven(p, c)
  PROVE  RowsSound' /\ OpenRowsAreAccountedFor' /\ HandSound'
<1>1. /\ p \in Live /\ pods[p].st = "idle" /\ c \subseteq Heights
      /\ \A q \in PodId : c \cap pods[q].assigned = {}
      /\ \A h \in c, q \in PodId : log.row[<<h, q>>].out # "proven"
      /\ \A h \in c : <<h, p>> \notin log.lost
      /\ bot'.pc = "given" /\ bot'.pod = p /\ bot'.chunk = c /\ log'.lost = log.lost
  BY DEF RowsGiven, ChunkSound
<1>2. p \in PodId /\ cloud.made[p] = bot.run /\ bot.run # 0 /\ pods[p].assigned = {}
  BY <1>1 DEF BotInv, PodsSound, Live, LivePod
<1>3. \A h \in Heights, q \in PodId :
        log'.row[<<h, q>>].out = IF q = p /\ h \in c THEN "open" ELSE log.row[<<h, q>>].out
  <2> TAKE h \in Heights, q \in PodId
  <2>1. <<h, q>> \in Heights \X PodId /\ <<h, q>>[1] = h /\ <<h, q>>[2] = q
    OBVIOUS
  <2> QED
    BY <2>1 DEF RowsGiven
<1>4. \A h \in Heights, q \in PodId : log'.row[<<h, q>>].out = "proven" => log.row[<<h, q>>].out = "proven"
  BY <1>3
<1>5. /\ \A h \in Heights, q \in PodId : log.row[<<h, q>>].out = "proven" => h \in board.covered
      /\ \A q, r \in PodId : q # r => pods[q].assigned \cap pods[r].assigned = {}
      /\ \A q, r \in PodId : \A h \in pods[q].assigned : log.row[<<h, r>>].out # "proven"
      /\ \A h \in Heights, q, r \in PodId :
           log.row[<<h, q>>].out = "proven" /\ log.row[<<h, r>>].out = "proven" => q = r
      /\ \A h \in Heights, q \in PodId : cloud.made[q] = 0 => log.row[<<h, q>>].out # "open"
      /\ LostSound
  BY DEF BotInv, RowsSound, Outcome
<1>6. \A q \in PodId : pods[q].assigned \subseteq Heights
  BY DEF BotInv, BotTyped, PodState
<1>7. RowsSound'
  <2>1. LostSound'
    BY <1>1, <1>5, NotEnding DEF LostSound
  <2>2. \A h \in Heights, q \in PodId : cloud.made[q] = 0 => log'.row[<<h, q>>].out # "open"
    BY <1>2, <1>3, <1>5
  <2>3. \A q, r \in PodId : \A h \in pods[q].assigned : log'.row[<<h, r>>].out # "proven"
    BY <1>4, <1>5, <1>6
  <2> QED
    BY <1>4, <1>5, <2>1, <2>2, <2>3 DEF RowsSound, Outcome
<1>8. OpenRowsAreAccountedFor'
  <2>1. \A h \in Heights, q \in PodId :
          log.row[<<h, q>>].out = "open" <=> h \in pods[q].assigned \/ <<h, q>> \in log.lost
    BY DEF BotInv, OpenRowsAreAccountedFor
  <2>2. \A h \in Heights, q \in PodId :
          log'.row[<<h, q>>].out = "open" <=> h \in pods[q].assigned \/ (q = p /\ h \in c) \/ <<h, q>> \in log.lost
    BY <1>3, <2>1
  <2> QED
    BY <1>1, <2>2 DEF OpenRowsAreAccountedFor
<1>9. ChunkSound(p, c)'
  <2>1. Live' = Live
    BY DEF Live
  <2>2. \A h \in c, q \in PodId : log'.row[<<h, q>>].out # "proven"
    BY <1>1, <1>4
  <2> QED
    BY <1>1, <2>1, <2>2 DEF ChunkSound
<1>10. HandSound'
  BY <1>1, <1>9 DEF HandSound
<1> QED
  BY <1>7, <1>8, <1>10

LEMMA AssignKeeps == BotInv /\ Assign => BotInv'
<1> SUFFICES ASSUME BotInv, Assign PROVE BotInv'
  OBVIOUS
<1>1. bot \in Process(bot.max, bot.proc) /\ pods \in [PodId -> PodState] /\ LogTyped /\ BotTyped
  BY DEF BotInv, BotTyped, LogTyped
<1>2. bot.pc = "assign" /\ UNCHANGED <<pods, cloud, worker, board, box>>
  BY DEF Assign
<1> DEFINE idle == {q \in Live : pods[q].st = "idle"}
           todo == Pending(Busy(Live), TRUE)
<1>3. ASSUME log' = log
      PROVE  log' = [log EXCEPT !.queue = log'.queue]
  BY <1>1, <1>3, LogAlone
<1>4. Ahead /\ bot.spent \in Nat /\ SpendSound /\ Live' = Live /\ ~Ending
  <2>1. ~Ending
    BY <1>2, NotEnding
  <2> QED
    BY <1>1, <1>2, <2>1 DEF Ahead, Process, BotInv, Live
<1>5. CASE bot' = CoordError /\ UNCHANGED log
  BY <1>2, <1>5, NotEnding, Fails
<1>6. CASE idle = {} /\ Goto("launch") /\ UNCHANGED log
  <2>1. bot' = [bot EXCEPT !.pc = "launch"] /\ "launch" \in BotPc
    BY <1>6 DEF Goto, BotPc
  <2>2. /\ bot' \in Process(bot'.max, bot'.proc) /\ bot'.run = bot.run /\ bot'.unconfirmed = bot.unconfirmed
        /\ bot'.pc = "launch" /\ bot'.spent = bot.spent
    BY <1>1, <2>1 DEF Process
  <2> QED
    BY <1>2, <1>3, <1>4, <1>6, <2>2, NotEnding, BotGoes
<1>7. CASE idle # {} /\ ~(bot' = CoordError /\ UNCHANGED log)
  <2>1. Min(idle) \in idle
    <3>1. idle \subseteq Nat
      BY Caps DEF Live
    <3> QED
      BY <1>7, <3>1, MinIn
  <2>2. PICK p \in Live : p = Min(idle) /\ pods[p].st = "idle"
    BY <2>1
  <2>3. p \in PodId
    BY DEF Live
  <2>4. CASE bot' = EndPod(p, "cancelled", "assign") /\ UNCHANGED log
    <3>1. /\ bot' \in Process(bot'.max, bot'.proc) /\ bot'.run = bot.run /\ bot'.unconfirmed = bot.unconfirmed
          /\ bot'.pc = "ask" /\ bot'.spent = bot.spent /\ bot'.pod = p /\ bot'.why \in Closed /\ bot'.ret = "assign"
      <4>1. "cancelled" \in Closed
        BY DEF Closed
      <4>2. /\ bot' \in Process(bot.max, bot.proc) /\ bot'.run = bot.run /\ bot'.unconfirmed = bot.unconfirmed
            /\ bot'.pc = "ask" /\ bot'.spent = bot.spent /\ bot'.pod = p /\ bot'.why = "cancelled" /\ bot'.ret = "assign"
        BY <1>1, <2>3, <2>4, <4>1, EndPodIs
      <4> QED
        BY <4>1, <4>2, TypedAs
    <3>2. HandSound'
      BY <1>4, <3>1 DEF HandSound
    <3>3. SpendSound'
      BY <1>4, <3>1, SpendKept
    <3> QED
      BY <1>2, <1>3, <1>4, <2>4, <3>1, <3>2, <3>3, BotMoves
  <2>5. CASE ~(bot' = EndPod(p, "cancelled", "assign") /\ UNCHANGED log)
    <3> DEFINE Logged(c) ==
                 /\ log' = [log EXCEPT !.row = [r \in Heights \X PodId |->
                              IF r[2] = p /\ r[1] \in c THEN [NoRow EXCEPT !.out = "open"] ELSE log.row[r]]]
                 /\ bot' = [bot EXCEPT !.pc = "given", !.pod = p, !.chunk = c]
    <3>0. \/ bot' = CoordError /\ UNCHANGED log
          \/ bot' = EndPod(p, "cancelled", "assign") /\ UNCHANGED log
          \/ \E c \in Chunks(todo) : Logged(c)
      <4>1. IF idle = {} THEN Goto("launch") /\ UNCHANGED log
            ELSE \/ bot' = CoordError /\ UNCHANGED log
                 \/ todo = {} /\ bot' = EndPod(Min(idle), "cancelled", "assign") /\ UNCHANGED log
                 \/ \E c \in Chunks(todo) :
                      /\ todo # {}
                      /\ log' = [log EXCEPT !.row = [r \in Heights \X PodId |->
                                   IF r[2] = Min(idle) /\ r[1] \in c THEN [NoRow EXCEPT !.out = "open"] ELSE log.row[r]]]
                      /\ bot' = [bot EXCEPT !.pc = "given", !.pod = Min(idle), !.chunk = c]
        BY DEF Assign
      <4> HIDE DEF idle, todo
      <4> QED
        BY <1>7, <2>2, <4>1
    <3>a. \E c \in Chunks(todo) : Logged(c)
      BY <1>7, <2>5, <3>0
    <3>1. PICK c \in Chunks(todo) :
            /\ log' = [log EXCEPT !.row = [r \in Heights \X PodId |->
                         IF r[2] = p /\ r[1] \in c THEN [NoRow EXCEPT !.out = "open"] ELSE log.row[r]]]
            /\ bot' = [bot EXCEPT !.pc = "given", !.pod = p, !.chunk = c]
      BY <3>a
    <3>2. c \subseteq todo
      BY DEF Chunks
    <3>3. c \subseteq Heights /\ c \cap board.covered = {} /\ \A q \in Live : c \cap pods[q].assigned = {}
      BY <3>2 DEF Pending, Busy
    <3>4. \A q \in PodId : c \cap pods[q].assigned = {}
      <4> TAKE q \in PodId
      <4>1. CASE q \in Live
        BY <3>3, <4>1
      <4>2. CASE q \notin Live
        <5>1. pods[q].assigned = {}
          BY <4>2 DEF Live, BotInv, PodsSound
        <5> QED
          BY <5>1
      <4> QED
        BY <4>1, <4>2
    <3> HIDE DEF idle, todo
    <3>5. ChunkSound(p, c)
      <4>1. \A h \in c, q \in PodId : log.row[<<h, q>>].out # "proven"
        <5>1. \A h \in Heights, q \in PodId : log.row[<<h, q>>].out = "proven" => h \in board.covered
          BY DEF BotInv, RowsSound, Outcome
        <5> QED
          BY <3>3, <5>1
      <4>2. \A h \in c : <<h, p>> \notin log.lost
        <5>1. cloud.made[p] = bot.run
          BY <2>2, <2>3 DEF BotInv, PodsSound, LivePod
        <5>2. \A h \in Heights, q \in PodId : <<h, q>> \in log.lost => cloud.made[q] # bot.run
          BY <1>4 DEF BotInv, RowsSound, LostSound
        <5> QED
          BY <2>3, <3>3, <5>1, <5>2
      <4> QED
        BY <2>2, <3>3, <3>4, <4>1, <4>2 DEF ChunkSound
    <3> DEFINE R == [r \in Heights \X PodId |->
                      IF r[2] = p /\ r[1] \in c THEN [NoRow EXCEPT !.out = "open"] ELSE log.row[r]]
    <3>6. \A r \in Heights \X PodId :
            R[r] \in Row /\ R[r].out = IF r[2] = p /\ r[1] \in c THEN "open" ELSE log.row[r].out
      <4> TAKE r \in Heights \X PodId
      <4>1. log.row[r] \in Row
        BY <1>1 DEF LogTyped, Rows
      <4>2. [NoRow EXCEPT !.out = "open"] \in Row /\ [NoRow EXCEPT !.out = "open"].out = "open"
        BY DEF NoRow, Row
      <4> QED
        BY <4>1, <4>2
    <3>7. R \in Rows
      BY <3>6 DEF Rows
    <3>8. log' = [log EXCEPT !.row = R]
      BY <3>1
    <3> HIDE DEF R
    <3>9. log'.row = R /\ log'.ended = log.ended /\ log'.lost = log.lost /\ LogTyped'
      BY <1>1, <3>7, <3>8 DEF LogTyped
    <3>10. /\ bot' \in Process(bot'.max, bot'.proc) /\ bot'.run = bot.run /\ bot'.unconfirmed = bot.unconfirmed
           /\ bot'.spent = bot.spent /\ bot'.pc = "given" /\ bot'.pod = p /\ bot'.chunk = c
      <4>1. "given" \in BotPc /\ c \in SUBSET Heights
        BY <3>3 DEF BotPc
      <4> QED
        BY <1>1, <2>3, <3>1, <4>1 DEF Process
    <3>11. RowsSound' /\ OpenRowsAreAccountedFor' /\ HandSound'
      <4>1. RowsGiven(p, c)
        BY <3>5, <3>6, <3>9, <3>10 DEF RowsGiven
      <4> QED
        BY <1>2, <3>10, <4>1, RowsOpen
    <3>12. SpendSound'
      BY <1>4, <3>10, SpendKept
    <3>13. BotTyped'
      BY <1>1, <1>2, <3>9, <3>10 DEF BotTyped, LogTyped
    <3>14. PodsSound'
      BY <1>2, <1>4, <3>10 DEF BotInv, PodsSound
    <3>15. GivenSound' /\ EndedMeansGivenBack'
      BY <1>2, <3>9, <3>10 DEF BotInv, GivenSound, EndedMeansGivenBack
    <3> QED
      BY <3>11, <3>12, <3>13, <3>14, <3>15 DEF BotInv
  <2> QED
    BY <2>4, <2>5
<1> QED
  BY <1>5, <1>6, <1>7 DEF Assign

(* The blocks of the logged rows are the pod's. *)
LEMMA ChunkTaken ==
  ASSUME BotInv, bot.pc = "given", bot'.pc # "given", bot'.run = bot.run, UNCHANGED <<log, cloud, board>>,
         pods'[bot.pod].assigned = bot.chunk,
         \A q \in PodId : q # bot.pod => pods'[q].assigned = pods[q].assigned
  PROVE  RowsSound' /\ OpenRowsAreAccountedFor'
<1>1. PICK p \in PodId : p = bot.pod
  BY DEF BotInv, HandSound, ChunkSound, Live
<1>2. PICK c \in SUBSET Heights : c = bot.chunk
  BY DEF BotInv, HandSound, ChunkSound
<1>3. /\ \A q \in PodId : c \cap pods[q].assigned = {}
      /\ \A h \in c, q \in PodId : log.row[<<h, q>>].out # "proven"
      /\ \A h \in c : <<h, p>> \notin log.lost
      /\ pods[p].st = "idle"
  BY <1>1, <1>2 DEF BotInv, HandSound, ChunkSound
<1>4. /\ pods'[p].assigned = c /\ pods[p].assigned = {}
      /\ \A q \in PodId : q # p => pods'[q].assigned = pods[q].assigned
  BY <1>1, <1>2, <1>3 DEF BotInv, PodsSound
<1>5. /\ \A h \in Heights, q \in PodId : log.row[<<h, q>>].out = "proven" => h \in board.covered
      /\ \A q, r \in PodId : q # r => pods[q].assigned \cap pods[r].assigned = {}
      /\ \A q, r \in PodId : \A h \in pods[q].assigned : log.row[<<h, r>>].out # "proven"
      /\ \A h \in Heights, q, r \in PodId :
           log.row[<<h, q>>].out = "proven" /\ log.row[<<h, r>>].out = "proven" => q = r
      /\ \A h \in Heights, q \in PodId : cloud.made[q] = 0 => log.row[<<h, q>>].out # "open"
  BY DEF BotInv, RowsSound, Outcome
<1>6. LostSound'
  <2>1. LostSound
    BY DEF BotInv, RowsSound
  <2> QED
    BY <1>1, <1>3, <1>4, <2>1, NotEnding DEF LostSound
<1>7. \A q, r \in PodId : q # r => pods'[q].assigned \cap pods'[r].assigned = {}
  BY <1>3, <1>4, <1>5
<1>8. \A q, r \in PodId : \A h \in pods'[q].assigned : log.row[<<h, r>>].out # "proven"
  <2> TAKE q \in PodId, r \in PodId
  <2>1. CASE q = p
    BY <1>3, <1>4, <2>1
  <2>2. CASE q # p
    BY <1>4, <1>5, <2>2
  <2> QED
    BY <2>1, <2>2
<1>9. RowsSound'
  BY <1>5, <1>6, <1>7, <1>8 DEF RowsSound, Outcome
<1>10. OpenRowsAreAccountedFor'
  <2>1. \A h \in Heights, q \in PodId :
          log.row[<<h, q>>].out = "open" <=>
            h \in pods[q].assigned \/ (q = p /\ h \in c) \/ <<h, q>> \in log.lost
    BY <1>1, <1>2 DEF BotInv, OpenRowsAreAccountedFor
  <2> QED
    BY <1>4, <2>1 DEF OpenRowsAreAccountedFor
<1> QED
  BY <1>9, <1>10

LEMMA GiveKeeps == BotInv /\ Give => BotInv'
<1> SUFFICES ASSUME BotInv, Give PROVE BotInv'
  OBVIOUS
<1>1. bot \in Process(bot.max, bot.proc) /\ pods \in [PodId -> PodState] /\ LogTyped /\ BotTyped
  BY DEF BotInv, BotTyped, LogTyped
<1>2. /\ bot.pc = "given" /\ UNCHANGED <<log, cloud, board, box>>
      /\ pods' = [pods EXCEPT ![bot.pod] = [st |-> "working", assigned |-> bot.chunk, age |-> 0, fin |-> FALSE]]
  BY DEF Give
<1>3. bot.pod \in Live /\ bot.pod \in PodId /\ pods[bot.pod].st = "idle" /\ bot.chunk \in SUBSET Heights
  <2>1. ChunkSound(bot.pod, bot.chunk)
    BY <1>2 DEF BotInv, HandSound
  <2> QED
    BY <2>1 DEF ChunkSound, Live
<1>4. PICK p \in PodId : p = bot.pod
  BY <1>3
<1>5. /\ pods' \in [PodId -> PodState] /\ pods'[p].assigned = bot.chunk /\ pods'[p].st = "working"
      /\ \A q \in PodId : q # p => pods'[q] = pods[q]
  <2> DEFINE d == [st |-> "working", assigned |-> bot.chunk, age |-> 0, fin |-> FALSE]
  <2>1. d \in PodState /\ d.assigned = bot.chunk /\ d.st = "working"
    BY <1>3 DEF PodState, LivePod
  <2>2. pods' = [pods EXCEPT ![p] = d]
    BY <1>2, <1>4
  <2> HIDE DEF d
  <2> QED
    BY <1>1, <2>1, <2>2
<1>6. /\ bot' \in Process(bot'.max, bot'.proc) /\ bot'.run = bot.run /\ bot'.unconfirmed = bot.unconfirmed
      /\ bot'.spent = bot.spent
      /\ \/ bot'.pc = "assign"
         \/ bot'.pc = "ask" /\ bot'.pod = p /\ bot'.why \in Closed /\ bot'.ret = "assign"
  <2>1. "failed" \in Closed /\ "assign" \in BotPc /\ {} \in SUBSET Heights
    BY DEF Closed, BotPc
  <2>2. CASE bot' = [EndPod(bot.pod, "failed", "assign") EXCEPT !.chunk = {}]
    <3> DEFINE e == EndPod(p, "failed", "assign")
    <3>1. /\ e \in Process(bot.max, bot.proc) /\ e.pc = "ask" /\ e.pod = p /\ e.why = "failed" /\ e.ret = "assign"
          /\ e.run = bot.run /\ e.unconfirmed = bot.unconfirmed /\ e.spent = bot.spent
      BY <1>1, <2>1, EndPodIs
    <3>2. bot' = [e EXCEPT !.chunk = {}]
      BY <1>4, <2>2
    <3> HIDE DEF e
    <3> QED
      BY <2>1, <3>1, <3>2 DEF Process
  <2>3. CASE bot' = [bot EXCEPT !.pc = "assign", !.pod = 0, !.chunk = {}]
    BY <1>1, <2>1, <2>3 DEF Process
  <2> QED
    BY <2>2, <2>3 DEF Give
<1>7. RowsSound' /\ OpenRowsAreAccountedFor'
  BY <1>2, <1>4, <1>5, <1>6, ChunkTaken
<1>8. Live' = Live
  <2>1. pods'[p].st \in LivePod /\ pods[p].st \in LivePod
    BY <1>3, <1>4, <1>5 DEF LivePod
  <2> QED
    BY <1>5, <2>1 DEF Live, LivePod
<1>9. HandSound'
  BY <1>3, <1>4, <1>6, <1>8 DEF HandSound
<1>10. SpendSound'
  <2>1. Ahead /\ bot.spent \in Nat /\ SpendSound
    BY <1>1, <1>2 DEF BotInv, Ahead, Process
  <2> QED
    BY <1>6, <1>8, <2>1, SpendKept
<1>11. BotTyped'
  BY <1>1, <1>2, <1>5, <1>6 DEF BotTyped
<1>12. PodsSound'
  <2>1. \A q \in PodId : pods'[q].st \in LivePod => pods[q].st \in LivePod
    BY <1>3, <1>4, <1>5 DEF LivePod
  <2> QED
    BY <1>2, <1>5, <1>6, <2>1 DEF BotInv, PodsSound
<1>13. GivenSound' /\ EndedMeansGivenBack'
  BY <1>2, <1>6 DEF BotInv, GivenSound, EndedMeansGivenBack
<1> QED
  BY <1>7, <1>9, <1>10, <1>11, <1>12, <1>13 DEF BotInv

-----------------------------------------------------------------------------
(* Deploys.                                                                *)

Ordered == [NoPod EXCEPT !.st = "waiting_ssh"]

LEMMA OrderedIs == Ordered \in PodState /\ Ordered.assigned = {} /\ Ordered.st = "waiting_ssh"
  BY DEF Ordered, NoPod, PodState, LivePod

(* A pod is made, or none; the bot has it in memory, or not. *)
LEMMA MadeKeeps ==
  ASSUME BotInv, bot.pc \notin {"start", "given", "dead", "ended"}, NEW p \in PodId, cloud.made[p] = 0,
         bot' \in Process(bot'.max, bot'.proc), bot'.run = bot.run, bot'.unconfirmed = bot.unconfirmed,
         bot'.pc \notin {"start", "given", "dead", "ended"}, Ending => Ending', UNCHANGED <<log, board>>,
         cloud' = cloud \/ cloud' = Made(p),
         pods' = pods \/ (cloud' = Made(p) /\ pods' = [pods EXCEPT ![p] = Ordered]),
         HandSound', SpendSound'
  PROVE  BotInv'
<1>1. /\ pods \in [PodId -> PodState] /\ LogTyped /\ cloud \in [alive : SUBSET PodId, made : [PodId -> Nat]]
      /\ BotTyped /\ bot.run \in Nat
  BY DEF BotInv, BotTyped, LogTyped, Process
<1>2. bot.run >= 1 /\ pods[p].st \notin LivePod /\ pods[p].assigned = {} /\ p \notin log.ended
  BY DEF BotInv, PodsSound, GivenSound, LivePod
<1>3. /\ cloud' \in [alive : SUBSET PodId, made : [PodId -> Nat]]
      /\ cloud'.made[p] \in {0, bot.run} /\ (cloud' = Made(p) => cloud'.made[p] = bot.run)
      /\ \A q \in PodId : q # p => cloud'.made[q] = cloud.made[q]
      /\ cloud'.alive \subseteq cloud.alive \cup {p}
  <2>1. CASE cloud' = cloud /\ cloud' # Made(p)
    BY <1>1, <2>1
  <2>2. CASE cloud' = Made(p)
    <3> DEFINE alive == cloud.alive \cup {p}
               made == [cloud.made EXCEPT ![p] = bot.run]
    <3>1. cloud' = [cloud EXCEPT !.alive = alive, !.made = made]
      BY <2>2 DEF Made
    <3>2. /\ alive \in SUBSET PodId /\ made \in [PodId -> Nat] /\ made[p] = bot.run
          /\ \A q \in PodId : q # p => made[q] = cloud.made[q]
      <4>1. cloud.alive \in SUBSET PodId /\ cloud.made \in [PodId -> Nat]
        BY <1>1
      <4> QED
        BY <1>1, <4>1
    <3>3. alive \subseteq cloud.alive \cup {p}
      OBVIOUS
    <3> HIDE DEF alive, made
    <3>4. cloud'.alive = alive /\ cloud'.made = made /\ cloud' \in [alive : SUBSET PodId, made : [PodId -> Nat]]
      BY <1>1, <3>1, <3>2
    <3> QED
      BY <3>2, <3>3, <3>4
  <2> QED
    BY <2>1, <2>2
<1>4. /\ pods' \in [PodId -> PodState] /\ pods'[p].assigned = {}
      /\ \A q \in PodId : q # p => pods'[q] = pods[q]
      /\ pods'[p].st \in LivePod => cloud' = Made(p)
  <2>1. CASE pods' = pods
    BY <1>1, <1>2, <2>1
  <2>2. CASE cloud' = Made(p) /\ pods' = [pods EXCEPT ![p] = Ordered]
    BY <1>1, <2>2, OrderedIs
  <2> QED
    BY <2>1, <2>2
<1>5. BotTyped'
  BY <1>1, <1>3, <1>4 DEF BotTyped
<1>6. PodsSound'
  <2>1. \A q \in PodId : cloud'.made[q] <= bot.run
    BY <1>1, <1>2, <1>3 DEF BotInv, PodsSound
  <2>2. \A q \in PodId : pods'[q].st \in LivePod => cloud'.made[q] = bot.run
    BY <1>3, <1>4 DEF BotInv, PodsSound
  <2>3. \A q \in PodId : pods'[q].st # "working" => pods'[q].assigned = {}
    BY <1>4 DEF BotInv, PodsSound
  <2> QED
    BY <1>2, <2>1, <2>2, <2>3 DEF PodsSound
<1>7. RowsSound' /\ OpenRowsAreAccountedFor'
  <2>1. RowsStay
    BY <1>2, <1>4 DEF RowsStay
  <2>2. \A q \in PodId : cloud'.made[q] = cloud.made[q] \/ (cloud.made[q] = 0 /\ cloud'.made[q] = bot.run)
    BY <1>3
  <2>3. bot.pc \notin {"given", "dead"} /\ bot'.pc # "given" /\ bot'.run = bot.run /\ board.covered \subseteq board'.covered
    OBVIOUS
  <2>4. Ending => Ending'
    OBVIOUS
  <2> QED
    BY <2>1, <2>2, <2>3, <2>4, RowsFrame
<1>8. GivenSound'
  <2>1. \A q \in log.ended : q # p /\ q \in PodId
    BY <1>1, <1>2 DEF LogTyped
  <2>2. \A q \in log'.ended : cloud'.made[q] # 0
    BY <1>3, <2>1 DEF BotInv, GivenSound
  <2>3. \A q \in cloud'.alive \cap log'.ended : cloud'.made[q] = bot'.run => q \in bot'.unconfirmed
    BY <1>3, <2>1 DEF BotInv, GivenSound
  <2> QED
    BY <2>2, <2>3 DEF GivenSound
<1>9. EndedMeansGivenBack'
  BY DEF EndedMeansGivenBack
<1> QED
  BY <1>5, <1>6, <1>7, <1>8, <1>9 DEF BotInv

LEMMA FirstUnmade ==
  ASSUME Unmade # {}
  PROVE  Min(Unmade) \in PodId /\ cloud.made[Min(Unmade)] = 0
<1>1. Unmade \subseteq Nat
  BY Caps DEF Unmade
<1>2. Min(Unmade) \in Unmade
  BY <1>1, MinIn
<1> QED
  BY <1>2 DEF Unmade

(* One more pod at the ceiling is within the cap. *)
LEMMA OneMoreIsPaid ==
  ASSUME BotInv, MayDeploy, bot'.spent = bot.spent, NEW p, Live' \subseteq Live \cup {p}
  PROVE  SpendSound'
<1>1. MAX_USD \in Nat \ {0} /\ LEAD \in Nat /\ bot.spent \in Nat /\ bot.spent < MAX_USD
  BY Caps DEF BotInv, BotTyped, Process, SpendSound
<1>2. ~(bot.spent + (Hourly + 1) * LEAD >= MAX_USD)
  BY DEF MayDeploy, OverBudget
<1>3. Hourly' \in Nat /\ Hourly + 1 \in Nat /\ Hourly' <= Hourly + 1
  BY HourlyIs
<1>4. Hourly' * LEAD <= (Hourly + 1) * LEAD /\ Hourly' * LEAD \in Nat /\ (Hourly + 1) * LEAD \in Nat
  BY <1>1, <1>3, Longer
<1> QED
  BY <1>1, <1>2, <1>4 DEF SpendSound

LEMMA LaunchKeeps == BotInv /\ LaunchOne => BotInv'
<1> SUFFICES ASSUME BotInv, LaunchOne PROVE BotInv'
  OBVIOUS
<1>1. bot \in Process(bot.max, bot.proc) /\ bot.spent \in Nat /\ SpendSound
  BY DEF BotInv, BotTyped, Process
<1>2. bot.pc = "launch" /\ MayDeploy /\ Unmade # {} /\ UNCHANGED <<log, worker, board, box>>
  BY DEF LaunchOne
<1>3. PICK p \in PodId : p = Min(Unmade) /\ cloud.made[p] = 0
  BY <1>2, FirstUnmade
<1>4. Ahead
  BY <1>2 DEF Ahead
<1>5. Live' \subseteq Live \cup {p}
  <2>1. \A q \in PodId : q # p => pods'[q] = pods[q]
    <3>1. pods' = pods \/ pods' = [pods EXCEPT ![p] = Ordered]
      BY <1>3 DEF LaunchOne, Ordered
    <3> QED
      BY <3>1 DEF BotInv, BotTyped
  <2> QED
    BY <2>1 DEF Live
<1>6. CASE cloud' = Made(p) /\ pods' = [pods EXCEPT ![p] = Ordered]
           /\ bot' = [bot EXCEPT !.refusals = 0]
  <2>1. /\ bot' \in Process(bot'.max, bot'.proc) /\ bot'.run = bot.run /\ bot'.unconfirmed = bot.unconfirmed
        /\ bot'.pc = "launch" /\ bot'.spent = bot.spent
    BY <1>1, <1>2, <1>6 DEF Process
  <2>2. HandSound' /\ SpendSound'
    BY <1>2, <1>5, <2>1, OneMoreIsPaid DEF HandSound
  <2> QED
    BY <1>2, <1>3, <1>6, <2>1, <2>2, NotEnding, MadeKeeps
<1>7. CASE cloud' = Made(p) /\ pods' = [pods EXCEPT ![p] = Ordered]
           /\ bot' = [EndPod(p, "cancelled", "exit") EXCEPT !.refusals = 0]
  <2>1. "cancelled" \in Closed
    BY DEF Closed
  <2> DEFINE d == EndPod(p, "cancelled", "exit")
  <2>2. /\ d \in Process(bot.max, bot.proc) /\ d.run = bot.run /\ d.unconfirmed = bot.unconfirmed
        /\ d.pc = "ask" /\ d.spent = bot.spent /\ d.pod = p /\ d.why = "cancelled" /\ d.ret = "exit"
    BY <1>1, <2>1, EndPodIs
  <2>3. bot' = [d EXCEPT !.refusals = 0]
    BY <1>7
  <2> HIDE DEF d
  <2>4. /\ bot' \in Process(bot'.max, bot'.proc) /\ bot'.run = bot.run /\ bot'.unconfirmed = bot.unconfirmed
        /\ bot'.pc = "ask" /\ bot'.spent = bot.spent /\ bot'.pod = p /\ bot'.why \in Closed /\ bot'.ret = "exit"
    BY <2>1, <2>2, <2>3 DEF Process
  <2>5. p \in Live'
    <3>1. pods'[p].st = "waiting_ssh"
      BY <1>7, OrderedIs DEF BotInv, BotTyped
    <3> QED
      BY <3>1 DEF Live
  <2>6. HandSound' /\ SpendSound'
    BY <1>2, <1>5, <2>4, <2>5, OneMoreIsPaid DEF HandSound
  <2> QED
    BY <1>2, <1>3, <1>7, <2>4, <2>6, NotEnding, MadeKeeps
<1>8. CASE UNCHANGED pods /\ (cloud' = cloud \/ cloud' = Made(p))
           /\ bot' \in {[bot EXCEPT !.pc = "exit", !.refusals = 0], [bot EXCEPT !.pc = "exit", !.refusals = bot.refusals + 1]}
  <2>1. "exit" \in BotPc /\ 0 \in Nat /\ bot.refusals + 1 \in Nat
    <3>1. bot.refusals \in Nat
      BY <1>1 DEF Process
    <3>2. "exit" \in BotPc
      BY DEF BotPc
    <3> QED
      BY <3>1, <3>2
  <2>2. /\ bot' \in Process(bot'.max, bot'.proc) /\ bot'.run = bot.run /\ bot'.unconfirmed = bot.unconfirmed
        /\ bot'.pc = "exit" /\ bot'.spent = bot.spent
    <3>1. PICK n \in Nat : bot' = [bot EXCEPT !.pc = "exit", !.refusals = n]
      BY <1>8, <2>1
    <3> QED
      BY <1>1, <2>1, <3>1 DEF Process
  <2>3. HandSound' /\ SpendSound'
    BY <1>2, <1>5, <2>2, OneMoreIsPaid DEF HandSound
  <2> QED
    BY <1>2, <1>3, <1>8, <2>2, <2>3, NotEnding, MadeKeeps
<1>9. CASE UNCHANGED pods /\ (cloud' = cloud \/ cloud' = Made(p)) /\ bot' = Stop
  <2>1. /\ bot' \in Process(bot'.max, bot'.proc) /\ bot'.run = bot.run /\ bot'.unconfirmed = bot.unconfirmed
        /\ bot'.pc = "cleanup" /\ bot'.spent = 0
    BY <1>1, <1>9, StopIs, TypedAs
  <2>2. ~Ahead' /\ Live' = Live
    BY <1>9, <2>1 DEF Ahead, Live
  <2>3. HandSound' /\ SpendSound'
    BY <1>1, <2>1, <2>2, SpendKept DEF HandSound
  <2> QED
    BY <1>2, <1>3, <1>9, <2>1, <2>3, NotEnding, MadeKeeps
<1>10. \/ cloud' = Made(p) /\ pods' = [pods EXCEPT ![p] = Ordered]
          /\ bot' = [bot EXCEPT !.refusals = 0]
       \/ cloud' = Made(p) /\ pods' = [pods EXCEPT ![p] = Ordered]
          /\ bot' = [EndPod(p, "cancelled", "exit") EXCEPT !.refusals = 0]
       \/ bot' = [bot EXCEPT !.pc = "exit", !.refusals = 0] /\ UNCHANGED <<cloud, pods>>
       \/ cloud' \in {cloud, Made(p)} /\ UNCHANGED pods
          /\ (bot' = Stop \/ bot' = [bot EXCEPT !.pc = "exit", !.refusals = bot.refusals + 1])
  BY <1>3 DEF LaunchOne, Ordered
<1> QED
  BY <1>6, <1>7, <1>8, <1>9, <1>10

(* A signal between the rows and their pod takes the rows from it. *)
LEMMA TornKeeps ==
  ASSUME BotInv, bot.pc = "given", NEW kept \in SUBSET bot.chunk, log' = Torn(kept),
         bot' \in Process(bot'.max, bot'.proc), bot'.run = bot.run, bot'.unconfirmed = bot.unconfirmed,
         bot'.pc = "cleanup", UNCHANGED <<pods, cloud, board>>, HandSound', SpendSound'
  PROVE  BotInv'
<1>1. PICK p \in PodId : p = bot.pod
  BY DEF BotInv, HandSound, ChunkSound, Live
<1>2. PICK c \in SUBSET Heights : c = bot.chunk
  BY DEF BotInv, HandSound, ChunkSound
<1>3. /\ \A q \in PodId : c \cap pods[q].assigned = {}
      /\ \A h \in c : <<h, p>> \notin log.lost
      /\ kept \subseteq c
  BY <1>1, <1>2 DEF BotInv, HandSound, ChunkSound
<1>4. BotTyped /\ LogTyped
  BY DEF BotInv, BotTyped, LogTyped
<1> DEFINE R == [r \in Heights \X PodId |-> IF r[2] = p /\ r[1] \in c \ kept THEN NoRow ELSE log.row[r]]
           lost == log.lost \cup (kept \X {p})
<1>5. log' = [log EXCEPT !.row = R, !.lost = lost]
  BY <1>1, <1>2 DEF Torn
<1>6. \A r \in Heights \X PodId :
        R[r] \in Row /\ R[r].out = IF r[2] = p /\ r[1] \in c \ kept THEN "none" ELSE log.row[r].out
  <2> TAKE r \in Heights \X PodId
  <2>1. log.row[r] \in Row /\ NoRow \in Row /\ NoRow.out = "none"
    BY <1>4 DEF LogTyped, Rows, NoRow, Row
  <2> QED
    BY <2>1
<1>7. R \in Rows
  BY <1>6 DEF Rows
<1>8. lost \in SUBSET (Heights \X PodId)
  BY <1>3, <1>4 DEF LogTyped
<1>9. \A h \in Heights, q \in PodId : <<h, q>> \in lost <=> <<h, q>> \in log.lost \/ (q = p /\ h \in kept)
  OBVIOUS
<1> HIDE DEF R, lost
<1>10. log'.row = R /\ log'.ended = log.ended /\ log'.lost = lost /\ LogTyped'
  BY <1>4, <1>5, <1>7, <1>8 DEF LogTyped
<1>11. \A h \in Heights, q \in PodId :
         log'.row[<<h, q>>].out = IF q = p /\ h \in c \ kept THEN "none" ELSE log.row[<<h, q>>].out
  <2> TAKE h \in Heights, q \in PodId
  <2>1. <<h, q>> \in Heights \X PodId /\ <<h, q>>[1] = h /\ <<h, q>>[2] = q
    OBVIOUS
  <2> QED
    BY <1>6, <1>10, <2>1
<1>12. LostSound'
  <2>1. Ending'
    BY DEF Ending
  <2>2. \A h \in Heights, q \in PodId : <<h, q>> \in log.lost => h \notin pods[q].assigned
    BY DEF BotInv, RowsSound, LostSound
  <2> QED
    BY <1>3, <1>9, <1>10, <2>1, <2>2 DEF LostSound
<1>13. RowsSound'
  <2>1. /\ \A h \in Heights, q \in PodId : log.row[<<h, q>>].out = "proven" => h \in board.covered
        /\ \A q, r \in PodId : q # r => pods[q].assigned \cap pods[r].assigned = {}
        /\ \A q, r \in PodId : \A h \in pods[q].assigned : log.row[<<h, r>>].out # "proven"
        /\ \A h \in Heights, q, r \in PodId :
             log.row[<<h, q>>].out = "proven" /\ log.row[<<h, r>>].out = "proven" => q = r
        /\ \A h \in Heights, q \in PodId : cloud.made[q] = 0 => log.row[<<h, q>>].out # "open"
    BY DEF BotInv, RowsSound, Outcome
  <2>2. \A q \in PodId : pods[q].assigned \subseteq Heights
    BY DEF BotInv, BotTyped, PodState
  <2>3. \A h \in Heights, q \in PodId : log'.row[<<h, q>>].out \in {"none", log.row[<<h, q>>].out}
    BY <1>11
  <2>4. \A q, r \in PodId : \A h \in pods[q].assigned : log'.row[<<h, r>>].out # "proven"
    <3> TAKE q \in PodId, r \in PodId
    <3> TAKE h \in pods[q].assigned
    <3>1. h \in Heights /\ log.row[<<h, r>>].out # "proven"
      BY <2>1, <2>2
    <3>2. log'.row[<<h, r>>].out \in {"none", log.row[<<h, r>>].out}
      BY <2>3, <3>1
    <3> QED
      BY <3>1, <3>2
  <2>5. \A h \in Heights, q \in PodId :
          (log'.row[<<h, q>>].out = "proven" => log.row[<<h, q>>].out = "proven")
          /\ (log'.row[<<h, q>>].out = "open" => log.row[<<h, q>>].out = "open")
    BY <2>3
  <2> QED
    BY <1>12, <2>1, <2>4, <2>5 DEF RowsSound, Outcome
<1>14. OpenRowsAreAccountedFor'
  <2>1. \A h \in Heights, q \in PodId :
          log.row[<<h, q>>].out = "open" <=>
            h \in pods[q].assigned \/ (q = p /\ h \in c) \/ <<h, q>> \in log.lost
    BY <1>1, <1>2 DEF BotInv, OpenRowsAreAccountedFor
  <2>2. \A h \in Heights, q \in PodId :
          log'.row[<<h, q>>].out = "open" <=> h \in pods[q].assigned \/ <<h, q>> \in log'.lost
    <3> TAKE h \in Heights, q \in PodId
    <3>1. CASE q = p /\ h \in c
      BY <1>3, <1>9, <1>10, <1>11, <2>1, <3>1
    <3>2. CASE ~(q = p /\ h \in c)
      BY <1>3, <1>9, <1>10, <1>11, <2>1, <3>2
    <3> QED
      BY <3>1, <3>2
  <2> QED
    BY <2>2 DEF OpenRowsAreAccountedFor
<1>15. BotTyped'
  BY <1>4, <1>10 DEF BotTyped, LogTyped
<1>16. PodsSound'
  BY DEF BotInv, PodsSound, Live
<1>17. GivenSound' /\ EndedMeansGivenBack'
  BY <1>10 DEF BotInv, GivenSound, EndedMeansGivenBack
<1> QED
  BY <1>13, <1>14, <1>15, <1>16, <1>17 DEF BotInv

(* A signal may come between a deploy and its answer, or between the rows of
   a chunk and their pod. *)
LEMMA SignalKeeps == BotInv /\ Signal => BotInv'
<1> SUFFICES ASSUME BotInv, Signal PROVE BotInv'
  OBVIOUS
<1>1. bot \in Process(bot.max, bot.proc) /\ bot.spent \in Nat /\ SpendSound /\ BotTyped
  BY DEF BotInv, BotTyped, Process
<1>2. /\ bot.pc \in {"look", "observe", "regen", "assign", "given", "launch", "exit", "ask", "confirm"} /\ bot' = Stop
      /\ UNCHANGED <<pods, worker, board, box>>
  BY DEF Signal
<1>3. /\ bot' \in Process(bot'.max, bot'.proc) /\ bot'.run = bot.run /\ bot'.unconfirmed = bot.unconfirmed
      /\ bot'.pc = "cleanup" /\ bot'.spent = 0
  BY <1>1, <1>2, StopIs, TypedAs
<1>4. ~Ahead' /\ Live' = Live /\ Ending'
  BY <1>2, <1>3 DEF Ahead, Live, Ending
<1>5. HandSound' /\ SpendSound'
  BY <1>1, <1>3, <1>4, SpendKept DEF HandSound
<1>6. CASE bot.pc = "given"
  <2>1. cloud' = cloud /\ \E kept \in SUBSET bot.chunk : log' = Torn(kept)
    BY <1>6 DEF Signal
  <2> QED
    BY <1>2, <1>3, <1>5, <1>6, <2>1, TornKeeps
<1>7. CASE bot.pc # "given" /\ cloud' = cloud
  <2>1. log' = log
    BY <1>7 DEF Signal
  <2> QED
    BY <1>1, <1>2, <1>3, <1>4, <1>5, <1>7, <2>1, LogAlone, BotMoves
<1>8. CASE bot.pc # "given" /\ cloud' = Made(Min(Unmade)) /\ Unmade # {}
  <2>1. PICK p \in PodId : p = Min(Unmade) /\ cloud.made[p] = 0
    BY <1>8, FirstUnmade
  <2>2. log' = log
    BY <1>8 DEF Signal
  <2> QED
    BY <1>2, <1>3, <1>4, <1>5, <1>8, <2>1, <2>2, MadeKeeps
<1>9. cloud' = cloud \/ (cloud' = Made(Min(Unmade)) /\ Unmade # {})
  BY DEF Signal
<1> QED
  BY <1>6, <1>7, <1>8, <1>9

-----------------------------------------------------------------------------
(* The end of a run, and the start of one.                                 *)

LEMMA FreshIs ==
  ASSUME NEW n \in Nat, NEW m
  PROVE  /\ FreshBot(n, m) \in Process(m, 0) /\ FreshBot(n, m).run = n /\ FreshBot(n, m).spent = 0
         /\ FreshBot(n, m).pc = "start"
<1>1. "start" \in BotPc /\ {} \in SUBSET PodId /\ 0 \in Nat
  BY DEF BotPc
<1> QED
  BY <1>1 DEF FreshBot, Process

(* The price of no pod at all is nothing. *)
LEMMA NothingSpent ==
  ASSUME bot'.spent = 0, Ahead' => Live' = {}
  PROVE  SpendSound'
<1>1. MAX_USD \in Nat \ {0} /\ LEAD \in Nat
  BY Caps
<1>2. Ahead' => Hourly' = 0
  BY HourlyIs
<1>3. 0 * LEAD = 0
  BY <1>1
<1> QED
  BY <1>1, <1>2, <1>3 DEF SpendSound

LEMMA SweepKeeps == BotInv /\ CleanupSweep => BotInv'
<1> SUFFICES ASSUME BotInv, CleanupSweep PROVE BotInv'
  OBVIOUS
<1>1. /\ bot \in Process(bot.max, bot.proc) /\ pods \in [PodId -> PodState] /\ LogTyped /\ BotTyped
      /\ cloud \in [alive : SUBSET PodId, made : [PodId -> Nat]]
  BY DEF BotInv, BotTyped, LogTyped
<1>2. bot.pc = "cleanup" /\ Live = {} /\ UNCHANGED <<pods, log, board, box>>
  BY DEF CleanupSweep
<1>3. PICK listed \in BOOLEAN : \E stuck \in SUBSET Strays(listed) :
        /\ cloud' = [cloud EXCEPT !.alive = cloud.alive \ (Strays(listed) \ stuck)]
        /\ bot' = [FreshBot(bot.run, bot.max) EXCEPT !.pc = "ended", !.unconfirmed = bot.unconfirmed \cup stuck, !.swept = listed]
  BY DEF CleanupSweep
<1>4. PICK stuck \in SUBSET Strays(listed) :
        /\ cloud' = [cloud EXCEPT !.alive = cloud.alive \ (Strays(listed) \ stuck)]
        /\ bot' = [FreshBot(bot.run, bot.max) EXCEPT !.pc = "ended", !.unconfirmed = bot.unconfirmed \cup stuck, !.swept = listed]
  BY <1>3
<1> DEFINE alive == cloud.alive \ (Strays(listed) \ stuck)
           named == bot.unconfirmed \cup stuck
<1>5. /\ bot.run \in Nat /\ bot.unconfirmed \in SUBSET PodId
      /\ cloud.alive \in SUBSET PodId /\ cloud.made \in [PodId -> Nat]
  BY <1>1 DEF Process
<1>6. /\ alive \in SUBSET PodId /\ alive \subseteq cloud.alive
      /\ named \in SUBSET PodId /\ bot.unconfirmed \subseteq named /\ "ended" \in BotPc
      /\ \A p \in alive : listed /\ cloud.made[p] = bot.run => p \in named
  BY <1>5 DEF Strays, BotPc
<1>7. /\ cloud' = [cloud EXCEPT !.alive = alive]
      /\ bot' = [FreshBot(bot.run, bot.max) EXCEPT !.pc = "ended", !.unconfirmed = named, !.swept = listed]
  BY <1>4
<1> HIDE DEF alive, named
<1>8. cloud'.alive = alive /\ cloud'.made = cloud.made /\ cloud' \in [alive : SUBSET PodId, made : [PodId -> Nat]]
  BY <1>1, <1>6, <1>7
<1>9. /\ bot' \in Process(bot'.max, bot'.proc) /\ bot'.pc = "ended" /\ bot'.unconfirmed = named
      /\ bot'.swept = listed /\ bot'.run = bot.run /\ bot'.spent = 0
  <2> DEFINE f == FreshBot(bot.run, bot.max)
  <2>1. f \in Process(bot.max, 0) /\ f.run = bot.run /\ f.spent = 0
    BY <1>5, FreshIs
  <2> HIDE DEF f
  <2>2. bot' = [f EXCEPT !.pc = "ended", !.unconfirmed = named, !.swept = listed]
    BY <1>7 DEF f
  <2> QED
    BY <1>5, <1>6, <2>1, <2>2 DEF Process
<1>10. BotTyped'
  BY <1>1, <1>2, <1>8, <1>9 DEF BotTyped
<1>11. PodsSound'
  <2>1. Live' = {}
    BY <1>2 DEF Live
  <2> QED
    BY <1>2, <1>8, <1>9, <2>1 DEF BotInv, PodsSound
<1>12. HandSound' /\ SpendSound'
  BY <1>9, NothingSpent DEF HandSound, Ahead
<1>13. RowsSound' /\ OpenRowsAreAccountedFor'
  <2>1. RowsStay /\ Ending'
    BY <1>2, <1>9 DEF RowsStay, Ending
  <2> QED
    BY <1>2, <1>8, <1>9, <2>1, RowsFrame
<1>14. \A p \in alive \cap log.ended : cloud.made[p] = bot.run => p \in bot.unconfirmed
  BY <1>2, <1>6 DEF BotInv, GivenSound
<1>15. GivenSound'
  BY <1>2, <1>6, <1>8, <1>9, <1>14 DEF BotInv, GivenSound
<1>16. EndedMeansGivenBack'
  <2>1. \A p \in alive : cloud.made[p] = bot.run => p \in named \/ (~listed /\ p \notin log.ended)
    BY <1>6, <1>14
  <2> QED
    BY <1>2, <1>8, <1>9, <2>1 DEF EndedMeansGivenBack
<1> QED
  BY <1>10, <1>11, <1>12, <1>13, <1>15, <1>16 DEF BotInv

(* What the bot had in memory is gone; the log and the pods are not. *)
LEMMA Forgets ==
  ASSUME BotInv, bot' \in Process(bot'.max, bot'.proc), bot'.spent = 0,
         pods' = [p \in PodId |-> NoPod], UNCHANGED <<cloud, board>>,
         log' = [log EXCEPT !.lost = {r \in Heights \X PodId : log.row[r].out = "open"}],
         \/ bot'.pc = "dead" /\ bot'.run = bot.run
         \/ bot'.pc = "start" /\ bot'.run = bot.run + 1
  PROVE  BotInv'
<1>1. bot.run \in Nat /\ bot.run >= 1 /\ BotTyped
  BY DEF BotInv, BotTyped, Process, PodsSound
<1>2. NoPod \in PodState /\ NoPod.st = "none" /\ NoPod.assigned = {}
  BY DEF NoPod, PodState
<1>3. \A p \in PodId : pods'[p].st = "none" /\ pods'[p].assigned = {}
  BY <1>2
<1>4. pods' \in [PodId -> PodState]
  BY <1>2
<1>15. log'.row = log.row /\ log'.ended = log.ended /\ LogTyped'
       /\ \A h \in Heights, p \in PodId : <<h, p>> \in log'.lost <=> log.row[<<h, p>>].out = "open"
  <2> DEFINE lost == {r \in Heights \X PodId : log.row[r].out = "open"}
  <2>1. lost \in SUBSET (Heights \X PodId) /\ \A h \in Heights, p \in PodId : <<h, p>> \in lost <=> log.row[<<h, p>>].out = "open"
    OBVIOUS
  <2>2. log' = [log EXCEPT !.lost = lost]
    OBVIOUS
  <2> HIDE DEF lost
  <2> QED
    BY <1>1, <2>1, <2>2 DEF BotTyped, LogTyped
<1>5. BotTyped'
  BY <1>1, <1>4, <1>15 DEF BotTyped, LogTyped
<1>6. Live' = {}
  BY <1>3 DEF Live
<1>7. \A p \in PodId : cloud.made[p] <= bot.run /\ cloud.made[p] \in Nat
  BY <1>1 DEF BotInv, PodsSound, BotTyped
<1>8. PodsSound'
  <2>1. bot'.run >= 1 /\ \A p \in PodId : cloud.made[p] <= bot'.run
    BY <1>1, <1>7
  <2>2. bot'.pc = "start" => \A p \in PodId : cloud.made[p] # bot'.run
    BY <1>1, <1>7
  <2> QED
    BY <1>3, <1>6, <2>1, <2>2 DEF PodsSound, LivePod
<1>9. HandSound' /\ SpendSound'
  BY <1>6, NothingSpent DEF HandSound
<1>11. bot'.pc # "dead" => \A p \in PodId : cloud.made[p] # bot'.run
  BY <1>1, <1>7
<1>10. RowsSound'
  <2>1. LostSound'
    BY <1>3, <1>11 DEF LostSound, Ending
  <2> QED
    BY <1>3, <1>15, <2>1 DEF BotInv, RowsSound, Outcome
<1>12. OpenRowsAreAccountedFor'
  BY <1>3, <1>15 DEF OpenRowsAreAccountedFor
<1>13. GivenSound'
  <2>1. log.ended \subseteq PodId
    BY <1>1 DEF BotTyped
  <2> QED
    BY <1>11, <1>15, <2>1 DEF BotInv, GivenSound
<1>14. EndedMeansGivenBack'
  BY DEF EndedMeansGivenBack
<1> QED
  BY <1>5, <1>8, <1>9, <1>10, <1>12, <1>13, <1>14 DEF BotInv

LEMMA KillKeeps == BotInv /\ Kill => BotInv'
<1> SUFFICES ASSUME BotInv, Kill PROVE BotInv'
  OBVIOUS
<1>1. bot.run \in Nat
  BY DEF BotInv, BotTyped, Process
<1> DEFINE f == FreshBot(bot.run, bot.max)
<1>2. f \in Process(bot.max, 0) /\ f.run = bot.run /\ f.spent = 0 /\ "dead" \in BotPc
  BY <1>1, FreshIs DEF BotPc
<1>3. bot' = [f EXCEPT !.pc = "dead"]
  BY DEF Kill
<1> HIDE DEF f
<1>4. bot' \in Process(bot'.max, bot'.proc) /\ bot'.run = bot.run /\ bot'.spent = 0 /\ bot'.pc = "dead"
  BY <1>2, <1>3 DEF Process
<1> QED
  BY <1>4, Forgets DEF Kill

LEMMA RestartKeeps == BotInv /\ Restart => BotInv'
<1> SUFFICES ASSUME BotInv, Restart PROVE BotInv'
  OBVIOUS
<1>1. bot.run + 1 \in Nat
  <2>1. bot.run \in Nat
    BY DEF BotInv, BotTyped, Process
  <2> QED
    BY <2>1
<1>2. bot' = FreshBot(bot.run + 1, bot.max)
  BY DEF Restart
<1>3. bot' \in Process(bot'.max, bot'.proc) /\ bot'.run = bot.run + 1 /\ bot'.spent = 0 /\ bot'.pc = "start"
  BY <1>1, <1>2, FreshIs, TypedAs
<1>4. log.lost = {r \in Heights \X PodId : log.row[r].out = "open"}
  <2>1. log.lost \subseteq Heights \X PodId /\ bot.pc \in {"ended", "dead"}
    BY DEF BotInv, BotTyped, Restart, Up
  <2>2. \A p \in PodId : pods[p].assigned = {}
    BY <2>1 DEF BotInv, PodsSound, Live, LivePod
  <2>3. \A h \in Heights, p \in PodId : log.row[<<h, p>>].out = "open" <=> <<h, p>> \in log.lost
    BY <2>1, <2>2 DEF BotInv, OpenRowsAreAccountedFor
  <2> QED
    BY <2>1, <2>3
<1>5. log' = [log EXCEPT !.lost = {r \in Heights \X PodId : log.row[r].out = "open"}]
  <2>1. log' = log
    BY DEF Restart
  <2> QED
    BY <1>4, <2>1 DEF BotInv, BotTyped
<1> QED
  BY <1>3, <1>5, Forgets DEF Restart

(* The log is corrected: at most one row of a block, of a pod long ended, is
   proven after all. *)
LEMMA StartKeeps == BotInv /\ Start => BotInv'
<1> SUFFICES ASSUME BotInv, Start PROVE BotInv'
  OBVIOUS
<1>1. /\ bot \in Process(bot.max, bot.proc) /\ pods \in [PodId -> PodState] /\ LogTyped /\ BotTyped
      /\ bot.spent \in Nat /\ SpendSound
  BY DEF BotInv, BotTyped, LogTyped, Process
<1>2. /\ bot.pc = "start" /\ UNCHANGED <<pods, cloud, worker, board, box>>
      /\ bot' = [bot EXCEPT !.pc = "look"]
      /\ log' = [log EXCEPT !.row = Reconciled, !.queue = Queued(Pending({}, FALSE) \ box.bundles)]
  BY DEF Start, Goto
<1>3. /\ bot' \in Process(bot'.max, bot'.proc) /\ bot'.run = bot.run /\ bot'.unconfirmed = bot.unconfirmed
      /\ bot'.spent = bot.spent /\ bot'.pc = "look"
  BY <1>1, <1>2 DEF Process, BotPc
<1> DEFINE cand == {r \in Heights \X PodId : /\ log.row[r].out \in Closed /\ r[2] \in log.ended
                                             /\ r[1] \in board.covered /\ ProofInLife(r[1], r[2])}
           done == {r[1] : r \in {q \in Heights \X PodId : log.row[q].out = "proven"}}
           first(r) == \A q \in cand : q[1] = r[1] => r[2] <= q[2]
           mend == {r \in cand : r[1] \notin done /\ first(r)}
<1>4. /\ Reconciled \in Rows
      /\ \A r \in Heights \X PodId : Reconciled[r].out = IF r \in mend THEN "proven" ELSE log.row[r].out
  <2>1. \A r \in Heights \X PodId : log.row[r] \in Row
    BY <1>1 DEF LogTyped, Rows
  <2>2. Proven \in Row /\ Proven.out = "proven"
    BY DEF Proven, Row
  <2>3. Reconciled = [r \in Heights \X PodId |-> IF r \in mend THEN Proven ELSE log.row[r]]
    BY DEF Reconciled
  <2> HIDE DEF mend
  <2> QED
    BY <2>1, <2>2, <2>3 DEF Rows
<1>5. /\ \A r \in mend : r \in Heights \X PodId /\ r[1] \in board.covered /\ log.row[r].out \in Closed
      /\ \A r \in mend, q \in Heights \X PodId : q[1] = r[1] => log.row[q].out # "proven"
      /\ \A r, q \in mend : q[1] = r[1] => r[2] <= q[2]
  OBVIOUS
<1> HIDE DEF mend
<1>6. \A p \in PodId : cloud.made[p] # bot.run /\ pods[p].assigned = {}
  BY <1>2 DEF BotInv, PodsSound, LivePod
<1>7. log'.row = Reconciled /\ log'.ended = log.ended /\ log'.lost = log.lost /\ LogTyped'
  BY <1>1, <1>2, <1>4 DEF LogTyped
<1>8. BotTyped'
  BY <1>1, <1>2, <1>3, <1>7 DEF BotTyped, LogTyped
<1>9. PodsSound'
  BY <1>2, <1>3 DEF BotInv, PodsSound, Live
<1>10. HandSound'
  BY <1>3 DEF HandSound
<1>11. SpendSound'
  BY <1>1, <1>2, <1>3, SpendKept DEF Live, Ahead
<1>12. \A h \in Heights, p \in PodId :
         log'.row[<<h, p>>].out = IF <<h, p>> \in mend THEN "proven" ELSE log.row[<<h, p>>].out
  BY <1>4, <1>7
<1>13. RowsSound'
  <2>1. \A h \in Heights, p \in PodId : log'.row[<<h, p>>].out = "proven" => h \in board.covered
    BY <1>5, <1>12 DEF BotInv, RowsSound, Outcome
  <2>2. ASSUME NEW h \in Heights, NEW p \in PodId, NEW q \in PodId,
               log'.row[<<h, p>>].out = "proven", log'.row[<<h, q>>].out = "proven"
        PROVE  p = q
    <3>1. CASE <<h, p>> \in mend /\ <<h, q>> \in mend
      <4>1. p <= q /\ q <= p
        BY <1>5, <3>1
      <4> QED
        BY <4>1, Caps
    <3>2. CASE <<h, p>> \in mend /\ <<h, q>> \notin mend
      BY <1>5, <1>12, <2>2, <3>2
    <3>3. CASE <<h, p>> \notin mend /\ <<h, q>> \in mend
      BY <1>5, <1>12, <2>2, <3>3
    <3>4. CASE <<h, p>> \notin mend /\ <<h, q>> \notin mend
      BY <1>12, <2>2, <3>4 DEF BotInv, RowsSound, Outcome
    <3> QED
      BY <3>1, <3>2, <3>3, <3>4
  <2>3. \A h \in Heights, p \in PodId : cloud.made[p] = 0 => log'.row[<<h, p>>].out # "open"
    BY <1>12 DEF BotInv, RowsSound, Outcome
  <2>4. LostSound'
    BY <1>2, <1>6, <1>7, NotEnding DEF BotInv, RowsSound, LostSound
  <2> QED
    BY <1>2, <1>6, <2>1, <2>2, <2>3, <2>4 DEF RowsSound, Outcome
<1>14. OpenRowsAreAccountedFor'
  <2>1. \A h \in Heights, p \in PodId : log.row[<<h, p>>].out = "open" <=> <<h, p>> \in log.lost
    BY <1>2, <1>6 DEF BotInv, OpenRowsAreAccountedFor
  <2>2. \A h \in Heights, p \in PodId : log'.row[<<h, p>>].out = "open" <=> <<h, p>> \in log.lost
    <3> TAKE h \in Heights, p \in PodId
    <3>1. CASE <<h, p>> \in mend
      <4>1. log.row[<<h, p>>].out # "open"
        BY <1>5, <3>1 DEF Closed
      <4> QED
        BY <1>12, <2>1, <3>1, <4>1
    <3>2. CASE <<h, p>> \notin mend
      BY <1>12, <2>1, <3>2
    <3> QED
      BY <3>1, <3>2
  <2> QED
    BY <1>2, <1>3, <1>6, <1>7, <2>2 DEF OpenRowsAreAccountedFor
<1>15. GivenSound' /\ EndedMeansGivenBack'
  BY <1>2, <1>3, <1>7 DEF BotInv, GivenSound, EndedMeansGivenBack
<1> QED
  BY <1>8, <1>9, <1>10, <1>11, <1>13, <1>14, <1>15 DEF BotInv

LEMMA Starts == Init => BotInv
<1> SUFFICES ASSUME Init PROVE BotInv
  OBVIOUS
<1>1. /\ pods = [p \in PodId |-> NoPod] /\ cloud = [alive |-> {}, made |-> [p \in PodId |-> 0]]
      /\ log = [row |-> [r \in Heights \X PodId |-> NoRow], ended |-> {}, queue |-> [h \in Heights |-> "no"],
                 lost |-> {}]
      /\ \E b \in InitBoards : bot = FreshBot(1, b[3])
      /\ \E b \in InitBoards : board = [covered |-> b[2], held |-> {Sponsor[h] : h \in Heights}]
  BY DEF Init
<1>2. bot \in Process(bot.max, bot.proc) /\ bot.run = 1 /\ bot.spent = 0 /\ bot.pc = "start"
  BY <1>1, FreshIs, TypedAs
<1>3. NoPod \in PodState /\ NoPod.st = "none" /\ NoPod.assigned = {} /\ NoRow \in Row /\ NoRow.out = "none"
  BY DEF NoPod, PodState, NoRow, Row
<1>4. /\ pods \in [PodId -> PodState]
      /\ \A p \in PodId : pods[p].st = "none" /\ pods[p].assigned = {} /\ cloud.made[p] = 0
  BY <1>1, <1>3
<1>5. \A h \in Heights, p \in PodId : log.row[<<h, p>>].out = "none"
  BY <1>1, <1>3
<1>6. BotTyped
  <2>1. [r \in Heights \X PodId |-> NoRow] \in Rows
    BY <1>3 DEF Rows
  <2>2. log \in [row : Rows, ended : SUBSET PodId, queue : {log.queue}, lost : SUBSET (Heights \X PodId)]
    BY <1>1, <2>1
  <2>3. cloud \in [alive : SUBSET PodId, made : [PodId -> Nat]]
    BY <1>1
  <2>4. board \in [covered : {board.covered}, held : {board.held}]
    BY <1>1
  <2> QED
    BY <1>2, <1>4, <2>2, <2>3, <2>4 DEF BotTyped
<1>7. Live = {}
  BY <1>4 DEF Live
<1>8. PodsSound
  BY <1>2, <1>4, <1>7 DEF PodsSound, LivePod
<1>9. HandSound /\ EndedMeansGivenBack
  BY <1>2 DEF HandSound, EndedMeansGivenBack
<1>10. SpendSound
  <2>1. MAX_USD \in Nat \ {0} /\ LEAD \in Nat /\ Hourly = 0
    BY <1>7, Caps, HourlyIs
  <2>2. 0 * LEAD = 0
    BY <2>1
  <2> QED
    BY <1>2, <2>1, <2>2 DEF SpendSound
<1>11. RowsSound /\ OpenRowsAreAccountedFor
  <2>1. log.lost = {}
    BY <1>1
  <2> QED
    BY <1>2, <1>4, <1>5, <2>1 DEF RowsSound, LostSound, OpenRowsAreAccountedFor, Outcome
<1>12. GivenSound
  BY <1>1 DEF GivenSound
<1> QED
  BY <1>6, <1>8, <1>9, <1>10, <1>11, <1>12 DEF BotInv

LEMMA Rests == BotInv /\ UNCHANGED vars => BotInv'
<1> SUFFICES ASSUME BotInv, UNCHANGED <<bot, pods, log, cloud, worker, board, box>> PROVE BotInv'
  BY DEF vars
<1>1. BotTyped' /\ PodsSound' /\ HandSound'
  BY DEF BotInv, BotTyped, PodsSound, HandSound, ChunkSound, Live
<1>2. RowsSound' /\ OpenRowsAreAccountedFor'
  BY DEF BotInv, RowsSound, LostSound, Ending, OpenRowsAreAccountedFor, Outcome
<1>3. GivenSound' /\ EndedMeansGivenBack' /\ SpendSound'
  BY DEF BotInv, GivenSound, EndedMeansGivenBack, SpendSound, Ahead, Hourly, Live
<1> QED
  BY <1>1, <1>2, <1>3 DEF BotInv

LEMMA Step == BotInv /\ [Next]_vars => BotInv'
<1> SUFFICES ASSUME BotInv, [Next]_vars PROVE BotInv'
  OBVIOUS
<1>1. CASE Start
  BY <1>1, StartKeeps
<1>2. CASE Look
  BY <1>2, LookKeeps
<1>3. CASE ObservePod
  BY <1>3, ObserveKeeps
<1>4. CASE Budget
  BY <1>4, BudgetKeeps
<1>5. CASE Regen
  BY <1>5, RegenKeeps
<1>6. CASE Assign
  BY <1>6, AssignKeeps
<1>7. CASE LaunchOne
  BY <1>7, LaunchKeeps
<1>8. CASE LaunchNoMore \/ ExitCheck
  BY <1>8, PassGoesOn
<1>9. CASE TermAsk
  BY <1>9, AskKeeps
<1>10. CASE TermConfirm
  BY <1>10, ConfirmKeeps
<1>11. CASE CleanupPod
  BY <1>11, CleanupPicks
<1>12. CASE CleanupSweep
  BY <1>12, SweepKeeps
<1>13. CASE Signal
  BY <1>13, SignalKeeps
<1>14. CASE Kill
  BY <1>14, KillKeeps
<1>15. CASE Restart
  BY <1>15, RestartKeeps
<1>16. CASE BoardMoves \/ WorkerProves \/ ReplayStep
  BY <1>16, Outside
<1>18. CASE Give
  BY <1>18, GiveKeeps
<1>17. CASE UNCHANGED vars
  BY <1>17, Rests
<1> QED
  BY <1>1, <1>2, <1>3, <1>4, <1>5, <1>6, <1>7, <1>8, <1>9, <1>10, <1>11, <1>12, <1>13, <1>14, <1>15, <1>16, <1>17, <1>18
     DEF Next, Pass

-----------------------------------------------------------------------------
(* What is known of every bot.                                             *)

(* run, its passes and its end: the pod in hand, the rows, the pods and the
   money stay in step over every stop, kill and restart. *)
THEOREM BotInvariant == Spec => []BotInv
  BY Starts, Step, PTL DEF Spec

(* _cleanup: every pod of a run is given back on its orderly end, or is
   named to the operator, or the provider would not list them. *)
THEOREM PodsAreGivenBack == Spec => []EndedMeansGivenBack
<1>1. BotInv => EndedMeansGivenBack
  BY DEF BotInv
<1> QED
  BY <1>1, BotInvariant, PTL

(* _progress, _terminate and reconcile_work: a block is logged as proven for
   one pod only, over every run. *)
THEOREM BlocksCountOnce == Spec => []CountedOnce
<1>1. BotInv => CountedOnce
  <2> SUFFICES ASSUME BotInv, NEW h \in Heights
               PROVE  Cardinality({p \in PodId : log.row[<<h, p>>].out = "proven"}) <= 1
    BY DEF CountedOnce
  <2> DEFINE S == {p \in PodId : log.row[<<h, p>>].out = "proven"}
  <2>1. \A p, q \in S : p = q
    BY DEF BotInv, RowsSound, Outcome
  <2>2. S = {} \/ \E p : S = {p}
    BY <2>1
  <2> HIDE DEF S
  <2>3. Cardinality(S) = 0 \/ Cardinality(S) = 1
    BY <2>2, FS_EmptySet, FS_Singleton
  <2>4. Cardinality(S) <= 1
    BY <2>3
  <2> QED
    BY <2>4 DEF S
<1> QED
  BY <1>1, BotInvariant, PTL

(* _assign, _progress, _terminate and reconcile_work: a row is in flight
   exactly while a pod of the bot has the block or is being given it, or for
   good when a signal or a kill took it from its pod. *)
THEOREM RowsFollowThePods == Spec => []OpenRowsAreAccountedFor
<1>1. BotInv => OpenRowsAreAccountedFor
  BY DEF BotInv
<1> QED
  BY <1>1, BotInvariant, PTL

(* _over_budget, asked before a deploy and in every pass: what was spent
   stays below the cap. *)
THEOREM SpendIsCapped == Spec => []SpendBelowCap
<1>1. BotInv => SpendBelowCap
  BY DEF BotInv, SpendSound, SpendBelowCap
<1> QED
  BY <1>1, BotInvariant, PTL

=============================================================================
