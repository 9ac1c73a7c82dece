--------------------------- MODULE TipFleetProofs ---------------------------
(***************************************************************************)
(* Proofs about TipFleet: for every number of cards, blocks, faults and     *)
(* every limit, the aggregate is started on files that are accounted for, a *)
(* card is recovered only when nothing on it is at work, and a range run    *)
(* ends well only with its own proof and beats only for work done.          *)
(***************************************************************************)
EXTENDS TipFleet, TLAPS, FiniteSetTheorems, WellFoundedInduction

-----------------------------------------------------------------------------
(* Types.                                                                  *)

States == {"cold", "busy", "ending", "hung"}
Prover == [chunk : Chunks, dir : Dirs, st : States, of : {"this"}, logs : BOOLEAN]
            \cup [chunk : FileNos, dir : {"own"}, st : States, of : {"late"}, logs : {FALSE}]
Keys == Cards \X FileNos \X Dirs
Act == {NoAct} \cup [do : {"stage", "reassign", "restart"}, to : Cards]

Block == [pc : {"off", "clear", "probe", "act", "sweep", "count", "serve", "refused"},
          assign : [Chunks -> Cards], staged : SUBSET Chunks, busy : SUBSET Cards, moved : SUBSET Chunks,
          size : [Chunks -> Int], age : [Chunks -> Nat], acts : [Chunks -> Act], torn : SUBSET Chunks,
          swept : BOOLEAN]

Server == [holds : 0..Blocks, log : 0..Blocks, units : 0..UNITS, verified : BOOLEAN, work : 0..UNITS]

Ranging == [pc : {"off", "start", "poll", "ended"}, h : 1..Blocks, beaten : 0..UNITS, gone : Nat,
            res : {"none", "ok", "refused", "aborted"}]

CardsTyped ==
  /\ procs \in [Cards -> SUBSET Prover]
  /\ files \in [Keys -> Of]
  /\ local \in [Chunks -> Of]
  /\ log \in [Chunks -> Nat]
  /\ quiet \in [Chunks -> Nat]
  /\ blk \in Block

RangeTyped ==
  /\ srv \in Server
  /\ rng \in Ranging
  /\ proved \in SUBSET (1..Blocks)
  /\ sent \in [1..Blocks -> Nat]
  /\ worked \in [1..Blocks -> Nat]

-----------------------------------------------------------------------------
(* The invariants.                                                         *)

Launched == {"probe", "act", "sweep", "count", "serve"}
Ticking == {"probe", "act"}

(* What an earlier block left in stage_dir is only ever taken for a chunk
   that was moved, one whose transfer broke, or by the sweep. *)
Excused(c) == c \in blk.moved \cup blk.torn \/ blk.swept

(* What a file in a card's own directory may be, of whatever number. *)
FileSound(card, n) ==
  LET of == files[<<card, n, "own">>]
  IN  /\ of # "before"
      /\ n \notin Chunks => of \in {"none", "late"}
      /\ n \in Chunks => (of = "part" => n \in blk.torn) /\ (of = "stage" => Excused(n))

FilesSound ==
  /\ \A c \in Chunks : local[c] # "before" /\ (local[c] = "part" => c \in blk.torn)
  /\ blk.pc \in Launched => \A card \in Cards, n \in FileNos : FileSound(card, n)
  /\ blk.pc = "sweep" => blk.swept

(* A card that was given another chunk, or is about to be, and a chunk that
   is staged, or is about to be, have finished what they began with. *)
Finished(c) ==
  \/ c \in blk.staged \/ c \in blk.busy \/ blk.acts[c].do = "stage"
  \/ \E d \in Chunks : blk.acts[d].do = "reassign" /\ blk.acts[d].to = c

(* A chunk that was not moved is where it began; a card with a chunk it did
   not begin with is busy; and an unmoved finished chunk has its receipt in
   the one place the driver looks for it. *)
PlacesSound ==
  /\ \A c \in Chunks : (c \notin blk.moved => blk.assign[c] = c) /\ (blk.assign[c] = c \/ blk.assign[c] \in blk.busy)
  /\ blk.pc \in Ticking => \A c \in Chunks : Finished(c) /\ c \notin blk.moved => files[<<c, c, "own">>] # "none"
  /\ blk.pc = "clear" => \A c \in Chunks : ~Finished(c)
  /\ blk.pc \in {"clear", "probe"} => \A c \in Chunks : blk.acts[c].do = "none"

(* The timer of a chunk alone on its card: unless its log has grown since it
   was last looked at, it is no older than the log is quiet. *)
TimerSound(c) ==
  /\ blk.size[c] <= log[c]
  /\ blk.size[c] = log[c] => blk.age[c] <= quiet[c] \/ quiet[c] >= STALL

TimersSound ==
  blk.pc \in {"clear"} \cup Ticking =>
    \A c \in Chunks : /\ OnItsOwn(c) /\ c \notin blk.staged => TimerSound(c)
                      /\ blk.acts[c].do \in {"reassign", "restart"} => blk.size[c] = 0 /\ blk.age[c] = 0
                      /\ blk.acts[c].do = "restart" => blk.acts[c].to = blk.assign[c]

ChunksInv == CardsTyped /\ FilesSound /\ PlacesSound /\ TimersSound /\ AggregateAccountedFor

(* The log speaks of the block it was started for, or of nobody: whoever
   still holds the port prints to a log that was rotated away. *)
LogSound ==
  /\ srv.verified => srv.log # 0 /\ srv.log \in proved
  /\ srv.log # 0 /\ srv.log = srv.holds => srv.units = srv.work
  /\ srv.holds <= rng.h
  /\ rng.pc = "start" => srv.holds < rng.h
  /\ rng.pc = "poll" => srv.log \in {0, rng.h}
  /\ rng.pc = "poll" /\ srv.holds = rng.h => srv.log = rng.h

(* The beats of a block are no more than the progress it was beaten for. *)
BeatsSound ==
  /\ \A g \in 1..Blocks : g > rng.h \/ (g = rng.h /\ rng.pc = "start") => sent[g] = 0
  /\ rng.pc \in {"start", "ended"} => rng.beaten = 0
  /\ rng.pc = "poll" => sent[rng.h] <= rng.beaten /\ rng.beaten <= srv.units

RangesInv == RangeTyped /\ LogSound /\ BeatsSound /\ VerifiedIsThisBlock

(* What the log shows, and what whoever holds the port has done, was really
   worked for the block it is of. *)
WorkSound ==
  /\ srv.log = 0 => srv.units = 0
  /\ srv.log # 0 => srv.units <= worked[srv.log]
  /\ srv.holds # 0 => srv.work <= worked[srv.holds]

WorkInv == RangesInv /\ WorkSound /\ BeatsAreEarned

-----------------------------------------------------------------------------
(* The smallest of some cards or chunks is one of them. *)
LEMMA MinIn ==
  ASSUME NEW S, S \subseteq Nat, S # {}
  PROVE  Min(S) \in S
<1>1. \E x \in S : \A y \in S : <<y, x>> \notin OpToRel(<, Nat)
  BY NatLessThanWellFounded, WFMin, Zenon
<1>2. \A x, y \in Nat : x < y => <<x, y>> \in OpToRel(<, Nat)
  BY Zenon DEF OpToRel
<1>3. PICK least \in S : \A y \in S : ~(y < least)
  BY <1>1, <1>2, Zenon
<1>4. \E x \in S : \A y \in S : x <= y
  BY <1>3
<1> QED
  BY <1>4, Zenon DEF Min

LEMMA Numbers ==
  /\ N \in Nat \ {0} /\ Blocks \in Nat \ {0} /\ UNITS \in Nat \ {0} /\ UNREACHABLE_LIMIT \in Nat \ {0}
  /\ Chunks = Cards /\ Chunks \subseteq Nat /\ Agg \in Cards /\ STALL \in Nat /\ 0 \notin Chunks
  /\ Chunks \subseteq FileNos /\ Extra \in FileNos \ Chunks /\ FileNos = Chunks \cup {Extra}
  /\ NoAct \in Act /\ NoAct.do = "none"
  /\ 0 \in 0..Blocks /\ 0 \in 0..UNITS
  BY FleetAssumption DEF Chunks, Cards, Agg, FileNos, Extra, Act, NoAct

(* One file is written, the others stay. *)
Put(f, card, n, dir, of) == [f EXCEPT ![<<card, n, dir>>] = of]

LEMMA Written ==
  ASSUME NEW f \in [Keys -> Of], NEW card \in Cards, NEW n \in FileNos, NEW dir \in Dirs, NEW of \in Of,
         NEW x \in Cards, NEW m \in FileNos, NEW d \in Dirs
  PROVE  /\ Put(f, card, n, dir, of) \in [Keys -> Of]
         /\ x = card /\ m = n /\ d = dir => Put(f, card, n, dir, of)[<<x, m, d>>] = of
         /\ ~(x = card /\ m = n /\ d = dir) => Put(f, card, n, dir, of)[<<x, m, d>>] = f[<<x, m, d>>]
<1>1. <<x, m, d>> \in Keys
  BY DEF Keys
<1>2. Put(f, card, n, dir, of) \in [Keys -> Of]
  BY DEF Put
<1>3. CASE x = card /\ m = n /\ d = dir
  BY <1>1, <1>2, <1>3 DEF Put
<1>4. CASE ~(x = card /\ m = n /\ d = dir)
  <2>1. <<x, m, d>> # <<card, n, dir>>
    BY <1>4
  <2> QED
    BY <1>1, <1>2, <1>4, <2>1 DEF Put
<1> QED
  BY <1>2, <1>3, <1>4

(* A prover changes its state, or ends, or grows its log, or leaves a receipt
   of this run, or a late one. *)
LEMMA CardMovesKeep == ChunksInv /\ CardMoves => ChunksInv'
<1> SUFFICES ASSUME ChunksInv, CardMoves PROVE ChunksInv'
  OBVIOUS
<1>a. /\ CardsTyped /\ FilesSound /\ PlacesSound /\ TimersSound
      /\ blk.pc \in {"probe", "act", "sweep", "count"} /\ blk' = blk /\ local' = local
  BY DEF ChunksInv, CardMoves
<1>b0. PICK card \in Cards : \E p \in procs[card] : CardStep(card, p)
  BY DEF CardMoves
<1>b. PICK p \in procs[card] : CardStep(card, p)
  BY <1>b0
<1>c. p \in Prover /\ procs[card] \subseteq Prover
  BY <1>a, <1>b DEF CardsTyped
<1>d. /\ p.chunk \in FileNos /\ p.dir \in Dirs /\ p.of \in {"this", "late"} /\ p.of \in Of
      /\ p.of = "this" => p.chunk \in Chunks
      /\ p.logs => p.chunk \in Chunks
  BY <1>c, Numbers DEF Prover, Dirs, Of
<1>1. \A st \in States : SetSt(card, p, st) \in [Cards -> SUBSET Prover]
  <2> SUFFICES ASSUME NEW st \in States PROVE SetSt(card, p, st) \in [Cards -> SUBSET Prover]
    OBVIOUS
  <2>1. [p EXCEPT !.st = st] \in Prover
    BY <1>c DEF Prover
  <2>2. (procs[card] \ {p}) \cup {[p EXCEPT !.st = st]} \in SUBSET Prover
    BY <1>c, <2>1
  <2> QED
    BY <1>a, <1>b, <2>2 DEF SetSt, CardsTyped
<1>2. [procs EXCEPT ![card] = procs[card] \ {p}] \in [Cards -> SUBSET Prover]
  <2>1. procs[card] \ {p} \in SUBSET Prover
    BY <1>c
  <2> QED
    BY <1>a, <2>1 DEF CardsTyped
<1>3. /\ procs' \in [Cards -> SUBSET Prover]
      /\ files' = files \/ files' = [files EXCEPT ![<<card, p.chunk, p.dir>>] = p.of]
      /\ \/ log' = log /\ quiet' = quiet
         \/ /\ p.logs /\ log' = [log EXCEPT ![p.chunk] = log[p.chunk] + 1]
            /\ quiet' = [quiet EXCEPT ![p.chunk] = 0]
  <2>1. procs' \in {procs, [procs EXCEPT ![card] = procs[card] \ {p}]} \/ \E st \in States : procs' = SetSt(card, p, st)
    BY <1>b DEF CardStep, States
  <2>2. procs' \in [Cards -> SUBSET Prover]
    BY <1>1, <1>2, <1>a, <2>1 DEF CardsTyped
  <2>3. files' = files \/ files' = [files EXCEPT ![<<card, p.chunk, p.dir>>] = p.of]
    BY <1>b, Zenon DEF CardStep
  <2>4. \/ log' = log /\ quiet' = quiet
        \/ /\ p.logs /\ log' = [log EXCEPT ![p.chunk] = log[p.chunk] + 1]
           /\ quiet' = [quiet EXCEPT ![p.chunk] = 0]
    BY <1>b DEF CardStep
  <2> QED
    BY <2>2, <2>3, <2>4
<1>4. /\ files' \in [Keys -> Of]
      /\ \A x \in Cards, m \in FileNos, d \in Dirs :
           files'[<<x, m, d>>] # files[<<x, m, d>>]
             => \/ files'[<<x, m, d>>] = "late"
                \/ files'[<<x, m, d>>] = "this" /\ m \in Chunks
  <2>1. CASE files' = files
    BY <1>a, <2>1 DEF CardsTyped
  <2>2. CASE files' = [files EXCEPT ![<<card, p.chunk, p.dir>>] = p.of]
    <3>1. files \in [Keys -> Of]
      BY <1>a DEF CardsTyped
    <3>2. PICK n \in FileNos, dir \in Dirs, of \in Of : n = p.chunk /\ dir = p.dir /\ of = p.of
      BY <1>d
    <3>3. files' = Put(files, card, n, dir, of)
      BY <2>2, <3>2 DEF Put
    <3>4. of \in {"this", "late"} /\ (of = "this" => n \in Chunks)
      BY <1>d, <3>2
    <3>5. ASSUME NEW x \in Cards, NEW m \in FileNos, NEW d \in Dirs, files'[<<x, m, d>>] # files[<<x, m, d>>]
          PROVE  files'[<<x, m, d>>] = of /\ m = n
      BY <3>1, <3>3, <3>5, Written
    <3>6. files' \in [Keys -> Of]
      BY <3>1, <3>3 DEF Put
    <3> QED
      BY <3>4, <3>5, <3>6
  <2> QED
    BY <1>3, <2>1, <2>2
<1>5. /\ log' \in [Chunks -> Nat] /\ quiet' \in [Chunks -> Nat]
      /\ \A c \in Chunks : \/ log'[c] = log[c] /\ quiet'[c] = quiet[c]
                          \/ log'[c] = log[c] + 1
  <2>1. log \in [Chunks -> Nat] /\ quiet \in [Chunks -> Nat]
    BY <1>a DEF CardsTyped
  <2> QED
    BY <1>3, <1>d, <2>1
<1>6. CardsTyped'
  BY <1>a, <1>3, <1>4, <1>5 DEF CardsTyped
<1>7. FilesSound'
  BY <1>a, <1>4 DEF FilesSound, FileSound, Excused, Launched, Dirs
<1>8. PlacesSound'
  <2>1. \A c \in Chunks : files[<<c, c, "own">>] # "none" => files'[<<c, c, "own">>] # "none"
    BY <1>4, Numbers DEF Dirs
  <2> QED
    BY <1>a, <2>1 DEF PlacesSound, Finished, Ticking
<1>9. TimersSound'
  <2>1. \A c \in Chunks : TimerSound(c) => TimerSound(c)'
    <3> SUFFICES ASSUME NEW c \in Chunks, TimerSound(c) PROVE TimerSound(c)'
      OBVIOUS
    <3>1. log[c] \in Nat /\ blk.size[c] \in Int
      BY <1>a DEF CardsTyped, Block
    <3> QED
      BY <1>a, <1>5, <3>1 DEF TimerSound
  <2> QED
    BY <1>a, <2>1 DEF TimersSound, OnItsOwn, Ticking
<1>10. AggregateAccountedFor'
  BY <1>a DEF AggregateAccountedFor
<1> QED
  BY <1>6, <1>7, <1>8, <1>9, <1>10 DEF ChunksInv

(* The launch: every card answered, so no receipt is left anywhere. *)
LEMMA LaunchKeeps == ChunksInv /\ ClearAndLaunch => ChunksInv'
<1> SUFFICES ASSUME ChunksInv, ClearAndLaunch PROVE ChunksInv'
  OBVIOUS
<1>a. /\ CardsTyped /\ FilesSound /\ PlacesSound /\ TimersSound /\ blk.pc = "clear"
      /\ UNCHANGED <<local, log, quiet>> /\ blk \in Block /\ procs \in [Cards -> SUBSET Prover]
      /\ files \in [Keys -> Of]
  BY DEF ChunksInv, ClearAndLaunch, CardsTyped
<1>b. PICK answered \in SUBSET Cards :
       /\ files' = [x \in Cards \X FileNos \X Dirs |-> IF x[1] \in answered THEN "none" ELSE files[x]]
       /\ IF FleetEmpty(answered)
            THEN /\ procs' = [c \in Cards |-> procs[c] \cup {NewProver(c, "own")}]
                 /\ blk' = [blk EXCEPT !.pc = "probe"]
            ELSE UNCHANGED procs /\ blk' = [blk EXCEPT !.pc = "refused"]
  BY DEF ClearAndLaunch
<1>1. files' \in [Keys -> Of]
  BY <1>a, <1>b DEF Keys, Of
<1>2. \A c \in Cards : NewProver(c, "own") \in Prover
  BY Numbers DEF NewProver, Prover, Dirs, States
<1>3. procs' \in [Cards -> SUBSET Prover]
  <2>1. \A c \in Cards : procs[c] \cup {NewProver(c, "own")} \in SUBSET Prover
    BY <1>a, <1>2
  <2> QED
    BY <1>a, <1>b, <2>1
<1>4. \E pc \in {"probe", "refused"} :
        /\ blk' = [blk EXCEPT !.pc = pc]
        /\ pc = "probe" => FleetEmpty(answered)
  BY <1>b
<1>5. PICK pc \in {"probe", "refused"} : blk' = [blk EXCEPT !.pc = pc] /\ (pc = "probe" => FleetEmpty(answered))
  BY <1>4
<1>6. /\ blk' \in Block /\ blk'.pc = pc /\ blk'.assign = blk.assign /\ blk'.staged = blk.staged
      /\ blk'.busy = blk.busy /\ blk'.moved = blk.moved /\ blk'.size = blk.size /\ blk'.age = blk.age
      /\ blk'.acts = blk.acts /\ blk'.torn = blk.torn /\ blk'.swept = blk.swept
  BY <1>a, <1>5 DEF Block
<1>7. CardsTyped'
  BY <1>a, <1>1, <1>3, <1>6 DEF CardsTyped
<1>8. FilesSound'
  <2>1. pc = "probe" => \A card \in Cards, n \in FileNos : files'[<<card, n, "own">>] = "none"
    <3>1. \A card \in Cards, n \in FileNos : <<card, n, "own">> \in Cards \X FileNos \X Dirs
      BY DEF Dirs
    <3> QED
      BY <1>b, <1>5, <3>1 DEF FleetEmpty
  <2> QED
    BY <1>a, <1>6, <2>1 DEF FilesSound, FileSound, Launched
<1>9. PlacesSound'
  BY <1>a, <1>6 DEF PlacesSound, Finished, Ticking
<1>10. TimersSound'
  BY <1>a, <1>6 DEF TimersSound, TimerSound, OnItsOwn, Ticking
<1>11. AggregateAccountedFor'
  BY <1>6 DEF AggregateAccountedFor
<1> QED
  BY <1>7, <1>8, <1>9, <1>10, <1>11 DEF ChunksInv

(* What the plan of a tick may say. *)
LEMMA PlanTyped ==
  ASSUME CardsTyped, NEW reply, NEW aged, NEW c \in Chunks
  PROVE  PlanTick(reply, aged, c) \in Act
<1>a. blk.assign \in [Chunks -> Cards] /\ blk.assign[c] \in Cards
  BY DEF CardsTyped, Block
<1>1. PlanRecovery(reply, c) \in Act
  <2> DEFINE finished == blk.staged \cup {d \in Chunks : StateOf(reply, d) = "done"}
             free == {card \in {blk.assign[d] : d \in finished} :
                        card # blk.assign[c] /\ card \notin blk.busy /\ CanAccept(reply, card)}
  <2>1. finished \subseteq Chunks
    BY DEF CardsTyped, Block
  <2> HIDE DEF finished
  <2>2. free \subseteq Cards
    BY <1>a, <2>1
  <2>3. PlanRecovery(reply, c) = IF free = {} THEN [do |-> "restart", to |-> blk.assign[c]]
                                             ELSE [do |-> "reassign", to |-> Min(free)]
    BY DEF PlanRecovery, finished
  <2> HIDE DEF free
  <2>4. free # {} => Min(free) \in Cards
    BY <2>2, MinIn, Numbers
  <2> QED
    BY <1>a, <2>3, <2>4 DEF Act
<1>2. [do |-> "stage", to |-> blk.assign[c]] \in Act
  BY <1>a DEF Act
<1>3. NoAct \in Act
  BY DEF Act
<1> QED
  BY <1>1, <1>2, <1>3 DEF PlanTick

(* What is behind a plan: a receipt was reported, or the card answered that
   it is idle, over the limit; it is restarted in place, or given to the card
   of a finished chunk that was given no other. *)
LEMMA PlanMeans ==
  ASSUME CardsTyped, NEW reply, NEW aged, NEW c \in Chunks, NEW act, act = PlanTick(reply, aged, c)
  PROVE  /\ act.do = "stage" => StateOf(reply, c) = "done"
         /\ act.do \in {"reassign", "restart"}
              => c \notin blk.staged /\ StateOf(reply, c) = "idle" /\ aged[c] > STALL
         /\ act.do = "restart" => act.to = blk.assign[c]
         /\ act.do = "reassign" => /\ act.to \notin blk.busy
                                   /\ \E d \in Chunks : /\ d \in blk.staged \/ StateOf(reply, d) = "done"
                                                        /\ blk.assign[d] = act.to
<1> DEFINE finished == blk.staged \cup {d \in Chunks : StateOf(reply, d) = "done"}
           free == {card \in {blk.assign[d] : d \in finished} :
                      card # blk.assign[c] /\ card \notin blk.busy /\ CanAccept(reply, card)}
<1>1. finished \subseteq Chunks /\ blk.assign \in [Chunks -> Cards]
  BY DEF CardsTyped, Block
<1>2. PlanRecovery(reply, c) = IF free = {} THEN [do |-> "restart", to |-> blk.assign[c]]
                                           ELSE [do |-> "reassign", to |-> Min(free)]
  BY DEF PlanRecovery
<1>3. free \subseteq Nat
  <2> HIDE DEF finished
  <2>1. free \subseteq Cards
    BY <1>1
  <2> QED
    BY <2>1, Numbers
<1>4. free # {} => Min(free) \in free
  <2> HIDE DEF free
  <2> QED
    BY <1>3, MinIn
<1>5. LET p == PlanRecovery(reply, c)
      IN  /\ p.do \in {"reassign", "restart"}
          /\ p.do = "restart" => p.to = blk.assign[c]
          /\ p.do = "reassign" => p.to \in free
  <2> HIDE DEF free
  <2> QED
    BY <1>2, <1>4
<1>6. \A card \in free : /\ card \notin blk.busy
                         /\ \E d \in Chunks : /\ d \in blk.staged \/ StateOf(reply, d) = "done"
                                              /\ blk.assign[d] = card
  BY <1>1
<1>7. NoAct.do = "none" /\ [do |-> "stage", to |-> blk.assign[c]].do = "stage"
  BY DEF NoAct
<1> HIDE DEF free, finished
<1>8. CASE c \in blk.staged
  BY <1>7, <1>8 DEF PlanTick
<1>9. CASE c \notin blk.staged /\ StateOf(reply, c) = "done"
  <2>1. act = [do |-> "stage", to |-> blk.assign[c]]
    BY <1>9 DEF PlanTick, IsWedged
  <2> QED
    BY <1>7, <1>9, <2>1
<1>10. CASE c \notin blk.staged /\ StateOf(reply, c) # "done" /\ IsWedged(StateOf(reply, c), aged[c])
  <2>1. act = PlanRecovery(reply, c)
    BY <1>10 DEF PlanTick
  <2>2. StateOf(reply, c) = "idle" /\ aged[c] > STALL
    BY <1>10 DEF IsWedged
  <2> QED
    BY <1>5, <1>6, <1>10, <2>1, <2>2
<1>11. CASE c \notin blk.staged /\ StateOf(reply, c) # "done" /\ ~IsWedged(StateOf(reply, c), aged[c])
  BY <1>7, <1>11 DEF PlanTick
<1> QED
  BY <1>8, <1>9, <1>10, <1>11

(* A reply stands for a chunk of its card; and where the chunk is the card's
   own, and no other was moved there, the reply is its own. *)
LEMMA ReplyIsOwn ==
  ASSUME CardsTyped, PlacesSound, NEW reply \in Replies, NEW c \in Chunks, NEW d, d = reply[blk.assign[c]], d # 0
  PROVE  /\ d \in Chunks /\ blk.assign[d] = blk.assign[c]
         /\ OnItsOwn(c) => d = c
<1>1. blk.assign[c] \in Cards
  BY DEF CardsTyped, Block
<1>2. d \in Chunks /\ blk.assign[d] = blk.assign[c]
  BY <1>1 DEF Replies
<1>3. OnItsOwn(c) => d = c
  BY <1>2 DEF OnItsOwn, PlacesSound
<1> QED
  BY <1>2, <1>3

(* A chunk reported as done, and not moved, has its receipt where it began. *)
LEMMA DoneIsThere ==
  ASSUME CardsTyped, PlacesSound, blk.pc = "probe", NEW reply \in Replies, NEW c \in Chunks \ blk.moved,
         StateOf(reply, c) = "done"
  PROVE  files[<<c, c, "own">>] # "none"
<1>1. PICK d : d = reply[blk.assign[c]]
  OBVIOUS
<1>2. d # 0 /\ CardState(d) = "done"
  BY <1>1 DEF StateOf
<1>3. d \in Chunks /\ blk.assign[d] = blk.assign[c] /\ blk.assign[c] = c
  BY <1>1, <1>2, ReplyIsOwn DEF PlacesSound
<1>4. CASE d = c
  BY <1>2, <1>3, <1>4 DEF CardState, HasReceipt, DirOf
<1>5. CASE d # c
  <2>1. c \in blk.busy
    BY <1>3, <1>5 DEF PlacesSound
  <2> QED
    BY <2>1 DEF PlacesSound, Finished, Ticking
<1> QED
  BY <1>4, <1>5

LEMMA ProbeKeeps == ChunksInv /\ Probe => ChunksInv'
<1> SUFFICES ASSUME ChunksInv, Probe PROVE ChunksInv'
  OBVIOUS
<1>a. /\ CardsTyped /\ FilesSound /\ PlacesSound /\ TimersSound /\ blk.pc = "probe"
      /\ UNCHANGED <<procs, files, local, log>> /\ blk \in Block
      /\ blk.age \in [Chunks -> Nat] /\ blk.size \in [Chunks -> Int]
      /\ quiet \in [Chunks -> Nat] /\ log \in [Chunks -> Nat] /\ STALL \in Nat
  BY Numbers DEF ChunksInv, Probe, CardsTyped, Block
<1>t. \A n \in Nat : Tick(n) \in Nat /\ (n <= STALL => Tick(n) = n + 1)
  BY <1>a DEF Tick
<1>b. PICK reply \in Replies :
       LET moved == {c \in Chunks \ blk.staged : Moved(reply, c)}
           aged == [c \in Chunks |-> IF c \in moved THEN 0 ELSE Tick(blk.age[c])]
           acts == [c \in Chunks |-> PlanTick(reply, aged, c)]
           again == {c \in Chunks : acts[c].do \in {"reassign", "restart"}}
       IN  blk' = [blk EXCEPT !.pc = "act", !.acts = acts,
                     !.size = [c \in Chunks |-> CASE c \in again \cup blk.staged -> 0
                                                   [] c \in moved \ again -> log[reply[blk.assign[c]]]
                                                   [] OTHER -> blk.size[c]],
                     !.age = [c \in Chunks |-> IF c \in again \cup blk.staged THEN 0 ELSE aged[c]]]
  BY DEF Probe
<1> DEFINE moved == {c \in Chunks \ blk.staged : Moved(reply, c)}
           aged == [c \in Chunks |-> IF c \in moved THEN 0 ELSE Tick(blk.age[c])]
           acts == [c \in Chunks |-> PlanTick(reply, aged, c)]
           again == {c \in Chunks : acts[c].do \in {"reassign", "restart"}}
           seen(c) == CASE c \in again \cup blk.staged -> 0
                        [] c \in moved \ again -> log[reply[blk.assign[c]]]
                        [] OTHER -> blk.size[c]
           size == [c \in Chunks |-> seen(c)]
           age == [c \in Chunks |-> IF c \in again \cup blk.staged THEN 0 ELSE aged[c]]
<1>1. aged \in [Chunks -> Nat]
  BY <1>a, <1>t
<1>2. acts \in [Chunks -> Act] /\ \A c \in Chunks : acts[c] = PlanTick(reply, aged, c)
  <2> HIDE DEF aged
  <2> QED
    BY <1>a, PlanTyped
<1>3. \A c \in Chunks : c \in moved => reply[blk.assign[c]] \in Chunks
  BY <1>a, ReplyIsOwn DEF Moved
<1>4. blk' = [blk EXCEPT !.pc = "act", !.acts = acts, !.size = size, !.age = age]
  BY <1>b
<1>5. \A c \in Chunks :
        /\ aged[c] = IF c \in moved THEN 0 ELSE Tick(blk.age[c])
        /\ age[c] = IF c \in again \cup blk.staged THEN 0 ELSE aged[c]
        /\ c \in again \cup blk.staged => size[c] = 0
        /\ c \in moved \ again => size[c] = log[reply[blk.assign[c]]]
        /\ c \notin again \cup blk.staged \cup moved => size[c] = blk.size[c]
        /\ c \in again <=> acts[c].do \in {"reassign", "restart"}
        /\ c \in moved => c \notin blk.staged /\ Moved(reply, c)
  <2> HIDE DEF acts, aged
  <2>1. \A c \in Chunks : c \in moved => c \notin blk.staged
    OBVIOUS
  <2>2. \A c \in Chunks : c \in again <=> acts[c].do \in {"reassign", "restart"}
    OBVIOUS
  <2>3. \A c \in Chunks : c \in moved => Moved(reply, c)
    OBVIOUS
  <2>4. \A c \in Chunks : aged[c] = IF c \in moved THEN 0 ELSE Tick(blk.age[c])
    BY DEF aged
  <2> HIDE DEF moved, again
  <2>5. /\ \A c \in Chunks : age[c] = IF c \in again \cup blk.staged THEN 0 ELSE aged[c]
        /\ \A c \in Chunks : size[c] = seen(c)
    <3>1. \A c \in Chunks : age[c] = IF c \in again \cup blk.staged THEN 0 ELSE aged[c]
      OBVIOUS
    <3> HIDE DEF seen
    <3>2. \A c \in Chunks : size[c] = seen(c)
      OBVIOUS
    <3> QED
      BY <3>1, <3>2, Zenon
  <2>6. \A c \in Chunks : c \in again \cup blk.staged => seen(c) = 0
    BY <2>1
  <2>7. \A c \in Chunks : c \in moved \ again => seen(c) = log[reply[blk.assign[c]]]
    BY <2>1
  <2>8. \A c \in Chunks : c \notin again \cup blk.staged \cup moved => seen(c) = blk.size[c]
    <3> SUFFICES ASSUME NEW c \in Chunks, c \notin again \cup blk.staged \cup moved PROVE seen(c) = blk.size[c]
      OBVIOUS
    <3>1. c \notin again \cup blk.staged /\ c \notin moved \ again
      OBVIOUS
    <3> QED
      BY <3>1
  <2> QED
    BY <2>1, <2>2, <2>3, <2>4, <2>5, <2>6, <2>7, <2>8
<1>6. age \in [Chunks -> Nat] /\ size \in [Chunks -> Int]
  <2>1. age \in [Chunks -> Nat]
    BY <1>1
  <2> HIDE DEF acts, aged, age, moved, again, seen
  <2>2. \A c \in Chunks : size[c] = seen(c)
    OBVIOUS
  <2>3. \A c \in Chunks : seen(c) \in Int
    BY <1>a, <1>3, <1>5, <2>2
  <2> QED
    BY <2>1, <2>3
<1> HIDE DEF moved, aged, acts, again, seen, size, age
<1>7. /\ blk' \in Block /\ blk'.pc = "act" /\ blk'.acts = acts /\ blk'.size = size /\ blk'.age = age
      /\ blk'.assign = blk.assign /\ blk'.staged = blk.staged /\ blk'.busy = blk.busy /\ blk'.moved = blk.moved
      /\ blk'.torn = blk.torn /\ blk'.swept = blk.swept
  BY <1>a, <1>2, <1>4, <1>6 DEF Block
<1>8. /\ quiet' \in [Chunks -> Nat]
      /\ \A c \in Chunks : c \notin blk.staged
           => quiet'[c] = IF quiet[c] >= STALL THEN quiet[c] ELSE quiet[c] + 1
  BY <1>a DEF Probe
<1>9. CardsTyped'
  BY <1>a, <1>7, <1>8 DEF CardsTyped
<1>10. FilesSound'
  BY <1>a, <1>7 DEF FilesSound, FileSound, Excused, Launched
<1>11. PlacesSound'
  <2>1. ASSUME NEW c \in Chunks \ blk.moved, Finished(c)' PROVE files[<<c, c, "own">>] # "none"
    <3>0. Finished(c) => files[<<c, c, "own">>] # "none"
      BY <1>a DEF PlacesSound, Ticking
    <3>1. CASE c \in blk.staged \/ c \in blk.busy
      BY <3>0, <3>1 DEF Finished
    <3>2. CASE acts[c].do = "stage"
      BY <1>2, <1>a, <3>2, PlanMeans, DoneIsThere
    <3>3. CASE \E d \in Chunks : acts[d].do = "reassign" /\ acts[d].to = c
      <4>1. PICK d \in Chunks : acts[d].do = "reassign" /\ acts[d].to = c
        BY <3>3
      <4>2. /\ c \notin blk.busy
            /\ \E e \in Chunks : (e \in blk.staged \/ StateOf(reply, e) = "done") /\ blk.assign[e] = c
        BY <1>2, <1>a, <4>1, PlanMeans
      <4>3. c \in blk.staged \/ StateOf(reply, c) = "done"
        BY <1>a, <4>2 DEF PlacesSound
      <4> QED
        BY <1>a, <3>0, <4>3, DoneIsThere DEF Finished
    <3> QED
      BY <1>7, <2>1, <3>1, <3>2, <3>3 DEF Finished
  <2> QED
    BY <1>a, <1>7, <2>1 DEF PlacesSound
<1>12. TimersSound'
  <2>1. ASSUME NEW c \in Chunks, OnItsOwn(c), c \notin blk.staged PROVE TimerSound(c)'
    <3>a. /\ quiet[c] \in Nat /\ log[c] \in Nat /\ blk.age[c] \in Nat /\ STALL \in Nat /\ blk.size[c] \in Int
          /\ quiet'[c] = IF quiet[c] >= STALL THEN quiet[c] ELSE quiet[c] + 1
      BY <1>a, <1>8, <2>1
    <3>b. blk'.size[c] = size[c] /\ blk'.age[c] = age[c] /\ log'[c] = log[c]
      BY <1>a, <1>7
    <3>1. CASE c \in again
      BY <1>5, <3>1, <3>a, <3>b DEF TimerSound
    <3>2. CASE c \in moved \ again
      <4>1. reply[blk.assign[c]] = c
        BY <1>5, <1>a, <2>1, <3>2, ReplyIsOwn DEF Moved
      <4>2. size[c] = log[c] /\ age[c] = 0
        BY <1>5, <2>1, <3>2, <4>1
      <4> QED
        BY <3>a, <3>b, <4>2 DEF TimerSound
    <3>3. CASE c \notin again \cup moved
      <4>1. size[c] = blk.size[c] /\ age[c] = Tick(blk.age[c])
        BY <1>5, <2>1, <3>3
      <4>2. TimerSound(c)
        BY <1>a, <2>1 DEF TimersSound, Ticking
      <4>3. blk.age[c] <= STALL => age[c] = blk.age[c] + 1
        BY <1>t, <3>a, <4>1
      <4>4. blk.age[c] <= quiet[c] \/ quiet[c] >= STALL => age[c] <= quiet'[c] \/ quiet'[c] >= STALL
        BY <3>a, <4>3
      <4> QED
        BY <3>b, <4>1, <4>2, <4>4 DEF TimerSound
    <3> QED
      BY <3>1, <3>2, <3>3
  <2>2. ASSUME NEW c \in Chunks, acts[c].do \in {"reassign", "restart"} PROVE size[c] = 0 /\ age[c] = 0
    BY <1>5, <2>2
  <2>3. ASSUME NEW c \in Chunks, acts[c].do = "restart" PROVE acts[c].to = blk.assign[c]
    BY <1>2, <1>a, <2>3, PlanMeans
  <2> QED
    BY <1>7, <2>1, <2>2, <2>3 DEF TimersSound, OnItsOwn
<1>13. AggregateAccountedFor'
  BY <1>7 DEF AggregateAccountedFor
<1> QED
  BY <1>9, <1>10, <1>11, <1>12, <1>13 DEF ChunksInv

(* What a transfer may leave in stage_dir and on the aggregate: what was
   there, what the card had, or, when it broke, part of a file. *)
LEMMA TransferMeans ==
  ASSUME files \in [Keys -> Of], local \in [Chunks -> Of], NEW c \in Chunks, NEW src \in Of, NEW broke \in BOOLEAN,
         NEW out \in Transfer(c, src, broke)
  PROVE  /\ out.had \in {local[c], src} \/ (broke /\ out.had = "part")
         /\ out.there \in {files[<<Agg, c, "own">>], local[c], src} \/ (broke /\ out.there = "part")
         /\ ~broke /\ out.there = local[c] => src \in {"none", local[c]} \/ out.there = files[<<Agg, c, "own">>]
         /\ files[<<Agg, c, "own">>] # "none" => out.there # "none"
<1> DEFINE there == files[<<Agg, c, "own">>]
           held == IF src = "none" THEN local[c] ELSE src
           collected(h) == [had |-> h, there |-> h, ok |-> TRUE]
           failed(h, t) == [had |-> h, there |-> t, ok |-> FALSE]
<1>1. CASE ~broke
  <2>1. out = IF held = "none" THEN failed(held, there) ELSE collected(held)
    BY <1>1 DEF Transfer
  <2>2. out.had = held /\ (IF held = "none" THEN out.there = there ELSE out.there = held)
    <3> HIDE DEF held, there
    <3> QED
      BY <2>1
  <2> QED
    BY <1>1, <2>2
<1>2. CASE broke
  <2>1. \/ \E h \in {local[c], "part"} \ {"none"} : out = collected(h)
        \/ \E h \in {local[c], src, "part"}, t \in {there, "part"} : out = failed(h, t)
        \/ \E h \in {local[c], src} \ {"none"} : out = failed(h, h)
    BY <1>2 DEF Transfer
  <2>2. CASE \E h \in {local[c], "part"} \ {"none"} : out = collected(h)
    BY <1>2, <2>2
  <2>3. CASE \E h \in {local[c], src, "part"}, t \in {there, "part"} : out = failed(h, t)
    BY <1>2, <2>3
  <2>4. CASE \E h \in {local[c], src} \ {"none"} : out = failed(h, h)
    BY <1>2, <2>4
  <2> QED
    BY <2>1, <2>2, <2>3, <2>4
<1> QED
  BY <1>1, <1>2

(* Staging a chunk, in a tick, where it was seen to be done, or in the sweep. *)
LEMMA StagesKeep ==
  ASSUME ChunksInv, NEW c \in Chunks, Stages(c), UNCHANGED <<procs, log, quiet>>,
         blk.pc = "sweep" \/ (blk.pc = "act" /\ blk.acts[c].do = "stage")
  PROVE  ChunksInv'
<1>a. /\ CardsTyped /\ FilesSound /\ PlacesSound /\ TimersSound /\ blk \in Block
      /\ files \in [Keys -> Of] /\ local \in [Chunks -> Of] /\ blk.assign[c] \in Cards
      /\ c \in FileNos /\ "own" \in Dirs /\ Agg \in Cards
  BY Numbers DEF ChunksInv, CardsTyped, Block, Dirs
<1> DEFINE src == files[<<blk.assign[c], c, "own">>]
<1>b. PICK broke \in BOOLEAN : \E out \in Transfer(c, files[<<blk.assign[c], c, "own">>], broke) :
        /\ local' = [local EXCEPT ![c] = out.had]
        /\ files' = [files EXCEPT ![<<Agg, c, "own">>] = out.there]
        /\ blk' = [blk EXCEPT !.acts[c] = NoAct,
                              !.staged = IF out.ok THEN @ \cup {c} ELSE @,
                              !.torn = IF broke THEN @ \cup {c} ELSE @]
  BY DEF Stages
<1>c. PICK out \in Transfer(c, src, broke) :
        /\ local' = [local EXCEPT ![c] = out.had]
        /\ files' = [files EXCEPT ![<<Agg, c, "own">>] = out.there]
        /\ blk' = [blk EXCEPT !.acts[c] = NoAct,
                              !.staged = IF out.ok THEN @ \cup {c} ELSE @,
                              !.torn = IF broke THEN @ \cup {c} ELSE @]
  BY <1>b
<1>d. src \in Of /\ files[<<Agg, c, "own">>] \in Of /\ local[c] \in Of
  <2>1. <<blk.assign[c], c, "own">> \in Keys /\ <<Agg, c, "own">> \in Keys
    BY <1>a DEF Keys
  <2> QED
    BY <1>a, <2>1
<1>s. FileSound(blk.assign[c], c) /\ FileSound(Agg, c) /\ src = files[<<blk.assign[c], c, "own">>]
  BY <1>a DEF FilesSound, Launched
<1> HIDE DEF src
<1>m. /\ out.had \in {local[c], src} \/ (broke /\ out.had = "part")
      /\ out.there \in {files[<<Agg, c, "own">>], local[c], src} \/ (broke /\ out.there = "part")
      /\ ~broke /\ out.there = local[c] => src \in {"none", local[c]} \/ out.there = files[<<Agg, c, "own">>]
      /\ files[<<Agg, c, "own">>] # "none" => out.there # "none"
  BY <1>a, <1>c, <1>d, TransferMeans
<1> DEFINE acts == [blk.acts EXCEPT ![c] = NoAct]
           staged == IF out.ok THEN blk.staged \cup {c} ELSE blk.staged
           torn == IF broke THEN blk.torn \cup {c} ELSE blk.torn
<1>1. acts \in [Chunks -> Act] /\ staged \in SUBSET Chunks /\ torn \in SUBSET Chunks
  BY <1>a, Numbers DEF Block
<1>2. \A d \in Chunks : acts[d].do # "none" => d # c /\ acts[d] = blk.acts[d]
  BY <1>a, Numbers DEF Block
<1>3. blk' = [blk EXCEPT !.acts = acts, !.staged = staged, !.torn = torn]
  BY <1>c
<1>4. /\ blk.staged \subseteq staged /\ staged \subseteq blk.staged \cup {c}
      /\ blk.torn \subseteq torn /\ (broke => c \in torn)
  OBVIOUS
<1> HIDE DEF acts, staged, torn
<1>5. /\ blk' \in Block /\ blk'.pc = blk.pc /\ blk'.acts = acts /\ blk'.staged = staged /\ blk'.torn = torn
      /\ blk'.assign = blk.assign /\ blk'.busy = blk.busy /\ blk'.moved = blk.moved /\ blk'.size = blk.size
      /\ blk'.age = blk.age /\ blk'.swept = blk.swept
  BY <1>a, <1>1, <1>3 DEF Block
<1>6. out.had \in Of /\ out.there \in Of
  BY <1>d, <1>m DEF Of
<1>7. /\ files' \in [Keys -> Of]
      /\ \A x \in Cards, m \in FileNos, d \in Dirs :
           files'[<<x, m, d>>] = files[<<x, m, d>>]
             \/ (x = Agg /\ m = c /\ d = "own" /\ files'[<<x, m, d>>] = out.there)
  <2>1. files' = Put(files, Agg, c, "own", out.there)
    BY <1>c DEF Put
  <2>2. ASSUME NEW x \in Cards, NEW m \in FileNos, NEW d \in Dirs, ~(x = Agg /\ m = c /\ d = "own")
        PROVE  files'[<<x, m, d>>] = files[<<x, m, d>>]
    BY <1>a, <1>6, <2>1, <2>2, Written
  <2>3. ASSUME NEW x \in Cards, NEW m \in FileNos, NEW d \in Dirs, x = Agg, m = c, d = "own"
        PROVE  files'[<<x, m, d>>] = out.there
    BY <1>a, <1>6, <2>1, <2>3, Written
  <2>4. files' \in [Keys -> Of]
    BY <1>a, <1>6, <2>1 DEF Put
  <2> QED
    BY <2>2, <2>3, <2>4
<1>8. local' \in [Chunks -> Of] /\ \A d \in Chunks : local'[d] = local[d] \/ (d = c /\ local'[d] = out.had)
  BY <1>a, <1>c, <1>6
<1>9. CardsTyped'
  BY <1>a, <1>5, <1>7, <1>8 DEF CardsTyped
<1>10. FilesSound'
  <2>0. /\ \A d \in Chunks : local[d] # "before" /\ (local[d] = "part" => d \in blk.torn)
        /\ src # "before" /\ (src = "part" => c \in blk.torn) /\ (src = "stage" => Excused(c))
        /\ files[<<Agg, c, "own">>] # "before" /\ (files[<<Agg, c, "own">>] = "part" => c \in blk.torn)
        /\ (files[<<Agg, c, "own">>] = "stage" => Excused(c))
    BY <1>a, <1>s DEF FilesSound, FileSound
  <2>1. \A d \in Chunks : Excused(d) => Excused(d)'
    BY <1>4, <1>5 DEF Excused
  <2>2. out.had # "before" /\ (out.had = "part" => c \in torn)
    BY <1>m, <1>4, <2>0
  <2>3. out.there # "before" /\ (out.there = "part" => c \in torn)
    BY <1>m, <1>4, <2>0
  <2>4. out.there = "stage" => Excused(c)'
    <3> SUFFICES ASSUME out.there = "stage" PROVE Excused(c)'
      OBVIOUS
    <3>1. CASE broke
      BY <1>4, <1>5, <3>1 DEF Excused
    <3>2. CASE ~broke /\ (src = "stage" \/ files[<<Agg, c, "own">>] = "stage")
      BY <2>0, <2>1, <3>2
    <3>3. CASE ~broke /\ src = "none" /\ local[c] = "stage"
      <4>1. CASE blk.pc = "sweep"
        BY <1>a, <1>5, <4>1 DEF FilesSound, Excused
      <4>2. CASE blk.pc = "act" /\ blk.acts[c].do = "stage"
        <5>1. c \in blk.moved
          BY <1>a, <1>s, <3>3, <4>2 DEF PlacesSound, Finished, Ticking
        <5> QED
          BY <1>5, <5>1 DEF Excused
      <4> QED
        BY <4>1, <4>2
    <3> QED
      BY <1>m, <3>1, <3>2, <3>3
  <2>5. \A d \in Chunks : local'[d] # "before" /\ (local'[d] = "part" => d \in torn)
    BY <1>4, <1>8, <2>0, <2>2
  <2>6. ASSUME NEW card \in Cards, NEW n \in FileNos PROVE FileSound(card, n)'
    <3>1. FileSound(card, n)
      BY <1>a DEF FilesSound, Launched
    <3>2. CASE files'[<<card, n, "own">>] = files[<<card, n, "own">>]
      BY <1>4, <1>5, <2>1, <3>1, <3>2 DEF FileSound
    <3>3. CASE card = Agg /\ n = c /\ files'[<<card, n, "own">>] = out.there
      BY <1>5, <2>3, <2>4, <3>3 DEF FileSound
    <3> QED
      BY <1>a, <1>7, <3>2, <3>3
  <2> QED
    BY <1>a, <1>5, <2>5, <2>6 DEF FilesSound
<1>11. PlacesSound'
  <2>1. \A d \in Chunks : files[<<d, d, "own">>] # "none" => files'[<<d, d, "own">>] # "none"
    BY <1>a, <1>7, <1>m, Numbers
  <2>2. blk.pc = "act" => \A d \in Chunks : Finished(d)' => Finished(d)
    BY <1>2, <1>4, <1>5 DEF Finished
  <2> QED
    BY <1>a, <1>5, <2>1, <2>2 DEF PlacesSound, Ticking
<1>12. TimersSound'
  <2>1. \A d \in Chunks : TimerSound(d) => TimerSound(d)'
    BY <1>5 DEF TimerSound
  <2> QED
    BY <1>a, <1>2, <1>4, <1>5, <2>1 DEF TimersSound, OnItsOwn, Ticking
<1>13. AggregateAccountedFor'
  BY <1>5 DEF AggregateAccountedFor
<1> QED
  BY <1>9, <1>10, <1>11, <1>12, <1>13 DEF ChunksInv

(* A move or a restart: the target's directory is emptied first. *)
LEMMA MoveKeeps == ChunksInv /\ ActMove => ChunksInv'
<1> SUFFICES ASSUME ChunksInv, ActMove PROVE ChunksInv'
  OBVIOUS
<1>a. /\ CardsTyped /\ FilesSound /\ PlacesSound /\ TimersSound /\ blk \in Block /\ local' = local
      /\ procs \in [Cards -> SUBSET Prover] /\ files \in [Keys -> Of] /\ log \in [Chunks -> Nat]
      /\ quiet \in [Chunks -> Nat]
  BY DEF ChunksInv, CardsTyped, ActMove
<1>b. PICK c \in Chunks :
       LET owner == blk.assign[c]
           to == blk.acts[c].to
       IN  /\ Due(c, {"reassign", "restart"})
           /\ \E killed \in BOOLEAN :
                /\ killed \/ faults < MaxFaults
                /\ faults' = IF killed THEN faults ELSE faults + 1
                /\ procs' = [card \in Cards |->
                               (IF card = owner /\ killed THEN {} ELSE {Superseded(p, c) : p \in procs[card]})
                                 \cup (IF card = to THEN {NewProver(c, "re")} ELSE {})]
           /\ files' = [files EXCEPT ![<<to, c, "re">>] = "none"]
           /\ log' = [log EXCEPT ![c] = 0]
           /\ quiet' = [quiet EXCEPT ![c] = 0]
           /\ blk' = [blk EXCEPT !.assign[c] = to, !.moved = @ \cup {c}, !.acts[c] = NoAct,
                                 !.busy = IF blk.acts[c].do = "reassign" THEN @ \cup {to} ELSE @]
  BY DEF ActMove
<1> DEFINE to == blk.acts[c].to
           assign == [blk.assign EXCEPT ![c] = to]
           acts == [blk.acts EXCEPT ![c] = NoAct]
           moved == blk.moved \cup {c}
           busy == IF blk.acts[c].do = "reassign" THEN blk.busy \cup {to} ELSE blk.busy
<1>1. to \in Cards /\ blk.pc = "act" /\ blk.acts[c].do \in {"reassign", "restart"}
  BY <1>a, <1>b DEF Due, Block, Act, NoAct
<1>2. procs' \in [Cards -> SUBSET Prover]
  <2>1. PICK killed \in BOOLEAN :
          procs' = [card \in Cards |->
                      (IF card = blk.assign[c] /\ killed THEN {} ELSE {Superseded(p, c) : p \in procs[card]})
                        \cup (IF card = to THEN {NewProver(c, "re")} ELSE {})]
    BY <1>b
  <2>2. NewProver(c, "re") \in Prover
    BY DEF NewProver, Prover, Dirs, States
  <2>3. \A p \in Prover : Superseded(p, c) \in Prover
    <3> SUFFICES ASSUME NEW p \in Prover PROVE Superseded(p, c) \in Prover
      OBVIOUS
    <3>1. [p EXCEPT !.logs = FALSE] \in Prover
      BY DEF Prover
    <3> QED
      BY <3>1 DEF Superseded
  <2>4. \A card \in Cards : {Superseded(p, c) : p \in procs[card]} \subseteq Prover
    BY <1>a, <2>3
  <2> HIDE DEF to
  <2> QED
    BY <2>1, <2>2, <2>4
<1>3. /\ files' \in [Keys -> Of]
      /\ \A card \in Cards, n \in FileNos : files'[<<card, n, "own">>] = files[<<card, n, "own">>]
  <2>0. to \in Cards /\ c \in FileNos /\ "re" \in Dirs /\ "own" \in Dirs /\ "none" \in Of
    BY <1>1, Numbers DEF Dirs, Of
  <2> HIDE DEF to
  <2>1. files' = Put(files, to, c, "re", "none")
    BY <1>b DEF Put, to
  <2>2. ASSUME NEW x \in Cards, NEW m \in FileNos, NEW d \in Dirs, d # "re"
        PROVE  files'[<<x, m, d>>] = files[<<x, m, d>>]
    BY <1>a, <2>0, <2>1, <2>2, Written
  <2>3. files' \in [Keys -> Of]
    BY <1>a, <2>0, <2>1 DEF Put
  <2> QED
    BY <2>0, <2>2, <2>3
<1>4. /\ log' \in [Chunks -> Nat] /\ quiet' \in [Chunks -> Nat] /\ log'[c] = 0 /\ quiet'[c] = 0
      /\ \A d \in Chunks : d # c => log'[d] = log[d] /\ quiet'[d] = quiet[d]
  BY <1>a, <1>b
<1>5. /\ assign \in [Chunks -> Cards] /\ acts \in [Chunks -> Act] /\ moved \in SUBSET Chunks
      /\ busy \in SUBSET Cards
  BY <1>a, <1>1, Numbers DEF Block
<1>6. blk' = [blk EXCEPT !.assign = assign, !.moved = moved, !.acts = acts, !.busy = busy]
  BY <1>b
<1>7. /\ assign[c] = to /\ acts[c] = NoAct
      /\ \A d \in Chunks : d # c => assign[d] = blk.assign[d] /\ acts[d] = blk.acts[d]
      /\ blk.busy \subseteq busy /\ busy \subseteq blk.busy \cup {to} /\ moved = blk.moved \cup {c}
      /\ blk.acts[c].do = "reassign" => to \in busy
      /\ blk.acts[c].do = "restart" => busy = blk.busy
  BY <1>a DEF Block
<1>t. to = blk.acts[c].to
  OBVIOUS
<1> HIDE DEF assign, acts, moved, busy, to
<1>8. /\ blk' \in Block /\ blk'.pc = "act" /\ blk'.assign = assign /\ blk'.moved = moved /\ blk'.acts = acts
      /\ blk'.busy = busy /\ blk'.staged = blk.staged /\ blk'.size = blk.size /\ blk'.age = blk.age
      /\ blk'.torn = blk.torn /\ blk'.swept = blk.swept
  BY <1>a, <1>1, <1>5, <1>6 DEF Block
<1>9. CardsTyped'
  BY <1>a, <1>2, <1>3, <1>4, <1>8 DEF CardsTyped
<1>10. FilesSound'
  <2>1. \A d \in Chunks : Excused(d) => Excused(d)'
    BY <1>7, <1>8 DEF Excused
  <2>2. ASSUME NEW card \in Cards, NEW n \in FileNos PROVE FileSound(card, n)'
    <3>1. FileSound(card, n)
      BY <1>a, <1>1 DEF FilesSound, Launched
    <3> QED
      BY <1>3, <1>8, <2>1, <3>1 DEF FileSound
  <2> QED
    BY <1>a, <1>8, <2>2 DEF FilesSound
<1>11. PlacesSound'
  <2>0. blk.acts[c].do = "restart" => to = blk.assign[c]
    BY <1>a, <1>1, <1>t DEF TimersSound, Ticking
  <2>1. ASSUME NEW d \in Chunks
        PROVE  (d \notin moved => assign[d] = d) /\ (assign[d] = d \/ assign[d] \in busy)
    <3>1. (d \notin blk.moved => blk.assign[d] = d) /\ (blk.assign[d] = d \/ blk.assign[d] \in blk.busy)
      BY <1>a DEF PlacesSound
    <3>2. CASE d # c
      BY <1>7, <3>1, <3>2
    <3>3. CASE d = c
      BY <1>1, <1>7, <2>0, <3>1, <3>3
    <3> QED
      BY <3>2, <3>3
  <2>2. ASSUME NEW d \in Chunks, Finished(d)', d \notin moved PROVE files'[<<d, d, "own">>] # "none"
    <3>1. d # c /\ d \notin blk.moved
      BY <1>7, <2>2
    <3>2. d \in busy => d \in blk.busy \/ (blk.acts[c].do = "reassign" /\ blk.acts[c].to = d)
      BY <1>1, <1>7, <1>t
    <3>3. \A e \in Chunks : acts[e].do = "reassign" => e # c /\ acts[e] = blk.acts[e]
      BY <1>7, Numbers
    <3>4. Finished(d)
      BY <1>7, <1>8, <2>2, <3>1, <3>2, <3>3 DEF Finished
    <3>5. files[<<d, d, "own">>] # "none"
      BY <1>1, <1>a, <3>1, <3>4 DEF PlacesSound, Ticking
    <3> QED
      BY <1>3, <3>5, Numbers
  <2> QED
    BY <1>8, <2>1, <2>2 DEF PlacesSound
<1>12. TimersSound'
  <2>1. ASSUME NEW d \in Chunks, OnItsOwn(d)', d \notin blk.staged PROVE TimerSound(d)'
    <3>1. CASE d = c
      <4>1. blk.size[c] = 0 /\ blk.age[c] = 0
        BY <1>a, <1>1 DEF TimersSound, Ticking
      <4> QED
        BY <1>4, <1>8, <3>1, <4>1 DEF TimerSound
    <3>2. CASE d # c
      <4>1. OnItsOwn(d)
        BY <1>7, <1>8, <2>1, <3>2 DEF OnItsOwn
      <4>2. TimerSound(d)
        BY <1>a, <1>1, <2>1, <4>1 DEF TimersSound, Ticking
      <4> QED
        BY <1>4, <1>8, <3>2, <4>2 DEF TimerSound
    <3> QED
      BY <3>1, <3>2
  <2>2. ASSUME NEW d \in Chunks, acts[d].do \in {"reassign", "restart"}
        PROVE  /\ blk.size[d] = 0 /\ blk.age[d] = 0
               /\ acts[d].do = "restart" => acts[d].to = assign[d]
    <3>1. d # c /\ acts[d] = blk.acts[d] /\ assign[d] = blk.assign[d]
      BY <1>7, <2>2, Numbers
    <3> QED
      BY <1>a, <1>1, <2>2, <3>1 DEF TimersSound, Ticking
  <2> QED
    BY <1>8, <2>1, <2>2 DEF TimersSound
<1>13. AggregateAccountedFor'
  BY <1>8 DEF AggregateAccountedFor
<1> QED
  BY <1>9, <1>10, <1>11, <1>12, <1>13 DEF ChunksInv

(* The end of a tick, and of the ticks. *)
LEMMA TicksKeep == ChunksInv /\ (EndTick \/ AllStaged \/ Sweep) => ChunksInv'
<1> SUFFICES ASSUME ChunksInv, EndTick \/ AllStaged \/ Sweep PROVE ChunksInv'
  OBVIOUS
<1>a. /\ CardsTyped /\ FilesSound /\ PlacesSound /\ TimersSound /\ blk \in Block /\ blk.pc = "act" /\ Planned = {}
      /\ UNCHANGED <<procs, files, local>>
  BY DEF ChunksInv, CardsTyped, EndTick, AllStaged, Sweep, cardVars
<1>b. \A c \in Chunks : blk.acts[c].do = "none"
  BY <1>a DEF Planned
<1>c. /\ [c \in Chunks |-> 0] \in [Chunks -> Nat] /\ [c \in Chunks |-> 0] \in [Chunks -> Int]
  OBVIOUS
<1>1. CASE EndTick
  <2>1. UNCHANGED <<log, quiet>> /\ blk' = [blk EXCEPT !.pc = "probe"]
    BY <1>1 DEF EndTick, cardVars
  <2>2. /\ blk' \in Block /\ blk'.pc = "probe" /\ blk'.assign = blk.assign /\ blk'.staged = blk.staged
        /\ blk'.busy = blk.busy /\ blk'.moved = blk.moved /\ blk'.size = blk.size /\ blk'.age = blk.age
        /\ blk'.acts = blk.acts /\ blk'.torn = blk.torn /\ blk'.swept = blk.swept
    BY <1>a, <2>1 DEF Block
  <2>3. CardsTyped'
    BY <1>a, <2>1, <2>2 DEF CardsTyped
  <2>4. FilesSound'
    BY <1>a, <2>2 DEF FilesSound, FileSound, Excused, Launched
  <2>5. PlacesSound'
    BY <1>a, <1>b, <2>2 DEF PlacesSound, Finished, Ticking
  <2>6. TimersSound'
    BY <1>a, <2>1, <2>2 DEF TimersSound, TimerSound, OnItsOwn, Ticking
  <2>7. AggregateAccountedFor'
    BY <2>2 DEF AggregateAccountedFor
  <2> QED
    BY <2>3, <2>4, <2>5, <2>6, <2>7 DEF ChunksInv
<1>2. CASE AllStaged \/ Sweep
  <2> DEFINE zero == [c \in Chunks |-> 0]
             due == [c \in Chunks |-> IF c \in blk.staged THEN NoAct ELSE [do |-> "stage", to |-> blk.assign[c]]]
  <2>1. /\ log' = zero /\ quiet' = zero
        /\ \E pc \in {"count", "sweep"}, swept \in BOOLEAN, acts \in {blk.acts, due} :
             /\ blk' = [blk EXCEPT !.pc = pc, !.swept = swept, !.acts = acts, !.size = zero, !.age = zero]
             /\ (pc = "sweep" => swept) /\ (blk.swept => swept)
    <3>1. log' = zero /\ quiet' = zero
      BY <1>2 DEF AllStaged, Sweep, ForgetLogs
    <3>2. AllStaged => blk' = [blk EXCEPT !.pc = "count", !.swept = blk.swept, !.acts = blk.acts,
                                          !.size = zero, !.age = zero]
      BY <1>a DEF AllStaged, Forget, Block
    <3>3. Sweep => blk' = [blk EXCEPT !.pc = "sweep", !.swept = TRUE, !.acts = due, !.size = zero, !.age = zero]
      BY <1>a DEF Sweep, Forget, Block
    <3>4. blk.swept \in BOOLEAN
      BY <1>a DEF Block
    <3> HIDE DEF zero, due
    <3> QED
      BY <1>2, <3>1, <3>2, <3>3, <3>4
  <2>2. due \in [Chunks -> Act]
    <3>1. \A c \in Chunks : [do |-> "stage", to |-> blk.assign[c]] \in Act
      BY <1>a DEF Act, Block
    <3> QED
      BY <3>1, Numbers
  <2>3. zero \in [Chunks -> Nat] /\ zero \in [Chunks -> Int]
    BY <1>c
  <2> HIDE DEF zero, due
  <2>4. PICK pc \in {"count", "sweep"}, swept \in BOOLEAN, acts \in {blk.acts, due} :
             /\ blk' = [blk EXCEPT !.pc = pc, !.swept = swept, !.acts = acts, !.size = zero, !.age = zero]
             /\ (pc = "sweep" => swept) /\ (blk.swept => swept)
    BY <2>1
  <2>5. acts \in [Chunks -> Act]
    BY <1>a, <2>2 DEF Block
  <2>6. /\ blk' \in Block /\ blk'.pc = pc /\ blk'.assign = blk.assign /\ blk'.staged = blk.staged
        /\ blk'.busy = blk.busy /\ blk'.moved = blk.moved /\ blk'.torn = blk.torn /\ blk'.swept = swept
    BY <1>a, <2>3, <2>4, <2>5 DEF Block
  <2>7. CardsTyped'
    BY <1>a, <2>1, <2>3, <2>6 DEF CardsTyped
  <2>8. FilesSound'
    <3>1. \A d \in Chunks : Excused(d) => Excused(d)'
      BY <2>4, <2>6 DEF Excused
    <3>2. ASSUME NEW card \in Cards, NEW n \in FileNos PROVE FileSound(card, n)'
      <4>1. FileSound(card, n)
        BY <1>a DEF FilesSound, Launched
      <4> QED
        BY <1>a, <2>6, <3>1, <4>1 DEF FileSound
    <3> QED
      BY <1>a, <2>4, <2>6, <3>2 DEF FilesSound
  <2>9. PlacesSound' /\ TimersSound'
    BY <1>a, <2>6 DEF PlacesSound, TimersSound, Ticking
  <2>10. AggregateAccountedFor'
    BY <2>6 DEF AggregateAccountedFor
  <2> QED
    BY <2>7, <2>8, <2>9, <2>10 DEF ChunksInv
<1> QED
  BY <1>1, <1>2

(* The driver turns the page: nothing but where it is changes. *)
LEMMA PageKeeps ==
  ASSUME ChunksInv, UNCHANGED <<procs, files, local, log, quiet>>,
         blk.pc \in {"sweep", "count"},
         NEW pc \in {"count", "serve", "refused"}, blk' = [blk EXCEPT !.pc = pc],
         pc = "serve" => AggregateAccountedFor'
  PROVE  ChunksInv'
<1>a. CardsTyped /\ FilesSound /\ PlacesSound /\ blk \in Block
  BY DEF ChunksInv, CardsTyped
<1>1. /\ blk' \in Block /\ blk'.pc = pc /\ blk'.assign = blk.assign /\ blk'.staged = blk.staged
      /\ blk'.busy = blk.busy /\ blk'.moved = blk.moved /\ blk'.torn = blk.torn /\ blk'.swept = blk.swept
  BY <1>a DEF Block
<1>2. CardsTyped'
  BY <1>a, <1>1 DEF CardsTyped
<1>3. FilesSound'
  BY <1>a, <1>1 DEF FilesSound, FileSound, Excused, Launched
<1>4. PlacesSound' /\ TimersSound'
  BY <1>a, <1>1 DEF PlacesSound, TimersSound, Ticking
<1>5. AggregateAccountedFor'
  <2>1. pc # "serve" => AggregateAccountedFor'
    BY <1>1 DEF AggregateAccountedFor
  <2> QED
    BY <2>1
<1> QED
  BY <1>2, <1>3, <1>4, <1>5 DEF ChunksInv

(* The aggregate is started when as many files are there as chunks: a chunk
   is only missing if a file of another number was counted for it. *)
LEMMA AggregateKeeps == ChunksInv /\ Aggregate => ChunksInv'
<1> SUFFICES ASSUME ChunksInv, Aggregate PROVE ChunksInv'
  OBVIOUS
<1>a. /\ CardsTyped /\ FilesSound /\ PlacesSound /\ blk \in Block /\ blk.pc = "count"
      /\ UNCHANGED <<procs, files, local, log, quiet>>
      /\ blk' = [blk EXCEPT !.pc = IF StagingComplete(Cardinality(OnAggregate)) THEN "serve" ELSE "refused"]
  BY DEF ChunksInv, CardsTyped, Aggregate, cardVars
<1>1. PICK pc \in {"serve", "refused"} :
        blk' = [blk EXCEPT !.pc = pc] /\ (pc = "serve" => Cardinality(OnAggregate) >= N)
  BY <1>a DEF StagingComplete
<1>2. blk'.pc = pc /\ blk'.moved = blk.moved /\ blk'.torn = blk.torn /\ blk'.swept = blk.swept
  BY <1>a, <1>1 DEF Block
<1>3. ASSUME NEW c \in Chunks, files[<<Agg, c, "own">>] = "none", Cardinality(OnAggregate) >= N
      PROVE  files[<<Agg, Extra, "own">>] # "none"
  <2> SUFFICES ASSUME files[<<Agg, Extra, "own">>] = "none" PROVE FALSE
    OBVIOUS
  <2>1. OnAggregate \subseteq Chunks \ {c}
    BY <1>3, Numbers DEF OnAggregate
  <2>2. IsFiniteSet(Chunks) /\ Cardinality(Chunks) = N
    BY FS_Interval, Numbers DEF Chunks
  <2>3. IsFiniteSet(Chunks \ {c}) /\ Cardinality(Chunks \ {c}) = N - 1
    BY <2>2, FS_RemoveElement
  <2>4. Cardinality(OnAggregate) <= N - 1 /\ IsFiniteSet(OnAggregate)
    BY <2>1, <2>3, FS_Subset
  <2>5. Cardinality(OnAggregate) \in Nat
    BY <2>4, FS_CardinalityType
  <2> QED
    BY <1>3, <2>4, <2>5, Numbers
<1>4. pc = "serve" => AggregateAccountedFor'
  <2> SUFFICES ASSUME pc = "serve", NEW c \in Chunks
               PROVE  /\ files[<<Agg, c, "own">>] # "before"
                      /\ files[<<Agg, c, "own">>] = "none" => files[<<Agg, Extra, "own">>] = "late"
                      /\ files[<<Agg, c, "own">>] = "part" => c \in blk.torn
                      /\ files[<<Agg, c, "own">>] = "stage" => c \in blk.moved \cup blk.torn \/ blk.swept
    BY <1>a, <1>2 DEF AggregateAccountedFor
  <2>1. FileSound(Agg, c) /\ FileSound(Agg, Extra)
    BY <1>a, Numbers DEF FilesSound, Launched
  <2>2. files[<<Agg, c, "own">>] = "none" => files[<<Agg, Extra, "own">>] = "late"
    BY <1>1, <1>3, <2>1, Numbers DEF FileSound
  <2> QED
    BY <2>1, <2>2 DEF FileSound, Excused
<1> QED
  BY <1>a, <1>1, <1>4, PageKeeps

LEMMA ChunksNext == ChunksInv /\ [Next]_vars => ChunksInv'
<1> SUFFICES ASSUME ChunksInv, [Next]_vars PROVE ChunksInv'
  OBVIOUS
<1>0. ASSUME UNCHANGED <<procs, files, local, log, quiet, blk>> PROVE ChunksInv'
  BY <1>0 DEF ChunksInv, CardsTyped, FilesSound, FileSound, Excused, PlacesSound, Finished, TimersSound, TimerSound,
              OnItsOwn, AggregateAccountedFor
<1>1. CASE ActStage
  <2>1. PICK c \in Chunks : Due(c, {"stage"}) /\ Stages(c)
    BY <1>1 DEF ActStage
  <2> QED
    BY <1>1, <2>1, StagesKeep DEF ActStage, Due
<1>2. CASE SweepOne
  <2>a. blk.pc = "sweep" /\ UNCHANGED <<procs, log, quiet>>
    BY <1>2 DEF SweepOne
  <2>1. CASE Planned = {}
    BY <1>2, <2>a, <2>1, PageKeeps DEF SweepOne
  <2>2. CASE Planned # {}
    <3>1. Min(Planned) \in Chunks
      BY <2>2, MinIn, Numbers DEF Planned
    <3>2. PICK c \in Chunks : c = Min(Planned)
      BY <3>1
    <3>3. Stages(c)
      BY <1>2, <2>2, <3>2 DEF SweepOne
    <3> QED
      BY <2>a, <3>3, StagesKeep
  <2> QED
    BY <2>1, <2>2
<1>3. CASE ServeStep \/ StartRange \/ Poll \/ PollUnreachable \/ OutOfTicks \/ Abort \/ NextBlock \/ UNCHANGED vars
  BY <1>0, <1>3
  DEF ServeStep, StartRange, Poll, PollUnreachable, OutOfTicks, Abort, NextBlock, vars, cardVars
<1> QED
  BY <1>1, <1>2, <1>3, CardMovesKeep, LaunchKeeps, ProbeKeeps, MoveKeeps, TicksKeep, AggregateKeeps DEF Next

LEMMA ChunksInvariant == Spec => []ChunksInv
<1>1. Init => ChunksInv
  <2> SUFFICES ASSUME Init PROVE ChunksInv
    OBVIOUS
  <2>1. PICK running \in [Cards -> 0..Extra], dirty \in SUBSET Cards, kept \in {{}, Chunks} :
          /\ mode = "range" => (\A c \in Cards : running[c] = 0) /\ dirty = {} /\ kept = {}
          /\ \A c \in Cards : running[c] = Extra => c = Agg
          /\ procs = [c \in Cards |-> LeftOver(running[c])]
          /\ files = [x \in Cards \X FileNos \X Dirs |->
                        IF x[1] \in dirty /\ x[2] = x[1] /\ x[3] = "own" THEN "before" ELSE "none"]
          /\ local = [c \in Chunks |-> IF c \in kept THEN "stage" ELSE "none"]
          /\ faults = Cardinality({c \in Cards : running[c] # 0}) + (IF kept = {} THEN 0 ELSE 1)
          /\ faults <= MaxFaults
    BY DEF Init
  <2>2. procs \in [Cards -> SUBSET Prover]
    <3>1. ASSUME NEW n \in 0..Extra PROVE LeftOver(n) \in SUBSET Prover
      <4>1. n # 0 => n \in FileNos
        BY <3>1, Numbers DEF FileNos, Extra
      <4> QED
        BY <4>1 DEF LeftOver, Prover, Dirs, States
    <3> QED
      BY <2>1, <3>1
  <2>3. files \in [Keys -> Of]
    BY <2>1 DEF Keys, Of
  <2>4. local \in [Chunks -> Of] /\ \A c \in Chunks : local[c] \in {"stage", "none"}
    BY <2>1 DEF Of
  <2>5. /\ blk.pc \in {"off", "clear"} /\ blk.assign = [c \in Chunks |-> c] /\ blk.staged = {} /\ blk.busy = {}
        /\ blk.moved = {} /\ blk.size = [c \in Chunks |-> -1] /\ blk.age = [c \in Chunks |-> 0]
        /\ blk.acts = [c \in Chunks |-> NoAct] /\ blk.torn = {} /\ blk.swept = FALSE
        /\ log = [c \in Chunks |-> 0] /\ quiet = [c \in Chunks |-> 0]
    BY DEF Init
  <2>6. blk \in Block
    <3>1. /\ [c \in Chunks |-> c] \in [Chunks -> Cards] /\ [c \in Chunks |-> 0] \in [Chunks -> Nat]
          /\ [c \in Chunks |-> NoAct] \in [Chunks -> Act] /\ [c \in Chunks |-> -1] \in [Chunks -> Int]
      BY Numbers
    <3> QED
      BY <3>1 DEF Init, Block
  <2>7. CardsTyped
    BY <2>2, <2>3, <2>4, <2>5, <2>6 DEF CardsTyped
  <2>8. FilesSound
    BY <2>4, <2>5 DEF FilesSound, Launched
  <2>9. PlacesSound
    BY <2>5, Numbers DEF PlacesSound, Finished, Ticking
  <2>10. TimersSound
    BY <2>5, Numbers DEF TimersSound, TimerSound
  <2>11. AggregateAccountedFor
    BY <2>5 DEF AggregateAccountedFor
  <2> QED
    BY <2>7, <2>8, <2>9, <2>10, <2>11 DEF ChunksInv
<1> QED
  BY <1>1, ChunksNext, PTL DEF Spec

(* When the aggregate proof is started, every chunk's file there is a whole
   receipt of this run, or one of the exceptions that are stated. The empty
   fleet is confirmed before the launch, and the files on the aggregate are
   counted, not assumed. *)
THEOREM AggregateIsAccountedFor == Spec => []AggregateAccountedFor
<1>1. ChunksInv => AggregateAccountedFor
  BY DEF ChunksInv
<1> QED
  BY <1>1, ChunksInvariant, PTL

(* The plan of one probe recovers only a chunk whose card answered that it is
   idle: nothing on it is at work; and, of a chunk alone on its card, only one
   whose log stood still over the limit. *)
LEMMA RecoveryIsEarned ==
  ASSUME CardsTyped, PlacesSound, TimersSound, blk.pc = "probe", NEW reply \in Replies, NEW c \in Chunks, NEW moved,
         \A d \in Chunks : d \in moved <=> d \notin blk.staged /\ Moved(reply, d),
         NEW aged, aged[c] = (IF c \in moved THEN 0 ELSE Tick(blk.age[c])),
         PlanTick(reply, aged, c).do \in {"reassign", "restart"}
  PROVE  /\ \A p \in procs[blk.assign[c]] : p.st \notin {"busy", "ending"}
         /\ OnItsOwn(c) => quiet[c] >= STALL
<1>a. blk.age[c] \in Nat /\ quiet[c] \in Nat /\ STALL \in Nat /\ log[c] \in Nat
  BY Numbers DEF CardsTyped, Block
<1>1. c \notin blk.staged /\ StateOf(reply, c) = "idle" /\ aged[c] > STALL
  BY PlanMeans
<1>2. c \notin moved /\ ~Moved(reply, c) /\ Tick(blk.age[c]) > STALL
  BY <1>a, <1>1
<1>3. PICK d : d = reply[blk.assign[c]]
  OBVIOUS
<1>4. d # 0 /\ CardState(d) = "idle"
  BY <1>1, <1>3 DEF StateOf
<1>5. d \in Chunks /\ blk.assign[d] = blk.assign[c] /\ (OnItsOwn(c) => d = c)
  BY <1>3, <1>4, ReplyIsOwn
<1>6. \A p \in procs[blk.assign[c]] : p.st \notin {"busy", "ending"}
  BY <1>4, <1>5 DEF CardState
<1>7. ASSUME OnItsOwn(c) PROVE quiet[c] >= STALL
  <2>1. log[c] = blk.size[c]
    BY <1>2, <1>3, <1>4, <1>5, <1>7 DEF Moved
  <2>2. blk.age[c] <= quiet[c] \/ quiet[c] >= STALL
    BY <1>1, <1>7, <2>1 DEF TimersSound, TimerSound, Ticking
  <2>3. blk.age[c] >= STALL
    BY <1>2, <1>a DEF Tick
  <2> QED
    BY <1>a, <2>2, <2>3
<1> QED
  BY <1>6, <1>7

(* A chunk is taken from a card, or restarted on it, only when nothing on the
   card is at work, and, where the chunk is alone on its card, when its log
   has in fact not grown for the stall limit, whatever could not be asked. *)
THEOREM WedgesAreReal == Spec => WedgeIsReal
<1>1. ChunksInv /\ [Next]_vars
        => [blk.pc = "probe" => \A c \in Chunks : Recovered(c) =>
              /\ \A p \in procs[blk.assign[c]] : p.st \notin {"busy", "ending"}
              /\ OnItsOwn(c) => quiet[c] >= STALL]_vars
  <2> SUFFICES ASSUME ChunksInv, Next, blk.pc = "probe", NEW c \in Chunks, Recovered(c)
               PROVE  /\ \A p \in procs[blk.assign[c]] : p.st \notin {"busy", "ending"}
                      /\ OnItsOwn(c) => quiet[c] >= STALL
    OBVIOUS
  <2>a. CardsTyped /\ blk \in Block /\ PlacesSound /\ TimersSound /\ \A d \in Chunks : blk.acts[d].do = "none"
    BY DEF ChunksInv, CardsTyped, PlacesSound
  <2>1. CASE Probe
    <3>1. PICK reply \in Replies :
            LET moved == {d \in Chunks \ blk.staged : Moved(reply, d)}
                aged == [d \in Chunks |-> IF d \in moved THEN 0 ELSE Tick(blk.age[d])]
                acts == [d \in Chunks |-> PlanTick(reply, aged, d)]
                again == {d \in Chunks : acts[d].do \in {"reassign", "restart"}}
            IN  blk' = [blk EXCEPT !.pc = "act", !.acts = acts,
                          !.size = [d \in Chunks |-> CASE d \in again \cup blk.staged -> 0
                                                        [] d \in moved \ again -> log[reply[blk.assign[d]]]
                                                        [] OTHER -> blk.size[d]],
                          !.age = [d \in Chunks |-> IF d \in again \cup blk.staged THEN 0 ELSE aged[d]]]
      BY <2>1 DEF Probe
    <3> DEFINE moved == {d \in Chunks \ blk.staged : Moved(reply, d)}
               aged == [d \in Chunks |-> IF d \in moved THEN 0 ELSE Tick(blk.age[d])]
               acts == [d \in Chunks |-> PlanTick(reply, aged, d)]
               again == {d \in Chunks : acts[d].do \in {"reassign", "restart"}}
               size == [d \in Chunks |-> CASE d \in again \cup blk.staged -> 0
                                           [] d \in moved \ again -> log[reply[blk.assign[d]]]
                                           [] OTHER -> blk.size[d]]
               age == [d \in Chunks |-> IF d \in again \cup blk.staged THEN 0 ELSE aged[d]]
    <3>2. acts[c] = PlanTick(reply, aged, c)
      <4> HIDE DEF aged
      <4> QED
        OBVIOUS
    <3>3. blk' = [blk EXCEPT !.pc = "act", !.acts = acts, !.size = size, !.age = age]
      BY <3>1
    <3>4. /\ \A d \in Chunks : d \in moved <=> d \notin blk.staged /\ Moved(reply, d)
          /\ aged[c] = (IF c \in moved THEN 0 ELSE Tick(blk.age[c]))
      <4>1. \A d \in Chunks : d \in moved <=> d \notin blk.staged /\ Moved(reply, d)
        OBVIOUS
      <4> HIDE DEF moved
      <4>2. aged[c] = (IF c \in moved THEN 0 ELSE Tick(blk.age[c]))
        OBVIOUS
      <4> QED
        BY <4>1, <4>2
    <3> HIDE DEF acts, age, size, aged, moved, again
    <3>5. blk'.acts = acts
      BY <2>a, <3>3 DEF Block
    <3>6. PlanTick(reply, aged, c).do \in {"reassign", "restart"}
      BY <3>2, <3>5 DEF Recovered
    <3> QED
      BY <2>a, <3>4, <3>6, RecoveryIsEarned
  <2>2. CASE blk' = blk
    BY <2>2, <2>a DEF Recovered
  <2>3. CASE ~Probe
    <3>1. CASE CardMoves
      BY <2>2, <3>1 DEF CardMoves
    <3>2. CASE ServeStep \/ StartRange \/ Poll \/ PollUnreachable \/ OutOfTicks \/ Abort \/ NextBlock
      BY <2>2, <3>2 DEF AggregateStatus, ServeStep, StartRange, Poll, PollUnreachable, OutOfTicks, Abort, NextBlock
    <3>3. CASE ClearAndLaunch \/ EndTick \/ AllStaged \/ Sweep \/ SweepOne \/ Aggregate
      BY <3>3 DEF ClearAndLaunch, EndTick, AllStaged, Sweep, SweepOne, Aggregate
    <3>4. CASE ActStage \/ ActMove
      BY <3>4 DEF ActStage, ActMove, Due
    <3> QED
      BY <2>3, <3>1, <3>2, <3>3, <3>4 DEF Next
  <2> QED
    BY <2>1, <2>3
<1> QED
  BY <1>1, ChunksInvariant, PTL DEF Spec, WedgeIsReal

-----------------------------------------------------------------------------
(* The range driver.                                                       *)

LEMMA ServerUpdates ==
  ASSUME RangeTyped
  PROVE  /\ srv.holds \in 0..Blocks /\ srv.log \in 0..Blocks /\ srv.units \in 0..UNITS
         /\ srv.work \in 0..UNITS /\ srv.verified \in BOOLEAN
         /\ rng.h \in 1..Blocks /\ rng.beaten \in 0..UNITS /\ rng.gone \in Nat
         /\ rng.pc \in {"off", "start", "poll", "ended"} /\ rng.res \in {"none", "ok", "refused", "aborted"}
         /\ sent \in [1..Blocks -> Nat] /\ worked \in [1..Blocks -> Nat] /\ proved \subseteq 1..Blocks
         /\ srv \in Server /\ rng \in Ranging
  BY DEF RangeTyped, Server, Ranging

(* The run ends: whatever the log is now of, it is rotated before it is read. *)
LEMMA EndKeeps ==
  ASSUME RangesInv, NEW res \in {"ok", "refused", "aborted"}, rng' = End(res), rng.pc \in {"start", "poll"},
         res = "ok" => rng.h \in proved, proved' = proved, worked' = worked,
         srv' \in Server, srv'.holds <= rng.h,
         srv'.verified => srv'.log # 0 /\ srv'.log \in proved,
         srv'.log # 0 /\ srv'.log = srv'.holds => srv'.units = srv'.work,
         sent' \in [1..Blocks -> Nat], \A g \in 1..Blocks : g # rng.h => sent'[g] = sent[g]
  PROVE  RangesInv'
<1>a. RangeTyped /\ LogSound /\ BeatsSound /\ VerifiedIsThisBlock
  BY DEF RangesInv
<1>b. rng \in Ranging /\ rng.h \in 1..Blocks
  BY <1>a, ServerUpdates
<1>z. 0 \in 0..UNITS /\ rng' = [rng EXCEPT !.pc = "ended", !.res = res, !.beaten = 0, !.gone = 0]
  BY Numbers DEF End
<1>1. rng' \in Ranging /\ rng'.pc = "ended" /\ rng'.h = rng.h /\ rng'.res = res /\ rng'.beaten = 0
  <2>1. /\ "ended" \in {"off", "start", "poll", "ended"} /\ res \in {"none", "ok", "refused", "aborted"}
        /\ 0 \in Nat /\ 0 \in 0..UNITS
    BY <1>z
  <2>2. rng' \in Ranging
    BY <1>b, <1>z, <2>1 DEF Ranging
  <2>3. rng'.pc = "ended" /\ rng'.h = rng.h
    BY <1>b, <1>z DEF Ranging
  <2>4. rng'.res = res
    BY <1>b, <1>z DEF Ranging
  <2>5. rng'.beaten = 0
    BY <1>b, <1>z DEF Ranging
  <2> QED
    BY <2>2, <2>3, <2>4, <2>5
<1>2. RangeTyped'
  BY <1>a, <1>1 DEF RangeTyped
<1>3. LogSound'
  BY <1>1 DEF LogSound
<1>4. BeatsSound'
  BY <1>a, <1>b, <1>1 DEF BeatsSound
<1>5. VerifiedIsThisBlock'
  BY <1>1 DEF VerifiedIsThisBlock
<1> QED
  BY <1>2, <1>3, <1>4, <1>5 DEF RangesInv

(* What a launch leaves: an empty log, of this block if the port was free. *)
LEMMA Launched_ ==
  ASSUME RangeTyped
  PROVE  LET s == Launch(rng.h)
         IN  /\ s \in Server /\ ~s.verified /\ s.units = 0
             /\ srv.holds = 0 => s.holds = rng.h /\ s.log = rng.h /\ s.work = 0
             /\ srv.holds # 0 => s.holds = srv.holds /\ s.log = 0 /\ s.work = srv.work
<1>a. /\ srv \in Server /\ srv.holds \in 0..Blocks /\ rng.h \in 1..Blocks /\ 0 \in 0..Blocks /\ 0 \in 0..UNITS
      /\ rng.h \in 0..Blocks
  BY ServerUpdates, Numbers
<1> DEFINE r == RotateAgg(srv)
<1>1. r \in Server /\ ~r.verified /\ r.units = 0 /\ r.log = 0 /\ r.holds = srv.holds /\ r.work = srv.work
  BY <1>a DEF RotateAgg, Server
<1>2. Launch(rng.h) = IF r.holds = 0 THEN [r EXCEPT !.holds = rng.h, !.log = rng.h, !.work = 0] ELSE r
  BY DEF Launch
<1> HIDE DEF r
<1>3. LET s == [r EXCEPT !.holds = rng.h, !.log = rng.h, !.work = 0]
      IN  s \in Server /\ ~s.verified /\ s.units = 0 /\ s.holds = rng.h /\ s.log = rng.h /\ s.work = 0
  BY <1>a, <1>1 DEF Server
<1> QED
  BY <1>a, <1>1, <1>2, <1>3

LEMMA StartKeeps == RangesInv /\ StartRange => RangesInv'
<1> SUFFICES ASSUME RangesInv, StartRange PROVE RangesInv'
  OBVIOUS
<1>a. /\ RangeTyped /\ LogSound /\ BeatsSound /\ VerifiedIsThisBlock /\ rng.pc = "start"
      /\ UNCHANGED <<proved, sent, worked>> /\ rng.h \in 1..Blocks /\ rng \in Ranging /\ srv \in Server
      /\ sent \in [1..Blocks -> Nat] /\ srv.holds < rng.h /\ srv.holds \in 0..Blocks
  BY ServerUpdates DEF RangesInv, StartRange, LogSound
<1>1. LET s == Launch(rng.h)
      IN  /\ s \in Server /\ ~s.verified /\ s.units = 0 /\ s.holds <= rng.h
          /\ s.log # 0 => s.holds = rng.h /\ s.log = rng.h /\ s.work = 0
          /\ s.holds = rng.h => s.log = rng.h
  BY <1>a, Launched_
<1>2. CASE rng' = End("refused") /\ srv' \in {srv, Launch(rng.h)}
  <2>1. /\ srv' \in Server /\ srv'.holds <= rng.h
        /\ srv'.verified => srv'.log # 0 /\ srv'.log \in proved
        /\ srv'.log # 0 /\ srv'.log = srv'.holds => srv'.units = srv'.work
    BY <1>a, <1>1, <1>2 DEF LogSound
  <2> QED
    BY <1>a, <1>2, <2>1, EndKeeps
<1>3. CASE rng' = [rng EXCEPT !.pc = "poll"] /\ srv' = Launch(rng.h)
  <2>1. rng' \in Ranging /\ rng'.pc = "poll" /\ rng'.h = rng.h /\ rng'.beaten = rng.beaten /\ rng'.res = rng.res
    BY <1>a, <1>3 DEF Ranging
  <2>2. RangeTyped'
    BY <1>a, <1>1, <1>3, <2>1 DEF RangeTyped
  <2>3. LogSound'
    BY <1>a, <1>1, <1>3, <2>1 DEF LogSound
  <2>4. BeatsSound'
    BY <1>a, <1>1, <1>3, <2>1 DEF BeatsSound
  <2>5. VerifiedIsThisBlock'
    BY <1>a, <2>1 DEF VerifiedIsThisBlock
  <2> QED
    BY <2>2, <2>3, <2>4, <2>5 DEF RangesInv
<1> QED
  BY <1>2, <1>3 DEF StartRange

(* seg-serve prints only to the log it was started with. *)
LEMMA ServeKeeps == RangesInv /\ ServeStep => RangesInv'
<1> SUFFICES ASSUME RangesInv, ServeStep PROVE RangesInv'
  OBVIOUS
<1>a. /\ RangeTyped /\ LogSound /\ BeatsSound /\ VerifiedIsThisBlock /\ srv.holds # 0
      /\ UNCHANGED <<rng, sent>> /\ srv \in Server
      /\ srv.holds \in 0..Blocks /\ srv.log \in 0..Blocks /\ srv.work \in 0..UNITS /\ srv.units \in 0..UNITS
      /\ rng.h \in 1..Blocks /\ proved \subseteq 1..Blocks /\ rng.beaten \in 0..UNITS
      /\ sent \in [1..Blocks -> Nat] /\ worked' \in [1..Blocks -> Nat]
  <2>1. worked \in [1..Blocks -> Nat] /\ srv.holds \in 1..Blocks
    BY ServerUpdates DEF RangesInv, ServeStep
  <2>2. worked' = worked \/ worked' = [worked EXCEPT ![srv.holds] = worked[srv.holds] + 1]
    BY DEF ServeStep
  <2>3. worked' \in [1..Blocks -> Nat]
    BY <2>1, <2>2
  <2> QED
    BY <2>3, ServerUpdates DEF RangesInv, ServeStep
<1>1. ASSUME srv' \in Server, proved \subseteq proved', proved' \subseteq 1..Blocks,
             srv'.log = srv.log, srv'.holds \in {0, srv.holds}, srv'.units >= srv.units,
             srv'.verified => srv.log # 0 /\ srv.log \in proved',
             srv'.holds # 0 /\ srv'.log = srv'.holds => srv'.units = srv'.work
      PROVE  RangesInv'
  <2>1. RangeTyped'
    BY <1>1, <1>a DEF RangeTyped
  <2>2. LogSound'
    BY <1>1, <1>a DEF LogSound
  <2>3. BeatsSound'
    <3>1. rng.pc = "poll" => rng.beaten <= srv'.units
      BY <1>1, <1>a DEF BeatsSound, Server
    <3> QED
      BY <1>a, <3>1 DEF BeatsSound
  <2>4. VerifiedIsThisBlock'
    BY <1>1, <1>a DEF VerifiedIsThisBlock
  <2> QED
    BY <2>1, <2>2, <2>3, <2>4 DEF RangesInv
<1>2. CASE srv.work < UNITS /\ proved' = proved
           /\ srv' = [srv EXCEPT !.work = @ + 1, !.units = IF srv.log = srv.holds THEN srv.work + 1 ELSE @]
  <2> DEFINE units == IF srv.log = srv.holds THEN srv.work + 1 ELSE srv.units
  <2>1. srv.work + 1 \in 0..UNITS /\ units \in 0..UNITS /\ units >= srv.units
    <3>1. srv.work + 1 \in 0..UNITS
      BY <1>a, <1>2, Numbers
    <3>2. srv.log = srv.holds => srv.units = srv.work
      BY <1>a DEF LogSound
    <3> QED
      BY <1>a, <3>1, <3>2
  <2>2. srv' = [srv EXCEPT !.work = srv.work + 1, !.units = units]
    BY <1>2
  <2>3. srv.log = srv.holds => units = srv.work + 1
    OBVIOUS
  <2> HIDE DEF units
  <2>4. /\ srv' \in Server /\ srv'.log = srv.log /\ srv'.holds = srv.holds /\ srv'.units = units
        /\ srv'.verified = srv.verified /\ srv'.work = srv.work + 1
    BY <1>a, <2>1, <2>2 DEF Server
  <2> QED
    BY <1>1, <1>2, <1>a, <2>1, <2>3, <2>4 DEF LogSound
<1>3. CASE srv.work = UNITS /\ proved' = proved \cup {srv.holds}
           /\ srv' = [srv EXCEPT !.verified = @ \/ srv.log = srv.holds, !.holds = 0, !.work = 0]
  <2> DEFINE verified == srv.verified \/ srv.log = srv.holds
  <2>0. /\ verified \in BOOLEAN /\ 0 \in 0..Blocks /\ 0 \in 0..UNITS
        /\ srv' = [srv EXCEPT !.verified = verified, !.holds = 0, !.work = 0]
    BY <1>3, Numbers
  <2>v. verified => srv.verified \/ srv.log = srv.holds
    OBVIOUS
  <2> HIDE DEF verified
  <2>1. /\ srv' \in Server /\ srv'.log = srv.log /\ srv'.holds = 0 /\ srv'.units = srv.units
        /\ srv'.verified = verified
    BY <1>a, <2>0 DEF Server
  <2>2. proved' \subseteq 1..Blocks /\ proved \subseteq proved' /\ srv.holds \in proved'
    BY <1>a, <1>3
  <2> QED
    BY <1>1, <1>a, <2>1, <2>2, <2>v DEF LogSound
<1>4. CASE srv' = [srv EXCEPT !.holds = 0, !.work = 0] /\ proved' = proved
  <2>0. 0 \in 0..Blocks /\ 0 \in 0..UNITS
    BY Numbers
  <2>1. /\ srv' \in Server /\ srv'.log = srv.log /\ srv'.holds = 0 /\ srv'.units = srv.units
        /\ srv'.verified = srv.verified
    BY <1>a, <1>4, <2>0 DEF Server
  <2> QED
    BY <1>1, <1>4, <1>a, <2>1 DEF LogSound
<1> QED
  BY <1>2, <1>3, <1>4 DEF ServeStep

LEMMA PollKeeps == RangesInv /\ Poll => RangesInv'
<1> SUFFICES ASSUME RangesInv, Poll PROVE RangesInv'
  OBVIOUS
<1>a. /\ RangeTyped /\ LogSound /\ BeatsSound /\ VerifiedIsThisBlock /\ rng.pc = "poll"
      /\ UNCHANGED <<srv, proved, worked>> /\ rng.h \in 1..Blocks /\ rng \in Ranging /\ srv \in Server
      /\ sent \in [1..Blocks -> Nat] /\ srv.units \in 0..UNITS /\ rng.beaten \in 0..UNITS
      /\ srv.verified \in BOOLEAN
  BY ServerUpdates DEF AggregateStatus, RangesInv, Poll
<1>1. /\ sent' \in [1..Blocks -> Nat] /\ \A g \in 1..Blocks : g # rng.h => sent'[g] = sent[g]
      /\ sent'[rng.h] <= IF srv.units > rng.beaten THEN sent[rng.h] + 1 ELSE sent[rng.h]
  <2>1. sent' = sent \/ (srv.units > rng.beaten /\ sent' = [sent EXCEPT ![rng.h] = sent[rng.h] + 1])
    BY DEF AggregateStatus, Poll, Rose
  <2>2. sent[rng.h] \in Nat
    BY <1>a
  <2>3. CASE sent' = sent
    BY <1>a, <2>2, <2>3
  <2>4. CASE srv.units > rng.beaten /\ sent' = [sent EXCEPT ![rng.h] = sent[rng.h] + 1]
    BY <1>a, <2>2, <2>4
  <2> QED
    BY <2>1, <2>3, <2>4
<1>2. srv.verified => rng.h \in proved
  BY <1>a DEF LogSound
<1>3. ASSUME NEW res \in {"ok", "refused"}, rng' = End(res), res = "ok" => srv.verified PROVE RangesInv'
  <2>1. /\ srv'.holds <= rng.h
        /\ srv'.verified => srv'.log # 0 /\ srv'.log \in proved
        /\ srv'.log # 0 /\ srv'.log = srv'.holds => srv'.units = srv'.work
    BY <1>a DEF LogSound
  <2> QED
    BY <1>a, <1>1, <1>2, <1>3, <2>1, EndKeeps
<1>4. CASE rng' = [rng EXCEPT !.beaten = IF Rose(srv.units) THEN srv.units ELSE @, !.gone = 0]
  <2> DEFINE beaten == IF srv.units > rng.beaten THEN srv.units ELSE rng.beaten
  <2>1. rng' = [rng EXCEPT !.beaten = beaten, !.gone = 0] /\ beaten \in 0..UNITS
    BY <1>a, <1>4 DEF Rose
  <2>2. sent'[rng.h] <= beaten /\ beaten <= srv.units
    BY <1>a, <1>1 DEF BeatsSound
  <2> HIDE DEF beaten
  <2>3. rng' \in Ranging /\ rng'.pc = "poll" /\ rng'.h = rng.h /\ rng'.beaten = beaten /\ rng'.res = rng.res
    BY <1>a, <2>1 DEF Ranging
  <2>4. RangeTyped'
    BY <1>a, <1>1, <2>3 DEF RangeTyped
  <2>5. LogSound'
    BY <1>a, <2>3 DEF LogSound
  <2>6. BeatsSound'
    BY <1>a, <1>1, <2>2, <2>3 DEF BeatsSound
  <2>7. VerifiedIsThisBlock'
    BY <1>a, <2>3 DEF VerifiedIsThisBlock
  <2> QED
    BY <2>4, <2>5, <2>6, <2>7 DEF RangesInv
<1> QED
  BY <1>3, <1>4 DEF AggregateStatus, Poll

(* The ways out of a run that say nothing of a proof. *)
LEMMA GiveUpKeeps == RangesInv /\ (PollUnreachable \/ OutOfTicks \/ Abort) => RangesInv'
<1> SUFFICES ASSUME RangesInv, PollUnreachable \/ OutOfTicks \/ Abort PROVE RangesInv'
  OBVIOUS
<1>a. /\ RangeTyped /\ LogSound /\ BeatsSound /\ VerifiedIsThisBlock /\ rng.pc = "poll"
      /\ UNCHANGED <<proved, sent, worked>> /\ rng.h \in 1..Blocks /\ rng \in Ranging /\ srv \in Server
      /\ sent \in [1..Blocks -> Nat] /\ rng.gone \in Nat
  BY ServerUpdates DEF RangesInv, PollUnreachable, OutOfTicks, Abort
<1>1. /\ srv' \in {srv, [srv EXCEPT !.holds = 0, !.work = 0]}
      /\ \/ rng' = End("refused") \/ rng' = End("aborted")
         \/ rng' = [rng EXCEPT !.gone = rng.gone + 1] /\ srv' = srv
  BY DEF PollUnreachable, OutOfTicks, Abort, StopServe
<1>2. /\ srv' \in Server /\ srv'.holds <= rng.h
      /\ srv'.verified => srv'.log # 0 /\ srv'.log \in proved
      /\ srv'.log # 0 /\ srv'.log = srv'.holds => srv'.units = srv'.work
  <2> DEFINE s == [srv EXCEPT !.holds = 0, !.work = 0]
  <2>1. s \in Server /\ s.holds = 0 /\ s.verified = srv.verified /\ s.log = srv.log
    <3>1. 0 \in 0..Blocks /\ 0 \in 0..UNITS
      BY Numbers
    <3> QED
      BY <1>a, <3>1 DEF Server
  <2>2. srv' = srv \/ srv' = s
    BY <1>1
  <2> HIDE DEF s
  <2>3. srv.holds <= rng.h /\ 0 <= rng.h /\ (srv.verified => srv.log # 0 /\ srv.log \in proved)
    BY <1>a DEF LogSound
  <2>4. CASE srv' = srv
    BY <1>a, <2>4 DEF LogSound
  <2>5. CASE srv' = s
    BY <1>a, <2>1, <2>3, <2>5
  <2> QED
    BY <2>2, <2>4, <2>5
<1>3. CASE rng' = End("refused") \/ rng' = End("aborted")
  BY <1>a, <1>2, <1>3, EndKeeps
<1>4. CASE rng' = [rng EXCEPT !.gone = rng.gone + 1] /\ srv' = srv
  <2>1. /\ rng' \in Ranging /\ rng'.pc = rng.pc /\ rng'.h = rng.h /\ rng'.beaten = rng.beaten
        /\ rng'.res = rng.res
    BY <1>a, <1>4 DEF Ranging
  <2>2. RangeTyped'
    BY <1>a, <1>4, <2>1 DEF RangeTyped
  <2>3. LogSound'
    BY <1>a, <1>4, <2>1 DEF LogSound
  <2>4. BeatsSound'
    BY <1>a, <1>4, <2>1 DEF BeatsSound
  <2>5. VerifiedIsThisBlock'
    BY <1>a, <2>1 DEF VerifiedIsThisBlock
  <2> QED
    BY <2>2, <2>3, <2>4, <2>5 DEF RangesInv
<1> QED
  BY <1>1, <1>3, <1>4

LEMMA NextBlockKeeps == RangesInv /\ NextBlock => RangesInv'
<1> SUFFICES ASSUME RangesInv, NextBlock PROVE RangesInv'
  OBVIOUS
<1>a. /\ RangeTyped /\ LogSound /\ BeatsSound /\ rng.pc = "ended" /\ rng.h < Blocks
      /\ UNCHANGED <<srv, proved, sent, worked>> /\ rng.h \in 1..Blocks /\ rng \in Ranging /\ srv \in Server
      /\ srv.holds \in 0..Blocks /\ rng' = [rng EXCEPT !.pc = "start", !.h = rng.h + 1, !.res = "none"]
  BY ServerUpdates DEF RangesInv, NextBlock
<1>1. rng.h + 1 \in 1..Blocks
  BY <1>a, Numbers
<1>2. /\ rng' \in Ranging /\ rng'.pc = "start" /\ rng'.h = rng.h + 1 /\ rng'.res = "none"
      /\ rng'.beaten = rng.beaten
  BY <1>a, <1>1 DEF Ranging
<1>3. RangeTyped'
  BY <1>a, <1>2 DEF RangeTyped
<1>4. LogSound'
  BY <1>a, <1>2 DEF LogSound
<1>5. BeatsSound'
  BY <1>a, <1>2 DEF BeatsSound
<1>6. VerifiedIsThisBlock'
  BY <1>2 DEF VerifiedIsThisBlock
<1> QED
  BY <1>3, <1>4, <1>5, <1>6 DEF RangesInv

(* The cards and the driver of the chunks leave the range run alone. *)
LEMMA CardsKeepRanges ==
  ASSUME \/ CardMoves \/ ClearAndLaunch \/ Probe \/ ActStage \/ ActMove \/ EndTick \/ AllStaged \/ Sweep
         \/ SweepOne \/ Aggregate \/ UNCHANGED vars
  PROVE  UNCHANGED rangeVars
<1>1. CardMoves \/ ClearAndLaunch \/ Probe => UNCHANGED rangeVars
  BY DEF CardMoves, ClearAndLaunch, Probe
<1>2. ActStage \/ ActMove => UNCHANGED rangeVars
  BY DEF ActStage, ActMove
<1>3. EndTick \/ AllStaged \/ Sweep \/ SweepOne \/ Aggregate => UNCHANGED rangeVars
  BY DEF EndTick, AllStaged, Sweep, SweepOne, Aggregate
<1>4. UNCHANGED vars => UNCHANGED rangeVars
  BY DEF vars, rangeVars
<1> QED
  BY <1>1, <1>2, <1>3, <1>4

LEMMA RangesNext == RangesInv /\ [Next]_vars => RangesInv'
<1> SUFFICES ASSUME RangesInv, [Next]_vars PROVE RangesInv'
  OBVIOUS
<1>0. ASSUME UNCHANGED rangeVars PROVE RangesInv'
  BY <1>0 DEF rangeVars, RangesInv, RangeTyped, LogSound, BeatsSound, VerifiedIsThisBlock
<1>1. CASE UNCHANGED rangeVars
  BY <1>0, <1>1
<1> QED
  BY <1>1, CardsKeepRanges, ServeKeeps, StartKeeps, PollKeeps, GiveUpKeeps, NextBlockKeeps DEF Next

LEMMA RangesInit == Init => RangesInv
<1> SUFFICES ASSUME Init PROVE RangesInv
  OBVIOUS
<1>1. /\ srv = [holds |-> 0, log |-> 0, units |-> 0, verified |-> FALSE, work |-> 0]
      /\ rng.pc \in {"off", "start"} /\ rng.h = 1 /\ rng.beaten = 0 /\ rng.res = "none"
      /\ proved = {} /\ sent = [h \in 1..Blocks |-> 0] /\ worked = [h \in 1..Blocks |-> 0]
  BY DEF Init
<1>2. srv \in Server
  BY <1>1, Numbers DEF Server
<1>3. rng \in Ranging
  BY Numbers DEF Init, Ranging
<1>4. RangeTyped
  BY <1>1, <1>2, <1>3 DEF RangeTyped
<1> QED
  BY <1>1, <1>4 DEF RangesInv, LogSound, BeatsSound, VerifiedIsThisBlock

LEMMA RangesInvariant == Spec => []RangesInv
  BY RangesInit, RangesNext, PTL DEF Spec

(* A range run that ends well ends with the proof of its own block: the log
   is rotated before the launch, so a word of success in it is of this
   block, whoever else still works on the aggregate. *)
THEOREM OkIsThisBlock == Spec => []VerifiedIsThisBlock
<1>1. RangesInv => VerifiedIsThisBlock
  BY DEF RangesInv
<1> QED
  BY <1>1, RangesInvariant, PTL

(* The work behind the beats: only seg-serve adds to it, one unit at a time,
   and what the log shows never exceeds it. *)
LEMMA WorkNext == WorkInv /\ [Next]_vars => WorkInv'
<1> SUFFICES ASSUME WorkInv, [Next]_vars PROVE WorkSound' /\ BeatsAreEarned'
  BY RangesNext DEF WorkInv
<1>a. /\ RangeTyped /\ LogSound /\ BeatsSound /\ WorkSound /\ BeatsAreEarned
      /\ srv.holds \in 0..Blocks /\ srv.log \in 0..Blocks /\ srv.work \in 0..UNITS /\ srv.units \in 0..UNITS
      /\ rng.h \in 1..Blocks /\ rng.beaten \in 0..UNITS /\ srv \in Server /\ 0 \in 0..UNITS /\ 0 \in 0..Blocks
      /\ sent \in [1..Blocks -> Nat] /\ worked \in [1..Blocks -> Nat]
  BY ServerUpdates, Numbers DEF WorkInv, RangesInv
<1>0. ASSUME UNCHANGED <<sent, worked>>,
             srv'.log = 0 => srv'.units = 0,
             srv'.log # 0 => srv'.units <= worked[srv'.log],
             srv'.holds # 0 => srv'.work <= worked[srv'.holds]
      PROVE  WorkSound' /\ BeatsAreEarned'
  BY <1>a, <1>0 DEF WorkSound, BeatsAreEarned
<1>s. ASSUME UNCHANGED <<sent, worked, srv>> PROVE WorkSound' /\ BeatsAreEarned'
  BY <1>a, <1>s DEF WorkSound, BeatsAreEarned
<1>f. ASSUME UNCHANGED <<sent, worked>>, srv' = [srv EXCEPT !.holds = 0, !.work = 0]
      PROVE  WorkSound' /\ BeatsAreEarned'
  <2>1. srv'.log = srv.log /\ srv'.units = srv.units /\ srv'.holds = 0
    BY <1>a, <1>f DEF Server
  <2> QED
    BY <1>0, <1>a, <1>f, <2>1 DEF WorkSound
<1>1. CASE ServeStep
  <2>1. CASE /\ srv' = [srv EXCEPT !.work = @ + 1, !.units = IF srv.log = srv.holds THEN srv.work + 1 ELSE @]
             /\ worked' = [worked EXCEPT ![srv.holds] = @ + 1] /\ srv.holds # 0 /\ sent' = sent
    <3>1. /\ srv'.work = srv.work + 1 /\ srv'.log = srv.log /\ srv'.holds = srv.holds
          /\ srv'.units = IF srv.log = srv.holds THEN srv.work + 1 ELSE srv.units
      BY <1>a, <2>1 DEF Server
    <3>2. \A h \in 1..Blocks : /\ worked'[h] \in Nat /\ worked[h] \in Nat /\ sent[h] \in Nat
                              /\ worked'[h] = IF h = srv.holds THEN worked[h] + 1 ELSE worked[h]
      BY <1>a, <2>1
    <3>3. srv.holds \in 1..Blocks /\ (srv.log # 0 => srv.log \in 1..Blocks)
      BY <1>a, <2>1
    <3>4. BeatsAreEarned'
      BY <1>a, <2>1, <3>2 DEF BeatsAreEarned
    <3>5. WorkSound'
      BY <1>a, <2>1, <3>1, <3>2, <3>3 DEF WorkSound
    <3> QED
      BY <3>4, <3>5
  <2>2. CASE srv' = [srv EXCEPT !.verified = @ \/ srv.log = srv.holds, !.holds = 0, !.work = 0]
             /\ worked' = worked /\ sent' = sent
    <3>1. srv'.log = srv.log /\ srv'.units = srv.units /\ srv'.holds = 0
      BY <1>a, <2>2 DEF Server
    <3> QED
      BY <1>0, <1>a, <2>2, <3>1 DEF WorkSound
  <2>3. CASE srv' = [srv EXCEPT !.holds = 0, !.work = 0] /\ worked' = worked /\ sent' = sent
    BY <1>f, <2>3
  <2> QED
    BY <1>1, <2>1, <2>2, <2>3 DEF ServeStep
<1>2. CASE StartRange
  <2>1. UNCHANGED <<sent, worked>> /\ (srv' = srv \/ srv' = Launch(rng.h))
    BY <1>2 DEF StartRange
  <2>2. LET s == Launch(rng.h)
        IN  /\ s.units = 0 /\ (s.holds # 0 => s.work <= worked[s.holds]) /\ s.log \in {0, rng.h}
    <3>1. LET s == Launch(rng.h)
          IN  /\ s.units = 0
              /\ srv.holds = 0 => s.holds = rng.h /\ s.log = rng.h /\ s.work = 0
              /\ srv.holds # 0 => s.holds = srv.holds /\ s.log = 0 /\ s.work = srv.work
      BY <1>a, Launched_
    <3>2. worked[rng.h] >= 0
      BY <1>a
    <3> QED
      BY <1>a, <3>1, <3>2 DEF WorkSound
  <2>3. worked[rng.h] >= 0
    BY <1>a
  <2>4. CASE srv' = Launch(rng.h)
    BY <1>0, <1>a, <2>1, <2>2, <2>3, <2>4
  <2> QED
    BY <1>s, <2>1, <2>4
<1>3. CASE Poll
  <2>1. UNCHANGED <<srv, worked>> /\ rng.pc = "poll" /\ WorkSound'
    BY <1>3, <1>a DEF Poll, WorkSound
  <2>2. sent' = sent \/ (srv.units > rng.beaten /\ sent' = [sent EXCEPT ![rng.h] = sent[rng.h] + 1])
    BY <1>3 DEF AggregateStatus, Poll, Rose
  <2>3. CASE srv.units > rng.beaten /\ sent' = [sent EXCEPT ![rng.h] = sent[rng.h] + 1]
    <3>1. srv.log = rng.h
      BY <1>a, <2>1, <2>3 DEF LogSound, WorkSound
    <3>2. srv.units <= worked[rng.h] /\ sent[rng.h] <= rng.beaten
      BY <1>a, <2>1, <3>1 DEF WorkSound, BeatsSound
    <3>3. \A h \in 1..Blocks : sent'[h] = IF h = rng.h THEN sent[h] + 1 ELSE sent[h]
      BY <1>a, <2>3
    <3>4. \A h \in 1..Blocks : worked[h] \in Nat /\ sent[h] \in Nat
      BY <1>a
    <3> QED
      BY <1>a, <2>1, <2>3, <3>2, <3>3, <3>4 DEF BeatsAreEarned
  <2> QED
    BY <1>s, <2>1, <2>2, <2>3
<1>4. CASE PollUnreachable \/ OutOfTicks \/ NextBlock
  BY <1>4, <1>s DEF PollUnreachable, OutOfTicks, NextBlock
<1>5. CASE Abort
  BY <1>5, <1>f, <1>s DEF Abort, StopServe
<1>6. CASE UNCHANGED rangeVars
  BY <1>6, <1>s DEF rangeVars
<1> QED
  BY <1>1, <1>2, <1>3, <1>4, <1>5, <1>6, CardsKeepRanges DEF Next

(* A claim is kept alive only by work: each beat is for progress that no
   earlier beat was sent for, and that progress is this block's, whoever
   holds the port. *)
THEOREM BeatsEarned == Spec => []BeatsAreEarned
<1>1. Init => WorkSound /\ BeatsAreEarned
  <2> SUFFICES ASSUME Init PROVE WorkSound /\ BeatsAreEarned
    OBVIOUS
  <2>1. srv = [holds |-> 0, log |-> 0, units |-> 0, verified |-> FALSE, work |-> 0]
    BY DEF Init
  <2>2. \A h \in 1..Blocks : sent[h] = 0 /\ worked[h] = 0
    BY DEF Init
  <2> QED
    BY <2>1, <2>2 DEF WorkSound, BeatsAreEarned
<1>2. Init => RangesInv
  BY RangesInit
<1>3. WorkInv => BeatsAreEarned
  BY DEF WorkInv
<1>4. Init => WorkInv
  BY <1>1, <1>2 DEF WorkInv
<1> QED
  BY <1>3, <1>4, WorkNext, PTL DEF Spec

=============================================================================
