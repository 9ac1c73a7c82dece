------------------------------- MODULE Rental -------------------------------
(***************************************************************************)
(* What a tip run rents and who releases it (coordinator/tip_smoke.py,     *)
(* tip_recruit.py, sponsor_bot.terminate_confirmed): the rent phase, the   *)
(* gates before the clock, growth during the session, the teardown in the  *)
(* finally, and --cleanup after a driver that died.                        *)
(*                                                                         *)
(* Three things know a pod: the driver's lists (got, created, order), the  *)
(* recruiter thread's (recruited, ready, the gate threads), and two files, *)
(* rented.json and recruited.json, which are all a killed driver leaves.   *)
(* A pod bills while RunPod lists it. The driver, the recruiter thread and *)
(* its gate threads interleave; the driver may be interrupted by an        *)
(* exception or SIGTERM at any step of its try block, and killed anywhere. *)
(***************************************************************************)
EXTENDS Integers, FiniteSets, FiniteSetsExt

CONSTANTS
  CARDS, SPARES, MIN_CARDS,  \* --cards, --spares, --min-cards
  NTypes,                    \* how many card types may be tried
  MAX_PARALLEL,              \* --gate-parallel
  Targets,                   \* what --grow-to and later the operator ask for
  Options,                   \* the command lines
  MaxPods,                   \* bound: pods this run is granted
  MaxStuck                   \* bound: terminates RunPod does not carry out

Want == CARDS + SPARES

ASSUME RentalAssumption ==
  /\ {CARDS, MIN_CARDS, NTypes, MAX_PARALLEL} \subseteq Nat \ {0} /\ MIN_CARDS <= CARDS
  /\ {SPARES, MaxPods, MaxStuck} \subseteq Nat
  /\ Targets \subseteq Nat /\ Targets # {}
  /\ Options \subseteq [adopt : BOOLEAN, release_adopted : BOOLEAN, keep : BOOLEAN, grow : BOOLEAN]

VARIABLES
  live,       \* the pods RunPod lists, and bills
  granted,    \* how many pods this run has been granted
  opt,        \* the command line
  drv,        \* the driver: pc and its locals
  rented,     \* rented.json
  recruited,  \* recruited.json
  rec,        \* the recruiter: its thread, its gate threads, its queue
  stuck       \* pods a terminate was tried on and that RunPod still lists

vars == <<live, granted, opt, drv, rented, recruited, rec, stuck>>

(* A pod some other session rented; it has no name of ours. *)
Foreign == {[id |-> 0, name |-> 0]}

(* What the earlier run's record names, for a run that adopts it. *)
OldRecord == {[id |-> MaxPods + i, name |-> i] : i \in 1..Want}

NoFile == [st |-> "none", pods |-> {}]

Torn == [st |-> "torn", pods |-> {}]

File(S) == [st |-> "ok", pods |-> S]

NoPod == [id |-> -1, name |-> 0]

Init ==
  /\ opt \in Options
  /\ live \in IF opt.adopt THEN {Foreign \cup S : S \in SUBSET OldRecord} ELSE {Foreign}
  /\ granted = 0
  /\ drv = [pc |-> IF opt.adopt THEN "adopt" ELSE "rent", type |-> 1, got |-> {}, out |-> {},
            then |-> "none", created |-> {}, order |-> {}, agg |-> NoPod, joined |-> {},
            cut |-> {}, swept |-> {}]
  /\ rented = NoFile /\ recruited = NoFile
  /\ rec = [pc |-> "off", n |-> 0, target |-> 0, stop |-> FALSE, list |-> {}, hand |-> NoPod,
            gates |-> {}, passed |-> {}, failed |-> {}, ready |-> {}]
  /\ stuck = {}

Adopted == opt.adopt /\ ~opt.release_adopted

Trying == drv.pc \notin {"stop", "drain", "orphans", "release", "done", "killed", "cleaned"}

Alive == drv.pc \notin {"done", "killed", "cleaned"}

-----------------------------------------------------------------------------
(* RunPod and the two helpers the whole run uses.                          *)

(* deploy_listening: a fresh pod under the asked name. *)
Deploy(name) == [id |-> granted + 1, name |-> name]

Grant(p) ==
  /\ granted < MaxPods
  /\ granted' = granted + 1
  /\ live' = live \cup {p}

(* terminate_confirmed on each pod of S: podTerminate until RunPod no longer
   lists it, and False, which no caller but the log reads, when it still
   does after every try. *)
TerminateConfirmed(S) ==
  \E still \in SUBSET (S \cap live) :
    /\ Cardinality(stuck \cup still) <= MaxStuck
    /\ live' = live \ (S \ still)
    /\ stuck' = (stuck \ S) \cup still

(* json.dump(pods, open(path, "w")): the file is truncated, then written. *)
Write(d, pods, next) == [d EXCEPT !.pc = "open", !.out = pods, !.then = next]

OpenRecord ==
  /\ drv.pc = "open"
  /\ rented' = Torn
  /\ drv' = [drv EXCEPT !.pc = "dump"]
  /\ UNCHANGED <<live, granted, opt, recruited, rec, stuck>>

DumpRecord ==
  /\ drv.pc = "dump"
  /\ rented' = File(drv.out)
  /\ drv' = [drv EXCEPT !.pc = drv.then, !.out = {}, !.then = "none"]
  /\ UNCHANGED <<live, granted, opt, recruited, rec, stuck>>

(* An exception, SystemExit or SIGTERM leaves the try block for the finally. *)
Exit(d) == [d EXCEPT !.pc = "stop", !.then = "none", !.joined = {}, !.agg = NoPod, !.cut = {}, !.order = {}]

Interrupt ==
  /\ Trying
  /\ drv' = Exit(drv)
  /\ UNCHANGED <<live, granted, opt, rented, recruited, rec, stuck>>

-----------------------------------------------------------------------------
(* The rent phase.                                                         *)

(* adopt_fleet: of the recorded pods, the ones still listed. *)
AdoptFleet == OldRecord \cap live

Adopt ==
  /\ drv.pc = "adopt"
  /\ drv' = IF Cardinality(AdoptFleet) < MIN_CARDS THEN Exit(drv)
            ELSE Write([drv EXCEPT !.created = AdoptFleet], AdoptFleet, "ssh")
  /\ UNCHANGED <<live, granted, opt, rented, recruited, rec, stuck>>

NextType(d) ==
  IF d.type < NTypes THEN [d EXCEPT !.type = @ + 1, !.got = {}, !.pc = "rent"]
                     ELSE [d EXCEPT !.got = {}, !.pc = "mix"]

(* rent_uniform: one type for the whole fleet. Each pod is recorded when it
   exists. *)
RentUniform ==
  /\ drv.pc = "rent" /\ Cardinality(drv.got) < Want
  /\ LET p == Deploy(Cardinality(drv.got) + 1)
     IN  /\ Grant(p)
         /\ drv' = Write([drv EXCEPT !.got = @ \cup {p}], drv.got \cup {p}, "rent")
  /\ UNCHANGED <<opt, rented, recruited, rec, stuck>>

(* No more of this type. A type that fields the target is the fleet; *)
TypeFields ==
  /\ drv.pc = "rent" /\ Cardinality(drv.got) >= CARDS
  /\ drv' = [drv EXCEPT !.created = drv.got, !.got = {}, !.pc = "ssh"]
  /\ UNCHANGED <<live, granted, opt, rented, recruited, rec, stuck>>

(* one that falls short is released and its record emptied. *)
TypeFallsShort ==
  /\ drv.pc = "rent" /\ Cardinality(drv.got) < CARDS
  /\ TerminateConfirmed(drv.got)
  /\ drv' = IF drv.got = {} THEN NextType(drv) ELSE Write(NextType(drv), {}, NextType(drv).pc)
  /\ UNCHANGED <<granted, opt, rented, recruited, rec>>

(* No type fields it: any card will do. *)
RentMixed ==
  /\ drv.pc = "mix" /\ Cardinality(drv.created) < Want
  /\ LET p == Deploy(Cardinality(drv.created) + 1)
     IN  /\ Grant(p)
         /\ drv' = Write([drv EXCEPT !.created = @ \cup {p}], drv.created \cup {p}, "mix")
  /\ UNCHANGED <<opt, rented, recruited, rec, stuck>>

EndMixed ==
  /\ drv.pc = "mix"
  /\ drv' = IF Cardinality(drv.created) >= MIN_CARDS THEN [drv EXCEPT !.pc = "ssh"] ELSE Exit(drv)
  /\ UNCHANGED <<live, granted, opt, rented, recruited, rec, stuck>>

-----------------------------------------------------------------------------
(* The gates before the clock: each drops the cards that fail it.          *)

(* Fault: every dropped pod is released, as before adopted fleets were kept. *)
ReleaseAlways(S) == TerminateConfirmed(S)

(* _release_pod, for each dropped pod. *)
ReleasePod(S) == IF Adopted THEN UNCHANGED <<live, stuck>> ELSE TerminateConfirmed(S)

(* _drop_cards: release, write the record without them, carry on. *)
DropCards(d, bad, next) ==
  IF bad = {} THEN [d EXCEPT !.pc = next]
  ELSE Write([d EXCEPT !.order = @ \ bad, !.created = @ \ bad], d.created \ bad, next)

Gate(at, bad, next) ==
  /\ drv.pc = at
  /\ ReleasePod(bad)
  /\ drv' = DropCards(drv, bad, next)
  /\ UNCHANGED <<granted, opt, rented, recruited, rec>>

(* wait_for_ssh: the pods that answered when it stopped waiting. *)
Answering(pods) == SUBSET pods

(* A pod that never answers is dead weight. *)
SshGate ==
  /\ drv.pc = "ssh"
  /\ \E up \in Answering(drv.created) :
       IF Cardinality(up) < MIN_CARDS
         THEN drv' = Exit(drv) /\ UNCHANGED <<live, stuck>>
         ELSE /\ ReleasePod(drv.created \ up)
              /\ drv' = DropCards([drv EXCEPT !.order = up], drv.created \ up, "link")
  /\ UNCHANGED <<granted, opt, rented, recruited, rec>>

(* slow_worker_cut: the slowest links go until the fleet is the target. *)
SlowWorkerCut(workers, n) ==
  {S \in SUBSET workers : Cardinality(S) = IF n > CARDS THEN n - CARDS ELSE 0}

(* Elect the aggregate on its links, then cut the slowest workers. *)
LinkGate ==
  /\ drv.pc = "link"
  /\ \E a \in drv.order : \E cut \in SlowWorkerCut(drv.order \ {a}, Cardinality(drv.order)) :
       /\ ReleasePod(cut)
       /\ drv' = DropCards([drv EXCEPT !.agg = a, !.cut = cut], cut, "reach")
  /\ UNCHANGED <<granted, opt, rented, recruited, rec>>

(* One card is not a fleet: the reachability and GPU gates give up there. *)
UnlessAlone(bad, next) == IF bad # {} /\ Cardinality(drv.order \ bad) < 2 THEN "stop" ELSE next

(* check_reachability: workers that cannot open the aggregate's port. *)
Unreachable(order) == SUBSET (order \ {drv.agg})

ReachGate ==
  \E bad \in Unreachable(drv.order) : Gate("reach", bad, UnlessAlone(bad, "stage"))

(* prepare: cards that could not be staged. *)
Unstaged(order) == SUBSET order

StageGate == \E bad \in Unstaged(drv.order) : Gate("stage", bad, "fetch")

(* FetchFleet: a slow card is cut loose only when enough others are done,
   and never the aggregate. *)
MayAbandon(order, slow) ==
  slow = {} \/ (drv.agg \notin slow /\ Cardinality(order \ slow) >= MIN_CARDS)

(* fetch_binary, on every card at once: downloads that stalled or ran into
   the ceiling, and the slow ones the fleet could do without. *)
Unfetched(order) ==
  {x[1] \cup x[2] : x \in {y \in (SUBSET order) \X (SUBSET order) : MayAbandon(order \ y[1], y[2])}}

FetchGate == \E bad \in Unfetched(drv.order) : Gate("fetch", bad, "gpu")

(* gpu_smoke: cards that answered and cannot prove. *)
Duds(order) == SUBSET order

GpuGate == \E bad \in Duds(drv.order) : Gate("gpu", bad, UnlessAlone(bad, "choose"))

Enough == drv.agg \in drv.order /\ Cardinality(drv.order) >= MIN_CARDS

(* After every gate: is the aggregate still there, and are there enough?
   (The surplus cut that follows finds nothing: the link gate left CARDS.) *)
Choose ==
  /\ drv.pc = "choose"
  /\ drv' = IF Enough THEN [drv EXCEPT !.pc = "session", !.cut = {}] ELSE [drv EXCEPT !.pc = "stop"]
  /\ rec' = IF Enough /\ opt.grow THEN [rec EXCEPT !.pc = "sleep", !.target = Max(Targets)] ELSE rec
  /\ UNCHANGED <<live, granted, opt, rented, recruited, stuck>>

-----------------------------------------------------------------------------
(* The session: grow_fn between two blocks, then the end of the run.       *)

GrowDrain ==
  /\ drv.pc = "session" /\ rec.ready # {}
  /\ drv' = [drv EXCEPT !.pc = "grow", !.joined = rec.ready]
  /\ rec' = [rec EXCEPT !.ready = {}]
  /\ UNCHANGED <<live, granted, opt, rented, recruited, stuck>>

GrowAdmit ==
  /\ drv.pc = "grow"
  /\ drv' = Write([drv EXCEPT !.order = @ \cup drv.joined, !.created = @ \cup drv.joined, !.joined = {}],
                  drv.created \cup drv.joined, "session")
  /\ UNCHANGED <<live, granted, opt, rented, recruited, rec, stuck>>

SessionOver ==
  /\ drv.pc = "session"
  /\ drv' = Exit(drv)
  /\ UNCHANGED <<live, granted, opt, rented, recruited, rec, stuck>>

-----------------------------------------------------------------------------
(* The recruiter's thread, and one gate thread per recruit.                *)

Recruiting == Alive /\ rec.pc # "off"

Wanted(have, pending, ready, target) ==
  Max({0, target - have - pending - ready})

(* _tick: read the target, then the counts. *)
Tick ==
  /\ Recruiting /\ rec.pc = "sleep" /\ ~rec.stop
  /\ \E t \in Targets :
       LET need == Wanted(Cardinality(drv.order), Cardinality(rec.gates), Cardinality(rec.ready), t)
           n == Min({need, Max({0, MAX_PARALLEL - Cardinality(rec.gates)})})
       IN  /\ n > 0
           /\ rec' = [rec EXCEPT !.target = t, !.n = n, !.pc = "rent"]
  /\ UNCHANGED <<live, granted, opt, drv, rented, recruited, stuck>>

(* _recruit_rent: deploy; the pod is in nobody's list until it is appended, *)
RecruitRent ==
  /\ Recruiting /\ rec.pc = "rent"
  /\ LET p == Deploy(Want + granted + 1)
     IN  /\ Grant(p)
         /\ rec' = [rec EXCEPT !.pc = "append", !.hand = p]
  /\ UNCHANGED <<opt, drv, rented, recruited, stuck>>

NoCapacity ==
  /\ Recruiting /\ rec.pc = "rent"
  /\ rec' = [rec EXCEPT !.pc = "sleep", !.n = 0]
  /\ UNCHANGED <<live, granted, opt, drv, rented, recruited, stuck>>

(* and is recorded in a file of its own. *)
RecruitAppend ==
  /\ Recruiting /\ rec.pc = "append"
  /\ rec' = [rec EXCEPT !.list = @ \cup {rec.hand}, !.pc = "open"]
  /\ UNCHANGED <<live, granted, opt, drv, rented, recruited, stuck>>

RecruitOpen ==
  /\ Recruiting /\ rec.pc = "open"
  /\ recruited' = Torn
  /\ rec' = [rec EXCEPT !.pc = "dump"]
  /\ UNCHANGED <<live, granted, opt, drv, rented, stuck>>

(* Fault: the file holds the newest recruit only. *)
NewestOnly == {rec.hand}

RecruitRecord == rec.list

(* The dump, and the gate thread it goes on to start. *)
RecruitDump ==
  /\ Recruiting /\ rec.pc = "dump"
  /\ recruited' = File(RecruitRecord)
  /\ rec' = [rec EXCEPT !.gates = @ \cup {rec.hand}, !.hand = NoPod, !.n = @ - 1,
                        !.pc = IF rec.n > 1 THEN "rent" ELSE "sleep"]
  /\ UNCHANGED <<live, granted, opt, drv, rented, stuck>>

(* _gate_one: the verdict takes the recruit out of pending, a later section
   of the lock puts it among the ready ones; a failure is released. *)
GateEnds ==
  /\ Recruiting
  /\ \E p \in rec.gates :
       \/ rec' = [rec EXCEPT !.gates = @ \ {p}, !.passed = @ \cup {p}]
       \/ rec' = [rec EXCEPT !.gates = @ \ {p}, !.failed = @ \cup {p}]
  /\ UNCHANGED <<live, granted, opt, drv, rented, recruited, stuck>>

ReadyAppend ==
  /\ Recruiting
  /\ \E p \in rec.passed : rec' = [rec EXCEPT !.passed = @ \ {p}, !.ready = @ \cup {p}]
  /\ UNCHANGED <<live, granted, opt, drv, rented, recruited, stuck>>

Reject ==
  /\ Recruiting
  /\ \E p \in rec.failed : rec' = [rec EXCEPT !.failed = @ \ {p}] /\ TerminateConfirmed({p})
  /\ UNCHANGED <<granted, opt, drv, rented, recruited>>

-----------------------------------------------------------------------------
(* The finally, and --cleanup.                                             *)

(* Recruiter.stop: the event; the join gives up after five seconds, *)
StopRecruiter ==
  /\ drv.pc = "stop"
  /\ rec' = [rec EXCEPT !.stop = TRUE]
  /\ drv' = [drv EXCEPT !.pc = "drain"]
  /\ UNCHANGED <<live, granted, opt, rented, recruited, stuck>>

(* then whatever is ready is released. *)
StopDrain ==
  /\ drv.pc = "drain"
  /\ TerminateConfirmed(rec.ready)
  /\ rec' = [rec EXCEPT !.ready = {}]
  /\ drv' = [drv EXCEPT !.pc = "orphans"]
  /\ UNCHANGED <<granted, opt, rented, recruited>>

(* Fault: only recruits the session saw are looked for. *)
NoOrphans == {}

OrphanRecruits == rec.list \ drv.created

(* Recruits that never joined. (Billing and harvest come between.) *)
ReleaseOrphans ==
  /\ drv.pc = "orphans"
  /\ TerminateConfirmed(OrphanRecruits)
  /\ drv' = [drv EXCEPT !.pc = "release", !.swept = rec.list]
  /\ UNCHANGED <<granted, opt, rented, recruited, rec>>

LeftRunning == opt.keep \/ Adopted

NamesOf(S) == {p.name : p \in S}

(* The fleet, whatever happened; the record goes when none of its names is
   listed any more. *)
ReleaseFleet ==
  /\ drv.pc = "release"
  /\ IF LeftRunning THEN UNCHANGED <<live, stuck>> ELSE TerminateConfirmed(drv.created)
  /\ rented' = IF ~LeftRunning /\ NamesOf(live') \cap NamesOf(drv.created) = {} THEN NoFile ELSE rented
  /\ drv' = [drv EXCEPT !.pc = "done"]
  /\ UNCHANGED <<granted, opt, recruited, rec>>

(* SIGKILL, or the host reboots. *)
Kill ==
  /\ Alive
  /\ drv' = [drv EXCEPT !.pc = "killed"]
  /\ UNCHANGED <<live, granted, opt, rented, recruited, rec, stuck>>

(* Fault: cleanup reads rented.json and nothing else. *)
OneRecord == rented.pods

BothRecords == rented.pods \cup recruited.pods

(* cleanup: everything either record names and no other pod. The records go
   when none of it is left; otherwise it can be run again. *)
Cleanup ==
  /\ drv.pc \in {"killed", "done"}
  /\ TerminateConfirmed(BothRecords)
  /\ IF BothRecords # {} /\ BothRecords \cap live' = {}
       THEN rented' = NoFile /\ recruited' = NoFile
       ELSE UNCHANGED <<rented, recruited>>
  /\ drv' = [drv EXCEPT !.pc = IF BothRecords \cap live' = {} THEN "cleaned" ELSE "killed",
                        !.then = IF Torn \in {rented, recruited} THEN "torn" ELSE @]
  /\ UNCHANGED <<granted, opt, rec>>

Driver ==
  \/ OpenRecord \/ DumpRecord \/ Interrupt \/ Adopt \/ RentUniform \/ TypeFields \/ TypeFallsShort
  \/ RentMixed \/ EndMixed \/ SshGate \/ LinkGate \/ ReachGate \/ StageGate \/ FetchGate \/ GpuGate \/ Choose
  \/ GrowDrain \/ GrowAdmit \/ SessionOver
  \/ StopRecruiter \/ StopDrain \/ ReleaseOrphans \/ ReleaseFleet

RecruiterThread ==
  \/ Tick \/ RecruitRent \/ NoCapacity \/ RecruitAppend \/ RecruitOpen \/ RecruitDump
  \/ GateEnds \/ ReadyAppend \/ Reject

Next == Driver \/ RecruiterThread \/ Kill \/ Cleanup

Spec == Init /\ [][Next]_vars

-----------------------------------------------------------------------------
(* Pods whose record is not written yet: the write is under way, or the
   recruit was granted and not yet dumped. *)
InHand == drv.out \cup ({rec.hand} \ {NoPod})

(* Pods of a renting that an exception cut short: they are in a local list
   of rent_uniform, and the teardown looks at created. *)
Forgotten == drv.got \ drv.created

Ours == live \ (Foreign \cup OldRecord)

(* There is no budget cap, so a pod no record names bills until the invoice:
   in every state, and so wherever the driver is killed, the two records
   together name every pod this run rented that still bills, but for one
   whose terminate was not carried out, one of an interrupted rent_uniform,
   and one whose record was just being written. *)
KillIsRecoverable ==
  (Torn \notin {rented, recruited} /\ drv.pc # "cleaned")
    => Ours \subseteq rented.pods \cup recruited.pods \cup stuck \cup InHand \cup Forgotten

(* What --cleanup says it does (tip_smoke.py, cleanup): when it reports the
   account clean and the records were whole, nothing this run rented bills,
   with the same exceptions. *)
CleanupFindsAll ==
  (drv.pc = "cleaned" /\ drv.then # "torn") => Ours \subseteq stuck \cup InHand \cup Forgotten

(* The finally releases every recruit, whichever list it was in when the run
   ended, but for one rented after the recruits were swept; those
   recruited.json names as soon as it is written. *)
TeardownReleases ==
  (drv.pc = "done" /\ ~opt.keep /\ ~opt.adopt)
    => Ours \subseteq stuck \cup Forgotten \cup ((rec.list \cup InHand) \ drv.swept)

(* --adopt promises that the fleet outlives the run: no gate, no cut and no
   teardown of a run without --release-adopted terminates an adopted pod. *)
AdoptedOutlives ==
  [][Adopted /\ drv.pc # "killed" /\ drv.pc # "done" => OldRecord \cap live \subseteq live']_vars
=============================================================================
