---------------------------- MODULE RentalProofs ----------------------------
(***************************************************************************)
(* Proofs about Rental: for every fleet size, every list of card types and  *)
(* every command line, a pod that bills is named by one of the two records  *)
(* wherever the driver is killed, --cleanup finds it, the teardown releases *)
(* every recruit, and an adopted fleet outlives the run.                    *)
(***************************************************************************)
EXTENDS Rental, TLAPS, FiniteSetTheorems

-----------------------------------------------------------------------------
(* Types.                                                                  *)

Pod == [id : Int, name : Int]

Gates == {"ssh", "link", "reach", "stage", "fetch", "gpu", "choose"}

DriverPc ==
  {"adopt", "rent", "mix", "open", "dump", "session", "grow", "stop", "drain", "orphans", "release",
   "done", "killed", "cleaned"} \cup Gates

Driving ==
  [pc : DriverPc, type : Int, got : SUBSET Pod, out : SUBSET Pod, then : DriverPc \cup {"none", "torn"},
   created : SUBSET Pod, order : SUBSET Pod, agg : Pod, joined : SUBSET Pod, cut : SUBSET Pod,
   swept : SUBSET Pod]

(* How many are wanted, and up to how many, is only counted. *)
Recruiter ==
  [pc : {"off", "sleep", "rent", "append", "open", "dump"}, n : {rec.n}, target : {rec.target},
   stop : BOOLEAN, list : SUBSET Pod, hand : Pod, gates : SUBSET Pod, passed : SUBSET Pod,
   failed : SUBSET Pod, ready : SUBSET Pod]

Files == [st : {"none", "torn", "ok"}, pods : SUBSET Pod]

RentalTyped ==
  /\ live \in SUBSET Pod /\ stuck \in SUBSET Pod
  /\ granted \in 0..MaxPods
  /\ opt \in Options
  /\ drv \in Driving
  /\ rented \in Files /\ recruited \in Files
  /\ rec \in Recruiter

(* RunPod never gives an id twice, so a recruit is no pod of the record that
   is adopted, a new pod is in no list, and none was swept before it existed. *)
OfThisRun(p) == p.id \in 1..granted

InGates == rec.gates \cup rec.passed \cup rec.failed \cup rec.ready

IdsSound ==
  /\ \A p \in live : p.id >= 0
  /\ \A p \in rec.list \cup InGates \cup drv.swept : OfThisRun(p)
  /\ \A p \in drv.got \cup drv.created \cup drv.joined : OfThisRun(p) \/ p \in OldRecord
  /\ IF rec.pc \in {"append", "open", "dump"} THEN OfThisRun(rec.hand) ELSE rec.hand = NoPod

-----------------------------------------------------------------------------
(* The invariants.                                                         *)

(* Where the driver is, the writing of a record included. *)
Phase == IF drv.pc \in {"open", "dump"} THEN drv.then ELSE drv.pc

PhaseSound ==
  /\ drv.pc \in {"open", "dump"} => drv.then \in {"rent", "mix", "session", "stop"} \cup Gates
  /\ drv.got = {} \/ drv.created = {}
  /\ Phase \in {"adopt", "rent"} => drv.created = {}
  /\ Phase \in {"adopt", "mix", "session", "grow"} \cup Gates => drv.got = {}
  /\ Phase = "mix" => IsFiniteSet(drv.created)
  /\ IsFiniteSet(drv.got)
  /\ Phase \in {"adopt", "rent", "mix"} \cup Gates => rec.pc = "off"
  /\ opt.adopt => Phase \notin {"rent", "mix"}
  /\ Adopted /\ Phase \in Gates => drv.created \subseteq OldRecord

(* rented.json names the fleet, or will when the write under way is done. *)
RentedSound ==
  /\ drv.pc = "rent" => rented # Torn /\ drv.got \subseteq rented.pods
  /\ drv.pc \in {"open", "dump"} => drv.got \cup drv.created \subseteq drv.out
  /\ rented # Torn /\ drv.pc # "cleaned" =>
       drv.created \cap live \subseteq stuck \cup rented.pods \cup drv.out

(* recruited.json names every recruit but the one being written. *)
RecruitedSound ==
  /\ rec.pc \in {"open", "dump"} => rec.hand \in rec.list
  /\ rec.pc = "dump" /\ drv.pc # "cleaned" => recruited = Torn
  /\ recruited # Torn /\ drv.pc # "cleaned" =>
       rec.list \subseteq recruited.pods \cup (IF rec.pc = "open" THEN {rec.hand} ELSE {})

(* Every pod of this run that bills is in somebody's list, and after the
   sweep every recruit that bills came later. *)
Billing ==
  /\ Ours \subseteq stuck \cup drv.got \cup drv.created \cup rec.list \cup {rec.hand}
  /\ drv.pc = "release" =>
       Ours \subseteq stuck \cup drv.got \cup drv.created \cup ((rec.list \cup {rec.hand}) \ drv.swept)

RentalInv ==
  /\ RentalTyped /\ IdsSound /\ PhaseSound /\ RentedSound /\ RecruitedSound /\ Billing
  /\ CleanupFindsAll /\ TeardownReleases

-----------------------------------------------------------------------------
(* What the helpers of the run do.                                         *)

LEMMA Bounds ==
  /\ Want \in Nat /\ MaxPods \in Nat /\ Targets \subseteq Nat
  /\ NoPod \in Pod /\ NoPod.id = -1 /\ OldRecord \subseteq Pod
  /\ \A p \in OldRecord : p.id > MaxPods
  /\ NoFile \in Files /\ Torn \in Files /\ NoFile # Torn /\ NoFile.pods = {}
  /\ \A S \in SUBSET Pod : File(S) \in Files /\ File(S) # Torn /\ File(S).pods = S
  /\ \A f \in Files : f.pods \in SUBSET Pod
<1>1. Want \in Nat /\ MaxPods \in Nat /\ Targets \subseteq Nat
  BY RentalAssumption DEF Want
<1>2. NoPod \in Pod /\ NoPod.id = -1
  BY DEF NoPod, Pod
<1>3. OldRecord \subseteq Pod /\ \A p \in OldRecord : p.id > MaxPods
  BY <1>1 DEF OldRecord, Pod
<1>4. NoFile \in Files /\ Torn \in Files /\ NoFile # Torn /\ NoFile.pods = {}
  BY DEF NoFile, Torn, Files
<1>5. \A S \in SUBSET Pod : File(S) \in Files /\ File(S) # Torn /\ File(S).pods = S
  BY DEF File, Torn, Files
<1>6. \A f \in Files : f.pods \in SUBSET Pod
  BY DEF Files
<1> QED
  BY <1>1, <1>2, <1>3, <1>4, <1>5, <1>6

(* Nothing new bills, and what could not be ended stays noted. *)
Calm ==
  /\ live' \subseteq live
  /\ live' \cap stuck \subseteq stuck'
  /\ stuck' \subseteq stuck \cup live

(* terminate_confirmed: what it was asked to end is gone or noted, and *)
(* nothing else is touched.                                            *)
LEMMA Terminated ==
  ASSUME NEW S, TerminateConfirmed(S)
  PROVE  Calm /\ live' \cap S \subseteq stuck' /\ live \ S \subseteq live'
  BY DEF TerminateConfirmed, Calm

LEMMA Released ==
  ASSUME NEW S, ReleasePod(S)
  PROVE  /\ Calm
         /\ ~Adopted => live' \cap S \subseteq stuck'
         /\ Adopted => live' = live
  BY Terminated DEF ReleasePod, Calm

LEMMA WriteIs ==
  ASSUME NEW d \in Driving, NEW pods \in SUBSET Pod, NEW next \in DriverPc
  PROVE  /\ Write(d, pods, next) \in Driving
         /\ Write(d, pods, next).pc = "open" /\ Write(d, pods, next).then = next
         /\ Write(d, pods, next).out = pods
         /\ Write(d, pods, next).got = d.got /\ Write(d, pods, next).created = d.created
         /\ Write(d, pods, next).swept = d.swept /\ Write(d, pods, next).joined = d.joined
<1>1. "open" \in DriverPc
  BY DEF DriverPc
<1> QED
  BY <1>1 DEF Write, Driving

LEMMA ExitIs ==
  ASSUME NEW d \in Driving
  PROVE  /\ Exit(d) \in Driving /\ Exit(d).pc = "stop" /\ Exit(d).then = "none"
         /\ Exit(d).out = d.out /\ Exit(d).got = d.got /\ Exit(d).created = d.created
         /\ Exit(d).swept = d.swept /\ Exit(d).joined = {}
<1>1. "stop" \in DriverPc /\ NoPod \in Pod
  BY Bounds DEF DriverPc
<1> QED
  BY <1>1 DEF Exit, Driving

LEMMA DropIs ==
  ASSUME NEW d \in Driving, NEW bad, NEW next \in DriverPc
  PROVE  /\ DropCards(d, bad, next) \in Driving
         /\ DropCards(d, bad, next).got = d.got /\ DropCards(d, bad, next).swept = d.swept
         /\ DropCards(d, bad, next).created = d.created \ bad
         /\ DropCards(d, bad, next).joined = d.joined
         /\ \/ /\ bad = {} /\ DropCards(d, bad, next).pc = next
               /\ DropCards(d, bad, next).out = d.out
            \/ /\ DropCards(d, bad, next).pc = "open" /\ DropCards(d, bad, next).then = next
               /\ DropCards(d, bad, next).out = d.created \ bad
<1>1. CASE bad = {}
  <2>1. DropCards(d, bad, next) = [d EXCEPT !.pc = next] /\ d.created \ bad = d.created
    BY <1>1 DEF DropCards
  <2> QED
    BY <1>1, <2>1 DEF Driving
<1>2. CASE bad # {}
  <2> DEFINE e == [d EXCEPT !.order = d.order \ bad, !.created = d.created \ bad]
  <2>1. d.order \ bad \in SUBSET Pod /\ d.created \ bad \in SUBSET Pod
    BY DEF Driving
  <2>2. e \in Driving /\ e.created = d.created \ bad /\ e.got = d.got /\ e.swept = d.swept /\ e.joined = d.joined
    BY <2>1 DEF Driving
  <2>3. DropCards(d, bad, next) = Write(e, d.created \ bad, next)
    BY <1>2 DEF DropCards
  <2> HIDE DEF e
  <2> QED
    BY <2>1, <2>2, <2>3, WriteIs
<1> QED
  BY <1>1, <1>2

(* What a gate does: it gives up, or drops some cards and carries on. *)
GivesUp ==
  /\ drv'.pc = "stop" /\ drv'.created = drv.created /\ drv'.out = drv.out
  /\ UNCHANGED <<live, stuck>>

Drops ==
  \E bad, next :
    /\ next \in Gates \cup {"stop"}
    /\ ReleasePod(bad)
    /\ drv'.created = drv.created \ bad
    /\ \/ bad = {} /\ drv'.pc = next /\ drv'.out = drv.out
       \/ drv'.pc = "open" /\ drv'.then = next /\ drv'.out = drv.created \ bad

AnyGate == SshGate \/ LinkGate \/ ReachGate \/ StageGate \/ FetchGate \/ GpuGate

Goes ==
  /\ drv.pc \in Gates \ {"choose"} /\ drv' \in Driving
  /\ drv'.got = drv.got /\ drv'.swept = drv.swept /\ drv'.joined \subseteq drv.joined
  /\ UNCHANGED <<granted, opt, rented, recruited, rec>>
  /\ GivesUp \/ Drops

LEMMA GatesMove == RentalTyped /\ AnyGate => Goes
<1> SUFFICES ASSUME RentalTyped, AnyGate PROVE Goes
  OBVIOUS
<1>1. drv \in Driving
  BY DEF RentalTyped
<1>2. Gates \cup {"stop"} \subseteq DriverPc
  BY DEF DriverPc
<1>3. ASSUME NEW d \in Driving, d.created = drv.created, d.got = drv.got, d.swept = drv.swept,
             d.out = drv.out, d.joined = drv.joined,
             NEW bad, NEW next \in Gates \cup {"stop"}, ReleasePod(bad), drv' = DropCards(d, bad, next),
             drv.pc \in Gates \ {"choose"}, UNCHANGED <<granted, opt, rented, recruited, rec>>
      PROVE  Goes
  <2>1. next \in DriverPc
    BY <1>2
  <2>2. /\ drv' \in Driving /\ drv'.got = drv.got /\ drv'.swept = drv.swept /\ drv'.joined = drv.joined
        /\ drv'.created = drv.created \ bad
        /\ \/ bad = {} /\ drv'.pc = next /\ drv'.out = drv.out
           \/ drv'.pc = "open" /\ drv'.then = next /\ drv'.out = drv.created \ bad
    BY <1>3, <2>1, DropIs
  <2>3. Drops
    BY <1>3, <2>2 DEF Drops
  <2> QED
    BY <1>3, <2>2, <2>3 DEF Goes
<1>4. ASSUME NEW at \in Gates \ {"choose"}, NEW bad, NEW next \in Gates \cup {"stop"}, Gate(at, bad, next)
      PROVE  Goes
  <2>1. /\ drv.pc = at /\ ReleasePod(bad) /\ drv' = DropCards(drv, bad, next)
        /\ UNCHANGED <<granted, opt, rented, recruited, rec>>
    BY <1>4 DEF Gate
  <2> QED
    BY <1>1, <1>3, <1>4, <2>1
<1>5. CASE SshGate
  <2>1. PICK up \in Answering(drv.created) :
          IF Cardinality(up) < MIN_CARDS
            THEN drv' = Exit(drv) /\ UNCHANGED <<live, stuck>>
            ELSE /\ ReleasePod(drv.created \ up)
                 /\ drv' = DropCards([drv EXCEPT !.order = up], drv.created \ up, "link")
    BY <1>5 DEF SshGate
  <2>2. drv.pc = "ssh" /\ UNCHANGED <<granted, opt, rented, recruited, rec>>
    BY <1>5 DEF SshGate
  <2>3. "link" \in Gates \cup {"stop"} /\ "ssh" \in Gates \ {"choose"}
    BY DEF Gates
  <2>4. CASE Cardinality(up) < MIN_CARDS
    <3>1. drv' = Exit(drv) /\ UNCHANGED <<live, stuck>>
      BY <2>1, <2>4
    <3>2. drv' \in Driving /\ drv'.got = drv.got /\ drv'.swept = drv.swept /\ drv'.joined = {} /\ GivesUp
      BY <1>1, <3>1, ExitIs DEF GivesUp
    <3> QED
      BY <2>2, <2>3, <3>2 DEF Goes
  <2>5. CASE ~(Cardinality(up) < MIN_CARDS)
    <3> DEFINE d == [drv EXCEPT !.order = up]
               bad == drv.created \ up
    <3>1. ReleasePod(bad) /\ drv' = DropCards(d, bad, "link")
      BY <2>1, <2>5
    <3>2. up \in SUBSET Pod
      BY <1>1 DEF Answering, Driving
    <3>3. /\ d \in Driving /\ d.created = drv.created /\ d.got = drv.got /\ d.swept = drv.swept
          /\ d.out = drv.out /\ d.joined = drv.joined
      BY <1>1, <3>2 DEF Driving
    <3> HIDE DEF d, bad
    <3> QED
      BY <1>3, <2>2, <2>3, <3>1, <3>3
  <2> QED
    BY <2>4, <2>5
<1>6. CASE LinkGate
  <2>1. PICK a \in drv.order : \E cut \in SlowWorkerCut(drv.order \ {a}, Cardinality(drv.order)) :
          /\ ReleasePod(cut)
          /\ drv' = DropCards([drv EXCEPT !.agg = a, !.cut = cut], cut, "reach")
    BY <1>6 DEF LinkGate
  <2>2. PICK cut \in SlowWorkerCut(drv.order \ {a}, Cardinality(drv.order)) :
          /\ ReleasePod(cut)
          /\ drv' = DropCards([drv EXCEPT !.agg = a, !.cut = cut], cut, "reach")
    BY <2>1
  <2>3. drv.pc = "link" /\ UNCHANGED <<granted, opt, rented, recruited, rec>>
    BY <1>6 DEF LinkGate
  <2>4. "reach" \in Gates \cup {"stop"} /\ "link" \in Gates \ {"choose"}
    BY DEF Gates
  <2> DEFINE d == [drv EXCEPT !.agg = a, !.cut = cut]
  <2>5. drv' = DropCards(d, cut, "reach") /\ ReleasePod(cut)
    BY <2>2
  <2>6. a \in Pod /\ cut \in SUBSET Pod
    BY <1>1 DEF SlowWorkerCut, Driving
  <2>7. /\ d \in Driving /\ d.created = drv.created /\ d.got = drv.got /\ d.swept = drv.swept
        /\ d.out = drv.out /\ d.joined = drv.joined
    BY <1>1, <2>6 DEF Driving
  <2> HIDE DEF d
  <2> QED
    BY <1>3, <2>3, <2>4, <2>5, <2>7
<1>7. \A bad : \A next \in Gates : UnlessAlone(bad, next) \in Gates \cup {"stop"}
  BY DEF UnlessAlone
<1>8. CASE ReachGate
  <2>1. PICK bad \in Unreachable(drv.order) : Gate("reach", bad, UnlessAlone(bad, "stage"))
    BY <1>8 DEF ReachGate
  <2>2. "reach" \in Gates \ {"choose"} /\ "stage" \in Gates
    BY DEF Gates
  <2> QED
    BY <1>4, <1>7, <2>1, <2>2
<1>9. CASE StageGate
  <2>1. PICK bad \in Unstaged(drv.order) : Gate("stage", bad, "fetch")
    BY <1>9 DEF StageGate
  <2>2. "stage" \in Gates \ {"choose"} /\ "fetch" \in Gates
    BY DEF Gates
  <2> QED
    BY <1>4, <2>1, <2>2
<1>10. CASE FetchGate
  <2>1. PICK bad \in Unfetched(drv.order) : Gate("fetch", bad, "gpu")
    BY <1>10 DEF FetchGate
  <2>2. "fetch" \in Gates \ {"choose"} /\ "gpu" \in Gates
    BY DEF Gates
  <2> QED
    BY <1>4, <2>1, <2>2
<1>11. CASE GpuGate
  <2>1. PICK bad \in Duds(drv.order) : Gate("gpu", bad, UnlessAlone(bad, "choose"))
    BY <1>11 DEF GpuGate
  <2>2. "gpu" \in Gates \ {"choose"} /\ "choose" \in Gates
    BY DEF Gates
  <2> QED
    BY <1>4, <1>7, <2>1, <2>2
<1> QED
  BY <1>5, <1>6, <1>8, <1>9, <1>10, <1>11 DEF AnyGate

(* Steps that grant nothing and move no recruit into the records.          *)

SubListsKept ==
  /\ rec'.list = rec.list /\ rec'.hand = rec.hand
  /\ rec'.gates \cup rec'.passed \cup rec'.failed \cup rec'.ready \subseteq InGates
  /\ rec'.pc = rec.pc \/ {rec.pc, rec'.pc} \subseteq {"off", "sleep", "rent"}

Known == drv.got \cup drv.created \cup drv.joined

(* A step that ends no pod but those nobody counts on keeps the invariant, *)
(* when it keeps the driver's phase and the fleet's record in order.       *)
LEMMA CalmStep ==
  ASSUME RentalInv, Calm, drv.pc \notin {"done", "cleaned"},
         drv'.pc \notin {"done", "cleaned"}, drv'.pc = "release" => drv.pc = "release",
         drv' \in Driving, (rec \in Recruiter)', rented' \in Files,
         UNCHANGED <<granted, opt, recruited>>, SubListsKept,
         drv'.swept = drv.swept,
         drv'.got \cup drv'.created \cup drv'.joined \subseteq Known \cup InGates \cup OldRecord,
         (live' \ OldRecord) \cap (drv.got \cup drv.created) \subseteq stuck' \cup drv'.got \cup drv'.created,
         PhaseSound', RentedSound'
  PROVE  RentalInv'
<1>1. RentalTyped'
  <2>1. live' \in SUBSET Pod /\ stuck' \in SUBSET Pod
    BY DEF Calm, RentalInv, RentalTyped
  <2>2. granted' \in 0..MaxPods /\ opt' \in Options /\ recruited' \in Files
    BY DEF RentalInv, RentalTyped
  <2> QED
    BY <2>1, <2>2 DEF RentalTyped
<1>2. IdsSound'
  <2>1. \A p \in live' : p.id >= 0
    BY DEF RentalInv, IdsSound, Calm
  <2>2. \A p : OfThisRun(p)' <=> OfThisRun(p)
    BY DEF OfThisRun
  <2>3. \A p \in (rec.list \cup InGates \cup drv.swept)' : OfThisRun(p)'
    BY <2>2 DEF RentalInv, IdsSound, SubListsKept, InGates
  <2>4. OldRecord' = OldRecord
    BY DEF OldRecord
  <2>5. \A p \in Known : OfThisRun(p) \/ p \in OldRecord
    BY DEF RentalInv, IdsSound, Known
  <2>6. \A p \in InGates : OfThisRun(p)
    BY DEF RentalInv, IdsSound
  <2>7. \A p \in (drv.got \cup drv.created \cup drv.joined)' : OfThisRun(p)' \/ p \in OldRecord'
    BY <2>2, <2>4, <2>5, <2>6
  <2>8. (IF rec.pc \in {"append", "open", "dump"} THEN OfThisRun(rec.hand) ELSE rec.hand = NoPod)'
    <3>1. IF rec.pc \in {"append", "open", "dump"} THEN OfThisRun(rec.hand) ELSE rec.hand = NoPod
      BY DEF RentalInv, IdsSound
    <3>2. rec'.pc \in {"append", "open", "dump"} <=> rec.pc \in {"append", "open", "dump"}
      BY DEF SubListsKept
    <3>3. rec'.hand = rec.hand /\ granted' = granted
      BY DEF SubListsKept
    <3> QED
      BY <3>1, <3>2, <3>3 DEF OfThisRun, NoPod
  <2> QED
    BY <2>1, <2>3, <2>7, <2>8 DEF IdsSound
<1>3. RecruitedSound'
  BY DEF RentalInv, RecruitedSound, SubListsKept
<1>4. Ours' \subseteq Ours /\ Ours' \cap stuck \subseteq stuck'
  BY DEF Ours, Calm
<1>5. Billing'
  <2>1. \A p \in Ours' : p \in drv.got \cup drv.created => p \in stuck' \cup drv'.got \cup drv'.created
    BY DEF Ours, OldRecord
  <2>2. (Ours \subseteq stuck \cup drv.got \cup drv.created \cup rec.list \cup {rec.hand})'
    BY <1>4, <2>1 DEF RentalInv, Billing, SubListsKept
  <2>3. ASSUME drv'.pc = "release"
        PROVE  (Ours \subseteq stuck \cup drv.got \cup drv.created \cup ((rec.list \cup {rec.hand}) \ drv.swept))'
    BY <1>4, <2>1, <2>3 DEF RentalInv, Billing, SubListsKept
  <2> QED
    BY <2>2, <2>3 DEF Billing
<1>6. CleanupFindsAll' /\ TeardownReleases'
  BY DEF CleanupFindsAll, TeardownReleases
<1> QED
  BY <1>1, <1>2, <1>3, <1>5, <1>6 DEF RentalInv

(* The same when the driver does not move. *)
LEMMA DriverStays ==
  ASSUME RentalInv, Calm, drv.pc \notin {"done", "cleaned"}, UNCHANGED <<drv, granted, opt, rented, recruited>>,
         (rec \in Recruiter)', SubListsKept, rec'.pc = rec.pc \/ rec.pc # "off"
  PROVE  RentalInv'
<1>1. drv' \in Driving /\ rented' \in Files
  BY DEF RentalInv, RentalTyped
<1>2. Phase' = Phase /\ (Phase \in {"adopt", "rent", "mix"} \cup Gates => rec'.pc = "off")
  BY DEF RentalInv, PhaseSound, Phase
<1>3. PhaseSound'
  <2>1. Adopted' = Adopted /\ OldRecord' = OldRecord
    BY DEF Adopted, OldRecord
  <2> QED
    BY <1>2, <2>1 DEF RentalInv, PhaseSound
<1>4. RentedSound'
  <2>1. live' \cap stuck \subseteq stuck' /\ live' \subseteq live
    BY DEF Calm
  <2> QED
    BY <2>1 DEF RentalInv, RentedSound
<1> QED
  BY <1>1, <1>3, <1>4, CalmStep DEF Known

-----------------------------------------------------------------------------
(* The driver's steps.                                                     *)

LEMMA CalmAlone == UNCHANGED <<live, stuck>> => Calm
  BY DEF Calm

LEMMA RecStays == RentalInv /\ UNCHANGED rec => (rec \in Recruiter)' /\ SubListsKept
<1> SUFFICES ASSUME RentalInv, UNCHANGED rec PROVE (rec \in Recruiter)' /\ SubListsKept
  OBVIOUS
<1>1. (rec \in Recruiter)'
  BY DEF RentalInv, RentalTyped, Recruiter
<1> QED
  BY <1>1 DEF SubListsKept, InGates

LEMMA RecordIsWritten == RentalInv /\ (OpenRecord \/ DumpRecord) => RentalInv'
<1> SUFFICES ASSUME RentalInv, OpenRecord \/ DumpRecord PROVE RentalInv'
  OBVIOUS
<1>1. drv \in Driving /\ rented \in Files /\ PhaseSound /\ RentedSound
  BY DEF RentalInv, RentalTyped
<1>2. Adopted' = Adopted /\ OldRecord' = OldRecord /\ opt' = opt /\ rec' = rec /\ live' = live /\ stuck' = stuck
  BY DEF OpenRecord, DumpRecord, Adopted, OldRecord
<1>3. CASE OpenRecord
  <2>1. drv.pc = "open" /\ rented' = Torn /\ drv' = [drv EXCEPT !.pc = "dump"]
    BY <1>3 DEF OpenRecord
  <2>2. /\ drv' \in Driving /\ drv'.pc = "dump" /\ drv'.then = drv.then /\ drv'.got = drv.got /\ drv'.out = drv.out
        /\ drv'.created = drv.created /\ drv'.joined = drv.joined /\ drv'.swept = drv.swept
    BY <1>1, <2>1 DEF Driving, DriverPc
  <2>3. Phase' = Phase
    BY <2>1, <2>2 DEF Phase
  <2>4. PhaseSound'
    BY <1>1, <1>2, <2>1, <2>2, <2>3 DEF PhaseSound
  <2>5. RentedSound'
    BY <1>1, <1>2, <2>1, <2>2 DEF RentedSound
  <2>6. rented' \in Files /\ UNCHANGED <<granted, opt, recruited>>
    BY <1>3, <2>1, Bounds DEF OpenRecord
  <2> QED
    BY <1>2, <2>1, <2>2, <2>4, <2>5, <2>6, CalmAlone, RecStays, CalmStep DEF Known
<1>4. CASE DumpRecord
  <2>1. drv.pc = "dump" /\ rented' = File(drv.out) /\ drv' = [drv EXCEPT !.pc = drv.then, !.out = {}, !.then = "none"]
    BY <1>4 DEF DumpRecord
  <2>2. drv.then \in {"rent", "mix", "session", "stop"} \cup Gates
    BY <1>1, <2>1 DEF PhaseSound
  <2>3. drv.then \in DriverPc \ {"open", "dump", "release", "done", "cleaned"}
    BY <2>2 DEF DriverPc, Gates
  <2>4. /\ drv' \in Driving /\ drv'.pc = drv.then /\ drv'.got = drv.got /\ drv'.out = {}
        /\ drv'.created = drv.created /\ drv'.joined = drv.joined /\ drv'.swept = drv.swept
    BY <1>1, <2>1, <2>3 DEF Driving
  <2>5. Phase' = Phase
    BY <2>1, <2>3, <2>4 DEF Phase
  <2>6. PhaseSound'
    BY <1>1, <1>2, <2>1, <2>3, <2>4, <2>5 DEF PhaseSound
  <2>7. rented' \in Files /\ rented' # Torn /\ rented'.pods = drv.out
    BY <1>1, <2>1, Bounds DEF Driving
  <2>8. RentedSound'
    BY <1>1, <1>2, <2>1, <2>3, <2>4, <2>7 DEF RentedSound
  <2>9. UNCHANGED <<granted, opt, recruited>>
    BY <1>4 DEF DumpRecord
  <2> QED
    BY <1>2, <2>1, <2>3, <2>4, <2>6, <2>7, <2>8, <2>9, CalmAlone, RecStays, CalmStep DEF Known
<1> QED
  BY <1>3, <1>4

(* A driver that leaves its try block, by an exception or at its end. *)
LEMMA LeavesTheBlock ==
  ASSUME RentalInv, drv.pc \notin {"release", "done", "cleaned"}, drv' = Exit(drv),
         UNCHANGED <<live, granted, opt, rented, recruited, rec, stuck>>
  PROVE  RentalInv'
<1>1. drv \in Driving /\ rented \in Files /\ PhaseSound /\ RentedSound
  BY DEF RentalInv, RentalTyped
<1>2. /\ drv' \in Driving /\ drv'.pc = "stop" /\ drv'.then = "none" /\ drv'.got = drv.got /\ drv'.out = drv.out
      /\ drv'.created = drv.created /\ drv'.joined = {} /\ drv'.swept = drv.swept
  BY <1>1, ExitIs
<1>3. Phase' = "stop" /\ "stop" \notin Gates
  BY <1>2 DEF Phase, Gates
<1>4. PhaseSound'
  BY <1>1, <1>2, <1>3 DEF PhaseSound
<1>5. RentedSound'
  BY <1>1, <1>2 DEF RentedSound
<1> QED
  BY <1>1, <1>2, <1>4, <1>5, CalmAlone, RecStays, CalmStep DEF Known

(* A driver that goes on to an unwritten step with the same lists. *)
LEMMA GoesOn ==
  ASSUME RentalInv, NEW next \in {"ssh", "stop", "drain", "orphans", "killed"},
         drv.pc \notin {"open", "dump", "done", "cleaned"} \/ next = "killed", drv.pc \notin {"done", "cleaned"},
         drv' = [drv EXCEPT !.pc = next], Calm,
         UNCHANGED <<granted, opt, rented, recruited>>, (rec \in Recruiter)', SubListsKept,
         next = "ssh" => drv.pc = "mix" /\ UNCHANGED rec
  PROVE  RentalInv'
<1>1. drv \in Driving /\ rented \in Files /\ PhaseSound /\ RentedSound
  BY DEF RentalInv, RentalTyped
<1>2. /\ drv' \in Driving /\ drv'.pc = next /\ drv'.then = drv.then /\ drv'.got = drv.got /\ drv'.out = drv.out
      /\ drv'.created = drv.created /\ drv'.joined = drv.joined /\ drv'.swept = drv.swept
  BY <1>1 DEF Driving, DriverPc, Gates
<1>3. Phase' = next /\ {"stop", "drain", "orphans", "killed"} \cap Gates = {} /\ "ssh" \in Gates
  BY <1>2 DEF Phase, Gates
<1>4. Adopted' = Adopted /\ OldRecord' = OldRecord
  BY DEF Adopted, OldRecord
<1>5. PhaseSound'
  <2>1. CASE next # "ssh"
    BY <1>1, <1>2, <1>3, <2>1 DEF PhaseSound
  <2>2. CASE next = "ssh"
    <3>1. drv.pc = "mix" /\ Phase = "mix" /\ rec' = rec
      BY <2>2 DEF Phase
    <3>2. ~opt.adopt /\ drv.got = {} /\ rec.pc = "off"
      BY <1>1, <3>1 DEF PhaseSound
    <3> QED
      BY <1>1, <1>2, <1>3, <1>4, <2>2, <3>1, <3>2 DEF PhaseSound, Adopted
  <2> QED
    BY <2>1, <2>2
<1>6. RentedSound'
  <2>1. live' \cap stuck \subseteq stuck' /\ live' \subseteq live
    BY DEF Calm
  <2> QED
    BY <1>1, <1>2, <2>1 DEF RentedSound
<1> QED
  BY <1>1, <1>2, <1>5, <1>6, CalmStep DEF Known

LEMMA FleetIsAdopted == RentalInv /\ Adopt => RentalInv'
<1> SUFFICES ASSUME RentalInv, Adopt PROVE RentalInv'
  OBVIOUS
<1>1. drv \in Driving /\ rented \in Files /\ PhaseSound /\ RentedSound
  BY DEF RentalInv, RentalTyped
<1>2. drv.pc = "adopt" /\ UNCHANGED <<live, granted, opt, rented, recruited, rec, stuck>>
  BY DEF Adopt
<1>3. CASE Cardinality(AdoptFleet) < MIN_CARDS
  <2>1. drv' = Exit(drv)
    BY <1>3 DEF Adopt
  <2> QED
    BY <1>2, <2>1, LeavesTheBlock
<1>4. CASE ~(Cardinality(AdoptFleet) < MIN_CARDS)
  <2> DEFINE d == [drv EXCEPT !.created = AdoptFleet]
  <2>1. drv' = Write(d, AdoptFleet, "ssh")
    BY <1>4 DEF Adopt
  <2>2. AdoptFleet \in SUBSET Pod /\ AdoptFleet \subseteq OldRecord
    BY Bounds DEF AdoptFleet
  <2>3. /\ d \in Driving /\ d.created = AdoptFleet /\ d.got = drv.got /\ d.swept = drv.swept
        /\ d.joined = drv.joined
    BY <1>1, <2>2 DEF Driving
  <2>4. "ssh" \in DriverPc /\ "ssh" \in Gates
    BY DEF DriverPc, Gates
  <2> HIDE DEF d
  <2>5. /\ drv' \in Driving /\ drv'.pc = "open" /\ drv'.then = "ssh" /\ drv'.out = AdoptFleet /\ drv'.got = drv.got
        /\ drv'.created = AdoptFleet /\ drv'.swept = drv.swept /\ drv'.joined = drv.joined
    BY <2>1, <2>2, <2>3, <2>4, WriteIs
  <2>6. Phase = "adopt" /\ Phase' = "ssh"
    BY <1>2, <2>5 DEF Phase
  <2>7. drv.got = {} /\ drv.created = {} /\ rec.pc = "off"
    BY <1>1, <2>6 DEF PhaseSound
  <2>8. PhaseSound'
    <3>1. OldRecord' = OldRecord
      BY DEF OldRecord
    <3> QED
      BY <1>1, <1>2, <2>2, <2>4, <2>5, <2>6, <2>7, <3>1 DEF PhaseSound
  <2>9. RentedSound'
    BY <1>2, <2>5, <2>7 DEF RentedSound
  <2>10. Calm
    BY <1>2, CalmAlone
  <2> QED
    BY <1>1, <1>2, <2>2, <2>5, <2>7, <2>8, <2>9, <2>10, RecStays, CalmStep DEF Known
<1> QED
  BY <1>3, <1>4

LEMMA TypeIsTheFleet == RentalInv /\ TypeFields => RentalInv'
<1> SUFFICES ASSUME RentalInv, TypeFields PROVE RentalInv'
  OBVIOUS
<1>1. drv \in Driving /\ rented \in Files /\ PhaseSound /\ RentedSound
  BY DEF RentalInv, RentalTyped
<1>2. /\ drv.pc = "rent" /\ drv' = [drv EXCEPT !.created = drv.got, !.got = {}, !.pc = "ssh"]
      /\ UNCHANGED <<live, granted, opt, rented, recruited, rec, stuck>>
  BY DEF TypeFields
<1>3. "ssh" \in DriverPc /\ "ssh" \in Gates
  BY DEF DriverPc, Gates
<1>4. /\ drv' \in Driving /\ drv'.pc = "ssh" /\ drv'.then = drv.then /\ drv'.out = drv.out /\ drv'.got = {}
      /\ drv'.created = drv.got /\ drv'.swept = drv.swept /\ drv'.joined = drv.joined
  BY <1>1, <1>2, <1>3 DEF Driving
<1>5. Phase = "rent" /\ Phase' = "ssh"
  BY <1>2, <1>4 DEF Phase
<1>6. ~opt.adopt /\ drv.created = {} /\ rec.pc = "off"
  BY <1>1, <1>5 DEF PhaseSound
<1>7. PhaseSound'
  <2>1. ~Adopted'
    BY <1>2, <1>6 DEF Adopted
  <2>2. IsFiniteSet({})
    BY FS_EmptySet
  <2> QED
    BY <1>2, <1>3, <1>4, <1>5, <1>6, <2>1, <2>2 DEF PhaseSound
<1>8. RentedSound'
  BY <1>1, <1>2, <1>4 DEF RentedSound
<1>9. Calm
  BY <1>2, CalmAlone
<1> QED
  BY <1>1, <1>2, <1>4, <1>6, <1>7, <1>8, <1>9, RecStays, CalmStep DEF Known

LEMMA TypeIsDropped == RentalInv /\ TypeFallsShort => RentalInv'
<1> SUFFICES ASSUME RentalInv, TypeFallsShort PROVE RentalInv'
  OBVIOUS
<1>1. drv \in Driving /\ rented \in Files /\ PhaseSound /\ RentedSound
  BY DEF RentalInv, RentalTyped
<1>2. /\ drv.pc = "rent" /\ TerminateConfirmed(drv.got) /\ UNCHANGED <<granted, opt, rented, recruited, rec>>
      /\ drv' = IF drv.got = {} THEN NextType(drv) ELSE Write(NextType(drv), {}, NextType(drv).pc)
  BY DEF TypeFallsShort
<1>3. Calm /\ live' \cap drv.got \subseteq stuck'
  BY <1>2, Terminated
<1> DEFINE d == NextType(drv)
<1>4. /\ d \in Driving /\ d.pc \in {"rent", "mix"} /\ d.got = {} /\ d.created = drv.created /\ d.out = drv.out
      /\ d.swept = drv.swept /\ d.joined = drv.joined
  <2>1. "rent" \in DriverPc /\ "mix" \in DriverPc /\ {} \in SUBSET Pod /\ drv.type + 1 \in Int
    BY <1>1 DEF DriverPc, Driving
  <2>2. CASE drv.type < NTypes
    <3>1. d = [drv EXCEPT !.type = drv.type + 1, !.got = {}, !.pc = "rent"]
      BY <2>2 DEF NextType
    <3> QED
      BY <1>1, <2>1, <3>1 DEF Driving
  <2>3. CASE ~(drv.type < NTypes)
    <3>1. d = [drv EXCEPT !.got = {}, !.pc = "mix"]
      BY <2>3 DEF NextType
    <3> QED
      BY <1>1, <2>1, <3>1 DEF Driving
  <2> QED
    BY <2>2, <2>3
<1>5. IF drv.got = {} THEN drv' = d ELSE drv' = Write(d, {}, d.pc)
  BY <1>2
<1> HIDE DEF d
<1>6. d.pc \in DriverPc /\ {} \in SUBSET Pod
  BY <1>4 DEF DriverPc
<1>7. /\ drv' \in Driving /\ drv'.got = {} /\ drv'.created = drv.created /\ drv'.swept = drv.swept
      /\ drv'.joined = drv.joined
      /\ \/ drv.got = {} /\ drv'.pc = d.pc /\ drv'.out = drv.out
         \/ drv'.pc = "open" /\ drv'.then = d.pc /\ drv'.out = {}
  BY <1>4, <1>5, <1>6, WriteIs
<1>8. Phase = "rent" /\ Phase' \in {"rent", "mix"}
  BY <1>2, <1>4, <1>7 DEF Phase
<1>9. ~opt.adopt /\ drv.created = {} /\ rec.pc = "off"
  BY <1>1, <1>8 DEF PhaseSound
<1>10. PhaseSound'
  <2>1. ~Adopted' /\ opt' = opt /\ rec' = rec
    BY <1>2, <1>9 DEF Adopted
  <2>2. IsFiniteSet({})
    BY FS_EmptySet
  <2>3. drv'.pc \in {"open", "dump"} => drv'.then \in {"rent", "mix"}
    BY <1>4, <1>7
  <2> QED
    BY <1>7, <1>8, <1>9, <2>1, <2>2, <2>3 DEF PhaseSound
<1>11. RentedSound'
  <2>1. rented # Torn /\ rented' = rented
    BY <1>1, <1>2 DEF RentedSound
  <2> QED
    BY <1>4, <1>7, <1>9, <2>1 DEF RentedSound
<1>12. drv'.pc \notin {"done", "cleaned", "release"}
  BY <1>4, <1>7
<1> QED
  BY <1>1, <1>2, <1>3, <1>7, <1>9, <1>10, <1>11, <1>12, RecStays, CalmStep DEF Known

LEMMA MixIsOver == RentalInv /\ EndMixed => RentalInv'
<1> SUFFICES ASSUME RentalInv, EndMixed PROVE RentalInv'
  OBVIOUS
<1>1. drv.pc = "mix" /\ UNCHANGED <<live, granted, opt, rented, recruited, rec, stuck>>
  BY DEF EndMixed
<1>2. CASE drv' = Exit(drv)
  BY <1>1, <1>2, LeavesTheBlock
<1>3. CASE drv' = [drv EXCEPT !.pc = "ssh"]
  BY <1>1, <1>3, CalmAlone, RecStays, GoesOn
<1> QED
  BY <1>2, <1>3 DEF EndMixed

LEMMA GateKeeps == RentalInv /\ AnyGate => RentalInv'
<1> SUFFICES ASSUME RentalInv, AnyGate PROVE RentalInv'
  OBVIOUS
<1>1. drv \in Driving /\ rented \in Files /\ PhaseSound /\ RentedSound /\ Goes
  BY GatesMove DEF RentalInv, RentalTyped
<1>2. /\ drv.pc \in Gates /\ drv' \in Driving /\ drv'.got = drv.got /\ drv'.swept = drv.swept
      /\ drv'.joined \subseteq drv.joined /\ UNCHANGED <<granted, opt, rented, recruited, rec>>
      /\ GivesUp \/ Drops
  BY <1>1 DEF Goes
<1>3. Phase = drv.pc /\ drv.pc \notin {"open", "dump", "release", "done", "cleaned"}
  BY <1>2 DEF Phase, Gates
<1>4. drv.got = {} /\ rec.pc = "off" /\ (Adopted => drv.created \subseteq OldRecord)
  BY <1>1, <1>2, <1>3 DEF PhaseSound
<1>5. Adopted' = Adopted /\ OldRecord' = OldRecord
  BY <1>2 DEF Adopted, OldRecord
<1>6. \A g \in Gates \cup {"stop"} :
        g \notin {"adopt", "rent", "mix", "open", "dump", "done", "cleaned", "release", "session", "grow"}
  BY DEF Gates
<1>7. CASE GivesUp
  <2>1. drv'.pc = "stop" /\ drv'.created = drv.created /\ drv'.out = drv.out /\ UNCHANGED <<live, stuck>>
    BY <1>7 DEF GivesUp
  <2>2. Phase' = "stop" /\ "stop" \notin Gates
    BY <2>1 DEF Phase, Gates
  <2>3. PhaseSound'
    BY <1>1, <1>2, <2>1, <2>2 DEF PhaseSound
  <2>4. RentedSound'
    BY <1>1, <1>2, <1>3, <2>1 DEF RentedSound
  <2> QED
    BY <1>1, <1>2, <1>3, <2>1, <2>3, <2>4, CalmAlone, RecStays, CalmStep DEF Known
<1>8. CASE Drops
  <2>1. PICK bad, next :
          /\ next \in Gates \cup {"stop"}
          /\ ReleasePod(bad)
          /\ drv'.created = drv.created \ bad
          /\ \/ bad = {} /\ drv'.pc = next /\ drv'.out = drv.out
             \/ drv'.pc = "open" /\ drv'.then = next /\ drv'.out = drv.created \ bad
    BY <1>8 DEF Drops
  <2>2. Calm /\ (~Adopted => live' \cap bad \subseteq stuck') /\ (Adopted => live' = live)
    BY <2>1, Released
  <2>3. Phase' = next /\ drv'.pc \notin {"done", "cleaned", "release", "dump"}
    BY <1>6, <2>1 DEF Phase
  <2>4. PhaseSound'
    <3>1. drv'.pc \in {"open", "dump"} => drv'.then \in {"rent", "mix", "session", "stop"} \cup Gates
      BY <1>6, <2>1
    <3>2. IsFiniteSet(drv.got)
      BY <1>1 DEF PhaseSound
    <3> QED
      BY <1>2, <1>4, <1>5, <1>6, <2>1, <2>3, <3>1, <3>2 DEF PhaseSound
  <2>5. RentedSound'
    <3>1. live' \cap stuck \subseteq stuck' /\ live' \subseteq live
      BY <2>2 DEF Calm
    <3> QED
      BY <1>1, <1>2, <1>3, <1>4, <1>6, <2>1, <3>1 DEF RentedSound
  <2>6. (live' \ OldRecord) \cap (drv.got \cup drv.created) \subseteq stuck' \cup drv'.got \cup drv'.created
    BY <1>4, <2>1, <2>2
  <2> QED
    BY <1>1, <1>2, <1>3, <2>1, <2>2, <2>3, <2>4, <2>5, <2>6, RecStays, CalmStep DEF Known
<1> QED
  BY <1>2, <1>7, <1>8

(* What the driver and the recruiter's thread share is handed over. *)
LEMMA SessionStarts == RentalInv /\ Choose => RentalInv'
<1> SUFFICES ASSUME RentalInv, Choose PROVE RentalInv'
  OBVIOUS
<1>1. drv \in Driving /\ rented \in Files /\ rec \in Recruiter /\ PhaseSound /\ RentedSound
  BY DEF RentalInv, RentalTyped
<1>2. /\ drv.pc = "choose" /\ UNCHANGED <<live, granted, opt, rented, recruited, stuck>>
      /\ drv' = [drv EXCEPT !.pc = "session", !.cut = {}] \/ drv' = [drv EXCEPT !.pc = "stop"]
      /\ \/ rec' = rec
         \/ drv'.pc = "session" /\ rec' = [rec EXCEPT !.pc = "sleep", !.target = Max(Targets)]
  <2>1. drv.pc = "choose" /\ UNCHANGED <<live, granted, opt, rented, recruited, stuck>>
    BY DEF Choose
  <2>2. CASE Enough
    <3>1. drv' = [drv EXCEPT !.pc = "session", !.cut = {}]
      BY <2>2 DEF Choose
    <3>2. drv'.pc = "session"
      BY <1>1, <3>1 DEF Driving
    <3> QED
      BY <2>1, <2>2, <3>1, <3>2 DEF Choose
  <2>3. CASE ~Enough
    BY <2>1, <2>3 DEF Choose
  <2> QED
    BY <2>2, <2>3
<1>3. /\ drv' \in Driving /\ drv'.pc \in {"session", "stop"} /\ drv'.got = drv.got /\ drv'.out = drv.out
      /\ drv'.created = drv.created /\ drv'.swept = drv.swept /\ drv'.joined = drv.joined
  <2>1. "session" \in DriverPc /\ "stop" \in DriverPc /\ {} \in SUBSET Pod
    BY DEF DriverPc
  <2>2. CASE drv' = [drv EXCEPT !.pc = "session", !.cut = {}]
    BY <1>1, <2>1, <2>2 DEF Driving
  <2>3. CASE drv' = [drv EXCEPT !.pc = "stop"]
    BY <1>1, <2>1, <2>3 DEF Driving
  <2> QED
    BY <1>2, <2>2, <2>3
<1>4. Phase = "choose" /\ "choose" \in Gates /\ Phase' = drv'.pc /\ {"session", "stop"} \cap Gates = {}
  BY <1>2, <1>3 DEF Phase, Gates
<1>5. rec.pc = "off" /\ drv.got = {}
  BY <1>1, <1>4 DEF PhaseSound
<1>6. (rec \in Recruiter)' /\ SubListsKept
  <2>1. CASE rec' = rec
    BY <2>1, RecStays
  <2>2. CASE rec' = [rec EXCEPT !.pc = "sleep", !.target = Max(Targets)]
    <3>1. (rec \in Recruiter)'
      BY <1>1, <2>2 DEF Recruiter
    <3>2. /\ rec'.pc = "sleep" /\ rec'.list = rec.list /\ rec'.hand = rec.hand /\ rec'.gates = rec.gates
          /\ rec'.passed = rec.passed /\ rec'.failed = rec.failed /\ rec'.ready = rec.ready
      BY <1>1, <2>2 DEF Recruiter
    <3> QED
      BY <1>5, <3>1, <3>2 DEF SubListsKept, InGates
  <2> QED
    BY <1>2, <2>1, <2>2
<1>7. PhaseSound'
  BY <1>1, <1>2, <1>3, <1>4, <1>5 DEF PhaseSound
<1>8. RentedSound'
  BY <1>1, <1>2, <1>3 DEF RentedSound
<1> QED
  BY <1>1, <1>2, <1>3, <1>6, <1>7, <1>8, CalmAlone, CalmStep DEF Known

LEMMA FleetGrows == RentalInv /\ (GrowDrain \/ GrowAdmit) => RentalInv'
<1> SUFFICES ASSUME RentalInv, GrowDrain \/ GrowAdmit PROVE RentalInv'
  OBVIOUS
<1>1. drv \in Driving /\ rented \in Files /\ rec \in Recruiter /\ PhaseSound /\ RentedSound
  BY DEF RentalInv, RentalTyped
<1>2. UNCHANGED <<live, granted, opt, rented, recruited, stuck>> /\ Calm
  BY CalmAlone DEF GrowDrain, GrowAdmit
<1>3. {"session", "grow"} \cap Gates = {}
  BY DEF Gates
<1>4. CASE GrowDrain
  <2>1. /\ drv.pc = "session" /\ drv' = [drv EXCEPT !.pc = "grow", !.joined = rec.ready]
        /\ rec' = [rec EXCEPT !.ready = {}]
    BY <1>4 DEF GrowDrain
  <2>2. "grow" \in DriverPc /\ rec.ready \in SUBSET Pod
    BY <1>1 DEF DriverPc, Recruiter
  <2>3. /\ drv' \in Driving /\ drv'.pc = "grow" /\ drv'.joined = rec.ready /\ drv'.out = drv.out
        /\ drv'.got = drv.got /\ drv'.created = drv.created /\ drv'.swept = drv.swept
    BY <1>1, <2>1, <2>2 DEF Driving
  <2>4. /\ rec'.pc = rec.pc /\ rec'.list = rec.list /\ rec'.hand = rec.hand /\ rec'.gates = rec.gates
        /\ rec'.passed = rec.passed /\ rec'.failed = rec.failed /\ rec'.ready = {}
    BY <1>1, <2>1 DEF Recruiter
  <2>5. (rec \in Recruiter)'
    BY <1>1, <2>1 DEF Recruiter
  <2>6. SubListsKept /\ rec.ready \subseteq InGates
    BY <2>4 DEF SubListsKept, InGates
  <2>7. Phase = "session" /\ Phase' = "grow"
    BY <2>1, <2>3 DEF Phase
  <2>8. PhaseSound'
    BY <1>1, <1>2, <1>3, <2>3, <2>4, <2>7 DEF PhaseSound
  <2>9. RentedSound'
    BY <1>1, <1>2, <2>1, <2>3 DEF RentedSound
  <2> QED
    BY <1>1, <1>2, <2>1, <2>3, <2>5, <2>6, <2>8, <2>9, CalmStep DEF Known
<1>5. CASE GrowAdmit
  <2> DEFINE fleet == drv.created \cup drv.joined
             d == [drv EXCEPT !.order = drv.order \cup drv.joined, !.created = fleet, !.joined = {}]
  <2>1. drv.pc = "grow" /\ drv' = Write(d, fleet, "session") /\ UNCHANGED rec
    BY <1>5 DEF GrowAdmit
  <2>2. fleet \in SUBSET Pod /\ drv.order \cup drv.joined \in SUBSET Pod
    BY <1>1 DEF Driving
  <2>3. "session" \in DriverPc
    BY DEF DriverPc
  <2> HIDE DEF fleet
  <2>4. /\ d \in Driving /\ d.created = fleet /\ d.joined = {} /\ d.got = drv.got /\ d.swept = drv.swept
    BY <1>1, <2>2 DEF Driving
  <2> HIDE DEF d
  <2>5. /\ drv' \in Driving /\ drv'.pc = "open" /\ drv'.then = "session" /\ drv'.out = fleet
        /\ drv'.got = drv.got /\ drv'.created = fleet /\ drv'.swept = drv.swept /\ drv'.joined = {}
    BY <2>1, <2>2, <2>3, <2>4, WriteIs
  <2> USE DEF fleet
  <2>6. Phase = "grow" /\ Phase' = "session"
    BY <2>1, <2>5 DEF Phase
  <2>7. PhaseSound'
    BY <1>1, <1>2, <1>3, <2>1, <2>5, <2>6 DEF PhaseSound
  <2>8. RentedSound'
    BY <1>1, <1>2, <2>5, <2>6 DEF RentedSound, PhaseSound
  <2> QED
    BY <1>1, <1>2, <2>1, <2>5, <2>7, <2>8, RecStays, CalmStep DEF Known
<1> QED
  BY <1>4, <1>5

LEMMA RecruiterStops == RentalInv /\ (StopRecruiter \/ StopDrain) => RentalInv'
<1> SUFFICES ASSUME RentalInv, StopRecruiter \/ StopDrain PROVE RentalInv'
  OBVIOUS
<1>1. rec \in Recruiter
  BY DEF RentalInv, RentalTyped
<1>2. CASE StopRecruiter
  <2>1. /\ drv.pc = "stop" /\ rec' = [rec EXCEPT !.stop = TRUE] /\ drv' = [drv EXCEPT !.pc = "drain"]
        /\ UNCHANGED <<live, granted, opt, rented, recruited, stuck>>
    BY <1>2 DEF StopRecruiter
  <2>2. (rec \in Recruiter)' /\ SubListsKept
    BY <1>1, <2>1 DEF Recruiter, SubListsKept, InGates
  <2> QED
    BY <2>1, <2>2, CalmAlone, GoesOn
<1>3. CASE StopDrain
  <2>1. /\ drv.pc = "drain" /\ TerminateConfirmed(rec.ready) /\ rec' = [rec EXCEPT !.ready = {}]
        /\ drv' = [drv EXCEPT !.pc = "orphans"] /\ UNCHANGED <<granted, opt, rented, recruited>>
    BY <1>3 DEF StopDrain
  <2>2. (rec \in Recruiter)' /\ SubListsKept
    BY <1>1, <2>1 DEF Recruiter, SubListsKept, InGates
  <2>3. Calm
    BY <2>1, Terminated
  <2> QED
    BY <2>1, <2>2, <2>3, GoesOn
<1> QED
  BY <1>2, <1>3

-----------------------------------------------------------------------------
(* Grants: one pod more that bills, and somebody's list that holds it.     *)

Granted(p) ==
  /\ p.id = granted + 1
  /\ granted' = granted + 1 /\ granted' \in 0..MaxPods
  /\ live' = live \cup {p} /\ UNCHANGED stuck

(* No list held the new pod before it was granted. *)
LEMMA NewIsInNoList ==
  ASSUME RentalInv, NEW p \in Pod, Granted(p)
  PROVE  /\ p \notin OldRecord \cup Known \cup rec.list \cup InGates \cup drv.swept
         /\ \A q : OfThisRun(q) => OfThisRun(q)'
         /\ OfThisRun(p)'
         /\ Ours' \subseteq Ours \cup {p}
<1>1. granted \in 0..MaxPods /\ MaxPods \in Nat
  BY Bounds DEF RentalInv, RentalTyped
<1>2. ~OfThisRun(p)
  BY <1>1 DEF Granted, OfThisRun
<1>3. p \notin OldRecord
  BY <1>1, Bounds DEF Granted
<1>4. p \notin Known \cup rec.list \cup InGates \cup drv.swept
  BY <1>2, <1>3 DEF RentalInv, IdsSound, Known
<1>5. \A q : OfThisRun(q) => OfThisRun(q)'
  BY <1>1 DEF Granted, OfThisRun
<1>6. OfThisRun(p)'
  BY <1>1 DEF Granted, OfThisRun
<1>7. OldRecord' = OldRecord /\ Foreign' = Foreign
  BY DEF OldRecord, Foreign
<1>8. Ours' \subseteq Ours \cup {p}
  BY <1>7 DEF Ours, Granted
<1> QED
  BY <1>3, <1>4, <1>5, <1>6, <1>8

(* A pod the driver rents is in the list it was rented for. *)
LEMMA DriverRents ==
  ASSUME RentalInv, NEW p \in Pod, Granted(p), drv' \in Driving, UNCHANGED <<opt, rented, recruited, rec>>,
         drv.pc \notin {"done", "cleaned"}, drv'.pc = "open", p \in drv'.got \cup drv'.created,
         drv.got \cup drv.created \subseteq drv'.got \cup drv'.created,
         drv'.got \cup drv'.created \subseteq drv.got \cup drv.created \cup {p},
         drv'.swept = drv.swept, drv'.joined = drv.joined,
         PhaseSound', RentedSound'
  PROVE  RentalInv'
<1>1. RentalTyped'
  BY DEF RentalInv, RentalTyped, Granted, Recruiter
<1>2. IdsSound'
  <2>1. \A q \in live' : q.id >= 0
    <3>1. p.id >= 0
      BY DEF RentalInv, RentalTyped, Granted
    <3> QED
      BY <3>1 DEF RentalInv, IdsSound, Granted
  <2>2. \A q \in (rec.list \cup InGates \cup drv.swept)' : OfThisRun(q)'
    BY NewIsInNoList DEF RentalInv, IdsSound, InGates
  <2>3. OldRecord' = OldRecord
    BY DEF OldRecord
  <2>4. \A q \in (drv.got \cup drv.created \cup drv.joined)' : OfThisRun(q)' \/ q \in OldRecord'
    BY <2>3, NewIsInNoList DEF RentalInv, IdsSound
  <2>5. (IF rec.pc \in {"append", "open", "dump"} THEN OfThisRun(rec.hand) ELSE rec.hand = NoPod)'
    <3>1. OfThisRun(rec.hand) => OfThisRun(rec.hand)'
      BY NewIsInNoList
    <3>2. rec' = rec /\ NoPod' = NoPod
      BY DEF NoPod
    <3> QED
      BY <3>1, <3>2 DEF RentalInv, IdsSound
  <2> QED
    BY <2>1, <2>2, <2>4, <2>5 DEF IdsSound
<1>3. RecruitedSound'
  BY DEF RentalInv, RecruitedSound
<1>4. Billing'
  BY NewIsInNoList DEF RentalInv, Billing, Granted
<1>5. CleanupFindsAll' /\ TeardownReleases'
  BY DEF CleanupFindsAll, TeardownReleases
<1> QED
  BY <1>1, <1>2, <1>3, <1>4, <1>5 DEF RentalInv

LEMMA FleetIsRented == RentalInv /\ (RentUniform \/ RentMixed) => RentalInv'
<1> SUFFICES ASSUME RentalInv, RentUniform \/ RentMixed PROVE RentalInv'
  OBVIOUS
<1>1. drv \in Driving /\ PhaseSound /\ RentedSound /\ granted \in 0..MaxPods /\ MaxPods \in Nat
  BY Bounds DEF RentalInv, RentalTyped
<1>2. UNCHANGED <<opt, rented, recruited, rec, stuck>>
  BY DEF RentUniform, RentMixed
<1>3. ASSUME NEW name \in Nat, Grant(Deploy(name))
      PROVE  Deploy(name) \in Pod /\ Granted(Deploy(name))
  BY <1>1, <1>2, <1>3 DEF Deploy, Grant, Granted, Pod
<1>4. Adopted' = Adopted
  BY <1>2 DEF Adopted
<1>5. {"rent", "mix"} \cap Gates = {}
  BY DEF Gates
<1>6. CASE RentUniform
  <2> DEFINE p == Deploy(Cardinality(drv.got) + 1)
             fleet == drv.got \cup {p}
             d == [drv EXCEPT !.got = fleet]
  <2>1. drv.pc = "rent" /\ Grant(p) /\ drv' = Write(d, fleet, "rent")
    BY <1>6 DEF RentUniform
  <2>2. Phase = "rent"
    BY <2>1 DEF Phase
  <2>3. drv.created = {} /\ IsFiniteSet(drv.got) /\ rec.pc = "off" /\ ~opt.adopt
    BY <1>1, <2>2 DEF PhaseSound
  <2>4. Cardinality(drv.got) \in Nat
    BY <2>3, FS_CardinalityType
  <2>5. p \in Pod /\ Granted(p)
    BY <1>3, <2>1, <2>4
  <2> HIDE DEF p
  <2>6. fleet \in SUBSET Pod /\ IsFiniteSet(fleet) /\ "rent" \in DriverPc
    BY <1>1, <2>3, <2>5, FS_AddElement DEF Driving, DriverPc
  <2> HIDE DEF fleet
  <2>7. d \in Driving /\ d.got = fleet /\ d.created = drv.created /\ d.swept = drv.swept /\ d.joined = drv.joined
    BY <1>1, <2>6 DEF Driving
  <2> HIDE DEF d
  <2>8. /\ drv' \in Driving /\ drv'.pc = "open" /\ drv'.then = "rent" /\ drv'.out = fleet /\ drv'.got = fleet
        /\ drv'.created = drv.created /\ drv'.swept = drv.swept /\ drv'.joined = drv.joined
    BY <2>1, <2>6, <2>7, WriteIs
  <2>9. Phase' = "rent"
    BY <2>8 DEF Phase
  <2>10. PhaseSound'
    BY <1>2, <1>5, <2>3, <2>6, <2>8, <2>9 DEF PhaseSound, Adopted
  <2>11. RentedSound'
    BY <2>3, <2>8 DEF RentedSound
  <2> USE DEF fleet
  <2> QED
    BY <1>2, <2>1, <2>5, <2>8, <2>10, <2>11, DriverRents
<1>7. CASE RentMixed
  <2> DEFINE p == Deploy(Cardinality(drv.created) + 1)
             fleet == drv.created \cup {p}
             d == [drv EXCEPT !.created = fleet]
  <2>1. drv.pc = "mix" /\ Grant(p) /\ drv' = Write(d, fleet, "mix")
    BY <1>7 DEF RentMixed
  <2>2. Phase = "mix"
    BY <2>1 DEF Phase
  <2>3. drv.got = {} /\ IsFiniteSet(drv.got) /\ IsFiniteSet(drv.created) /\ rec.pc = "off" /\ ~opt.adopt
    BY <1>1, <2>2 DEF PhaseSound
  <2>4. Cardinality(drv.created) \in Nat
    BY <2>3, FS_CardinalityType
  <2>5. p \in Pod /\ Granted(p)
    BY <1>3, <2>1, <2>4
  <2> HIDE DEF p
  <2>6. fleet \in SUBSET Pod /\ IsFiniteSet(fleet) /\ "mix" \in DriverPc
    BY <1>1, <2>3, <2>5, FS_AddElement DEF Driving, DriverPc
  <2> HIDE DEF fleet
  <2>7. d \in Driving /\ d.created = fleet /\ d.got = drv.got /\ d.swept = drv.swept /\ d.joined = drv.joined
    BY <1>1, <2>6 DEF Driving
  <2> HIDE DEF d
  <2>8. /\ drv' \in Driving /\ drv'.pc = "open" /\ drv'.then = "mix" /\ drv'.out = fleet /\ drv'.created = fleet
        /\ drv'.got = drv.got /\ drv'.swept = drv.swept /\ drv'.joined = drv.joined
    BY <2>1, <2>6, <2>7, WriteIs
  <2>9. Phase' = "mix"
    BY <2>8 DEF Phase
  <2>10. PhaseSound'
    BY <1>2, <1>5, <2>3, <2>6, <2>8, <2>9 DEF PhaseSound, Adopted
  <2>11. RentedSound'
    BY <2>3, <2>8 DEF RentedSound
  <2> USE DEF fleet
  <2> QED
    BY <1>2, <2>1, <2>5, <2>8, <2>10, <2>11, DriverRents
<1> QED
  BY <1>6, <1>7

-----------------------------------------------------------------------------
(* The recruiter's thread.                                                 *)

(* While the thread runs the driver is past its gates. *)
LEMMA ThreadRuns ==
  ASSUME RentalInv, Recruiting
  PROVE  /\ drv.pc \notin {"done", "killed", "cleaned"} /\ rec.pc # "off"
         /\ Phase \notin {"adopt", "rent", "mix"} \cup Gates
  BY DEF Recruiting, Alive, RentalInv, PhaseSound

LEMMA ThreadStays == RentalInv /\ (Tick \/ NoCapacity \/ GateEnds \/ ReadyAppend \/ Reject) => RentalInv'
<1> SUFFICES ASSUME RentalInv, Tick \/ NoCapacity \/ GateEnds \/ ReadyAppend \/ Reject PROVE RentalInv'
  OBVIOUS
<1>1. rec \in Recruiter
  BY DEF RentalInv, RentalTyped
<1>2. UNCHANGED <<drv, granted, opt, rented, recruited>> /\ Recruiting
  BY DEF Tick, NoCapacity, GateEnds, ReadyAppend, Reject
<1>3. drv.pc \notin {"done", "cleaned"} /\ rec.pc # "off"
  BY <1>2, ThreadRuns
<1>4. CASE Tick
  <2>1. PICK t \in Targets :
          LET need == Wanted(Cardinality(drv.order), Cardinality(rec.gates), Cardinality(rec.ready), t)
              n == Min({need, Max({0, MAX_PARALLEL - Cardinality(rec.gates)})})
          IN  rec' = [rec EXCEPT !.target = t, !.n = n, !.pc = "rent"]
    BY <1>4 DEF Tick
  <2>2. \E n : rec' = [rec EXCEPT !.target = t, !.n = n, !.pc = "rent"]
    BY <2>1
  <2>3. PICK n : rec' = [rec EXCEPT !.target = t, !.n = n, !.pc = "rent"]
    BY <2>2
  <2>4. rec.pc = "sleep" /\ UNCHANGED <<live, stuck>>
    BY <1>4 DEF Tick
  <2>5. (rec \in Recruiter)'
    BY <1>1, <2>3 DEF Recruiter
  <2>6. SubListsKept
    BY <1>1, <2>3, <2>4 DEF Recruiter, SubListsKept, InGates
  <2> QED
    BY <1>2, <1>3, <2>4, <2>5, <2>6, CalmAlone, DriverStays
<1>5. CASE NoCapacity
  <2>1. rec' = [rec EXCEPT !.pc = "sleep", !.n = 0] /\ rec.pc = "rent" /\ UNCHANGED <<live, stuck>>
    BY <1>5 DEF NoCapacity
  <2>2. (rec \in Recruiter)'
    BY <1>1, <2>1 DEF Recruiter
  <2>3. SubListsKept
    BY <1>1, <2>1 DEF Recruiter, SubListsKept, InGates
  <2> QED
    BY <1>2, <1>3, <2>1, <2>2, <2>3, CalmAlone, DriverStays
<1>6. CASE GateEnds
  <2>1. PICK p \in rec.gates :
          \/ rec' = [rec EXCEPT !.gates = rec.gates \ {p}, !.passed = rec.passed \cup {p}]
          \/ rec' = [rec EXCEPT !.gates = rec.gates \ {p}, !.failed = rec.failed \cup {p}]
    BY <1>6 DEF GateEnds
  <2>2. p \in Pod
    BY <1>1 DEF Recruiter
  <2>3. ASSUME rec' = [rec EXCEPT !.gates = rec.gates \ {p}, !.passed = rec.passed \cup {p}]
        PROVE  (rec \in Recruiter)' /\ SubListsKept
    <3>1. (rec \in Recruiter)'
      BY <1>1, <2>2, <2>3 DEF Recruiter
    <3>2. SubListsKept
      BY <1>1, <2>1, <2>3 DEF Recruiter, SubListsKept, InGates
    <3> QED
      BY <3>1, <3>2
  <2>4. ASSUME rec' = [rec EXCEPT !.gates = rec.gates \ {p}, !.failed = rec.failed \cup {p}]
        PROVE  (rec \in Recruiter)' /\ SubListsKept
    <3>1. (rec \in Recruiter)'
      BY <1>1, <2>2, <2>4 DEF Recruiter
    <3>2. SubListsKept
      BY <1>1, <2>1, <2>4 DEF Recruiter, SubListsKept, InGates
    <3> QED
      BY <3>1, <3>2
  <2>5. UNCHANGED <<live, stuck>>
    BY <1>6 DEF GateEnds
  <2> QED
    BY <1>2, <1>3, <2>1, <2>3, <2>4, <2>5, CalmAlone, DriverStays
<1>7. CASE ReadyAppend
  <2>1. PICK p \in rec.passed : rec' = [rec EXCEPT !.passed = rec.passed \ {p}, !.ready = rec.ready \cup {p}]
    BY <1>7 DEF ReadyAppend
  <2>2. p \in Pod
    BY <1>1 DEF Recruiter
  <2>3. (rec \in Recruiter)'
    BY <1>1, <2>1, <2>2 DEF Recruiter
  <2>4. SubListsKept
    BY <1>1, <2>1 DEF Recruiter, SubListsKept, InGates
  <2>5. UNCHANGED <<live, stuck>>
    BY <1>7 DEF ReadyAppend
  <2> QED
    BY <1>2, <1>3, <2>3, <2>4, <2>5, CalmAlone, DriverStays
<1>8. CASE Reject
  <2>1. PICK p \in rec.failed : rec' = [rec EXCEPT !.failed = rec.failed \ {p}] /\ TerminateConfirmed({p})
    BY <1>8 DEF Reject
  <2>2. (rec \in Recruiter)'
    BY <1>1, <2>1 DEF Recruiter
  <2>3. SubListsKept
    BY <1>1, <2>1 DEF Recruiter, SubListsKept, InGates
  <2>4. Calm
    BY <2>1, Terminated
  <2> QED
    BY <1>2, <1>3, <2>2, <2>3, <2>4, DriverStays
<1> QED
  BY <1>4, <1>5, <1>6, <1>7, <1>8

(* A recruit is granted, appended, and written down. *)
LEMMA RecruitIsRented == RentalInv /\ RecruitRent => RentalInv'
<1> SUFFICES ASSUME RentalInv, RecruitRent PROVE RentalInv'
  OBVIOUS
<1>0. rec \in Recruiter /\ granted \in 0..MaxPods /\ MaxPods \in Nat /\ Want \in Nat
  BY Bounds DEF RentalInv, RentalTyped
<1>1. PICK p : p = Deploy(Want + granted + 1)
  OBVIOUS
<1>2. /\ Recruiting /\ rec.pc = "rent" /\ Grant(p) /\ rec' = [rec EXCEPT !.pc = "append", !.hand = p]
      /\ UNCHANGED <<opt, drv, rented, recruited, stuck>>
  BY <1>1 DEF RecruitRent
<1>3. p \in Pod /\ Granted(p)
  BY <1>1, <1>2, <1>0 DEF Deploy, Grant, Granted, Pod
<1>4. /\ p \notin OldRecord \cup Known \cup rec.list \cup InGates \cup drv.swept
      /\ \A q : OfThisRun(q) => OfThisRun(q)'
      /\ OfThisRun(p)'
      /\ Ours' \subseteq Ours \cup {p}
  BY <1>3, NewIsInNoList
<1>5. /\ rec'.pc = "append" /\ rec'.hand = p /\ rec'.list = rec.list /\ rec'.gates = rec.gates
      /\ rec'.passed = rec.passed /\ rec'.failed = rec.failed /\ rec'.ready = rec.ready
  BY <1>2, <1>0 DEF Recruiter
<1>6. (rec \in Recruiter)'
  BY <1>2, <1>0, <1>3 DEF Recruiter
<1>7. RentalTyped'
  BY <1>2, <1>3, <1>6 DEF RentalInv, RentalTyped, Granted
<1>8. IdsSound'
  <2>1. \A q \in live' : q.id >= 0
    <3>1. p.id >= 0
      BY <1>0, <1>3 DEF Granted
    <3> QED
      BY <1>3, <3>1 DEF RentalInv, IdsSound, Granted
  <2>2. InGates' = InGates /\ OldRecord' = OldRecord
    BY <1>5 DEF InGates, OldRecord
  <2>3. \A q \in (rec.list \cup InGates \cup drv.swept)' : OfThisRun(q)'
    BY <1>2, <1>4, <1>5, <2>2 DEF RentalInv, IdsSound
  <2>4. \A q \in (drv.got \cup drv.created \cup drv.joined)' : OfThisRun(q)' \/ q \in OldRecord'
    BY <1>2, <1>4, <2>2 DEF RentalInv, IdsSound
  <2> QED
    BY <1>4, <1>5, <2>1, <2>3, <2>4 DEF IdsSound, OfThisRun
<1>9. drv.pc \notin {"done", "killed", "cleaned"} /\ Phase \notin {"adopt", "rent", "mix"} \cup Gates
  BY <1>2, ThreadRuns
<1>10. PhaseSound'
  <2>1. Phase' = Phase /\ Adopted' = Adopted /\ OldRecord' = OldRecord
    BY <1>2 DEF Phase, Adopted, OldRecord
  <2> QED
    BY <1>2, <1>9, <2>1 DEF RentalInv, PhaseSound
<1>11. RentedSound'
  BY <1>2, <1>3, <1>4 DEF RentalInv, RentedSound, Granted, Known
<1>12. RecruitedSound'
  BY <1>2, <1>5 DEF RentalInv, RecruitedSound
<1>13. rec.hand = NoPod /\ NoPod \notin Ours /\ Ours' \subseteq Ours \cup {p}
  BY <1>2, <1>4, Bounds DEF RentalInv, IdsSound, Ours
<1>14. Billing'
  BY <1>2, <1>3, <1>4, <1>5, <1>13 DEF RentalInv, Billing, Granted
<1>15. CleanupFindsAll' /\ TeardownReleases'
  BY <1>2, <1>9 DEF CleanupFindsAll, TeardownReleases
<1> QED
  BY <1>7, <1>8, <1>10, <1>11, <1>12, <1>14, <1>15 DEF RentalInv

LEMMA RecruitIsRecorded == RentalInv /\ (RecruitAppend \/ RecruitOpen \/ RecruitDump) => RentalInv'
<1> SUFFICES ASSUME RentalInv, RecruitAppend \/ RecruitOpen \/ RecruitDump PROVE RentalInv'
  OBVIOUS
<1>1. rec \in Recruiter /\ recruited \in Files
  BY DEF RentalInv, RentalTyped
<1>2. UNCHANGED <<live, granted, opt, drv, rented, stuck>> /\ Recruiting
  BY DEF RecruitAppend, RecruitOpen, RecruitDump
<1>3. /\ drv.pc \notin {"done", "killed", "cleaned"} /\ rec.pc # "off"
      /\ Phase \notin {"adopt", "rent", "mix"} \cup Gates
  BY <1>2, ThreadRuns
<1>4. OfThisRun(rec.hand) /\ rec.pc \in {"append", "open", "dump"}
  <2>1. rec.pc \in {"append", "open", "dump"}
    BY DEF RecruitAppend, RecruitOpen, RecruitDump
  <2> QED
    BY <2>1 DEF RentalInv, IdsSound
<1>5. /\ (rec \in Recruiter)' /\ recruited' \in Files
      /\ rec'.list \subseteq rec.list \cup {rec.hand} /\ rec.list \subseteq rec'.list
      /\ rec'.gates \subseteq rec.gates \cup {rec.hand}
      /\ rec'.passed = rec.passed /\ rec'.failed = rec.failed /\ rec'.ready = rec.ready
      /\ \/ rec'.pc \in {"open", "dump"} /\ rec'.hand = rec.hand /\ rec.hand \in rec'.list
         \/ rec'.pc \in {"rent", "sleep"} /\ rec'.hand = NoPod /\ rec.hand \in rec'.list
      /\ RecruitedSound'
  <2>1. CASE RecruitAppend
    <3>1. rec' = [rec EXCEPT !.list = rec.list \cup {rec.hand}, !.pc = "open"] /\ rec.pc = "append"
          /\ recruited' = recruited
      BY <2>1 DEF RecruitAppend
    <3>2. rec.hand \in Pod /\ rec.list \in SUBSET Pod
      BY <1>1 DEF Recruiter
    <3>3. (rec \in Recruiter)'
      BY <1>1, <3>1, <3>2 DEF Recruiter
    <3>4. /\ rec'.list = rec.list \cup {rec.hand} /\ rec'.pc = "open" /\ rec'.hand = rec.hand
          /\ rec'.gates = rec.gates /\ rec'.passed = rec.passed /\ rec'.failed = rec.failed
          /\ rec'.ready = rec.ready
      BY <1>1, <3>1 DEF Recruiter
    <3>5. RecruitedSound'
      BY <1>2, <1>3, <3>1, <3>4 DEF RentalInv, RecruitedSound
    <3> QED
      BY <1>1, <3>1, <3>3, <3>4, <3>5
  <2>2. CASE RecruitOpen
    <3>1. rec' = [rec EXCEPT !.pc = "dump"] /\ rec.pc = "open" /\ recruited' = Torn
      BY <2>2 DEF RecruitOpen
    <3>2. (rec \in Recruiter)'
      BY <1>1, <3>1 DEF Recruiter
    <3>3. /\ rec'.list = rec.list /\ rec'.pc = "dump" /\ rec'.hand = rec.hand
          /\ rec'.gates = rec.gates /\ rec'.passed = rec.passed /\ rec'.failed = rec.failed
          /\ rec'.ready = rec.ready
      BY <1>1, <3>1 DEF Recruiter
    <3>4. rec.hand \in rec.list
      BY <3>1 DEF RentalInv, RecruitedSound
    <3>5. RecruitedSound'
      BY <1>2, <3>1, <3>3, <3>4 DEF RecruitedSound
    <3> QED
      BY <1>1, <3>1, <3>2, <3>3, <3>4, <3>5, Bounds
  <2>3. CASE RecruitDump
    <3> DEFINE to == IF rec.n > 1 THEN "rent" ELSE "sleep"
    <3>1. /\ rec' = [rec EXCEPT !.gates = rec.gates \cup {rec.hand}, !.hand = NoPod, !.n = rec.n - 1,
                                !.pc = to]
          /\ rec.pc = "dump" /\ recruited' = File(rec.list)
      BY <2>3 DEF RecruitDump, RecruitRecord
    <3>2. rec.hand \in Pod /\ rec.list \in SUBSET Pod /\ rec.gates \in SUBSET Pod /\ NoPod \in Pod
      BY <1>1, Bounds DEF Recruiter
    <3>3. to \in {"rent", "sleep"}
      OBVIOUS
    <3> HIDE DEF to
    <3>4. (rec \in Recruiter)'
      BY <1>1, <3>1, <3>2, <3>3 DEF Recruiter
    <3>5. /\ rec'.list = rec.list /\ rec'.pc = to /\ rec'.hand = NoPod
          /\ rec'.gates = rec.gates \cup {rec.hand} /\ rec'.passed = rec.passed /\ rec'.failed = rec.failed
          /\ rec'.ready = rec.ready
      BY <1>1, <3>1 DEF Recruiter
    <3>6. rec.hand \in rec.list
      BY <3>1 DEF RentalInv, RecruitedSound
    <3>7. recruited' \in Files /\ recruited' # Torn /\ recruited'.pods = rec.list
      BY <3>1, <3>2, Bounds
    <3>8. RecruitedSound'
      BY <3>3, <3>5, <3>7 DEF RecruitedSound
    <3> QED
      BY <1>1, <3>3, <3>4, <3>5, <3>6, <3>7, <3>8
  <2> QED
    BY <2>1, <2>2, <2>3
<1>6. RentalTyped'
  BY <1>2, <1>5 DEF RentalInv, RentalTyped
<1>7. IdsSound'
  <2>1. (\A q : OfThisRun(q)' <=> OfThisRun(q)) /\ OldRecord' = OldRecord
    BY <1>2 DEF OfThisRun, OldRecord
  <2>2. \A q \in (rec.list \cup InGates \cup drv.swept)' : OfThisRun(q)'
    BY <1>2, <1>4, <1>5, <2>1 DEF RentalInv, IdsSound, InGates
  <2>3. \A q \in (drv.got \cup drv.created \cup drv.joined)' : OfThisRun(q)' \/ q \in OldRecord'
    BY <1>2, <2>1 DEF RentalInv, IdsSound
  <2>4. OfThisRun(rec.hand)' \/ rec'.pc \notin {"append", "open", "dump"}
    BY <1>2, <1>4, <1>5 DEF OfThisRun
  <2>5. rec'.pc \notin {"append", "open", "dump"} => rec'.hand = NoPod
    BY <1>5
  <2> QED
    BY <1>2, <2>2, <2>3, <2>4, <2>5 DEF RentalInv, IdsSound, NoPod
<1>8. PhaseSound'
  <2>1. Phase' = Phase /\ Adopted' = Adopted /\ OldRecord' = OldRecord
    BY <1>2 DEF Phase, Adopted, OldRecord
  <2> QED
    BY <1>2, <1>3, <2>1 DEF RentalInv, PhaseSound
<1>9. RentedSound'
  BY <1>2 DEF RentalInv, RentedSound
<1>10. Billing'
  <2>1. Ours' = Ours
    BY <1>2 DEF Ours, Foreign, OldRecord
  <2>2. rec.list \cup {rec.hand} \subseteq rec'.list
    BY <1>5
  <2> QED
    BY <1>2, <2>1, <2>2 DEF RentalInv, Billing
<1>11. CleanupFindsAll' /\ TeardownReleases'
  BY <1>2, <1>3 DEF CleanupFindsAll, TeardownReleases
<1> QED
  BY <1>5, <1>6, <1>7, <1>8, <1>9, <1>10, <1>11 DEF RentalInv

-----------------------------------------------------------------------------
(* The teardown, a kill, and --cleanup.                                    *)

(* The frame of a step that only ends pods, after the session. *)
LEMMA OnlyEnds ==
  ASSUME RentalInv, Calm, UNCHANGED <<granted, opt, recruited, rec>>, rented' \in Files, drv' \in Driving,
         drv'.got = drv.got, drv'.created = drv.created, drv'.joined = drv.joined,
         drv'.swept \subseteq drv.swept \cup rec.list,
         drv'.pc \in {"release", "done", "killed", "cleaned"}
  PROVE  RentalTyped' /\ IdsSound' /\ PhaseSound' /\ Ours' \subseteq Ours /\ Ours' \cap stuck \subseteq stuck'
<1>1. RentalTyped'
  <2>1. live' \in SUBSET Pod /\ stuck' \in SUBSET Pod
    BY DEF Calm, RentalInv, RentalTyped
  <2> QED
    BY <2>1, RecStays DEF RentalInv, RentalTyped
<1>2. IdsSound'
  <2>1. live' \subseteq live /\ InGates' = InGates /\ OldRecord' = OldRecord /\ NoPod' = NoPod
    BY DEF Calm, InGates, OldRecord, NoPod
  <2>2. \A q : OfThisRun(q)' <=> OfThisRun(q)
    BY DEF OfThisRun
  <2>3. \A q \in live' : q.id >= 0
    BY <2>1 DEF RentalInv, IdsSound
  <2>4. \A q \in (rec.list \cup InGates \cup drv.swept)' : OfThisRun(q)'
    BY <2>1, <2>2 DEF RentalInv, IdsSound
  <2>5. \A q \in (drv.got \cup drv.created \cup drv.joined)' : OfThisRun(q)' \/ q \in OldRecord'
    BY <2>1, <2>2 DEF RentalInv, IdsSound
  <2>6. OfThisRun(rec.hand)' <=> OfThisRun(rec.hand)
    BY DEF OfThisRun
  <2> QED
    BY <2>1, <2>3, <2>4, <2>5, <2>6 DEF RentalInv, IdsSound
<1>3. PhaseSound'
  <2>1. {"release", "done", "killed", "cleaned"} \cap (Gates \cup {"rent", "mix", "session", "stop"}) = {}
    BY DEF Gates
  <2>2. drv'.pc \notin {"open", "dump"} /\ Phase' = drv'.pc
    BY DEF Phase
  <2>3. (drv.got = {} \/ drv.created = {}) /\ IsFiniteSet(drv.got)
    BY DEF RentalInv, PhaseSound
  <2>4. Phase' \notin {"adopt", "rent", "mix", "session", "grow"} \cup Gates
    BY <2>1, <2>2
  <2> QED
    BY <2>2, <2>3, <2>4 DEF PhaseSound
<1>4. Ours' \subseteq Ours /\ Ours' \cap stuck \subseteq stuck'
  BY DEF Ours, Calm, Foreign, OldRecord
<1> QED
  BY <1>1, <1>2, <1>3, <1>4

LEMMA OrphansEnd == RentalInv /\ ReleaseOrphans => RentalInv'
<1> SUFFICES ASSUME RentalInv, ReleaseOrphans PROVE RentalInv'
  OBVIOUS
<1>1. drv \in Driving /\ rented \in Files /\ rec \in Recruiter
  BY DEF RentalInv, RentalTyped
<1>2. /\ drv.pc = "orphans" /\ TerminateConfirmed(rec.list \ drv.created)
      /\ drv' = [drv EXCEPT !.pc = "release", !.swept = rec.list]
      /\ UNCHANGED <<granted, opt, rented, recruited, rec>>
  BY DEF ReleaseOrphans, OrphanRecruits
<1>3. Calm /\ live' \cap (rec.list \ drv.created) \subseteq stuck'
  BY <1>2, Terminated
<1>4. /\ drv' \in Driving /\ drv'.pc = "release" /\ drv'.swept = rec.list /\ drv'.got = drv.got
      /\ drv'.created = drv.created /\ drv'.joined = drv.joined /\ drv'.out = drv.out
  <2>1. rec.list \in SUBSET Pod /\ "release" \in DriverPc
    BY <1>1 DEF Recruiter, DriverPc
  <2> QED
    BY <1>1, <1>2, <2>1 DEF Driving
<1>5. RentalTyped' /\ IdsSound' /\ PhaseSound' /\ Ours' \subseteq Ours /\ Ours' \cap stuck \subseteq stuck'
  BY <1>1, <1>2, <1>3, <1>4, OnlyEnds
<1>6. RentedSound'
  <2>1. live' \cap stuck \subseteq stuck' /\ live' \subseteq live
    BY <1>3 DEF Calm
  <2> QED
    BY <1>2, <1>4, <2>1 DEF RentalInv, RentedSound
<1>7. RecruitedSound'
  BY <1>2, <1>4 DEF RentalInv, RecruitedSound
<1>8. Billing'
  <2>1. Ours' \subseteq live'
    BY DEF Ours
  <2> QED
    BY <1>2, <1>3, <1>4, <1>5, <2>1 DEF RentalInv, Billing
<1>9. CleanupFindsAll' /\ TeardownReleases'
  BY <1>4 DEF CleanupFindsAll, TeardownReleases
<1> QED
  BY <1>5, <1>6, <1>7, <1>8, <1>9 DEF RentalInv

LEMMA FleetEnds == RentalInv /\ ReleaseFleet => RentalInv'
<1> SUFFICES ASSUME RentalInv, ReleaseFleet PROVE RentalInv'
  OBVIOUS
<1>1. drv \in Driving /\ rented \in Files
  BY DEF RentalInv, RentalTyped
<1>2. /\ drv.pc = "release" /\ drv' = [drv EXCEPT !.pc = "done"]
      /\ IF LeftRunning THEN UNCHANGED <<live, stuck>> ELSE TerminateConfirmed(drv.created)
      /\ UNCHANGED <<granted, opt, recruited, rec>>
  BY DEF ReleaseFleet
<1>3. rented' = rented \/ (rented' = NoFile /\ ~LeftRunning)
  BY DEF ReleaseFleet
<1>4. Calm /\ (~LeftRunning => live' \cap drv.created \subseteq stuck')
  BY <1>2, Terminated, CalmAlone
<1>5. /\ drv' \in Driving /\ drv'.pc = "done" /\ drv'.swept = drv.swept /\ drv'.got = drv.got
      /\ drv'.created = drv.created /\ drv'.joined = drv.joined /\ drv'.out = drv.out
  BY <1>1, <1>2 DEF Driving, DriverPc
<1>6. rented' \in Files
  BY <1>1, <1>3, Bounds
<1>7. RentalTyped' /\ IdsSound' /\ PhaseSound' /\ Ours' \subseteq Ours /\ Ours' \cap stuck \subseteq stuck'
  BY <1>2, <1>4, <1>5, <1>6, OnlyEnds
<1>8. RentedSound'
  <2>1. live' \cap stuck \subseteq stuck' /\ live' \subseteq live
    BY <1>4 DEF Calm
  <2> QED
    BY <1>2, <1>3, <1>4, <1>5, <2>1 DEF RentalInv, RentedSound
<1>9. RecruitedSound'
  BY <1>2, <1>5 DEF RentalInv, RecruitedSound
<1>10. Billing'
  BY <1>2, <1>5, <1>7 DEF RentalInv, Billing
<1>11. TeardownReleases'
  <2> SUFFICES ASSUME ~opt.keep, ~opt.adopt
               PROVE  Ours' \subseteq stuck' \cup Forgotten' \cup ((rec.list \cup InHand) \ drv.swept)'
    BY <1>2 DEF TeardownReleases
  <2>1. live' \cap drv.created \subseteq stuck'
    BY <1>4 DEF LeftRunning, Adopted
  <2>2. Ours \subseteq stuck \cup drv.got \cup drv.created \cup ((rec.list \cup {rec.hand}) \ drv.swept)
    BY <1>2 DEF RentalInv, Billing
  <2>3. Ours' \subseteq live' /\ NoPod \notin Ours
    BY Bounds DEF Ours, RentalInv, IdsSound
  <2>4. Forgotten' = drv.got \ drv.created /\ {rec.hand} \ {NoPod} \subseteq InHand'
    BY <1>2, <1>5 DEF Forgotten, InHand, NoPod
  <2> QED
    BY <1>2, <1>5, <1>7, <2>1, <2>2, <2>3, <2>4
<1>12. CleanupFindsAll'
  BY <1>5 DEF CleanupFindsAll
<1> QED
  BY <1>7, <1>8, <1>9, <1>10, <1>11, <1>12 DEF RentalInv

LEMMA DriverIsKilled == RentalInv /\ Kill => RentalInv'
<1> SUFFICES ASSUME RentalInv, Kill PROVE RentalInv'
  OBVIOUS
<1>1. /\ drv.pc \notin {"done", "cleaned"} /\ drv' = [drv EXCEPT !.pc = "killed"]
      /\ UNCHANGED <<live, granted, opt, rented, recruited, rec, stuck>>
  BY DEF Kill, Alive
<1> QED
  BY <1>1, CalmAlone, RecStays, GoesOn

(* A pod of this run that bills, while the records are whole, is named by *)
(* one of them, or is one of the exceptions.                              *)
LEMMA RecordsNameAll == RentalInv => KillIsRecoverable
<1> SUFFICES ASSUME RentalInv, rented # Torn, recruited # Torn, drv.pc # "cleaned"
             PROVE  Ours \subseteq rented.pods \cup recruited.pods \cup stuck \cup InHand \cup Forgotten
  BY DEF KillIsRecoverable
<1>1. Ours \subseteq live /\ NoPod \notin Ours
  BY Bounds DEF Ours, RentalInv, IdsSound
<1>2. drv.created \cap live \subseteq stuck \cup rented.pods \cup drv.out
  BY DEF RentalInv, RentedSound
<1>3. rec.list \subseteq recruited.pods \cup {rec.hand}
  BY DEF RentalInv, RecruitedSound
<1>4. Ours \subseteq stuck \cup drv.got \cup drv.created \cup rec.list \cup {rec.hand}
  BY DEF RentalInv, Billing
<1> QED
  BY <1>1, <1>2, <1>3, <1>4 DEF InHand, Forgotten

LEMMA CleanupEnds == RentalInv /\ Cleanup => RentalInv'
<1> SUFFICES ASSUME RentalInv, Cleanup PROVE RentalInv'
  OBVIOUS
<1>1. drv \in Driving /\ rented \in Files /\ recruited \in Files
  BY DEF RentalInv, RentalTyped
<1> DEFINE named == rented.pods \cup recruited.pods
<1>2. /\ drv.pc \in {"killed", "done"} /\ TerminateConfirmed(named)
      /\ IF named # {} /\ named \cap live' = {}
           THEN rented' = NoFile /\ recruited' = NoFile
           ELSE UNCHANGED <<rented, recruited>>
      /\ drv' = [drv EXCEPT !.pc = IF named \cap live' = {} THEN "cleaned" ELSE "killed",
                            !.then = IF Torn \in {rented, recruited} THEN "torn" ELSE drv.then]
      /\ UNCHANGED <<granted, opt, rec>>
  BY DEF Cleanup, BothRecords
<1>3. Calm
  BY <1>2, Terminated
<1>4. /\ drv' \in Driving /\ drv'.pc = (IF named \cap live' = {} THEN "cleaned" ELSE "killed")
      /\ drv'.then = (IF Torn \in {rented, recruited} THEN "torn" ELSE drv.then)
      /\ drv'.swept = drv.swept /\ drv'.got = drv.got
      /\ drv'.created = drv.created /\ drv'.joined = drv.joined /\ drv'.out = drv.out
  <2> DEFINE to == IF named \cap live' = {} THEN "cleaned" ELSE "killed"
             mark == IF Torn \in {rented, recruited} THEN "torn" ELSE drv.then
  <2>1. to \in DriverPc /\ mark \in DriverPc \cup {"none", "torn"}
    BY <1>1 DEF DriverPc, Driving
  <2>2. drv' = [drv EXCEPT !.pc = to, !.then = mark]
    BY <1>2
  <2> HIDE DEF to, mark
  <2>3. /\ drv' \in Driving /\ drv'.pc = to /\ drv'.then = mark /\ drv'.swept = drv.swept /\ drv'.got = drv.got
        /\ drv'.created = drv.created /\ drv'.joined = drv.joined /\ drv'.out = drv.out
    BY <1>1, <2>1, <2>2 DEF Driving
  <2> QED
    BY <2>3 DEF to, mark
<1> HIDE DEF named
<1>5. rented' \in Files /\ recruited' \in Files
  BY <1>1, <1>2, Bounds
<1>6. (live' \in SUBSET Pod /\ stuck' \in SUBSET Pod) /\ live' \subseteq live
  BY <1>3 DEF Calm, RentalInv, RentalTyped
<1>7. RentalTyped'
  BY <1>2, <1>4, <1>5, <1>6, RecStays DEF RentalInv, RentalTyped
<1>8. IdsSound'
  <2>1. InGates' = InGates /\ OldRecord' = OldRecord /\ NoPod' = NoPod
    BY <1>2 DEF InGates, OldRecord, NoPod
  <2>2. \A q : OfThisRun(q)' <=> OfThisRun(q)
    BY <1>2 DEF OfThisRun
  <2>3. \A q \in live' : q.id >= 0
    BY <1>6 DEF RentalInv, IdsSound
  <2>4. \A q \in (rec.list \cup InGates \cup drv.swept)' : OfThisRun(q)'
    BY <1>2, <1>4, <2>1, <2>2 DEF RentalInv, IdsSound
  <2>5. \A q \in (drv.got \cup drv.created \cup drv.joined)' : OfThisRun(q)' \/ q \in OldRecord'
    BY <1>2, <1>4, <2>1, <2>2 DEF RentalInv, IdsSound
  <2>6. OfThisRun(rec.hand)' <=> OfThisRun(rec.hand)
    BY <1>2 DEF OfThisRun
  <2> QED
    BY <1>2, <2>1, <2>3, <2>4, <2>5, <2>6 DEF RentalInv, IdsSound
<1>9. PhaseSound'
  <2>1. Phase' = drv'.pc /\ drv'.pc \in {"killed", "cleaned"}
    BY <1>4 DEF Phase
  <2>2. {"killed", "cleaned"} \cap Gates = {}
    BY DEF Gates
  <2> QED
    BY <1>4, <2>1, <2>2 DEF RentalInv, PhaseSound
<1>10. Ours' \subseteq Ours /\ Ours' \cap stuck \subseteq stuck' /\ Ours' \subseteq live'
  BY <1>2, <1>3 DEF Ours, Calm, Foreign, OldRecord
<1>11. Billing'
  BY <1>2, <1>4, <1>10 DEF RentalInv, Billing
<1>12. TeardownReleases'
  BY <1>4 DEF TeardownReleases
<1>13. CASE named \cap live' = {}
  <2>1. drv'.pc = "cleaned"
    BY <1>4, <1>13
  <2>2. RentedSound' /\ RecruitedSound'
    BY <1>2, <2>1 DEF RentalInv, RentedSound, RecruitedSound
  <2>3. CleanupFindsAll'
    <3> SUFFICES ASSUME drv'.then # "torn" PROVE Ours' \subseteq stuck' \cup InHand' \cup Forgotten'
      BY DEF CleanupFindsAll
    <3>1. rented # Torn /\ recruited # Torn
      BY <1>4
    <3>2. Ours \subseteq named \cup stuck \cup InHand \cup Forgotten
      BY <1>2, <3>1, RecordsNameAll DEF KillIsRecoverable, named
    <3>3. InHand' = InHand /\ Forgotten' = Forgotten
      BY <1>2, <1>4 DEF InHand, Forgotten, NoPod
    <3> QED
      BY <1>10, <1>13, <3>2, <3>3
  <2> QED
    BY <1>7, <1>8, <1>9, <1>11, <1>12, <2>2, <2>3 DEF RentalInv
<1>14. CASE named \cap live' # {}
  <2>1. drv'.pc = "killed" /\ UNCHANGED <<rented, recruited>>
    BY <1>2, <1>4, <1>14
  <2>2. RentedSound'
    <3>1. live' \cap stuck \subseteq stuck' /\ live' \subseteq live
      BY <1>3 DEF Calm
    <3> QED
      BY <1>2, <1>4, <2>1, <3>1 DEF RentalInv, RentedSound
  <2>3. RecruitedSound'
    BY <1>2, <2>1 DEF RentalInv, RecruitedSound
  <2>4. CleanupFindsAll'
    BY <2>1 DEF CleanupFindsAll
  <2> QED
    BY <1>7, <1>8, <1>9, <1>11, <1>12, <2>2, <2>3, <2>4 DEF RentalInv
<1> QED
  BY <1>13, <1>14

-----------------------------------------------------------------------------
(* The invariant, and the properties.                                      *)

LEMMA RentalStarts == Init => RentalInv
<1> SUFFICES ASSUME Init PROVE RentalInv
  OBVIOUS
<1>1. /\ granted = 0 /\ stuck = {} /\ rented = NoFile /\ recruited = NoFile
      /\ opt \in Options
      /\ rec = [pc |-> "off", n |-> 0, target |-> 0, stop |-> FALSE, list |-> {}, hand |-> NoPod,
                gates |-> {}, passed |-> {}, failed |-> {}, ready |-> {}]
  BY DEF Init
<1>2. PICK at \in {"adopt", "rent"} :
        /\ at = "rent" => ~opt.adopt
        /\ drv = [pc |-> at, type |-> 1, got |-> {}, out |-> {},
                  then |-> "none", created |-> {}, order |-> {}, agg |-> NoPod, joined |-> {},
                  cut |-> {}, swept |-> {}]
  BY DEF Init
<1>3. live \subseteq Foreign \cup OldRecord
  BY DEF Init
<1>4. Foreign \in SUBSET Pod /\ OldRecord \in SUBSET Pod /\ \A p \in Foreign \cup OldRecord : p.id >= 0
  BY Bounds DEF Foreign, Pod
<1>5. NoPod \in Pod /\ NoFile \in Files /\ NoFile # Torn /\ NoFile.pods = {} /\ MaxPods \in Nat
  BY Bounds
<1>6. drv \in Driving
  <2>1. at \in DriverPc /\ {} \in SUBSET Pod /\ 1 \in Int
    BY DEF DriverPc
  <2> QED
    BY <1>2, <1>5, <2>1 DEF Driving
<1>7. rec \in Recruiter
  BY <1>1, <1>5 DEF Recruiter
<1>8. RentalTyped
  BY <1>1, <1>3, <1>4, <1>5, <1>6, <1>7 DEF RentalTyped
<1>9. /\ drv.pc = at /\ drv.got = {} /\ drv.created = {} /\ drv.joined = {} /\ drv.swept = {} /\ drv.out = {}
      /\ rec.pc = "off" /\ rec.hand = NoPod /\ rec.list = {} /\ InGates = {}
  BY <1>1, <1>2 DEF InGates
<1>10. IdsSound
  BY <1>3, <1>4, <1>9 DEF IdsSound
<1>11. PhaseSound
  <2>1. Phase = at /\ at \notin {"open", "dump", "mix", "session", "grow"} \cup Gates
    BY <1>9 DEF Phase, Gates
  <2> QED
    BY <1>2, <1>9, <2>1, FS_EmptySet DEF PhaseSound
<1>12. RentedSound /\ RecruitedSound
  BY <1>1, <1>5, <1>9 DEF RentedSound, RecruitedSound
<1>13. Ours = {}
  BY <1>3 DEF Ours
<1>14. Billing /\ CleanupFindsAll /\ TeardownReleases
  BY <1>9, <1>13 DEF Billing, CleanupFindsAll, TeardownReleases
<1> QED
  BY <1>8, <1>10, <1>11, <1>12, <1>14 DEF RentalInv

LEMMA RentalStep == RentalInv /\ [Next]_vars => RentalInv'
<1> SUFFICES ASSUME RentalInv, [Next]_vars PROVE RentalInv'
  OBVIOUS
<1>1. CASE UNCHANGED vars
  <2>1. /\ UNCHANGED <<live, granted, opt, drv, rented, recruited, rec, stuck>>
    BY <1>1 DEF vars
  <2>2. RentalTyped'
    BY <2>1, RecStays DEF RentalInv, RentalTyped
  <2>3. IdsSound'
    BY <2>1 DEF RentalInv, IdsSound, InGates, OfThisRun, OldRecord, NoPod
  <2>4. PhaseSound' /\ RentedSound' /\ RecruitedSound'
    BY <2>1 DEF RentalInv, PhaseSound, RentedSound, RecruitedSound, Phase, Adopted, OldRecord
  <2>5. Billing' /\ CleanupFindsAll' /\ TeardownReleases'
    BY <2>1 DEF RentalInv, Billing, CleanupFindsAll, TeardownReleases, Ours, Foreign, OldRecord, InHand, Forgotten, NoPod
  <2> QED
    BY <2>2, <2>3, <2>4, <2>5 DEF RentalInv
<1>2. CASE OpenRecord \/ DumpRecord
  BY <1>2, RecordIsWritten
<1>3. CASE Interrupt \/ SessionOver
  <2>1. drv.pc \notin {"release", "done", "cleaned"} /\ drv' = Exit(drv)
        /\ UNCHANGED <<live, granted, opt, rented, recruited, rec, stuck>>
    BY <1>3 DEF Interrupt, SessionOver, Trying
  <2> QED
    BY <2>1, LeavesTheBlock
<1>4. CASE Adopt \/ TypeFields \/ TypeFallsShort \/ EndMixed
  BY <1>4, FleetIsAdopted, TypeIsTheFleet, TypeIsDropped, MixIsOver
<1>5. CASE RentUniform \/ RentMixed
  BY <1>5, FleetIsRented
<1>6. CASE AnyGate
  BY <1>6, GateKeeps
<1>7. CASE Choose \/ GrowDrain \/ GrowAdmit
  BY <1>7, SessionStarts, FleetGrows
<1>8. CASE StopRecruiter \/ StopDrain
  BY <1>8, RecruiterStops
<1>9. CASE ReleaseOrphans \/ ReleaseFleet
  BY <1>9, OrphansEnd, FleetEnds
<1>10. CASE RecruiterThread
  BY <1>10, ThreadStays, RecruitIsRented, RecruitIsRecorded DEF RecruiterThread
<1>11. CASE Kill \/ Cleanup
  BY <1>11, DriverIsKilled, CleanupEnds
<1>12. Driver => \/ OpenRecord \/ DumpRecord \/ Interrupt \/ SessionOver
                 \/ Adopt \/ TypeFields \/ TypeFallsShort \/ EndMixed \/ RentUniform \/ RentMixed
                 \/ AnyGate \/ Choose \/ GrowDrain \/ GrowAdmit
                 \/ StopRecruiter \/ StopDrain \/ ReleaseOrphans \/ ReleaseFleet
  BY DEF Driver, AnyGate
<1> QED
  BY <1>1, <1>2, <1>3, <1>4, <1>5, <1>6, <1>7, <1>8, <1>9, <1>10, <1>11, <1>12 DEF Next

(* Where the pods are: every pod of this run that bills is in the list of the *)
(* thread that rented it, and the records name those lists.                   *)
THEOREM RentalInvariant == Spec => []RentalInv
<1> QED
  BY RentalStarts, RentalStep, PTL DEF Spec

(* Wherever the driver is killed, the two records together name every pod *)
(* this run rented that still bills, with the exceptions the property     *)
(* lists (rented.json, recruited.json).                                   *)
THEOREM KilledIsRecoverable == Spec => []KillIsRecoverable
<1> QED
  BY RentalInvariant, RecordsNameAll, PTL

(* --cleanup reports the account clean only when nothing of this run bills. *)
THEOREM CleanupIsThorough == Spec => []CleanupFindsAll
<1>1. RentalInv => CleanupFindsAll
  BY DEF RentalInv
<1> QED
  BY <1>1, RentalInvariant, PTL

(* The finally of a run releases the fleet and every recruit it swept. *)
THEOREM TeardownIsThorough == Spec => []TeardownReleases
<1>1. RentalInv => TeardownReleases
  BY DEF RentalInv
<1> QED
  BY <1>1, RentalInvariant, PTL

(* No step of a run that keeps its adopted fleet ends an adopted pod: the *)
(* gates release nothing, and no recruit is a pod of the old record.      *)
THEOREM AdoptedFleetIsKept == Spec => AdoptedOutlives
<1>1. RentalInv /\ [Next]_vars =>
        [Adopted /\ drv.pc # "killed" /\ drv.pc # "done" => OldRecord \cap live \subseteq live']_vars
  <2> SUFFICES ASSUME RentalInv, Next, Adopted, drv.pc # "killed", drv.pc # "done"
               PROVE  OldRecord \cap live \subseteq live'
    BY DEF vars
  <2>1. \A p : OfThisRun(p) => p \notin OldRecord
    <3>1. granted \in 0..MaxPods /\ MaxPods \in Nat
      BY Bounds DEF RentalInv, RentalTyped
    <3>2. \A p \in OldRecord : p.id > MaxPods /\ p \in Pod
      BY Bounds
    <3> QED
      BY <3>1, <3>2 DEF OfThisRun, Pod
  <2>2. (rec.list \cup InGates) \cap OldRecord = {}
    BY <2>1 DEF RentalInv, IdsSound
  <2>3. CASE live \subseteq live'
    BY <2>3
  <2>4. CASE Reject
    <3>1. PICK p \in rec.failed : TerminateConfirmed({p})
      BY <2>4 DEF Reject
    <3>2. live \ {p} \subseteq live'
      BY <3>1, Terminated
    <3> QED
      BY <2>2, <3>2 DEF InGates
  <2>5. CASE StopDrain
    <3>1. live \ rec.ready \subseteq live'
      BY <2>5, Terminated DEF StopDrain
    <3> QED
      BY <2>2, <3>1 DEF InGates
  <2>6. CASE ReleaseOrphans
    <3>1. live \ (rec.list \ drv.created) \subseteq live'
      BY <2>6, Terminated DEF ReleaseOrphans, OrphanRecruits
    <3> QED
      BY <2>2, <3>1
  <2>7. CASE ReleaseFleet
    BY <2>7 DEF ReleaseFleet, LeftRunning
  <2>8. CASE TypeFallsShort
    <3>1. drv.pc = "rent" /\ Phase = "rent" /\ opt.adopt
      BY <2>8 DEF TypeFallsShort, Phase, Adopted
    <3> QED
      BY <3>1 DEF RentalInv, PhaseSound
  <2>9. CASE AnyGate
    <3>1. GivesUp \/ Drops
      BY <2>9, GatesMove DEF RentalInv, Goes
    <3>2. live' = live
      BY <3>1, Released DEF GivesUp, Drops
    <3> QED
      BY <3>2
  <2>10. CASE RentUniform \/ RentMixed \/ RecruitRent
    BY <2>10 DEF RentUniform, RentMixed, RecruitRent, Grant
  <2>11. CASE \/ OpenRecord \/ DumpRecord \/ Interrupt \/ Adopt \/ TypeFields \/ EndMixed \/ Choose
              \/ GrowDrain \/ GrowAdmit \/ SessionOver \/ StopRecruiter \/ Kill
              \/ Tick \/ NoCapacity \/ RecruitAppend \/ RecruitOpen \/ RecruitDump \/ GateEnds \/ ReadyAppend
    <3>1. live' = live
      BY <2>11 DEF OpenRecord, DumpRecord, Interrupt, Adopt, TypeFields, EndMixed, Choose, GrowDrain,
           GrowAdmit, SessionOver, StopRecruiter, Kill, Tick, NoCapacity, RecruitAppend, RecruitOpen,
           RecruitDump, GateEnds, ReadyAppend
    <3> QED
      BY <3>1
  <2>12. ~Cleanup
    BY DEF Cleanup
  <2> QED
    BY <2>4, <2>5, <2>6, <2>7, <2>8, <2>9, <2>10, <2>11, <2>12 DEF Next, Driver, RecruiterThread, AnyGate
<1> QED
  BY <1>1, RentalInvariant, PTL DEF Spec, AdoptedOutlives

=============================================================================
