-------------------------- MODULE AggregateProofs --------------------------
(* What holds of the spine's two files and of its offsite copies for any
   number of blocks, folders, spine workers and crashes. *)
EXTENDS Aggregate, WellFoundedInduction, TLAPS

FolderState ==
  [at : {"idle", "check", "folding"}, left : SUBSET Range, pick : Range \cup {<<>>}]
SpinerState == [at : {"idle", "read", "made"}, was : 0..N, out : 0..N]
CopyState == [at : {"idle", "bytes", "bin", "json"}, json : Spine, bin : Spine]
ObjectState == [kind : {"bin", "json"}, hi : 0..N, by : Spiners \cup {Nobody}]

(* What a worker has in hand is a range, and so is all that is verified. *)
Typed ==
  /\ vr \subseteq Range
  /\ folder \in [Folders -> FolderState]
  /\ \A f \in Folders : folder[f].at # "idle" => folder[f].pick \in Range
  /\ json \in Spine /\ bin \in Spine /\ writing \in Spine
  /\ spiner \in [Spiners -> SpinerState]
  /\ copy \in CopyState
  /\ objects \subseteq ObjectState

(* Between its two replaces the coordinator has the new receipt in place and
   the old head advertised, which is a shorter one. *)
FilesInv ==
  /\ json.hi <= bin.hi
  /\ writing # NoSpine => writing = bin /\ json.hi < writing.hi

(* A head's height was advertised for one receipt only, so whatever the copy
   holds and the store has of one height is of one receipt. *)
CopyInv ==
  /\ copy.at # "idle" =>
       /\ copy.json.hi <= json.hi
       /\ copy.json.hi = json.hi => copy.json = json
       /\ \A o \in objects : o.hi = copy.json.hi => o.by = copy.json.by
  /\ copy.at \in {"bin", "json"} => copy.bin = copy.json
  /\ copy.at = "json" => Object("bin", copy.json) \in objects
  /\ \A o \in objects : o.hi <= json.hi /\ (o.hi = json.hi => o.by = json.by)

SpineInv == Typed /\ FilesInv /\ CopyInv /\ PairInStoreIsWhole

-----------------------------------------------------------------------------
LEMMA InitSpine == Init => SpineInv
<1> SUFFICES ASSUME Init PROVE SpineInv
  OBVIOUS
<1> USE AggregateAssumption
<1>1. NoSpine \in Spine
  BY DEF NoSpine, Spine
<1>2. Typed
  BY <1>1 DEF Init, Typed, Range, IdleFolder, FolderState, IdleSpiner, SpinerState,
              IdleCopy, CopyState
<1>3. FilesInv /\ CopyInv /\ PairInStoreIsWhole
  BY DEF Init, FilesInv, CopyInv, PairInStoreIsWhole, IdleCopy, NoSpine
<1> QED
  BY <1>2, <1>3 DEF SpineInv

(* A step that leaves the files, the copy and the store alone has only the
   types to keep. *)
LEMMA SpineUntouched ==
  ASSUME SpineInv, Typed', UNCHANGED <<files, copy, objects>>
  PROVE  SpineInv'
BY DEF SpineInv, FilesInv, CopyInv, PairInStoreIsWhole, files, Object

LEMMA ProvingKeeps ==
  ASSUME SpineInv, NEW h \in 1..N, Prove(h)
  PROVE  SpineInv'
<1>1. Typed'
  BY AggregateAssumption DEF SpineInv, Typed, Prove, Range, folds, files
<1> QED
  BY <1>1, SpineUntouched DEF Prove

LEMMA FoldingKeeps ==
  ASSUME SpineInv, NEW f \in Folders, FolderStep(f) \/ ClaimLost(f) \/ FolderDies(f)
  PROVE  SpineInv'
<1> DEFINE Took(x) == folder' = [folder EXCEPT ![f] = x]
<1>t. Typed
  BY DEF SpineInv
<1>f. folder[f] \in FolderState
  BY <1>t DEF Typed
<1>i. IdleFolder \in FolderState
  BY DEF IdleFolder, FolderState
<1>g. ASSUME folder[f].at # "idle"
      PROVE  Folding(f) \in FolderState /\ Folding(f).pick \in Range
  BY <1>t, <1>g DEF Typed, Folding, FolderState
<1>r. ASSUME NEW x \in FolderState, x.at # "idle" => x.pick \in Range, Took(x),
             vr' \subseteq Range, UNCHANGED <<files, spiner, copy, objects>>
      PROVE  SpineInv'
  <2>1. Typed'
    BY <1>t, <1>r DEF Typed, files
  <2> QED
    BY <2>1, <1>r, SpineUntouched
<1>1. CASE FoldAsk(f)
  <2>1. PICK q \in Foldable : Took([at |-> "check", left |-> Foldable, pick |-> q])
    BY <1>1 DEF FoldAsk
  <2>2. Foldable \subseteq Range
    BY DEF Foldable
  <2>3. [at |-> "check", left |-> Foldable, pick |-> q] \in FolderState
    BY <2>2 DEF FolderState
  <2> QED
    BY <1>1, <1>t, <1>r, <2>1, <2>2, <2>3 DEF FoldAsk, Typed
<1>2. CASE Claim(f)
  <2>1. CASE \E x \in NextPick(f) : Took(x)
    <3>1. PICK x \in NextPick(f) : Took(x)
      BY <2>1
    <3>2. x \in FolderState /\ (x.at # "idle" => x.pick \in Range)
      BY <1>f, <1>i, <3>1 DEF NextPick, FolderState, IdleFolder
    <3> QED
      BY <1>2, <1>t, <1>r, <3>1, <3>2 DEF Claim, Typed
  <2>2. CASE Took(Folding(f))
    BY <1>2, <1>t, <1>g, <1>r, <2>2 DEF Claim, Typed
  <2> QED
    BY <1>2, <2>1, <2>2 DEF Claim
<1>3. CASE FoldSubmit(f)
  <2>1. folder[f].pick \in Range
    BY <1>3, <1>t DEF FoldSubmit, Typed
  <2> QED
    BY <1>3, <1>t, <1>i, <1>r, <2>1 DEF FoldSubmit, Typed, IdleFolder
<1>4. CASE ClaimLost(f)
  BY <1>4, <1>t, <1>g, <1>r DEF ClaimLost, Typed
<1>5. CASE FolderDies(f)
  BY <1>5, <1>t, <1>i, <1>r DEF FolderDies, Typed, IdleFolder
<1> QED
  BY <1>1, <1>2, <1>3, <1>4, <1>5 DEF FolderStep

LEMMA ExpiryKeeps ==
  ASSUME SpineInv, NEW p \in Range, Expire(p)
  PROVE  SpineInv'
<1>1. Typed'
  BY DEF SpineInv, Typed, Expire, files
<1> QED
  BY <1>1, SpineUntouched DEF Expire

LEMMA SpineWorkKeeps ==
  ASSUME SpineInv, NEW w \in Spiners, SpinerStep(w) \/ SpineRefused(w)
  PROVE  SpineInv'
<1> DEFINE Took(x) == spiner' = [spiner EXCEPT ![w] = x]
<1>t. Typed
  BY DEF SpineInv
<1>n. N \in Nat \ {0}
  BY AggregateAssumption
<1>i. IdleSpiner \in SpinerState
  BY <1>n DEF IdleSpiner, SpinerState
<1>s. spiner[w] \in SpinerState /\ spiner[w].out \in 0..N
  BY <1>t DEF Typed, SpinerState
<1>c. ASSUME NEW nxt, NEW hi \in Chunks(nxt) PROVE hi \in 0..N
  BY <1>t, <1>n DEF Chunks, Typed, Range
<1>r. ASSUME NEW x \in SpinerState, Took(x), UNCHANGED <<vr, folder, files, copy, objects>>
      PROVE  SpineInv'
  <2>1. Typed'
    BY <1>t, <1>r DEF Typed, files
  <2> QED
    BY <2>1, <1>r, SpineUntouched
<1>1. CASE SpineRead(w)
  <2>1. Made(1) \in SpinerState
    BY <1>n DEF Made, SpinerState
  <2>2. Read(json.hi) \in SpinerState
    BY <1>n, <1>t DEF Read, SpinerState, Typed, Spine
  <2> QED
    BY <1>1, <1>r, <2>1, <2>2 DEF SpineRead, folds
<1>2. CASE SpineExtend(w)
  <2>1. ASSUME NEW hi \in Chunks(spiner[w].was + 1)
        PROVE  Made(hi) \in SpinerState
    BY <1>n, <1>c DEF Made, SpinerState
  <2> QED
    BY <1>2, <1>r, <1>i, <2>1 DEF SpineExtend, folds
<1>3. CASE SpineRefused(w)
  BY <1>3, <1>r, <1>i DEF SpineRefused, folds
<1>4. CASE SpineSubmit(w)
  <2>1. CASE ~Advances(spiner[w].out)
    BY <1>4, <2>1, <1>r, <1>i DEF SpineSubmit, folds, files
  <2>2. CASE Advances(spiner[w].out)
    <3> DEFINE s == [hi |-> spiner[w].out, by |-> w]
    <3>1. /\ writing = NoSpine /\ bin' = s /\ writing' = s
          /\ Took(IdleSpiner) /\ UNCHANGED <<vr, folder, json, copy, objects>>
      BY <1>4, <2>2 DEF SpineSubmit, folds
    <3>2. s \in Spine /\ s.hi = spiner[w].out
      BY <1>s DEF Spine
    <3>3. json.hi < s.hi /\ json.hi \in Nat /\ s.hi \in Nat
      BY <1>s, <1>t, <2>2, <3>2 DEF Advances, Typed, Spine
    <3>4. Typed'
      BY <1>t, <1>i, <3>1, <3>2 DEF Typed
    <3>5. FilesInv'
      BY <3>1, <3>3 DEF FilesInv
    <3>6. CopyInv' /\ PairInStoreIsWhole'
      BY <3>1 DEF SpineInv, CopyInv, PairInStoreIsWhole, Object
    <3> QED
      BY <3>4, <3>5, <3>6 DEF SpineInv
  <2> QED
    BY <2>1, <2>2
<1> QED
  BY <1>1, <1>2, <1>3, <1>4 DEF SpinerStep

(* The heads advertised only grow, so what was seen of the old one is below
   the new one. *)
LEMMA AdvertisingKeeps ==
  ASSUME SpineInv, SpineAdvertise
  PROVE  SpineInv'
<1>1. /\ writing # NoSpine /\ json' = writing /\ writing' = NoSpine
      /\ UNCHANGED <<vr, folder, bin, spiner, copy, objects>>
  BY DEF SpineAdvertise, folds
<1>2. Typed /\ FilesInv /\ CopyInv /\ PairInStoreIsWhole
  BY DEF SpineInv
<1>3. writing = bin /\ json.hi < json'.hi /\ json.hi \in Nat /\ json'.hi \in Nat
  BY <1>1, <1>2 DEF FilesInv, Typed, Spine
<1>4. NoSpine \in Spine
  BY AggregateAssumption DEF NoSpine, Spine
<1>5. Typed'
  BY <1>1, <1>2, <1>4 DEF Typed
<1>6. FilesInv'
  BY <1>1, <1>3 DEF FilesInv
<1>7. \A o \in objects : o.hi \in Nat
  BY <1>2 DEF Typed, ObjectState
<1>8. copy.json.hi \in Nat
  BY <1>2 DEF Typed, CopyState, Spine
<1>9. CopyInv' /\ PairInStoreIsWhole'
  BY <1>1, <1>2, <1>3, <1>7, <1>8 DEF CopyInv, PairInStoreIsWhole, Object
<1> QED
  BY <1>5, <1>6, <1>9 DEF SpineInv

LEMMA CrashKeeps ==
  ASSUME SpineInv, Crash
  PROVE  SpineInv'
<1>1. NoSpine \in Spine
  BY AggregateAssumption DEF NoSpine, Spine
<1>2. Typed'
  BY <1>1 DEF SpineInv, Typed, Crash
<1> QED
  BY <1>2 DEF SpineInv, FilesInv, CopyInv, PairInStoreIsWhole, Crash, Object

(* A pair that agrees is of the one receipt of its height; what the store has
   under that name is of it too. *)
LEMMA CopyKeeps ==
  ASSUME SpineInv, CopyStep \/ CopyFails
  PROVE  SpineInv'
<1>t. Typed /\ FilesInv /\ CopyInv /\ PairInStoreIsWhole
  BY DEF SpineInv
<1>n. NoSpine \in Spine
  BY AggregateAssumption DEF NoSpine, Spine
<1>i. IdleCopy \in CopyState /\ IdleCopy.at = "idle"
  BY <1>n DEF IdleCopy, CopyState
<1>u. UNCHANGED <<vr, folder, json, bin, writing, spiner>>
  BY DEF CopyStep, CopyReadJson, CopyReadBin, CopyPutFirst, CopyPutSecond, CopyFails,
         folds, files
<1>f. FilesInv'
  BY <1>t, <1>u DEF FilesInv
<1>s. copy.json \in Spine /\ copy.bin \in Spine /\ copy.json.hi \in 0..N
      /\ copy.json.by \in Spiners \cup {Nobody}
  BY <1>t DEF Typed, CopyState, Spine
<1>q. ASSUME copy' = IdleCopy, UNCHANGED objects
      PROVE  SpineInv'
  <2>1. Typed'
    BY <1>t, <1>i, <1>u, <1>q DEF Typed
  <2>2. CopyInv' /\ PairInStoreIsWhole'
    BY <1>t, <1>i, <1>u, <1>q DEF CopyInv, PairInStoreIsWhole
  <2> QED
    BY <1>f, <2>1, <2>2 DEF SpineInv
<1>1. CASE CopyReadJson
  <2>1. copy' = [at |-> "bytes", json |-> json, bin |-> NoSpine] /\ objects' = objects
    BY <1>1 DEF CopyReadJson
  <2>2. copy' \in CopyState /\ copy'.at = "bytes" /\ copy'.json = json
    BY <2>1, <1>t, <1>n DEF Typed, CopyState
  <2>3. Typed'
    BY <1>t, <1>u, <2>1, <2>2 DEF Typed
  <2>4. json.hi \in Nat
    BY <1>t DEF Typed, Spine
  <2>5. CopyInv' /\ PairInStoreIsWhole'
    BY <1>t, <1>u, <2>1, <2>2, <2>4 DEF CopyInv, PairInStoreIsWhole
  <2> QED
    BY <1>f, <2>3, <2>5 DEF SpineInv
<1>2. CASE CopyReadBin
  <2>1. CASE ~Agree(copy.json, bin)
    BY <1>2, <1>q, <2>1 DEF CopyReadBin
  <2>2. CASE Agree(copy.json, bin)
    <3>1. /\ copy.at = "bytes" /\ objects' = objects
          /\ copy' = [copy EXCEPT !.at = "bin", !.bin = bin]
      BY <1>2, <2>2 DEF CopyReadBin
    <3>2. /\ copy' \in CopyState /\ copy'.at = "bin"
          /\ copy'.json = copy.json /\ copy'.bin = copy.json
      BY <3>1, <2>2, <1>t DEF Agree, Typed, CopyState
    <3>3. Typed'
      BY <1>t, <1>u, <3>1, <3>2 DEF Typed
    <3>4. CopyInv' /\ PairInStoreIsWhole'
      BY <1>t, <1>u, <3>1, <3>2 DEF CopyInv, PairInStoreIsWhole
    <3> QED
      BY <1>f, <3>3, <3>4 DEF SpineInv
  <2> QED
    BY <2>1, <2>2
<1>b. ASSUME NEW o \in objects, NEW kind \in {"bin", "json"}, copy.at # "idle",
             o.kind = kind, o.hi = copy.json.hi
      PROVE  o = Object(kind, copy.json)
  BY <1>t, <1>b DEF Typed, ObjectState, CopyInv, Object
<1>p. ASSUME NEW kind \in {"bin", "json"}, copy.at \in {"bin", "json"}, Put(kind)
      PROVE  /\ objects' = objects \cup {Object(kind, copy.json)}
             /\ Object(kind, copy.json) \in ObjectState
  <2>1. Body(kind) = copy.json
    BY <1>t, <1>p DEF Body, CopyInv
  <2>2. [Object(kind, Body(kind)) EXCEPT !.hi = copy.json.hi] = Object(kind, copy.json)
    BY <2>1 DEF Object
  <2>3. Object(kind, copy.json) \in ObjectState
    BY <1>s DEF Object, ObjectState
  <2>4. CASE InStore(kind, copy.json.hi)
    BY <1>p, <1>b, <2>3, <2>4 DEF InStore, Put
  <2>5. CASE ~InStore(kind, copy.json.hi)
    BY <1>p, <2>2, <2>3, <2>5 DEF Put
  <2> QED
    BY <2>4, <2>5
<1>o. ASSUME NEW kind \in {"bin", "json"}, copy.at # "idle"
      PROVE  LET o == Object(kind, copy.json)
             IN  /\ o.kind = kind /\ o.hi = copy.json.hi /\ o.by = copy.json.by
                 /\ o.hi <= json.hi /\ (o.hi = json.hi => o.by = json.by)
  BY <1>t, <1>o DEF Object, CopyInv
<1>3. CASE CopyPutFirst
  <2>1. /\ copy.at = "bin" /\ Put("bin") /\ copy' = [copy EXCEPT !.at = "json"]
    BY <1>3 DEF CopyPutFirst, PairOrder
  <2>2. /\ objects' = objects \cup {Object("bin", copy.json)}
        /\ Object("bin", copy.json) \in ObjectState
    BY <2>1, <1>p
  <2>3. /\ copy' \in CopyState /\ copy'.at = "json"
        /\ copy'.json = copy.json /\ copy'.bin = copy.bin
    BY <2>1, <1>t DEF Typed, CopyState
  <2>4. Typed'
    BY <1>t, <1>u, <2>2, <2>3 DEF Typed
  <2>5. CopyInv'
    BY <1>t, <1>u, <1>o, <2>1, <2>2, <2>3 DEF CopyInv
  <2>6. PairInStoreIsWhole'
    <3>1. Object("bin", copy.json).kind = "bin"
      BY DEF Object
    <3> QED
      BY <1>t, <2>2, <3>1 DEF PairInStoreIsWhole
  <2> QED
    BY <1>f, <2>4, <2>5, <2>6 DEF SpineInv
<1>4. CASE CopyPutSecond
  <2>1. copy.at = "json" /\ Put("json") /\ copy' = IdleCopy
    BY <1>4 DEF CopyPutSecond, PairOrder
  <2>2. /\ objects' = objects \cup {Object("json", copy.json)}
        /\ Object("json", copy.json) \in ObjectState
    BY <2>1, <1>p
  <2>3. Typed'
    BY <1>t, <1>u, <1>i, <2>1, <2>2 DEF Typed
  <2>4. CopyInv'
    BY <1>t, <1>u, <1>i, <1>o, <2>1, <2>2 DEF CopyInv
  <2>5. PairInStoreIsWhole'
    <3>1. Object("bin", copy.json) \in objects
      BY <1>t, <2>1 DEF CopyInv
    <3>2. Object("bin", Object("json", copy.json)) = Object("bin", copy.json)
      BY DEF Object
    <3> QED
      BY <1>t, <2>2, <3>1, <3>2 DEF PairInStoreIsWhole
  <2> QED
    BY <1>f, <2>3, <2>4, <2>5 DEF SpineInv
<1>5. CASE CopyFails
  BY <1>5, <1>q DEF CopyFails
<1> QED
  BY <1>1, <1>2, <1>3, <1>4, <1>5 DEF CopyStep

LEMMA StepKeeps == SpineInv /\ [Next]_vars => SpineInv'
<1> SUFFICES ASSUME SpineInv, [Next]_vars PROVE SpineInv'
  OBVIOUS
<1>1. CASE UNCHANGED vars
  <2>1. Typed' /\ UNCHANGED <<files, copy, objects>>
    BY <1>1 DEF vars, folds, files, SpineInv, Typed
  <2> QED
    BY <2>1, SpineUntouched
<1>2. ASSUME NEW h \in 1..N, Prove(h) PROVE SpineInv'
  BY <1>2, ProvingKeeps
<1>3. ASSUME NEW f \in Folders, FolderStep(f) \/ ClaimLost(f) \/ FolderDies(f)
      PROVE  SpineInv'
  BY <1>3, FoldingKeeps
<1>4. ASSUME NEW p \in Range, Expire(p) PROVE SpineInv'
  BY <1>4, ExpiryKeeps
<1>5. ASSUME NEW w \in Spiners, SpinerStep(w) \/ SpineRefused(w) PROVE SpineInv'
  BY <1>5, SpineWorkKeeps
<1>6. CASE SpineAdvertise
  BY <1>6, AdvertisingKeeps
<1>7. CASE Crash
  BY <1>7, CrashKeeps
<1>8. CASE CopyStep \/ CopyFails
  BY <1>8, CopyKeeps
<1> QED
  BY <1>1, <1>2, <1>3, <1>4, <1>5, <1>6, <1>7, <1>8 DEF Next

(* The head that GET /api/spine advertises is never beyond the receipt that
   GET /api/spine/proof serves: submit_spine's order of its two replaces, for
   any number of workers, heights and crashes. *)
THEOREM HeadBacked == Spec => []HeadIsBacked
<1>1. SpineInv => HeadIsBacked
  BY DEF SpineInv, FilesInv, HeadIsBacked
<1> QED
  BY InitSpine, StepKeeps, <1>1, PTL DEF Spec

(* A .json in the offsite store has beside it the .bin it describes, although
   the coordinator replaces the two files while the copy reads them, and the
   copy may fail between its two uploads. *)
THEOREM PairWhole == Spec => []PairInStoreIsWhole
<1>1. SpineInv => PairInStoreIsWhole
  BY DEF SpineInv
<1> QED
  BY InitSpine, StepKeeps, <1>1, PTL DEF Spec

-----------------------------------------------------------------------------
(* Folding builds one tree.                                                 *)

(* A number divides another when that is a multiple of it. *)
Times(d, n) == \E k \in Nat : n = k * d

LEMMA DivisionExact ==
  ASSUME NEW d \in Nat \ {0}, NEW n \in Nat
  PROVE  n % d = 0 <=> Times(d, n)
<1>a. n \div d \in Nat
  OBVIOUS
<1>b. n % d \in 0..(d - 1)
  OBVIOUS
<1>c. n = d * (n \div d) + (n % d)
  OBVIOUS
<1>1. n \div d \in Nat /\ n % d \in 0..(d - 1) /\ n = d * (n \div d) + (n % d)
  BY <1>a, <1>b, <1>c
<1>2. n % d = 0 => Times(d, n)
  <2> SUFFICES ASSUME n % d = 0 PROVE Times(d, n)
    OBVIOUS
  <2>1. n = (n \div d) * d
    BY <1>1
  <2> QED
    BY <1>1, <2>1 DEF Times
<1>3. ASSUME NEW k \in Nat, n = k * d PROVE n % d = 0
  <2> DEFINE q == n \div d
             r == n % d
  <2>1. q \in Nat /\ r \in Nat /\ r < d /\ k * d = q * d + r
    BY <1>1, <1>3
  <2>2. (k - q) * d = r
    BY <2>1
  <2>3. k - q \in Int
    BY <2>1
  <2> HIDE DEF q, r
  <2>4. k - q >= 1 => (k - q) * d >= d
    BY <2>3
  <2>5. k - q <= -1 => (k - q) * d <= -d
    BY <2>3
  <2> QED
    BY <2>1, <2>2, <2>3, <2>4, <2>5 DEF r
<1> QED
  BY <1>2, <1>3 DEF Times

(* A power of two is 1 or twice a power of two. *)
LEMMA HalfPower ==
  ASSUME NEW w \in Nat, PowerOfTwo(w), w # 1
  PROVE  \E m \in Nat \ {0} : w = 2 * m /\ PowerOfTwo(m)
<1>1. w \in Nat \ {0} /\ w \in 2..w
  BY DEF PowerOfTwo
<1>2. w % w = 0
  <2>1. w = 1 * w /\ 1 \in Nat
    BY <1>1
  <2>2. Times(w, w)
    BY <2>1 DEF Times
  <2> QED
    BY <1>1, <2>2, DivisionExact
<1>3. w % 2 = 0
  BY <1>1, <1>2 DEF PowerOfTwo
<1>4. PICK m \in Nat : w = 2 * m
  <2>1. w = 2 * (w \div 2) /\ w \div 2 \in Nat
    BY <1>3
  <2> QED
    BY <2>1
<1>5. m > 0
  BY <1>1, <1>4
<1>6. ASSUME NEW d \in 2..m, m % d = 0 PROVE d % 2 = 0
  <2>1. PICK k \in Nat : m = k * d
    BY <1>6, DivisionExact DEF Times
  <2>2. w = (2 * k) * d /\ 2 * k \in Nat
    BY <1>4, <2>1
  <2>3. Times(d, w)
    BY <2>2 DEF Times
  <2>4. w % d = 0 /\ d \in 2..w
    BY <1>4, <2>3, DivisionExact
  <2> QED
    BY <2>4 DEF PowerOfTwo
<1>7. PowerOfTwo(m)
  BY <1>5, <1>6 DEF PowerOfTwo
<1> QED
  BY <1>4, <1>5, <1>7

(* Twice a power of two is one: an odd number that divides it divides the
   half. *)
LEMMA DoublePower ==
  ASSUME NEW w \in Nat, PowerOfTwo(w)
  PROVE  PowerOfTwo(2 * w)
<1> SUFFICES ASSUME NEW d \in 2..(2 * w), (2 * w) % d = 0, d % 2 # 0 PROVE FALSE
  BY DEF PowerOfTwo
<1>1. w \in Nat \ {0} /\ d \in Nat \ {0}
  BY DEF PowerOfTwo
<1>2. PICK k \in Nat : 2 * w = k * d
  BY <1>1, DivisionExact DEF Times
<1>3. PICK e \in Nat : d = 2 * e + 1
  <2>1. d = 2 * (d \div 2) + 1 /\ d \div 2 \in Nat
    BY <1>1
  <2> QED
    BY <2>1
<1>4. k % 2 = 0
  <2>1. SUFFICES ASSUME k % 2 # 0 PROVE FALSE
    OBVIOUS
  <2>2. PICK j \in Nat : k = 2 * j + 1
    <3>1. k = 2 * (k \div 2) + 1 /\ k \div 2 \in Nat
      BY <2>1
    <3> QED
      BY <3>1
  <2>3. 2 * w = 2 * (2 * (j * e) + j + e) + 1
    BY <1>2, <1>3, <2>2
  <2>4. 2 * (j * e) + j + e \in Nat
    OBVIOUS
  <2> QED
    BY <2>3, <2>4, <1>1
<1>5. PICK j \in Nat : k = 2 * j
  <2>1. k = 2 * (k \div 2) /\ k \div 2 \in Nat
    BY <1>4
  <2> QED
    BY <2>1
<1>6. w = j * d
  BY <1>1, <1>2, <1>5
<1>7. w % d = 0
  BY <1>1, <1>6, DivisionExact DEF Times
<1>8. d <= w
  <2>1. j >= 1
    BY <1>1, <1>6
  <2> QED
    BY <1>1, <1>6, <2>1
<1> QED
  BY <1>1, <1>7, <1>8 DEF PowerOfTwo

(* Numbers have a least one among them. *)
LEMMA Least ==
  ASSUME NEW S \in SUBSET Nat, S # {}
  PROVE  \E n \in S : \A m \in S : n <= m
<1>1. \E n \in S : \A m \in S : <<m, n>> \notin OpToRel(<, Nat)
  BY NatLessThanWellFounded, WFMin, Zenon
<1>2. \A m, n \in Nat : m < n => <<m, n>> \in OpToRel(<, Nat)
  BY Zenon DEF OpToRel
<1>3. PICK least \in S : \A m \in S : ~(m < least)
  BY <1>1, <1>2, Zenon
<1> QED
  BY <1>3

(* Of two powers of two the smaller divides the greater: halve both until the
   smaller is 1. *)
LEMMA PowersDivide ==
  ASSUME NEW v \in Nat, NEW w \in Nat, PowerOfTwo(v), PowerOfTwo(w), v <= w
  PROVE  Times(v, w)
<1> DEFINE Bad == {x \in Nat : \E y \in Nat : /\ PowerOfTwo(x) /\ PowerOfTwo(y)
                                            /\ x <= y /\ ~Times(x, y)}
<1>1. SUFFICES ASSUME Bad # {} PROVE FALSE
  OBVIOUS
<1>2. PICK x \in Bad : \A z \in Bad : x <= z
  BY <1>1, Least
<1>3. PICK y \in Nat : PowerOfTwo(x) /\ PowerOfTwo(y) /\ x <= y /\ ~Times(x, y)
  OBVIOUS
<1>4. x # 1
  BY <1>3 DEF Times
<1>5. PICK m \in Nat \ {0} : x = 2 * m /\ PowerOfTwo(m)
  BY <1>3, <1>4, HalfPower
<1>6. y # 1
  BY <1>3, <1>5
<1>7. PICK n \in Nat \ {0} : y = 2 * n /\ PowerOfTwo(n)
  BY <1>3, <1>6, HalfPower
<1>8. m <= n /\ m < x
  BY <1>3, <1>5, <1>7
<1>9. Times(m, n)
  BY <1>2, <1>5, <1>7, <1>8
<1>10. PICK k \in Nat : n = k * m
  BY <1>9 DEF Times
<1>11. y = k * x
  BY <1>5, <1>7, <1>10
<1> QED
  BY <1>3, <1>11 DEF Times

(* A range of the fold tree: a power of two wide, and its width divides what
   lies before it. *)
Aligned(lo, hi) == PowerOfTwo(hi - lo + 1) /\ (lo - 1) % (hi - lo + 1) = 0
InTree(q) == Aligned(q[1], q[2])

TreeInv ==
  /\ \A q \in vr : InTree(q)
  /\ \A f \in Folders : folder[f].at # "idle" => InTree(folder[f].pick)
  /\ \A f \in Folders : \A q \in folder[f].left : InTree(q)

(* Of two aligned intervals the wider one starts and ends at multiples of the
   narrower one's width. *)
LEMMA NarrowNests ==
  ASSUME NEW a \in Nat \ {0}, NEW b \in Nat, a <= b, Aligned(a, b),
         NEW c \in Nat \ {0}, NEW d \in Nat, c <= d, Aligned(c, d),
         b - a <= d - c
  PROVE  b < c \/ d < a \/ (c <= a /\ b <= d)
<1> DEFINE v == b - a + 1
           w == d - c + 1
<1>1. v \in Nat \ {0} /\ w \in Nat \ {0} /\ v <= w
  OBVIOUS
<1>2. PICK k \in Nat : a - 1 = k * v
  <2>1. a - 1 \in Nat /\ (a - 1) % v = 0
    BY DEF Aligned
  <2> QED
    BY <1>1, <2>1, DivisionExact DEF Times
<1>3. PICK l \in Nat : c - 1 = l * w
  <2>1. c - 1 \in Nat /\ (c - 1) % w = 0
    BY DEF Aligned
  <2> QED
    BY <1>1, <2>1, DivisionExact DEF Times
<1>4. PICK m \in Nat : w = m * v
  BY <1>1, PowersDivide DEF Aligned, Times
<1>5. b = a - 1 + v /\ d = c - 1 + w
  OBVIOUS
<1> HIDE DEF v, w
<1> DEFINE s == l * m
           e == l * m + m
<1>6. s \in Nat /\ e \in Nat
  BY <1>2, <1>3, <1>4
<1>7. c - 1 = s * v /\ d = e * v /\ b = (k + 1) * v
  <2>1. l * (m * v) = (l * m) * v
    BY <1>1, <1>3, <1>4
  <2>2. (l * m) * v + m * v = (l * m + m) * v
    BY <1>1, <1>3, <1>4
  <2>3. k * v + v = (k + 1) * v
    BY <1>1, <1>2
  <2> QED
    BY <1>2, <1>3, <1>4, <1>5, <2>1, <2>2, <2>3
<1> HIDE DEF s, e
<1>8. \A i, j \in Nat : i <= j => i * v <= j * v
  BY <1>1
<1>9. CASE k + 1 <= s
  <2>1. (k + 1) * v <= s * v
    BY <1>6, <1>8, <1>9
  <2> QED
    BY <1>7, <2>1
<1>10. CASE e <= k
  <2>1. e * v <= k * v
    BY <1>6, <1>8, <1>10
  <2> QED
    BY <1>2, <1>7, <2>1
<1>11. CASE s <= k /\ k + 1 <= e
  <2>1. s * v <= k * v /\ (k + 1) * v <= e * v
    BY <1>6, <1>8, <1>11
  <2> QED
    BY <1>2, <1>7, <2>1
<1> QED
  BY <1>6, <1>9, <1>10, <1>11

(* Two intervals whose widths are powers of two and divide their offsets are
   nested or disjoint. *)
LEMMA AlignedNest ==
  ASSUME NEW a \in Nat \ {0}, NEW b \in Nat, a <= b, Aligned(a, b),
         NEW c \in Nat \ {0}, NEW d \in Nat, c <= d, Aligned(c, d)
  PROVE  \/ b < c \/ d < a
         \/ a <= c /\ d <= b
         \/ c <= a /\ b <= d
<1>1. CASE b - a <= d - c
  BY <1>1, NarrowNests
<1>2. CASE d - c <= b - a
  BY <1>2, NarrowNests
<1> QED
  BY <1>1, <1>2

(* A left sibling and the range of its width that follows it make an aligned
   range. *)
LEMMA ParentAligned ==
  ASSUME NEW a \in Nat \ {0}, NEW b \in Nat, a <= b, TreeNode(a, b),
         ((a - 1) \div (b - a + 1)) % 2 = 0
  PROVE  Aligned(a, b + (b - a + 1))
<1> DEFINE w == b - a + 1
           q == (a - 1) \div w
<1>1. w \in Nat \ {0} /\ a - 1 \in Nat /\ PowerOfTwo(w) /\ (a - 1) % w = 0 /\ q % 2 = 0
  BY DEF TreeNode
<1>2. q \in Nat /\ a - 1 = w * q
  BY <1>1
<1> HIDE DEF q
<1>3. PICK j \in Nat : q = 2 * j
  <2>1. q = 2 * (q \div 2) /\ q \div 2 \in Nat
    BY <1>1, <1>2
  <2> QED
    BY <2>1
<1>4. (b + w) - a + 1 = 2 * w
  OBVIOUS
<1> HIDE DEF w
<1>5. a - 1 = j * (2 * w)
  BY <1>1, <1>2, <1>3
<1>6. (a - 1) % (2 * w) = 0
  <2>1. Times(2 * w, a - 1)
    BY <1>5 DEF Times
  <2>2. 2 * w \in Nat \ {0}
    BY <1>1
  <2> QED
    BY <1>1, <2>1, <2>2, DivisionExact
<1>7. PowerOfTwo(2 * w)
  BY <1>1, DoublePower
<1> QED
  BY <1>4, <1>6, <1>7 DEF Aligned, w

LEMMA CandidatesInTree ==
  ASSUME Typed, NEW q \in Foldable
  PROVE  InTree(q)
<1>1. PICK p \in vr, s \in vr :
        /\ TreeNode(p[1], p[2]) /\ LeftSibling(p)
        /\ s[1] = p[2] + 1 /\ s[2] - s[1] = p[2] - p[1]
        /\ q = <<p[1], s[2]>>
  BY DEF Foldable
<1>2. p \in Range /\ s \in Range
  BY DEF Typed
<1>3. /\ p[1] \in Nat \ {0} /\ p[2] \in Nat /\ p[1] <= p[2]
      /\ s[1] \in Nat /\ s[2] \in Nat
  BY <1>2, AggregateAssumption DEF Range
<1>4. s[2] = p[2] + (p[2] - p[1] + 1)
  BY <1>1, <1>3
<1>5. Aligned(p[1], p[2] + (p[2] - p[1] + 1))
  BY <1>1, <1>3, ParentAligned DEF LeftSibling
<1> QED
  BY <1>1, <1>4, <1>5 DEF InTree

LEMMA LeafInTree == ASSUME NEW h \in Nat PROVE InTree(<<h, h>>)
<1>1. h - h + 1 = 1 /\ (h - 1) % 1 = 0
  OBVIOUS
<1>2. PowerOfTwo(1)
  BY DEF PowerOfTwo
<1> QED
  BY <1>1, <1>2 DEF InTree, Aligned

LEMMA FoldingStaysInTree ==
  ASSUME Typed, TreeInv, NEW f \in Folders, FolderStep(f) \/ ClaimLost(f) \/ FolderDies(f)
  PROVE  TreeInv'
<1> DEFINE Took(x) == folder' = [folder EXCEPT ![f] = x]
           Good(x) == /\ x.at # "idle" => InTree(x.pick)
                      /\ \A q \in x.left : InTree(q)
<1>f. Good(folder[f])
  BY DEF TreeInv
<1>i. Good(IdleFolder)
  BY DEF IdleFolder
<1>g. ASSUME folder[f].at # "idle" PROVE Good(Folding(f))
  BY <1>f, <1>g DEF Folding
<1>r. ASSUME NEW x, Good(x), Took(x), \A q \in vr' : InTree(q)
      PROVE  TreeInv'
  <2>1. \A g \in Folders : folder'[g] = IF g = f THEN x ELSE folder[g]
    BY <1>r DEF Typed
  <2>2. \A g \in Folders : Good(folder'[g])
    BY <2>1, <1>r DEF TreeInv
  <2> QED
    BY <2>2, <1>r DEF TreeInv
<1>v. \A q \in vr : InTree(q)
  BY DEF TreeInv
<1>1. CASE FoldAsk(f)
  <2>1. PICK q \in Foldable : Took([at |-> "check", left |-> Foldable, pick |-> q])
    BY <1>1 DEF FoldAsk
  <2>2. Good([at |-> "check", left |-> Foldable, pick |-> q])
    BY CandidatesInTree
  <2>3. vr' = vr
    BY <1>1 DEF FoldAsk
  <2> QED
    BY <1>r, <1>v, <2>1, <2>2, <2>3
<1>2. CASE Claim(f)
  <2>v. vr' = vr
    BY <1>2 DEF Claim
  <2>1. CASE \E x \in NextPick(f) : Took(x)
    <3>1. PICK x \in NextPick(f) : Took(x)
      BY <2>1
    <3>2. Good(x)
      BY <1>f, <1>i, <3>1 DEF NextPick
    <3> QED
      BY <1>r, <1>v, <2>v, <3>1, <3>2
  <2>2. CASE Took(Folding(f))
    BY <1>2, <1>g, <1>r, <1>v, <2>v, <2>2 DEF Claim
  <2> QED
    BY <1>2, <2>1, <2>2 DEF Claim
<1>3. CASE FoldSubmit(f)
  <2>1. InTree(folder[f].pick) /\ vr' = vr \cup {folder[f].pick} /\ Took(IdleFolder)
    BY <1>3, <1>f DEF FoldSubmit
  <2> QED
    BY <1>r, <1>v, <1>i, <2>1
<1>4. CASE ClaimLost(f)
  BY <1>4, <1>g, <1>r, <1>v DEF ClaimLost
<1>5. CASE FolderDies(f)
  BY <1>5, <1>i, <1>r, <1>v DEF FolderDies
<1> QED
  BY <1>1, <1>2, <1>3, <1>4, <1>5 DEF FolderStep

(* Only proving and folding add ranges, and only folders keep candidates. *)
LEMMA StepStaysInTree ==
  ASSUME Typed, TreeInv, [Next]_vars
  PROVE  TreeInv'
<1>1. ASSUME UNCHANGED <<vr, folder>> PROVE TreeInv'
  BY <1>1 DEF TreeInv
<1>2. ASSUME NEW h \in 1..N, Prove(h) PROVE TreeInv'
  BY <1>2, LeafInTree, AggregateAssumption DEF Prove, folds, TreeInv
<1>3. ASSUME NEW f \in Folders, FolderStep(f) \/ ClaimLost(f) \/ FolderDies(f)
      PROVE  TreeInv'
  BY <1>3, FoldingStaysInTree
<1>4. ASSUME NEW p \in Range, Expire(p) PROVE TreeInv'
  BY <1>4, <1>1 DEF Expire
<1>5. ASSUME NEW w \in Spiners, SpinerStep(w) \/ SpineRefused(w) PROVE TreeInv'
  BY <1>5, <1>1 DEF SpinerStep, SpineRead, SpineExtend, SpineSubmit, SpineRefused, folds
<1>6. CASE SpineAdvertise \/ Crash \/ CopyStep \/ CopyFails
  BY <1>6, <1>1 DEF SpineAdvertise, Crash, CopyStep, CopyReadJson, CopyReadBin, CopyPutFirst,
                    CopyPutSecond, CopyFails, folds
<1>7. CASE UNCHANGED vars
  BY <1>7, <1>1 DEF vars, folds
<1> QED
  BY <1>2, <1>3, <1>4, <1>5, <1>6, <1>7 DEF Next

LEMMA InitInTree == Init => TreeInv
BY LeafInTree, AggregateAssumption DEF Init, TreeInv, IdleFolder

LEMMA InTreeIsOneTree == Typed /\ TreeInv => OneTree
<1> SUFFICES ASSUME Typed, TreeInv, NEW p \in vr, NEW q \in vr
             PROVE  \/ p[2] < q[1] \/ q[2] < p[1]
                    \/ p[1] <= q[1] /\ q[2] <= p[2]
                    \/ q[1] <= p[1] /\ p[2] <= q[2]
  BY DEF OneTree
<1>1. /\ p[1] \in Nat \ {0} /\ p[2] \in Nat /\ p[1] <= p[2]
      /\ q[1] \in Nat \ {0} /\ q[2] \in Nat /\ q[1] <= q[2]
  BY AggregateAssumption DEF Typed, Range
<1>2. Aligned(p[1], p[2]) /\ Aligned(q[1], q[2])
  BY DEF TreeInv, InTree
<1> QED
  BY <1>1, <1>2, AlignedNest

(* Whatever folds the coordinator offers, in whatever states of the board and
   to however many folders at once, the verified ranges are one tree: foldable
   pairs only aligned siblings, because pairing any two neighbours made many
   times as many folds as there are blocks. *)
THEOREM FoldsAreOneTree == Spec => []OneTree
<1>1. Init => SpineInv /\ TreeInv
  BY InitSpine, InitInTree
<1>2. SpineInv /\ TreeInv /\ [Next]_vars => (SpineInv /\ TreeInv)'
  BY StepKeeps, StepStaysInTree DEF SpineInv
<1>3. SpineInv /\ TreeInv => OneTree
  BY InTreeIsOneTree DEF SpineInv
<1> QED
  BY <1>1, <1>2, <1>3, PTL DEF Spec
=============================================================================
