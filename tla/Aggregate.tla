----------------------------- MODULE Aggregate -----------------------------
(***************************************************************************)
(* From single-block proofs to the one genesis-anchored proof: the fold     *)
(* candidates the coordinator offers and the advisory claims on them        *)
(* (foldable, fold_claim), the workers that fold (cmd_fold of the client),  *)
(* the workers that extend the spine (cmd_spine), the two files the spine   *)
(* lives in (submit_spine), and the job that copies the pair offsite        *)
(* (spine_copy of hazync-offsite-proofs.py).                                *)
(*                                                                         *)
(* A spine [1..hi] is a record of hi and of the worker that made it, which  *)
(* stands for its bytes and their sha256.  Hashing and proving are exact.   *)
(***************************************************************************)
EXTENDS Naturals, FiniteSets

CONSTANTS
  N,          \* blocks on the board
  Late,       \* the blocks that are not proven yet at the start
  Folders,    \* folding workers; each has a key of its own
  Spiners,    \* spine workers
  Nobody,     \* no worker
  MaxObjects, \* objects a copy run may find in the store
  MaxFaults   \* crashes, deaths and failed requests

ASSUME AggregateAssumption ==
  /\ N \in Nat \ {0} /\ Late \subseteq 1..N /\ MaxObjects \in Nat /\ MaxFaults \in Nat
  /\ Nobody \notin Folders \cup Spiners

VARIABLES
  vr,       \* vranges: the verified ranges, as pairs <<lo, hi>>
  claim,    \* _fold_claims: result -> the folder that holds it
  folder,   \* per folder: where it is, the candidates left, its pick
  json,     \* spine.json: what it advertises
  bin,      \* spine.bin: what the bytes are
  writing,  \* the spine the coordinator is between the two replaces of
  spiner,   \* per spine worker: where it is, the head it read, what it made
  copy,     \* the offsite copy: where it is and the pair it has read
  objects,  \* the spine objects in the store
  faults    \* faults so far (bound)

folds == <<claim, folder>>
files == <<json, bin, writing>>
vars == <<vr, folds, files, spiner, copy, objects, faults>>

Range == {p \in (1..N) \X (1..N) : p[1] <= p[2]}
Spine == [hi : 0..N, by : Spiners \cup {Nobody}]
NoSpine == [hi |-> 0, by |-> Nobody]
IdleFolder == [at |-> "idle", left |-> {}, pick |-> <<>>]
IdleSpiner == [at |-> "idle", was |-> 0, out |-> 0]
Read(hi) == [at |-> "read", was |-> hi, out |-> 0]
Made(hi) == [at |-> "made", was |-> 0, out |-> hi]
IdleCopy == [at |-> "idle", json |-> NoSpine, bin |-> NoSpine]

TypeOK ==
  /\ vr \subseteq Range
  /\ claim \in [Range -> Folders \cup {Nobody}]
  /\ json \in Spine /\ bin \in Spine /\ writing \in Spine
  /\ faults \in 0..MaxFaults

Init ==
  /\ vr = {<<h, h>> : h \in (1..N) \ Late}
  /\ claim = [p \in Range |-> Nobody]
  /\ folder = [f \in Folders |-> IdleFolder]
  /\ json = NoSpine /\ bin = NoSpine /\ writing = NoSpine
  /\ spiner = [w \in Spiners |-> IdleSpiner]
  /\ copy = IdleCopy /\ objects = {}
  /\ faults = 0

Fault == faults < MaxFaults /\ faults' = faults + 1

\* A block is proven (the Board module models how).
Prove(h) ==
  /\ <<h, h>> \notin vr
  /\ vr' = vr \cup {<<h, h>>}
  /\ UNCHANGED <<folds, files, spiner, copy, objects, faults>>

-----------------------------------------------------------------------------
(* Folding.                                                                 *)

\* w & (w - 1) = 0: no odd number but 1 divides w.
PowerOfTwo(w) == w > 0 /\ \A d \in 2..w : w % d = 0 => d % 2 = 0
\* _tree_node: a power of two wide, and aligned to its width.
TreeNode(lo, hi) ==
  LET w == hi - lo + 1 IN PowerOfTwo(w) /\ (lo - 1) % w = 0

\* foldable: the parents of two verified siblings above the spine, unless
\* the parent exists or another folder holds it.  The right-hand sibling is
\* skipped: with the left one aligned to twice the width, so is the parent.
AnySibling(p) == TRUE
LeftSibling(p) == ((p[1] - 1) \div (p[2] - p[1] + 1)) % 2 = 0
Foldable ==
  {q \in Range \ vr :
     /\ claim[q] = Nobody
     /\ \E p \in vr, s \in vr :
          /\ p[1] > json.hi
          /\ TreeNode(p[1], p[2])
          /\ LeftSibling(p)
          /\ s[1] = p[2] + 1 /\ s[2] - s[1] = p[2] - p[1]
          /\ q = <<p[1], s[2]>>}

\* GET /api/foldable, and one of the candidates at random.
FoldAsk(f) ==
  /\ folder[f].at = "idle"
  /\ \E q \in Foldable :
       folder' = [folder EXCEPT ![f] = [at |-> "check", left |-> Foldable, pick |-> q]]
  /\ UNCHANGED <<vr, claim, files, spiner, copy, objects, faults>>

\* A taken candidate is dropped and another one is tried; with none left the
\* folder asks for a fresh list.
NextPick(f) ==
  LET left == folder[f].left \ {folder[f].pick}
  IN IF left = {} THEN {IdleFolder} ELSE {[at |-> "check", left |-> left, pick |-> q] : q \in left}

Folding(f) == [at |-> "folding", left |-> {}, pick |-> folder[f].pick]

\* fold_claim asks under one lock whether the fold is verified and records
\* the claim under another, so a fold verified in between is claimed all the
\* same.  A pair another folder holds is refused.
Verified(q) == q \in vr
Claim(f) ==
  LET q == folder[f].pick
      setTo(x) == folder' = [folder EXCEPT ![f] = x]
  IN /\ folder[f].at = "check"
     /\ \/ /\ Verified(q) \/ claim[q] \notin {Nobody, f}
           /\ \E nxt \in NextPick(f) : setTo(nxt)
           /\ UNCHANGED claim
        \/ /\ claim[q] \in {Nobody, f}
           /\ setTo(Folding(f))
           /\ claim' = [claim EXCEPT ![q] = f]
     /\ UNCHANGED <<vr, files, spiner, copy, objects, faults>>

\* Whatever else stops a claim (a key with no proven work, the cap of claims
\* per key, a clock off, no answer) means folding unclaimed.
ClaimLost(f) ==
  /\ folder[f].at = "check" /\ Fault
  /\ folder' = [folder EXCEPT ![f] = Folding(f)]
  /\ UNCHANGED <<vr, claim, files, spiner, copy, objects>>

\* The fold is submitted: verified, and its claim ends, whoever holds it;
\* or someone was first and it is discarded.
FoldSubmit(f) ==
  LET q == folder[f].pick
  IN /\ folder[f].at = "folding"
     /\ vr' = vr \cup {q}
     /\ claim' = IF q \in vr THEN claim ELSE [claim EXCEPT ![q] = Nobody]
     /\ folder' = [folder EXCEPT ![f] = IdleFolder]
     /\ UNCHANGED <<files, spiner, copy, objects, faults>>

\* A folder dies with its claim in place.
FolderDies(f) ==
  /\ folder[f].at = "folding" /\ Fault
  /\ folder' = [folder EXCEPT ![f] = IdleFolder]
  /\ UNCHANGED <<vr, claim, files, spiner, copy, objects>>

\* _prune_fold_claims: FOLD_CLAIM_TTL has passed.
Expire(p) ==
  /\ claim[p] # Nobody
  /\ claim' = [claim EXCEPT ![p] = Nobody]
  /\ UNCHANGED <<vr, folder, files, spiner, copy, objects, faults>>

-----------------------------------------------------------------------------
(* The spine.                                                               *)

\* spine_chunks: the ranges that start at nxt; the single block is always
\* one of them.  The worker's index may be minutes old, so any of them may
\* be the one it takes.
WideOnly(nxt) == {p[2] : p \in {q \in vr : q[1] = nxt /\ q[2] > nxt}}
Chunks(nxt) == {p[2] : p \in {q \in vr : q[1] = nxt}}

\* GET /api/spine.  Without a head the block 1 receipt is submitted as it is.
SpineRead(w) ==
  /\ spiner[w].at = "idle"
  /\ \/ /\ json.hi = 0 /\ <<1, 1>> \in vr
        /\ spiner' = [spiner EXCEPT ![w] = Made(1)]
     \/ /\ json.hi # 0 /\ Chunks(json.hi + 1) # {}
        /\ spiner' = [spiner EXCEPT ![w] = Read(json.hi)]
  /\ UNCHANGED <<vr, folds, files, copy, objects, faults>>

\* GET /api/spine/proof, for the bytes there are now, and extend-spine, which
\* checks the seam: the chunk has to start where those bytes end.  If it does
\* not, the worker refolds when the head has moved, tries narrower chunks,
\* and gives up: it is started again later.
SpineExtend(w) ==
  /\ spiner[w].at = "read"
  /\ \/ /\ bin.hi = spiner[w].was
        /\ \E hi \in Chunks(spiner[w].was + 1) :
             spiner' = [spiner EXCEPT ![w] = Made(hi)]
     \/ /\ bin.hi # spiner[w].was
        /\ spiner' = [spiner EXCEPT ![w] = IdleSpiner]
  /\ UNCHANGED <<vr, folds, files, copy, objects, faults>>

\* verify_spine could not verify it (no host binary, a timeout, no RANGE-OK
\* line): refused, and the worker's fold is lost.
SpineRefused(w) ==
  /\ spiner[w].at = "made" /\ Fault
  /\ spiner' = [spiner EXCEPT ![w] = IdleSpiner]
  /\ UNCHANGED <<vr, folds, files, copy, objects>>

\* submit_spine, under the lock: refused unless it advances the head, else
\* the receipt replaces spine.bin ...
AnyAdvance(hi) == TRUE
Advances(hi) == hi > json.hi
SpineSubmit(w) ==
  /\ spiner[w].at = "made" /\ writing = NoSpine
  /\ spiner' = [spiner EXCEPT ![w] = IdleSpiner]
  /\ IF Advances(spiner[w].out)
     THEN LET s == [hi |-> spiner[w].out, by |-> w]
          IN bin' = s /\ writing' = s
     ELSE UNCHANGED <<bin, writing>>
  /\ UNCHANGED <<vr, folds, json, copy, objects, faults>>

\* ... and then the json that advertises it replaces spine.json.
SpineAdvertise ==
  /\ writing # NoSpine
  /\ json' = writing /\ writing' = NoSpine
  /\ UNCHANGED <<vr, folds, bin, spiner, copy, objects, faults>>

\* The coordinator stops: the claims are in memory on purpose, and a spine
\* between its two replaces stays there.
Crash ==
  /\ Fault
  /\ claim' = [p \in Range |-> Nobody]
  /\ writing' = NoSpine
  /\ UNCHANGED <<vr, folder, json, bin, spiner, copy, objects>>

-----------------------------------------------------------------------------
(* The offsite copy of the spine.                                           *)

Object(kind, s) == [kind |-> kind, hi |-> s.hi, by |-> s.by]
InStore(kind, hi) == \E o \in objects : o.kind = kind /\ o.hi = hi

\* read_spine: the json, then the bytes.
CopyReadJson ==
  /\ copy.at = "idle" /\ json # NoSpine /\ ~InStore("json", json.hi)
  /\ Cardinality(objects) <= MaxObjects
  /\ copy' = [at |-> "bytes", json |-> json, bin |-> NoSpine]
  /\ UNCHANGED <<vr, folds, files, spiner, objects, faults>>

\* A pair that does not agree is read again, and in the end given up.
AnyPair(j, b) == TRUE
Agree(j, b) == j = b
CopyReadBin ==
  /\ copy.at = "bytes"
  /\ copy' = IF Agree(copy.json, bin) THEN [copy EXCEPT !.at = "bin", !.bin = bin] ELSE IdleCopy
  /\ UNCHANGED <<vr, folds, files, spiner, objects, faults>>

\* spine_copy: the .bin first, then the .json, each unless one of its name
\* is there; the name is the range.
PairOrder == <<"bin", "json">>
Body(kind) == IF kind = "bin" THEN copy.bin ELSE copy.json
Put(kind) ==
  objects' = IF InStore(kind, copy.json.hi) THEN objects
             ELSE objects \cup {[Object(kind, Body(kind)) EXCEPT !.hi = copy.json.hi]}

CopyPutFirst ==
  /\ copy.at = "bin" /\ Put(PairOrder[1])
  /\ copy' = [copy EXCEPT !.at = "json"]
  /\ UNCHANGED <<vr, folds, files, spiner, faults>>

CopyPutSecond ==
  /\ copy.at = "json" /\ Put(PairOrder[2])
  /\ copy' = IdleCopy
  /\ UNCHANGED <<vr, folds, files, spiner, faults>>

\* An upload fails, or the job is stopped.
CopyFails ==
  /\ copy.at \in {"bin", "json"} /\ Fault
  /\ copy' = IdleCopy
  /\ UNCHANGED <<vr, folds, files, spiner, objects>>

FolderStep(f) == FoldAsk(f) \/ Claim(f) \/ FoldSubmit(f)
SpinerStep(w) == SpineRead(w) \/ SpineExtend(w) \/ SpineSubmit(w)
CopyStep == CopyReadJson \/ CopyReadBin \/ CopyPutFirst \/ CopyPutSecond

Next ==
  \/ \E h \in 1..N : Prove(h)
  \/ \E f \in Folders : FolderStep(f) \/ ClaimLost(f) \/ FolderDies(f)
  \/ \E p \in Range : Expire(p)
  \/ \E w \in Spiners : SpinerStep(w) \/ SpineRefused(w)
  \/ SpineAdvertise \/ Crash
  \/ CopyStep \/ CopyFails

Spec == Init /\ [][Next]_vars

\* Every block gets proven, a handler that has begun is run to its end, and
\* the spine workers keep being started.
FairSpec ==
  /\ Spec
  /\ \A h \in 1..N : WF_vars(Prove(h))
  /\ \A w \in Spiners : WF_vars(SpinerStep(w))
  /\ WF_vars(SpineAdvertise)

-----------------------------------------------------------------------------
(* Properties.                                                              *)

\* The head the coordinator advertises never runs ahead of the bytes it
\* serves, whatever order the workers submit in and wherever a crash falls
\* between the two files.
HeadIsBacked == json.hi <= bin.hi

\* Any two verified ranges are nested or disjoint: folds offered one by one,
\* to several folders, from different states of the board, still build one
\* tree.
OneTree ==
  \A p, q \in vr :
    \/ p[2] < q[1] \/ q[2] < p[1]
    \/ p[1] <= q[1] /\ q[2] <= p[2]
    \/ q[1] <= p[1] /\ p[2] <= q[2]

\* "a .json in the store means a complete pair": beside it is the .bin whose
\* bytes it describes, although the coordinator replaces the two files while
\* the copy reads them, and uploads fail.
PairInStoreIsWhole ==
  \A o \in objects : o.kind = "json" => Object("bin", o) \in objects

\* The spine reaches the last block, unless its two files stay apart for
\* good.
SpineCatchesUp == []<>(json = bin) => <>(json.hi = N)
=============================================================================
