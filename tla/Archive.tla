------------------------------ MODULE Archive ------------------------------
(***************************************************************************)
(* The receipts on the coordinator's disk and everything that reads or      *)
(* copies them: who writes proof_<h>.bin (a submission, the peer sync), the *)
(* append-only mirror into two stores (hazync-offsite-proofs.py), the       *)
(* nightly re-verification (check-proofs.py), the job that deletes the      *)
(* bundles of finished blocks (prune_bundles.py and its caller), and the    *)
(* two ways back (regen_bundles.py, sync_bundles.py).                       *)
(*                                                                         *)
(* A receipt is a number, never used twice.  A file or a stored object is   *)
(* the receipt it holds and whether all of it is there; no receipt is 0.    *)
(* A file is settled once it is older than the ages the readers ask for.    *)
(***************************************************************************)
EXTENDS Naturals, FiniteSets

CONSTANTS
  Blocks,       \* the heights followed (single-block ranges)
  Stores,       \* the offsite stores: R2 and B2
  Rungs,        \* heights at which a bridge checkpoint may be archived
  Tops,         \* blocks the spine may reach
  Margin,       \* --margin of the prune job
  MaxReceipts,  \* receipts ever made
  MaxFaults     \* crashes, failed writes, failed uploads and failed checks

ASSUME BlocksAssumption ==
  /\ Blocks \subseteq Nat \ {0} /\ IsFiniteSet(Blocks)
  /\ Rungs \subseteq Nat /\ Stores # {}
  /\ Tops \subseteq Nat /\ Margin \in Nat /\ MaxReceipts \in Nat /\ MaxFaults \in Nat

VARIABLES
  row,      \* ranges: is the block verified, and the sha recorded (0: NULL)
  file,     \* proof_<h>.bin
  made,     \* receipts made so far (bound)
  sub,      \* the submission that is inside its commit, or NoJob
  peer,     \* the peer sync: the block it works on, the receipt it fetched
  store,    \* the objects proof_<h>.bin of each store
  mirror,   \* per store: the names this copy run still has to upload
  checking, \* the files a check-proofs run has listed
  bad,      \* the proofs the last completed check-proofs run reported
  marker,   \* the check-proofs marker: what the last run ended as
  top,      \* hi of spine.json
  rungs,    \* archived checkpoints
  bundle,   \* heights with a bundle in the live store
  prune,    \* a prune run: what it has confirmed, what it will delete
  spoiled,  \* blocks whose file was left torn or written over (history)
  faults    \* faults so far (bound)

served  == <<row, file, made, sub, peer, spoiled>>
offsite == <<store, mirror>>
checks  == <<checking, bad, marker>>
bridge  == <<top, rungs, bundle>>
vars == <<served, offsite, checks, bridge, prune, faults>>

NoJob   == [on |-> FALSE, h |-> 0, r |-> 0]
NoObject == [of |-> 0, whole |-> TRUE]
NoFile  == [of |-> 0, whole |-> TRUE, settled |-> FALSE]
NotPruning == [at |-> "idle", names |-> [s \in Stores |-> {}], doomed |-> {}]

TypeOK ==
  /\ row \in [Blocks -> [verified : BOOLEAN, sha : 0..MaxReceipts]]
  /\ file \in [Blocks -> [of : 0..MaxReceipts, whole : BOOLEAN, settled : BOOLEAN]]
  /\ made \in 0..MaxReceipts
  /\ sub \in [on : BOOLEAN, h : {0} \cup Blocks, r : 0..MaxReceipts]
  /\ peer \in [on : BOOLEAN, h : {0} \cup Blocks, r : 0..MaxReceipts]
  /\ store \in [Stores -> [Blocks -> [of : 0..MaxReceipts, whole : BOOLEAN]]]
  /\ mirror \in [Stores -> SUBSET Blocks]
  /\ checking \subseteq Blocks /\ bad \subseteq Blocks
  /\ marker \in {"none", "pass", "fail"}
  /\ top \in {0} \cup Tops /\ rungs \subseteq Rungs /\ bundle \subseteq Blocks
  /\ prune \in [at : {"idle", "listed", "deleting"}, names : [Stores -> SUBSET Blocks],
                doomed : SUBSET Blocks]
  /\ spoiled \subseteq Blocks /\ faults \in 0..MaxFaults

Init ==
  /\ row = [h \in Blocks |-> [verified |-> FALSE, sha |-> 0]]
  /\ file = [h \in Blocks |-> NoFile]
  /\ made = 0
  /\ sub = NoJob /\ peer = NoJob
  /\ store = [s \in Stores |-> [h \in Blocks |-> NoObject]]
  /\ mirror = [s \in Stores |-> {}]
  /\ checking = {} /\ bad = {} /\ marker = "none"
  /\ top = 0 /\ rungs = {} /\ bundle = Blocks
  /\ prune = NotPruning
  /\ spoiled = {} /\ faults = 0

Fault == faults < MaxFaults /\ faults' = faults + 1

-----------------------------------------------------------------------------
(* The two writers of proof_<h>.bin.                                        *)

\* open(..., "wb"): whatever was there is gone, and what is there is torn
\* until the write is over.
Opened(h, r) == [file EXCEPT ![h] = [of |-> r, whole |-> FALSE, settled |-> FALSE]]
Written(h)   == [file EXCEPT ![h].whole = TRUE]

\* submit: the receipt was accepted; under the lock the row is updated, the
\* file is opened and written, and only then is the transaction committed.
SubmitWrite(h) ==
  /\ ~sub.on /\ ~row[h].verified /\ made < MaxReceipts
  /\ made' = made + 1
  /\ sub' = [on |-> TRUE, h |-> h, r |-> made + 1]
  /\ file' = Opened(h, made + 1)
  /\ UNCHANGED <<row, peer, spoiled, offsite, checks, bridge, prune, faults>>

Commit(h, r) == [row EXCEPT ![h] = [verified |-> TRUE, sha |-> r]]

SubmitCommit ==
  /\ sub.on
  /\ file' = Written(sub.h) /\ row' = Commit(sub.h, sub.r) /\ sub' = NoJob
  /\ UNCHANGED <<made, peer, spoiled, offsite, checks, bridge, prune, faults>>

\* The write raises; the exception is swallowed and the row is committed.
SubmitWriteFails ==
  /\ sub.on /\ Fault
  /\ row' = Commit(sub.h, sub.r) /\ spoiled' = spoiled \cup {sub.h} /\ sub' = NoJob
  /\ UNCHANGED <<file, made, peer, offsite, checks, bridge, prune>>

\* The coordinator dies inside the transaction: the row is rolled back, the
\* file stays, torn or whole.
SubmitCrash ==
  /\ sub.on /\ Fault
  /\ file' \in {file, Written(sub.h)}
  /\ spoiled' = spoiled \cup {sub.h} /\ sub' = NoJob
  /\ UNCHANGED <<row, made, peer, offsite, checks, bridge, prune>>

\* sync_from_peers: `have` is read once, then each range it lacks is fetched
\* and verified, for minutes in all.
PeerFetch(h) ==
  /\ ~peer.on /\ ~row[h].verified /\ made < MaxReceipts
  /\ made' = made + 1
  /\ peer' = [on |-> TRUE, h |-> h, r |-> made + 1]
  /\ UNCHANGED <<row, file, sub, spoiled, offsite, checks, bridge, prune, faults>>

\* INSERT OR REPLACE without a receipt_sha: an adopted row has none, and a
\* row that was verified in the meantime loses the one it had.
AdoptedRow == [verified |-> TRUE, sha |-> 0]

\* The row is replaced under the lock; the file is opened after it is
\* released.
PeerAdopt ==
  /\ peer.on /\ file[peer.h].of # peer.r
  /\ ~(sub.on /\ sub.h = peer.h)
  /\ row' = [row EXCEPT ![peer.h] = AdoptedRow]
  /\ file' = Opened(peer.h, peer.r)
  /\ spoiled' = IF file[peer.h].of # 0 THEN spoiled \cup {peer.h} ELSE spoiled
  /\ UNCHANGED <<made, sub, peer, offsite, checks, bridge, prune, faults>>

PeerWrite ==
  /\ peer.on /\ file[peer.h].of = peer.r
  /\ \/ file' = Written(peer.h) /\ UNCHANGED <<spoiled, faults>>
     \/ Fault /\ spoiled' = spoiled \cup {peer.h} /\ UNCHANGED file   \* swallowed
  /\ peer' = NoJob
  /\ UNCHANGED <<row, made, sub, offsite, checks, bridge, prune>>

\* The file gets older than min_age (120 s for the mirror, 600 s for the
\* nightly check); a write in progress keeps it young.
BeingWritten(h) == (sub.on /\ sub.h = h) \/ (peer.on /\ peer.h = h /\ file[h].of = peer.r)

Age(h) ==
  /\ file[h].of # 0 /\ ~file[h].settled /\ ~BeingWritten(h)
  /\ file' = [file EXCEPT ![h].settled = TRUE]
  /\ UNCHANGED <<row, made, sub, peer, spoiled, offsite, checks, bridge, prune, faults>>

-----------------------------------------------------------------------------
(* hazync-offsite-proofs.py copy: one run at a time per store.              *)

\* list_local with a min_age.
AnyAge == {h \in Blocks : file[h].of # 0}
ListLocal == {h \in Blocks : file[h].of # 0 /\ file[h].settled}
ListRemote(s) == {h \in Blocks : store[s][h].of # 0}

\* plan: a name that is in the store is never uploaded again, whatever its
\* size there.
Refresh(local, s) == {h \in local : h \notin ListRemote(s) \/ store[s][h].whole # file[h].whole}
Missing(local, s) == {h \in local : h \notin ListRemote(s)}

MirrorList(s) ==
  /\ mirror[s] = {} /\ Missing(ListLocal, s) # {}
  /\ mirror' = [mirror EXCEPT ![s] = Missing(ListLocal, s)]
  /\ UNCHANGED <<served, store, checks, bridge, prune, faults>>

\* up(name) opens the file when its turn comes: what is uploaded is what is
\* in it then.
Upload(s, h) ==
  /\ h \in mirror[s]
  /\ store' = [store EXCEPT ![s][h] = [of |-> file[h].of, whole |-> file[h].whole]]
  /\ mirror' = [mirror EXCEPT ![s] = @ \ {h}]
  /\ UNCHANGED <<served, checks, bridge, prune, faults>>

\* A failed upload is counted and the run goes on; the next run lists again.
UploadFails(s, h) ==
  /\ h \in mirror[s] /\ Fault
  /\ mirror' = [mirror EXCEPT ![s] = @ \ {h}]
  /\ UNCHANGED <<served, store, checks, bridge, prune>>

-----------------------------------------------------------------------------
(* check-proofs.py, under hazync-run-check, which keeps the marker.         *)

CheckList ==
  /\ checking = {} /\ ListLocal # {}
  /\ checking' = ListLocal
  /\ UNCHANGED <<served, offsite, bad, marker, bridge, prune, faults>>

\* check_one: the row's sha (None when the row is not verified, or is NULL),
\* the bytes' hash, and verify-any, which rejects a torn file.
Holds(h) ==
  /\ row[h].verified /\ row[h].sha # 0
  /\ file[h].of = row[h].sha
  /\ file[h].whole

CheckVerdict ==
  /\ checking # {}
  /\ bad' = {h \in checking : ~Holds(h)}
  /\ marker' = IF bad' = {} THEN "pass" ELSE "fail"
  /\ checking' = {}
  /\ UNCHANGED <<served, offsite, bridge, prune, faults>>

\* Exit 2: the database, the proof directory or the host binary is missing.
CheckCannotRun ==
  /\ Fault /\ marker' = "fail" /\ checking' = {}
  /\ UNCHANGED <<served, offsite, bad, bridge, prune>>

-----------------------------------------------------------------------------
(* The bridge's archive, the spine's top, and the prune job.                *)

SpineAdvance(t) ==
  /\ t > top
  /\ top' = t
  /\ UNCHANGED <<served, offsite, checks, rungs, bundle, prune, faults>>

ArchiveRung(c) ==
  /\ c \notin rungs
  /\ rungs' = rungs \cup {c}
  /\ UNCHANGED <<served, offsite, checks, top, bundle, prune, faults>>

\* confirm: both stores listed, or nothing is done; an empty listing is not
\* taken as "nothing is backed up".
PruneConfirm ==
  /\ prune.at = "idle"
  /\ \A s \in Stores : ListRemote(s) # {}
  /\ prune' = [at |-> "listed", names |-> [s \in Stores |-> ListRemote(s)], doomed |-> {}]
  /\ UNCHANGED <<served, offsite, checks, bridge, faults>>

\* What the run reads: the rungs' names, spine.json, the marker, the ledger.
HasCheckpointBelow(h) == \E c \in rungs : c < h
SpineTop == top
ReverifyPassed == marker = "pass"
VerifiedSingle == {h \in Blocks : row[h].verified /\ row[h].sha # 0}

OneStoreConfirms(h) == h \in UNION {prune.names[s] : s \in Stores}
Confirmed(h) == \A s \in Stores : h \in prune.names[s]

\* prune_decision.
PruneDecision(h) ==
  /\ ReverifyPassed
  /\ HasCheckpointBelow(h)
  /\ h \in VerifiedSingle
  /\ 0 < h /\ h <= SpineTop
  /\ Confirmed(h)
  /\ h + Margin <= SpineTop

\* main: the marker, the top and the rungs are read, then the ledger, then
\* the bundle directory; an empty directory stops the run with exit 2.
PruneDecide ==
  /\ prune.at = "listed"
  /\ LET doomed == {h \in bundle : PruneDecision(h)}
     IN prune' = IF doomed = {} THEN NotPruning
                 ELSE [NotPruning EXCEPT !.at = "deleting", !.doomed = doomed]
  /\ UNCHANGED <<served, offsite, checks, bridge, faults>>

\* The deletions go up in height; a failed one ends the run with exit 1, and
\* the run may be stopped between any two.
PruneDelete ==
  /\ prune.at = "deleting"
  /\ \E h \in prune.doomed :
       /\ \A g \in prune.doomed : h <= g
       /\ bundle' = bundle \ {h}
       /\ prune' = IF prune.doomed = {h} THEN NotPruning
                   ELSE [prune EXCEPT !.doomed = @ \ {h}]
  /\ UNCHANGED <<served, offsite, checks, top, rungs, faults>>

PruneStopped ==
  /\ prune.at # "idle" /\ Fault
  /\ prune' = NotPruning
  /\ UNCHANGED <<served, offsite, checks, bridge>>

\* regen_bundles: the asked-for heights are replayed from the lowest of the
\* rungs nearest below them, or refused when one has none.
Plannable(asked) == asked # {} /\ \A h \in asked : HasCheckpointBelow(h)

\* The walk fails or is cut short, or reaches all of them; of what it made
\* only what was asked for is installed.
Replayed(asked) == SUBSET asked

Regenerate(asked) ==
  /\ Plannable(asked)
  /\ \E walked \in Replayed(asked) \ {{}} : bundle' = bundle \cup walked
  /\ UNCHANGED <<served, offsite, checks, top, rungs, prune, faults>>

\* sync_bundles: the span from the first to the last missing height is asked
\* of a peer, chunk by chunk; what the peer has of it is written, each bundle
\* whole or not at all, and a killed run keeps what it wrote.
Extracted(span) == SUBSET span
SyncBundles ==
  /\ bundle # Blocks
  /\ \E got \in Extracted(Blocks) : ~(got \subseteq bundle) /\ bundle' = bundle \cup got
  /\ UNCHANGED <<served, offsite, checks, top, rungs, prune, faults>>

Next ==
  \/ \E h \in Blocks : SubmitWrite(h) \/ PeerFetch(h) \/ Age(h)
  \/ SubmitCommit \/ SubmitWriteFails \/ SubmitCrash
  \/ PeerAdopt \/ PeerWrite
  \/ \E s \in Stores : MirrorList(s) \/ \E h \in Blocks : Upload(s, h) \/ UploadFails(s, h)
  \/ CheckList \/ CheckVerdict \/ CheckCannotRun
  \/ \E t \in Tops : SpineAdvance(t)
  \/ \E c \in Rungs : ArchiveRung(c)
  \/ PruneConfirm \/ PruneDecide \/ PruneDelete \/ PruneStopped
  \/ \E asked \in SUBSET Blocks : Regenerate(asked)
  \/ SyncBundles

Spec == Init /\ [][Next]_vars

-----------------------------------------------------------------------------
(* Properties.                                                              *)

\* A bundle is gone only for a block that is finished and can be brought
\* back: verified, well inside the spine, a receipt of its name in every
\* store, and an archived checkpoint below it.  The prune job reads these at
\* different moments, and everything else goes on meanwhile.
PrunedIsFinished ==
  \A h \in Blocks \ bundle :
    /\ row[h].verified
    /\ h + Margin <= top
    /\ \A s \in Stores : store[s][h].of # 0
    /\ \E c \in rungs : c < h

\* An object half of whose bytes are missing is in a store only for a block
\* whose file an interrupted, failed or second write left torn: the mirror
\* never uploads a proof that is still arriving, however its listing and its
\* uploads fall between the writer's steps.
OnlySpoiledIsTorn ==
  \A s \in Stores, h \in Blocks : ~store[s][h].whole => h \in spoiled

\* The mirror is append-only: what a store has been given it keeps.
StoresOnlyGrow ==
  [][\A s \in Stores, h \in Blocks : store[s][h].of # 0 => store'[s][h] = store[s][h]]_vars

=============================================================================
