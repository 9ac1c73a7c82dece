--------------------------- MODULE ArchiveProofs ---------------------------
(* Proofs about Archive, for every value of its constants. *)
EXTENDS Archive, TLAPS

-----------------------------------------------------------------------------
(* The inductive invariant.                                                 *)

\* Receipts are numbered in the order they are made, and whoever writes one
\* writes it for a block.
ReceiptsNumbered ==
  /\ \A h \in Blocks : file[h].of <= made
  /\ sub.r <= made /\ peer.r <= made
  /\ sub.on => sub.h \in Blocks /\ sub.r # 0
  /\ peer.on => peer.h \in Blocks /\ peer.r # 0

\* A proof that is arriving is young, and one of which a part is missing is
\* arriving or was spoiled; a file that stays belongs to a verified row, to
\* the submission inside its commit, or was spoiled.
FilesSound ==
  /\ \A h \in Blocks : file[h].settled => ~BeingWritten(h)
  /\ \A h \in Blocks : ~file[h].whole => BeingWritten(h) \/ h \in spoiled
  /\ \A h \in Blocks : file[h].of # 0 => row[h].verified \/ (sub.on /\ sub.h = h) \/ h \in spoiled

\* A name the mirror still has to upload is a file it found settled, is not
\* in the store, and can have been opened again only by spoiling it.
MirrorSound ==
  \A s \in Stores : \A h \in mirror[s] :
    /\ store[s][h].of = 0
    /\ file[h].of # 0
    /\ file[h].settled \/ h \in spoiled

\* What a prune run has confirmed stays confirmed, and what it decided to
\* delete stays finished, for as long as it takes.
Finished(h) ==
  /\ row[h].verified
  /\ h + Margin <= top
  /\ \A s \in Stores : store[s][h].of # 0
  /\ \E c \in rungs : c < h

PruneSound ==
  /\ \A s \in Stores : \A h \in prune.names[s] : store[s][h].of # 0
  /\ \A h \in prune.doomed : Finished(h)

ArchiveInv ==
  /\ TypeOK /\ ReceiptsNumbered /\ FilesSound /\ MirrorSound /\ OnlySpoiledIsTorn
  /\ PruneSound /\ PrunedIsFinished

-----------------------------------------------------------------------------
(* Every step keeps the invariant.                                          *)

\* A disk with no proof on it, empty stores and every bundle in place.
LEMMA InitSound == Init => ArchiveInv
<1> SUFFICES ASSUME Init PROVE ArchiveInv
  OBVIOUS
<1>1. TypeOK
  BY BlocksAssumption DEF Init, TypeOK, NoJob, NoFile, NoObject, NotPruning
<1>2. ReceiptsNumbered /\ FilesSound
  BY DEF Init, ReceiptsNumbered, FilesSound, BeingWritten, NoJob, NoFile
<1>3. MirrorSound /\ OnlySpoiledIsTorn
  BY DEF Init, MirrorSound, OnlySpoiledIsTorn, NoObject
<1>4. PruneSound /\ PrunedIsFinished
  BY DEF Init, PruneSound, PrunedIsFinished, NotPruning
<1> QED
  BY <1>1, <1>2, <1>3, <1>4 DEF ArchiveInv

\* The steps of submit and sync_from_peers leave the stores, the bundles and
\* the jobs alone, and never take a verified row back.
LEMMA WritersKeepPrune ==
  ASSUME ArchiveInv, UNCHANGED <<offsite, checks, bridge, prune>>,
         \A h \in Blocks : row[h].verified => row'[h].verified
  PROVE  PruneSound' /\ PrunedIsFinished'
  BY DEF ArchiveInv, TypeOK, PruneSound, PrunedIsFinished, Finished, offsite, bridge

\* What the mirror relies on, when a writer opens no file but one that is
\* not there or is spoiled.
LEMMA WritersKeepMirror ==
  ASSUME ArchiveInv, UNCHANGED offsite, spoiled \subseteq spoiled',
         \A h \in Blocks : file[h].of # 0 =>
           /\ file'[h].of # 0
           /\ file[h].settled => file'[h].settled \/ h \in spoiled'
  PROVE  MirrorSound' /\ OnlySpoiledIsTorn'
  BY DEF ArchiveInv, TypeOK, MirrorSound, OnlySpoiledIsTorn, offsite

Files == [Blocks -> [of : 0..MaxReceipts, whole : BOOLEAN, settled : BOOLEAN]]
Rows  == [Blocks -> [verified : BOOLEAN, sha : 0..MaxReceipts]]

\* Finishing a write makes the file whole and changes nothing else.
LEMMA WrittenIs ==
  ASSUME TypeOK, NEW h \in Blocks
  PROVE  /\ Written(h) \in Files
         /\ \A g \in Blocks : /\ Written(h)[g].of = file[g].of
                              /\ Written(h)[g].settled = file[g].settled
                              /\ Written(h)[g].whole = (file[g].whole \/ g = h)
<1> DEFINE f == [file[h] EXCEPT !.whole = TRUE]
<1>1. file \in Files
  BY DEF TypeOK, Files
<1>2. /\ f \in [of : 0..MaxReceipts, whole : BOOLEAN, settled : BOOLEAN]
      /\ f.of = file[h].of /\ f.whole = TRUE /\ f.settled = file[h].settled
  BY <1>1 DEF Files
<1>3. Written(h) = [file EXCEPT ![h] = f]
  BY DEF Written
<1> HIDE DEF f
<1> QED
  BY <1>1, <1>2, <1>3 DEF Files

\* Opening a file leaves a young and torn one of the new receipt.
LEMMA OpenedIs ==
  ASSUME TypeOK, NEW h \in Blocks, NEW r \in 0..MaxReceipts
  PROVE  /\ Opened(h, r) \in Files
         /\ \A g \in Blocks \ {h} : Opened(h, r)[g] = file[g]
         /\ Opened(h, r)[h] = [of |-> r, whole |-> FALSE, settled |-> FALSE]
  BY DEF Opened, TypeOK, Files

\* The commit of a submission verifies its row and no other.
LEMMA CommitIs ==
  ASSUME TypeOK, NEW h \in Blocks, NEW r \in 0..MaxReceipts
  PROVE  /\ Commit(h, r) \in Rows
         /\ \A g \in Blocks \ {h} : Commit(h, r)[g] = row[g]
         /\ Commit(h, r)[h].verified
  BY DEF Commit, TypeOK, Rows

\* A fault stays within its bound.
LEMMA FaultTyped ==
  ASSUME TypeOK, Fault
  PROVE  faults' \in 0..MaxFaults
  BY BlocksAssumption DEF TypeOK, Fault

\* submit, its failures and its crash.
LEMMA SubmitSound ==
  ASSUME ArchiveInv,
         \/ \E h \in Blocks : SubmitWrite(h)
         \/ SubmitCommit \/ SubmitWriteFails \/ SubmitCrash
  PROVE  ArchiveInv'
<1>0. TypeOK /\ ReceiptsNumbered /\ FilesSound
  BY DEF ArchiveInv
<1>s. sub.on => sub.h \in Blocks /\ sub.r \in 0..MaxReceipts
  BY <1>0 DEF ReceiptsNumbered, TypeOK
<1>1. CASE \E h \in Blocks : SubmitWrite(h)
  <2>0. PICK h \in Blocks : SubmitWrite(h)
    BY <1>1
  <2>1. /\ made + 1 \in 0..MaxReceipts /\ made' = made + 1
        /\ file' \in Files
        /\ \A g \in Blocks \ {h} : file'[g] = file[g]
        /\ file'[h] = [of |-> made + 1, whole |-> FALSE, settled |-> FALSE]
    <3>1. made + 1 \in 0..MaxReceipts
      BY <1>0, <2>0, BlocksAssumption DEF SubmitWrite, TypeOK
    <3> QED
      BY <1>0, <2>0, <3>1, OpenedIs DEF SubmitWrite
  <2>2. TypeOK' /\ ReceiptsNumbered'
    BY <1>0, <2>0, <2>1 DEF SubmitWrite, TypeOK, Files, ReceiptsNumbered, offsite, checks, bridge
  <2>3. file[h].of = 0 \/ h \in spoiled
    BY <1>0, <2>0 DEF SubmitWrite, FilesSound
  <2>4. FilesSound'
    BY <1>0, <2>0, <2>1 DEF SubmitWrite, FilesSound, BeingWritten, ReceiptsNumbered, TypeOK
  <2>5. MirrorSound' /\ OnlySpoiledIsTorn'
    <3>1. \A g \in Blocks : file[g].of # 0 =>
            /\ file'[g].of # 0
            /\ file[g].settled => file'[g].settled \/ g \in spoiled'
      <4>1. made + 1 # 0 /\ spoiled' = spoiled
        BY <1>0, <2>0 DEF SubmitWrite, TypeOK
      <4> QED
        BY <2>1, <2>3, <4>1
    <3> QED
      BY <2>0, <3>1, WritersKeepMirror DEF SubmitWrite
  <2>6. PruneSound' /\ PrunedIsFinished'
    BY <2>0, WritersKeepPrune DEF SubmitWrite
  <2> QED
    BY <2>2, <2>4, <2>5, <2>6 DEF ArchiveInv
<1>2. CASE SubmitCommit
  <2>1. /\ file' \in Files
        /\ \A g \in Blocks : /\ file'[g].of = file[g].of /\ file'[g].settled = file[g].settled
                             /\ file'[g].whole = (file[g].whole \/ g = sub.h)
    BY <1>0, <1>2, <1>s, WrittenIs DEF SubmitCommit
  <2>2. /\ row' \in Rows /\ row'[sub.h].verified
        /\ \A g \in Blocks \ {sub.h} : row'[g] = row[g]
    BY <1>0, <1>2, <1>s, CommitIs DEF SubmitCommit
  <2>3. TypeOK' /\ ReceiptsNumbered'
    BY <1>0, <1>2, <2>1, <2>2, BlocksAssumption
    DEF SubmitCommit, NoJob, TypeOK, Files, Rows, ReceiptsNumbered, offsite, checks, bridge
  <2>4. FilesSound'
    BY <1>0, <1>2, <2>1, <2>2 DEF SubmitCommit, NoJob, FilesSound, BeingWritten
  <2>5. MirrorSound' /\ OnlySpoiledIsTorn'
    BY <1>2, <2>1, WritersKeepMirror DEF SubmitCommit
  <2>6. PruneSound' /\ PrunedIsFinished'
    BY <1>2, <2>2, WritersKeepPrune DEF SubmitCommit
  <2> QED
    BY <2>3, <2>4, <2>5, <2>6 DEF ArchiveInv
<1>3. CASE SubmitWriteFails
  <2>2. /\ row' \in Rows /\ row'[sub.h].verified
        /\ \A g \in Blocks \ {sub.h} : row'[g] = row[g]
    BY <1>0, <1>3, <1>s, CommitIs DEF SubmitWriteFails
  <2>3. TypeOK' /\ ReceiptsNumbered'
    <3>1. faults' \in 0..MaxFaults
      BY <1>0, <1>3, FaultTyped DEF SubmitWriteFails
    <3>2. spoiled' \subseteq Blocks
      BY <1>0, <1>3, <1>s DEF SubmitWriteFails, TypeOK
    <3>3. ReceiptsNumbered'
      BY <1>0, <1>3, <2>2 DEF SubmitWriteFails, NoJob, ReceiptsNumbered, TypeOK
    <3> QED
      BY <1>0, <1>3, <2>2, <3>1, <3>2, <3>3, BlocksAssumption
      DEF SubmitWriteFails, NoJob, TypeOK, Rows, offsite, checks, bridge
  <2>4. FilesSound'
    BY <1>0, <1>3, <2>2 DEF SubmitWriteFails, NoJob, FilesSound, BeingWritten
  <2>5. MirrorSound' /\ OnlySpoiledIsTorn'
    BY <1>3, WritersKeepMirror DEF SubmitWriteFails
  <2>6. PruneSound' /\ PrunedIsFinished'
    BY <1>3, <2>2, WritersKeepPrune DEF SubmitWriteFails
  <2> QED
    BY <2>3, <2>4, <2>5, <2>6 DEF ArchiveInv
<1>4. CASE SubmitCrash
  <2>1. /\ file' \in Files
        /\ \A g \in Blocks : /\ file'[g].of = file[g].of /\ file'[g].settled = file[g].settled
                             /\ file[g].whole => file'[g].whole
                             /\ g # sub.h => file'[g].whole = file[g].whole
    BY <1>0, <1>4, <1>s, WrittenIs DEF SubmitCrash, TypeOK, Files
  <2>3. TypeOK' /\ ReceiptsNumbered'
    <3>1. faults' \in 0..MaxFaults
      BY <1>0, <1>4, FaultTyped DEF SubmitCrash
    <3>2. spoiled' \subseteq Blocks
      BY <1>0, <1>4, <1>s DEF SubmitCrash, TypeOK
    <3>3. ReceiptsNumbered'
      BY <1>0, <1>4, <2>1 DEF SubmitCrash, NoJob, ReceiptsNumbered, TypeOK
    <3> QED
      BY <1>0, <1>4, <2>1, <3>1, <3>2, <3>3, BlocksAssumption
      DEF SubmitCrash, NoJob, TypeOK, Files, offsite, checks, bridge
  <2>4. FilesSound'
    BY <1>0, <1>4, <2>1 DEF SubmitCrash, NoJob, FilesSound, BeingWritten
  <2>5. MirrorSound' /\ OnlySpoiledIsTorn'
    BY <1>4, <2>1, WritersKeepMirror DEF SubmitCrash
  <2>6. PruneSound' /\ PrunedIsFinished'
    BY <1>4, WritersKeepPrune DEF SubmitCrash
  <2> QED
    BY <2>3, <2>4, <2>5, <2>6 DEF ArchiveInv
<1> QED
  BY <1>1, <1>2, <1>3, <1>4

\* sync_from_peers: the fetch, the row it replaces and the file it writes.
LEMMA PeerSound ==
  ASSUME ArchiveInv, (\E h \in Blocks : PeerFetch(h)) \/ PeerAdopt \/ PeerWrite
  PROVE  ArchiveInv'
<1>0. TypeOK /\ ReceiptsNumbered /\ FilesSound
  BY DEF ArchiveInv
<1>p. peer.on => peer.h \in Blocks /\ peer.r \in 0..MaxReceipts
  BY <1>0 DEF ReceiptsNumbered, TypeOK
<1>1. CASE \E h \in Blocks : PeerFetch(h)
  <2>0. PICK h \in Blocks : PeerFetch(h)
    BY <1>1
  <2>1. TypeOK' /\ ReceiptsNumbered'
    BY <1>0, <2>0, BlocksAssumption DEF PeerFetch, TypeOK, ReceiptsNumbered, offsite, checks, bridge
  <2>2. FilesSound'
    BY <1>0, <2>0 DEF PeerFetch, FilesSound, BeingWritten, ReceiptsNumbered, TypeOK
  <2>3. MirrorSound' /\ OnlySpoiledIsTorn'
    BY <2>0, WritersKeepMirror DEF PeerFetch
  <2>4. PruneSound' /\ PrunedIsFinished'
    BY <2>0, WritersKeepPrune DEF PeerFetch
  <2> QED
    BY <2>1, <2>2, <2>3, <2>4 DEF ArchiveInv
<1>2. CASE PeerAdopt
  <2>1. /\ file' \in Files
        /\ \A g \in Blocks \ {peer.h} : file'[g] = file[g]
        /\ file'[peer.h] = [of |-> peer.r, whole |-> FALSE, settled |-> FALSE]
    BY <1>0, <1>2, <1>p, OpenedIs DEF PeerAdopt
  <2>2. /\ row' \in Rows /\ row'[peer.h].verified
        /\ \A g \in Blocks \ {peer.h} : row'[g] = row[g]
    BY <1>0, <1>2, <1>p, BlocksAssumption DEF PeerAdopt, AdoptedRow, TypeOK, Rows
  <2>3. /\ spoiled \subseteq spoiled' /\ spoiled' \subseteq Blocks
        /\ file[peer.h].of # 0 => peer.h \in spoiled'
    BY <1>0, <1>2, <1>p DEF PeerAdopt, TypeOK
  <2>4. TypeOK' /\ ReceiptsNumbered'
    <3>1. TypeOK'
      BY <1>0, <1>2, <2>1, <2>2, <2>3 DEF PeerAdopt, TypeOK, Files, Rows, offsite, checks, bridge
    <3>2. ReceiptsNumbered'
      BY <1>0, <1>2, <1>p, <2>1 DEF PeerAdopt, ReceiptsNumbered
    <3> QED
      BY <3>1, <3>2
  <2>5. FilesSound'
    BY <1>0, <1>2, <1>p, <2>1, <2>2, <2>3 DEF PeerAdopt, FilesSound, BeingWritten, ReceiptsNumbered
  <2>6. MirrorSound' /\ OnlySpoiledIsTorn'
    <3>1. \A g \in Blocks : file[g].of # 0 =>
            /\ file'[g].of # 0
            /\ file[g].settled => file'[g].settled \/ g \in spoiled'
      BY <1>0, <1>2, <1>p, <2>1, <2>3 DEF PeerAdopt, ReceiptsNumbered
    <3> QED
      BY <1>2, <2>3, <3>1, WritersKeepMirror DEF PeerAdopt
  <2>7. PruneSound' /\ PrunedIsFinished'
    BY <1>2, <2>2, WritersKeepPrune DEF PeerAdopt
  <2> QED
    BY <2>4, <2>5, <2>6, <2>7 DEF ArchiveInv
<1>3. CASE PeerWrite
  <2>1. /\ file' \in Files
        /\ \A g \in Blocks : /\ file'[g].of = file[g].of /\ file'[g].settled = file[g].settled
                             /\ file[g].whole => file'[g].whole
                             /\ g # peer.h => file'[g].whole = file[g].whole
    BY <1>0, <1>3, <1>p, WrittenIs DEF PeerWrite, TypeOK, Files
  <2>2. /\ file'[peer.h].whole \/ peer.h \in spoiled'
        /\ spoiled \subseteq spoiled' /\ spoiled' \subseteq Blocks
    BY <1>0, <1>3, <1>p, WrittenIs DEF PeerWrite, TypeOK
  <2>3. faults' \in 0..MaxFaults
    BY <1>0, <1>3, FaultTyped DEF PeerWrite, TypeOK
  <2>4. TypeOK' /\ ReceiptsNumbered'
    BY <1>0, <1>3, <2>1, <2>2, <2>3, BlocksAssumption
    DEF PeerWrite, NoJob, TypeOK, Files, ReceiptsNumbered, offsite, checks, bridge
  <2>5. FilesSound'
    BY <1>0, <1>3, <2>1, <2>2 DEF PeerWrite, NoJob, FilesSound, BeingWritten
  <2>6. MirrorSound' /\ OnlySpoiledIsTorn'
    BY <1>3, <2>1, <2>2, WritersKeepMirror DEF PeerWrite
  <2>7. PruneSound' /\ PrunedIsFinished'
    BY <1>3, WritersKeepPrune DEF PeerWrite
  <2> QED
    BY <2>4, <2>5, <2>6, <2>7 DEF ArchiveInv
<1> QED
  BY <1>1, <1>2, <1>3

\* A file grows older.
LEMMA AgeSound ==
  ASSUME ArchiveInv, NEW h \in Blocks, Age(h)
  PROVE  ArchiveInv'
<1>0. TypeOK /\ ReceiptsNumbered /\ FilesSound
  BY DEF ArchiveInv
<1>1. /\ file' \in Files
      /\ \A g \in Blocks : /\ file'[g].of = file[g].of /\ file'[g].whole = file[g].whole
                           /\ file'[g].settled = (file[g].settled \/ g = h)
  <2> DEFINE f == [file[h] EXCEPT !.settled = TRUE]
  <2>1. file \in Files
    BY <1>0 DEF TypeOK, Files
  <2>2. /\ f \in [of : 0..MaxReceipts, whole : BOOLEAN, settled : BOOLEAN]
        /\ f.of = file[h].of /\ f.whole = file[h].whole /\ f.settled = TRUE
    BY <2>1 DEF Files
  <2>3. file' = [file EXCEPT ![h] = f]
    BY DEF Age
  <2> HIDE DEF f
  <2> QED
    BY <2>1, <2>2, <2>3 DEF Files
<1>2. TypeOK' /\ ReceiptsNumbered'
  BY <1>0, <1>1 DEF Age, TypeOK, Files, ReceiptsNumbered, offsite, checks, bridge
<1>3. FilesSound'
  BY <1>0, <1>1 DEF Age, FilesSound, BeingWritten
<1>4. MirrorSound' /\ OnlySpoiledIsTorn'
  BY <1>1, WritersKeepMirror DEF Age
<1>5. PruneSound' /\ PrunedIsFinished'
  BY WritersKeepPrune DEF Age
<1> QED
  BY <1>2, <1>3, <1>4, <1>5 DEF ArchiveInv

\* Steps that leave the files, their writers and the stores' names alone.
LEMMA FilesUntouched ==
  ASSUME FilesSound, ReceiptsNumbered, UNCHANGED served
  PROVE  FilesSound' /\ ReceiptsNumbered'
  BY DEF FilesSound, ReceiptsNumbered, BeingWritten, served

\* hazync-offsite-proofs.py copy.
LEMMA MirrorKeeps ==
  ASSUME ArchiveInv,
         \E s \in Stores : MirrorList(s) \/ \E h \in Blocks : Upload(s, h) \/ UploadFails(s, h)
  PROVE  ArchiveInv'
<1>0. TypeOK /\ ReceiptsNumbered /\ FilesSound /\ MirrorSound /\ OnlySpoiledIsTorn /\ PruneSound
      /\ PrunedIsFinished
  BY DEF ArchiveInv
<1>1. PICK s \in Stores : MirrorList(s) \/ \E h \in Blocks : Upload(s, h) \/ UploadFails(s, h)
  OBVIOUS
<1>2. CASE MirrorList(s)
  <2>1. TypeOK'
    BY <1>0, <1>2 DEF MirrorList, Missing, ListLocal, TypeOK, served, checks, bridge
  <2>2. ReceiptsNumbered' /\ FilesSound'
    BY <1>0, <1>2, FilesUntouched DEF MirrorList
  <2>3. MirrorSound' /\ OnlySpoiledIsTorn'
    BY <1>0, <1>2 DEF MirrorList, Missing, ListLocal, ListRemote, MirrorSound, OnlySpoiledIsTorn, TypeOK, served
  <2>4. PruneSound' /\ PrunedIsFinished'
    BY <1>0, <1>2 DEF MirrorList, PruneSound, PrunedIsFinished, Finished, served, bridge
  <2> QED
    BY <2>1, <2>2, <2>3, <2>4 DEF ArchiveInv
<1>3. ASSUME NEW h \in Blocks, Upload(s, h)
      PROVE  ArchiveInv'
  <2>1. /\ store' \in [Stores -> [Blocks -> [of : 0..MaxReceipts, whole : BOOLEAN]]]
        /\ \A t \in Stores, g \in Blocks : t # s \/ g # h => store'[t][g] = store[t][g]
        /\ store'[s][h].of = file[h].of /\ store'[s][h].whole = file[h].whole
    BY <1>0, <1>3 DEF Upload, TypeOK
  <2>2. /\ store[s][h].of = 0 /\ file[h].of # 0
        /\ ~file[h].whole => h \in spoiled
    BY <1>0, <1>3 DEF Upload, MirrorSound, FilesSound
  <2>3. TypeOK'
    BY <1>0, <1>3, <2>1 DEF Upload, TypeOK, served, checks, bridge
  <2>4. ReceiptsNumbered' /\ FilesSound'
    BY <1>0, <1>3, FilesUntouched DEF Upload
  <2>5. MirrorSound' /\ OnlySpoiledIsTorn'
    BY <1>0, <1>3, <2>1, <2>2 DEF Upload, MirrorSound, OnlySpoiledIsTorn, TypeOK, served
  <2>6. \A t \in Stores, g \in Blocks : store[t][g].of # 0 => store'[t][g].of # 0
    BY <2>1, <2>2
  <2>7. PruneSound' /\ PrunedIsFinished'
    BY <1>0, <1>3, <2>6 DEF Upload, TypeOK, PruneSound, PrunedIsFinished, Finished, served, bridge
  <2> QED
    BY <2>3, <2>4, <2>5, <2>7 DEF ArchiveInv
<1>4. ASSUME NEW h \in Blocks, UploadFails(s, h)
      PROVE  ArchiveInv'
  <2>1. faults' \in 0..MaxFaults
    BY <1>0, <1>4, FaultTyped DEF UploadFails
  <2>2. TypeOK'
    BY <1>0, <1>4, <2>1 DEF UploadFails, TypeOK, served, checks, bridge
  <2>3. ReceiptsNumbered' /\ FilesSound'
    BY <1>0, <1>4, FilesUntouched DEF UploadFails
  <2>4. MirrorSound' /\ OnlySpoiledIsTorn'
    BY <1>0, <1>4 DEF UploadFails, MirrorSound, OnlySpoiledIsTorn, TypeOK, served
  <2>5. PruneSound' /\ PrunedIsFinished'
    BY <1>0, <1>4 DEF UploadFails, PruneSound, PrunedIsFinished, Finished, served, bridge
  <2> QED
    BY <2>2, <2>3, <2>4, <2>5 DEF ArchiveInv
<1> QED
  BY <1>1, <1>2, <1>3, <1>4

\* check-proofs.py, the bridge's archive, the spine and the ways back: none
\* of them takes away what a prune run relies on.
LEMMA ReadersKeep ==
  ASSUME ArchiveInv, TypeOK', UNCHANGED <<served, offsite, prune>>,
         top <= top', rungs \subseteq rungs', bundle \subseteq bundle'
  PROVE  ArchiveInv'
<1>0. TypeOK /\ ReceiptsNumbered /\ FilesSound /\ MirrorSound /\ OnlySpoiledIsTorn /\ PruneSound
      /\ PrunedIsFinished
  BY DEF ArchiveInv
<1>1. ReceiptsNumbered' /\ FilesSound'
  BY <1>0, FilesUntouched
<1>2. MirrorSound' /\ OnlySpoiledIsTorn'
  BY <1>0 DEF MirrorSound, OnlySpoiledIsTorn, served, offsite
<1>3. ASSUME NEW h \in Blocks, Finished(h)
      PROVE  Finished(h)'
  BY <1>0, <1>3, BlocksAssumption DEF Finished, served, offsite, TypeOK
<1>4. PruneSound' /\ PrunedIsFinished'
  <2>1. \A h \in Blocks : Finished(h) => Finished(h)'
    BY <1>3
  <2>2. prune.doomed \subseteq Blocks
    BY <1>0 DEF TypeOK
  <2>3. \A h \in Blocks \ bundle : Finished(h)
    BY <1>0 DEF PrunedIsFinished, Finished
  <2>4. PruneSound'
    BY <1>0, <2>1, <2>2 DEF PruneSound, offsite
  <2>5. \A h \in Blocks \ bundle' : Finished(h)'
    BY <2>1, <2>3
  <2> QED
    BY <2>4, <2>5 DEF PrunedIsFinished, Finished
<1> QED
  BY <1>1, <1>2, <1>4 DEF ArchiveInv

LEMMA OthersSound ==
  ASSUME ArchiveInv,
         \/ CheckList \/ CheckVerdict \/ CheckCannotRun
         \/ \E t \in Tops : SpineAdvance(t)
         \/ \E c \in Rungs : ArchiveRung(c)
         \/ \E asked \in SUBSET Blocks : Regenerate(asked)
         \/ SyncBundles
  PROVE  ArchiveInv'
<1>0. TypeOK /\ top \in Nat
  BY BlocksAssumption DEF ArchiveInv, TypeOK
<1>1. CASE CheckList \/ CheckVerdict
  <2>1. TypeOK'
    BY <1>0, <1>1 DEF CheckList, ListLocal, CheckVerdict, TypeOK, served, offsite, bridge
  <2> QED
    BY <1>0, <1>1, <2>1, ReadersKeep DEF CheckList, CheckVerdict, bridge
<1>2. CASE CheckCannotRun
  <2>1. TypeOK'
    BY <1>0, <1>2, FaultTyped DEF CheckCannotRun, TypeOK, served, offsite, bridge
  <2> QED
    BY <1>0, <1>2, <2>1, ReadersKeep DEF CheckCannotRun, bridge
<1>3. CASE \E t \in Tops : SpineAdvance(t)
  <2>1. TypeOK'
    BY <1>0, <1>3 DEF SpineAdvance, TypeOK, served, offsite, checks
  <2>2. top <= top'
    BY <1>0, <1>3, BlocksAssumption DEF SpineAdvance
  <2> QED
    BY <1>3, <2>1, <2>2, ReadersKeep DEF SpineAdvance
<1>4. CASE \E c \in Rungs : ArchiveRung(c)
  <2>1. TypeOK'
    BY <1>0, <1>4 DEF ArchiveRung, TypeOK, served, offsite, checks
  <2> QED
    BY <1>0, <1>4, <2>1, ReadersKeep DEF ArchiveRung
<1>5. CASE (\E asked \in SUBSET Blocks : Regenerate(asked)) \/ SyncBundles
  <2>1. bundle \subseteq bundle' /\ bundle' \subseteq Blocks
    BY <1>0, <1>5 DEF Regenerate, Replayed, SyncBundles, Extracted, TypeOK
  <2>2. TypeOK'
    BY <1>0, <1>5, <2>1 DEF Regenerate, SyncBundles, TypeOK, served, offsite, checks
  <2> QED
    BY <1>0, <1>5, <2>1, <2>2, ReadersKeep DEF Regenerate, SyncBundles
<1> QED
  BY <1>1, <1>2, <1>3, <1>4, <1>5

\* prune_bundles.py: it decides by names confirmed before, a ledger read
\* later, and deletes later still.
LEMMA PruneSteps ==
  ASSUME ArchiveInv, PruneConfirm \/ PruneDecide \/ PruneDelete \/ PruneStopped
  PROVE  ArchiveInv'
<1>0. TypeOK /\ ReceiptsNumbered /\ FilesSound /\ MirrorSound /\ OnlySpoiledIsTorn /\ PruneSound
      /\ PrunedIsFinished
  BY DEF ArchiveInv
<1>1. UNCHANGED <<served, offsite, checks, top, rungs>>
  BY DEF PruneConfirm, PruneDecide, PruneDelete, PruneStopped, bridge
<1>2. ReceiptsNumbered' /\ FilesSound'
  BY <1>0, <1>1, FilesUntouched
<1>3. MirrorSound' /\ OnlySpoiledIsTorn'
  BY <1>0, <1>1 DEF MirrorSound, OnlySpoiledIsTorn, served, offsite
<1>4. CASE PruneConfirm
  <2>1. TypeOK'
    BY <1>0, <1>4 DEF PruneConfirm, ListRemote, TypeOK, served, offsite, checks, bridge
  <2>2. PruneSound' /\ PrunedIsFinished'
    BY <1>0, <1>1, <1>4
    DEF PruneConfirm, ListRemote, PruneSound, PrunedIsFinished, Finished, served, offsite, bridge
  <2> QED
    BY <1>2, <1>3, <2>1, <2>2 DEF ArchiveInv
<1>5. CASE PruneDecide
  <2> DEFINE doomed == {h \in bundle : PruneDecision(h)}
  <2>1. doomed \subseteq Blocks
    BY <1>0 DEF TypeOK
  <2>2. ASSUME NEW h \in doomed
        PROVE  Finished(h)
    BY <1>0, <2>2 DEF PruneDecision, HasCheckpointBelow, VerifiedSingle, SpineTop, Confirmed,
                      PruneSound, Finished, TypeOK
  <2>3. \/ prune' = NotPruning
        \/ prune' = [NotPruning EXCEPT !.at = "deleting", !.doomed = doomed]
    BY <1>5 DEF PruneDecide
  <2> HIDE DEF doomed
  <2>4. TypeOK'
    BY <1>0, <1>5, <2>1, <2>3 DEF PruneDecide, NotPruning, TypeOK, served, offsite, checks, bridge
  <2>5. PruneSound'
    <3>1. \A h \in doomed : Finished(h)'
      BY <1>1, <2>2 DEF Finished, served, offsite
    <3>2. prune'.names = [s \in Stores |-> {}] /\ prune'.doomed \subseteq doomed
      <4>1. CASE prune' = NotPruning
        BY <4>1 DEF NotPruning
      <4>2. CASE prune' = [NotPruning EXCEPT !.at = "deleting", !.doomed = doomed]
        BY <4>2 DEF NotPruning
      <4> QED
        BY <2>3, <4>1, <4>2
    <3> QED
      BY <3>1, <3>2 DEF PruneSound
  <2>6. PrunedIsFinished'
    BY <1>0, <1>1, <1>5 DEF PruneDecide, PrunedIsFinished, served, offsite, bridge
  <2> QED
    BY <1>2, <1>3, <2>4, <2>5, <2>6 DEF ArchiveInv
<1>6. CASE PruneDelete
  <2>1. PICK h \in prune.doomed :
          /\ bundle' = bundle \ {h}
          /\ prune' = IF prune.doomed = {h} THEN NotPruning ELSE [prune EXCEPT !.doomed = @ \ {h}]
    BY <1>6 DEF PruneDelete
  <2>2. h \in Blocks /\ Finished(h)
    BY <1>0, <2>1 DEF TypeOK, PruneSound
  <2>3. TypeOK'
    BY <1>0, <1>6, <2>1 DEF PruneDelete, NotPruning, TypeOK, served, offsite, checks
  <2>4. PruneSound'
    BY <1>0, <1>1, <2>1 DEF NotPruning, PruneSound, Finished, served, offsite, TypeOK
  <2>5. PrunedIsFinished'
    BY <1>0, <1>1, <2>1, <2>2 DEF PrunedIsFinished, Finished, served, offsite
  <2> QED
    BY <1>2, <1>3, <2>3, <2>4, <2>5 DEF ArchiveInv
<1>7. CASE PruneStopped
  <2>1. TypeOK'
    BY <1>0, <1>7, FaultTyped DEF PruneStopped, NotPruning, TypeOK, served, offsite, checks, bridge
  <2>2. PruneSound' /\ PrunedIsFinished'
    BY <1>0, <1>1, <1>7 DEF PruneStopped, NotPruning, PruneSound, PrunedIsFinished, Finished, served, offsite, bridge
  <2> QED
    BY <1>2, <1>3, <2>1, <2>2 DEF ArchiveInv
<1> QED
  BY <1>4, <1>5, <1>6, <1>7

-----------------------------------------------------------------------------
(* The theorems.                                                            *)

LEMMA StepSound == ArchiveInv /\ [Next]_vars => ArchiveInv'
<1> SUFFICES ASSUME ArchiveInv, [Next]_vars PROVE ArchiveInv'
  OBVIOUS
<1>1. CASE \E h \in Blocks : SubmitWrite(h) \/ PeerFetch(h) \/ Age(h)
  BY <1>1, SubmitSound, PeerSound, AgeSound
<1>2. CASE UNCHANGED vars
  <2>1. TypeOK' /\ top \in Nat
    BY <1>2, BlocksAssumption DEF ArchiveInv, TypeOK, vars, served, offsite, checks, bridge
  <2> QED
    BY <1>2, <2>1, ReadersKeep DEF vars, bridge
<1> QED
  BY <1>1, <1>2, SubmitSound, PeerSound, MirrorKeeps, OthersSound, PruneSteps DEF Next

LEMMA ArchiveInvariant == Spec => []ArchiveInv
  BY InitSound, StepSound, PTL DEF Spec

\* A bundle is deleted only for a block that is finished and can be brought
\* back, however much time passes between what the prune job confirms, reads
\* and deletes: none of the four conditions is ever taken back.
THEOREM PrunedFinished == Spec => []PrunedIsFinished
<1>1. ArchiveInv => PrunedIsFinished
  BY DEF ArchiveInv
<1> QED
  BY <1>1, ArchiveInvariant, PTL

\* A torn object is offsite only for a block whose own file was left torn or
\* written over: listing by age is enough to keep the mirror away from a
\* proof that is still arriving.
THEOREM OnlySpoiledTorn == Spec => []OnlySpoiledIsTorn
<1>1. ArchiveInv => OnlySpoiledIsTorn
  BY DEF ArchiveInv
<1> QED
  BY <1>1, ArchiveInvariant, PTL

\* The mirror never replaces what a store has been given, although it
\* uploads long after it listed what is missing there.
THEOREM StoresGrow == Spec => StoresOnlyGrow
<1> DEFINE A == \A s \in Stores, h \in Blocks : store[s][h].of # 0 => store'[s][h] = store[s][h]
<1>1. ArchiveInv /\ [Next]_vars => A
  <2> SUFFICES ASSUME ArchiveInv, [Next]_vars PROVE A
    OBVIOUS
  <2>1. CASE \E s \in Stores, h \in Blocks : Upload(s, h)
    <3>1. PICK s \in Stores, h \in Blocks : Upload(s, h)
      BY <2>1
    <3>2. store[s][h].of = 0
      BY <3>1 DEF ArchiveInv, MirrorSound, Upload
    <3> QED
      BY <3>1, <3>2 DEF Upload, ArchiveInv, TypeOK
  <2>2. CASE UNCHANGED store
    BY <2>2
  <2> QED
    BY <2>1, <2>2
    DEF Next, vars, offsite, SubmitWrite, PeerFetch, Age, SubmitCommit, SubmitWriteFails, SubmitCrash,
        PeerAdopt, PeerWrite, MirrorList, UploadFails, CheckList, CheckVerdict, CheckCannotRun,
        SpineAdvance, ArchiveRung, PruneConfirm, PruneDecide, PruneDelete, PruneStopped, Regenerate,
        SyncBundles
<1> QED
  BY <1>1, ArchiveInvariant, PTL DEF Spec, StoresOnlyGrow

=====
