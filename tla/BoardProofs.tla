---------------------------- MODULE BoardProofs ----------------------------
(***************************************************************************)
(* Proofs about Board, for every value of its constants: types, the claims, *)
(* the proofs and their files, and that the board implements Ledger. Then   *)
(* about Sponsorship: what was shown of the board stays true while sponsors *)
(* ask, pay and are polled, none of which takes the server's lock; and a    *)
(* hold is a paid, unfinished span.                                         *)
(***************************************************************************)
EXTENDS Sponsorship, TLAPS

-----------------------------------------------------------------------------
(* Types.                                                                  *)

PCs == {"idle", "beat"} \cup ClaimPCs \cup SubmitPCs

(* Every block has a range of its own: the rows claim() creates. *)
LEMMA LeafIsRange == \A h \in Blocks : Leaf(h) \in RangeIds
  BY DEF RangeIds

(* The numbers the initial state uses lie in their types. *)
LEMMA Zeros == /\ 0 \in Times /\ 0 \in 0..Tip /\ 1 \in Blocks /\ 0 \in 0..MAX_ATTEMPTS
               /\ Leaf(1) \in RangeIds
<1>1. 1 \in Blocks
  BY BlocksAssumption DEF Blocks
<1> QED
  BY <1>1, LeafIsRange, BlocksAssumption, TimeAssumption DEF Times

(* The values rows, requests and the cache start with have their types. *)
LEMMA Defaults ==
  /\ NoRow \in Row /\ [NoRow EXCEPT !.status = "open"] \in Row
  /\ NoProof \in Proof /\ NoSponsor \in Sponsor /\ NoSnapshot \in Snapshot
  /\ Idle \in Request
<1>1. NoRow \in Row /\ [NoRow EXCEPT !.status = "open"] \in Row
  BY Zeros DEF NoRow, Row
<1>2. NoProof \in Proof /\ NoSponsor \in Sponsor /\ NoSnapshot \in Snapshot
  BY Zeros DEF NoProof, Proof, NoSponsor, Sponsor, Never, NoSnapshot, Snapshot
<1>3. Idle \in Request
  BY Zeros DEF Idle, Request, Kinds
<1> QED
  BY <1>1, <1>2, <1>3

(* The updates the actions make to a request and to a row. *)
LEMMA RequestUpdates ==
  ASSUME NEW q \in Request, NEW pc \in PCs, NEW a \in Times, NEW h \in 0..Tip, NEW r \in RangeIds
  PROVE  /\ [q EXCEPT !.pc = pc] \in Request
         /\ [q EXCEPT !.pc = pc, !.taken = a, !.hi = h] \in Request
         /\ [q EXCEPT !.pc = pc, !.taken = a] \in Request
         /\ [q EXCEPT !.pc = pc, !.hi = h] \in Request
         /\ [q EXCEPT !.pc = pc, !.now = a] \in Request
         /\ [q EXCEPT !.pc = pc, !.rid = r] \in Request
<1> USE DEF Request, PCs
<1>1. [q EXCEPT !.pc = pc] \in Request
  OBVIOUS
<1>2. [q EXCEPT !.pc = pc, !.taken = a, !.hi = h] \in Request
  OBVIOUS
<1>3. [q EXCEPT !.pc = pc, !.taken = a] \in Request
  OBVIOUS
<1>4. [q EXCEPT !.pc = pc, !.hi = h] \in Request
  OBVIOUS
<1>5. [q EXCEPT !.pc = pc, !.now = a] \in Request
  OBVIOUS
<1>6. [q EXCEPT !.pc = pc, !.rid = r] \in Request
  OBVIOUS
<1> QED
  BY <1>1, <1>2, <1>3, <1>4, <1>5, <1>6

(* A request as claim(), beat() and submit() receive it has its type. *)
LEMMA NewRequests ==
  ASSUME NEW k \in Keys, NEW r \in RangeIds, NEW kind \in Kinds, NEW a \in Times,
         NEW n \in Nonces \cup {NoNonce}, NEW signed \in BOOLEAN
  PROVE  /\ [Idle EXCEPT !.pc = "snap", !.key = k, !.now = a, !.nonce = n, !.signed = signed] \in Request
         /\ [Idle EXCEPT !.pc = "beat", !.key = k, !.rid = r, !.now = a] \in Request
         /\ [Idle EXCEPT !.pc = "row", !.key = k, !.rid = r, !.kind = kind] \in Request
<1>1. Idle \in Request
  BY Defaults
<1> HIDE DEF Idle
<1>2. [Idle EXCEPT !.pc = "snap", !.key = k, !.now = a, !.nonce = n, !.signed = signed] \in Request
  BY <1>1 DEF Request, ClaimPCs
<1>3. [Idle EXCEPT !.pc = "beat", !.key = k, !.rid = r, !.now = a] \in Request
  BY <1>1 DEF Request
<1>4. [Idle EXCEPT !.pc = "row", !.key = k, !.rid = r, !.kind = kind] \in Request
  BY <1>1 DEF Request, SubmitPCs
<1> QED
  BY <1>2, <1>3, <1>4

(* A row with a new status, beat, claim or failure count is still a row. *)
LEMMA RowUpdates ==
  ASSUME NEW row \in Row, NEW s \in {"none", "open", "claimed", "verified", "failed"},
         NEW a \in Times, NEW n \in 0..MAX_ATTEMPTS
  PROVE  /\ [row EXCEPT !.status = s] \in Row
         /\ [row EXCEPT !.last_beat = a] \in Row
         /\ [row EXCEPT !.status = s, !.attempts = n] \in Row
         /\ [row EXCEPT !.attempts = n, !.status = s] \in Row
<1> USE DEF Row
<1>1. [row EXCEPT !.status = s] \in Row
  OBVIOUS
<1>2. [row EXCEPT !.last_beat = a] \in Row
  OBVIOUS
<1>3. [row EXCEPT !.status = s, !.attempts = n] \in Row
  OBVIOUS
<1>4. [row EXCEPT !.attempts = n, !.status = s] \in Row
  OBVIOUS
<1> QED
  BY <1>1, <1>2, <1>3, <1>4

(* record_submission_failure keeps a row a row: the count stays within
   MAX_ATTEMPTS. *)
LEMMA RecordFailureTyped ==
  ASSUME NEW row \in Row, NEW kind \in Kinds
  PROVE  RecordFailure(row, kind) \in Row
<1> DEFINE n == IF row.attempts < MAX_ATTEMPTS THEN row.attempts + 1 ELSE MAX_ATTEMPTS
           s == IF n >= MAX_ATTEMPTS /\ row.status # "verified" THEN "failed" ELSE row.status
<1>1. n \in 0..MAX_ATTEMPTS
  BY TimeAssumption DEF Row
<1>2. s \in {"none", "open", "claimed", "verified", "failed"}
  BY DEF Row
<1> HIDE DEF n, s
<1>3. [row EXCEPT !.attempts = n, !.status = s] \in Row
  BY <1>1, <1>2, RowUpdates, Zeros
<1> QED
  BY <1>3 DEF RecordFailure, n, s

(* A transaction under way carries a receipt that verified. *)
CommitVerified == \A t \in Threads : req[t].pc = "commit" => req[t].kind \in {"main", "stale"}

TypeInv == TypeOK /\ CommitVerified

(* The database init_db leaves behind is well typed. *)
LEMMA InitTyped == Init => TypeInv
  BY Zeros, Defaults DEF Init, TypeOK, TypeInv, CommitVerified, Idle

(* Requests that only move on, or end, keep the types. *)
LEMMA RequestStepTyped ==
  ASSUME TypeInv, NEW t \in Threads, NEW q \in Request, req' = [req EXCEPT ![t] = q],
         q.pc = "commit" => q.kind \in {"main", "stale"}
  PROVE  req' \in [Threads -> Request] /\ CommitVerified'
  BY DEF TypeInv, TypeOK, CommitVerified

(* A thread that answers its request becomes idle and keeps the types. *)
LEMMA AnswerTyped ==
  ASSUME TypeInv, NEW t \in Threads, Answer(t)
  PROVE  req' \in [Threads -> Request] /\ CommitVerified'
<1>1. Idle \in Request /\ Idle.pc # "commit"
  BY Defaults DEF Idle
<1> QED
  BY <1>1, RequestStepTyped DEF Answer

(* The single-flight steps keep the types. *)
LEMMA SnapTyped ==
  ASSUME TypeInv, NEW t \in Threads,
         SnapCached(t) \/ SnapLead(t) \/ SnapWait(t) \/ SnapWake(t) \/ BuildRead(t) \/ BuildStore(t)
  PROVE  TypeInv'
<1> USE DEF db, PCs, ClaimPCs
<1>0. req[t] \in Request /\ cache \in Snapshot /\ clock \in Times
  BY DEF TypeInv, TypeOK
<1>t. req[t].taken \in Times /\ req[t].hi \in 0..Tip /\ cache.taken \in Times /\ cache.hi \in 0..Tip
  BY <1>0 DEF Request, Snapshot
<1>g. ASSUME NEW a \in Times, NEW h \in 0..Tip, GotSnapshot(t, a, h)
      PROVE  req' \in [Threads -> Request] /\ CommitVerified'
  <2>1. [req[t] EXCEPT !.pc = "lock", !.taken = a, !.hi = h] \in Request
    BY <1>0, RequestUpdates, Zeros
  <2>2. [req[t] EXCEPT !.pc = "lock", !.taken = a, !.hi = h].pc = "lock"
    BY <1>0 DEF Request
  <2> QED
    BY <1>g, <2>1, <2>2, RequestStepTyped DEF GotSnapshot
<1>r. ASSUME req' = [req EXCEPT ![t] = [@ EXCEPT !.pc = "read", !.taken = clock]]
      PROVE  req' \in [Threads -> Request] /\ CommitVerified'
  <2>1. [req[t] EXCEPT !.pc = "read", !.taken = clock] \in Request
    BY <1>0, RequestUpdates, Zeros
  <2>2. [req[t] EXCEPT !.pc = "read", !.taken = clock].pc = "read"
    BY <1>0 DEF Request
  <2>3. req' = [req EXCEPT ![t] = [req[t] EXCEPT !.pc = "read", !.taken = clock]]
    BY <1>r
  <2> QED
    BY <2>1, <2>2, <2>3, RequestStepTyped
<1>1. CASE SnapCached(t)
  BY <1>1, <1>t, <1>g DEF SnapCached, TypeInv, TypeOK
<1>2. CASE SnapLead(t)
  BY <1>2, <1>r DEF SnapLead, TypeInv, TypeOK
<1>3. CASE SnapWait(t)
  <2>1. [req[t] EXCEPT !.pc = "wait"] \in Request
    BY <1>0, RequestUpdates, Zeros
  <2>2. [req[t] EXCEPT !.pc = "wait"].pc = "wait"
    BY <1>0 DEF Request
  <2>3. req' = [req EXCEPT ![t] = [req[t] EXCEPT !.pc = "wait"]]
    BY <1>3 DEF SnapWait
  <2>4. req' \in [Threads -> Request] /\ CommitVerified'
    BY <2>1, <2>2, <2>3, RequestStepTyped
  <2> QED
    BY <1>3, <2>4 DEF SnapWait, TypeInv, TypeOK
<1>4. CASE SnapWake(t)
  <2>1. req' \in [Threads -> Request] /\ CommitVerified'
    BY <1>4, <1>t, <1>g, <1>r DEF SnapWake
  <2> QED
    BY <1>4, <2>1 DEF SnapWake, TypeInv, TypeOK
<1>5. CASE BuildRead(t)
  <2>1. PICK h \in 0..Tip : req' = [req EXCEPT ![t] = [req[t] EXCEPT !.pc = "store", !.hi = h]]
    BY <1>5 DEF BuildRead
  <2>2. [req[t] EXCEPT !.pc = "store", !.hi = h] \in Request
    BY <1>0, RequestUpdates, Zeros
  <2>3. [req[t] EXCEPT !.pc = "store", !.hi = h].pc = "store"
    BY <1>0 DEF Request
  <2>4. req' \in [Threads -> Request] /\ CommitVerified'
    BY <2>1, <2>2, <2>3, RequestStepTyped
  <2> QED
    BY <1>5, <2>4 DEF BuildRead, TypeInv, TypeOK
<1>6. CASE BuildStore(t)
  <2>1. cache' \in Snapshot
    BY <1>6, <1>0, <1>t DEF BuildStore, Snapshot
  <2>2. req' \in [Threads -> Request] /\ CommitVerified'
    BY <1>6, <1>t, <1>g DEF BuildStore
  <2> QED
    BY <1>6, <2>1, <2>2 DEF BuildStore, TypeInv, TypeOK
<1> QED
  BY <1>1, <1>2, <1>3, <1>4, <1>5, <1>6

(* claim() and beat() keep the types. *)
LEMMA ClaimTyped ==
  ASSUME TypeInv, NEW t \in Threads,
         \/ ClaimRetry(t) \/ ClaimRefused(t) \/ ClaimBlocker(t) \/ ClaimLowest(t) \/ ClaimGrant(t)
         \/ Beat(t)
  PROVE  TypeInv'
<1> USE DEF db, PCs, ClaimPCs
<1>0. req[t] \in Request
  BY DEF TypeInv, TypeOK
<1>c. ASSUME NEW h \in Blocks, Choose(t, h)
      PROVE  req' \in [Threads -> Request] /\ CommitVerified' /\ lock' \in Threads
  <2> DEFINE q == [req[t] EXCEPT !.pc = "grant", !.rid = Leaf(h)]
  <2>1. q \in Request
    BY <1>0, RequestUpdates, Zeros, LeafIsRange
  <2>2. q.pc # "commit"
    BY <1>0 DEF Request
  <2>3. req' = [req EXCEPT ![t] = q] /\ lock' = t
    BY <1>c DEF Choose
  <2> HIDE DEF q
  <2> QED
    BY <2>1, <2>2, <2>3, RequestStepTyped
<1>1. CASE ClaimRetry(t) \/ ClaimRefused(t)
  BY <1>1, AnswerTyped DEF ClaimRetry, ClaimRefused, TypeInv, TypeOK
<1>2. CASE ClaimBlocker(t)
  <2>1. req[t].hi + 1 \in Blocks
    BY <1>2 DEF ClaimBlocker, Reoffer, Covered
  <2> QED
    BY <1>2, <1>c, <2>1 DEF ClaimBlocker, TypeInv, TypeOK
<1>3. CASE ClaimLowest(t)
  BY <1>3, <1>c DEF ClaimLowest, TypeInv, TypeOK
<1>4. CASE ClaimGrant(t)
  <2>1. [NoRow EXCEPT !.status = "claimed", !.assignee = req[t].key, !.claimed_at = req[t].now,
                      !.nonce = req[t].nonce, !.signed = req[t].signed] \in Row
    BY <1>0, Zeros DEF NoRow, Row, Request
  <2>2. ranges' \in [RangeIds -> Row]
    BY <1>4, <2>1 DEF ClaimGrant, TypeInv, TypeOK
  <2> QED
    BY <1>4, <2>2, AnswerTyped DEF ClaimGrant, TypeInv, TypeOK
<1>5. CASE Beat(t)
  <2>1. req[t].rid \in RangeIds /\ req[t].now \in Times
    BY DEF TypeInv, TypeOK, Request
  <2>2. ranges[req[t].rid] \in Row
    BY <2>1 DEF TypeInv, TypeOK
  <2>3. [ranges[req[t].rid] EXCEPT !.last_beat = req[t].now] \in Row
    BY <2>1, <2>2, RowUpdates, Zeros
  <2>4. ranges' \in [RangeIds -> Row]
    BY <1>5, <2>1, <2>3 DEF Beat, TypeInv, TypeOK
  <2> QED
    BY <1>5, <2>4, AnswerTyped DEF Beat, TypeInv, TypeOK
<1> QED
  BY <1>1, <1>2, <1>3, <1>4, <1>5

(* submit() keeps the types, and reaches its commit only with a receipt
   that verified. *)
LEMMA SubmitTyped ==
  ASSUME TypeInv, NEW t \in Threads,
         SubmitRow(t) \/ SubmitHold(t) \/ SubmitCheck(t) \/ SubmitFailed(t) \/ SubmitStamp(t) \/ SubmitCommit(t)
  PROVE  TypeInv'
<1> USE DEF db, PCs, SubmitPCs
<1>0. req[t] \in Request /\ clock \in Times
  BY DEF TypeInv, TypeOK
<1>r. /\ req[t].rid \in RangeIds /\ req[t].key \in Keys \cup {NoKey} /\ req[t].now \in Times
      /\ req[t].kind \in Kinds /\ ranges[req[t].rid] \in Row
  BY <1>0 DEF TypeInv, TypeOK, Request
<1>m. ASSUME NEW pc \in {"hold", "verify", "begin"}, req' = [req EXCEPT ![t] = [req[t] EXCEPT !.pc = pc]]
      PROVE  req' \in [Threads -> Request] /\ CommitVerified'
  <2>1. [req[t] EXCEPT !.pc = pc] \in Request
    BY <1>0, RequestUpdates, Zeros
  <2>2. [req[t] EXCEPT !.pc = pc].pc # "commit"
    BY <1>0 DEF Request
  <2> QED
    BY <1>m, <2>1, <2>2, RequestStepTyped
<1>1. CASE SubmitRow(t)
  <2>1. ranges' \in [RangeIds -> Row]
    <3>1. [ranges[req[t].rid] EXCEPT !.status = "open"] \in Row
      BY <1>r, RowUpdates, Zeros
    <3> QED
      BY <1>1, <1>r, <3>1 DEF SubmitRow, TypeInv, TypeOK
  <2>2. req' \in [Threads -> Request] /\ CommitVerified'
    BY <1>1, <1>m, AnswerTyped DEF SubmitRow
  <2> QED
    BY <1>1, <2>1, <2>2 DEF SubmitRow, TypeInv, TypeOK
<1>2. CASE SubmitHold(t)
  <2>1. req' \in [Threads -> Request] /\ CommitVerified'
    BY <1>2, <1>m, AnswerTyped DEF SubmitHold
  <2> QED
    BY <1>2, <2>1 DEF SubmitHold, TypeInv, TypeOK
<1>3. CASE SubmitCheck(t)
  <2>1. req' \in [Threads -> Request] /\ CommitVerified'
    BY <1>3, <1>m, AnswerTyped DEF SubmitCheck
  <2> QED
    BY <1>3, <2>1 DEF SubmitCheck, TypeInv, TypeOK
<1>4. CASE SubmitFailed(t)
  <2>1. RecordFailure(ranges[req[t].rid], req[t].kind) \in Row
    BY <1>r, RecordFailureTyped
  <2>2. ranges' \in [RangeIds -> Row]
    BY <1>4, <2>1, <1>r DEF SubmitFailed, TypeInv, TypeOK
  <2> QED
    BY <1>4, <2>2, Defaults, AnswerTyped DEF SubmitFailed, TypeInv, TypeOK
<1>5. CASE SubmitStamp(t)
  <2>1. [req[t] EXCEPT !.pc = "commit", !.now = clock] \in Request
    BY <1>0, RequestUpdates, Zeros
  <2>2. [req[t] EXCEPT !.pc = "commit", !.now = clock].kind \in {"main", "stale"}
    BY <1>5, <1>0 DEF Request, SubmitStamp, VerifyReceipt
  <2>3. req' \in [Threads -> Request] /\ CommitVerified'
    BY <1>5, <2>1, <2>2, RequestStepTyped DEF SubmitStamp
  <2>4. files' \in [RangeIds -> {"none", "main", "stale"}]
    BY <1>5, <1>r DEF SubmitStamp, VerifyReceipt, TypeInv, TypeOK
  <2> QED
    BY <1>5, <2>3, <2>4 DEF SubmitStamp, TypeInv, TypeOK
<1>6. CASE SubmitCommit(t)
  <2>1. [ranges[req[t].rid] EXCEPT !.status = "verified"] \in Row
    BY <1>r, RowUpdates, Zeros
  <2>2. ranges' \in [RangeIds -> Row]
    BY <1>6, <1>r, <2>1 DEF SubmitCommit, TypeInv, TypeOK
  <2>3. req[t].kind \in {"main", "stale"}
    BY <1>6 DEF SubmitCommit, TypeInv, CommitVerified
  <2>4. vranges' \in [RangeIds -> Proof]
    BY <1>6, <1>r, <2>3 DEF SubmitCommit, TypeInv, TypeOK, Proof
  <2>5. sponsors' \in [SponsorIds -> Sponsor]
    BY <1>6 DEF SubmitCommit, MarkProven, TypeInv, TypeOK, Sponsor
  <2> QED
    BY <1>6, <2>2, <2>4, <2>5, Defaults, AnswerTyped DEF SubmitCommit, TypeInv, TypeOK
<1> QED
  BY <1>1, <1>2, <1>3, <1>4, <1>5, <1>6

(* New requests, aborts, the un-park script, restarts and time keep the types. *)
LEMMA OtherTyped ==
  ASSUME TypeInv,
         \/ \E t \in Threads : Start(t) \/ Abort(t)
         \/ \E r \in RangeIds : Unpark(r)
         \/ Crash \/ Tick \/ UNCHANGED vars
  PROVE  TypeInv'
<1> USE DEF db
<1>1. ASSUME NEW t \in Threads, Start(t) PROVE TypeInv'
  <2>1. ASSUME NEW q \in Request, q.pc # "commit", req' = [req EXCEPT ![t] = q],
               UNCHANGED <<clock, db, files, cache, busy, lock>>
        PROVE  TypeInv'
    BY <2>1, RequestStepTyped DEF TypeInv, TypeOK
  <2>2. clock \in Times
    BY DEF TypeInv, TypeOK
  <2>3. ASSUME NEW k \in Keys, NEW n \in Nonces \cup {NoNonce}, NEW g \in Signings, ClaimStart(t, k, n, g)
        PROVE  TypeInv'
    <3>1. [Idle EXCEPT !.pc = "snap", !.key = k, !.now = clock, !.nonce = n, !.signed = g] \in Request
      BY <2>2, NewRequests, NameAssumption, Zeros DEF Kinds
    <3> QED
      BY <2>3, <3>1, <2>1 DEF ClaimStart, Idle
  <2>4. ASSUME NEW k \in Keys, NEW r \in RangeIds, BeatStart(t, k, r)
        PROVE  TypeInv'
    <3>1. [Idle EXCEPT !.pc = "beat", !.key = k, !.rid = r, !.now = clock] \in Request
      BY <2>2, NewRequests DEF Kinds
    <3> QED
      BY <2>4, <3>1, <2>1 DEF BeatStart, Idle
  <2>5. ASSUME NEW k \in Keys, NEW r \in RangeIds, NEW kind \in Receipts, SubmitStart(t, k, r, kind)
        PROVE  TypeInv'
    <3>1. [Idle EXCEPT !.pc = "row", !.key = k, !.rid = r, !.kind = kind] \in Request
      BY <2>2, NewRequests, NameAssumption DEF Kinds
    <3> QED
      BY <2>5, <3>1, <2>1 DEF SubmitStart, Idle
  <2> QED
    BY <1>1, <2>3, <2>4, <2>5 DEF Start
<1>2. ASSUME NEW t \in Threads, Abort(t) PROVE TypeInv'
  BY <1>2, AnswerTyped DEF Abort, TypeInv, TypeOK
<1>3. ASSUME NEW r \in RangeIds, Unpark(r) PROVE TypeInv'
  <2>1. [ranges[r] EXCEPT !.status = "open", !.attempts = 0] \in Row
    BY RowUpdates, Zeros DEF TypeInv, TypeOK
  <2> QED
    BY <1>3, <2>1 DEF Unpark, TypeInv, TypeOK, CommitVerified
<1>4. CASE Crash
  BY <1>4, Defaults DEF Crash, TypeInv, TypeOK, CommitVerified, Idle
<1>5. CASE Tick
  BY <1>5, TimeAssumption DEF Tick, Times, TypeInv, TypeOK, CommitVerified
<1>6. CASE UNCHANGED vars
  BY <1>6 DEF vars, TypeInv, TypeOK, CommitVerified
<1> QED
  BY <1>1, <1>2, <1>3, <1>4, <1>5, <1>6

(* Every step keeps the types. *)
LEMMA NextTyped == TypeInv /\ [Next]_vars => TypeInv'
  BY SnapTyped, ClaimTyped, SubmitTyped, OtherTyped DEF Next, Serve

(* Every reachable state of the ledger is well typed. *)
THEOREM TypeCorrect == Spec => []TypeOK
<1>1. TypeInv => TypeOK
  BY DEF TypeInv
<1> QED
  BY <1>1, InitTyped, NextTyped, PTL DEF Spec

-----------------------------------------------------------------------------
(* The frontier only advances.                                             *)
(*                                                                         *)
(* MainStaysVerified is not inductive: claim() rewrites a verified row on   *)
(* the strength of a snapshot read earlier, and submit() commits on the     *)
(* strength of a status read earlier. The strengthening says what those     *)
(* two readings still guarantee when they are used.                        *)

(* A snapshot that puts the frontier at hi has missed no settled proof of hi + 1. *)
SnapshotSound(taken, hi) ==
  (hi + 1 \in Blocks /\ vranges[Leaf(hi + 1)].kind = "main")
     => vranges[Leaf(hi + 1)].ts > taken - FRONTIER_SETTLE

SnapshotsSound ==
  /\ cache.valid => cache.taken <= clock /\ SnapshotSound(cache.taken, cache.hi)
  /\ \A t \in Threads :
       /\ req[t].pc \in {"read", "store", "lock"} => req[t].taken <= clock
       /\ req[t].pc \in {"store", "lock"} => SnapshotSound(req[t].taken, req[t].hi)

(* Where a thread holds the lock. *)
Holding == {"grant", "begin", "commit"}

(* What a thread found under the lock is still true when it writes: the block
   it grants has no proof that seams, the row it will verify is not verified,
   and the stamp of its transaction is recent. *)
LockSound ==
  \A t \in Threads :
    /\ req[t].pc \in Holding => lock = t
    /\ req[t].pc = "grant" => vranges[req[t].rid].kind # "main"
    /\ req[t].pc \in {"begin", "commit"} => ranges[req[t].rid].status # "verified"
    /\ req[t].pc = "commit" => clock <= req[t].now + COMMIT_MAX

LedgerInv == TypeInv /\ SnapshotsSound /\ LockSound /\ MainStaysVerified

(* A proof of the block after a reached height extends the reach: why a
   fresh frontier walk misses no proof of frontier + 1. *)
LEMMA LeafExtendsReach ==
  ASSUME NEW V, NEW h \in 0..Tip, h + 1 \in Blocks, Reaches(V, h), V[Leaf(h + 1)].kind = "main"
  PROVE  Reaches(V, h + 1)
<1>1. h + 1 \in Blocks /\ Leaf(h + 1) \in RangeIds
  BY LeafIsRange
<1> DEFINE M == {r \in RangeIds : V[r].kind = "main"}
           l == Leaf(h + 1)
<1>2. l \in M /\ l[1] = h + 1 /\ l[2] = h + 1
  BY <1>1 DEF Leaf
<1>3. CASE h = 0
  <2>1. {l} \in SUBSET M /\ (\E r \in {l} : r[2] = h + 1) /\ \A r \in {l} : r[1] = 1
    BY <1>2, <1>3
  <2> QED
    BY <2>1 DEF Reaches
<1>4. CASE h # 0
  <2>1. PICK C \in SUBSET M : /\ \E r \in C : r[2] = h
                              /\ \A r \in C : r[1] = 1 \/ \E p \in C : p[2] + 1 = r[1]
    BY <1>4 DEF Reaches
  <2> DEFINE D == C \cup {l}
  <2>2. D \in SUBSET M
    BY <1>2
  <2>3. \E r \in D : r[2] = h + 1
    BY <1>2
  <2>4. \A r \in D : r[1] = 1 \/ \E p \in D : p[2] + 1 = r[1]
    BY <2>1, <1>2
  <2> QED
    BY <2>2, <2>3, <2>4 DEF Reaches
<1> QED
  BY <1>3, <1>4

(* A frontier walk that reads the table now misses no proof that seams. *)
LEMMA FreshSnapshotSound ==
  ASSUME NEW h \in 0..Tip, IsFrontier(vranges, h), NEW taken
  PROVE  SnapshotSound(taken, h)
<1> SUFFICES ASSUME h + 1 \in Blocks, vranges[Leaf(h + 1)].kind = "main" PROVE FALSE
  BY DEF SnapshotSound
<1>1. Reaches(vranges, h + 1)
  BY LeafExtendsReach DEF IsFrontier
<1> QED
  BY <1>1, BlocksAssumption DEF IsFrontier, Blocks

(* A step that leaves the tables alone and moves one request on. *)
LEMMA SnapshotFrame ==
  ASSUME TypeInv, SnapshotsSound, NEW t \in Threads, NEW q \in Request,
         req' = [req EXCEPT ![t] = q], UNCHANGED <<clock, vranges>>,
         cache' = cache \/ cache' = NoSnapshot
           \/ (cache'.taken <= clock /\ SnapshotSound(cache'.taken, cache'.hi)),
         q.pc \in {"read", "store", "lock"} => q.taken <= clock,
         q.pc \in {"store", "lock"} => SnapshotSound(q.taken, q.hi)
  PROVE  SnapshotsSound'
  BY DEF TypeInv, TypeOK, SnapshotsSound, SnapshotSound, NoSnapshot

(* A thread that answers its request leaves the snapshots sound. *)
LEMMA AnswerSound ==
  ASSUME TypeInv, SnapshotsSound, NEW t \in Threads, Answer(t), UNCHANGED <<clock, vranges>>,
         cache' = cache \/ cache' = NoSnapshot
  PROVE  SnapshotsSound'
<1>1. Idle \in Request /\ Idle.pc = "idle"
  BY Defaults DEF Idle
<1> QED
  BY <1>1, SnapshotFrame DEF Answer

(* Nobody is inside when the lock is free, and nobody else when it is held. *)
LEMMA LockExclusive ==
  ASSUME LockSound, NEW t \in Threads, lock = NoThread \/ lock = t
  PROVE  /\ lock = NoThread => req[t].pc \notin Holding
         /\ \A u \in Threads : u # t => req[u].pc \notin Holding
  BY NameAssumption DEF LockSound

(* The single-flight steps: a snapshot enters the cache, or a thread, only
   when it is sound. *)
LEMMA SnapLedger ==
  ASSUME LedgerInv, NEW t \in Threads,
         SnapCached(t) \/ SnapLead(t) \/ SnapWait(t) \/ SnapWake(t) \/ BuildRead(t) \/ BuildStore(t)
  PROVE  SnapshotsSound' /\ LockSound' /\ MainStaysVerified'
<1> USE DEF db, PCs, ClaimPCs, Holding
<1>a. TypeInv /\ SnapshotsSound /\ LockSound /\ MainStaysVerified
  BY DEF LedgerInv
<1>b. req[t] \in Request /\ cache \in Snapshot /\ clock \in Times
  BY <1>a DEF TypeInv, TypeOK
<1>c. req[t].taken \in Times /\ req[t].hi \in 0..Tip /\ cache.taken \in Times /\ cache.hi \in 0..Tip
  BY <1>b DEF Request, Snapshot
<1>d. UNCHANGED <<clock, ranges, vranges, lock>>
  BY DEF SnapCached, SnapLead, SnapWait, SnapWake, BuildRead, BuildStore
<1>e. MainStaysVerified'
  BY <1>a, <1>d DEF MainStaysVerified
<1>f. ASSUME NEW q \in Request, req' = [req EXCEPT ![t] = q], q.pc \notin Holding
      PROVE  LockSound'
  BY <1>a, <1>d, <1>f DEF LockSound, Holding, TypeInv, TypeOK
<1>g. ASSUME NEW a \in Times, NEW h \in 0..Tip, GotSnapshot(t, a, h), a <= clock, SnapshotSound(a, h),
             cache' = cache \/ (cache'.taken <= clock /\ SnapshotSound(cache'.taken, cache'.hi))
      PROVE  SnapshotsSound' /\ LockSound'
  <2> DEFINE q == [req[t] EXCEPT !.pc = "lock", !.taken = a, !.hi = h]
  <2>1. q \in Request
    BY <1>b, RequestUpdates, Zeros
  <2>2. q.pc = "lock" /\ q.taken = a /\ q.hi = h
    BY <1>b DEF Request
  <2>3. req' = [req EXCEPT ![t] = q]
    BY <1>g DEF GotSnapshot
  <2> HIDE DEF q
  <2>4. SnapshotsSound'
    BY <1>a, <1>d, <1>g, <2>1, <2>2, <2>3, SnapshotFrame
  <2> QED
    BY <1>f, <2>1, <2>2, <2>3, <2>4
<1>r. ASSUME req' = [req EXCEPT ![t] = [req[t] EXCEPT !.pc = "read", !.taken = clock]], cache' = cache
      PROVE  SnapshotsSound' /\ LockSound'
  <2> DEFINE q == [req[t] EXCEPT !.pc = "read", !.taken = clock]
  <2>1. q \in Request
    BY <1>b, RequestUpdates, Zeros
  <2>2. q.pc = "read" /\ q.taken = clock
    BY <1>b DEF Request
  <2>3. clock <= clock
    BY <1>b DEF Times
  <2> HIDE DEF q
  <2>4. SnapshotsSound'
    BY <1>a, <1>d, <1>r, <2>1, <2>2, <2>3, SnapshotFrame DEF q
  <2> QED
    BY <1>f, <1>r, <2>1, <2>2, <2>4 DEF q
<1>1. CASE SnapCached(t)
  <2>1. cache.taken <= clock /\ SnapshotSound(cache.taken, cache.hi)
    BY <1>1, <1>a DEF SnapCached, CacheFresh, SnapshotsSound
  <2> QED
    BY <1>1, <1>c, <1>e, <1>g, <2>1 DEF SnapCached
<1>2. CASE SnapLead(t)
  BY <1>2, <1>e, <1>r DEF SnapLead
<1>3. CASE SnapWait(t)
  <2> DEFINE q == [req[t] EXCEPT !.pc = "wait"]
  <2>1. q \in Request
    BY <1>b, RequestUpdates, Zeros
  <2>2. q.pc = "wait"
    BY <1>b DEF Request
  <2>3. req' = [req EXCEPT ![t] = q] /\ cache' = cache
    BY <1>3 DEF SnapWait
  <2> HIDE DEF q
  <2>4. SnapshotsSound'
    BY <1>a, <1>d, <2>1, <2>2, <2>3, SnapshotFrame
  <2> QED
    BY <1>e, <1>f, <2>1, <2>2, <2>3, <2>4
<1>4. CASE SnapWake(t)
  <2>1. CASE cache.valid
    <3>1. cache.taken <= clock /\ SnapshotSound(cache.taken, cache.hi)
      BY <2>1, <1>a DEF SnapshotsSound
    <3> QED
      BY <1>4, <1>c, <1>e, <1>g, <2>1, <3>1 DEF SnapWake
  <2>2. CASE ~cache.valid
    BY <1>4, <1>e, <1>r, <2>2 DEF SnapWake
  <2> QED
    BY <2>1, <2>2
<1>5. CASE BuildRead(t)
  <2>1. PICK h \in 0..Tip : /\ IsFrontier(vranges, h)
                            /\ req' = [req EXCEPT ![t] = [req[t] EXCEPT !.pc = "store", !.hi = h]]
    BY <1>5 DEF BuildRead
  <2> DEFINE q == [req[t] EXCEPT !.pc = "store", !.hi = h]
  <2>2. q \in Request
    BY <1>b, RequestUpdates, Zeros
  <2>3. q.pc = "store" /\ q.hi = h /\ q.taken = req[t].taken
    BY <1>b DEF Request
  <2>4. req[t].taken <= clock
    BY <1>5, <1>a DEF BuildRead, SnapshotsSound
  <2>5. SnapshotSound(req[t].taken, h)
    BY <2>1, FreshSnapshotSound
  <2>6. cache' = cache
    BY <1>5 DEF BuildRead
  <2>7. req' = [req EXCEPT ![t] = q]
    BY <2>1
  <2> HIDE DEF q
  <2>8. SnapshotsSound'
    BY <1>a, <1>d, <2>2, <2>3, <2>4, <2>5, <2>6, <2>7, SnapshotFrame
  <2> QED
    BY <1>e, <1>f, <2>2, <2>3, <2>7, <2>8
<1>6. CASE BuildStore(t)
  <2>1. req[t].taken <= clock /\ SnapshotSound(req[t].taken, req[t].hi)
    BY <1>6, <1>a DEF BuildStore, SnapshotsSound
  <2>2. cache'.taken = req[t].taken /\ cache'.hi = req[t].hi
    BY <1>6 DEF BuildStore
  <2> QED
    BY <1>6, <1>c, <1>e, <1>g, <2>1, <2>2 DEF BuildStore
<1> QED
  BY <1>1, <1>2, <1>3, <1>4, <1>5, <1>6

(* A thread that ends its section, or has none, may change rows as long as
   no proof that seams loses its verified row. *)
LEMMA RowsFrame ==
  ASSUME LedgerInv, NEW t \in Threads, lock = NoThread \/ lock = t, req'[t].pc \notin Holding,
         \A u \in Threads : u # t => req'[u] = req[u],
         vranges' = vranges,
         \A r \in RangeIds : ranges'[r].status = "verified"
                             \/ ranges[r].status # "verified" \/ vranges[r].kind # "main"
  PROVE  LockSound' /\ MainStaysVerified'
<1>1. \A u \in Threads : req'[u].pc \notin Holding
  BY LockExclusive DEF LedgerInv
<1>2. LockSound'
  BY <1>1 DEF LockSound, Holding
<1>3. MainStaysVerified'
  BY DEF LedgerInv, MainStaysVerified
<1> QED
  BY <1>2, <1>3

(* A thread that takes the lock after its check, the tables unchanged. *)
LEMMA EnterFrame ==
  ASSUME LedgerInv, NEW t \in Threads, NEW q \in Request, lock = NoThread, lock' = t,
         req' = [req EXCEPT ![t] = q], UNCHANGED <<clock, ranges, vranges, cache>>,
         \/ q.pc = "grant" /\ vranges[q.rid].kind # "main"
         \/ q.pc = "begin" /\ ranges[q.rid].status # "verified"
  PROVE  SnapshotsSound' /\ LockSound' /\ MainStaysVerified'
<1>1. \A u \in Threads : req[u].pc \notin Holding
  BY LockExclusive DEF LedgerInv
<1>2. SnapshotsSound'
  BY SnapshotFrame DEF LedgerInv
<1>3. LockSound'
  BY <1>1 DEF LockSound, Holding, LedgerInv, TypeInv, TypeOK
<1>4. MainStaysVerified'
  BY DEF LedgerInv, MainStaysVerified
<1> QED
  BY <1>2, <1>3, <1>4

(* Claims and beats. The block a claim chooses has no proof that seams: an
   uncovered one has none, and one covered beyond the frontier would, were it
   settled, have been seen by the snapshot. *)
LEMMA ClaimLedger ==
  ASSUME LedgerInv, NEW t \in Threads,
         \/ ClaimRetry(t) \/ ClaimRefused(t) \/ ClaimBlocker(t) \/ ClaimLowest(t) \/ ClaimGrant(t)
         \/ Beat(t)
  PROVE  SnapshotsSound' /\ LockSound' /\ MainStaysVerified'
<1> USE DEF db
<1>a. TypeInv /\ SnapshotsSound /\ LockSound
  BY DEF LedgerInv
<1>b. /\ ranges \in [RangeIds -> Row] /\ vranges \in [RangeIds -> Proof]
      /\ req[t] \in Request /\ req \in [Threads -> Request]
  BY <1>a DEF TypeInv, TypeOK
<1>c. ASSUME NEW h \in Blocks, Choose(t, h), vranges[Leaf(h)].kind # "main", lock = NoThread,
             UNCHANGED <<clock, ranges, vranges, cache>>
      PROVE  SnapshotsSound' /\ LockSound' /\ MainStaysVerified'
  <2> DEFINE q == [req[t] EXCEPT !.pc = "grant", !.rid = Leaf(h)]
  <2>1. q \in Request
    BY <1>b, RequestUpdates, Zeros, LeafIsRange DEF PCs, ClaimPCs
  <2>2. q.pc = "grant" /\ q.rid = Leaf(h)
    BY <1>b DEF Request
  <2>3. req' = [req EXCEPT ![t] = q] /\ lock' = t
    BY <1>c DEF Choose
  <2> HIDE DEF q
  <2> QED
    BY <1>c, <2>1, <2>2, <2>3, EnterFrame
<1>d. ASSUME Answer(t), lock = NoThread \/ lock = t, UNCHANGED <<clock, vranges, cache>>,
             \A r \in RangeIds : ranges'[r].status = "verified"
                                 \/ ranges[r].status # "verified" \/ vranges[r].kind # "main"
      PROVE  SnapshotsSound' /\ LockSound' /\ MainStaysVerified'
  <2>1. SnapshotsSound'
    BY <1>a, <1>d, AnswerSound
  <2>2. req'[t].pc \notin Holding /\ \A u \in Threads : u # t => req'[u] = req[u]
    BY <1>b, <1>d DEF Answer, Idle, Holding
  <2> QED
    BY <1>d, <2>1, <2>2, RowsFrame
<1>1. CASE ClaimRetry(t) \/ ClaimRefused(t)
  BY <1>1, <1>d DEF ClaimRetry, ClaimRefused, EnterClaim
<1>2. CASE ClaimBlocker(t)
  <2> DEFINE h == req[t].hi + 1
  <2>1. h \in Blocks /\ CoverSettled(h, req[t].taken)
    BY <1>2 DEF ClaimBlocker, Reoffer, Covered
  <2>2. SnapshotSound(req[t].taken, req[t].hi)
    BY <1>2, <1>a DEF ClaimBlocker, EnterClaim, SnapshotsSound
  <2>3. Leaf(h) \in RangeIds /\ h \in Span(Leaf(h))
    BY <2>1, LeafIsRange DEF Blocks, Span, Leaf
  <2>4. vranges[Leaf(h)].kind # "main"
    <3> SUFFICES ASSUME vranges[Leaf(h)].kind = "main" PROVE FALSE
      OBVIOUS
    <3>1. vranges[Leaf(h)].ts > req[t].taken - FRONTIER_SETTLE
      BY <2>1, <2>2 DEF SnapshotSound
    <3>2. vranges[Leaf(h)].ts <= req[t].taken - FRONTIER_SETTLE
      BY <2>1, <2>3 DEF CoverSettled, Present
    <3>3. vranges[Leaf(h)].ts \in Int /\ req[t].taken \in Int /\ FRONTIER_SETTLE \in Int
      BY <1>b, <2>3, TimeAssumption DEF Proof, Times, Request
    <3> QED
      BY <3>1, <3>2, <3>3
  <2> QED
    BY <1>2, <1>c, <2>1, <2>4 DEF ClaimBlocker, EnterClaim
<1>3. CASE ClaimLowest(t)
  <2>1. PICK h \in Blocks : Claimable(req[t], h) /\ Choose(t, h)
    BY <1>3 DEF ClaimLowest
  <2>2. Leaf(h) \in RangeIds /\ h \in Span(Leaf(h))
    BY LeafIsRange DEF Blocks, Span, Leaf
  <2>3. vranges[Leaf(h)].kind # "main"
    BY <2>1, <2>2 DEF Claimable, Covered, Present
  <2> QED
    BY <1>3, <1>c, <2>1, <2>3 DEF ClaimLowest, EnterClaim
<1>4. CASE ClaimGrant(t)
  <2>1. lock = t /\ vranges[req[t].rid].kind # "main"
    BY <1>4, <1>a DEF ClaimGrant, LockSound, Holding
  <2>2. \A r \in RangeIds : r # req[t].rid => ranges'[r] = ranges[r]
    BY <1>4, <1>b DEF ClaimGrant
  <2> QED
    BY <1>4, <1>d, <2>1, <2>2 DEF ClaimGrant
<1>5. CASE Beat(t)
  <2>1. req[t].rid \in RangeIds
    BY <1>b DEF Request
  <2>2. [ranges[req[t].rid] EXCEPT !.last_beat = req[t].now].status = ranges[req[t].rid].status
    BY <2>1, <1>b DEF Row
  <2>3. \A r \in RangeIds : ranges'[r].status = ranges[r].status
    BY <1>5, <1>b, <2>1, <2>2 DEF Beat
  <2> QED
    BY <1>5, <1>d, <2>3 DEF Beat
<1> QED
  BY <1>1, <1>2, <1>3, <1>4, <1>5

(* A submit, up to its commit. *)
LEMMA SubmitLedger ==
  ASSUME LedgerInv, NEW t \in Threads,
         SubmitRow(t) \/ SubmitHold(t) \/ SubmitCheck(t) \/ SubmitFailed(t) \/ SubmitStamp(t)
  PROVE  SnapshotsSound' /\ LockSound' /\ MainStaysVerified'
<1> USE DEF db, PCs, SubmitPCs
<1>a. TypeInv /\ SnapshotsSound /\ LockSound /\ MainStaysVerified
  BY DEF LedgerInv
<1>b. /\ ranges \in [RangeIds -> Row] /\ vranges \in [RangeIds -> Proof] /\ clock \in Times
      /\ req[t] \in Request /\ req \in [Threads -> Request]
  BY <1>a DEF TypeInv, TypeOK
<1>c. req[t].rid \in RangeIds /\ ranges[req[t].rid] \in Row
  BY <1>b DEF Request
<1>d. /\ UNCHANGED <<clock, vranges>>
      /\ cache' = cache \/ cache' = NoSnapshot
  BY DEF SubmitRow, SubmitHold, SubmitCheck, SubmitFailed, SubmitStamp
<1>m. ASSUME NEW pc \in {"hold", "verify"}, req' = [req EXCEPT ![t] = [req[t] EXCEPT !.pc = pc]],
             lock = NoThread,
             \A r \in RangeIds : ranges'[r].status = "verified"
                                 \/ ranges[r].status # "verified" \/ vranges[r].kind # "main"
      PROVE  SnapshotsSound' /\ LockSound' /\ MainStaysVerified'
  <2> DEFINE q == [req[t] EXCEPT !.pc = pc]
  <2>1. q \in Request
    BY <1>b, RequestUpdates, Zeros
  <2>2. q.pc = pc
    BY <1>b DEF Request
  <2>3. req' = [req EXCEPT ![t] = q]
    BY <1>m
  <2> HIDE DEF q
  <2>4. SnapshotsSound'
    BY <1>a, <1>d, <2>1, <2>2, <2>3, SnapshotFrame
  <2>5. req'[t].pc \notin Holding /\ \A u \in Threads : u # t => req'[u] = req[u]
    BY <1>b, <2>2, <2>3 DEF Holding
  <2> QED
    BY <1>d, <1>m, <2>4, <2>5, RowsFrame
<1>n. ASSUME Answer(t), lock = NoThread \/ lock = t,
             \A r \in RangeIds : ranges'[r].status = "verified"
                                 \/ ranges[r].status # "verified" \/ vranges[r].kind # "main"
      PROVE  SnapshotsSound' /\ LockSound' /\ MainStaysVerified'
  <2>1. SnapshotsSound'
    BY <1>a, <1>d, <1>n, AnswerSound
  <2>2. req'[t].pc \notin Holding /\ \A u \in Threads : u # t => req'[u] = req[u]
    BY <1>b, <1>n DEF Answer, Idle, Holding
  <2> QED
    BY <1>d, <1>n, <2>1, <2>2, RowsFrame
<1>1. CASE SubmitRow(t)
  <2>1. \A r \in RangeIds : ranges[r].status = "verified" => ranges'[r] = ranges[r]
    BY <1>1, <1>b, <1>c DEF SubmitRow
  <2> QED
    BY <1>1, <1>m, <1>n, <2>1 DEF SubmitRow
<1>2. CASE SubmitHold(t)
  BY <1>2, <1>m, <1>n DEF SubmitHold
<1>3. CASE SubmitCheck(t)
  <2>1. CASE CommitRefused(req[t])
    BY <1>3, <1>n, <2>1 DEF SubmitCheck
  <2>2. CASE ~CommitRefused(req[t])
    <3> DEFINE q == [req[t] EXCEPT !.pc = "begin"]
    <3>1. q \in Request
      BY <1>b, RequestUpdates, Zeros
    <3>2. q.pc = "begin" /\ q.rid = req[t].rid
      BY <1>b DEF Request
    <3>3. ranges[req[t].rid].status # "verified"
      BY <2>2 DEF CommitRefused
    <3>4. /\ req' = [req EXCEPT ![t] = q] /\ lock = NoThread /\ lock' = t
          /\ UNCHANGED <<clock, ranges, vranges, cache>>
      BY <1>3, <2>2 DEF SubmitCheck
    <3> HIDE DEF q
    <3> QED
      BY <3>1, <3>2, <3>3, <3>4, EnterFrame
  <2> QED
    BY <2>1, <2>2
<1>4. CASE SubmitFailed(t)
  <2>1. lock = t /\ ranges[req[t].rid].status # "verified"
    BY <1>4, <1>a DEF SubmitFailed, LockSound, Holding
  <2>2. \A r \in RangeIds : r # req[t].rid => ranges'[r] = ranges[r]
    BY <1>4, <1>b DEF SubmitFailed
  <2> QED
    BY <1>4, <1>n, <2>1, <2>2 DEF SubmitFailed
<1>5. CASE SubmitStamp(t)
  <2> DEFINE q == [req[t] EXCEPT !.pc = "commit", !.now = clock]
  <2>1. q \in Request
    BY <1>b, RequestUpdates, Zeros
  <2>2. q.pc = "commit" /\ q.now = clock /\ q.rid = req[t].rid
    BY <1>b DEF Request
  <2>3. req' = [req EXCEPT ![t] = q] /\ cache' = cache /\ ranges' = ranges /\ lock' = lock
    BY <1>5 DEF SubmitStamp
  <2>4. lock = t /\ ranges[req[t].rid].status # "verified"
    BY <1>5, <1>a DEF SubmitStamp, LockSound, Holding
  <2> HIDE DEF q
  <2>5. SnapshotsSound'
    BY <1>a, <1>d, <2>1, <2>2, <2>3, SnapshotFrame
  <2>6. \A u \in Threads : u # t => req[u].pc \notin Holding
    BY <1>a, <2>4, LockExclusive
  <2>7. clock <= clock + COMMIT_MAX
    BY <1>b, TimeAssumption DEF Times
  <2>8. LockSound'
    BY <1>b, <1>d, <2>2, <2>3, <2>4, <2>6, <2>7 DEF LockSound, Holding
  <2>9. MainStaysVerified'
    BY <1>a, <1>d, <2>3 DEF MainStaysVerified
  <2> QED
    BY <2>5, <2>8, <2>9
<1> QED
  BY <1>1, <1>2, <1>3, <1>4, <1>5

(* The commit records a proof younger than any snapshot could have settled. *)
LEMMA CommitLedger ==
  ASSUME LedgerInv, NEW t \in Threads, SubmitCommit(t)
  PROVE  SnapshotsSound' /\ LockSound' /\ MainStaysVerified'
<1>a. TypeInv /\ SnapshotsSound /\ LockSound /\ MainStaysVerified
  BY DEF LedgerInv
<1>b. /\ ranges \in [RangeIds -> Row] /\ vranges \in [RangeIds -> Proof] /\ clock \in Times
      /\ req[t] \in Request /\ req \in [Threads -> Request] /\ cache \in Snapshot
  BY <1>a DEF TypeInv, TypeOK
<1>c. req[t].rid \in RangeIds /\ req[t].now \in Times
  BY <1>b DEF Request
<1>d. lock = t /\ clock <= req[t].now + COMMIT_MAX
  BY <1>a DEF SubmitCommit, LockSound, Holding
<1>e. req' = [req EXCEPT ![t] = Idle] /\ Idle.pc = "idle"
  BY DEF SubmitCommit, Answer, Idle
<1>1. LockSound'
  <2>1. \A u \in Threads : req'[u].pc \notin Holding
    BY <1>a, <1>b, <1>d, <1>e, LockExclusive DEF Holding
  <2> QED
    BY <2>1 DEF LockSound, Holding
<1>2. MainStaysVerified'
  <2>1. ranges'[req[t].rid].status = "verified"
    BY <1>b, <1>c DEF SubmitCommit, Row
  <2>2. \A r \in RangeIds : r # req[t].rid => ranges'[r] = ranges[r] /\ vranges'[r] = vranges[r]
    BY <1>b DEF SubmitCommit
  <2> QED
    BY <1>a, <2>1, <2>2 DEF MainStaysVerified
<1>3. SnapshotsSound'
  <2>1. clock' = clock /\ cache' = NoSnapshot /\ cache'.valid = FALSE
    BY DEF SubmitCommit, NoSnapshot
  <2>2. vranges'[req[t].rid].ts = req[t].now
    BY <1>b, <1>c DEF SubmitCommit
  <2>3. \A r \in RangeIds : r # req[t].rid => vranges'[r] = vranges[r]
    BY <1>b DEF SubmitCommit
  <2>4. ASSUME NEW u \in Threads, req'[u].pc \in {"read", "store", "lock"}
        PROVE  req'[u].taken <= clock'
    BY <1>a, <1>b, <1>e, <2>1, <2>4 DEF SnapshotsSound
  <2>5. ASSUME NEW u \in Threads, req'[u].pc \in {"store", "lock"}
        PROVE  SnapshotSound(req[u].taken, req[u].hi)'
    <3> DEFINE h == req[u].hi + 1
    <3>1. u # t /\ req'[u] = req[u] /\ req[u].pc \in {"store", "lock"}
      BY <1>b, <1>e, <2>5
    <3>2. req[u].taken <= clock /\ SnapshotSound(req[u].taken, req[u].hi)
      BY <1>a, <3>1 DEF SnapshotsSound
    <3>3. req[u].taken \in Times /\ req[u].hi \in 0..Tip
      BY <1>b DEF Request
    <3>4. CASE h \in Blocks /\ Leaf(h) = req[t].rid
      <4>1. vranges'[Leaf(h)].ts > req[u].taken - FRONTIER_SETTLE
        BY <1>b, <1>c, <1>d, <2>2, <3>2, <3>3, <3>4, TimeAssumption, SettleAssumption DEF Times
      <4> QED
        BY <3>1, <4>1 DEF SnapshotSound
    <3>5. CASE h \in Blocks /\ Leaf(h) # req[t].rid
      <4>1. vranges'[Leaf(h)] = vranges[Leaf(h)]
        BY <2>3, <3>5, LeafIsRange
      <4> QED
        BY <3>1, <3>2, <4>1 DEF SnapshotSound
    <3>6. CASE h \notin Blocks
      BY <3>1, <3>6 DEF SnapshotSound
    <3> QED
      BY <3>4, <3>5, <3>6
  <2> QED
    BY <2>1, <2>4, <2>5 DEF SnapshotsSound
<1> QED
  BY <1>1, <1>2, <1>3

(* New requests, aborts, the un-park script, restarts and time. *)
LEMMA OtherLedger ==
  ASSUME LedgerInv,
         \/ \E t \in Threads : Start(t) \/ Abort(t)
         \/ \E r \in RangeIds : Unpark(r)
         \/ Crash \/ Tick \/ UNCHANGED vars
  PROVE  SnapshotsSound' /\ LockSound' /\ MainStaysVerified'
<1> USE DEF db
<1>a. TypeInv /\ SnapshotsSound /\ LockSound /\ MainStaysVerified
  BY DEF LedgerInv
<1>b. /\ ranges \in [RangeIds -> Row] /\ clock \in Times /\ req \in [Threads -> Request]
      /\ cache \in Snapshot
  BY <1>a DEF TypeInv, TypeOK
<1>1. ASSUME NEW t \in Threads, Start(t) PROVE SnapshotsSound' /\ LockSound' /\ MainStaysVerified'
  <2>1. PICK q : /\ req' = [req EXCEPT ![t] = q] /\ q.pc \in {"snap", "beat", "row"}
                 /\ UNCHANGED <<clock, db, files, cache, busy, lock>>
    BY <1>1 DEF Start, ClaimStart, BeatStart, SubmitStart, Idle
  <2>2. SnapshotsSound'
    BY <1>a, <1>b, <2>1 DEF SnapshotsSound, SnapshotSound
  <2>3. LockSound'
    BY <1>a, <1>b, <2>1 DEF LockSound, Holding
  <2>4. MainStaysVerified'
    BY <1>a, <2>1 DEF MainStaysVerified
  <2> QED
    BY <2>2, <2>3, <2>4
<1>2. ASSUME NEW t \in Threads, Abort(t) PROVE SnapshotsSound' /\ LockSound' /\ MainStaysVerified'
  <2>1. Answer(t) /\ UNCHANGED <<clock, db, cache>>
    BY <1>2 DEF Abort
  <2>2. SnapshotsSound'
    BY <1>a, <2>1, AnswerSound
  <2>3. LockSound'
    BY <1>2, <1>a, <1>b DEF Abort, Answer, LockSound, Holding, Idle
  <2>4. MainStaysVerified'
    BY <1>a, <2>1 DEF MainStaysVerified
  <2> QED
    BY <2>2, <2>3, <2>4
<1>3. ASSUME NEW r \in RangeIds, Unpark(r) PROVE SnapshotsSound' /\ LockSound' /\ MainStaysVerified'
  <2>1. [ranges[r] EXCEPT !.status = "open", !.attempts = 0].status = "open"
    BY <1>b DEF Row
  <2>2. LockSound'
    <3>1. UNCHANGED <<clock, vranges, lock, req>>
      BY <1>3 DEF Unpark
    <3>2. \A q \in RangeIds : ranges[q].status # "verified" => ranges'[q].status # "verified"
      BY <1>3, <1>b, <2>1 DEF Unpark
    <3>3. \A u \in Threads : req[u].rid \in RangeIds
      BY <1>b DEF Request
    <3> QED
      BY <1>a, <3>1, <3>2, <3>3 DEF LockSound
  <2>3. MainStaysVerified'
    BY <1>3, <1>a, <1>b DEF Unpark, MainStaysVerified
  <2>4. SnapshotsSound'
    BY <1>3, <1>a DEF Unpark, SnapshotsSound, SnapshotSound
  <2> QED
    BY <2>2, <2>3, <2>4
<1>4. CASE Crash
  BY <1>4, <1>a DEF Crash, SnapshotsSound, SnapshotSound, LockSound, Holding, MainStaysVerified, Idle, NoSnapshot
<1>5. CASE Tick
  <2>1. MainStaysVerified'
    BY <1>5, <1>a DEF Tick, MainStaysVerified
  <2>2. LockSound'
    <3>1. ASSUME NEW u \in Threads, req[u].pc = "commit"
          PROVE  clock + 1 <= req[u].now + COMMIT_MAX
      <4>1. clock < req[u].now + COMMIT_MAX
        BY <1>5, <3>1 DEF Tick
      <4>2. req[u].now \in Int /\ clock \in Int /\ COMMIT_MAX \in Int
        BY <1>b, TimeAssumption DEF Request, Times
      <4> QED
        BY <4>1, <4>2
    <3> QED
      BY <1>5, <1>a, <3>1 DEF Tick, LockSound
  <2>3. SnapshotsSound'
    <3>1. \A x \in Times : x <= clock => x <= clock + 1
      BY <1>b DEF Times
    <3>2. cache.taken \in Times /\ \A u \in Threads : req[u].taken \in Times
      BY <1>b DEF Snapshot, Request
    <3> QED
      BY <1>5, <1>a, <3>1, <3>2 DEF Tick, SnapshotsSound, SnapshotSound
  <2> QED
    BY <2>1, <2>2, <2>3
<1>6. CASE UNCHANGED vars
  BY <1>6, <1>a DEF vars, SnapshotsSound, SnapshotSound, LockSound, MainStaysVerified
<1> QED
  BY <1>1, <1>2, <1>3, <1>4, <1>5, <1>6

(* The empty ledger satisfies the invariant. *)
LEMMA LedgerInit == Init => LedgerInv
<1> SUFFICES ASSUME Init PROVE LedgerInv
  OBVIOUS
<1>1. TypeInv
  BY InitTyped
<1>2. SnapshotsSound /\ LockSound
  BY DEF Init, SnapshotsSound, LockSound, Holding, NoSnapshot, Idle
<1>3. MainStaysVerified
  BY DEF Init, MainStaysVerified, NoProof
<1> QED
  BY <1>1, <1>2, <1>3 DEF LedgerInv

(* Every step preserves the invariant. *)
LEMMA LedgerNext == LedgerInv /\ [Next]_vars => LedgerInv'
<1> SUFFICES ASSUME LedgerInv, [Next]_vars PROVE LedgerInv'
  OBVIOUS
<1>1. TypeInv'
  BY NextTyped DEF LedgerInv
<1>2. SnapshotsSound' /\ LockSound' /\ MainStaysVerified'
  BY SnapLedger, ClaimLedger, SubmitLedger, CommitLedger, OtherLedger DEF Next, Serve
<1> QED
  BY <1>1, <1>2 DEF LedgerInv

(* The inductive invariant of the ledger holds in every reachable state. *)
LEMMA LedgerInvariant == Spec => []LedgerInv
  BY LedgerInit, LedgerNext, PTL DEF Spec

(* #339 for every number of threads, blocks and ranges: a range whose proof
   is on the followed chain stays verified. *)
THEOREM SeamingRowsStayVerified == Spec => []MainStaysVerified
<1>1. LedgerInv => MainStaysVerified
  BY DEF LedgerInv
<1> QED
  BY <1>1, LedgerInvariant, PTL

(* No step writes over a proof that seams: only a commit writes vranges, and
   the row it commits to was not verified when it took the lock. *)
LEMMA MainKeptByStep ==
  ASSUME LedgerInv, [Next]_vars
  PROVE  \A r \in RangeIds : vranges[r].kind = "main" => vranges'[r] = vranges[r]
<1>a. vranges \in [RangeIds -> Proof] /\ LockSound /\ MainStaysVerified
  BY DEF LedgerInv, TypeInv, TypeOK
<1>1. ASSUME NEW t \in Threads, SubmitCommit(t)
      PROVE  \A r \in RangeIds : vranges[r].kind = "main" => vranges'[r] = vranges[r]
  <2>1. ranges[req[t].rid].status # "verified"
    BY <1>1, <1>a DEF SubmitCommit, LockSound
  <2>2. \A r \in RangeIds : r # req[t].rid => vranges'[r] = vranges[r]
    BY <1>1, <1>a DEF SubmitCommit
  <2> QED
    BY <1>a, <2>1, <2>2 DEF MainStaysVerified
<1>2. CASE \E t \in Threads : SubmitCommit(t)
  BY <1>1, <1>2
<1>3. CASE ~\E t \in Threads : SubmitCommit(t)
  <2>1. vranges' = vranges
    BY <1>3 DEF Next, Start, Serve, vars, db, ClaimStart, BeatStart, SubmitStart, SnapCached, SnapLead,
           SnapWait, SnapWake, BuildRead, BuildStore, ClaimRetry, ClaimRefused, ClaimBlocker,
           ClaimLowest, ClaimGrant, Beat, SubmitRow, SubmitHold, SubmitCheck, SubmitFailed, SubmitStamp, Abort,
           Unpark, Crash, Tick
  <2> QED
    BY <2>1
<1> QED
  BY <1>2, <1>3

(* No step replaces a proof of the followed chain. *)
THEOREM SeamingProofsKept == Spec => MainProofKept
<1>1. LedgerInv /\ [Next]_vars
        => [\A r \in RangeIds : vranges[r].kind = "main" => vranges'[r] = vranges[r]]_vars
  BY MainKeptByStep
<1> QED
  BY <1>1, LedgerInvariant, PTL DEF Spec, MainProofKept

(* The genesis-anchored frontier never moves back. *)
THEOREM FrontierMonotone == Spec => FrontierNeverRegresses
<1>1. LedgerInv /\ [Next]_vars
        => [\A h \in 0..Tip : Reaches(vranges, h) => Reaches(vranges', h)]_vars
  <2> SUFFICES ASSUME LedgerInv, [Next]_vars, NEW h \in 0..Tip, Reaches(vranges, h)
               PROVE  Reaches(vranges', h)
    OBVIOUS
  <2>1. {r \in RangeIds : vranges[r].kind = "main"} \subseteq {r \in RangeIds : vranges'[r].kind = "main"}
    BY MainKeptByStep
  <2> QED
    BY <2>1 DEF Reaches
<1> QED
  BY <1>1, LedgerInvariant, PTL DEF Spec, FrontierNeverRegresses

-----------------------------------------------------------------------------
(* Claims: what a claim was told while it held the lock is still so when it
   writes, although time passes and the un-park script takes no lock.       *)

(* What a claim that has chosen its block may rely on: nobody lives on it, and
   no never-beaten claim of the same request lives anywhere. *)
GrantSound(t) ==
  /\ ~LiveClaim(ranges[req[t].rid], clock)
  /\ req[t].nonce # NoNonce
       => \A r \in RangeIds :
            ~ /\ LiveClaim(ranges[r], clock) /\ ranges[r].last_beat = Never
              /\ ranges[r].nonce = req[t].nonce /\ ranges[r].assignee = req[t].key

ClaimsSound ==
  /\ \A r \in RangeIds : ranges[r].status = "verified" => Present(vranges, r)
  /\ \A t \in Threads : req[t].pc \in ClaimPCs => req[t].now <= clock
  /\ \A t \in Threads : req[t].pc = "grant" => GrantSound(t)
  /\ RetryHoldsOneBlock

ClaimsInv == LedgerInv /\ ClaimsSound

(* Folds: a submission of a wide range is on its way only while every block
   under it has a proof of its own. *)
CoverSound ==
  /\ CoveredMeansLeafProved
  /\ \A t \in Threads : req[t].pc \in SubmitPCs /\ req[t].rid[1] # req[t].rid[2]
       => \A h \in Span(req[t].rid) : Present(vranges, Leaf(h))

(* Files: the receipt that is being committed is the one on the disk. *)
FilesServed ==
  /\ ServedProofIsMain
  /\ \A t \in Threads : req[t].pc = "commit" => files[req[t].rid] = req[t].kind

(* A claim that lives at a moment lived at every earlier one: why a verdict
   of a claim, judged by a clock read before the lock, only grows truer. *)
LEMMA LivedBefore ==
  ASSUME NEW row \in Row, NEW a \in Times, NEW b \in Times, a <= b, LiveClaim(row, b)
  PROVE  LiveClaim(row, a)
  BY TimeAssumption DEF LiveClaim, Row, Times, Never

(* A row that is claimed after a step was claimed before it, by the same
   request; only a beat, and only with the lock free, renews it. *)
RowKept(r) ==
  ranges'[r].status = "claimed" =>
    /\ ranges[r].status = "claimed" /\ ranges'[r].assignee = ranges[r].assignee
    /\ ranges'[r].claimed_at = ranges[r].claimed_at /\ ranges'[r].nonce = ranges[r].nonce
    /\ \/ ranges'[r].last_beat = ranges[r].last_beat
       \/ lock = NoThread /\ ranges'[r].last_beat # Never

(* Nothing but a grant makes a claim, or changes whose it is. *)
LEMMA StepKeepsRows ==
  ASSUME LedgerInv, [Next]_vars, \A t \in Threads : ~ClaimGrant(t)
  PROVE  \A r \in RangeIds : RowKept(r)
<1>a. /\ ranges \in [RangeIds -> Row] /\ req \in [Threads -> Request]
      /\ \A r \in RangeIds : ranges[r] \in Row
  BY DEF LedgerInv, TypeInv, TypeOK
<1>b. \A t \in Threads : req[t].rid \in RangeIds /\ req[t].now \in Times
  BY <1>a DEF Request
<1>0. CASE ranges' = ranges
  BY <1>0 DEF RowKept
<1>1. ASSUME NEW t \in Threads, Beat(t)
      PROVE  \A r \in RangeIds : RowKept(r)
  <2> DEFINE row == [ranges[req[t].rid] EXCEPT !.last_beat = req[t].now]
  <2>1. /\ row.status = ranges[req[t].rid].status /\ row.assignee = ranges[req[t].rid].assignee
        /\ row.claimed_at = ranges[req[t].rid].claimed_at /\ row.nonce = ranges[req[t].rid].nonce
        /\ row.last_beat = req[t].now /\ req[t].now # Never
    BY <1>a, <1>b DEF Row, Times, Never
  <2>2. lock = NoThread /\ (ranges' = ranges \/ ranges' = [ranges EXCEPT ![req[t].rid] = row])
    BY <1>1 DEF Beat
  <2> HIDE DEF row
  <2> QED
    BY <1>a, <1>b, <2>1, <2>2 DEF RowKept
<1>2. ASSUME NEW r \in RangeIds, NEW row, ranges' = [ranges EXCEPT ![r] = row],
             row.status = "claimed" => row = ranges[r]
      PROVE  \A q \in RangeIds : RowKept(q)
  BY <1>a, <1>2 DEF RowKept
<1>3. ASSUME NEW t \in Threads, SubmitRow(t)
      PROVE  \A r \in RangeIds : RowKept(r)
  <2>1. [ranges[req[t].rid] EXCEPT !.status = "open"].status = "open"
    BY <1>a, <1>b DEF Row
  <2> QED
    BY <1>0, <1>2, <1>3, <1>b, <2>1 DEF SubmitRow
<1>4. ASSUME NEW t \in Threads, SubmitFailed(t)
      PROVE  \A r \in RangeIds : RowKept(r)
  <2> DEFINE row == RecordFailure(ranges[req[t].rid], req[t].kind)
  <2>1. row.status = "claimed" =>
          /\ ranges[req[t].rid].status = "claimed" /\ row.assignee = ranges[req[t].rid].assignee
          /\ row.claimed_at = ranges[req[t].rid].claimed_at /\ row.nonce = ranges[req[t].rid].nonce
          /\ row.last_beat = ranges[req[t].rid].last_beat
    BY <1>a, <1>b DEF RecordFailure, Row
  <2>2. ranges' = [ranges EXCEPT ![req[t].rid] = row]
    BY <1>4 DEF SubmitFailed
  <2> HIDE DEF row
  <2> QED
    BY <1>a, <1>b, <2>1, <2>2 DEF RowKept
<1>5. ASSUME NEW t \in Threads, SubmitCommit(t)
      PROVE  \A r \in RangeIds : RowKept(r)
  <2>1. [ranges[req[t].rid] EXCEPT !.status = "verified"].status = "verified"
    BY <1>a, <1>b DEF Row
  <2> QED
    BY <1>2, <1>5, <1>b, <2>1 DEF SubmitCommit
<1>6. ASSUME NEW r \in RangeIds, Unpark(r)
      PROVE  \A q \in RangeIds : RowKept(q)
  <2>1. [ranges[r] EXCEPT !.status = "open", !.attempts = 0].status = "open"
    BY <1>a DEF Row
  <2> QED
    BY <1>2, <1>6, <2>1 DEF Unpark
<1>7. ASSUME NEW t \in Threads, Start(t) \/ Abort(t)
      PROVE  \A r \in RangeIds : RowKept(r)
  <2>1. Abort(t) => ranges' = ranges
    BY DEF Abort, db
  <2>2. \A k, nonce, signed : ClaimStart(t, k, nonce, signed) => ranges' = ranges
    BY DEF ClaimStart, db
  <2>3. \A k, r : BeatStart(t, k, r) => ranges' = ranges
    BY DEF BeatStart, db
  <2>4. \A k, r, kind : SubmitStart(t, k, r, kind) => ranges' = ranges
    BY DEF SubmitStart, db
  <2> QED
    BY <1>0, <1>7, <2>1, <2>2, <2>3, <2>4 DEF Start
<1>8. ASSUME NEW t \in Threads, Serve(t)
      PROVE  \A r \in RangeIds : RowKept(r)
  <2>1. CASE SnapCached(t) \/ SnapLead(t) \/ SnapWait(t) \/ SnapWake(t) \/ BuildRead(t) \/ BuildStore(t)
    <3>1. BuildRead(t) => ranges' = ranges
      BY DEF BuildRead, db
    <3>2. SnapWake(t) => ranges' = ranges
      BY DEF SnapWake, db
    <3>3. SnapCached(t) \/ SnapLead(t) \/ SnapWait(t) \/ BuildStore(t) => ranges' = ranges
      BY DEF db, SnapCached, SnapLead, SnapWait, BuildStore
    <3> QED
      BY <1>0, <2>1, <3>1, <3>2, <3>3
  <2>2. CASE ClaimRetry(t) \/ ClaimRefused(t) \/ ClaimBlocker(t) \/ ClaimLowest(t)
    <3>1. ranges' = ranges
      BY <2>2 DEF db, ClaimRetry, ClaimRefused, ClaimBlocker, ClaimLowest
    <3> QED
      BY <1>0, <3>1
  <2>3. CASE SubmitHold(t) \/ SubmitCheck(t) \/ SubmitStamp(t)
    <3>1. ranges' = ranges
      BY <2>3 DEF db, SubmitHold, SubmitCheck, SubmitStamp
    <3> QED
      BY <1>0, <3>1
  <2> QED
    BY <1>1, <1>3, <1>4, <1>5, <1>8, <2>1, <2>2, <2>3 DEF Serve
<1>9. CASE Crash \/ Tick \/ UNCHANGED vars
  BY <1>0, <1>9 DEF Crash, Tick, vars, db
<1> QED
  BY <1>6, <1>7, <1>8, <1>9 DEF Next

(* A thread about to grant chose its block a step ago, under the free lock,
   or has stood there since. *)
Chosen(t, h) ==
  /\ req'[t].rid = Leaf(h) /\ req'[t].key = req[t].key
  /\ req'[t].nonce = req[t].nonce /\ req'[t].now = req[t].now
  /\ lock = NoThread /\ UNCHANGED <<clock, ranges>>
  /\ ClaimsByNonce(req[t]) = {} /\ h \notin HeldAt(req[t].now)

(* Every step that leaves a request of a claim where it was keeps its time. *)
LEMMA ClaimMoves ==
  ASSUME LedgerInv, [Next]_vars, NEW t \in Threads, req'[t].pc \in ClaimPCs
  PROVE  /\ \/ req[t].pc \in ClaimPCs /\ req'[t].now = req[t].now
            \/ req'[t].now = clock
         /\ req'[t].pc = "grant" =>
              req'[t] = req[t] \/ (req[t].pc = "lock" /\ \E h \in Blocks : Chosen(t, h))
<1> DEFINE G == /\ \/ req[t].pc \in ClaimPCs /\ req'[t].now = req[t].now
                   \/ req'[t].now = clock
                /\ req'[t].pc = "grant" =>
                     req'[t] = req[t] \/ (req[t].pc = "lock" /\ \E h \in Blocks : Chosen(t, h))
<1>a. req \in [Threads -> Request] /\ req[t] \in Request
  BY DEF LedgerInv, TypeInv, TypeOK
<1>0. ASSUME req'[t] = req[t] PROVE G
  BY <1>0
<1>1. ASSUME NEW u \in Threads, NEW q, req' = [req EXCEPT ![u] = q],
             u = t => \/ q.pc \notin ClaimPCs
                      \/ q.pc # "grant" /\ (q.now = clock \/ (req[t].pc \in ClaimPCs /\ q.now = req[t].now))
      PROVE  G
  BY <1>0, <1>1, <1>a
<1>2. ASSUME NEW u \in Threads, Answer(u) PROVE G
  BY <1>1, <1>2 DEF Answer, Idle, ClaimPCs
<1>3. ASSUME NEW u \in Threads, Start(u) PROVE G
  <2>1. ASSUME NEW k \in Keys, NEW nonce \in Nonces \cup {NoNonce}, NEW signed \in Signings,
               ClaimStart(u, k, nonce, signed)
        PROVE  G
    <3> DEFINE q == [Idle EXCEPT !.pc = "snap", !.key = k, !.now = clock, !.nonce = nonce, !.signed = signed]
    <3>1. q.pc = "snap" /\ q.now = clock
      BY DEF Idle
    <3>2. req' = [req EXCEPT ![u] = q]
      BY <2>1 DEF ClaimStart
    <3> HIDE DEF q
    <3> QED
      BY <1>1, <3>1, <3>2
  <2>2. ASSUME NEW k \in Keys, NEW r \in RangeIds, BeatStart(u, k, r)
        PROVE  G
    <3> DEFINE q == [Idle EXCEPT !.pc = "beat", !.key = k, !.rid = r, !.now = clock]
    <3>1. q.pc \notin ClaimPCs
      BY DEF Idle, ClaimPCs
    <3>2. req' = [req EXCEPT ![u] = q]
      BY <2>2 DEF BeatStart
    <3> HIDE DEF q
    <3> QED
      BY <1>1, <3>1, <3>2
  <2>3. ASSUME NEW k \in Keys, NEW r \in RangeIds, NEW kind \in Receipts, SubmitStart(u, k, r, kind)
        PROVE  G
    <3> DEFINE q == [Idle EXCEPT !.pc = "row", !.key = k, !.rid = r, !.kind = kind]
    <3>1. q.pc \notin ClaimPCs
      BY DEF Idle, ClaimPCs
    <3>2. req' = [req EXCEPT ![u] = q]
      BY <2>3 DEF SubmitStart
    <3> HIDE DEF q
    <3> QED
      BY <1>1, <3>1, <3>2
  <2> QED
    BY <1>3, <2>1, <2>2, <2>3 DEF Start
<1>4. ASSUME NEW u \in Threads,
             SnapCached(u) \/ SnapLead(u) \/ SnapWait(u) \/ SnapWake(u) \/ BuildRead(u) \/ BuildStore(u)
      PROVE  G
  <2>0. req[u] \in Request
    BY <1>a
  <2>1. req[u].pc \in {"snap", "wait", "read", "store"}
    <3>1. BuildRead(u) => req[u].pc = "read"
      BY DEF BuildRead
    <3>2. SnapWake(u) => req[u].pc = "wait"
      BY DEF SnapWake
    <3>3. SnapCached(u) \/ SnapLead(u) \/ SnapWait(u) => req[u].pc = "snap"
      BY DEF SnapCached, SnapLead, SnapWait
    <3>4. BuildStore(u) => req[u].pc = "store"
      BY DEF BuildStore
    <3> QED
      BY <1>4, <3>1, <3>2, <3>3, <3>4
  <2>2. ASSUME NEW q, req' = [req EXCEPT ![u] = q], q.now = req[u].now, q.pc # "grant"
        PROVE  G
    BY <1>1, <2>1, <2>2 DEF ClaimPCs
  <2>3. ASSUME NEW a, NEW h, GotSnapshot(u, a, h)
        PROVE  G
    <3> DEFINE q == [req[u] EXCEPT !.pc = "lock", !.taken = a, !.hi = h]
    <3>1. q.now = req[u].now /\ q.pc = "lock"
      BY <2>0 DEF Request
    <3>2. req' = [req EXCEPT ![u] = q]
      BY <2>3 DEF GotSnapshot
    <3> HIDE DEF q
    <3> QED
      BY <2>2, <3>1, <3>2
  <2>4. ASSUME req' = [req EXCEPT ![u] = [req[u] EXCEPT !.pc = "read", !.taken = clock]]
        PROVE  G
    <3>1. /\ [req[u] EXCEPT !.pc = "read", !.taken = clock].now = req[u].now
          /\ [req[u] EXCEPT !.pc = "read", !.taken = clock].pc = "read"
      BY <2>0 DEF Request
    <3> QED
      BY <2>2, <2>4, <3>1
  <2>5. CASE SnapWait(u)
    <3>1. [req[u] EXCEPT !.pc = "wait"].now = req[u].now /\ [req[u] EXCEPT !.pc = "wait"].pc = "wait"
      BY <2>0 DEF Request
    <3> QED
      BY <2>2, <2>5, <3>1 DEF SnapWait
  <2>6. CASE BuildRead(u)
    <3>1. PICK h \in 0..Tip : /\ IsFrontier(vranges, h)
                              /\ req' = [req EXCEPT ![u] = [@ EXCEPT !.pc = "store", !.hi = h]]
      BY <2>6, Zenon DEF BuildRead
    <3>2. /\ [req[u] EXCEPT !.pc = "store", !.hi = h].now = req[u].now
          /\ [req[u] EXCEPT !.pc = "store", !.hi = h].pc = "store"
      BY <2>0 DEF Request
    <3> QED
      BY <2>2, <3>1, <3>2
  <2> QED
    BY <1>4, <2>3, <2>4, <2>5, <2>6 DEF SnapCached, SnapLead, SnapWake, BuildStore
<1>5. ASSUME NEW u \in Threads, ClaimBlocker(u) \/ ClaimLowest(u) PROVE G
  <2>1. PICK h \in Blocks : /\ Choose(u, h) /\ h \notin HeldAt(req[u].now) /\ ClaimsByNonce(req[u]) = {}
                            /\ EnterClaim(u) /\ UNCHANGED <<clock, ranges>>
    BY <1>5 DEF ClaimBlocker, ClaimLowest, Reoffer, Covered, Claimable, Unavailable, db
  <2>2. CASE u # t
    BY <1>0, <1>a, <2>1, <2>2 DEF Choose
  <2>3. CASE u = t
    <3> DEFINE q == [req[t] EXCEPT !.pc = "grant", !.rid = Leaf(h)]
    <3>1. q.now = req[t].now /\ q.key = req[t].key /\ q.nonce = req[t].nonce /\ q.rid = Leaf(h)
      BY <1>a DEF Request
    <3>2. req'[t] = q /\ req[t].pc = "lock" /\ lock = NoThread
      BY <1>a, <2>1, <2>3 DEF Choose, EnterClaim
    <3> HIDE DEF q
    <3>3. Chosen(t, h)
      BY <2>1, <2>3, <3>1, <3>2 DEF Chosen
    <3> QED
      BY <2>1, <3>1, <3>2, <3>3 DEF ClaimPCs
  <2> QED
    BY <2>2, <2>3
<1>6. ASSUME NEW u \in Threads,
             SubmitRow(u) \/ SubmitHold(u) \/ SubmitCheck(u) \/ SubmitStamp(u)
      PROVE  G
  <2>1. CASE Answer(u)
    BY <1>2, <2>1
  <2>2. CASE ~Answer(u)
    <3>1. req[u] \in Request
      BY <1>a
    <3>2. ASSUME NEW pc \in {"hold", "verify", "begin"}, req' = [req EXCEPT ![u] = [req[u] EXCEPT !.pc = pc]]
          PROVE  G
      <4>1. [req[u] EXCEPT !.pc = pc].pc \notin ClaimPCs
        BY <3>1 DEF Request, ClaimPCs
      <4> QED
        BY <1>1, <3>2, <4>1
    <3>3. CASE SubmitStamp(u)
      <4>1. [req[u] EXCEPT !.pc = "commit", !.now = clock].pc \notin ClaimPCs
        BY <3>1 DEF Request, ClaimPCs
      <4> QED
        BY <1>1, <3>3, <4>1 DEF SubmitStamp
    <3> QED
      BY <1>6, <2>2, <3>2, <3>3 DEF SubmitRow, SubmitHold, SubmitCheck
  <2> QED
    BY <2>1, <2>2
<1>7. CASE \E u \in Threads : Serve(u)
  BY <1>2, <1>4, <1>5, <1>6, <1>7
  DEF Serve, ClaimRetry, ClaimRefused, ClaimGrant, Beat, SubmitFailed, SubmitCommit
<1>8. CASE (\E r \in RangeIds : Unpark(r)) \/ Tick \/ UNCHANGED vars
  <2>1. (\E r \in RangeIds : Unpark(r)) => req' = req
    BY DEF Unpark
  <2>2. Tick \/ UNCHANGED vars => req' = req
    BY DEF Tick, vars
  <2> QED
    BY <1>0, <1>8, <2>1, <2>2
<1>9. CASE Crash
  BY <1>9 DEF Crash, Idle, ClaimPCs
<1> QED
  BY <1>2, <1>3, <1>7, <1>8, <1>9 DEF Next, Abort

(* Who writes the tables and the clock: rows are written by five steps of the
   handlers and the un-park script, proofs by the commit. *)
LEMMA WhoWrites ==
  ASSUME [Next]_vars
  PROVE  /\ vranges' = vranges \/ \E t \in Threads : SubmitCommit(t)
         /\ \/ ranges' = ranges
            \/ \E t \in Threads : ClaimGrant(t) \/ Beat(t) \/ SubmitRow(t) \/ SubmitFailed(t) \/ SubmitCommit(t)
            \/ \E r \in RangeIds : Unpark(r)
         /\ clock' = clock \/ Tick
<1> DEFINE Same == vranges' = vranges /\ ranges' = ranges /\ clock' = clock
<1>1. ASSUME NEW t \in Threads, Start(t) PROVE Same
  <2>1. \A k, nonce, signed : ClaimStart(t, k, nonce, signed) => Same
    BY DEF ClaimStart, db
  <2>2. \A k, r : BeatStart(t, k, r) => Same
    BY DEF BeatStart, db
  <2>3. \A k, r, kind : SubmitStart(t, k, r, kind) => Same
    BY DEF SubmitStart, db
  <2> QED
    BY <1>1, <2>1, <2>2, <2>3 DEF Start
<1>2. ASSUME NEW t \in Threads
      PROVE  BuildRead(t) \/ SnapWake(t) \/ SnapCached(t) \/ SnapLead(t) \/ SnapWait(t) \/ BuildStore(t) => Same
  <2>1. BuildRead(t) => Same
    BY DEF BuildRead, db
  <2>2. SnapWake(t) => Same
    BY DEF SnapWake, db
  <2>3. SnapCached(t) \/ SnapLead(t) \/ SnapWait(t) \/ BuildStore(t) => Same
    BY DEF db, SnapCached, SnapLead, SnapWait, BuildStore
  <2> QED
    BY <2>1, <2>2, <2>3
<1>3. ASSUME NEW t \in Threads
      PROVE  ClaimRetry(t) \/ ClaimRefused(t) \/ ClaimBlocker(t) \/ ClaimLowest(t) => Same
  BY DEF db, ClaimRetry, ClaimRefused, ClaimBlocker, ClaimLowest
<1>4. ASSUME NEW t \in Threads
      PROVE  SubmitHold(t) \/ SubmitCheck(t) \/ SubmitStamp(t) => Same
  BY DEF db, SubmitHold, SubmitCheck, SubmitStamp
<1>5. ASSUME NEW t \in Threads
      PROVE  /\ ClaimGrant(t) \/ Beat(t) \/ SubmitRow(t) \/ SubmitFailed(t) => vranges' = vranges /\ clock' = clock
             /\ SubmitCommit(t) => clock' = clock
             /\ Abort(t) => Same
  BY DEF ClaimGrant, Beat, SubmitRow, SubmitFailed, SubmitCommit, Abort, db
<1>6. /\ \A r \in RangeIds : Unpark(r) => vranges' = vranges /\ clock' = clock
      /\ Crash \/ UNCHANGED vars => Same
      /\ Tick => vranges' = vranges /\ ranges' = ranges
  <2>1. \A r \in RangeIds : Unpark(r) => vranges' = vranges /\ clock' = clock
    BY DEF Unpark
  <2>2. Crash \/ UNCHANGED vars => Same
    BY DEF Crash, vars, db
  <2>3. Tick => vranges' = vranges /\ ranges' = ranges
    BY DEF Tick, db
  <2> QED
    BY <2>1, <2>2, <2>3
<1> HIDE DEF Same
<1>7. ASSUME NEW t \in Threads, Serve(t)
      PROVE  \/ Same
             \/ /\ ClaimGrant(t) \/ Beat(t) \/ SubmitRow(t) \/ SubmitFailed(t)
                /\ vranges' = vranges /\ clock' = clock
             \/ SubmitCommit(t) /\ clock' = clock
  BY <1>2, <1>3, <1>4, <1>5, <1>7 DEF Serve
<1>8. \/ Same
      \/ \E t \in Threads : /\ ClaimGrant(t) \/ Beat(t) \/ SubmitRow(t) \/ SubmitFailed(t)
                            /\ vranges' = vranges /\ clock' = clock
      \/ \E t \in Threads : SubmitCommit(t) /\ clock' = clock
      \/ (\E r \in RangeIds : Unpark(r)) /\ vranges' = vranges /\ clock' = clock
      \/ Tick /\ vranges' = vranges /\ ranges' = ranges
  BY <1>1, <1>5, <1>6, <1>7 DEF Next
<1> QED
  BY <1>8 DEF Same

(* No verdict of a claim is overturned by a step, other than the grant
   itself: rows are made by grants only, and time only ends claims. *)
LEMMA DeadStaysDead ==
  ASSUME LedgerInv, [Next]_vars, \A t \in Threads : ~ClaimGrant(t), clock \in Times, clock' \in Times,
         clock <= clock', NEW r \in RangeIds, LiveClaim(ranges'[r], clock'),
         lock # NoThread \/ ranges'[r].last_beat = Never
  PROVE  /\ LiveClaim(ranges[r], clock) /\ ranges[r].last_beat = ranges'[r].last_beat
         /\ ranges[r].assignee = ranges'[r].assignee /\ ranges[r].nonce = ranges'[r].nonce
<1>1. ranges[r] \in Row
  BY DEF LedgerInv, TypeInv, TypeOK
<1>2. /\ ranges[r].status = "claimed" /\ ranges'[r].status = "claimed"
      /\ ranges'[r].assignee = ranges[r].assignee /\ ranges'[r].claimed_at = ranges[r].claimed_at
      /\ ranges'[r].nonce = ranges[r].nonce /\ ranges'[r].last_beat = ranges[r].last_beat
  BY StepKeepsRows DEF RowKept, LiveClaim
<1>3. LiveClaim(ranges[r], clock')
  BY <1>2 DEF LiveClaim
<1> QED
  BY <1>1, <1>2, <1>3, LivedBefore

(* Time does not go back. *)
LEMMA ClockMoves ==
  ASSUME LedgerInv, [Next]_vars
  PROVE  clock \in Times /\ clock' \in Times /\ clock <= clock'
<1>1. clock \in Times
  BY DEF LedgerInv, TypeInv, TypeOK
<1>2. clock' \in Times
  BY LedgerNext DEF LedgerInv, TypeInv, TypeOK
<1>3. CASE Tick
  BY <1>1, <1>2, <1>3 DEF Tick, Times
<1>4. CASE clock' = clock
  BY <1>1, <1>4 DEF Times
<1> QED
  BY <1>3, <1>4, WhoWrites

(* A proof that was recorded stays recorded, or is replaced by another, and
   a row becomes verified only with its proof. *)
LEMMA ProofsStay ==
  ASSUME LedgerInv, [Next]_vars
  PROVE  /\ \A r \in RangeIds : Present(vranges, r) => Present(vranges', r)
         /\ \A r \in RangeIds : ranges'[r].status = "verified" /\ ranges[r].status # "verified"
              => Present(vranges', r)
<1>a. /\ ranges \in [RangeIds -> Row] /\ vranges \in [RangeIds -> Proof] /\ req \in [Threads -> Request]
      /\ TypeInv
  BY DEF LedgerInv, TypeInv, TypeOK
<1>1. ASSUME NEW t \in Threads, SubmitCommit(t)
      PROVE  /\ Present(vranges', req[t].rid)
             /\ \A r \in RangeIds : r # req[t].rid => ranges'[r] = ranges[r] /\ vranges'[r] = vranges[r]
  <2>1. req[t].kind \in {"main", "stale"} /\ req[t].rid \in RangeIds
    BY <1>1, <1>a DEF SubmitCommit, TypeInv, CommitVerified, Request
  <2> QED
    BY <1>1, <1>a, <2>1 DEF SubmitCommit, Present
<1>2. CASE \E t \in Threads : SubmitCommit(t)
  BY <1>1, <1>2 DEF Present
<1>3. CASE ~\E t \in Threads : SubmitCommit(t)
  <2>1. vranges' = vranges
    BY <1>3, WhoWrites
  <2>2. ASSUME NEW r \in RangeIds, ranges'[r].status = "verified", ranges[r].status # "verified"
        PROVE  FALSE
    <3>1. \A t \in Threads : req[t].rid \in RangeIds
      BY <1>a DEF Request
    <3>2. \A t \in Threads : ~ClaimGrant(t)
      BY <1>a, <2>2 DEF ClaimGrant, NoRow
    <3>3. \A t \in Threads : ~Beat(t)
      BY <1>a, <2>2 DEF Beat, Row
    <3>4. \A t \in Threads : ~SubmitRow(t)
      BY <1>a, <2>2 DEF SubmitRow, Row
    <3>5. \A t \in Threads : ~SubmitFailed(t)
      <4> SUFFICES ASSUME NEW t \in Threads, SubmitFailed(t) PROVE FALSE
        OBVIOUS
      <4>1. /\ ranges' = [ranges EXCEPT ![req[t].rid] = RecordFailure(ranges[req[t].rid], req[t].kind)]
            /\ req[t].rid \in RangeIds
        BY <3>1 DEF SubmitFailed
      <4>2. RecordFailure(ranges[r], req[t].kind).status # "verified"
        BY <1>a, <2>2 DEF RecordFailure, Row
      <4> QED
        BY <1>a, <2>2, <4>1, <4>2
    <3>6. \A q \in RangeIds : ~Unpark(q)
      BY <1>a, <2>2 DEF Unpark, Row
    <3>7. ranges' = ranges
      BY <1>3, <3>2, <3>3, <3>4, <3>5, <3>6, WhoWrites
    <3> QED
      BY <2>2, <3>7
  <2> QED
    BY <2>1, <2>2
<1> QED
  BY <1>2, <1>3

(* Every step but a grant keeps what claims rely on. *)
LEMMA OthersKeepClaims ==
  ASSUME ClaimsInv, [Next]_vars, \A t \in Threads : ~ClaimGrant(t)
  PROVE  ClaimsSound'
<1>a. LedgerInv /\ LedgerInv' /\ ClaimsSound
  BY LedgerNext DEF ClaimsInv
<1>b. /\ clock \in Times /\ clock' \in Times /\ clock <= clock'
      /\ req \in [Threads -> Request] /\ \A r \in RangeIds : ranges[r] \in Row
  BY <1>a, ClockMoves DEF LedgerInv, TypeInv, TypeOK
<1>c. \A t \in Threads : req[t].now \in Times /\ req[t].rid \in RangeIds
  BY <1>b DEF Request
<1>1. \A r \in RangeIds : ranges'[r].status = "verified" => Present(vranges', r)
  BY <1>a, ProofsStay DEF ClaimsSound
<1>2. ASSUME NEW t \in Threads, req'[t].pc \in ClaimPCs
      PROVE  req'[t].now <= clock'
  <2>1. (req[t].pc \in ClaimPCs /\ req'[t].now = req[t].now) \/ req'[t].now = clock
    BY <1>a, <1>2, ClaimMoves
  <2>2. CASE req'[t].now = clock
    BY <1>b, <2>2
  <2>3. CASE req[t].pc \in ClaimPCs /\ req'[t].now = req[t].now
    <3>1. req[t].now <= clock
      BY <1>a, <2>3 DEF ClaimsSound
    <3> QED
      BY <1>b, <1>c, <2>3, <3>1 DEF Times
  <2> QED
    BY <2>1, <2>2, <2>3
<1>3. ASSUME NEW t \in Threads, req'[t].pc = "grant"
      PROVE  GrantSound(t)'
  <2>1. req'[t] = req[t] \/ (req[t].pc = "lock" /\ \E h \in Blocks : Chosen(t, h))
    BY <1>a, <1>3, ClaimMoves DEF ClaimPCs
  <2>2. CASE req'[t] = req[t]
    <3>1. GrantSound(t) /\ lock # NoThread
      BY <1>a, <1>3, <2>2, NameAssumption DEF ClaimsSound, LedgerInv, LockSound, Holding
    <3>2. ASSUME NEW r \in RangeIds, LiveClaim(ranges'[r], clock')
          PROVE  /\ LiveClaim(ranges[r], clock) /\ ranges[r].last_beat = ranges'[r].last_beat
                 /\ ranges[r].assignee = ranges'[r].assignee /\ ranges[r].nonce = ranges'[r].nonce
      BY <1>a, <1>b, <3>1, <3>2, DeadStaysDead
    <3> QED
      BY <1>c, <2>2, <3>1, <3>2 DEF GrantSound
  <2>3. ASSUME NEW h \in Blocks, Chosen(t, h), req[t].pc = "lock"
        PROVE  GrantSound(t)'
    <3>1. req[t].now <= clock
      BY <1>a, <2>3 DEF ClaimsSound, ClaimPCs
    <3>2. ~LiveClaim(ranges[Leaf(h)], clock)
      <4>1. ~LiveClaim(ranges[Leaf(h)], req[t].now)
        BY <2>3, LeafIsRange DEF Chosen, HeldAt, Leaf
      <4> QED
        BY <1>b, <1>c, <3>1, <4>1, LivedBefore, LeafIsRange
    <3>3. ASSUME req[t].nonce # NoNonce, NEW r \in RangeIds, LiveClaim(ranges[r], clock),
                 ranges[r].last_beat = Never, ranges[r].nonce = req[t].nonce,
                 ranges[r].assignee = req[t].key
          PROVE  FALSE
      <4>1. LiveClaim(ranges[r], req[t].now)
        BY <1>b, <1>c, <3>1, <3>3, LivedBefore
      <4>2. r \in ClaimsByNonce(req[t])
        BY <3>3, <4>1 DEF ClaimsByNonce, LiveClaim
      <4> QED
        BY <2>3, <4>2 DEF Chosen
    <3>4. /\ ranges' = ranges /\ clock' = clock /\ req'[t].rid = Leaf(h)
          /\ req'[t].nonce = req[t].nonce /\ req'[t].key = req[t].key
      BY <2>3 DEF Chosen
    <3> QED
      BY <3>2, <3>3, <3>4 DEF GrantSound
  <2> QED
    BY <2>1, <2>2, <2>3
<1>4. RetryHoldsOneBlock'
  <2> SUFFICES ASSUME NEW r1 \in RangeIds, NEW r2 \in RangeIds,
                      LiveClaim(ranges'[r1], clock'), LiveClaim(ranges'[r2], clock'),
                      ranges'[r1].last_beat = Never, ranges'[r2].last_beat = Never,
                      ranges'[r1].nonce # NoNonce, ranges'[r1].nonce = ranges'[r2].nonce,
                      ranges'[r1].assignee = ranges'[r2].assignee
               PROVE  r1 = r2
    BY DEF RetryHoldsOneBlock
  <2>1. /\ LiveClaim(ranges[r1], clock) /\ ranges[r1].last_beat = ranges'[r1].last_beat
        /\ ranges[r1].assignee = ranges'[r1].assignee /\ ranges[r1].nonce = ranges'[r1].nonce
    BY <1>a, <1>b, DeadStaysDead
  <2>2. /\ LiveClaim(ranges[r2], clock) /\ ranges[r2].last_beat = ranges'[r2].last_beat
        /\ ranges[r2].assignee = ranges'[r2].assignee /\ ranges[r2].nonce = ranges'[r2].nonce
    BY <1>a, <1>b, DeadStaysDead
  <2> QED
    BY <1>a, <2>1, <2>2 DEF ClaimsSound, RetryHoldsOneBlock
<1> QED
  BY <1>1, <1>2, <1>3, <1>4 DEF ClaimsSound

(* The grant: the new claim is the only live one of its request. *)
LEMMA GrantKeepsClaims ==
  ASSUME ClaimsInv, NEW t \in Threads, ClaimGrant(t)
  PROVE  ClaimsSound'
<1>a. LedgerInv /\ ClaimsSound
  BY DEF ClaimsInv
<1>b. /\ req \in [Threads -> Request] /\ ranges \in [RangeIds -> Row] /\ clock' = clock
      /\ req[t].rid \in RangeIds /\ req' = [req EXCEPT ![t] = Idle] /\ vranges' = vranges
  BY <1>a DEF LedgerInv, TypeInv, TypeOK, Request, ClaimGrant, Answer
<1>c. /\ \A r \in RangeIds : r # req[t].rid => ranges'[r] = ranges[r]
      /\ ranges'[req[t].rid].status = "claimed"
      /\ ranges'[req[t].rid].nonce = req[t].nonce /\ ranges'[req[t].rid].assignee = req[t].key
  BY <1>b DEF ClaimGrant, NoRow
<1>d. \A u \in Threads : u # t => req[u].pc # "grant"
  BY <1>a, LockExclusive DEF LedgerInv, LockSound, Holding, ClaimGrant
<1>1. \A r \in RangeIds : ranges'[r].status = "verified" => Present(vranges', r)
  BY <1>a, <1>b, <1>c DEF ClaimsSound, Present
<1>2. \A u \in Threads : req'[u].pc \in ClaimPCs => req'[u].now <= clock'
  BY <1>a, <1>b DEF ClaimsSound, Idle, ClaimPCs
<1>3. \A u \in Threads : req'[u].pc # "grant"
  BY <1>b, <1>d DEF Idle
<1>4. RetryHoldsOneBlock'
  <2>1. GrantSound(t)
    BY <1>a DEF ClaimsSound, ClaimGrant
  <2>2. ASSUME NEW r \in RangeIds, r # req[t].rid, LiveClaim(ranges[r], clock),
               ranges[r].last_beat = Never, req[t].nonce # NoNonce,
               ranges[r].nonce = req[t].nonce, ranges[r].assignee = req[t].key
        PROVE  FALSE
    BY <2>1, <2>2 DEF GrantSound
  <2> SUFFICES ASSUME NEW r1 \in RangeIds, NEW r2 \in RangeIds,
                      LiveClaim(ranges'[r1], clock'), LiveClaim(ranges'[r2], clock'),
                      ranges'[r1].last_beat = Never, ranges'[r2].last_beat = Never,
                      ranges'[r1].nonce # NoNonce, ranges'[r1].nonce = ranges'[r2].nonce,
                      ranges'[r1].assignee = ranges'[r2].assignee
               PROVE  r1 = r2
    BY DEF RetryHoldsOneBlock
  <2>3. CASE r1 = req[t].rid
    BY <1>b, <1>c, <2>2, <2>3
  <2>4. CASE r2 = req[t].rid
    BY <1>b, <1>c, <2>2, <2>4
  <2>5. CASE r1 # req[t].rid /\ r2 # req[t].rid
    BY <1>a, <1>b, <1>c, <2>5 DEF ClaimsSound, RetryHoldsOneBlock
  <2> QED
    BY <2>3, <2>4, <2>5
<1> QED
  BY <1>1, <1>2, <1>3, <1>4 DEF ClaimsSound

LEMMA ClaimsNext == ClaimsInv /\ [Next]_vars => ClaimsInv'
<1> SUFFICES ASSUME ClaimsInv, [Next]_vars PROVE ClaimsInv'
  OBVIOUS
<1>1. LedgerInv'
  BY LedgerNext DEF ClaimsInv
<1>2. ClaimsSound'
  BY OthersKeepClaims, GrantKeepsClaims
<1> QED
  BY <1>1, <1>2 DEF ClaimsInv

LEMMA ClaimsInit == Init => ClaimsInv
<1> SUFFICES ASSUME Init PROVE ClaimsInv
  OBVIOUS
<1>1. LedgerInv
  BY LedgerInit
<1>2. \A r \in RangeIds : ranges[r].status \notin {"verified", "claimed"}
  BY DEF Init, NoRow
<1>3. ClaimsSound
  BY <1>2 DEF Init, ClaimsSound, RetryHoldsOneBlock, LiveClaim, Idle, ClaimPCs
<1> QED
  BY <1>1, <1>3 DEF ClaimsInv

LEMMA ClaimsInvariant == Spec => []ClaimsInv
  BY ClaimsInit, ClaimsNext, PTL DEF Spec

(* #268: however often one claim request is retried and however its retries
   overlap, it never holds two blocks: the nonce is looked up in the same
   locked section that picks the block. *)
THEOREM RetriesHoldOne == Spec => []RetryHoldsOneBlock
<1>1. ClaimsInv => RetryHoldsOneBlock
  BY DEF ClaimsInv, ClaimsSound
<1> QED
  BY <1>1, ClaimsInvariant, PTL

(* A live claim keeps its block: claim() judges the others' claims by a clock
   it read before the lock, and that verdict can only have grown stricter. *)
THEOREM LiveClaimsKept == Spec => LiveClaimKept
<1>1. ClaimsInv /\ [Next]_vars
        => [\A r \in RangeIds :
              LiveClaim(ranges[r], clock) /\ ranges'[r].status = "claimed"
                => /\ ranges'[r].assignee = ranges[r].assignee
                   /\ ranges'[r].claimed_at = ranges[r].claimed_at]_vars
  <2> SUFFICES ASSUME ClaimsInv, [Next]_vars, NEW r \in RangeIds,
                      LiveClaim(ranges[r], clock), ranges'[r].status = "claimed"
               PROVE  /\ ranges'[r].assignee = ranges[r].assignee
                      /\ ranges'[r].claimed_at = ranges[r].claimed_at
    OBVIOUS
  <2>1. LedgerInv /\ ClaimsSound /\ ranges \in [RangeIds -> Row]
    BY DEF ClaimsInv, LedgerInv, TypeInv, TypeOK
  <2>2. CASE \A t \in Threads : ~ClaimGrant(t)
    BY <2>1, <2>2, StepKeepsRows DEF RowKept
  <2>3. ASSUME NEW t \in Threads, ClaimGrant(t)
        PROVE  ranges'[r] = ranges[r]
    <3>1. r # req[t].rid
      BY <2>1, <2>3 DEF ClaimsSound, GrantSound, ClaimGrant
    <3> QED
      BY <2>1, <2>3, <3>1 DEF ClaimGrant
  <2> QED
    BY <2>2, <2>3
<1> QED
  BY <1>1, ClaimsInvariant, PTL DEF Spec, LiveClaimKept

(* A verified row is given up only by re-offering a block whose proof cannot
   seam: no late failure and no un-parking turns one back. *)
THEOREM VerifiedRowsKept == Spec => VerifiedRowKept
<1>1. ClaimsInv /\ [Next]_vars
        => [\A r \in RangeIds :
              ranges[r].status = "verified" /\ ranges'[r].status # "verified"
                => ranges'[r].status = "claimed" /\ vranges[r].kind = "stale"]_vars
  <2> SUFFICES ASSUME ClaimsInv, [Next]_vars, NEW r \in RangeIds,
                      ranges[r].status = "verified", ranges'[r].status # "verified"
               PROVE  ranges'[r].status = "claimed" /\ vranges[r].kind = "stale"
    OBVIOUS
  <2>a. /\ LedgerInv /\ ClaimsSound /\ LockSound /\ ranges \in [RangeIds -> Row]
        /\ vranges \in [RangeIds -> Proof] /\ \A t \in Threads : req[t].rid \in RangeIds
    BY DEF ClaimsInv, LedgerInv, TypeInv, TypeOK, Request
  <2>1. ASSUME NEW t \in Threads, ClaimGrant(t)
        PROVE  ranges'[r].status = "claimed" /\ vranges[r].kind = "stale"
    <3>1. r = req[t].rid
      BY <2>a, <2>1 DEF ClaimGrant
    <3>2. vranges[r].kind # "main" /\ vranges[r].kind # "none"
      BY <2>a, <2>1, <3>1 DEF ClaimGrant, LockSound, ClaimsSound, Present
    <3> QED
      BY <2>a, <2>1, <3>1, <3>2 DEF ClaimGrant, NoRow, Proof
  <2>2. \A t \in Threads : ~Beat(t)
    BY <2>a DEF Beat, BeatAccepted
  <2>3. \A t \in Threads : ~SubmitRow(t)
    BY <2>a DEF SubmitRow
  <2>4. \A t \in Threads : ~SubmitFailed(t)
    BY <2>a DEF SubmitFailed, LockSound
  <2>5. \A t \in Threads : ~SubmitCommit(t)
    BY <2>a DEF SubmitCommit, Row
  <2>6. \A q \in RangeIds : ~Unpark(q)
    BY <2>a DEF Unpark
  <2> QED
    BY <2>1, <2>2, <2>3, <2>4, <2>5, <2>6, WhoWrites
<1> QED
  BY <1>1, ClaimsInvariant, PTL DEF Spec, VerifiedRowKept

-----------------------------------------------------------------------------
(* Folds and files: what a submission was told before it verified still holds
   when it commits.                                                         *)

(* A submission under way keeps its range, and entered with a range it may
   cover; it reaches its commit only by stamping it. *)
LEMMA SubmitMoves ==
  ASSUME LedgerInv, [Next]_vars, NEW t \in Threads, req'[t].pc \in SubmitPCs
  PROVE  /\ \/ req[t].pc \in SubmitPCs /\ req'[t].rid = req[t].rid
            \/ MayCover(req'[t].rid)
         /\ req'[t].pc = "commit" => req'[t] = req[t] \/ SubmitStamp(t)
<1> DEFINE G == /\ \/ req[t].pc \in SubmitPCs /\ req'[t].rid = req[t].rid
                   \/ MayCover(req'[t].rid)
                /\ req'[t].pc = "commit" => req'[t] = req[t] \/ SubmitStamp(t)
<1>a. req \in [Threads -> Request] /\ req[t] \in Request
  BY DEF LedgerInv, TypeInv, TypeOK
<1>0. ASSUME req'[t] = req[t] PROVE G
  BY <1>0
<1>1. ASSUME NEW u \in Threads, NEW q, req' = [req EXCEPT ![u] = q],
             u = t => \/ q.pc \notin SubmitPCs
                      \/ q.pc # "commit" /\ req[t].pc \in SubmitPCs /\ q.rid = req[t].rid
                      \/ q.pc # "commit" /\ MayCover(q.rid)
      PROVE  G
  BY <1>0, <1>1, <1>a
<1>2. ASSUME NEW u \in Threads, Answer(u) PROVE G
  BY <1>1, <1>2 DEF Answer, Idle, SubmitPCs
<1>3. ASSUME NEW u \in Threads, Start(u) PROVE G
  <2>1. ASSUME NEW k \in Keys, NEW nonce \in Nonces \cup {NoNonce}, NEW signed \in Signings,
               ClaimStart(u, k, nonce, signed)
        PROVE  G
    <3> DEFINE q == [Idle EXCEPT !.pc = "snap", !.key = k, !.now = clock, !.nonce = nonce, !.signed = signed]
    <3>1. q.pc \notin SubmitPCs
      BY DEF Idle, SubmitPCs
    <3>2. req' = [req EXCEPT ![u] = q]
      BY <2>1 DEF ClaimStart
    <3> HIDE DEF q
    <3> QED
      BY <1>1, <3>1, <3>2
  <2>2. ASSUME NEW k \in Keys, NEW r \in RangeIds, BeatStart(u, k, r)
        PROVE  G
    <3> DEFINE q == [Idle EXCEPT !.pc = "beat", !.key = k, !.rid = r, !.now = clock]
    <3>1. q.pc \notin SubmitPCs
      BY DEF Idle, SubmitPCs
    <3>2. req' = [req EXCEPT ![u] = q]
      BY <2>2 DEF BeatStart
    <3> HIDE DEF q
    <3> QED
      BY <1>1, <3>1, <3>2
  <2>3. ASSUME NEW k \in Keys, NEW r \in RangeIds, NEW kind \in Receipts, SubmitStart(u, k, r, kind)
        PROVE  G
    <3> DEFINE q == [Idle EXCEPT !.pc = "row", !.key = k, !.rid = r, !.kind = kind]
    <3>1. q.pc = "row" /\ q.rid = r
      BY DEF Idle
    <3>2. req' = [req EXCEPT ![u] = q] /\ MayCover(r)
      BY <2>3 DEF SubmitStart
    <3> HIDE DEF q
    <3> QED
      BY <1>1, <3>1, <3>2
  <2> QED
    BY <1>3, <2>1, <2>2, <2>3 DEF Start
<1>4. ASSUME NEW u \in Threads,
             SnapCached(u) \/ SnapLead(u) \/ SnapWait(u) \/ SnapWake(u) \/ BuildRead(u) \/ BuildStore(u)
      PROVE  G
  <2>0. req[u] \in Request
    BY <1>a
  <2>1. ASSUME NEW q, req' = [req EXCEPT ![u] = q], q.pc \in {"wait", "read", "store", "lock"}
        PROVE  G
    BY <1>1, <2>1 DEF SubmitPCs
  <2>2. ASSUME NEW a, NEW h, GotSnapshot(u, a, h)
        PROVE  G
    <3>1. [req[u] EXCEPT !.pc = "lock", !.taken = a, !.hi = h].pc = "lock"
      BY <2>0 DEF Request
    <3> QED
      BY <2>1, <2>2, <3>1 DEF GotSnapshot
  <2>3. ASSUME req' = [req EXCEPT ![u] = [req[u] EXCEPT !.pc = "read", !.taken = clock]]
        PROVE  G
    <3>1. [req[u] EXCEPT !.pc = "read", !.taken = clock].pc = "read"
      BY <2>0 DEF Request
    <3> QED
      BY <2>1, <2>3, <3>1
  <2>4. CASE SnapWait(u)
    <3>1. [req[u] EXCEPT !.pc = "wait"].pc = "wait"
      BY <2>0 DEF Request
    <3> QED
      BY <2>1, <2>4, <3>1 DEF SnapWait
  <2>5. CASE BuildRead(u)
    <3>1. PICK h \in 0..Tip : /\ IsFrontier(vranges, h)
                              /\ req' = [req EXCEPT ![u] = [@ EXCEPT !.pc = "store", !.hi = h]]
      BY <2>5, Zenon DEF BuildRead
    <3>2. [req[u] EXCEPT !.pc = "store", !.hi = h].pc = "store"
      BY <2>0 DEF Request
    <3> QED
      BY <2>1, <3>1, <3>2
  <2> QED
    BY <1>4, <2>2, <2>3, <2>4, <2>5 DEF SnapCached, SnapLead, SnapWake, BuildStore
<1>5. ASSUME NEW u \in Threads, NEW h, Choose(u, h) PROVE G
  <2>1. [req[u] EXCEPT !.pc = "grant", !.rid = Leaf(h)].pc \notin SubmitPCs
    BY <1>a DEF Request, SubmitPCs
  <2> QED
    BY <1>1, <1>5, <2>1 DEF Choose
<1>6. ASSUME NEW u \in Threads,
             SubmitRow(u) \/ SubmitHold(u) \/ SubmitCheck(u) \/ SubmitStamp(u)
      PROVE  G
  <2>1. CASE Answer(u)
    BY <1>2, <2>1
  <2>2. CASE ~Answer(u)
    <3>1. req[u] \in Request
      BY <1>a
    <3>2. ASSUME NEW pc \in {"hold", "verify", "begin"}, req' = [req EXCEPT ![u] = [req[u] EXCEPT !.pc = pc]],
                 req[u].pc \in SubmitPCs
          PROVE  G
      <4>1. [req[u] EXCEPT !.pc = pc].pc = pc /\ [req[u] EXCEPT !.pc = pc].rid = req[u].rid
        BY <3>1 DEF Request
      <4> QED
        BY <1>1, <3>2, <4>1
    <3>3. CASE SubmitStamp(u)
      <4> DEFINE q == [req[u] EXCEPT !.pc = "commit", !.now = clock]
      <4>1. q.pc = "commit" /\ q.rid = req[u].rid
        BY <3>1 DEF Request
      <4>2. req' = [req EXCEPT ![u] = q] /\ req[u].pc \in SubmitPCs
        BY <3>3 DEF SubmitStamp, SubmitPCs
      <4> HIDE DEF q
      <4> QED
        BY <1>0, <1>a, <3>3, <4>1, <4>2
    <3> QED
      BY <1>6, <2>2, <3>2, <3>3 DEF SubmitRow, SubmitHold, SubmitCheck, SubmitPCs
  <2> QED
    BY <2>1, <2>2
<1>7. CASE \E u \in Threads : Serve(u)
  BY <1>2, <1>4, <1>5, <1>6, <1>7
  DEF Serve, ClaimRetry, ClaimRefused, ClaimGrant, Beat, SubmitFailed, SubmitCommit, ClaimBlocker, ClaimLowest
<1>8. CASE (\E r \in RangeIds : Unpark(r)) \/ Tick \/ UNCHANGED vars
  <2>1. (\E r \in RangeIds : Unpark(r)) => req' = req
    BY DEF Unpark
  <2>2. Tick \/ UNCHANGED vars => req' = req
    BY DEF Tick, vars
  <2> QED
    BY <1>0, <1>8, <2>1, <2>2
<1>9. CASE Crash
  BY <1>9 DEF Crash, Idle, SubmitPCs
<1> QED
  BY <1>2, <1>3, <1>7, <1>8, <1>9 DEF Next, Abort

(* A proof file is written where the proof is stamped, and nowhere else. *)
LEMMA FilesWritten ==
  ASSUME [Next]_vars
  PROVE  files' = files \/ \E t \in Threads : SubmitStamp(t)
<1>1. ASSUME NEW t \in Threads, Start(t) PROVE files' = files
  <2>1. \A k, nonce, signed : ClaimStart(t, k, nonce, signed) => files' = files
    BY DEF ClaimStart
  <2>2. \A k, r : BeatStart(t, k, r) => files' = files
    BY DEF BeatStart
  <2>3. \A k, r, kind : SubmitStart(t, k, r, kind) => files' = files
    BY DEF SubmitStart
  <2> QED
    BY <1>1, <2>1, <2>2, <2>3 DEF Start
<1>2. ASSUME NEW t \in Threads
      PROVE  BuildRead(t) \/ SnapWake(t) \/ SnapCached(t) \/ SnapLead(t) \/ SnapWait(t) \/ BuildStore(t)
               => files' = files
  <2>1. BuildRead(t) => files' = files
    BY DEF BuildRead
  <2>2. SnapWake(t) => files' = files
    BY DEF SnapWake
  <2>3. SnapCached(t) \/ SnapLead(t) \/ SnapWait(t) \/ BuildStore(t) => files' = files
    BY DEF SnapCached, SnapLead, SnapWait, BuildStore
  <2> QED
    BY <2>1, <2>2, <2>3
<1>3. ASSUME NEW t \in Threads
      PROVE  ClaimRetry(t) \/ ClaimRefused(t) \/ ClaimBlocker(t) \/ ClaimLowest(t) \/ ClaimGrant(t) \/ Beat(t)
               => files' = files
  BY DEF ClaimRetry, ClaimRefused, ClaimBlocker, ClaimLowest, ClaimGrant, Beat
<1>4. ASSUME NEW t \in Threads
      PROVE  SubmitRow(t) \/ SubmitHold(t) \/ SubmitCheck(t) \/ SubmitFailed(t) \/ SubmitCommit(t) \/ Abort(t)
               => files' = files
  BY DEF SubmitRow, SubmitHold, SubmitCheck, SubmitFailed, SubmitCommit, Abort
<1>5. ASSUME NEW t \in Threads, Serve(t) PROVE files' = files \/ SubmitStamp(t)
  BY <1>2, <1>3, <1>4, <1>5 DEF Serve
<1>6. /\ \A r \in RangeIds : Unpark(r) => files' = files
      /\ Crash \/ UNCHANGED vars => files' = files
      /\ Tick => files' = files
  <2>1. \A r \in RangeIds : Unpark(r) => files' = files
    BY DEF Unpark
  <2>2. Crash \/ UNCHANGED vars => files' = files
    BY DEF Crash, vars
  <2>3. Tick => files' = files
    BY DEF Tick
  <2> QED
    BY <2>1, <2>2, <2>3
<1> QED
  BY <1>1, <1>4, <1>5, <1>6 DEF Next

(* The tiling a fold was admitted by cannot come apart while it is verified:
   proofs stay, and no range is covered before its blocks are. *)
LEMMA CoverNext == LedgerInv /\ CoverSound /\ [Next]_vars => CoverSound'
<1> SUFFICES ASSUME LedgerInv, CoverSound, [Next]_vars PROVE CoverSound'
  OBVIOUS
<1>a. /\ vranges \in [RangeIds -> Proof] /\ req \in [Threads -> Request]
      /\ \A t \in Threads : req[t].rid \in RangeIds
  BY DEF LedgerInv, TypeInv, TypeOK, Request
<1>b. \A r \in RangeIds : Span(r) \subseteq Blocks
  BY BlocksAssumption DEF RangeIds, Leaf, Span, Blocks
<1>c. \A h \in Blocks : Leaf(h) \in RangeIds /\ (Present(vranges, Leaf(h)) => Present(vranges', Leaf(h)))
  BY ProofsStay, LeafIsRange
<1>1. CoveredMeansLeafProved'
  <2> SUFFICES ASSUME NEW h \in Blocks, NEW r \in RangeIds, Present(vranges', r), h \in Span(r)
               PROVE  Present(vranges', Leaf(h))
    BY DEF CoveredMeansLeafProved, Covered
  <2>1. CASE Present(vranges, r)
    BY <1>c, <2>1 DEF CoverSound, CoveredMeansLeafProved, Covered
  <2>2. CASE ~Present(vranges, r)
    <3>1. vranges' # vranges
      BY <2>2 DEF Present
    <3>2. PICK t \in Threads : SubmitCommit(t)
      BY <3>1, WhoWrites
    <3>3. r = req[t].rid /\ req[t].pc \in SubmitPCs
      BY <1>a, <2>2, <3>2 DEF SubmitCommit, Present, SubmitPCs
    <3>4. CASE r[1] # r[2]
      BY <1>c, <3>3, <3>4 DEF CoverSound
    <3>5. CASE r[1] = r[2]
      <4>1. Leaf(h) = r
        BY <3>5, BlocksAssumption DEF RangeIds, Leaf, Span, Blocks
      <4> QED
        BY <4>1
    <3> QED
      BY <3>4, <3>5
  <2> QED
    BY <2>1, <2>2
<1>2. ASSUME NEW t \in Threads, req'[t].pc \in SubmitPCs, req'[t].rid[1] # req'[t].rid[2],
             NEW h \in Span(req'[t].rid)
      PROVE  Present(vranges', Leaf(h))
  <2>0. req'[t].rid \in RangeIds
    BY LedgerNext DEF LedgerInv, TypeInv, TypeOK, Request
  <2>1. CASE req[t].pc \in SubmitPCs /\ req'[t].rid = req[t].rid
    BY <1>2, <1>b, <1>c, <2>0, <2>1 DEF CoverSound
  <2>2. CASE MayCover(req'[t].rid)
    <3>1. h \in Covered(vranges)
      BY <1>2, <1>b, <2>0, <2>2 DEF MayCover, TiledByVerified, Covered
    <3> QED
      BY <1>c, <3>1 DEF CoverSound, CoveredMeansLeafProved, Covered
  <2> QED
    BY <1>2, <2>1, <2>2, SubmitMoves
<1> QED
  BY <1>1, <1>2 DEF CoverSound

(* #281: a covered block has a proof of its own, although the tiling of a
   fold is checked long before the fold is committed, and by nobody after. *)
THEOREM CoverIsOwnProof == Spec => []CoveredMeansLeafProved
<1>1. Init => CoverSound
  BY DEF Init, CoverSound, CoveredMeansLeafProved, Covered, Present, NoProof, Idle, SubmitPCs
<1>2. LedgerInv /\ CoverSound /\ [Next]_vars => CoverSound'
  BY CoverNext
<1>3. CoverSound => CoveredMeansLeafProved
  BY DEF CoverSound
<1> QED
  BY <1>1, <1>2, <1>3, LedgerInvariant, PTL DEF Spec

(* The file is written only for a row that nobody has verified, and the lock
   is held from that check to the commit. *)
LEMMA FilesNext ==
  ASSUME ~DiskFaults, LedgerInv, FilesServed, [Next]_vars
  PROVE  FilesServed'
<1>a. /\ vranges \in [RangeIds -> Proof] /\ req \in [Threads -> Request]
      /\ files \in [RangeIds -> {"none", "main", "stale"}]
      /\ \A t \in Threads : req[t].rid \in RangeIds
      /\ LockSound /\ MainStaysVerified
  BY DEF LedgerInv, TypeInv, TypeOK, Request
<1>b. \A t, u \in Threads : req[t].pc \in Holding /\ req[u].pc \in Holding => t = u
  BY <1>a DEF LockSound
<1>1. ASSUME NEW t \in Threads, SubmitStamp(t) PROVE FilesServed'
  <2>1. /\ req[t].pc = "begin" /\ vranges' = vranges
        /\ files' = [files EXCEPT ![req[t].rid] = req[t].kind]
        /\ req' = [req EXCEPT ![t] = [req[t] EXCEPT !.pc = "commit", !.now = clock]]
    BY <1>1 DEF SubmitStamp, db
  <2>2. vranges[req[t].rid].kind # "main"
    BY <1>a, <2>1 DEF LockSound, MainStaysVerified
  <2>3. ServedProofIsMain'
    BY <1>a, <2>1, <2>2 DEF ServedProofIsMain, FilesServed
  <2>4. ASSUME NEW u \in Threads, req'[u].pc = "commit"
        PROVE  files'[req'[u].rid] = req'[u].kind
    <3>1. u = t
      BY <1>a, <1>b, <2>1, <2>4 DEF Holding
    <3>2. /\ [req[t] EXCEPT !.pc = "commit", !.now = clock].rid = req[t].rid
          /\ [req[t] EXCEPT !.pc = "commit", !.now = clock].kind = req[t].kind
      BY <1>a DEF Request
    <3> QED
      BY <1>a, <2>1, <3>1, <3>2
  <2> QED
    BY <2>3, <2>4 DEF FilesServed
<1>2. CASE ~\E t \in Threads : SubmitStamp(t)
  <2>1. files' = files
    BY <1>2, FilesWritten
  <2>2. ASSUME NEW t \in Threads, req'[t].pc = "commit"
        PROVE  files'[req'[t].rid] = req'[t].kind
    <3>1. req'[t] = req[t]
      BY <1>2, <2>2, SubmitMoves DEF SubmitPCs
    <3> QED
      BY <2>1, <2>2, <3>1 DEF FilesServed
  <2>3. ServedProofIsMain'
    <3>1. CASE vranges' = vranges
      BY <2>1, <3>1 DEF ServedProofIsMain, FilesServed
    <3>2. ASSUME NEW t \in Threads, SubmitCommit(t)
          PROVE  ServedProofIsMain'
      <4>1. /\ \A r \in RangeIds : r # req[t].rid => vranges'[r] = vranges[r]
            /\ vranges'[req[t].rid].kind = req[t].kind
            /\ files[req[t].rid] = req[t].kind
        BY <1>a, <3>2 DEF SubmitCommit, FilesServed
      <4> QED
        BY <2>1, <4>1 DEF ServedProofIsMain, FilesServed
    <3> QED
      BY <3>1, <3>2, WhoWrites
  <2> QED
    BY <2>2, <2>3 DEF FilesServed
<1> QED
  BY <1>1, <1>2

(* While the disk takes what it is given, the receipt served for a range of
   the followed chain is of that chain: an aborted or crashed submit leaves
   its file only where nothing is verified. *)
THEOREM ServedFromTheChain == Spec => [](~DiskFaults => ServedProofIsMain)
<1>1. Init => (~DiskFaults => FilesServed)
  BY DEF Init, FilesServed, ServedProofIsMain, NoProof, Idle
<1>2. LedgerInv /\ (~DiskFaults => FilesServed) /\ [Next]_vars => (~DiskFaults => FilesServed')
  <2> SUFFICES ASSUME LedgerInv, ~DiskFaults, FilesServed, [Next]_vars PROVE FilesServed'
    OBVIOUS
  <2> QED
    BY FilesNext
<1>3. (~DiskFaults => FilesServed) => (~DiskFaults => ServedProofIsMain)
  BY DEF FilesServed
<1>4. LedgerInv /\ (~DiskFaults => FilesServed) /\ [Next]_vars => (~DiskFaults => FilesServed)'
  BY <1>2
<1> QED
  BY <1>1, <1>3, <1>4, LedgerInvariant, PTL DEF Spec


-----------------------------------------------------------------------------
(* The board implements the ledger it promises (module Ledger).            *)

(* A request keeps the key it came with until it is answered. *)
LEMMA KeyMoves ==
  ASSUME LedgerInv, [Next]_vars, NEW t \in Threads, req'[t].pc # "idle"
  PROVE  (req[t].pc # "idle" /\ req'[t].key = req[t].key) \/ req'[t].key \in Keys
<1> DEFINE G == (req[t].pc # "idle" /\ req'[t].key = req[t].key) \/ req'[t].key \in Keys
<1>a. req \in [Threads -> Request] /\ req[t] \in Request
  BY DEF LedgerInv, TypeInv, TypeOK
<1>0. ASSUME req'[t] = req[t] PROVE G
  BY <1>0
<1>1. ASSUME NEW u \in Threads, NEW q, req' = [req EXCEPT ![u] = q],
             u = t => \/ q.pc = "idle"
                      \/ req[t].pc # "idle" /\ q.key = req[t].key
                      \/ q.key \in Keys
      PROVE  G
  BY <1>0, <1>1, <1>a
<1>2. ASSUME NEW u \in Threads, Answer(u) PROVE G
  BY <1>1, <1>2 DEF Answer, Idle
<1>3. ASSUME NEW u \in Threads, Start(u) PROVE G
  <2>1. ASSUME NEW k \in Keys, NEW nonce \in Nonces \cup {NoNonce}, NEW signed \in Signings,
               ClaimStart(u, k, nonce, signed)
        PROVE  G
    <3> DEFINE q == [Idle EXCEPT !.pc = "snap", !.key = k, !.now = clock, !.nonce = nonce, !.signed = signed]
    <3>1. q.key \in Keys
      BY DEF Idle
    <3>2. req' = [req EXCEPT ![u] = q]
      BY <2>1 DEF ClaimStart
    <3> HIDE DEF q
    <3> QED
      BY <1>1, <3>1, <3>2
  <2>2. ASSUME NEW k \in Keys, NEW r \in RangeIds, BeatStart(u, k, r)
        PROVE  G
    <3> DEFINE q == [Idle EXCEPT !.pc = "beat", !.key = k, !.rid = r, !.now = clock]
    <3>1. q.key \in Keys
      BY DEF Idle
    <3>2. req' = [req EXCEPT ![u] = q]
      BY <2>2 DEF BeatStart
    <3> HIDE DEF q
    <3> QED
      BY <1>1, <3>1, <3>2
  <2>3. ASSUME NEW k \in Keys, NEW r \in RangeIds, NEW kind \in Receipts, SubmitStart(u, k, r, kind)
        PROVE  G
    <3> DEFINE q == [Idle EXCEPT !.pc = "row", !.key = k, !.rid = r, !.kind = kind]
    <3>1. q.key \in Keys
      BY DEF Idle
    <3>2. req' = [req EXCEPT ![u] = q]
      BY <2>3 DEF SubmitStart
    <3> HIDE DEF q
    <3> QED
      BY <1>1, <3>1, <3>2
  <2> QED
    BY <1>3, <2>1, <2>2, <2>3 DEF Start
<1>4. ASSUME NEW u \in Threads, NEW q, req[u].pc # "idle", req' = [req EXCEPT ![u] = q], q.key = req[u].key
      PROVE  G
  BY <1>1, <1>4
<1>5. ASSUME NEW u \in Threads,
             SnapCached(u) \/ SnapLead(u) \/ SnapWait(u) \/ SnapWake(u) \/ BuildRead(u) \/ BuildStore(u)
      PROVE  G
  <2>0. req[u] \in Request /\ req[u].pc # "idle"
    <3>1. BuildRead(u) => req[u].pc # "idle"
      BY DEF BuildRead
    <3> QED
      BY <1>a, <1>5, <3>1 DEF SnapCached, SnapLead, SnapWait, SnapWake, BuildStore
  <2>1. ASSUME NEW a, NEW h, GotSnapshot(u, a, h)
        PROVE  G
    <3>1. [req[u] EXCEPT !.pc = "lock", !.taken = a, !.hi = h].key = req[u].key
      BY <2>0 DEF Request
    <3> QED
      BY <1>4, <2>0, <2>1, <3>1 DEF GotSnapshot
  <2>2. ASSUME req' = [req EXCEPT ![u] = [req[u] EXCEPT !.pc = "read", !.taken = clock]]
        PROVE  G
    <3>1. [req[u] EXCEPT !.pc = "read", !.taken = clock].key = req[u].key
      BY <2>0 DEF Request
    <3> QED
      BY <1>4, <2>0, <2>2, <3>1
  <2>3. CASE SnapWait(u)
    <3>1. [req[u] EXCEPT !.pc = "wait"].key = req[u].key
      BY <2>0 DEF Request
    <3> QED
      BY <1>4, <2>0, <2>3, <3>1 DEF SnapWait
  <2>4. CASE BuildRead(u)
    <3>1. PICK h \in 0..Tip : /\ IsFrontier(vranges, h)
                              /\ req' = [req EXCEPT ![u] = [@ EXCEPT !.pc = "store", !.hi = h]]
      BY <2>4, Zenon DEF BuildRead
    <3>2. [req[u] EXCEPT !.pc = "store", !.hi = h].key = req[u].key
      BY <2>0 DEF Request
    <3> QED
      BY <1>4, <2>0, <3>1, <3>2
  <2> QED
    BY <1>5, <2>1, <2>2, <2>3, <2>4 DEF SnapCached, SnapLead, SnapWake, BuildStore
<1>6. ASSUME NEW u \in Threads, NEW h, req[u].pc = "lock", Choose(u, h) PROVE G
  <2>1. [req[u] EXCEPT !.pc = "grant", !.rid = Leaf(h)].key = req[u].key
    BY <1>a DEF Request
  <2> QED
    BY <1>4, <1>6, <2>1 DEF Choose
<1>7. ASSUME NEW u \in Threads,
             SubmitRow(u) \/ SubmitHold(u) \/ SubmitCheck(u) \/ SubmitStamp(u)
      PROVE  G
  <2>0. req[u] \in Request /\ req[u].pc # "idle"
    BY <1>a, <1>7 DEF SubmitRow, SubmitHold, SubmitCheck, SubmitStamp
  <2>1. ASSUME NEW pc \in {"hold", "verify", "begin"}, req' = [req EXCEPT ![u] = [req[u] EXCEPT !.pc = pc]]
        PROVE  G
    <3>1. [req[u] EXCEPT !.pc = pc].key = req[u].key
      BY <2>0 DEF Request
    <3> QED
      BY <1>4, <2>0, <2>1, <3>1
  <2>2. CASE SubmitStamp(u)
    <3>1. [req[u] EXCEPT !.pc = "commit", !.now = clock].key = req[u].key
      BY <2>0 DEF Request
    <3> QED
      BY <1>4, <2>0, <2>2, <3>1 DEF SubmitStamp
  <2> QED
    BY <1>2, <1>7, <2>1, <2>2 DEF SubmitRow, SubmitHold, SubmitCheck
<1>8. CASE \E u \in Threads : Serve(u)
  BY <1>2, <1>5, <1>6, <1>7, <1>8
  DEF Serve, ClaimRetry, ClaimRefused, ClaimGrant, Beat, SubmitFailed, SubmitCommit, ClaimBlocker, ClaimLowest, EnterClaim
<1>9. CASE (\E r \in RangeIds : Unpark(r)) \/ Tick \/ UNCHANGED vars
  <2>1. (\E r \in RangeIds : Unpark(r)) => req' = req
    BY DEF Unpark
  <2>2. Tick \/ UNCHANGED vars => req' = req
    BY DEF Tick, vars
  <2> QED
    BY <1>0, <1>9, <2>1, <2>2
<1>10. CASE Crash
  BY <1>10 DEF Crash, Idle
<1> QED
  BY <1>2, <1>3, <1>8, <1>9, <1>10 DEF Next, Abort


(* Claims are made in somebody's name. *)
Keyed ==
  /\ \A t \in Threads : req[t].pc # "idle" => req[t].key \in Keys
  /\ \A r \in RangeIds : ranges[r].status = "claimed" => ranges[r].assignee \in Keys

LEMMA KeyedNext == LedgerInv /\ Keyed /\ [Next]_vars => Keyed'
<1> SUFFICES ASSUME LedgerInv, Keyed, [Next]_vars PROVE Keyed'
  OBVIOUS
<1>1. \A t \in Threads : req'[t].pc # "idle" => req'[t].key \in Keys
  BY KeyMoves DEF Keyed
<1>2. ASSUME NEW r \in RangeIds, ranges'[r].status = "claimed"
      PROVE  ranges'[r].assignee \in Keys
  <2>1. CASE \A t \in Threads : ~ClaimGrant(t)
    BY <1>2, <2>1, StepKeepsRows DEF RowKept, Keyed
  <2>2. ASSUME NEW t \in Threads, ClaimGrant(t)
        PROVE  ranges'[r].assignee \in Keys
    <3>1. req[t].key \in Keys /\ ranges \in [RangeIds -> Row]
      BY <2>2 DEF ClaimGrant, Keyed, LedgerInv, TypeInv, TypeOK
    <3> QED
      BY <1>2, <2>2, <3>1 DEF ClaimGrant, Keyed, NoRow
  <2> QED
    BY <2>1, <2>2
<1> QED
  BY <1>1, <1>2 DEF Keyed

(* What the refinement rests on. *)
PromiseInv == ClaimsInv /\ CoverSound /\ Keyed

LEMMA PromiseInit == Init => PromiseInv
<1> SUFFICES ASSUME Init PROVE PromiseInv
  OBVIOUS
<1>1. ClaimsInv
  BY ClaimsInit
<1>2. CoverSound
  BY DEF Init, CoverSound, CoveredMeansLeafProved, Covered, Present, NoProof, Idle, SubmitPCs
<1>3. Keyed
  BY DEF Init, Keyed, Idle, NoRow
<1> QED
  BY <1>1, <1>2, <1>3 DEF PromiseInv

LEMMA PromiseNext == PromiseInv /\ [Next]_vars => PromiseInv'
  BY ClaimsNext, CoverNext, KeyedNext DEF PromiseInv, ClaimsInv

(* A block's hold, as the abstract ledger sees it. *)
Hold == [h \in Blocks |-> HoldOf(ranges[Leaf(h)], clock)]

(* Steps that only let holds go, or change nothing the ledger shows. *)
LEMMA EndsHolds ==
  ASSUME UNCHANGED vranges,
         \A h \in Blocks : Hold'[h] = Hold[h] \/ Hold'[h] = NoHold
  PROVE  \E S \in SUBSET Blocks : L!End(S)
<1> DEFINE S == {h \in Blocks : Hold'[h] = NoHold}
<1>1. Hold' = [h \in Blocks |-> IF h \in S THEN NoHold ELSE Hold[h]]
  BY DEF Hold
<1> QED
  BY <1>1 DEF L!End, Hold

(* The rest of a step that takes a block: everybody else's hold stays. *)
LEMMA TakesHold ==
  ASSUME UNCHANGED vranges, NEW h \in Blocks, vranges[Leaf(h)].kind # "main",
         Hold[h] = NoHold, Hold'[h] \in Claims,
         \A g \in Blocks : g # h => Hold'[g] = Hold[g]
  PROVE  \E c \in Claims : L!Take(h, c)
<1>1. Hold' = [Hold EXCEPT ![h] = Hold'[h]]
  BY DEF Hold
<1>2. L!Take(h, Hold'[h])
  BY <1>1 DEF L!Take, Hold, SeamsForGood, Leaf
<1> QED
  BY <1>2

(* A commit proves: the row it finds unverified has no final proof, a fold's
   blocks have proofs of their own, and the block's hold ends with it. *)
LEMMA CommitProves ==
  ASSUME PromiseInv, NEW t \in Threads, SubmitCommit(t)
  PROVE  \E r \in RangeIds, p \in Proof \ {NoProof} : L!Prove(r, p)
<1> DEFINE r == req[t].rid
           p == [kind |-> req[t].kind, pubkey |-> req[t].key, ts |-> req[t].now]
<1>a. /\ LedgerInv /\ TypeInv /\ LockSound /\ MainStaysVerified /\ CoverSound
      /\ req[t] \in Request /\ vranges \in [RangeIds -> Proof] /\ ranges \in [RangeIds -> Row]
  BY DEF PromiseInv, ClaimsInv, LedgerInv, TypeInv, TypeOK
<1>b. r \in RangeIds /\ req[t].kind \in {"main", "stale"}
  BY <1>a DEF SubmitCommit, TypeInv, CommitVerified, Request
<1>1. p \in Proof \ {NoProof}
  BY <1>a, <1>b DEF Proof, NoProof, Request
<1>2. ~SeamsForGood(vranges[r])
  BY <1>a, <1>b DEF SubmitCommit, LockSound, MainStaysVerified, SeamsForGood
<1>3. r[1] # r[2] => \A h \in r[1]..r[2] : vranges[<<h, h>>] # NoProof
  <2>1. r[1] # r[2] => \A h \in Span(r) : Present(vranges, Leaf(h))
    BY <1>a DEF SubmitCommit, CoverSound, SubmitPCs
  <2>2. \A h : Present(vranges, Leaf(h)) => vranges[<<h, h>>] # NoProof
    BY DEF Present, Leaf, NoProof
  <2>3. Span(r) = r[1]..r[2]
    BY DEF Span
  <2> QED
    BY <2>1, <2>2, <2>3, Zenon
<1>4. vranges' = [vranges EXCEPT ![r] = p] /\ clock' = clock
  BY DEF SubmitCommit
<1>5. Hold' = [h \in Blocks |-> IF r = <<h, h>> THEN NoHold ELSE Hold[h]]
  <2>1. ASSUME NEW h \in Blocks
        PROVE  HoldOf(ranges'[Leaf(h)], clock') = IF r = <<h, h>> THEN NoHold ELSE HoldOf(ranges[Leaf(h)], clock)
    <3>1. Leaf(h) \in RangeIds
      BY LeafIsRange
    <3>2. CASE r = <<h, h>>
      <4>1. ranges'[Leaf(h)].status = "verified"
        BY <1>a, <1>b, <3>1, <3>2 DEF SubmitCommit, Leaf, Row
      <4> QED
        BY <3>2, <4>1 DEF HoldOf, LiveClaim
    <3>3. CASE r # <<h, h>>
      <4>1. ranges'[Leaf(h)] = ranges[Leaf(h)]
        BY <1>a, <1>b, <3>1, <3>3 DEF SubmitCommit, Leaf
      <4> QED
        BY <1>4, <3>3, <4>1
    <3> QED
      BY <3>2, <3>3
  <2> QED
    BY <2>1 DEF Hold
<1>6. L!Prove(r, p)
  BY <1>2, <1>3, <1>4, <1>5 DEF L!Prove, Hold
<1> QED
  BY <1>1, <1>b, <1>6

(* A grant takes a block nobody lives on and nobody has proved for good, or,
   when the request came too long ago, holds nothing. *)
LEMMA GrantTakes ==
  ASSUME PromiseInv, NEW t \in Threads, ClaimGrant(t)
  PROVE  (\E h \in Blocks, c \in Claims : L!Take(h, c)) \/ (\E S \in SUBSET Blocks : L!End(S))
<1> DEFINE r == req[t].rid
<1>a. /\ LedgerInv /\ LockSound /\ ClaimsSound /\ Keyed /\ req[t] \in Request /\ ranges \in [RangeIds -> Row]
  BY DEF PromiseInv, ClaimsInv, LedgerInv, TypeInv, TypeOK
<1>b. /\ r \in RangeIds /\ req[t].now \in Times /\ req[t].key \in Keys
      /\ vranges[r].kind # "main" /\ ~LiveClaim(ranges[r], clock)
      /\ UNCHANGED vranges /\ clock' = clock
  BY <1>a DEF ClaimGrant, Request, Keyed, LockSound, ClaimsSound, GrantSound
<1>c. /\ ranges'[r].assignee = req[t].key /\ ranges'[r].claimed_at = req[t].now
      /\ \A q \in RangeIds : q # r => ranges'[q] = ranges[q]
  BY <1>a, <1>b DEF ClaimGrant, NoRow
<1>d. \A g \in Blocks : Leaf(g) # r => Hold'[g] = Hold[g]
  BY <1>b, <1>c, LeafIsRange DEF Hold
<1>1. CASE \E h \in Blocks : r = Leaf(h) /\ Hold'[h] # NoHold
  <2>1. PICK h \in Blocks : r = Leaf(h) /\ Hold'[h] # NoHold
    BY <1>1
  <2>2. Hold[h] = NoHold
    BY <1>b, <2>1 DEF Hold, HoldOf
  <2>3. Hold'[h] \in Claims
    BY <1>b, <1>c, <2>1 DEF Hold, HoldOf, Claims
  <2>4. \A g \in Blocks : g # h => Hold'[g] = Hold[g]
    BY <1>d, <2>1 DEF Leaf
  <2> QED
    BY <1>b, <2>1, <2>2, <2>3, <2>4, TakesHold
<1>2. CASE \A h \in Blocks : r = Leaf(h) => Hold'[h] = NoHold
  BY <1>b, <1>d, <1>2, EndsHolds
<1> QED
  BY <1>1, <1>2


(* A beat revives a hold only on a block that is still claimed, and so has no
   final proof; nobody else's hold changes. *)
LEMMA BeatTakes ==
  ASSUME PromiseInv, [Next]_vars, NEW t \in Threads, Beat(t)
  PROVE  (\E h \in Blocks, c \in Claims : L!Take(h, c)) \/ (\E S \in SUBSET Blocks : L!End(S))
<1> DEFINE r == req[t].rid
<1>a. /\ LedgerInv /\ MainStaysVerified /\ Keyed /\ req[t] \in Request /\ ranges \in [RangeIds -> Row]
  BY DEF PromiseInv, ClaimsInv, LedgerInv, TypeInv, TypeOK
<1>b. r \in RangeIds /\ UNCHANGED vranges /\ clock' = clock
  BY <1>a DEF Beat, Request
<1>c. \A q \in RangeIds : q # r => ranges'[q] = ranges[q]
  BY <1>a, <1>b DEF Beat
<1>d. \A g \in Blocks : Leaf(g) # r => Hold'[g] = Hold[g]
  BY <1>b, <1>c, LeafIsRange DEF Hold
<1>e. /\ ranges'[r].assignee = ranges[r].assignee /\ ranges'[r].claimed_at = ranges[r].claimed_at
      /\ ranges'[r].status = ranges[r].status
  BY <1>a, <1>b DEF Beat, Row
<1>1. CASE \E h \in Blocks : r = Leaf(h) /\ Hold'[h] # NoHold /\ Hold[h] = NoHold
  <2>1. PICK h \in Blocks : r = Leaf(h) /\ Hold'[h] # NoHold /\ Hold[h] = NoHold
    BY <1>1
  <2>2. ranges[r].status = "claimed" /\ ranges[r] \in Row
    BY <1>a, <1>b, <1>e, <2>1 DEF Hold, HoldOf, LiveClaim
  <2>3. vranges[r].kind # "main"
    BY <1>a, <1>b, <2>2 DEF MainStaysVerified
  <2>4. ranges[r].assignee \in Keys
    BY <1>a, <1>b, <2>2 DEF Keyed
  <2>5. Hold'[h] \in Claims
    BY <1>e, <2>1, <2>2, <2>4 DEF Hold, HoldOf, Claims, Row
  <2>6. \A g \in Blocks : g # h => Hold'[g] = Hold[g]
    BY <1>d, <2>1 DEF Leaf
  <2> QED
    BY <1>b, <2>1, <2>3, <2>5, <2>6, TakesHold
<1>2. CASE \A h \in Blocks : r = Leaf(h) => Hold'[h] = NoHold \/ Hold[h] # NoHold
  <2>1. \A h \in Blocks : r = Leaf(h) => Hold'[h] = NoHold \/ Hold'[h] = Hold[h]
    BY <1>2, <1>e DEF Hold, HoldOf
  <2> QED
    BY <1>b, <1>d, <2>1, EndsHolds
<1> QED
  BY <1>1, <1>2

(* Everything else lets holds go at most: time ends them, a late failure
   parks a block, and rows are opened that nobody claims. *)
LEMMA OthersEnd ==
  ASSUME PromiseInv, [Next]_vars, UNCHANGED vranges, \A t \in Threads : ~ClaimGrant(t) /\ ~Beat(t)
  PROVE  \E S \in SUBSET Blocks : L!End(S)
<1>a. LedgerInv /\ ranges \in [RangeIds -> Row] /\ \A t \in Threads : req[t].rid \in RangeIds
  BY DEF PromiseInv, ClaimsInv, LedgerInv, TypeInv, TypeOK, Request
<1>b. clock \in Times /\ clock' \in Times /\ clock <= clock'
  BY <1>a, ClockMoves
<1>1. ASSUME NEW r \in RangeIds, ranges'[r].status = "claimed"
      PROVE  ranges'[r].last_beat = ranges[r].last_beat
  <2>1. \A t \in Threads : SubmitRow(t) => ranges'[r] = ranges[r]
    BY <1>a, <1>1 DEF SubmitRow, Row
  <2>2. ASSUME NEW t \in Threads, SubmitFailed(t) PROVE ranges'[r].last_beat = ranges[r].last_beat
    <3>1. ranges' = [ranges EXCEPT ![req[t].rid] = RecordFailure(ranges[req[t].rid], req[t].kind)]
      BY <2>2 DEF SubmitFailed
    <3>2. RecordFailure(ranges[r], req[t].kind).last_beat = ranges[r].last_beat
      BY <1>a DEF RecordFailure, Row
    <3> QED
      BY <1>a, <3>1, <3>2
  <2>3. \A t \in Threads : SubmitCommit(t) => ranges'[r] = ranges[r]
    BY <1>a, <1>1 DEF SubmitCommit, Row
  <2>4. \A q \in RangeIds : Unpark(q) => ranges'[r] = ranges[r]
    BY <1>a, <1>1 DEF Unpark, Row
  <2> QED
    BY <2>1, <2>2, <2>3, <2>4, WhoWrites
<1>2. ASSUME NEW h \in Blocks PROVE Hold'[h] = Hold[h] \/ Hold'[h] = NoHold
  <2> DEFINE r == Leaf(h)
  <2>1. r \in RangeIds /\ ranges[r] \in Row
    BY <1>a, LeafIsRange
  <2>2. CASE LiveClaim(ranges'[r], clock')
    <3>1. /\ ranges[r].status = "claimed" /\ ranges'[r].status = "claimed"
          /\ ranges'[r].assignee = ranges[r].assignee
          /\ ranges'[r].claimed_at = ranges[r].claimed_at /\ ranges'[r].last_beat = ranges[r].last_beat
      BY <1>a, <1>1, <2>1, <2>2, StepKeepsRows DEF RowKept, LiveClaim
    <3>2. LiveClaim(ranges[r], clock')
      BY <2>2, <3>1 DEF LiveClaim
    <3>3. LiveClaim(ranges[r], clock)
      BY <1>b, <2>1, <3>2, LivedBefore
    <3> QED
      BY <2>2, <3>1, <3>3 DEF Hold, HoldOf
  <2>3. CASE ~LiveClaim(ranges'[r], clock')
    BY <2>3 DEF Hold, HoldOf
  <2> QED
    BY <2>2, <2>3
<1> QED
  BY <1>2, EndsHolds

(* Every step of the board is a step of the ledger, or changes nothing it shows. *)
LEMMA StepKeepsPromise == PromiseInv /\ [Next]_vars => [L!Next]_L!vars
<1> SUFFICES ASSUME PromiseInv, [Next]_vars PROVE L!Next
  OBVIOUS
<1>1. CASE \E t \in Threads : SubmitCommit(t)
  BY <1>1, CommitProves DEF L!Next
<1>2. CASE \E t \in Threads : ClaimGrant(t)
  BY <1>2, GrantTakes DEF L!Next
<1>3. CASE \E t \in Threads : Beat(t)
  BY <1>3, BeatTakes DEF L!Next
<1>4. CASE \A t \in Threads : ~SubmitCommit(t) /\ ~ClaimGrant(t) /\ ~Beat(t)
  <2>1. UNCHANGED vranges
    BY <1>4, WhoWrites
  <2> QED
    BY <1>4, <2>1, OthersEnd DEF L!Next
<1> QED
  BY <1>1, <1>2, <1>3, <1>4

(* The board implements the ledger it promises, for every number of threads,
   keys and blocks: at any moment a block has one holder, nobody takes it from
   that holder or with a final proof, and a final proof is never replaced. *)
THEOREM BoardKeepsTheLedger == Spec => KeepsTheLedger
<1>1. Init => L!Init
  <2> SUFFICES ASSUME Init PROVE L!Init
    OBVIOUS
  <2>1. \A h \in Blocks : ranges[Leaf(h)].status # "claimed"
    BY LeafIsRange DEF Init, NoRow
  <2>2. Hold = [h \in Blocks |-> NoHold]
    BY <2>1 DEF Hold, HoldOf, LiveClaim
  <2> QED
    BY <2>2 DEF Init, L!Init, Hold
<1> QED
  BY <1>1, PromiseInit, PromiseNext, StepKeepsPromise, PTL DEF Spec, KeepsTheLedger, L!Spec

-----------------------------------------------------------------------------
(* Sponsors.                                                               *)

(* Everything the proofs about the board rest on. *)
BoardInv == ClaimsInv /\ CoverSound /\ (~DiskFaults => FilesServed)

Amount == [sats : {"none", "part", "full"}, settled : BOOLEAN]

Polled == [id : SponsorIds \cup {NoSponsorship}, now : Times,
           status : {"none", "invoiced", "expired", "underpaid"}, hold_until : Int,
           outcome : {"settled", "confirming", "open", "short", "nothing"}]

SType ==
  /\ requesting \in SponsorIds \cup {NoSponsorship}
  /\ expires \in [SponsorIds -> Nat]
  /\ paid \in [SponsorIds -> Amount]
  /\ poll \in Polled

PaidUp(s) == paid[s].sats = "full" /\ paid[s].settled

(* What the poller read of a payment is still so when it writes, and no row
   is an empty span, which would count as covered and never be ended. *)
SponsorSound ==
  /\ \A s \in SponsorIds : sponsors[s].lo <= sponsors[s].hi
  /\ poll.id # NoSponsorship /\ poll.outcome = "settled" => PaidUp(poll.id)
  /\ HoldEndsWhenProven
  /\ HoldIsPaidFor

SponsorInv == BoardInv /\ SType /\ SponsorSound

-----------------------------------------------------------------------------
(* The board under sponsorship steps.                                      *)

(* The steps that leave the board alone keep all that is known of it. *)
LEMMA BoardFrame ==
  ASSUME BoardInv, UNCHANGED <<clock, ranges, vranges, files, cache, busy, lock, req>>,
         sponsors' \in [SponsorIds -> Sponsor], skeys' \in [Keys -> SUBSET SponsorIds]
  PROVE  BoardInv'
<1>a. /\ ClaimsInv /\ LedgerInv /\ CoverSound
  BY DEF BoardInv, ClaimsInv
<1>1. TypeInv'
  BY <1>a DEF LedgerInv, TypeInv, TypeOK, CommitVerified
<1>2. SnapshotsSound'
  BY <1>a DEF LedgerInv, SnapshotsSound, SnapshotSound
<1>3. LockSound' /\ MainStaysVerified'
  BY <1>a DEF LedgerInv, LockSound, MainStaysVerified
<1>4. ClaimsSound'
  BY <1>a DEF ClaimsInv, ClaimsSound, GrantSound, RetryHoldsOneBlock, Present
<1>5. CoverSound'
  BY <1>a DEF CoverSound, CoveredMeansLeafProved, Covered, Present
<1>6. (~DiskFaults => FilesServed)'
  BY DEF BoardInv, FilesServed, ServedProofIsMain
<1> QED
  BY <1>1, <1>2, <1>3, <1>4, <1>5, <1>6 DEF BoardInv, ClaimsInv, LedgerInv

LEMMA BoardNext == BoardInv /\ [Next]_vars => BoardInv'
<1> SUFFICES ASSUME BoardInv, [Next]_vars PROVE BoardInv'
  OBVIOUS
<1>1. ClaimsInv'
  BY ClaimsNext DEF BoardInv
<1>2. CoverSound'
  BY CoverNext DEF BoardInv, ClaimsInv
<1>3. ASSUME ~DiskFaults PROVE FilesServed'
  BY <1>3, FilesNext DEF BoardInv, ClaimsInv
<1> QED
  BY <1>1, <1>2, <1>3 DEF BoardInv

LEMMA BoardInit == Init => BoardInv
<1> SUFFICES ASSUME Init PROVE BoardInv
  OBVIOUS
<1>1. LedgerInv
  BY LedgerInit
<1>2. \A r \in RangeIds : ranges[r].status \notin {"verified", "claimed"}
  BY DEF Init, NoRow
<1>3. ClaimsSound
  BY <1>2 DEF Init, ClaimsSound, RetryHoldsOneBlock, LiveClaim, Idle, ClaimPCs
<1>4. CoverSound
  BY DEF Init, CoverSound, CoveredMeansLeafProved, Covered, Present, NoProof, Idle, SubmitPCs
<1>5. FilesServed
  BY DEF Init, FilesServed, ServedProofIsMain, NoProof, Idle
<1> QED
  BY <1>1, <1>3, <1>4, <1>5 DEF BoardInv, ClaimsInv

(* Of the board's own steps only the commit of a proof moves a sponsorship. *)
LEMMA SponsorsWritten ==
  ASSUME [Next]_vars
  PROVE  sponsors' = sponsors \/ \E t \in Threads : SubmitCommit(t)
<1>1. ASSUME NEW t \in Threads, Start(t) PROVE sponsors' = sponsors
  <2>1. \A k, nonce, signed : ClaimStart(t, k, nonce, signed) => sponsors' = sponsors
    BY DEF ClaimStart, db
  <2>2. \A k, r : BeatStart(t, k, r) => sponsors' = sponsors
    BY DEF BeatStart, db
  <2>3. \A k, r, kind : SubmitStart(t, k, r, kind) => sponsors' = sponsors
    BY DEF SubmitStart, db
  <2> QED
    BY <1>1, <2>1, <2>2, <2>3 DEF Start
<1>2. ASSUME NEW t \in Threads
      PROVE  BuildRead(t) \/ SnapWake(t) \/ SnapCached(t) \/ SnapLead(t) \/ SnapWait(t) \/ BuildStore(t)
               => sponsors' = sponsors
  <2>1. BuildRead(t) => sponsors' = sponsors
    BY DEF BuildRead, db
  <2>2. SnapWake(t) => sponsors' = sponsors
    BY DEF SnapWake, db
  <2>3. SnapCached(t) \/ SnapLead(t) \/ SnapWait(t) \/ BuildStore(t) => sponsors' = sponsors
    BY DEF SnapCached, SnapLead, SnapWait, BuildStore, db
  <2> QED
    BY <2>1, <2>2, <2>3
<1>3. ASSUME NEW t \in Threads
      PROVE  ClaimRetry(t) \/ ClaimRefused(t) \/ ClaimBlocker(t) \/ ClaimLowest(t) \/ ClaimGrant(t) \/ Beat(t)
               => sponsors' = sponsors
  BY DEF ClaimRetry, ClaimRefused, ClaimBlocker, ClaimLowest, ClaimGrant, Beat, db
<1>4. ASSUME NEW t \in Threads
      PROVE  SubmitRow(t) \/ SubmitHold(t) \/ SubmitCheck(t) \/ SubmitFailed(t) \/ SubmitStamp(t) \/ Abort(t)
               => sponsors' = sponsors
  BY DEF SubmitRow, SubmitHold, SubmitCheck, SubmitFailed, SubmitStamp, Abort, db
<1>5. ASSUME NEW t \in Threads, Serve(t) PROVE sponsors' = sponsors \/ SubmitCommit(t)
  BY <1>2, <1>3, <1>4, <1>5 DEF Serve
<1>6. /\ \A r \in RangeIds : Unpark(r) => sponsors' = sponsors
      /\ Crash \/ UNCHANGED vars => sponsors' = sponsors
      /\ Tick => sponsors' = sponsors
  <2>1. \A r \in RangeIds : Unpark(r) => sponsors' = sponsors
    BY DEF Unpark
  <2>2. Crash \/ UNCHANGED vars => sponsors' = sponsors
    BY DEF Crash, vars, db
  <2>3. Tick => sponsors' = sponsors
    BY DEF Tick, db
  <2> QED
    BY <2>1, <2>2, <2>3
<1> QED
  BY <1>1, <1>4, <1>5, <1>6 DEF Next

-----------------------------------------------------------------------------
(* Holds.                                                                  *)

(* _sponsor_mark_proven ends exactly the holds it finds covered, and moves
   nothing else of a row. *)
LEMMA Marked ==
  ASSUME NEW S \in [SponsorIds -> Sponsor], NEW V, NEW r, NEW s \in SponsorIds
  PROVE  LET m == MarkProven(S, V, r)[s]
         IN  /\ m \in Sponsor /\ m.lo = S[s].lo /\ m.hi = S[s].hi
             /\ m.status \in {"paid", "proving"} =>
                  /\ m = S[s]
                  /\ Span(r) \cap (m.lo..m.hi) # {} => ~(m.lo..m.hi \subseteq Covered(V))
<1> DEFINE done == [S[s] EXCEPT !.status = "proven"]
           cond == /\ S[s].status \in {"paid", "proving"}
                   /\ Span(r) \cap (S[s].lo..S[s].hi) # {}
                   /\ S[s].lo..S[s].hi \subseteq Covered(V)
<1>1. done \in Sponsor /\ done.lo = S[s].lo /\ done.hi = S[s].hi /\ done.status = "proven"
  BY DEF Sponsor
<1>2. MarkProven(S, V, r)[s] = IF cond THEN done ELSE S[s]
  BY DEF MarkProven
<1>3. S[s] \in Sponsor
  OBVIOUS
<1> HIDE DEF done
<1> QED
  BY <1>1, <1>2, <1>3

LEMMA MarkedTyped ==
  ASSUME NEW S \in [SponsorIds -> Sponsor], NEW V, NEW r
  PROVE  MarkProven(S, V, r) \in [SponsorIds -> Sponsor]
<1>1. MarkProven(S, V, r) = [s \in SponsorIds |-> MarkProven(S, V, r)[s]]
  BY DEF MarkProven
<1>2. \A s \in SponsorIds : MarkProven(S, V, r)[s] \in Sponsor
  BY Marked
<1> QED
  BY <1>1, <1>2

(* A step that proves nothing and starts no hold disturbs no hold. *)
LEMMA HoldsFrame ==
  ASSUME HoldEndsWhenProven, HoldIsPaidFor, vranges' = vranges,
         \A s \in SponsorIds : PaidUp(s) => PaidUp(s)',
         \A s \in SponsorIds : sponsors'[s].status \in {"paid", "proving"} =>
           /\ sponsors[s].status \in {"paid", "proving"}
           /\ sponsors'[s].lo = sponsors[s].lo /\ sponsors'[s].hi = sponsors[s].hi
  PROVE  HoldEndsWhenProven' /\ HoldIsPaidFor'
  BY DEF HoldEndsWhenProven, HoldIsPaidFor, SponsorHolds, SponsorSpan, PaidUp, Covered, Present

(* A commit ends the holds it completes: the others keep an uncovered block. *)
LEMMA CommitEndsHolds ==
  ASSUME BoardInv, SponsorSound, NEW t \in Threads, SubmitCommit(t), paid' = paid
  PROVE  /\ \A s \in SponsorIds : sponsors'[s].lo <= sponsors'[s].hi
         /\ HoldEndsWhenProven' /\ HoldIsPaidFor'
<1>a. sponsors \in [SponsorIds -> Sponsor] /\ vranges \in [RangeIds -> Proof]
  BY DEF BoardInv, ClaimsInv, LedgerInv, TypeInv, TypeOK
<1>b. sponsors' = MarkProven(sponsors, vranges', req[t].rid)
  BY DEF SubmitCommit
<1>1. \A s \in SponsorIds :
        /\ sponsors'[s].lo = sponsors[s].lo /\ sponsors'[s].hi = sponsors[s].hi
        /\ sponsors'[s].status \in {"paid", "proving"} =>
             /\ sponsors'[s] = sponsors[s]
             /\ Span(req[t].rid) \cap SponsorSpan(s)' # {} => ~(SponsorSpan(s)' \subseteq Covered(vranges'))
  BY <1>a, <1>b, Marked DEF SponsorSpan
<1>2. \A h \in Covered(vranges') : h \in Covered(vranges) \/ h \in Span(req[t].rid)
  <2>1. \A r \in RangeIds : r # req[t].rid => vranges'[r] = vranges[r]
    BY <1>a DEF SubmitCommit
  <2> QED
    BY <2>1 DEF Covered, Present
<1>3. HoldIsPaidFor'
  BY <1>1 DEF HoldIsPaidFor, SponsorHolds, SponsorSound
<1>4. HoldEndsWhenProven'
  <2> SUFFICES ASSUME NEW s \in SponsorIds, sponsors'[s].status \in {"paid", "proving"},
                      SponsorSpan(s)' \subseteq Covered(vranges')
               PROVE  FALSE
    BY DEF HoldEndsWhenProven, SponsorHolds
  <2>1. sponsors'[s] = sponsors[s] /\ SponsorSpan(s)' = SponsorSpan(s)
    BY <1>1 DEF SponsorSpan
  <2>2. PICK h \in SponsorSpan(s) : h \notin Covered(vranges)
    BY <2>1 DEF SponsorSound, HoldEndsWhenProven, SponsorHolds
  <2>3. h \in Span(req[t].rid)
    BY <1>2, <2>1, <2>2
  <2> QED
    BY <1>1, <2>1, <2>2, <2>3
<1> QED
  BY <1>1, <1>3, <1>4 DEF SponsorSound

(* Steps of the board. *)
LEMMA BoardKeepsSponsors ==
  ASSUME SponsorInv, [Next]_vars, UNCHANGED <<expires, paid>>,
         UNCHANGED <<requesting, poll>> \/ (requesting' = NoSponsorship /\ poll' = NoPoll)
  PROVE  SponsorInv'
<1>a. BoardInv /\ SType /\ SponsorSound
  BY DEF SponsorInv
<1>1. BoardInv'
  BY <1>a, BoardNext
<1>2. SType'
  <2>1. NoPoll \in Polled
    BY Zeros DEF NoPoll, Polled, Never
  <2> QED
    BY <1>a, <2>1 DEF SType
<1>3. poll'.id # NoSponsorship /\ poll'.outcome = "settled" => PaidUp(poll.id)'
  BY <1>a DEF SponsorSound, PaidUp, NoPoll
<1>4. /\ \A s \in SponsorIds : sponsors'[s].lo <= sponsors'[s].hi
      /\ HoldEndsWhenProven' /\ HoldIsPaidFor'
  <2>1. CASE \E t \in Threads : SubmitCommit(t)
    BY <1>a, <2>1, CommitEndsHolds
  <2>2. CASE ~\E t \in Threads : SubmitCommit(t)
    <3>1. sponsors' = sponsors /\ vranges' = vranges
      BY <2>2, SponsorsWritten, WhoWrites
    <3>2. HoldEndsWhenProven' /\ HoldIsPaidFor'
      BY <1>a, <3>1, HoldsFrame DEF SponsorSound, PaidUp
    <3> QED
      BY <1>a, <3>1, <3>2 DEF SponsorSound
  <2> QED
    BY <2>1, <2>2
<1> QED
  BY <1>1, <1>2, <1>3, <1>4 DEF SponsorInv, SponsorSound

(* What a step of a sponsorship alone must show: it writes typed rows, keeps
   their spans, and starts no hold. *)
LEMMA RowStep ==
  ASSUME SponsorInv, UNCHANGED boardRest \/ UNCHANGED <<clock, ranges, vranges, files, cache, busy, lock, req>>,
         skeys' \in [Keys -> SUBSET SponsorIds],
         sponsors' \in [SponsorIds -> Sponsor], SType',
         \A s \in SponsorIds : sponsors'[s].lo <= sponsors'[s].hi,
         poll' = poll \/ poll' = NoPoll,
         \A s \in SponsorIds : PaidUp(s) => PaidUp(s)',
         \A s \in SponsorIds : sponsors'[s].status \in {"paid", "proving"} =>
           /\ sponsors[s].status \in {"paid", "proving"}
           /\ sponsors'[s].lo = sponsors[s].lo /\ sponsors'[s].hi = sponsors[s].hi
  PROVE  SponsorInv'
<1>a. BoardInv /\ SType /\ SponsorSound
  BY DEF SponsorInv
<1>b. UNCHANGED <<clock, ranges, vranges, files, cache, busy, lock, req>>
  BY DEF boardRest
<1>1. BoardInv'
  BY <1>a, <1>b, BoardFrame
<1>2. HoldEndsWhenProven' /\ HoldIsPaidFor'
  BY <1>a, <1>b, HoldsFrame DEF SponsorSound
<1>3. poll'.id # NoSponsorship /\ poll'.outcome = "settled" => PaidUp(poll.id)'
  BY <1>a DEF SponsorSound, NoPoll, SType, Polled
<1> QED
  BY <1>1, <1>2, <1>3 DEF SponsorInv, SponsorSound

LEMMA Typed ==
  SponsorInv => /\ sponsors \in [SponsorIds -> Sponsor] /\ skeys \in [Keys -> SUBSET SponsorIds]
                /\ clock \in Nat /\ vranges \in [RangeIds -> Proof] /\ SType /\ SponsorSound
                /\ 1 \in Blocks
  BY Zeros, TimeAssumption
  DEF SponsorInv, BoardInv, ClaimsInv, LedgerInv, TypeInv, TypeOK, Times

(* Asking: no row that a request writes is held. *)
LEMMA RequestsKeep ==
  ASSUME SponsorInv, NEW s \in SponsorIds,
         (\E r \in SponsorSpans : Request_(s, r)) \/ Invoice(s) \/ InvoiceFailed(s)
  PROVE  SponsorInv'
<1>a. /\ sponsors \in [SponsorIds -> Sponsor] /\ skeys \in [Keys -> SUBSET SponsorIds]
      /\ clock \in Nat /\ SType /\ SponsorSound /\ 1 \in Blocks
  BY Typed
<1>b. SPONSOR_INVOICE_MINUTES \in Nat /\ clock + SPONSOR_INVOICE_MINUTES \in Nat
  BY <1>a, SponsorAssumption
<1>1. ASSUME NEW row \in Sponsor, row.lo <= row.hi, row.status \notin {"paid", "proving"},
             sponsors' = [sponsors EXCEPT ![s] = row], UNCHANGED <<boardRest, paid, poll>>, SType'
      PROVE  SponsorInv'
  BY <1>a, <1>1, RowStep DEF SponsorSound, PaidUp, boardRest
<1>2. ASSUME NEW r \in SponsorSpans, Request_(s, r) PROVE SponsorInv'
  <2> DEFINE row == [lo |-> r[1], hi |-> r[2], status |-> "requested", hold_until |-> Never]
  <2>1. row \in Sponsor /\ row.lo <= row.hi /\ row.status = "requested"
    BY SponsorAssumption DEF Sponsor, Never
  <2>2. sponsors' = [sponsors EXCEPT ![s] = row] /\ UNCHANGED <<boardRest, paid, poll>>
    BY <1>2 DEF Request_
  <2>3. SType'
    BY <1>2, <1>a DEF Request_, SType
  <2> HIDE DEF row
  <2> QED
    BY <1>1, <2>1, <2>2, <2>3
<1>3. CASE Invoice(s)
  <2> DEFINE row == [sponsors[s] EXCEPT !.status = "invoiced", !.hold_until = clock + SPONSOR_INVOICE_MINUTES]
  <2>0. sponsors[s] \in Sponsor /\ sponsors[s].lo <= sponsors[s].hi
    BY <1>a DEF SponsorSound
  <2>1. row \in Sponsor /\ row.lo <= row.hi /\ row.status = "invoiced"
    <3>1. clock + SPONSOR_INVOICE_MINUTES \in Int
      BY <1>b
    <3>2. /\ row \in Sponsor /\ row.lo = sponsors[s].lo /\ row.hi = sponsors[s].hi
          /\ row.status = "invoiced"
      BY <2>0, <3>1 DEF Sponsor
    <3> QED
      BY <2>0, <3>2
  <2>2. sponsors' = [sponsors EXCEPT ![s] = row] /\ UNCHANGED <<boardRest, paid, poll>>
    BY <1>3 DEF Invoice
  <2>3. SType'
    BY <1>3, <1>a, <1>b DEF Invoice, SType
  <2> HIDE DEF row
  <2> QED
    BY <1>1, <2>1, <2>2, <2>3
<1>4. CASE InvoiceFailed(s)
  <2>1. NoSponsor \in Sponsor /\ NoSponsor.lo <= NoSponsor.hi /\ NoSponsor.status = "none"
    BY <1>a DEF NoSponsor, Sponsor, Never
  <2>2. sponsors' = [sponsors EXCEPT ![s] = NoSponsor] /\ UNCHANGED <<boardRest, paid, poll>>
    BY <1>4 DEF InvoiceFailed
  <2>3. SType'
    BY <1>4, <1>a DEF InvoiceFailed, SType
  <2> QED
    BY <1>1, <2>1, <2>2, <2>3
<1> QED
  BY <1>2, <1>3, <1>4

(* Paying: money that is all there and settled stays so. *)
LEMMA PaymentsKeep ==
  ASSUME SponsorInv, NEW s \in SponsorIds,
         (\E sats \in {"part", "full"} : Pay(s, sats)) \/ Settle(s)
  PROVE  SponsorInv'
<1>a. /\ sponsors \in [SponsorIds -> Sponsor] /\ skeys \in [Keys -> SUBSET SponsorIds]
      /\ SType /\ SponsorSound /\ paid \in [SponsorIds -> Amount]
  BY Typed DEF SType
<1>1. UNCHANGED <<boardRest, sponsors, requesting, expires, poll>>
  BY DEF Pay, Settle
<1>2. paid' \in [SponsorIds -> Amount]
  <2>1. CASE Settle(s)
    <3>1. [paid[s] EXCEPT !.settled = TRUE] \in Amount
      BY <1>a DEF Amount
    <3> QED
      BY <1>a, <2>1, <3>1 DEF Settle
  <2>2. ASSUME NEW sats \in {"part", "full"}, Pay(s, sats) PROVE paid' \in [SponsorIds -> Amount]
    <3>1. [sats |-> sats, settled |-> FALSE] \in Amount
      BY DEF Amount
    <3> QED
      BY <1>a, <2>2, <3>1 DEF Pay
  <2> QED
    BY <2>1, <2>2
<1>3. \A u \in SponsorIds : PaidUp(u) => PaidUp(u)'
  <2>1. \A u \in SponsorIds : u # s => paid'[u] = paid[u]
    BY <1>a DEF Pay, Settle
  <2>2. ~PaidUp(s)
    BY DEF Pay, Settle, PaidUp
  <2> QED
    BY <2>1, <2>2 DEF PaidUp
<1>4. SType'
  BY <1>1, <1>2, <1>a DEF SType
<1> QED
  BY <1>a, <1>1, <1>3, <1>4, RowStep DEF SponsorSound, boardRest

(* Reading a payment: it is settled now. *)
LEMMA PollReadKeeps ==
  ASSUME SponsorInv, NEW s \in SponsorIds, PollRead(s)
  PROVE  SponsorInv'
<1>a. /\ sponsors \in [SponsorIds -> Sponsor] /\ skeys \in [Keys -> SUBSET SponsorIds]
      /\ SType /\ SponsorSound /\ clock \in Times /\ BoardInv
  BY Typed DEF SponsorInv, BoardInv, ClaimsInv, LedgerInv, TypeInv, TypeOK
<1>1. UNCHANGED <<boardRest, sponsors, requesting, expires, paid>>
  BY DEF PollRead
<1>2. /\ InvoiceOutcome(s) \in {"settled", "confirming", "open", "short", "nothing"}
      /\ InvoiceOutcome(s) = "settled" => PaidUp(s)
  BY DEF InvoiceOutcome, PaidUp
<1>3. /\ poll' \in Polled
      /\ poll'.id = s /\ poll'.outcome = InvoiceOutcome(s)
  <2>1. sponsors[s].hold_until \in Int /\ sponsors[s].status \in {"invoiced", "expired", "underpaid"}
    BY <1>a DEF Sponsor, PollRead
  <2> QED
    BY <1>a, <1>2, <2>1 DEF PollRead, Polled
<1>4. SType'
  BY <1>a, <1>1, <1>3 DEF SType
<1>5. HoldEndsWhenProven' /\ HoldIsPaidFor'
  BY <1>a, <1>1, HoldsFrame DEF SponsorSound, boardRest, PaidUp
<1>6. BoardInv'
  BY <1>a, <1>1, BoardFrame DEF boardRest
<1>7. SponsorSound'
  BY <1>a, <1>1, <1>2, <1>3, <1>5 DEF SponsorSound, PaidUp
<1> QED
  BY <1>4, <1>6, <1>7 DEF SponsorInv

(* Writing what was read: a hold starts only for a payment that was settled
   when it was read, and so still is; and only if the span is not covered by
   now, whatever was proven in between. *)
LEMMA PollWriteKeeps ==
  ASSUME SponsorInv, PollWrite
  PROVE  SponsorInv'
<1>a. /\ sponsors \in [SponsorIds -> Sponsor] /\ skeys \in [Keys -> SUBSET SponsorIds]
      /\ SType /\ SponsorSound /\ poll \in Polled
  BY Typed DEF SType
<1> DEFINE s == poll.id
           held == IF poll.hold_until > poll.now + SPONSOR_CONFIRMING_HOLD
                     THEN poll.hold_until ELSE poll.now + SPONSOR_CONFIRMING_HOLD
           hold == IF poll.outcome = "confirming" /\ poll.status = "invoiced" THEN held ELSE sponsors[s].hold_until
           row == [sponsors[s] EXCEPT !.status = PolledStatus, !.hold_until = hold]
           S == [sponsors EXCEPT ![s] = row]
<1>b. /\ s \in SponsorIds /\ UNCHANGED <<boardRest, requesting, expires, paid>> /\ poll' = NoPoll
      /\ sponsors' = IF StillAsRead(s) THEN Settled(s, row) ELSE sponsors
  BY <1>a DEF PollWrite, Polled
<1>c. hold \in Int
  BY <1>a, <1>b, SponsorAssumption DEF Polled, Times, Sponsor
<1>d. /\ PolledStatus \in {"paid", "underpaid", "expired", "none", "invoiced"}
      /\ PolledStatus = "paid" => poll.outcome = "settled"
  BY <1>a DEF PolledStatus, Polled
<1> HIDE DEF hold
<1>1. /\ row \in Sponsor /\ row.lo = sponsors[s].lo /\ row.hi = sponsors[s].hi /\ row.status = PolledStatus
  BY <1>a, <1>b, <1>c, <1>d DEF Sponsor
<1> HIDE DEF row
<1>2. /\ S \in [SponsorIds -> Sponsor] /\ S[s] = row /\ \A u \in SponsorIds : u # s => S[u] = sponsors[u]
  BY <1>a, <1>b, <1>1
<1> HIDE DEF S, s
<1>3. sponsors' = sponsors \/ sponsors' = S \/ (row.status = "paid" /\ sponsors' = MarkProven(S, vranges, <<row.lo, row.hi>>))
  BY <1>b DEF Settled, S
<1>e. SType'
  <2>1. NoPoll \in Polled
    BY Zeros DEF NoPoll, Polled, Never
  <2> QED
    BY <1>a, <1>b, <2>1 DEF SType
<1>4. sponsors' \in [SponsorIds -> Sponsor] /\ \A u \in SponsorIds : sponsors'[u].lo <= sponsors'[u].hi
  BY <1>a, <1>1, <1>2, <1>3, Marked, MarkedTyped DEF SponsorSound
<1>5. BoardInv'
  BY <1>a, <1>b, <1>4, BoardFrame DEF boardRest, SponsorInv
<1>6. HoldIsPaidFor'
  <2> SUFFICES ASSUME NEW u \in SponsorIds, sponsors'[u].status \in {"paid", "proving"}
               PROVE  PaidUp(u)
    BY <1>b DEF HoldIsPaidFor, SponsorHolds, PaidUp
  <2>1. sponsors'[u] = sponsors[u] \/ sponsors'[u] = S[u]
    BY <1>2, <1>3, Marked
  <2>2. CASE sponsors'[u] = sponsors[u]
    BY <1>a, <2>2 DEF SponsorSound, HoldIsPaidFor, SponsorHolds, PaidUp
  <2>3. CASE u = s /\ sponsors'[u] = row
    <3>1. poll.outcome = "settled" /\ poll.id = u /\ u # NoSponsorship
      BY <1>1, <1>d, <2>3, SponsorAssumption DEF s
    <3> QED
      BY <1>a, <3>1 DEF SponsorSound
  <2> QED
    BY <1>2, <2>1, <2>2, <2>3
<1>7. HoldEndsWhenProven'
  <2> SUFFICES ASSUME NEW u \in SponsorIds, sponsors'[u].status \in {"paid", "proving"},
                      sponsors'[u].lo..sponsors'[u].hi \subseteq Covered(vranges)
               PROVE  FALSE
    BY <1>b DEF HoldEndsWhenProven, SponsorHolds, SponsorSpan, boardRest, Covered, Present
  <2>1. sponsors'[u] = sponsors[u] \/ sponsors'[u] = S[u]
    BY <1>2, <1>3, Marked
  <2>2. sponsors'[u] # sponsors[u]
    BY <1>a DEF SponsorSound, HoldEndsWhenProven, SponsorHolds, SponsorSpan
  <2>3. u = s /\ sponsors'[u] = row
    BY <1>2, <2>1, <2>2
  <2>4. row.status = "paid"
    BY <1>1, <1>d, <2>3
  <2>5. CASE sponsors' = MarkProven(S, vranges, <<row.lo, row.hi>>)
    <3>1. Span(<<row.lo, row.hi>>) \cap (row.lo..row.hi) = {}
      BY <1>2, <2>3, <2>5, Marked
    <3>2. row.lo <= row.hi /\ row.lo \in Int /\ row.hi \in Int
      BY <1>a, <1>1, <1>b, Zeros DEF SponsorSound, Sponsor, Blocks
    <3> QED
      BY <3>1, <3>2 DEF Span
  <2>6. StillAsRead(s) => sponsors' = MarkProven(S, vranges, <<row.lo, row.hi>>)
    BY <1>b, <2>4 DEF Settled, S
  <2> QED
    BY <1>b, <2>2, <2>5, <2>6
<1>8. poll'.id = NoSponsorship
  BY <1>b DEF NoPoll
<1> QED
  BY <1>4, <1>5, <1>6, <1>7, <1>8, <1>e DEF SponsorInv, SponsorSound

(* The bot's calls: a hold only goes on or ends. *)
LEMMA BotKeeps ==
  ASSUME SponsorInv,
         \/ BotReconcile
         \/ \E s \in SponsorIds : BotProving(s) \/ \E k \in Keys : RegisterKey(k, s)
  PROVE  SponsorInv'
<1>a. /\ sponsors \in [SponsorIds -> Sponsor] /\ skeys \in [Keys -> SUBSET SponsorIds]
      /\ SType /\ SponsorSound
  BY Typed
<1>1. CASE BotReconcile
  <2>1. UNCHANGED <<boardRest, svars>> /\ sponsors' = MarkProven(sponsors, vranges, <<1, Tip>>)
    BY <1>1 DEF BotReconcile
  <2>2. SType'
    BY <1>a, <2>1 DEF SType, svars
  <2>3. sponsors' \in [SponsorIds -> Sponsor]
    BY <1>a, <2>1, MarkedTyped
  <2>4. \A s \in SponsorIds : /\ sponsors'[s].lo = sponsors[s].lo /\ sponsors'[s].hi = sponsors[s].hi
                              /\ sponsors'[s].status \in {"paid", "proving"} => sponsors'[s] = sponsors[s]
    BY <1>a, <2>1, Marked
  <2> QED
    BY <1>a, <2>1, <2>2, <2>3, <2>4, RowStep DEF SponsorSound, boardRest, svars, PaidUp
<1>2. ASSUME NEW s \in SponsorIds, BotProving(s) PROVE SponsorInv'
  <2> DEFINE row == [sponsors[s] EXCEPT !.status = "proving"]
  <2>1. row \in Sponsor /\ row.lo = sponsors[s].lo /\ row.hi = sponsors[s].hi
    BY <1>a DEF Sponsor
  <2>2. /\ UNCHANGED <<boardRest, svars>> /\ sponsors' = [sponsors EXCEPT ![s] = row]
        /\ sponsors[s].status = "paid"
    BY <1>2 DEF BotProving
  <2>3. SType'
    BY <1>a, <2>2 DEF SType, svars
  <2> HIDE DEF row
  <2> QED
    BY <1>a, <2>1, <2>2, <2>3, RowStep DEF SponsorSound, boardRest, svars, PaidUp
<1>3. ASSUME NEW s \in SponsorIds, NEW k \in Keys, RegisterKey(k, s) PROVE SponsorInv'
  <2>1. /\ UNCHANGED <<clock, ranges, vranges, files, sponsors, cache, busy, lock, req, svars>>
        /\ skeys' \in [Keys -> SUBSET SponsorIds]
    BY <1>3, <1>a DEF RegisterKey
  <2>2. SType'
    BY <1>a, <2>1 DEF SType, svars
  <2> QED
    BY <1>a, <2>1, <2>2, RowStep DEF SponsorSound, svars, PaidUp
<1> QED
  BY <1>1, <1>2, <1>3

-----------------------------------------------------------------------------
LEMMA SponsorNext == SponsorInv /\ [SNext]_<<vars, svars>> => SponsorInv'
<1> SUFFICES ASSUME SponsorInv, [SNext]_<<vars, svars>> PROVE SponsorInv'
  OBVIOUS
<1>1. CASE BoardStep
  BY <1>1, BoardKeepsSponsors DEF BoardStep, Next, svars
<1>2. CASE SCrash
  BY <1>2, BoardKeepsSponsors DEF SCrash, Next
<1>3. CASE UNCHANGED <<vars, svars>>
  BY <1>3, BoardKeepsSponsors DEF svars
<1> QED
  BY <1>1, <1>2, <1>3, RequestsKeep, PaymentsKeep, PollReadKeeps, PollWriteKeeps, BotKeeps DEF SNext

LEMMA SponsorInvariant == SSpec => []SponsorInv
<1>1. SInit => SponsorInv
  <2> SUFFICES ASSUME SInit PROVE SponsorInv
    OBVIOUS
  <2>1. BoardInv
    BY BoardInit DEF SInit
  <2>2. SType
    <3>1. NoPoll \in Polled
      BY Zeros DEF NoPoll, Polled, Never
    <3>2. [sats |-> "none", settled |-> FALSE] \in Amount
      BY DEF Amount
    <3> QED
      BY <3>1, <3>2 DEF SInit, SType
  <2>3. \A s \in SponsorIds : sponsors[s].status = "none" /\ sponsors[s].lo = 1 /\ sponsors[s].hi = 1
    BY DEF SInit, Init, NoSponsor
  <2>4. SponsorSound
    BY <2>3 DEF SInit, SponsorSound, HoldEndsWhenProven, HoldIsPaidFor, SponsorHolds, NoPoll
  <2> QED
    BY <2>1, <2>2, <2>4 DEF SponsorInv
<1> QED
  BY <1>1, SponsorNext, PTL DEF SSpec

(* A hold is money that has settled in full: the poller writes "paid" on an
   answer it read earlier, and such an answer cannot become untrue. *)
THEOREM HoldsArePaidFor == SSpec => []HoldIsPaidFor
<1>1. SponsorInv => HoldIsPaidFor
  BY DEF SponsorInv, SponsorSound
<1> QED
  BY <1>1, SponsorInvariant, PTL

(* No hold outlives the proof of its span, though the last proof, the
   payment and the reconciliation come in any order. *)
THEOREM HoldsEnd == SSpec => []HoldEndsWhenProven
<1>1. SponsorInv => HoldEndsWhenProven
  BY DEF SponsorInv, SponsorSound
<1> QED
  BY <1>1, SponsorInvariant, PTL

(* The sponsorship writers, which share the tables without sharing the
   server's lock, break none of the board's own invariants. *)
THEOREM BoardKeptUnderSponsors ==
  SSpec => [](MainStaysVerified /\ CoveredMeansLeafProved /\ RetryHoldsOneBlock)
<1>1. SponsorInv => MainStaysVerified /\ CoveredMeansLeafProved /\ RetryHoldsOneBlock
  BY DEF SponsorInv, BoardInv, ClaimsInv, LedgerInv, ClaimsSound, CoverSound
<1> QED
  BY <1>1, SponsorInvariant, PTL

=============================================================================
