------------------------------- MODULE Board -------------------------------
(***************************************************************************)
(* The coordinator's ledger (coordinator/server.py): the tables `ranges`   *)
(* and `vranges`, the proof files beside them, and the request threads     *)
(* that claim a block, keep a claim alive and submit a proof.              *)
(*                                                                         *)
(* The server runs one thread per request. A handler is cut into actions   *)
(* where the code lets another thread in: claim() reads the clock and the  *)
(* cached frontier BEFORE it takes `_lock`; submit() takes and drops       *)
(* `_lock` three times before it verifies, and once more to commit. A      *)
(* critical section that checks the tables and then writes them is cut     *)
(* where its SQLite transaction begins, because not everybody takes        *)
(* `_lock` (sponsorships, the un-park script), and the commit of a submit  *)
(* once more, between the timestamp it takes and the moment the database   *)
(* shows it. The variable `lock` says who is inside such a section.        *)
(*                                                                         *)
(* A range is the pair <<lo, hi>>. A receipt is known by its kind:         *)
(*   "main"  verifies, and proves the range on the chain the board follows *)
(*   "stale" verifies, but against a predecessor state that is not on that *)
(*           chain (a fork, or an old bundle after a reorg)                *)
(*   "bad"   does not verify, and the note blames the block                *)
(*   "env"   does not verify, and the note blames the box (out of memory)  *)
(***************************************************************************)
EXTENDS Integers, FiniteSets

CONSTANTS
  Keys,              \* contributor public keys
  NoKey,             \* the NULL assignee
  Threads,           \* request threads of the server
  NoThread,          \* nobody: a free lock, no refresh under way
  Nonces,            \* claim nonces
  NoNonce,           \* a claim sent without one
  Signings,          \* {TRUE}, {FALSE} or both: the claims that are sent signed
  Tip,               \* highest block of the chain
  Witness,           \* blocks whose witness or bundle can be served
  WideRanges,        \* the ranges wider than one block that are ever submitted
  Seeded,            \* those of them init_db seeds as 'open' rows
  Receipts,          \* the kinds of receipt that are ever submitted
  DiskFaults,        \* TRUE: writing a proof file may fail (the error is swallowed)
  CLAIM_TTL, CLAIM_GRACE, CLAIM_MAX, CLAIM_OPEN_MAX, CLAIM_RETAKE_WAIT,
  MAX_ATTEMPTS,
  FRONTIER_TTL, FRONTIER_SETTLE,
  COMMIT_MAX,        \* longest time from stamping vranges.ts to the commit that shows it
  SponsorIds,        \* rows the sponsorships table may get
  MaxTime            \* bound: the clock stops here

Blocks == 1..Tip

Leaf(h) == <<h, h>>

RangeIds == {Leaf(h) : h \in Blocks} \cup WideRanges

Span(r) == r[1]..r[2]

Times == 0..MaxTime

(* NULL in the columns last_beat and hold_until. *)
Never == -1

ASSUME BlocksAssumption ==
  /\ Tip \in Nat \ {0}
  /\ WideRanges \subseteq {r \in Blocks \X Blocks : r[1] < r[2]}
  /\ Seeded \subseteq WideRanges
  /\ Witness \subseteq Blocks
ASSUME TimeAssumption ==
  /\ MaxTime \in Nat
  /\ {CLAIM_TTL, CLAIM_GRACE, CLAIM_MAX, CLAIM_RETAKE_WAIT, FRONTIER_TTL,
      FRONTIER_SETTLE, COMMIT_MAX, CLAIM_OPEN_MAX} \subseteq Nat
  /\ CLAIM_GRACE <= CLAIM_TTL /\ CLAIM_TTL <= CLAIM_MAX
  /\ MAX_ATTEMPTS \in Nat \ {0}
(* "The slack also covers a submit that stamps vranges.ts a moment before
   it commits": the one thing the settle time is trusted for. *)
ASSUME SettleAssumption == COMMIT_MAX < FRONTIER_SETTLE
ASSUME NameAssumption ==
  /\ NoKey \notin Keys /\ NoThread \notin Threads /\ NoNonce \notin Nonces
  /\ Signings \subseteq BOOLEAN /\ DiskFaults \in BOOLEAN
  /\ Receipts \subseteq {"main", "stale", "bad", "env"}

VARIABLES
  clock,     \* time.time(), in ticks
  ranges,    \* table ranges: who claims what, and how far it got
  vranges,   \* table vranges: the verified proofs
  files,     \* PROOFS_DIR: the receipt served for each range
  sponsors,  \* table sponsorships
  skeys,     \* table sponsor_keys
  cache,     \* _sf["frontier_chain"]: the cached frontier snapshot
  busy,      \* _sf["frontier_chain:busy"]: the thread refreshing it
  lock,      \* _lock: the thread that is between its check and its write
  req        \* the request each thread is serving

db == <<ranges, vranges, sponsors, skeys>>
vars == <<clock, ranges, vranges, files, sponsors, skeys, cache, busy, lock, req>>

Kinds == {"main", "stale", "bad", "env"}

NoRow == [status |-> "none", assignee |-> NoKey, claimed_at |-> 0, last_beat |-> Never,
          nonce |-> NoNonce, signed |-> FALSE, attempts |-> 0]

Row == [status : {"none", "open", "claimed", "verified", "failed"},
        assignee : Keys \cup {NoKey}, claimed_at : Times, last_beat : Times \cup {Never},
        nonce : Nonces \cup {NoNonce}, signed : BOOLEAN, attempts : 0..MAX_ATTEMPTS]

NoProof == [kind |-> "none", pubkey |-> NoKey, ts |-> 0]

Proof == [kind : {"none", "main", "stale"}, pubkey : Keys \cup {NoKey}, ts : Times]

NoSponsor == [lo |-> 1, hi |-> 1, status |-> "none", hold_until |-> Never]

Sponsor == [lo : Blocks, hi : Blocks,
            status : {"none", "requested", "invoiced", "expired", "underpaid", "paid", "proving", "proven"},
            hold_until : Int]

NoSnapshot == [valid |-> FALSE, t |-> 0, taken |-> 0, hi |-> 0]

Snapshot == [valid : BOOLEAN, t : Times, taken : Times, hi : 0..Tip]

Idle == [pc |-> "idle", key |-> NoKey, rid |-> Leaf(1), kind |-> "bad", now |-> 0,
         taken |-> 0, hi |-> 0, nonce |-> NoNonce, signed |-> FALSE]

ClaimPCs  == {"snap", "wait", "read", "store", "lock", "grant"}
SubmitPCs == {"row", "hold", "verify", "begin", "commit"}

Request == [pc : {"idle", "beat"} \cup ClaimPCs \cup SubmitPCs,
            key : Keys \cup {NoKey}, rid : RangeIds, kind : Kinds, now : Times, taken : Times,
            hi : 0..Tip, nonce : Nonces \cup {NoNonce}, signed : BOOLEAN]

Init ==
  /\ clock = 0
  /\ ranges = [r \in RangeIds |-> IF r \in Seeded THEN [NoRow EXCEPT !.status = "open"] ELSE NoRow]
  /\ vranges = [r \in RangeIds |-> NoProof]
  /\ files = [r \in RangeIds |-> "none"]
  /\ sponsors = [s \in SponsorIds |-> NoSponsor]
  /\ skeys = [k \in Keys |-> {}]
  /\ cache = NoSnapshot
  /\ busy = NoThread
  /\ lock = NoThread
  /\ req = [t \in Threads |-> Idle]

-----------------------------------------------------------------------------
(* What the tables say.                                                    *)

Present(V, r) == V[r].kind # "none"

Covered(V) == {h \in Blocks : \E r \in RangeIds : Present(V, r) /\ h \in Span(r)}

(* LIVE_CLAIM_SQL *)
LiveClaim(row, now) ==
  /\ row.status = "claimed"
  /\ (IF row.last_beat = Never THEN row.claimed_at ELSE row.last_beat) > now - CLAIM_TTL
  /\ row.claimed_at > now - CLAIM_MAX
  /\ row.last_beat # Never \/ row.claimed_at > now - CLAIM_GRACE

SponsorHolds == {s \in SponsorIds : sponsors[s].status \in {"paid", "proving"}}

SponsorPending(now) ==
  {s \in SponsorIds : sponsors[s].status = "invoiced" /\ sponsors[s].hold_until > now}

SponsorSpan(s) == sponsors[s].lo..sponsors[s].hi

(* Fault: liveness measured from the claim only, as before heartbeats. *)
HeldSinceClaim(now) ==
  {h \in Blocks : \E r \in RangeIds : r[1] = h /\ ranges[r].status = "claimed"
                                       /\ ranges[r].claimed_at > now - CLAIM_TTL}

(* coverage_and_held: live claims, paid sponsorships and open invoices. *)
HeldAt(now) ==
  {h \in Blocks : \/ \E r \in RangeIds : r[1] = h /\ LiveClaim(ranges[r], now)
                  \/ \E s \in SponsorHolds \cup SponsorPending(now) : h \in SponsorSpan(s)}

(* The blocks a key's own never-beaten claims let lapse, kept from that key. *)
RetakeHeld(k, signed, now) ==
  {h \in Blocks : \E r \in RangeIds :
     /\ r[1] = h /\ ranges[r].assignee = k /\ ranges[r].signed = signed
     /\ ranges[r].status = "claimed" /\ ranges[r].last_beat = Never
     /\ ranges[r].claimed_at > now - CLAIM_RETAKE_WAIT}

(* _hold_refusal: [lo..hi] would newly prove a block held for a sponsorship
   the key is not registered for. *)
HoldRefusal(r, k) ==
  \E s \in SponsorHolds :
    /\ \E h \in Span(r) \cap SponsorSpan(s) : h \notin Covered(vranges)
    /\ s \notin skeys[k]

(* _sponsor_mark_proven: a held sponsorship touching r whose whole span V covers. *)
MarkProven(S, V, r) ==
  [s \in SponsorIds |->
     IF /\ S[s].status \in {"paid", "proving"}
        /\ Span(r) \cap (S[s].lo..S[s].hi) # {}
        /\ S[s].lo..S[s].hi \subseteq Covered(V)
       THEN [S[s] EXCEPT !.status = "proven"] ELSE S[s]]

(* Fault: sharing a block with a verified range is taken for being a fold. *)
TouchesVerified(r) == \E q \in RangeIds : Present(vranges, q) /\ Span(q) \cap Span(r) # {}

(* _tiled_by_verified: verified ranges inside r tile it, leaving no gap. *)
TiledByVerified(r) ==
  \A h \in Span(r) : \E q \in RangeIds : Present(vranges, q) /\ h \in Span(q) /\ Span(q) \subseteq Span(r)

(* _frontier_chain: h ends a chain of proofs that starts at block 1, each
   seaming onto the one before. Only proofs of the followed chain seam. *)
Reaches(V, h) ==
  \/ h = 0
  \/ \E C \in SUBSET {r \in RangeIds : V[r].kind = "main"} :
       /\ \E r \in C : r[2] = h
       /\ \A r \in C : r[1] = 1 \/ \E p \in C : p[2] + 1 = r[1]

IsFrontier(V, h) == Reaches(V, h) /\ \A g \in 0..Tip : Reaches(V, g) => g <= h

-----------------------------------------------------------------------------
(* The frontier snapshot: _single_flight around _frontier_chain.           *)

GotSnapshot(t, taken, hi) ==
  req' = [req EXCEPT ![t] = [@ EXCEPT !.pc = "lock", !.taken = taken, !.hi = hi]]

CacheFresh == cache.valid /\ clock - cache.t < FRONTIER_TTL

(* A fresh entry, or a stale one while another thread refreshes it. *)
SnapCached(t) ==
  /\ req[t].pc = "snap"
  /\ CacheFresh \/ (cache.valid /\ busy # NoThread)
  /\ GotSnapshot(t, cache.taken, cache.hi)
  /\ UNCHANGED <<clock, db, files, cache, busy, lock>>

(* The thread that finds it stale or missing, and nobody on it, rebuilds it. *)
SnapLead(t) ==
  /\ req[t].pc = "snap"
  /\ ~CacheFresh /\ busy = NoThread
  /\ busy' = t
  /\ req' = [req EXCEPT ![t] = [@ EXCEPT !.pc = "read", !.taken = clock]]
  /\ UNCHANGED <<clock, db, files, cache, lock>>

(* A cold cache: wait for the leader, *)
SnapWait(t) ==
  /\ req[t].pc = "snap"
  /\ ~cache.valid /\ busy # NoThread
  /\ req' = [req EXCEPT ![t].pc = "wait"]
  /\ UNCHANGED <<clock, db, files, cache, busy, lock>>

(* until its event is set or 60 s pass; then take what it stored, or, when
   that is already invalidated, rebuild without being the leader. *)
SnapWake(t) ==
  /\ req[t].pc = "wait"
  /\ IF cache.valid THEN GotSnapshot(t, cache.taken, cache.hi)
                    ELSE req' = [req EXCEPT ![t] = [@ EXCEPT !.pc = "read", !.taken = clock]]
  /\ UNCHANGED <<clock, db, files, cache, busy, lock>>

(* The walk reads what is committed, without `_lock`. *)
BuildRead(t) ==
  /\ req[t].pc = "read"
  /\ \E h \in 0..Tip :
       /\ IsFrontier(vranges, h)
       /\ req' = [req EXCEPT ![t] = [@ EXCEPT !.pc = "store", !.hi = h]]
  /\ UNCHANGED <<clock, db, files, cache, busy, lock>>

BuildStore(t) ==
  /\ req[t].pc = "store"
  /\ cache' = [valid |-> TRUE, t |-> clock, taken |-> req[t].taken, hi |-> req[t].hi]
  /\ busy' = IF busy = t THEN NoThread ELSE busy
  /\ GotSnapshot(t, req[t].taken, req[t].hi)
  /\ UNCHANGED <<clock, db, files, lock>>

-----------------------------------------------------------------------------
(* claim()                                                                 *)

ClaimStart(t, k, nonce, signed) ==
  /\ req[t].pc = "idle"
  /\ signed => nonce # NoNonce
  /\ req' = [req EXCEPT ![t] = [Idle EXCEPT !.pc = "snap", !.key = k, !.now = clock,
                                            !.nonce = nonce, !.signed = signed]]
  /\ UNCHANGED <<clock, db, files, cache, busy, lock>>

(* Fault: the nonce of a retried claim is not looked up. *)
NonceIgnored(q) == {}

(* _claim_by_nonce: the claims this very request already made. *)
ClaimsByNonce(q) ==
  {r \in RangeIds :
     /\ q.nonce # NoNonce
     /\ ranges[r].status = "claimed" /\ ranges[r].assignee = q.key /\ ranges[r].nonce = q.nonce
     /\ (IF ranges[r].last_beat = Never THEN ranges[r].claimed_at ELSE ranges[r].last_beat)
          > q.now - CLAIM_TTL
     /\ ranges[r].claimed_at > q.now - CLAIM_MAX}

OpenClaims(k, signed, now) ==
  {r \in RangeIds : ranges[r].assignee = k /\ ranges[r].signed = signed /\ LiveClaim(ranges[r], now)}

AtCap(q) == CLAIM_OPEN_MAX > 0 /\ Cardinality(OpenClaims(q.key, q.signed, q.now)) >= CLAIM_OPEN_MAX

Unavailable(q) == HeldAt(q.now) \cup RetakeHeld(q.key, q.signed, q.now)

(* Fault: any cover is taken for one the snapshot had seen (before #339). *)
AnyCoverSettled(n, taken) == TRUE

(* _cover_settled: the snapshot taken at `taken` had seen every proof covering n. *)
CoverSettled(n, taken) ==
  \A r \in RangeIds :
    Present(vranges, r) /\ n \in Span(r) => vranges[r].ts <= taken - FRONTIER_SETTLE

(* h < provable_tip(): something at h or above it can be served. *)
BelowProvableTip(h) == \E high \in Witness : h <= high

(* frontier+1 is covered, the frontier is not past it, and the cover is old:
   it cannot seam, so the block is offered again. *)
Reoffer(q) ==
  LET blocker == q.hi + 1
  IN  /\ BelowProvableTip(blocker)
      /\ blocker \in Covered(vranges)
      /\ blocker \notin Unavailable(q)
      /\ blocker \in Witness
      /\ CoverSettled(blocker, q.taken)

Claimable(q, h) ==
  /\ BelowProvableTip(h)
  /\ h \notin Covered(vranges)
  /\ h \notin Unavailable(q)
  /\ h \in Witness

Answer(t) == req' = [req EXCEPT ![t] = Idle]

EnterClaim(t) == req[t].pc = "lock" /\ lock = NoThread

(* The block is chosen; the lock is kept for the write. *)
Choose(t, h) ==
  /\ lock' = t
  /\ req' = [req EXCEPT ![t] = [@ EXCEPT !.pc = "grant", !.rid = Leaf(h)]]

(* A retry is given the block it already has, and writes nothing. *)
ClaimRetry(t) ==
  /\ EnterClaim(t)
  /\ ClaimsByNonce(req[t]) # {}
  /\ Answer(t)
  /\ UNCHANGED <<clock, db, files, cache, busy, lock>>

(* 429 at the cap, or 409 when nothing is free. *)
ClaimRefused(t) ==
  /\ EnterClaim(t)
  /\ ClaimsByNonce(req[t]) = {}
  /\ AtCap(req[t]) \/ (~Reoffer(req[t]) /\ \A h \in Blocks : ~Claimable(req[t], h))
  /\ Answer(t)
  /\ UNCHANGED <<clock, db, files, cache, busy, lock>>

ClaimBlocker(t) ==
  /\ EnterClaim(t)
  /\ ClaimsByNonce(req[t]) = {}
  /\ ~AtCap(req[t])
  /\ Reoffer(req[t])
  /\ Choose(t, req[t].hi + 1)
  /\ UNCHANGED <<clock, db, files, cache, busy>>

ClaimLowest(t) ==
  /\ EnterClaim(t)
  /\ ClaimsByNonce(req[t]) = {}
  /\ ~AtCap(req[t])
  /\ ~Reoffer(req[t])
  /\ \E h \in Blocks :
       /\ Claimable(req[t], h)
       /\ \A g \in 1..(h - 1) : ~Claimable(req[t], g)
       /\ Choose(t, h)
  /\ UNCHANGED <<clock, db, files, cache, busy>>

(* INSERT OR REPLACE: every other column of the row is reset. *)
ClaimGrant(t) ==
  LET q == req[t]
  IN  /\ q.pc = "grant"
      /\ ranges' = [ranges EXCEPT ![q.rid] =
                      [NoRow EXCEPT !.status = "claimed", !.assignee = q.key, !.claimed_at = q.now,
                                    !.nonce = q.nonce, !.signed = q.signed]]
      /\ lock' = NoThread
      /\ Answer(t)
      /\ UNCHANGED <<clock, vranges, sponsors, skeys, files, cache, busy>>

-----------------------------------------------------------------------------
(* beat()                                                                  *)

BeatStart(t, k, r) ==
  /\ req[t].pc = "idle"
  /\ req' = [req EXCEPT ![t] = [Idle EXCEPT !.pc = "beat", !.key = k, !.rid = r, !.now = clock]]
  /\ UNCHANGED <<clock, db, files, cache, busy, lock>>

BeatAccepted(q) ==
  /\ ranges[q.rid].status = "claimed"
  /\ ranges[q.rid].assignee = q.key
  /\ ranges[q.rid].claimed_at >= q.now - CLAIM_MAX

Beat(t) ==
  /\ req[t].pc = "beat" /\ lock = NoThread
  /\ ranges' = IF BeatAccepted(req[t]) THEN [ranges EXCEPT ![req[t].rid].last_beat = req[t].now] ELSE ranges
  /\ Answer(t)
  /\ UNCHANGED <<clock, vranges, sponsors, skeys, files, cache, busy, lock>>

-----------------------------------------------------------------------------
(* submit()                                                                *)

(* A range wider than one block must be a fold of verified ranges. Block 1
   is proved from genesis, so its proof cannot have the wrong predecessor. *)
MayCover(r) == r[1] = r[2] \/ (lock = NoThread /\ TiledByVerified(r))

SubmitStart(t, k, r, kind) ==
  /\ req[t].pc = "idle"
  /\ kind = "stale" => r[1] > 1
  /\ MayCover(r)
  /\ req' = [req EXCEPT ![t] = [Idle EXCEPT !.pc = "row", !.key = k, !.rid = r, !.kind = kind]]
  /\ UNCHANGED <<clock, db, files, cache, busy, lock>>

(* Read the row, creating it when a submission comes without a claim. *)
SubmitRow(t) ==
  LET r == req[t].rid
  IN  /\ req[t].pc = "row" /\ lock = NoThread
      /\ ranges' = IF ranges[r].status = "none" THEN [ranges EXCEPT ![r].status = "open"] ELSE ranges
      /\ IF ranges[r].status = "verified" THEN Answer(t) ELSE req' = [req EXCEPT ![t].pc = "hold"]
      /\ UNCHANGED <<clock, vranges, sponsors, skeys, files, cache, busy, lock>>

(* The first hold check; verification follows it, outside every lock. *)
SubmitHold(t) ==
  /\ req[t].pc = "hold" /\ lock = NoThread
  /\ IF HoldRefusal(req[t].rid, req[t].key) THEN Answer(t) ELSE req' = [req EXCEPT ![t].pc = "verify"]
  /\ UNCHANGED <<clock, db, files, cache, busy, lock>>

(* verify_receipt: real verification of the receipt for exactly this range. *)
VerifyReceipt(kind) == kind \in {"main", "stale"}

(* Fault: the status is not read again after verifying. *)
StatusNotRechecked(q) == HoldRefusal(q.rid, q.key)

(* Re-checked under the lock that commits: another submit may have won, or a
   hold started, while this one verified. *)
CommitRefused(q) == ranges[q.rid].status = "verified" \/ HoldRefusal(q.rid, q.key)

SubmitCheck(t) ==
  /\ req[t].pc = "verify" /\ lock = NoThread
  /\ IF CommitRefused(req[t])
       THEN Answer(t) /\ UNCHANGED lock
       ELSE lock' = t /\ req' = [req EXCEPT ![t].pc = "begin"]
  /\ UNCHANGED <<clock, db, files, cache, busy>>

(* record_submission_failure: only a failure that blames the block counts,
   and the MAX_ATTEMPTS-th parks it. Attempts are capped where they stop
   mattering. *)
RecordFailure(row, kind) ==
  IF kind = "env" THEN row
  ELSE LET n == IF row.attempts < MAX_ATTEMPTS THEN row.attempts + 1 ELSE MAX_ATTEMPTS
       IN  [row EXCEPT !.attempts = n,
                       !.status = IF n >= MAX_ATTEMPTS /\ @ # "verified" THEN "failed" ELSE @]

SubmitFailed(t) ==
  /\ req[t].pc = "begin"
  /\ ~VerifyReceipt(req[t].kind)
  /\ ranges' = [ranges EXCEPT ![req[t].rid] = RecordFailure(@, req[t].kind)]
  /\ cache' = NoSnapshot
  /\ lock' = NoThread
  /\ Answer(t)
  /\ UNCHANGED <<clock, vranges, sponsors, skeys, files, busy>>

(* The transaction of an accepted proof: vranges.ts is stamped and the
   receipt file written (any error of that is swallowed) ... *)
SubmitStamp(t) ==
  /\ req[t].pc = "begin"
  /\ VerifyReceipt(req[t].kind)
  /\ req' = [req EXCEPT ![t] = [@ EXCEPT !.pc = "commit", !.now = clock]]
  /\ \/ files' = [files EXCEPT ![req[t].rid] = req[t].kind]
     \/ DiskFaults /\ UNCHANGED files
  /\ UNCHANGED <<clock, db, cache, busy, lock>>

(* ... and only then committed, the snapshot dropped and the lock released. *)
SubmitCommit(t) ==
  LET q == req[t]
  IN  /\ q.pc = "commit"
      /\ ranges' = [ranges EXCEPT ![q.rid].status = "verified"]
      /\ vranges' = [vranges EXCEPT ![q.rid] = [kind |-> q.kind, pubkey |-> q.key, ts |-> q.now]]
      /\ sponsors' = MarkProven(sponsors, vranges', q.rid)
      /\ cache' = NoSnapshot
      /\ lock' = NoThread
      /\ Answer(t)
      /\ UNCHANGED <<clock, skeys, files, busy>>

-----------------------------------------------------------------------------
(* hazync-unpark.py, faults and time.                                      *)

(* SQLite's write lock: nobody is between its first write and its commit. *)
DbFree == \A t \in Threads : req[t].pc # "commit"

(* A process of its own, outside `_lock`. *)
Unpark(r) ==
  /\ DbFree
  /\ ranges[r].status = "failed"
  /\ ranges' = [ranges EXCEPT ![r] = [@ EXCEPT !.status = "open", !.attempts = 0]]
  /\ UNCHANGED <<clock, vranges, sponsors, skeys, files, cache, busy, lock, req>>

(* A handler raises (the database stays busy too long): its transaction is
   rolled back, its locks and the refresh flag are released, and a proof
   file it wrote stays. *)
Abort(t) ==
  /\ req[t].pc # "idle"
  /\ busy' = IF busy = t THEN NoThread ELSE busy
  /\ lock' = IF lock = t THEN NoThread ELSE lock
  /\ Answer(t)
  /\ UNCHANGED <<clock, db, files, cache>>

(* The server dies and starts again: what is in memory is lost. *)
Crash ==
  /\ req' = [t \in Threads |-> Idle]
  /\ cache' = NoSnapshot
  /\ busy' = NoThread /\ lock' = NoThread
  /\ UNCHANGED <<clock, db, files>>

Tick ==
  /\ clock < MaxTime
  /\ \A t \in Threads : req[t].pc = "commit" => clock < req[t].now + COMMIT_MAX
  /\ clock' = clock + 1
  /\ UNCHANGED <<db, files, cache, busy, lock, req>>

Start(t) ==
  \/ \E k \in Keys, nonce \in Nonces \cup {NoNonce}, signed \in Signings : ClaimStart(t, k, nonce, signed)
  \/ \E k \in Keys, r \in RangeIds : BeatStart(t, k, r)
  \/ \E k \in Keys, r \in RangeIds, kind \in Receipts : SubmitStart(t, k, r, kind)

Serve(t) ==
  \/ SnapCached(t) \/ SnapLead(t) \/ SnapWait(t) \/ SnapWake(t) \/ BuildRead(t) \/ BuildStore(t)
  \/ ClaimRetry(t) \/ ClaimRefused(t) \/ ClaimBlocker(t) \/ ClaimLowest(t) \/ ClaimGrant(t)
  \/ Beat(t)
  \/ SubmitRow(t) \/ SubmitHold(t) \/ SubmitCheck(t) \/ SubmitFailed(t) \/ SubmitStamp(t) \/ SubmitCommit(t)

Next ==
  \/ \E t \in Threads : Start(t) \/ Serve(t) \/ Abort(t)
  \/ \E r \in RangeIds : Unpark(r)
  \/ Crash
  \/ Tick

Spec == Init /\ [][Next]_vars

-----------------------------------------------------------------------------
(* Properties.                                                             *)

(* Every table and every in-flight request holds values the code can write. *)
TypeOK ==
  /\ clock \in Times
  /\ ranges \in [RangeIds -> Row]
  /\ vranges \in [RangeIds -> Proof]
  /\ files \in [RangeIds -> {"none", "main", "stale"}]
  /\ sponsors \in [SponsorIds -> Sponsor]
  /\ skeys \in [Keys -> SUBSET SponsorIds]
  /\ cache \in Snapshot
  /\ busy \in Threads \cup {NoThread}
  /\ lock \in Threads \cup {NoThread}
  /\ req \in [Threads -> Request]

(* #339: a proof that seams keeps its verified row. claim() may turn a
   verified row back into a claim only when the cover cannot seam, though it
   judges that from a frontier read before it took the lock. *)
MainStaysVerified ==
  \A r \in RangeIds : vranges[r].kind = "main" => ranges[r].status = "verified"

(* A proof on the followed chain is never replaced, whoever submits the
   range again and however the submits overlap: its credit (pubkey) and its
   time stay, and no later proof takes its place. *)
MainProofKept ==
  [][\A r \in RangeIds : vranges[r].kind = "main" => vranges'[r] = vranges[r]]_vars

(* The frontier never moves back: every height a genesis-anchored chain
   reaches stays reached. *)
FrontierNeverRegresses ==
  [][\A h \in 0..Tip : Reaches(vranges, h) => Reaches(vranges', h)]_vars

(* #281, "covered == proved, one block at a time": every block under a
   verified range has a proof of its own, though the tiling of a fold is
   checked long before the fold is committed. *)
CoveredMeansLeafProved ==
  \A h \in Covered(vranges) : Present(vranges, Leaf(h))

(* A claim that holds its block now is not handed to anyone by any step:
   it ends by being proven or parked. *)
LiveClaimKept ==
  [][\A r \in RangeIds :
       LiveClaim(ranges[r], clock) /\ ranges'[r].status = "claimed"
         => /\ ranges'[r].assignee = ranges[r].assignee
            /\ ranges'[r].claimed_at = ranges[r].claimed_at]_vars

(* #268: one claim request, however often it is retried and however its
   retries overlap, does not hold two blocks: of two never-beaten claims
   with one key and nonce, at most one is live. *)
RetryHoldsOneBlock ==
  \A r1, r2 \in RangeIds :
    /\ LiveClaim(ranges[r1], clock) /\ LiveClaim(ranges[r2], clock)
    /\ ranges[r1].last_beat = Never /\ ranges[r2].last_beat = Never
    /\ ranges[r1].nonce # NoNonce /\ ranges[r1].nonce = ranges[r2].nonce
    /\ ranges[r1].assignee = ranges[r2].assignee
    => r1 = r2

(* The receipt served for a range of the followed chain is a receipt of the
   followed chain, although the file is written before the transaction that
   may still be rolled back, or lost in a crash. *)
ServedProofIsMain ==
  \A r \in RangeIds : vranges[r].kind = "main" => files[r] = "main"

(* A verified row is given up only by re-offering a block whose proof cannot
   seam: not by a late failing submit, nor by un-parking. *)
VerifiedRowKept ==
  [][\A r \in RangeIds :
       ranges[r].status = "verified" /\ ranges'[r].status # "verified"
         => ranges'[r].status = "claimed" /\ vranges[r].kind = "stale"]_vars

(* What a row says of its block: the claim that holds it at a moment. *)
NoHold == [key |-> NoKey, at |-> 0]

Claims == [key : Keys, at : Times]

HoldOf(row, now) ==
  IF LiveClaim(row, now) THEN [key |-> row.assignee, at |-> row.claimed_at] ELSE NoHold

SeamsForGood(p) == p.kind = "main"

L == INSTANCE Ledger WITH
       Ranges <- RangeIds, Proofs <- Proof, Final <- SeamsForGood,
       proof <- vranges, hold <- [h \in Blocks |-> HoldOf(ranges[Leaf(h)], clock)]

(* The tables, read at any moment, are those of the ledger the board
   promises: with several threads between their check and their write, a
   clock that ends claims meanwhile and beats that revive them, a block has
   one holder, nobody takes a block from its holder or with a final proof,
   and a final proof is never replaced, whoever submits the range again. *)
KeepsTheLedger == L!Spec
=============================================================================
