------------------------------ MODULE Frontier ------------------------------
(***************************************************************************)
(* How coordinator/server.py chooses the frontier among the verified       *)
(* ranges (_frontier_chain) and counts the blocks they prove               *)
(* (proven_count). Unlike Board, which knows only receipts that lie on the *)
(* chain it follows and receipts that do not, a row here has its boundary: *)
(* forks, cumulative work, seams whose tip hash agrees while the boundary  *)
(* digest does not, rows from before the digest was recorded.              *)
(*                                                                         *)
(* The walk reads its rows in one query and then takes them one at a time, *)
(* lowest `lo` first. Rows that start at the same block come in the order  *)
(* of their timestamps, which may be any order.                            *)
(***************************************************************************)
EXTENDS Integers, FiniteSets, FiniteSetsExt, SequencesExt

CONSTANTS
  Rows,          \* the rows vranges may hold:
                 \* [lo, hi, pk, in_tip, out_tip, in_bhash, out_bhash, work]
  GENESIS_TIP,   \* tip hash of the genesis block
  NoDigest,      \* the boundary digest of a row from before the column: NULL or empty
  MaxRows        \* bound: rows in the table

ASSUME RowsAssumption ==
  \A r \in Rows : /\ {r.lo, r.hi, r.work} \subseteq Nat
                  /\ 1 <= r.lo /\ r.lo <= r.hi

VARIABLES
  table,      \* vranges in the order of ts: at most one row per id, and the id is the span
  phase,      \* "idle" or "walk"
  rows,       \* the rows this walk fetched
  todo,       \* those of them it has not looked at yet
  best,       \* most work of a chain from genesis that ends with a row, for the rows reached
  frontier    \* [hi, tip, work] of the best chain so far

vars == <<table, phase, rows, todo, best, frontier>>

NoFrontier == [hi |-> 0, tip |-> GENESIS_TIP, work |-> 0]

Init ==
  /\ table = <<>> /\ phase = "idle" /\ rows = {} /\ todo = {}
  /\ best = <<>> /\ frontier = NoFrontier

Span(r) == r.lo..r.hi

(* INSERT OR REPLACE: the row of the same id goes, *)
Kept(r) ==
  LET same == {i \in DOMAIN table : Span(table[i]) = Span(r)}
  IN  IF same = {} THEN table ELSE RemoveAt(table, CHOOSE i \in same : TRUE)

(* and the verified range that replaces it is the latest of all. *)
Record(r) ==
  /\ table' = Append(Kept(r), r)
  /\ Len(table') <= MaxRows
  /\ UNCHANGED <<phase, rows, todo, best, frontier>>

FetchRows ==
  /\ phase = "idle" /\ phase' = "walk"
  /\ rows' = ToSet(table) /\ todo' = rows'
  /\ best' = <<>> /\ frontier' = NoFrontier
  /\ UNCHANGED table

Anchored(r) == r.in_tip = GENESIS_TIP /\ r.lo = 1

(* Tip linkage, digest continuity and height contiguity. *)
Seam(p, r) ==
  /\ p.out_tip = r.in_tip
  /\ p.out_bhash = r.in_bhash
  /\ p.hi + 1 = r.lo

Preds(r) == {p \in DOMAIN best : Seam(p, r)}

(* The row ends a chain from genesis, whose most work is CumulativeWork. *)
Reached(r) ==
  /\ r.in_bhash # NoDigest
  /\ Anchored(r) \/ Preds(r) # {}

CumulativeWork(r) ==
  IF Anchored(r) THEN r.work ELSE Max({best[p] : p \in Preds(r)}) + r.work

(* Fault: the tallest chain wins, whatever its work. *)
TallestWins(r, cw) == r.hi > frontier.hi

Better(r, cw) == cw > frontier.work \/ (cw = frontier.work /\ r.hi > frontier.hi)

Visit(r) ==
  /\ phase = "walk" /\ r \in todo
  /\ \A q \in todo : r.lo <= q.lo
  /\ todo' = todo \ {r}
  /\ \/ ~Reached(r) /\ UNCHANGED <<best, frontier>>
     \/ /\ Reached(r)
        /\ best' = [q \in DOMAIN best \cup {r} |->
                      IF q = r THEN CumulativeWork(r) ELSE best[q]]
        /\ \/ /\ Better(r, CumulativeWork(r))
              /\ frontier' = [hi |-> r.hi, tip |-> r.out_tip, work |-> CumulativeWork(r)]
           \/ ~Better(r, CumulativeWork(r)) /\ UNCHANGED frontier
  /\ UNCHANGED <<table, phase, rows>>

(* The answer goes to the caller (Board keeps it) and nothing is left here. *)
Return ==
  /\ phase = "walk" /\ todo = {} /\ phase' = "idle"
  /\ rows' = {} /\ best' = <<>> /\ frontier' = NoFrontier
  /\ UNCHANGED <<table, todo>>

Next ==
  \/ \E r \in Rows : Record(r)
  \/ FetchRows
  \/ \E r \in todo : Visit(r)
  \/ Return

Spec == Init /\ [][Next]_vars

(* proven_count: the intervals in the order of `sorted`, merged one by one. *)
Earlier(a, b) == a[1] < b[1] \/ (a[1] = b[1] /\ a[2] < b[2])

Sorted(spans) ==
  [i \in 1..Cardinality(spans) |->
     CHOOSE s \in spans : Cardinality({q \in spans : Earlier(q, s)}) = i - 1]

Width(m) == IF m.cur = <<>> THEN 0 ELSE m.cur[2] - m.cur[1] + 1

(* Fault: a nested interval cuts the merged one short. *)
LastEndWins(m, s) ==
  IF m.cur = <<>> \/ s[1] > m.cur[2] + 1
  THEN [total |-> m.total + Width(m), cur |-> s]
  ELSE [m EXCEPT !.cur[2] = s[2]]

Merge(m, s) ==
  IF m.cur = <<>> \/ s[1] > m.cur[2] + 1
  THEN [total |-> m.total + Width(m), cur |-> s]
  ELSE [m EXCEPT !.cur[2] = Max({@, s[2]})]

Covered(spans) ==
  LET m == FoldLeft(Merge, [total |-> 0, cur |-> <<>>], Sorted(spans))
  IN  m.total + Width(m)

ProvenCount == Covered({<<r.lo, r.hi>> : r \in ToSet(table)})

(* What the walk of fold_spans remembers of the rows before a row: `ends_at`,
   the ends of those that start at lo, and `by_start`, the widest one's. *)
Before(i) == {table[j] : j \in 1..(i - 1)}

EndsAt(i, lo) == {q.hi : q \in {q \in Before(i) : q.lo = lo}}

ByStart(i, lo) == Max(EndsAt(i, lo) \cup {-1})

IsFoldSeam(i) ==
  \E m \in EndsAt(i, table[i].lo) : ByStart(i, m + 1) = table[i].hi

FoldRows == {i \in DOMAIN table : table[i].lo < table[i].hi /\ IsFoldSeam(i)}

FoldedCount == Covered({<<table[i].lo, table[i].hi>> : i \in FoldRows})

-----------------------------------------------------------------------------
(* The reference: a chain is a set of rows that tile 1..hi, the first       *)
(* anchored at genesis and each of the others seamed to one of them.        *)
IsChain(C) ==
  /\ \A r \in C : r.in_bhash # NoDigest /\ (Anchored(r) \/ \E p \in C : Seam(p, r))
  /\ \A p, q \in C : p # q => p.hi < q.lo \/ q.hi < p.lo

Work(C) == MapThenSumSet(LAMBDA r : r.work, C)

Height(C) == Max({r.hi : r \in C})

(* The walk of _frontier_chain ends with the most-work chain of the rows it
   fetched, and with the tallest of those of equal work: whatever the order
   of rows that start at one block, whichever rows are forks, overlaps,
   heights out of place or lack a digest, and whatever is recorded while it
   walks. Without any chain it ends where it began. *)
FrontierIsMostWork ==
  phase = "walk" /\ todo = {} =>
    LET Chains == {C \in SUBSET rows : C # {} /\ IsChain(C)}
    IN  IF Chains = {} THEN frontier = NoFrontier
        ELSE /\ \E C \in Chains :
                  /\ Work(C) = frontier.work /\ Height(C) = frontier.hi
                  /\ \E r \in C : r.hi = frontier.hi /\ r.out_tip = frontier.tip
             /\ \A C \in Chains : \/ Work(C) < frontier.work
                                  \/ /\ Work(C) = frontier.work
                                     /\ Height(C) <= frontier.hi

(* proven_count counts every block once, however the verified ranges nest,
   overlap or abut, and so does folded_count for the ranges that are folds.
   (Stated between walks, which change nothing it reads.) *)
ProvenCountedOnce ==
  phase = "idle" =>
  /\ ProvenCount = Cardinality(UNION {Span(r) : r \in ToSet(table)})
  /\ FoldedCount = Cardinality(UNION {Span(table[i]) : i \in FoldRows})
=============================================================================
