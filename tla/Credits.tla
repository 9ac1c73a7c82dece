------------------------------ MODULE Credits ------------------------------
(***************************************************************************)
(* Who coordinator/server.py says did the work: contributions_by_pubkey    *)
(* (proved, folded and anchored, per identity), spine_segments and         *)
(* spine_absorption (who took each block into the spine), over the rows of *)
(* Frontier, the log of spine submissions and the key rotations.           *)
(*                                                                         *)
(* Attribution is computed when it is read and nothing recorded is ever    *)
(* rewritten: a rotated key's work counts for the key it rotated to, even  *)
(* when the old key goes on submitting.                                    *)
(***************************************************************************)
EXTENDS Frontier

CONSTANTS
  Keys,              \* contributors' keys
  Heights,           \* heights a spine may end at
  ROTATE_MAX_DEPTH,  \* how many rotations resolve_pubkey follows
  MaxNotes           \* bound: rotations and spine submissions

ASSUME CreditsAssumption ==
  /\ \A r \in Rows : r.pk \in Keys
  /\ Heights \subseteq Nat \ {0}
  /\ {ROTATE_MAX_DEPTH, MaxNotes} \subseteq Nat

VARIABLES
  rotated,  \* rotations: old key -> new key, one row per old key
  head,     \* height of the advertised spine, 0 without one
  log       \* submissions `spine:1-<hi>` in the order of ts: [hi, pk]

cvars == <<rotated, head, log>>

CInit == Init /\ rotated = <<>> /\ head = 0 /\ log = <<>>

Notes == Len(log) + Cardinality(DOMAIN rotated)

(* The follower of a key after at most ROTATE_MAX_DEPTH rotations; a key seen
   before is not followed to again. *)
Resolve(pk) ==
  LET walk[n \in 0..ROTATE_MAX_DEPTH] ==
        IF n = 0 THEN [cur |-> pk, seen |-> {pk}]
        ELSE LET w == walk[n - 1]
             IN  IF w.cur \notin DOMAIN rotated \/ rotated[w.cur] \in w.seen THEN w
                 ELSE [cur |-> rotated[w.cur], seen |-> w.seen \cup {rotated[w.cur]}]
  IN  walk[ROTATE_MAX_DEPTH].cur

(* Both keys have signed. A key rotates once, and never to one that leads
   back to it. *)
Rotate(old, new) ==
  /\ Notes < MaxNotes
  /\ old # new
  /\ old \notin DOMAIN rotated
  /\ Resolve(new) # old
  /\ rotated' = [k \in DOMAIN rotated \cup {old} |-> IF k = old THEN new ELSE rotated[k]]
  /\ UNCHANGED <<head, log>>

(* A spine that advances the head is advertised; that its row could not be
   written does not fail the submission. *)
AdvanceSpine(hi, pk) ==
  /\ Notes < MaxNotes
  /\ hi > head /\ head' = hi
  /\ log' \in {log, Append(log, [hi |-> hi, pk |-> pk])}
  /\ UNCHANGED rotated

(* The spine's files are gone, or unreadable: it is built again from block 1,
   and the log goes on. *)
SpineLost ==
  /\ head > 0 /\ head' = 0
  /\ UNCHANGED <<rotated, log>>

CNext ==
  \/ \E r \in Rows : Record(r) /\ UNCHANGED cvars
  \/ FetchRows /\ UNCHANGED cvars
  \/ \E r \in todo : Visit(r) /\ UNCHANGED cvars
  \/ Return /\ UNCHANGED cvars
  \/ \E old, new \in Keys : Rotate(old, new) /\ UNCHANGED vars
  \/ \E hi \in Heights, pk \in Keys : AdvanceSpine(hi, pk) /\ UNCHANGED vars
  \/ SpineLost /\ UNCHANGED vars

CSpec == CInit /\ [][CNext]_<<vars, cvars>>

-----------------------------------------------------------------------------
(* contributions_by_pubkey *)
Proofs == {table[i] : i \in DOMAIN table \ FoldRows}

(* Fault: each key's blocks are merged before the keys are resolved. *)
ResolveLast(pk) ==
  MapThenSumSet(LAMBDA k : Covered({<<r.lo, r.hi>> : r \in {r \in Proofs : r.pk = k}}),
                {k \in Keys : Resolve(k) = pk})

(* The rows of one identity in one sorted run, merged once. *)
Proved(pk) == Covered({<<r.lo, r.hi>> : r \in {r \in Proofs : Resolve(r.pk) = pk}})

Folded(pk) == Cardinality({i \in FoldRows : Resolve(table[i].pk) = pk})

Absorptions(pk) == Cardinality({i \in DOMAIN log : Resolve(log[i].pk) = pk})

Contributions ==
  [pk \in {Resolve(r.pk) : r \in ToSet(table)} \cup {Resolve(a.pk) : a \in ToSet(log)} |->
     [proved |-> Proved(pk), folded |-> Folded(pk), anchored |-> Absorptions(pk)]]

-----------------------------------------------------------------------------
(* spine_segments and spine_absorption *)

(* A row of the log: one more by the same key extends its segment. *)
Extend(s, a) ==
  [segs |-> IF s.segs # <<>> /\ Last(s.segs).pk = a.pk
            THEN [s.segs EXCEPT ![Len(s.segs)].hi = a.hi]
            ELSE Append(s.segs, [lo |-> s.prev_hi + 1, hi |-> a.hi, pk |-> a.pk]),
   prev_hi |-> a.hi]

(* A row at or below the head it found covers nothing. *)
Absorb(s, a) == IF a.hi <= s.prev_hi THEN s ELSE Extend(s, a)

SpineSegments == FoldLeft(Absorb, [segs |-> <<>>, prev_hi |-> 0], log).segs

(* The advance that took block n into the spine. *)
PrevHi(i) == Max({0} \cup {log[j].hi : j \in 1..(i - 1)})

Absorption(n) ==
  LET i == Min({i \in DOMAIN log : PrevHi(i) < n /\ n <= log[i].hi})
  IN  [lo |-> PrevHi(i) + 1, hi |-> log[i].hi, width |-> log[i].hi - PrevHi(i), pk |-> log[i].pk]

-----------------------------------------------------------------------------
(* The keys of one person: those a chain of rotations leads from to pk, which
   is the least set with pk and with every key that rotated into it. *)
Own(pk) ==
  LET closed(S) == pk \in S /\ \A k \in DOMAIN rotated : rotated[k] \in S => k \in S
  IN  {k \in Keys : \A S \in SUBSET Keys : closed(S) => k \in S}

(* contributions_by_pubkey gives all credit to keys that have not rotated, and
   to each the blocks its person proved, once, however many of their keys
   proved them and in whatever order; a fold takes no block from whoever proved
   it, so every verified block is in somebody's `proved`; and every row and
   every recorded absorption is counted for exactly one identity. (Stated between
   walks, which change nothing it reads.) *)
CreditedOnce ==
  phase = "idle" =>
  LET C == Contributions
      P == Proofs
  IN  /\ DOMAIN C \cap DOMAIN rotated = {}
      /\ \A pk \in DOMAIN C :
           C[pk].proved = Cardinality(UNION {Span(r) : r \in {r \in P : r.pk \in Own(pk)}})
      /\ UNION {Span(r) : r \in ToSet(table)} = UNION {Span(r) : r \in P}
      /\ MapThenSumSet(LAMBDA pk : C[pk].folded, DOMAIN C) = Cardinality(FoldRows)
      /\ MapThenSumSet(LAMBDA pk : C[pk].anchored, DOMAIN C) = Len(log)

(* spine_segments: the segments tile the spine's blocks from block 1, each
   block belongs to the key whose recorded advance reached it first, and
   spine_absorption names an advance inside that segment: also after a spine
   was built again from the beginning, and with rows that were not recorded. *)
SpineIsSomebodys ==
  phase = "idle" =>
  LET top == Max({0} \cup {a.hi : a \in ToSet(log)})
      First(n) == Min({i \in DOMAIN log : log[i].hi >= n})
  IN  /\ UNION {Span(g) : g \in ToSet(SpineSegments)} = 1..top
      /\ \A n \in 1..top :
           LET In == {g \in ToSet(SpineSegments) : n \in Span(g)}
           IN  /\ Cardinality(In) = 1
               /\ \A g \in In : /\ g.pk = log[First(n)].pk
                                /\ Absorption(n).pk = g.pk
                                /\ Absorption(n).lo..Absorption(n).hi \subseteq Span(g)
=============================================================================
