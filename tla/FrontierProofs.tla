-------------------------- MODULE FrontierProofs --------------------------
(***************************************************************************)
(* What the loops over the rows compute, for any rows: that the walk finds  *)
(* the most work, that the merge counts a block once, that the credit for   *)
(* it is somebody's once, and that the spine's segments tile it.            *)
(***************************************************************************)
EXTENDS Credits, FiniteSetTheorems, WellFoundedInduction, TLAPS

-----------------------------------------------------------------------------
(* Induction, as the least element of a set of counterexamples.            *)

(* A set of numbers that is not empty has a least element. *)
LEMMA Least ==
  ASSUME NEW S \in SUBSET Nat, S # {}
  PROVE  \E n \in S : \A m \in S : n <= m
<1>1. \E n \in S : \A m \in S : <<m, n>> \notin OpToRel(<, Nat)
  BY NatLessThanWellFounded, WFMin, Zenon
<1>2. \A m, n \in Nat : m < n => <<m, n>> \in OpToRel(<, Nat)
  BY Zenon DEF OpToRel
<1>3. PICK least \in S : \A m \in S : ~(m < least)
  BY <1>1, <1>2, Zenon
<1> QED
  BY <1>3

(* A finite set of numbers that is not empty has a greatest element, and Max
   is that. *)
LEMMA Greatest ==
  ASSUME NEW S \in SUBSET Nat, S # {}, IsFiniteSet(S)
  PROVE  Max(S) \in S /\ \A m \in S : m <= Max(S)
<1> DEFINE Bad == {c \in Nat : \E T \in SUBSET S : /\ T # {} /\ IsFiniteSet(T) /\ Cardinality(T) = c
                                                   /\ ~\E n \in T : \A m \in T : m <= n}
<1>1. Bad = {}
  <2> SUFFICES ASSUME Bad # {} PROVE FALSE
    OBVIOUS
  <2>1. PICK c \in Bad : \A d \in Bad : c <= d
    BY Least
  <2>2. PICK T \in SUBSET S : /\ T # {} /\ IsFiniteSet(T) /\ Cardinality(T) = c
                              /\ ~\E n \in T : \A m \in T : m <= n
    BY <2>1
  <2>3. PICK x \in T : TRUE
    BY <2>2
  <2> DEFINE U == T \ {x}
  <2>4. IsFiniteSet(U) /\ Cardinality(U) = c - 1 /\ c \in Nat /\ c # 0
    BY <2>1, <2>2, <2>3, FS_RemoveElement, FS_EmptySet
  <2>5. U # {}
    BY <2>2, <2>3
  <2>6. c - 1 \in Nat /\ c - 1 \notin Bad
    BY <2>1, <2>4
  <2>7. PICK n \in U : \A m \in U : m <= n
    BY <2>4, <2>5, <2>6
  <2>8. \A m \in T : m \in Nat
    OBVIOUS
  <2>9. CASE x <= n
    BY <2>2, <2>7, <2>8, <2>9
  <2>10. CASE ~(x <= n)
    BY <2>2, <2>3, <2>7, <2>8, <2>10
  <2> QED
    BY <2>9, <2>10
<1>2. \E n \in S : \A m \in S : m <= n
  BY <1>1, FS_CardinalityType
<1> QED
  BY <1>2, Zenon DEF Max

(* What a function gives over a finite set is finite. *)
LEMMA ImageFinite ==
  ASSUME NEW S, IsFiniteSet(S), NEW f
  PROVE  IsFiniteSet({f[x] : x \in S})
<1> DEFINE g == [x \in S |-> f[x]]
           T == {f[x] : x \in S}
<1>1. g \in Surjection(S, T)
  BY DEF Surjection
<1> HIDE DEF g
<1> QED
  BY <1>1, FS_Surjection

-----------------------------------------------------------------------------
(* The work of a set of rows: a fold over the set, one chosen row at a time.*)

PickRow(s) == CHOOSE x \in s : TRUE

SumStep(f, s) == IF s = {} THEN 0 ELSE PickRow(s).work + f[s \ {PickRow(s)}]

SumFn(S) == CHOOSE f : f = [s \in SUBSET S |-> SumStep(f, s)]

LEMMA WorkIs == \A S : Work(S) = SumFn(S)[S]
  BY Zenon DEF Work, MapThenSumSet, MapThenFoldSet, SumFn, SumStep, PickRow

(* Without the row it picks, a set of rows is one smaller. *)
LEMMA PickSmaller ==
  ASSUME NEW s, s # {}, IsFiniteSet(s)
  PROVE  /\ PickRow(s) \in s /\ IsFiniteSet(s \ {PickRow(s)})
         /\ Cardinality(s \ {PickRow(s)}) = Cardinality(s) - 1
         /\ Cardinality(s) \in Nat /\ Cardinality(s) - 1 \in Nat
<1>1. PickRow(s) \in s
  BY DEF PickRow
<1>2. Cardinality(s) \in Nat /\ Cardinality(s) # 0
  BY FS_CardinalityType, FS_EmptySet
<1> QED
  BY <1>1, <1>2, FS_RemoveElement

(* The fold over the subsets of a finite set exists. *)
LEMMA SumExists ==
  ASSUME NEW S, IsFiniteSet(S)
  PROVE  SumFn(S) = [s \in SUBSET S |-> SumStep(SumFn(S), s)]
<1> DEFINE D(n) == {s \in SUBSET S : Cardinality(s) <= n}
           Bad == {n \in Nat : ~\E f : f = [s \in D(n) |-> SumStep(f, s)]}
<1>0. \A s \in SUBSET S : IsFiniteSet(s) /\ Cardinality(s) \in Nat /\ Cardinality(s) <= Cardinality(S)
  BY FS_Subset, FS_CardinalityType
<1>1. Bad = {}
  <2> SUFFICES ASSUME Bad # {} PROVE FALSE
    OBVIOUS
  <2>1. PICK n \in Bad : \A m \in Bad : n <= m
    BY Least
  <2>2. CASE n = 0
    <3> DEFINE f == [s \in D(n) |-> 0]
    <3>1. \A s \in D(n) : s = {}
      BY <1>0, <2>2, FS_EmptySet
    <3>2. f = [s \in D(n) |-> SumStep(f, s)]
      BY <3>1 DEF SumStep
    <3> QED
      BY <2>1, <3>2
  <2>3. CASE n # 0
    <3>1. n \in Nat /\ n - 1 \in Nat /\ n - 1 \notin Bad
      <4>1. n \in Nat /\ n - 1 \in Nat /\ ~(n <= n - 1)
        BY <2>1, <2>3
      <4> HIDE DEF Bad
      <4> QED
        BY <2>1, <4>1
    <3>2. PICK f : f = [s \in D(n - 1) |-> SumStep(f, s)]
      BY <3>1
    <3> DEFINE g == [s \in D(n) |-> SumStep(f, s)]
    <3>3. ASSUME NEW s \in D(n) PROVE SumStep(f, s) = SumStep(g, s)
      <4>1. CASE s = {}
        BY <4>1 DEF SumStep
      <4>2. CASE s # {}
        <5> DEFINE t == s \ {PickRow(s)}
        <5>1. t \in D(n - 1) /\ t \in D(n)
          BY <1>0, <3>1, <4>2, PickSmaller
        <5>2. f[t] = SumStep(f, t)
          BY <3>2, <5>1
        <5>3. g[t] = SumStep(f, t)
          BY <5>1
        <5> QED
          BY <4>2, <5>2, <5>3 DEF SumStep
      <4> QED
        BY <4>1, <4>2
    <3>4. g = [s \in D(n) |-> SumStep(g, s)]
      BY <3>3
    <3> QED
      BY <2>1, <3>4
  <2> QED
    BY <2>2, <2>3
<1>2. D(Cardinality(S)) = SUBSET S
  BY <1>0
<1>3. Cardinality(S) \in Nat
  BY FS_CardinalityType
<1>4. \E f : f = [s \in SUBSET S |-> SumStep(f, s)]
  <2>1. Cardinality(S) \notin Bad
    BY <1>1
  <2>2. \E f : f = [s \in D(Cardinality(S)) |-> SumStep(f, s)]
    BY <1>3, <2>1, Zenon
  <2> HIDE DEF D
  <2> QED
    BY <1>2, <2>2
<1> QED
  BY <1>4, Zenon DEF SumFn

(* It gives a subset the same sum, whatever set it is taken over. *)
LEMMA SumOfSubset ==
  ASSUME NEW S, IsFiniteSet(S), NEW s \in SUBSET S
  PROVE  SumFn(S)[s] = Work(s)
<1> DEFINE Bad == {n \in Nat : \E t \in SUBSET s : Cardinality(t) = n /\ SumFn(s)[t] # SumFn(S)[t]}
<1>0. IsFiniteSet(s) /\ \A t \in SUBSET s : IsFiniteSet(t) /\ Cardinality(t) \in Nat
  BY FS_Subset, FS_CardinalityType
<1>1. /\ \A t \in SUBSET s : SumFn(s)[t] = SumStep(SumFn(s), t)
      /\ \A t \in SUBSET S : SumFn(S)[t] = SumStep(SumFn(S), t)
  <2> HIDE DEF Bad
  <2>1. \A t \in SUBSET s : SumFn(s)[t] = SumStep(SumFn(s), t)
    BY <1>0, SumExists
  <2>2. \A t \in SUBSET S : SumFn(S)[t] = SumStep(SumFn(S), t)
    BY SumExists
  <2> QED
    BY <2>1, <2>2
<1>2. Bad = {}
  <2> SUFFICES ASSUME Bad # {} PROVE FALSE
    OBVIOUS
  <2>1. PICK n \in Bad : \A m \in Bad : n <= m
    BY Least
  <2>2. PICK t \in SUBSET s : Cardinality(t) = n /\ SumFn(s)[t] # SumFn(S)[t]
    BY <2>1
  <2>3. t # {}
    BY <1>1, <2>2 DEF SumStep
  <2> DEFINE u == t \ {PickRow(t)}
  <2>4. u \in SUBSET s /\ Cardinality(u) = n - 1 /\ n - 1 \in Nat /\ n \in Nat
    BY <1>0, <2>2, <2>3, PickSmaller
  <2>5. SumFn(s)[u] = SumFn(S)[u]
    BY <2>1, <2>4
  <2> QED
    BY <1>1, <2>2, <2>3, <2>5 DEF SumStep
<1>3. SumFn(s)[s] = SumFn(S)[s]
  BY <1>0, <1>2
<1> QED
  BY <1>3, WorkIs

LEMMA WorkUnfolds ==
  ASSUME NEW S, IsFiniteSet(S)
  PROVE  Work(S) = IF S = {} THEN 0 ELSE PickRow(S).work + Work(S \ {PickRow(S)})
<1>1. Work(S) = SumStep(SumFn(S), S)
  BY SumExists, WorkIs
<1>2. S # {} => SumFn(S)[S \ {PickRow(S)}] = Work(S \ {PickRow(S)})
  BY SumOfSubset
<1> QED
  BY <1>1, <1>2 DEF SumStep

(* Weights are numbers, and so is their sum. *)
LEMMA WorkNat ==
  ASSUME NEW U, IsFiniteSet(U), \A r \in U : r.work \in Nat, NEW S \in SUBSET U
  PROVE  Work(S) \in Nat
<1> DEFINE Bad == {n \in Nat : \E s \in SUBSET U : Cardinality(s) = n /\ Work(s) \notin Nat}
<1>0. \A s \in SUBSET U : IsFiniteSet(s) /\ Cardinality(s) \in Nat
  BY FS_Subset, FS_CardinalityType
<1>1. Bad = {}
  <2> SUFFICES ASSUME Bad # {} PROVE FALSE
    OBVIOUS
  <2>1. PICK n \in Bad : \A m \in Bad : n <= m
    BY Least
  <2>2. PICK s \in SUBSET U : Cardinality(s) = n /\ Work(s) \notin Nat
    BY <2>1
  <2>3. s # {}
    BY <1>0, <2>2, WorkUnfolds
  <2> DEFINE u == s \ {PickRow(s)}
  <2>4. /\ u \in SUBSET U /\ Cardinality(u) = n - 1 /\ n - 1 \in Nat /\ n \in Nat
        /\ PickRow(s) \in U
    BY <1>0, <2>2, <2>3, PickSmaller
  <2>5. Work(u) \in Nat
    BY <2>1, <2>4
  <2>6. Work(s) = PickRow(s).work + Work(u)
    BY <1>0, <2>3, WorkUnfolds
  <2> QED
    BY <2>2, <2>4, <2>5, <2>6
<1> QED
  BY <1>0, <1>1

(* The sum without any one of its rows. *)
LEMMA WorkWithout ==
  ASSUME NEW U, IsFiniteSet(U), \A r \in U : r.work \in Nat, NEW S \in SUBSET U, NEW x \in S
  PROVE  Work(S) = x.work + Work(S \ {x})
<1> DEFINE Bad == {n \in Nat : \E s \in SUBSET U : /\ Cardinality(s) = n
                                                   /\ \E y \in s : Work(s) # y.work + Work(s \ {y})}
<1>0. \A s \in SUBSET U : IsFiniteSet(s) /\ Cardinality(s) \in Nat /\ Work(s) \in Nat
  BY FS_Subset, FS_CardinalityType, WorkNat
<1>1. Bad = {}
  <2> SUFFICES ASSUME Bad # {} PROVE FALSE
    OBVIOUS
  <2>1. PICK n \in Bad : \A m \in Bad : n <= m
    BY Least
  <2>2. PICK s \in SUBSET U : Cardinality(s) = n /\ \E y \in s : Work(s) # y.work + Work(s \ {y})
    BY <2>1
  <2>3. PICK y \in s : Work(s) # y.work + Work(s \ {y})
    BY <2>2
  <2> DEFINE p == PickRow(s)
             u == s \ {p}
             w == s \ {y}
             v == s \ {p, y}
  <2>4. /\ p \in s /\ u \in SUBSET U /\ w \in SUBSET U /\ v \in SUBSET U
        /\ Cardinality(u) = n - 1 /\ Cardinality(w) = n - 1
        /\ n - 1 \in Nat /\ n \in Nat
    BY <1>0, <2>2, <2>3, PickSmaller, FS_RemoveElement
  <2>5. Work(s) = p.work + Work(u)
    BY <1>0, <2>3, WorkUnfolds
  <2>6. p # y /\ p \in w /\ y \in u
    BY <2>3, <2>4, <2>5
  <2>7. n - 1 \notin Bad
    BY <2>1, <2>4
  <2>8. Work(u) = y.work + Work(u \ {y}) /\ Work(w) = p.work + Work(w \ {p})
    BY <2>4, <2>6, <2>7
  <2>9. u \ {y} = v /\ w \ {p} = v
    OBVIOUS
  <2>10. Work(v) \in Nat /\ p.work \in Nat /\ y.work \in Nat
    BY <1>0, <2>3, <2>4
  <2> HIDE DEF p, u, v, w
  <2>11. Work(u) = y.work + Work(v) /\ Work(w) = p.work + Work(v)
    BY <2>8, <2>9
  <2>12. Work(s) = y.work + Work(w)
    BY <2>5, <2>10, <2>11
  <2> QED
    BY <2>3, <2>12 DEF w
<1> QED
  BY <1>0, <1>1

-----------------------------------------------------------------------------
(* Chains: the last row of one, and what is left without it.               *)

(* r is the highest row of the chain C. *)
EndsWith(C, r) == IsChain(C) /\ r \in C /\ \A q \in C : q.hi <= r.hi

LEMMA RowNumbers ==
  \A r \in Rows : /\ r.lo \in Nat /\ r.hi \in Nat /\ r.work \in Nat
                  /\ 1 <= r.lo /\ r.lo <= r.hi
  BY RowsAssumption

(* Every chain has a last row, and its height is that row's. *)
LEMMA ChainTop ==
  ASSUME NEW C \in SUBSET Rows, C # {}, IsFiniteSet(C), IsChain(C)
  PROVE  \E r \in C : EndsWith(C, r)
<1> DEFINE f == [q \in C |-> q.hi]
           H == {r.hi : r \in C}
<1>1. H \in SUBSET Nat /\ H # {}
  BY RowNumbers
<1>2. IsFiniteSet(H)
  <2>1. IsFiniteSet({f[x] : x \in C})
    BY ImageFinite
  <2>2. H = {f[x] : x \in C}
    OBVIOUS
  <2> QED
    BY <2>1, <2>2
<1> HIDE DEF H
<1>3. Max(H) \in H /\ \A m \in H : m <= Max(H)
  BY <1>1, <1>2, Greatest
<1> QED
  BY <1>3 DEF H, EndsWith

LEMMA ChainHeight ==
  ASSUME NEW C \in SUBSET Rows, IsFiniteSet(C), NEW r, EndsWith(C, r)
  PROVE  Height(C) = r.hi
<1> DEFINE f == [q \in C |-> q.hi]
           H == {q.hi : q \in C}
<1>1. H \in SUBSET Nat /\ r.hi \in H
  BY RowNumbers DEF EndsWith
<1>2. IsFiniteSet(H)
  <2>1. IsFiniteSet({f[x] : x \in C})
    BY ImageFinite
  <2>2. H = {f[x] : x \in C}
    OBVIOUS
  <2> QED
    BY <2>1, <2>2
<1>3. \A m \in H : m <= r.hi
  BY DEF EndsWith
<1> HIDE DEF H
<1>4. Max(H) \in H /\ \A m \in H : m <= Max(H)
  BY <1>1, <1>2, Greatest
<1>5. Max(H) <= r.hi /\ r.hi <= Max(H) /\ Max(H) \in Nat /\ r.hi \in Nat
  BY <1>1, <1>3, <1>4
<1> QED
  BY <1>5 DEF Height, H

(* A row anchored at genesis is a chain, and the whole of any it ends. *)
LEMMA ChainStarts ==
  ASSUME NEW r, Anchored(r), r.in_bhash # NoDigest, r \in Rows
  PROVE  EndsWith({r}, r)
  BY RowNumbers DEF EndsWith, IsChain

LEMMA ChainAlone ==
  ASSUME NEW C \in SUBSET Rows, NEW r, EndsWith(C, r), Anchored(r)
  PROVE  C = {r}
<1> SUFFICES ASSUME NEW q \in C, q # r PROVE FALSE
  BY DEF EndsWith
<1>1. q.hi < r.lo \/ r.hi < q.lo
  BY DEF EndsWith, IsChain
<1>2. q.hi <= r.hi /\ r.lo = 1 /\ q \in Rows /\ r \in Rows
  BY DEF EndsWith, Anchored
<1> QED
  BY <1>1, <1>2, RowNumbers

(* A row that seams onto the last row of a chain lengthens it. *)
LEMMA ChainLonger ==
  ASSUME NEW C \in SUBSET Rows, NEW p, EndsWith(C, p), NEW r \in Rows, Seam(p, r), r.in_bhash # NoDigest
  PROVE  EndsWith(C \cup {r}, r) /\ r \notin C
<1>1. \A q \in C : q.hi < r.lo
  <2> SUFFICES ASSUME NEW q \in C PROVE q.hi < r.lo
    OBVIOUS
  <2>1. q.hi <= p.hi /\ p.hi + 1 = r.lo /\ q \in Rows /\ p \in Rows
    BY DEF EndsWith, Seam
  <2> QED
    BY <2>1, RowNumbers
<1>2. r \notin C
  BY <1>1, RowNumbers
<1>3. IsChain(C \cup {r})
  <2>1. \A q \in C \cup {r} : q.in_bhash # NoDigest /\ (Anchored(q) \/ \E o \in C \cup {r} : Seam(o, q))
    BY DEF EndsWith, IsChain
  <2>2. ASSUME NEW a \in C \cup {r}, NEW b \in C \cup {r}, a # b PROVE a.hi < b.lo \/ b.hi < a.lo
    BY <1>1, <2>2 DEF EndsWith, IsChain
  <2> QED
    BY <2>1, <2>2 DEF IsChain
<1>4. \A q \in C \cup {r} : q.hi <= r.hi
  <2> SUFFICES ASSUME NEW q \in C PROVE q.hi <= r.hi
    BY RowNumbers
  <2>1. q \in Rows /\ q.hi < r.lo
    BY <1>1
  <2> QED
    BY <2>1, RowNumbers
<1> QED
  BY <1>2, <1>3, <1>4 DEF EndsWith

(* Without its last row a chain is a chain that ends where that row seams. *)
LEMMA ChainShorter ==
  ASSUME NEW C \in SUBSET Rows, NEW r, EndsWith(C, r), ~Anchored(r)
  PROVE  \E p \in C : /\ p # r /\ Seam(p, r) /\ EndsWith(C \ {r}, p)
                      /\ \A q \in C \ {r} : q.lo < r.lo
<1>1. r \in C /\ \A q \in C : q \in Rows /\ q.hi <= r.hi
  BY DEF EndsWith
<1>2. PICK p \in C : Seam(p, r)
  BY DEF EndsWith, IsChain
<1>3. \A q \in C \ {r} : q.hi < r.lo
  <2> SUFFICES ASSUME NEW q \in C \ {r} PROVE q.hi < r.lo
    OBVIOUS
  <2>1. q.hi < r.lo \/ r.hi < q.lo
    BY <1>1 DEF EndsWith, IsChain
  <2> QED
    BY <1>1, <2>1, RowNumbers
<1>4. p.hi + 1 = r.lo /\ p # r
  <2>1. p.hi + 1 = r.lo
    BY <1>2 DEF Seam
  <2> QED
    BY <1>1, <2>1, RowNumbers
<1>5. \A q \in C \ {r} : q.hi <= p.hi /\ q.lo < r.lo
  <2> SUFFICES ASSUME NEW q \in C \ {r} PROVE q.hi <= p.hi /\ q.lo < r.lo
    OBVIOUS
  <2>1. q.hi < r.lo /\ q \in Rows /\ p \in Rows /\ r \in Rows
    BY <1>1, <1>3
  <2> QED
    BY <1>4, <2>1, RowNumbers
<1>6. IsChain(C \ {r})
  <2>1. ASSUME NEW q \in C \ {r}
        PROVE  q.in_bhash # NoDigest /\ (Anchored(q) \/ \E o \in C \ {r} : Seam(o, q))
    <3>1. q.in_bhash # NoDigest /\ (Anchored(q) \/ \E o \in C : Seam(o, q))
      BY DEF EndsWith, IsChain
    <3>2. ~Seam(r, q)
      <4>1. q \in Rows /\ r \in Rows /\ q.hi <= r.hi
        BY <1>1
      <4> QED
        BY <4>1, RowNumbers DEF Seam
    <3> QED
      BY <3>1, <3>2
  <2>2. \A a, b \in C \ {r} : a # b => a.hi < b.lo \/ b.hi < a.lo
    BY DEF EndsWith, IsChain
  <2> QED
    BY <2>1, <2>2 DEF IsChain
<1> QED
  BY <1>2, <1>4, <1>5, <1>6 DEF EndsWith


-----------------------------------------------------------------------------
(* The walk. What it remembers of a row it has looked at is the most work of *)
(* the chains that end with that row: whatever comes before the row in such  *)
(* a chain starts lower, so it has been looked at already.                   *)

WalkTyped ==
  /\ table \in Seq(Rows)
  /\ phase \in {"idle", "walk"}
  /\ rows \subseteq Rows /\ IsFiniteSet(rows)
  /\ todo \subseteq rows
  /\ DOMAIN best \subseteq rows \ todo

LowestFirst == \A v \in rows \ todo, q \in todo : v.lo <= q.lo

BestAttained ==
  \A r \in DOMAIN best : best[r] \in Nat /\ \E C \in SUBSET rows : EndsWith(C, r) /\ Work(C) = best[r]

BestBounds ==
  \A r \in rows \ todo : \A C \in SUBSET rows : EndsWith(C, r) => r \in DOMAIN best /\ Work(C) <= best[r]

FrontierIsBest ==
  /\ \/ frontier = NoFrontier
     \/ \E r \in DOMAIN best : frontier = [hi |-> r.hi, tip |-> r.out_tip, work |-> best[r]]
  /\ \A r \in DOMAIN best : \/ best[r] < frontier.work
                            \/ best[r] = frontier.work /\ r.hi <= frontier.hi

WalkInv == WalkTyped /\ LowestFirst /\ BestAttained /\ BestBounds /\ FrontierIsBest

(* The subsets of the rows a walk fetched have a work, and one row adds its own. *)
LEMMA RowsWork ==
  ASSUME WalkTyped, NEW C \in SUBSET rows
  PROVE  /\ IsFiniteSet(C) /\ C \in SUBSET Rows /\ Work(C) \in Nat
         /\ \A r \in C : Work(C) = r.work + Work(C \ {r})
<1>1. IsFiniteSet(rows) /\ \A r \in rows : r.work \in Nat
  BY RowNumbers DEF WalkTyped
<1>2. IsFiniteSet(C) /\ Work(C) \in Nat /\ C \in SUBSET Rows
  BY <1>1, FS_Subset, WorkNat DEF WalkTyped
<1>3. \A r \in C : Work(C) = r.work + Work(C \ {r})
  BY <1>1, WorkWithout
<1> QED
  BY <1>2, <1>3

(* The most work of the rows that r seams onto is that of one of them. *)
LEMMA PredsMax ==
  ASSUME WalkInv, NEW r, Preds(r) # {}
  PROVE  /\ \E p \in Preds(r) : best[p] = Max({best[q] : q \in Preds(r)})
         /\ \A p \in Preds(r) : best[p] <= Max({best[q] : q \in Preds(r)})
<1> DEFINE H == {best[q] : q \in Preds(r)}
<1>1. Preds(r) \in SUBSET rows /\ IsFiniteSet(Preds(r))
  BY FS_Subset DEF WalkInv, WalkTyped, Preds
<1>2. IsFiniteSet(H)
  BY <1>1, ImageFinite
<1>3. H \in SUBSET Nat /\ H # {}
  BY DEF WalkInv, BestAttained, Preds
<1>4. \A p \in Preds(r) : best[p] \in H
  OBVIOUS
<1>5. \A m \in H : \E p \in Preds(r) : best[p] = m
  OBVIOUS
<1> HIDE DEF H
<1>6. Max(H) \in H /\ \A m \in H : m <= Max(H)
  BY <1>2, <1>3, Greatest
<1>7. (\E p \in Preds(r) : best[p] = Max(H)) /\ \A p \in Preds(r) : best[p] <= Max(H)
  BY <1>4, <1>5, <1>6
<1> QED
  BY <1>7 DEF H

(* Looking at a row: a chain that ends with it has its cumulative work, *)
LEMMA VisitAttains ==
  ASSUME WalkInv, NEW r \in todo, Reached(r)
  PROVE  /\ CumulativeWork(r) \in Nat
         /\ \E C \in SUBSET rows : EndsWith(C, r) /\ Work(C) = CumulativeWork(r)
<1>0. r \in rows /\ r \in Rows /\ WalkTyped /\ r.in_bhash # NoDigest
  BY DEF WalkInv, WalkTyped, Reached
<1>1. CASE Anchored(r)
  <2>1. {r} \in SUBSET rows /\ EndsWith({r}, r)
    BY <1>0, <1>1, ChainStarts
  <2>2. Work({r}) = r.work + Work({r} \ {r}) /\ {r} \ {r} = {}
    BY <1>0, <2>1, RowsWork
  <2>3. Work({}) = 0
    BY FS_EmptySet, WorkUnfolds
  <2>4. Work({r}) = r.work /\ r.work \in Nat
    BY <1>0, <2>2, <2>3, RowNumbers
  <2> QED
    BY <1>1, <2>1, <2>4 DEF CumulativeWork
<1>2. CASE ~Anchored(r)
  <2> DEFINE M == Max({best[q] : q \in Preds(r)})
  <2>1. PICK p \in Preds(r) : best[p] = M
    BY <1>2, PredsMax DEF Reached
  <2>2. p \in DOMAIN best /\ Seam(p, r)
    BY <2>1 DEF Preds
  <2>3. PICK C \in SUBSET rows : EndsWith(C, p) /\ Work(C) = best[p]
    BY <2>2 DEF WalkInv, BestAttained
  <2>4. EndsWith(C \cup {r}, r) /\ r \notin C /\ C \cup {r} \in SUBSET rows
    BY <1>0, <2>2, <2>3, RowsWork, ChainLonger
  <2>5. (C \cup {r}) \ {r} = C
    BY <2>4
  <2>6. Work(C \cup {r}) = r.work + Work(C)
    BY <1>0, <2>4, <2>5, RowsWork
  <2>7. r.work \in Nat /\ Work(C) \in Nat
    BY <1>0, <2>3, RowsWork, RowNumbers
  <2>8. CumulativeWork(r) = M + r.work
    BY <1>2 DEF CumulativeWork
  <2> HIDE DEF M
  <2> QED
    BY <2>1, <2>3, <2>4, <2>6, <2>7, <2>8
<1> QED
  BY <1>1, <1>2

(* and no chain that ends with it has more. *)
LEMMA VisitBounds ==
  ASSUME WalkInv, NEW r \in todo, \A q \in todo : r.lo <= q.lo,
         NEW C \in SUBSET rows, EndsWith(C, r)
  PROVE  Reached(r) /\ Work(C) <= CumulativeWork(r)
<1>0. /\ r \in rows /\ r \in Rows /\ WalkTyped /\ r \in C /\ r.in_bhash # NoDigest
      /\ C \in SUBSET Rows /\ IsFiniteSet(C)
  BY RowsWork DEF WalkInv, WalkTyped, EndsWith, IsChain
<1>1. CASE Anchored(r)
  <2>1. C = {r}
    BY <1>0, <1>1, ChainAlone
  <2>2. Work(C) = r.work + Work(C \ {r})
    BY <1>0, RowsWork
  <2>3. Work(C \ {r}) = 0
    <3>1. C \ {r} = {}
      BY <2>1
    <3> QED
      BY <3>1, FS_EmptySet, WorkUnfolds
  <2>4. r.work \in Nat
    BY <1>0, RowNumbers
  <2>5. Work(C) = r.work /\ Work(C) <= r.work
    BY <2>2, <2>3, <2>4
  <2> QED
    BY <1>0, <1>1, <2>5 DEF CumulativeWork, Reached
<1>2. CASE ~Anchored(r)
  <2> DEFINE M == Max({best[q] : q \in Preds(r)})
             D == C \ {r}
  <2>1. PICK p \in C : p # r /\ Seam(p, r) /\ EndsWith(D, p) /\ \A q \in D : q.lo < r.lo
    BY <1>0, <1>2, ChainShorter
  <2>2. p \in rows /\ p.lo < r.lo /\ p \in Rows
    BY <1>0, <2>1
  <2>3. p \notin todo
    <3>1. ~(r.lo <= p.lo)
      BY <1>0, <2>2, RowNumbers
    <3> QED
      BY <3>1
  <2>4. D \in SUBSET rows
    OBVIOUS
  <2>5. p \in DOMAIN best /\ Work(D) <= best[p]
    BY <2>1, <2>2, <2>3, <2>4 DEF WalkInv, BestBounds
  <2>6. p \in Preds(r)
    BY <2>1, <2>5 DEF Preds
  <2>7. best[p] <= M /\ \E q \in Preds(r) : best[q] = M
    BY <2>6, PredsMax
  <2>8. \A q \in Preds(r) : best[q] \in Nat
    BY DEF WalkInv, BestAttained, Preds
  <2>9. Work(C) = r.work + Work(D) /\ r.work \in Nat /\ Work(D) \in Nat
    BY <1>0, <2>4, RowsWork, RowNumbers
  <2>10. CumulativeWork(r) = M + r.work /\ Reached(r)
    BY <1>0, <1>2, <2>6 DEF CumulativeWork, Reached
  <2> HIDE DEF M, D
  <2> QED
    BY <2>5, <2>6, <2>7, <2>8, <2>9, <2>10
<1> QED
  BY <1>1, <1>2


(* Rows are recorded at any time, and the walk does not see them. *)
LEMMA RecordKeeps ==
  ASSUME WalkInv, NEW r \in Rows, Record(r)
  PROVE  WalkInv'
<1>1. table' \in Seq(Rows)
  <2> DEFINE same == {i \in DOMAIN table : Span(table[i]) = Span(r)}
  <2>1. table \in Seq(Rows)
    BY DEF WalkInv, WalkTyped
  <2>2. ASSUME NEW i \in DOMAIN table PROVE RemoveAt(table, i) \in Seq(Rows)
    BY <2>1 DEF RemoveAt
  <2>3. same # {} => (CHOOSE i \in same : TRUE) \in DOMAIN table
    OBVIOUS
  <2> HIDE DEF same
  <2>4. Kept(r) \in Seq(Rows)
    BY <2>1, <2>2, <2>3 DEF Kept, same
  <2> QED
    BY <2>4 DEF Record
<1> QED
  BY <1>1 DEF Record, WalkInv, WalkTyped, LowestFirst, BestAttained, BestBounds, FrontierIsBest

LEMMA FetchKeeps ==
  ASSUME WalkInv, FetchRows
  PROVE  WalkInv'
<1>1. table \in Seq(Rows)
  BY DEF WalkInv, WalkTyped
<1>2. ToSet(table) \subseteq Rows
  BY <1>1 DEF ToSet
<1>3. IsFiniteSet(ToSet(table))
  <2>1. Len(table) \in Nat /\ DOMAIN table = 1..Len(table)
    BY <1>1
  <2>2. IsFiniteSet(1..Len(table))
    BY <2>1, FS_Interval
  <2>3. IsFiniteSet({table[i] : i \in 1..Len(table)})
    BY <2>2, ImageFinite
  <2> QED
    BY <2>1, <2>3 DEF ToSet
<1>4. rows' = ToSet(table) /\ todo' = rows' /\ DOMAIN best' = {} /\ frontier' = NoFrontier
  BY DEF FetchRows
<1>5. WalkTyped'
  BY <1>1, <1>2, <1>3, <1>4 DEF WalkTyped, FetchRows
<1> QED
  BY <1>4, <1>5 DEF WalkInv, LowestFirst, BestAttained, BestBounds, FrontierIsBest

LEMMA ReturnKeeps ==
  ASSUME WalkInv, Return
  PROVE  WalkInv'
<1>1. /\ rows' = {} /\ todo' = {} /\ DOMAIN best' = {} /\ frontier' = NoFrontier
      /\ IsFiniteSet(rows') /\ table' = table /\ phase' = "idle"
  BY FS_EmptySet DEF Return
<1> QED
  BY <1>1 DEF WalkInv, WalkTyped, LowestFirst, BestAttained, BestBounds, FrontierIsBest

LEMMA VisitKeeps ==
  ASSUME WalkInv, NEW r \in todo, Visit(r)
  PROVE  WalkInv'
<1>0. /\ WalkTyped /\ LowestFirst /\ BestAttained /\ BestBounds /\ FrontierIsBest
      /\ r \in rows /\ r \in Rows /\ r \notin DOMAIN best
      /\ \A q \in todo : r.lo <= q.lo
  BY DEF WalkInv, WalkTyped, Visit
<1>1. UNCHANGED <<table, phase, rows>> /\ todo' = todo \ {r}
  BY DEF Visit
<1>2. LowestFirst'
  BY <1>0, <1>1 DEF LowestFirst
<1>3. CASE ~Reached(r)
  <2>1. UNCHANGED <<best, frontier>>
    BY <1>3 DEF Visit
  <2>2. \A C \in SUBSET rows : ~EndsWith(C, r)
    BY <1>0, <1>3, VisitBounds
  <2>3. BestBounds'
    BY <1>0, <1>1, <2>1, <2>2 DEF BestBounds
  <2>4. WalkTyped'
    BY <1>0, <1>1, <2>1 DEF WalkTyped
  <2> QED
    BY <1>0, <1>1, <1>2, <2>1, <2>3, <2>4 DEF WalkInv, BestAttained, FrontierIsBest
<1>4. CASE Reached(r)
  <2> DEFINE cw == CumulativeWork(r)
  <2>1. cw \in Nat /\ \E C \in SUBSET rows : EndsWith(C, r) /\ Work(C) = cw
    BY <1>4, VisitAttains
  <2>2. \A C \in SUBSET rows : EndsWith(C, r) => Work(C) <= cw
    BY <1>0, VisitBounds
  <2>3. best' = [q \in DOMAIN best \cup {r} |-> IF q = r THEN cw ELSE best[q]]
    BY <1>4 DEF Visit
  <2>4. \/ Better(r, cw) /\ frontier' = [hi |-> r.hi, tip |-> r.out_tip, work |-> cw]
        \/ ~Better(r, cw) /\ UNCHANGED frontier
    BY <1>4 DEF Visit
  <2> HIDE DEF cw
  <2>5. /\ DOMAIN best' = DOMAIN best \cup {r} /\ best'[r] = cw
        /\ \A q \in DOMAIN best : best'[q] = best[q]
    BY <1>0, <2>3
  <2>6. WalkTyped'
    BY <1>0, <1>1, <2>5 DEF WalkTyped
  <2>7. BestAttained'
    BY <1>0, <1>1, <2>1, <2>5 DEF BestAttained
  <2>8. BestBounds'
    BY <1>0, <1>1, <2>2, <2>5 DEF BestBounds
  <2>9. FrontierIsBest'
    <3>1. \A q \in DOMAIN best' : q.hi \in Nat /\ best'[q] \in Nat
      BY <1>0, <2>1, <2>5, RowNumbers DEF BestAttained, WalkTyped
    <3>2. frontier.work \in Nat /\ frontier.hi \in Nat
      BY <1>0, <2>5, <3>1 DEF FrontierIsBest, NoFrontier
    <3>3. CASE Better(r, cw)
      <4>1. frontier'.hi = r.hi /\ frontier'.work = cw
            /\ frontier' = [hi |-> r.hi, tip |-> r.out_tip, work |-> best'[r]]
        BY <2>4, <2>5, <3>3
      <4>2. cw > frontier.work \/ (cw = frontier.work /\ r.hi > frontier.hi)
        BY <3>3 DEF Better
      <4>3. ASSUME NEW q \in DOMAIN best'
            PROVE  best'[q] < frontier'.work \/ (best'[q] = frontier'.work /\ q.hi <= frontier'.hi)
        <5>1. r.hi \in Nat /\ cw \in Nat /\ q.hi \in Nat /\ best'[q] \in Nat
          BY <2>5, <3>1
        <5>2. CASE q = r
          BY <2>5, <4>1, <5>1, <5>2
        <5>3. CASE q # r
          <6>1. best'[q] < frontier.work \/ (best'[q] = frontier.work /\ q.hi <= frontier.hi)
            BY <1>0, <2>5, <5>3 DEF FrontierIsBest
          <6> QED
            BY <3>2, <4>1, <4>2, <5>1, <6>1
        <5> QED
          BY <5>2, <5>3
      <4> QED
        BY <2>5, <4>1, <4>3 DEF FrontierIsBest
    <3>4. CASE ~Better(r, cw)
      <4>1. frontier' = frontier
        BY <2>4, <3>4
      <4>2. ~(cw > frontier.work) /\ ~(cw = frontier.work /\ r.hi > frontier.hi)
        BY <3>4 DEF Better
      <4>3. r.hi \in Nat /\ cw \in Nat
        BY <2>5, <3>1
      <4>4. best'[r] < frontier.work \/ (best'[r] = frontier.work /\ r.hi <= frontier.hi)
        BY <2>5, <3>2, <4>2, <4>3
      <4>5. \A q \in DOMAIN best' : best'[q] < frontier.work \/ (best'[q] = frontier.work /\ q.hi <= frontier.hi)
        BY <1>0, <2>5, <4>4 DEF FrontierIsBest
      <4>6. frontier = NoFrontier \/ \E q \in DOMAIN best' : frontier = [hi |-> q.hi, tip |-> q.out_tip, work |-> best'[q]]
        BY <1>0, <2>5 DEF FrontierIsBest
      <4> QED
        BY <4>1, <4>5, <4>6 DEF FrontierIsBest, NoFrontier
    <3> QED
      BY <3>3, <3>4
  <2> QED
    BY <1>2, <2>6, <2>7, <2>8, <2>9 DEF WalkInv
<1> QED
  BY <1>3, <1>4

LEMMA WalkInit == Init => WalkInv
<1> SUFFICES ASSUME Init PROVE WalkInv
  OBVIOUS
<1>1. rows = {} /\ todo = {} /\ DOMAIN best = {} /\ frontier = NoFrontier /\ table = <<>> /\ phase = "idle"
  BY DEF Init
<1>2. IsFiniteSet(rows) /\ table \in Seq(Rows)
  BY <1>1, FS_EmptySet
<1> QED
  BY <1>1, <1>2 DEF WalkInv, WalkTyped, LowestFirst, BestAttained, BestBounds, FrontierIsBest

LEMMA WalkNext == WalkInv /\ [Next]_vars => WalkInv'
<1> SUFFICES ASSUME WalkInv, [Next]_vars PROVE WalkInv'
  OBVIOUS
<1>1. CASE UNCHANGED vars
  BY <1>1 DEF vars, WalkInv, WalkTyped, LowestFirst, BestAttained, BestBounds, FrontierIsBest, NoFrontier
<1> QED
  BY <1>1, RecordKeeps, FetchKeeps, ReturnKeeps, VisitKeeps DEF Next

(* When nothing is left to look at, the frontier is the most-work chain. *)
LEMMA WalkEnds == WalkInv => FrontierIsMostWork
<1> SUFFICES ASSUME WalkInv, phase = "walk", todo = {}
             PROVE  LET Chains == {C \in SUBSET rows : C # {} /\ IsChain(C)}
                    IN  IF Chains = {} THEN frontier = NoFrontier
                        ELSE /\ \E C \in Chains :
                                  /\ Work(C) = frontier.work /\ Height(C) = frontier.hi
                                  /\ \E r \in C : r.hi = frontier.hi /\ r.out_tip = frontier.tip
                             /\ \A C \in Chains : \/ Work(C) < frontier.work
                                                  \/ /\ Work(C) = frontier.work
                                                     /\ Height(C) <= frontier.hi
  BY DEF FrontierIsMostWork
<1> DEFINE Chains == {C \in SUBSET rows : C # {} /\ IsChain(C)}
<1>0. WalkTyped /\ BestAttained /\ BestBounds /\ FrontierIsBest /\ rows \subseteq Rows
  BY DEF WalkInv, WalkTyped
<1>1. ASSUME NEW C \in Chains
      PROVE  \E r \in DOMAIN best : /\ Height(C) = r.hi /\ Work(C) \in Nat /\ Work(C) <= best[r]
                                    /\ best[r] \in Nat /\ r.hi \in Nat
  <2>1. IsFiniteSet(C) /\ C \in SUBSET Rows /\ Work(C) \in Nat
    BY <1>0, RowsWork
  <2>2. PICK r \in C : EndsWith(C, r)
    BY <2>1, ChainTop
  <2>3. r \in DOMAIN best /\ Work(C) <= best[r]
    BY <1>0, <2>2 DEF BestBounds
  <2> QED
    BY <1>0, <2>1, <2>2, <2>3, ChainHeight, RowNumbers DEF BestAttained
<1>2. CASE Chains = {}
  <2>1. DOMAIN best = {}
    <3> SUFFICES ASSUME NEW r \in DOMAIN best PROVE FALSE
      OBVIOUS
    <3>1. PICK C \in SUBSET rows : EndsWith(C, r)
      BY <1>0 DEF BestAttained
    <3> QED
      BY <1>2, <3>1 DEF EndsWith
  <2>2. frontier = NoFrontier
    BY <1>0, <2>1 DEF FrontierIsBest
  <2> QED
    BY <1>2, <2>2
<1>3. CASE Chains # {}
  <2>1. PICK r0 \in DOMAIN best : best[r0] \in Nat /\ r0.hi \in Nat /\ 1 <= r0.hi
    <3>1. PICK C \in Chains : TRUE
      BY <1>3
    <3>2. PICK r \in DOMAIN best : best[r] \in Nat
      BY <1>1
    <3>3. r \in Rows
      BY <1>0 DEF WalkTyped
    <3> QED
      BY <3>2, <3>3, RowNumbers
  <2>2. frontier # NoFrontier
    <3>1. best[r0] < frontier.work \/ (best[r0] = frontier.work /\ r0.hi <= frontier.hi)
      BY <1>0 DEF FrontierIsBest
    <3> QED
      BY <2>1, <3>1 DEF NoFrontier
  <2>3. PICK r \in DOMAIN best : frontier = [hi |-> r.hi, tip |-> r.out_tip, work |-> best[r]]
    BY <1>0, <2>2 DEF FrontierIsBest
  <2>4. frontier.hi = r.hi /\ frontier.tip = r.out_tip /\ frontier.work = best[r]
        /\ best[r] \in Nat /\ r.hi \in Nat
    <3>1. r \in Rows
      BY <1>0 DEF WalkTyped
    <3> QED
      BY <1>0, <2>3, <3>1, RowNumbers DEF BestAttained
  <2>5. \E C \in Chains : /\ Work(C) = frontier.work /\ Height(C) = frontier.hi
                          /\ \E q \in C : q.hi = frontier.hi /\ q.out_tip = frontier.tip
    <3>1. PICK C \in SUBSET rows : EndsWith(C, r) /\ Work(C) = best[r]
      BY <1>0 DEF BestAttained
    <3>2. Height(C) = r.hi
      BY <1>0, <3>1, RowsWork, ChainHeight
    <3>3. C \in Chains /\ r \in C
      BY <3>1 DEF EndsWith
    <3> QED
      BY <2>4, <3>1, <3>2, <3>3
  <2>6. ASSUME NEW C \in Chains
        PROVE  Work(C) < frontier.work \/ (Work(C) = frontier.work /\ Height(C) <= frontier.hi)
    <3>1. PICK q \in DOMAIN best : /\ Height(C) = q.hi /\ Work(C) \in Nat /\ Work(C) <= best[q]
                                   /\ best[q] \in Nat /\ q.hi \in Nat
      BY <1>1
    <3>2. best[q] < frontier.work \/ (best[q] = frontier.work /\ q.hi <= frontier.hi)
      BY <1>0 DEF FrontierIsBest
    <3> QED
      BY <2>4, <3>1, <3>2
  <2> QED
    BY <1>3, <2>5, <2>6
<1> QED
  BY <1>2, <1>3

(* The walk of _frontier_chain ends with the most-work chain of the rows it
   fetched, the tallest of those of equal work, whatever rows there are, in
   whatever order rows of one start come, and whatever is recorded meanwhile. *)
THEOREM WalkFindsMostWork == Spec => []FrontierIsMostWork
  BY WalkInit, WalkNext, WalkEnds, PTL DEF Spec

(* The same when keys are rotated and spines submitted between its steps. *)
THEOREM CreditsWalkFindsMostWork == CSpec => []FrontierIsMostWork
<1>1. CInit => Init
  BY DEF CInit
<1>2. [CNext]_<<vars, cvars>> => [Next]_vars
  BY DEF CNext, Next
<1> QED
  BY <1>1, <1>2, WalkInit, WalkNext, WalkEnds, PTL DEF CSpec


-----------------------------------------------------------------------------
(* Folds over sequences: the last element is picked first, so the prefixes   *)
(* are folded one after the other.                                           *)

(* A fold whose step is a function over a set of accumulators exists. *)
FoldOf(f, n, base, g) ==
  f = [s \in SUBSET (1..n) |-> IF s = {} THEN base ELSE g[<<f[s \ {Max(s)}], Max(s)>>]]

LEMMA FoldExists ==
  ASSUME NEW n \in Nat, NEW A, NEW base \in A, NEW g \in [A \X (1..n) -> A]
  PROVE  \E f \in [SUBSET (1..n) -> A] : FoldOf(f, n, base, g)
<1> DEFINE S == 1..n
           D(c) == {s \in SUBSET S : Cardinality(s) <= c}
           Good(f, c) == /\ f \in [D(c) -> A]
                         /\ f = [s \in D(c) |-> IF s = {} THEN base ELSE g[<<f[s \ {Max(s)}], Max(s)>>]]
           Bad == {c \in Nat : ~\E f : Good(f, c)}
<1>0. IsFiniteSet(S) /\ \A s \in SUBSET S : IsFiniteSet(s) /\ Cardinality(s) \in Nat /\ Cardinality(s) <= Cardinality(S)
  <2>1. IsFiniteSet(S)
    BY FS_Interval
  <2> HIDE DEF S
  <2> QED
    BY <2>1, FS_Subset, FS_CardinalityType
<1>s. ASSUME NEW s \in SUBSET S, s # {}
      PROVE  /\ Max(s) \in s /\ Max(s) \in S /\ s \ {Max(s)} \in SUBSET S
             /\ Cardinality(s \ {Max(s)}) = Cardinality(s) - 1 /\ Cardinality(s) \in Nat \ {0}
  <2>1. s \in SUBSET Nat /\ IsFiniteSet(s)
    BY <1>0
  <2>2. Max(s) \in s
    BY <1>s, <2>1, Greatest
  <2> QED
    BY <1>0, <1>s, <2>2, FS_RemoveElement, FS_EmptySet
<1>1. Bad = {}
  <2> SUFFICES ASSUME Bad # {} PROVE FALSE
    OBVIOUS
  <2>1. PICK c \in Bad : \A d \in Bad : c <= d
    BY Least
  <2>2. CASE c = 0
    <3> DEFINE f == [s \in D(c) |-> base]
    <3>1. \A s \in D(c) : s = {}
      BY <1>0, <2>2, FS_EmptySet
    <3>2. Good(f, c)
      BY <3>1
    <3> HIDE DEF Good
    <3> QED
      BY <2>1, <3>2
  <2>3. CASE c # 0
    <3>1. c \in Nat /\ c - 1 \in Nat /\ ~(c <= c - 1)
      BY <2>1, <2>3
    <3>2. c - 1 \notin Bad
      <4> HIDE DEF Bad
      <4> QED
        BY <2>1, <3>1
    <3>3. PICK f : Good(f, c - 1)
      BY <3>1, <3>2
    <3> DEFINE h == [s \in D(c) |-> IF s = {} THEN base ELSE g[<<f[s \ {Max(s)}], Max(s)>>]]
    <3>4. ASSUME NEW s \in D(c), s # {}
          PROVE  s \ {Max(s)} \in D(c - 1) /\ s \ {Max(s)} \in D(c) /\ Max(s) \in S
      <4>1. s \in SUBSET S /\ Cardinality(s) <= c
        OBVIOUS
      <4>2. /\ Max(s) \in S /\ s \ {Max(s)} \in SUBSET S
            /\ Cardinality(s \ {Max(s)}) = Cardinality(s) - 1 /\ Cardinality(s) \in Nat \ {0}
        BY <1>s, <3>4, <4>1
      <4> QED
        BY <3>1, <4>1, <4>2
    <3>5. h \in [D(c) -> A]
      <4> SUFFICES ASSUME NEW s \in D(c), s # {} PROVE g[<<f[s \ {Max(s)}], Max(s)>>] \in A
        OBVIOUS
      <4>1. f[s \ {Max(s)}] \in A /\ Max(s) \in S
        BY <3>3, <3>4
      <4> QED
        BY <4>1
    <3>6. \A s \in D(c - 1) : h[s] = f[s]
      <4> SUFFICES ASSUME NEW s \in D(c - 1) PROVE h[s] = f[s]
        OBVIOUS
      <4>1. s \in D(c)
        BY <1>0, <3>1
      <4>2. f[s] = IF s = {} THEN base ELSE g[<<f[s \ {Max(s)}], Max(s)>>]
        BY <3>3
      <4> QED
        BY <4>1, <4>2
    <3>7. h = [s \in D(c) |-> IF s = {} THEN base ELSE g[<<h[s \ {Max(s)}], Max(s)>>]]
      <4>1. \A s \in D(c) : s # {} => h[s \ {Max(s)}] = f[s \ {Max(s)}]
        BY <3>4, <3>6
      <4> QED
        BY <4>1
    <3>8. Good(h, c)
      BY <3>5, <3>7
    <3> HIDE DEF Good, h
    <3> QED
      BY <2>1, <3>8
  <2> QED
    BY <2>2, <2>3
<1>2. D(Cardinality(S)) = SUBSET S
  BY <1>0
<1>3. \E f : Good(f, Cardinality(S))
  <2>1. Cardinality(S) \in Nat /\ Cardinality(S) \notin Bad
    BY <1>0, <1>1
  <2> HIDE DEF Good
  <2> QED
    BY <2>1
<1> HIDE DEF D
<1> QED
  BY <1>2, <1>3 DEF FoldOf

(* The prefixes of a sequence's indices. *)
LEMMA PrefixMax ==
  ASSUME NEW k \in Nat, k # 0
  PROVE  Max(1..k) = k
<1> DEFINE S == 1..k
<1>1. S \in SUBSET Nat /\ k \in S /\ \A m \in S : m <= k
  OBVIOUS
<1>2. IsFiniteSet(S)
  <2>1. k \in Int /\ 1 \in Int
    OBVIOUS
  <2> QED
    BY <2>1, FS_Interval
<1> HIDE DEF S
<1>3. Max(S) \in S /\ k <= Max(S)
  BY <1>1, <1>2, Greatest
<1>4. Max(S) <= k /\ Max(S) \in Nat
  BY <1>1, <1>3
<1>5. Max(S) = k
  BY <1>3, <1>4
<1> QED
  BY <1>5 DEF S

LEMMA PrefixSets ==
  ASSUME NEW n \in Nat
  PROVE  /\ 1..0 = {}
         /\ \A k \in 0..n : 1..k \in SUBSET (1..n)
         /\ \A k \in 1..n : 1..k # {} /\ (1..k) \ {k} = 1..(k - 1)
<1>1. \A k \in 0..n : 1..k \in SUBSET (1..n)
  OBVIOUS
<1>2. ASSUME NEW k \in 1..n PROVE 1..k # {} /\ (1..k) \ {k} = 1..(k - 1)
  <2>1. k \in Nat /\ k # 0 /\ k \in 1..k
    OBVIOUS
  <2>2. \A m : m \in (1..k) \ {k} <=> m \in 1..(k - 1)
    BY <2>1
  <2> QED
    BY <2>1, <2>2
<1> QED
  BY <1>1, <1>2

-----------------------------------------------------------------------------
(* Merging intervals, as proven_count does.                                *)

LEMMA EarlierOrders ==
  ASSUME NEW p \in Nat \X Nat, NEW q \in Nat \X Nat, NEW r \in Nat \X Nat
  PROVE  /\ ~Earlier(p, p)
         /\ Earlier(p, q) /\ Earlier(q, r) => Earlier(p, r)
         /\ p = q \/ Earlier(p, q) \/ Earlier(q, p)
<1>1. p = <<p[1], p[2]>> /\ q = <<q[1], q[2]>> /\ {p[1], p[2], q[1], q[2], r[1], r[2]} \subseteq Nat
  OBVIOUS
<1>2. ~Earlier(p, p)
  BY <1>1 DEF Earlier
<1>3. Earlier(p, q) /\ Earlier(q, r) => Earlier(p, r)
  BY <1>1 DEF Earlier
<1>4. p = q \/ Earlier(p, q) \/ Earlier(q, p)
  <2>1. CASE p[1] = q[1] /\ p[2] = q[2]
    BY <1>1, <2>1, Zenon
  <2>2. CASE ~(p[1] = q[1] /\ p[2] = q[2])
    BY <1>1, <2>2 DEF Earlier
  <2> QED
    BY <2>1, <2>2
<1> QED
  BY <1>2, <1>3, <1>4

(* Spans sorted by how many are earlier come in order, each of them once. *)
LEMMA SortedSpans ==
  ASSUME NEW spans \in SUBSET (Nat \X Nat), IsFiniteSet(spans)
  PROVE  /\ Cardinality(spans) \in Nat
         /\ Sorted(spans) \in [1..Cardinality(spans) -> spans]
         /\ \A s \in spans : \E i \in 1..Cardinality(spans) : Sorted(spans)[i] = s
         /\ \A i, j \in 1..Cardinality(spans) : i < j => Earlier(Sorted(spans)[i], Sorted(spans)[j])
<1> DEFINE n == Cardinality(spans)
           Below(s) == {q \in spans : Earlier(q, s)}
           rank == [s \in spans |-> Cardinality(Below(s))]
           S == Sorted(spans)
<1>1. n \in Nat
  BY FS_CardinalityType
<1>2. \A s \in spans : /\ Below(s) \in SUBSET spans /\ IsFiniteSet(Below(s))
                       /\ rank[s] \in Nat /\ rank[s] = Cardinality(Below(s))
  BY FS_Subset, FS_CardinalityType
<1>3. ASSUME NEW p \in spans, NEW q \in spans, Earlier(p, q)
      PROVE  rank[p] < rank[q]
  <2>1. Below(p) \in SUBSET Below(q)
    BY <1>3, EarlierOrders
  <2>2. p \in Below(q) /\ p \notin Below(p)
    BY <1>3, EarlierOrders
  <2>3. IsFiniteSet(Below(q)) /\ rank[p] = Cardinality(Below(p)) /\ rank[q] = Cardinality(Below(q))
        /\ rank[p] \in Nat /\ rank[q] \in Nat
    BY <1>2
  <2> HIDE DEF Below, rank
  <2>4. rank[p] <= rank[q] /\ rank[p] # rank[q]
    BY <2>1, <2>2, <2>3, FS_Subset
  <2> QED
    BY <2>3, <2>4
<1>4. ASSUME NEW s \in spans PROVE rank[s] \in 0..(n - 1)
  <2>1. s \notin Below(s) /\ Below(s) \in SUBSET spans /\ rank[s] = Cardinality(Below(s)) /\ rank[s] \in Nat
    BY <1>2, EarlierOrders
  <2> HIDE DEF Below, rank
  <2>2. rank[s] <= n /\ rank[s] # n
    BY <2>1, FS_Subset
  <2> QED
    BY <1>1, <2>1, <2>2
<1>5. \A p, q \in spans : rank[p] = rank[q] => p = q
  <2> HIDE DEF rank, Below
  <2> SUFFICES ASSUME NEW p \in spans, NEW q \in spans, rank[p] = rank[q], p # q PROVE FALSE
    OBVIOUS
  <2>1. rank[p] < rank[q] \/ rank[q] < rank[p]
    BY <1>3, EarlierOrders
  <2> QED
    BY <1>2, <2>1
<1>6. ASSUME NEW i \in 1..n PROVE \E s \in spans : rank[s] = i - 1
  <2>1. rank \in Injection(spans, 0..(n - 1))
    BY <1>4, <1>5 DEF Injection, IsInjective
  <2>2. IsFiniteSet(0..(n - 1)) /\ Cardinality(0..(n - 1)) = n
    <3>1. 0 \in Int /\ n - 1 \in Int /\ (n = 0 \/ 0 <= n - 1) /\ (n - 1) - 0 + 1 = n /\ (n = 0 => 0 > n - 1)
      BY <1>1
    <3> HIDE DEF n
    <3>2. IsFiniteSet(0..(n - 1)) /\ Cardinality(0..(n - 1)) = IF 0 > n - 1 THEN 0 ELSE (n - 1) - 0 + 1
      BY <3>1, FS_Interval, Zenon
    <3> QED
      BY <1>1, <3>1, <3>2
  <2> HIDE DEF rank
  <2>3. rank \in Surjection(spans, 0..(n - 1))
    BY <2>1, <2>2, FS_Injection
  <2>4. i - 1 \in 0..(n - 1)
    BY <1>1
  <2> QED
    BY <2>3, <2>4 DEF Surjection
<1>7. ASSUME NEW i \in 1..n PROVE S[i] \in spans /\ rank[S[i]] = i - 1
  <2>1. \E s \in spans : Cardinality({q \in spans : Earlier(q, s)}) = i - 1
    BY <1>6
  <2>2. S[i] = CHOOSE s \in spans : Cardinality({q \in spans : Earlier(q, s)}) = i - 1
    BY DEF Sorted
  <2>3. S[i] \in spans /\ Cardinality({q \in spans : Earlier(q, S[i])}) = i - 1
    BY <2>1, <2>2, Zenon
  <2> QED
    BY <2>3
<1>8. S \in [1..n -> spans]
  <2>1. S = [i \in 1..n |-> S[i]]
    BY DEF Sorted
  <2> HIDE DEF S
  <2> QED
    BY <1>7, <2>1
<1> HIDE DEF S, rank, Below
<1>9. ASSUME NEW s \in spans PROVE \E i \in 1..n : S[i] = s
  <2> DEFINE i == rank[s] + 1
  <2>1. i \in 1..n /\ i - 1 = rank[s]
    BY <1>1, <1>4
  <2> HIDE DEF i
  <2>2. S[i] = s
    BY <1>5, <1>7, <2>1
  <2> QED
    BY <2>1, <2>2
<1>10. ASSUME NEW i \in 1..n, NEW j \in 1..n, i < j PROVE Earlier(S[i], S[j])
  <2>1. S[i] \in spans /\ S[j] \in spans /\ rank[S[i]] < rank[S[j]] /\ rank[S[i]] \in Nat /\ rank[S[j]] \in Nat
    BY <1>1, <1>2, <1>7, <1>10
  <2>2. S[i] # S[j] /\ ~(rank[S[j]] < rank[S[i]])
    BY <2>1
  <2> QED
    BY <1>3, <2>1, <2>2, EarlierOrders
<1> QED
  BY <1>1, <1>8, <1>9, <1>10 DEF S

(* One interval more: it starts a run of its own or lengthens the last one. *)
LEMMA MergeStarts ==
  ASSUME NEW m \in [total : Int, cur : {<<>>}], NEW s \in Nat \X Nat
  PROVE  Merge(m, s) = [total |-> m.total, cur |-> s]
BY DEF Merge, Width

LEMMA MergeApart ==
  ASSUME NEW m \in [total : Int, cur : Nat \X Nat], NEW s \in Nat \X Nat, s[1] > m.cur[2] + 1
  PROVE  Merge(m, s) = [total |-> m.total + (m.cur[2] - m.cur[1] + 1), cur |-> s]
<1>1. m.cur # <<>>
  OBVIOUS
<1> QED
  BY <1>1 DEF Merge, Width

LEMMA MergeMeets ==
  ASSUME NEW m \in [total : Int, cur : Nat \X Nat], NEW s \in Nat \X Nat, ~(s[1] > m.cur[2] + 1)
  PROVE  /\ Merge(m, s).total = m.total /\ Merge(m, s).cur \in Nat \X Nat
         /\ Merge(m, s) \in [total : Int, cur : Nat \X Nat]
         /\ Merge(m, s).cur[1] = m.cur[1]
         /\ Merge(m, s).cur[2] = IF m.cur[2] <= s[2] THEN s[2] ELSE m.cur[2]
<1>1. m.cur # <<>> /\ m.cur[1] \in Nat /\ m.cur[2] \in Nat /\ s[2] \in Nat
  OBVIOUS
<1> DEFINE top == Max({m.cur[2], s[2]})
<1>2. top \in Nat /\ top = IF m.cur[2] <= s[2] THEN s[2] ELSE m.cur[2]
  <2> DEFINE P == {m.cur[2], s[2]}
  <2>1. P \in SUBSET Nat /\ P # {} /\ IsFiniteSet(P) /\ m.cur[2] \in P /\ s[2] \in P
    <3>1. P = {m.cur[2]} \cup {s[2]}
      OBVIOUS
    <3>2. IsFiniteSet({m.cur[2]})
      BY FS_Singleton
    <3>3. IsFiniteSet({m.cur[2]} \cup {s[2]})
      BY <3>2, FS_AddElement
    <3> QED
      BY <1>1, <3>1, <3>3
  <2> HIDE DEF P
  <2>2. Max(P) \in P /\ m.cur[2] <= Max(P) /\ s[2] <= Max(P)
    BY <2>1, Greatest
  <2>3. Max(P) = m.cur[2] \/ Max(P) = s[2]
    BY <2>2 DEF P
  <2>4. Max(P) \in Nat /\ Max(P) = IF m.cur[2] <= s[2] THEN s[2] ELSE m.cur[2]
    BY <1>1, <2>2, <2>3
  <2> QED
    BY <2>4 DEF P
<1>3. Merge(m, s) = [m EXCEPT !.cur[2] = top]
  BY <1>1 DEF Merge
<1> HIDE DEF top
<1>4. [m EXCEPT !.cur[2] = top] = [total |-> m.total, cur |-> <<m.cur[1], top>>]
  OBVIOUS
<1> QED
  BY <1>1, <1>2, <1>3, <1>4

Merged == [total : Int, cur : {<<>>} \cup (Nat \X Nat)]

LEMMA MergeTyped ==
  ASSUME NEW m \in Merged, NEW s \in Nat \X Nat
  PROVE  Merge(m, s) \in Merged
<1>1. CASE m.cur = <<>>
  <2>1. m \in [total : Int, cur : {<<>>}]
    BY <1>1 DEF Merged
  <2>2. Merge(m, s) = [total |-> m.total, cur |-> s] /\ m.total \in Int
    BY <2>1, MergeStarts
  <2> QED
    BY <2>2 DEF Merged
<1>2. CASE m.cur # <<>>
  <2>1. m \in [total : Int, cur : Nat \X Nat]
    BY <1>2 DEF Merged
  <2>2. CASE s[1] > m.cur[2] + 1
    <3>1. Merge(m, s) = [total |-> m.total + (m.cur[2] - m.cur[1] + 1), cur |-> s]
      BY <2>1, <2>2, MergeApart
    <3>2. m.total \in Int /\ m.cur[1] \in Nat /\ m.cur[2] \in Nat
      BY <2>1
    <3>3. m.total + (m.cur[2] - m.cur[1] + 1) \in Int
      BY <3>2
    <3> QED
      BY <3>1, <3>3 DEF Merged
  <2>3. CASE ~(s[1] > m.cur[2] + 1)
    <3>1. Merge(m, s) \in [total : Int, cur : Nat \X Nat]
      BY <2>1, <2>3, MergeMeets
    <3> QED
      BY <3>1 DEF Merged
  <2> QED
    BY <2>2, <2>3
<1> QED
  BY <1>1, <1>2

(* Merging a sequence of intervals is a fold over the prefixes of it. *)
NoneMerged == [total |-> 0, cur |-> <<>>]

MergeStep(f, s, seq) ==
  IF s = {} THEN NoneMerged ELSE Merge(f[s \ {Max(s)}], seq[Max(s)])

MergeFn(seq) == CHOOSE f : f = [s \in SUBSET DOMAIN seq |-> MergeStep(f, s, seq)]

LEMMA MergeIs == \A seq : FoldLeft(Merge, NoneMerged, seq) = MergeFn(seq)[DOMAIN seq]
  BY Zenon DEF FoldLeft, MapThenFoldSet, MergeFn, MergeStep

LEMMA MergeFolds ==
  ASSUME NEW n \in Nat, NEW seq \in [1..n -> Nat \X Nat]
  PROVE  \E F \in [0..n -> Merged] :
            /\ F[0] = NoneMerged
            /\ \A k \in 1..n : F[k] = Merge(F[k - 1], seq[k])
            /\ F[n] = FoldLeft(Merge, NoneMerged, seq)
<1> DEFINE g == [x \in Merged \X (1..n) |-> Merge(x[1], seq[x[2]])]
           f == MergeFn(seq)
           D == SUBSET (1..n)
           F == [k \in 0..n |-> f[1..k]]
<1>1. NoneMerged \in Merged
  BY DEF NoneMerged, Merged
<1>2. g \in [Merged \X (1..n) -> Merged]
  <2>1. ASSUME NEW x \in Merged \X (1..n) PROVE Merge(x[1], seq[x[2]]) \in Merged
    <3>1. x[1] \in Merged /\ seq[x[2]] \in Nat \X Nat
      OBVIOUS
    <3> QED
      BY <3>1, MergeTyped
  <2> QED
    BY <2>1
<1>3. \A a \in Merged, i \in 1..n : g[<<a, i>>] = Merge(a, seq[i])
  OBVIOUS
<1>4. PICK h \in [D -> Merged] : FoldOf(h, n, NoneMerged, g)
  <2> HIDE DEF g
  <2> QED
    BY <1>1, <1>2, FoldExists, Zenon
<1>5. ASSUME NEW s \in D, s # {} PROVE Max(s) \in 1..n /\ s \ {Max(s)} \in D
  <2>1. s \in SUBSET Nat /\ IsFiniteSet(s)
    <3> DEFINE N == 1..n
    <3>1. IsFiniteSet(N) /\ s \in SUBSET N /\ N \in SUBSET Nat
      BY FS_Interval
    <3> HIDE DEF N
    <3> QED
      BY <3>1, FS_Subset
  <2>2. Max(s) \in s
    BY <1>5, <2>1, Greatest
  <2> QED
    BY <2>2
<1>6. h = [s \in D |-> MergeStep(h, s, seq)]
  <2>1. ASSUME NEW s \in D, s # {} PROVE g[<<h[s \ {Max(s)}], Max(s)>>] = Merge(h[s \ {Max(s)}], seq[Max(s)])
    <3>1. Max(s) \in 1..n /\ h[s \ {Max(s)}] \in Merged
      BY <1>5, <2>1
    <3> HIDE DEF g
    <3> QED
      BY <1>3, <3>1
  <2> HIDE DEF g
  <2>2. \A s \in D : (IF s = {} THEN NoneMerged ELSE g[<<h[s \ {Max(s)}], Max(s)>>]) = MergeStep(h, s, seq)
    BY <2>1 DEF MergeStep
  <2> QED
    BY <1>4, <2>2 DEF FoldOf
<1>7. f = [s \in D |-> MergeStep(f, s, seq)]
  <2>1. DOMAIN seq = 1..n
    OBVIOUS
  <2>2. \E e : e = [s \in SUBSET DOMAIN seq |-> MergeStep(e, s, seq)]
    BY <1>6, <2>1
  <2>3. f = [s \in SUBSET DOMAIN seq |-> MergeStep(f, s, seq)]
    BY <2>2, Zenon DEF MergeFn
  <2> HIDE DEF f
  <2> QED
    BY <2>1, <2>3
<1> HIDE DEF g, f
<1>8. f[{}] = NoneMerged
  BY <1>7 DEF MergeStep
<1>9. ASSUME NEW k \in 1..n PROVE f[1..k] = Merge(f[1..(k - 1)], seq[k])
  <2>1. k \in Nat /\ k # 0 /\ k \in 0..n
    OBVIOUS
  <2>2. 1..k \in D /\ 1..k # {} /\ (1..k) \ {k} = 1..(k - 1) /\ Max(1..k) = k
    BY <2>1, PrefixMax, PrefixSets
  <2>3. f[1..k] = MergeStep(f, 1..k, seq)
    BY <1>7, <2>2
  <2> QED
    BY <2>2, <2>3 DEF MergeStep
<1>10. \A k \in 0..n : f[1..k] \in Merged
  <2> DEFINE Bad == {k \in 0..n : f[1..k] \notin Merged}
  <2> SUFFICES ASSUME Bad # {} PROVE FALSE
    OBVIOUS
  <2>0. Bad \in SUBSET Nat
    OBVIOUS
  <2>1. PICK k \in Bad : \A j \in Bad : k <= j
    <3> HIDE DEF Bad
    <3> QED
      BY <2>0, Least
  <2>2. CASE k = 0
    BY <1>1, <1>8, <2>1, <2>2, PrefixSets
  <2>3. CASE k # 0
    <3>1. k \in 1..n /\ k - 1 \in 0..n /\ ~(k <= k - 1)
      BY <2>1, <2>3
    <3>2. f[1..(k - 1)] \in Merged
      BY <2>1, <3>1
    <3>3. f[1..k] \in Merged
      BY <1>9, <3>1, <3>2, MergeTyped
    <3> QED
      BY <2>1, <3>3
  <2> QED
    BY <2>2, <2>3
<1>11. F \in [0..n -> Merged] /\ F[0] = NoneMerged
  BY <1>8, <1>10, PrefixSets
<1>12. \A k \in 1..n : F[k] = Merge(F[k - 1], seq[k])
  BY <1>9
<1>13. F[n] = FoldLeft(Merge, NoneMerged, seq)
  <2>1. DOMAIN seq = 1..n /\ F[n] = f[1..n]
    OBVIOUS
  <2> QED
    BY <2>1, MergeIs DEF f
<1> HIDE DEF F
<1> QED
  BY <1>11, <1>12, <1>13

(* What merging the first k of a sorted sequence has come to: the blocks they
   cover are some that end before the run in hand, counted, and that run. *)
Covers(seq, k) == {b \in Nat : \E i \in 1..k : seq[i][1] <= b /\ b <= seq[i][2]}

Splits(m, seq, k, T) ==
  /\ T \in SUBSET Nat /\ IsFiniteSet(T) /\ Cardinality(T) = m.total
  /\ \A t \in T : t < m.cur[1]
  /\ Covers(seq, k) = T \cup (m.cur[1]..m.cur[2])

MergedTo(m, seq, k) ==
  /\ m \in [total : Int, cur : Nat \X Nat]
  /\ m.cur[1] <= m.cur[2] /\ m.cur[1] <= seq[k][1]
  /\ \E T : Splits(m, seq, k, T)

LEMMA RunCounted ==
  ASSUME NEW a \in Nat, NEW b \in Nat, a <= b,
         NEW T \in SUBSET Nat, IsFiniteSet(T), \A t \in T : t < a
  PROVE  /\ IsFiniteSet(T \cup (a..b))
         /\ Cardinality(T \cup (a..b)) = Cardinality(T) + (b - a + 1)
<1> DEFINE R == a..b
<1>1. IsFiniteSet(R) /\ Cardinality(R) = b - a + 1
  <2>1. a \in Int /\ b \in Int /\ ~(a > b)
    OBVIOUS
  <2> QED
    BY <2>1, FS_Interval
<1>2. T \cap R = {}
  OBVIOUS
<1> HIDE DEF R
<1>3. /\ IsFiniteSet(T \cup R)
      /\ Cardinality(T \cup R) = Cardinality(T) + Cardinality(R) - Cardinality(T \cap R)
  BY <1>1, FS_Union
<1>4. Cardinality(T \cap R) = 0 /\ Cardinality(T) \in Nat
  BY <1>2, FS_EmptySet, FS_CardinalityType
<1> QED
  BY <1>1, <1>3, <1>4 DEF R

LEMMA CoversMore ==
  ASSUME NEW k \in Nat, k # 0, NEW seq
  PROVE  Covers(seq, k) = Covers(seq, k - 1) \cup {b \in Nat : seq[k][1] <= b /\ b <= seq[k][2]}
<1>1. \A i : i \in 1..k <=> (i \in 1..(k - 1) \/ i = k)
  OBVIOUS
<1> QED
  BY <1>1, Zenon DEF Covers

LEMMA MergeFirst ==
  ASSUME NEW seq, seq[1] \in Nat \X Nat, seq[1][1] <= seq[1][2],
         NEW m, m = Merge(NoneMerged, seq[1])
  PROVE  MergedTo(m, seq, 1)
<1> DEFINE s == seq[1]
<1>1. m = [total |-> 0, cur |-> s]
  <2>1. NoneMerged \in [total : Int, cur : {<<>>}] /\ NoneMerged.total = 0
    BY DEF NoneMerged
  <2> QED
    BY <2>1, MergeStarts
<1>2. s[1] \in Nat /\ s[2] \in Nat
  OBVIOUS
<1>3. Splits(m, seq, 1, {})
  <2>1. Covers(seq, 1) = s[1]..s[2]
    BY <1>2 DEF Covers
  <2> HIDE DEF s
  <2> QED
    BY <1>1, <2>1, FS_EmptySet DEF Splits
<1> QED
  BY <1>1, <1>2, <1>3 DEF MergedTo

LEMMA MergeNext ==
  ASSUME NEW seq, NEW k \in Nat, k # 0, k # 1,
         seq[k] \in Nat \X Nat, seq[k][1] <= seq[k][2],
         seq[k - 1] \in Nat \X Nat, seq[k - 1][1] <= seq[k][1],
         NEW m, MergedTo(m, seq, k - 1)
  PROVE  MergedTo(Merge(m, seq[k]), seq, k)
<1> DEFINE s == seq[k]
           a == m.cur[1]
           b == m.cur[2]
           p == Merge(m, s)
<1>1. /\ m \in [total : Int, cur : Nat \X Nat] /\ s \in Nat \X Nat
      /\ a \in Nat /\ b \in Nat /\ s[1] \in Nat /\ s[2] \in Nat /\ m.total \in Int /\ m.cur = <<a, b>>
  BY DEF MergedTo
<1>2. a <= b /\ a <= s[1] /\ s[1] <= s[2]
  <2>1. a <= b /\ a <= seq[k - 1][1] /\ seq[k - 1][1] \in Nat
    BY DEF MergedTo
  <2> QED
    BY <1>1, <2>1
<1>3. PICK T : Splits(m, seq, k - 1, T)
  BY DEF MergedTo
<1>4. /\ T \in SUBSET Nat /\ IsFiniteSet(T) /\ Cardinality(T) = m.total /\ \A t \in T : t < a
      /\ Covers(seq, k) = (T \cup (a..b)) \cup {c \in Nat : s[1] <= c /\ c <= s[2]}
  BY <1>3, CoversMore DEF Splits
<1>5. CASE s[1] > b + 1
  <2>1. p = [total |-> m.total + (b - a + 1), cur |-> s]
    BY <1>1, <1>5, MergeApart
  <2> DEFINE U == T \cup (a..b)
  <2>2. IsFiniteSet(U) /\ Cardinality(U) = m.total + (b - a + 1)
    BY <1>1, <1>2, <1>4, RunCounted
  <2>3. U \in SUBSET Nat /\ \A t \in U : t < s[1]
    <3> HIDE DEF s, a, b
    <3>0. a \in Nat /\ b \in Nat /\ s[1] \in Nat
      BY <1>1
    <3>1. \A t \in T : t \in Nat /\ t < s[1]
      BY <1>2, <1>4, <3>0
    <3>2. \A t \in a..b : t \in Nat /\ t < s[1]
      BY <1>5, <3>0
    <3> QED
      BY <3>1, <3>2
  <2>4. Covers(seq, k) = U \cup (s[1]..s[2])
    BY <1>1, <1>4
  <2> HIDE DEF U, s, a, b
  <2>5. Splits(p, seq, k, U)
    BY <2>1, <2>2, <2>3, <2>4 DEF Splits
  <2>6. p \in [total : Int, cur : Nat \X Nat] /\ p.cur[1] <= p.cur[2] /\ p.cur[1] <= s[1]
    BY <1>1, <1>2, <2>1
  <2> QED
    BY <2>5, <2>6 DEF MergedTo, s
<1>6. CASE ~(s[1] > b + 1)
  <2>1. /\ p.total = m.total /\ p.cur \in Nat \X Nat /\ p \in [total : Int, cur : Nat \X Nat]
        /\ p.cur[1] = a /\ p.cur[2] = IF b <= s[2] THEN s[2] ELSE b
    BY <1>1, <1>6, MergeMeets
  <2>2. Covers(seq, k) = T \cup (a..p.cur[2])
    <3>1. (a..b) \cup {c \in Nat : s[1] <= c /\ c <= s[2]} = a..p.cur[2]
      <4> HIDE DEF s, a, b, p
      <4> QED
        BY <1>1, <1>2, <1>6, <2>1
    <3> HIDE DEF s, a, b, p
    <3> QED
      BY <1>4, <3>1
  <2> HIDE DEF s, a, b, p
  <2>3. Splits(p, seq, k, T)
    BY <1>4, <2>1, <2>2 DEF Splits
  <2>4. p.cur[1] <= p.cur[2] /\ p.cur[1] <= s[1]
    BY <1>1, <1>2, <2>1
  <2> QED
    BY <2>1, <2>3, <2>4 DEF MergedTo, s, p
<1> QED
  BY <1>5, <1>6

(* Merging sorted intervals counts every block they cover once. *)
Blocks(spans) == {b \in Nat : \E s \in spans : s[1] <= b /\ b <= s[2]}

LEMMA CoveredCounts ==
  ASSUME NEW spans \in SUBSET (Nat \X Nat), IsFiniteSet(spans), \A s \in spans : s[1] <= s[2]
  PROVE  IsFiniteSet(Blocks(spans)) /\ Covered(spans) = Cardinality(Blocks(spans))
<1> DEFINE n == Cardinality(spans)
           seq == Sorted(spans)
<1>1. /\ n \in Nat /\ seq \in [1..n -> spans] /\ \A s \in spans : \E i \in 1..n : seq[i] = s
      /\ \A i, j \in 1..n : i < j => Earlier(seq[i], seq[j])
  BY SortedSpans
<1> HIDE DEF n, seq
<1>2. seq \in [1..n -> Nat \X Nat]
  BY <1>1
<1>3. PICK F \in [0..n -> Merged] :
         /\ F[0] = NoneMerged
         /\ \A k \in 1..n : F[k] = Merge(F[k - 1], seq[k])
         /\ F[n] = FoldLeft(Merge, NoneMerged, seq)
  BY <1>1, <1>2, MergeFolds
<1>4. ASSUME NEW k \in 1..n PROVE MergedTo(F[k], seq, k)
  <2> DEFINE Bad == {j \in 1..n : ~MergedTo(F[j], seq, j)}
  <2> SUFFICES ASSUME Bad # {} PROVE FALSE
    OBVIOUS
  <2>0. Bad \in SUBSET Nat
    OBVIOUS
  <2>1. PICK c \in Bad : \A j \in Bad : c <= j
    <3> HIDE DEF Bad
    <3> QED
      BY <2>0, Least
  <2>2. c \in 1..n /\ c \in Nat /\ c # 0 /\ ~MergedTo(F[c], seq, c) /\ F[c] = Merge(F[c - 1], seq[c])
        /\ seq[c] \in Nat \X Nat /\ seq[c][1] <= seq[c][2]
    BY <1>1, <1>2, <1>3, <2>1
  <2>3. CASE c = 1
    <3>1. F[1] = Merge(NoneMerged, seq[1])
      BY <1>3, <2>2, <2>3
    <3> QED
      BY <2>2, <2>3, <3>1, MergeFirst
  <2>4. CASE c # 1
    <3>1. c - 1 \in 1..n /\ ~(c <= c - 1) /\ c - 1 < c
      <4>1. c \in 1..n /\ c \in Nat /\ n \in Nat
        BY <1>1, <2>2
      <4> QED
        BY <2>4, <4>1
    <3>2. MergedTo(F[c - 1], seq, c - 1)
      BY <2>1, <3>1
    <3>3. seq[c - 1] \in Nat \X Nat /\ Earlier(seq[c - 1], seq[c])
      BY <1>1, <1>2, <2>2, <3>1
    <3>4. seq[c - 1][1] <= seq[c][1]
      <4>1. seq[c - 1][1] \in Nat /\ seq[c][1] \in Nat
        BY <2>2, <3>3
      <4>2. seq[c - 1][1] < seq[c][1] \/ seq[c - 1][1] = seq[c][1]
        BY <3>3, Zenon DEF Earlier
      <4> QED
        BY <4>1, <4>2
    <3> QED
      BY <2>2, <2>4, <3>2, <3>3, <3>4, MergeNext
  <2> QED
    BY <2>3, <2>4
<1>5. Blocks(spans) = Covers(seq, n)
  BY <1>1 DEF Blocks, Covers
<1>6. Covered(spans) = F[n].total + Width(F[n])
  BY <1>3 DEF Covered, NoneMerged, seq
<1>7. CASE n = 0
  <2>1. Covers(seq, n) = {}
    BY <1>7 DEF Covers
  <2>2. F[n].total + Width(F[n]) = 0
    BY <1>3, <1>7 DEF NoneMerged, Width
  <2> QED
    BY <1>5, <1>6, <2>1, <2>2, FS_EmptySet
<1>8. CASE n # 0
  <2> DEFINE m == F[n]
             a == m.cur[1]
             b == m.cur[2]
  <2>1. n \in 1..n
    BY <1>1, <1>8
  <2>2. MergedTo(m, seq, n)
    BY <1>4, <2>1
  <2>3. PICK T : Splits(m, seq, n, T)
    BY <2>2 DEF MergedTo
  <2>4. a \in Nat /\ b \in Nat /\ a <= b /\ m.cur # <<>> /\ m.total \in Int
    BY <2>2 DEF MergedTo
  <2>5. IsFiniteSet(T \cup (a..b)) /\ Cardinality(T \cup (a..b)) = m.total + (b - a + 1)
    BY <2>3, <2>4, RunCounted DEF Splits
  <2>6. Width(m) = b - a + 1
    BY <2>4 DEF Width
  <2> QED
    BY <1>5, <1>6, <2>3, <2>5, <2>6 DEF Splits
<1> QED
  BY <1>7, <1>8

(* A set of verified ranges covers as many blocks as merging them counts. *)
LEMMA RowsCovered ==
  ASSUME NEW R \in SUBSET Rows, IsFiniteSet(R)
  PROVE  /\ IsFiniteSet(UNION {Span(r) : r \in R})
         /\ Covered({<<r.lo, r.hi>> : r \in R}) = Cardinality(UNION {Span(r) : r \in R})
<1> DEFINE spans == {<<r.lo, r.hi>> : r \in R}
           U == UNION {Span(r) : r \in R}
<1>1. spans \in SUBSET (Nat \X Nat) /\ \A s \in spans : s[1] <= s[2]
  BY RowNumbers
<1>2. IsFiniteSet(spans)
  <2> DEFINE f == [r \in R |-> <<r.lo, r.hi>>]
  <2>1. f \in Surjection(R, spans)
    BY DEF Surjection
  <2> HIDE DEF f
  <2> QED
    BY <2>1, FS_Surjection
<1>3. U = Blocks(spans)
  <2>1. ASSUME NEW b \in U PROVE b \in Blocks(spans)
    <3>1. PICK r \in R : b \in r.lo..r.hi
      BY DEF Span
    <3>2. b \in Nat /\ r.lo <= b /\ b <= r.hi /\ <<r.lo, r.hi>> \in spans
      BY <3>1, RowNumbers
    <3> HIDE DEF spans
    <3> QED
      BY <3>2 DEF Blocks
  <2>2. ASSUME NEW b \in Blocks(spans) PROVE b \in U
    <3>1. PICK r \in R : b \in Nat /\ <<r.lo, r.hi>>[1] <= b /\ b <= <<r.lo, r.hi>>[2]
      BY DEF Blocks
    <3>2. b \in r.lo..r.hi
      BY <3>1, RowNumbers
    <3> QED
      BY <3>2 DEF Span
  <2> HIDE DEF U
  <2> QED
    BY <2>1, <2>2
<1> HIDE DEF spans, U
<1>4. IsFiniteSet(Blocks(spans)) /\ Covered(spans) = Cardinality(Blocks(spans))
  BY <1>1, <1>2, CoveredCounts
<1> QED
  BY <1>3, <1>4 DEF spans, U

LEMMA TableRows ==
  ASSUME table \in Seq(Rows), NEW I \in SUBSET DOMAIN table
  PROVE  /\ IsFiniteSet(I) /\ IsFiniteSet({table[i] : i \in I})
         /\ {table[i] : i \in I} \in SUBSET Rows
         /\ DOMAIN table = 1..Len(table) /\ Len(table) \in Nat
<1> DEFINE D == DOMAIN table
<1>1. Len(table) \in Nat /\ D = 1..Len(table)
  OBVIOUS
<1>2. IsFiniteSet(D)
  <2>1. 1 \in Int /\ Len(table) \in Int
    BY <1>1
  <2> QED
    BY <1>1, <2>1, FS_Interval
<1>3. IsFiniteSet(I)
  <2> HIDE DEF D
  <2>1. I \in SUBSET D
    BY DEF D
  <2> QED
    BY <1>2, <2>1, FS_Subset
<1>4. IsFiniteSet({table[i] : i \in I})
  BY <1>3, ImageFinite
<1>5. \A i \in I : table[i] \in Rows
  BY <1>1
<1> QED
  BY <1>1, <1>3, <1>4, <1>5

LEMMA CountsOnce == table \in Seq(Rows) => ProvenCountedOnce
<1> SUFFICES ASSUME table \in Seq(Rows) PROVE ProvenCountedOnce
  OBVIOUS
<1>1. ProvenCount = Cardinality(UNION {Span(r) : r \in ToSet(table)})
  <2> DEFINE R == ToSet(table)
  <2>1. R = {table[i] : i \in DOMAIN table}
    BY DEF ToSet
  <2>2. R \in SUBSET Rows /\ IsFiniteSet(R)
    BY <2>1, TableRows
  <2> HIDE DEF R
  <2>3. Covered({<<r.lo, r.hi>> : r \in R}) = Cardinality(UNION {Span(r) : r \in R})
    BY <2>2, RowsCovered
  <2> QED
    BY <2>3 DEF R, ProvenCount
<1>2. FoldedCount = Cardinality(UNION {Span(table[i]) : i \in FoldRows})
  <2> DEFINE I == FoldRows
             R == {table[i] : i \in I}
  <2>1. I \in SUBSET DOMAIN table
    BY DEF FoldRows
  <2> HIDE DEF I
  <2>2. R \in SUBSET Rows /\ IsFiniteSet(R)
    BY <2>1, TableRows
  <2>3. /\ {<<r.lo, r.hi>> : r \in R} = {<<table[i].lo, table[i].hi>> : i \in I}
        /\ {Span(r) : r \in R} = {Span(table[i]) : i \in I}
    OBVIOUS
  <2> HIDE DEF R
  <2>4. Covered({<<r.lo, r.hi>> : r \in R}) = Cardinality(UNION {Span(r) : r \in R})
    BY <2>2, RowsCovered
  <2> QED
    BY <2>3, <2>4 DEF I, FoldedCount
<1> QED
  BY <1>1, <1>2 DEF ProvenCountedOnce

LEMMA TableTyped == WalkInv => table \in Seq(Rows)
  BY DEF WalkInv, WalkTyped

(* proven_count counts every block once, however the verified ranges nest,
   overlap or abut, and folded_count does so for the ranges that are folds:
   for whatever rows have been recorded, in whatever order. *)
THEOREM EveryBlockCountsOnce == Spec => []ProvenCountedOnce
  BY WalkInit, WalkNext, TableTyped, CountsOnce, PTL DEF Spec

(* The same when keys are rotated and spines submitted in between. *)
THEOREM CreditsEveryBlockCountsOnce == CSpec => []ProvenCountedOnce
<1>1. CInit => Init
  BY DEF CInit
<1>2. [CNext]_<<vars, cvars>> => [Next]_vars
  BY DEF CNext, Next
<1> QED
  BY <1>1, <1>2, WalkInit, WalkNext, TableTyped, CountsOnce, PTL DEF CSpec

-----------------------------------------------------------------------------
(* Following rotations, as resolve_pubkey does.                            *)

(* A recursion over the numbers up to n has a solution. *)
RunOf(F, n, base, g) == F[0] = base /\ \A k \in 1..n : F[k] = g[<<F[k - 1], k>>]

LEMMA PrefixFold ==
  ASSUME NEW n \in Nat, NEW A, NEW base \in A, NEW g \in [A \X (1..n) -> A]
  PROVE  \E F \in [0..n -> A] : RunOf(F, n, base, g)
<1>1. PICK f \in [SUBSET (1..n) -> A] : FoldOf(f, n, base, g)
  BY FoldExists
<1> DEFINE F == [k \in 0..n |-> f[1..k]]
<1>2. F \in [0..n -> A]
  BY PrefixSets
<1>3. F[0] = base
  BY <1>1, PrefixSets DEF FoldOf
<1>4. ASSUME NEW k \in 1..n PROVE F[k] = g[<<F[k - 1], k>>]
  <2>1. k \in Nat /\ k # 0 /\ k \in 0..n /\ k - 1 \in 0..n
    OBVIOUS
  <2>2. 1..k \in SUBSET (1..n) /\ 1..k # {} /\ (1..k) \ {k} = 1..(k - 1) /\ Max(1..k) = k
    BY <2>1, PrefixMax, PrefixSets
  <2>3. f[1..k] = g[<<f[(1..k) \ {Max(1..k)}], Max(1..k)>>]
    BY <1>1, <2>2 DEF FoldOf
  <2> QED
    BY <2>1, <2>2, <2>3
<1> HIDE DEF F
<1> QED
  BY <1>2, <1>3, <1>4 DEF RunOf

RotationsTyped ==
  /\ DOMAIN rotated \in SUBSET Keys /\ IsFiniteSet(DOMAIN rotated)
  /\ rotated \in [DOMAIN rotated -> Keys]

Followed == [cur : Keys, seen : SUBSET Keys]

Start(pk) == [cur |-> pk, seen |-> {pk}]

Follow(w) ==
  IF w.cur \notin DOMAIN rotated \/ rotated[w.cur] \in w.seen THEN w
  ELSE [cur |-> rotated[w.cur], seen |-> w.seen \cup {rotated[w.cur]}]

FollowFn(pk) ==
  CHOOSE f : f = [n \in 0..ROTATE_MAX_DEPTH |-> IF n = 0 THEN Start(pk) ELSE Follow(f[n - 1])]

LEMMA ResolveIs == \A pk : Resolve(pk) = FollowFn(pk)[ROTATE_MAX_DEPTH].cur
  BY Zenon DEF Resolve, FollowFn, Start, Follow

LEMMA DepthNat == ROTATE_MAX_DEPTH \in Nat
  BY CreditsAssumption

LEMMA FollowTyped ==
  ASSUME RotationsTyped, NEW w \in Followed
  PROVE  Follow(w) \in Followed
BY DEF RotationsTyped, Followed, Follow

LEMMA FollowSteps ==
  ASSUME RotationsTyped, NEW pk \in Keys
  PROVE  /\ FollowFn(pk) \in [0..ROTATE_MAX_DEPTH -> Followed]
         /\ FollowFn(pk)[0] = Start(pk)
         /\ \A n \in 1..ROTATE_MAX_DEPTH : FollowFn(pk)[n] = Follow(FollowFn(pk)[n - 1])
<1> DEFINE N == ROTATE_MAX_DEPTH
           g == [x \in Followed \X (1..N) |-> Follow(x[1])]
           w == FollowFn(pk)
<1>0. N \in Nat
  BY DepthNat
<1>1. Start(pk) \in Followed
  BY DEF Start, Followed
<1>2. g \in [Followed \X (1..N) -> Followed]
  <2>1. ASSUME NEW x \in Followed \X (1..N) PROVE Follow(x[1]) \in Followed
    <3>1. x[1] \in Followed
      OBVIOUS
    <3> QED
      BY <3>1, FollowTyped
  <2> QED
    BY <2>1
<1>3. \A a \in Followed, i \in 1..N : g[<<a, i>>] = Follow(a)
  OBVIOUS
<1> HIDE DEF g
<1>4. PICK F \in [0..N -> Followed] : RunOf(F, N, Start(pk), g)
  <2> HIDE DEF N
  <2> QED
    BY <1>0, <1>1, <1>2, PrefixFold
<1>5. ASSUME NEW k \in 1..N PROVE F[k] = Follow(F[k - 1])
  <2>1. k - 1 \in 0..N
    BY <1>0
  <2>2. F[k - 1] \in Followed
    BY <1>4, <2>1
  <2> QED
    BY <1>3, <1>4, <2>2 DEF RunOf
<1>6. F = [n \in 0..N |-> IF n = 0 THEN Start(pk) ELSE Follow(F[n - 1])]
  <2>1. \A n \in 0..N : F[n] = IF n = 0 THEN Start(pk) ELSE Follow(F[n - 1])
    <3>1. \A n \in 0..N : n # 0 => n \in 1..N
      BY <1>0
    <3> QED
      BY <1>4, <1>5, <3>1 DEF RunOf
  <2> QED
    BY <1>4, <2>1
<1>7. w = [n \in 0..N |-> IF n = 0 THEN Start(pk) ELSE Follow(w[n - 1])]
  BY <1>6, Zenon DEF FollowFn
<1> HIDE DEF w
<1>8. w[0] = Start(pk) /\ \A n \in 1..N : w[n] = Follow(w[n - 1])
  BY <1>0, <1>7
<1>9. \A n \in 0..N : w[n] \in Followed
  <2> DEFINE Bad == {n \in 0..N : w[n] \notin Followed}
  <2> SUFFICES ASSUME Bad # {} PROVE FALSE
    OBVIOUS
  <2>0. Bad \in SUBSET Nat
    BY <1>0
  <2>1. PICK c \in Bad : \A j \in Bad : c <= j
    <3> HIDE DEF Bad
    <3> QED
      BY <2>0, Least
  <2>2. c # 0
    BY <1>1, <1>8, <2>1
  <2>3. c \in 1..N /\ c - 1 \in 0..N /\ ~(c <= c - 1)
    BY <1>0, <2>1, <2>2
  <2>4. w[c - 1] \in Followed
    BY <2>1, <2>3
  <2> QED
    BY <1>8, <2>1, <2>3, <2>4, FollowTyped
<1>10. w \in [0..N -> Followed]
  BY <1>7, <1>9
<1> QED
  BY <1>8, <1>10 DEF w

(* The walk goes on until it stands still, and then stands where it stood. *)
LEMMA StandsStill ==
  ASSUME RotationsTyped, NEW pk \in Keys, NEW n \in 0..ROTATE_MAX_DEPTH,
         Follow(FollowFn(pk)[n]) = FollowFn(pk)[n]
  PROVE  Resolve(pk) = FollowFn(pk)[n].cur
<1> DEFINE N == ROTATE_MAX_DEPTH
           w == FollowFn(pk)
           Bad == {m \in n..N : w[m] # w[n]}
<1>0. N \in Nat /\ n \in Nat /\ n <= N
  BY DepthNat
<1>1. \A m \in 1..N : w[m] = Follow(w[m - 1])
  BY FollowSteps
<1> HIDE DEF w, N
<1>2. Bad = {}
  <2> SUFFICES ASSUME Bad # {} PROVE FALSE
    OBVIOUS
  <2>0. Bad \in SUBSET Nat
    BY <1>0
  <2>1. PICK c \in Bad : \A j \in Bad : c <= j
    <3> HIDE DEF Bad
    <3> QED
      BY <2>0, Least
  <2>2. c # n /\ c \in n..N
    BY <2>1
  <2>3. c \in 1..N /\ c - 1 \in n..N /\ ~(c <= c - 1)
    BY <1>0, <2>2
  <2>4. w[c - 1] = w[n]
    BY <2>1, <2>3
  <2>5. w[c] = Follow(w[c - 1])
    BY <1>1, <2>3
  <2> QED
    BY <2>1, <2>4, <2>5 DEF w
<1>3. w[N] = w[n]
  BY <1>0, <1>2
<1> QED
  BY <1>3, ResolveIs DEF w, N

LEMMA ResolvesToKey ==
  ASSUME RotationsTyped, NEW pk \in Keys
  PROVE  Resolve(pk) \in Keys
<1>1. ROTATE_MAX_DEPTH \in 0..ROTATE_MAX_DEPTH
  BY DepthNat
<1>2. FollowFn(pk)[ROTATE_MAX_DEPTH] \in Followed
  BY <1>1, FollowSteps
<1> QED
  BY <1>2, ResolveIs DEF Followed

LEMMA HeadResolves ==
  ASSUME RotationsTyped, NEW pk \in Keys, pk \notin DOMAIN rotated
  PROVE  Resolve(pk) = pk
<1>1. 0 \in 0..ROTATE_MAX_DEPTH
  BY DepthNat
<1>2. FollowFn(pk)[0] = Start(pk)
  BY FollowSteps
<1>3. Follow(Start(pk)) = Start(pk)
  BY DEF Follow, Start
<1> QED
  BY <1>1, <1>2, <1>3, StandsStill DEF Start

(* What a set closed under rotating into it contains the end of a walk of, it
   contains the beginning of. *)
LEMMA WalkBack ==
  ASSUME RotationsTyped, NEW pk \in Keys, NEW S, Resolve(pk) \in S,
         \A k \in DOMAIN rotated : rotated[k] \in S => k \in S
  PROVE  pk \in S
<1> DEFINE N == ROTATE_MAX_DEPTH
           w == FollowFn(pk)
           Bad == {m \in 0..N : w[N - m].cur \notin S}
<1>0. N \in Nat
  BY DepthNat
<1>1. w[0] = Start(pk) /\ \A m \in 1..N : w[m] = Follow(w[m - 1])
  BY FollowSteps
<1>2. w[N].cur \in S
  BY ResolveIs
<1> HIDE DEF w, N
<1>3. Bad = {}
  <2> SUFFICES ASSUME Bad # {} PROVE FALSE
    OBVIOUS
  <2>0. Bad \in SUBSET Nat
    BY <1>0
  <2>1. PICK c \in Bad : \A j \in Bad : c <= j
    <3> HIDE DEF Bad
    <3> QED
      BY <2>0, Least
  <2>2. c \in 0..N /\ c # 0
    <3>1. N - 0 = N
      BY <1>0
    <3> QED
      BY <1>2, <2>1, <3>1
  <2>3. c - 1 \in 0..N /\ ~(c <= c - 1) /\ N - (c - 1) \in 1..N /\ (N - (c - 1)) - 1 = N - c
    BY <1>0, <2>2
  <2>4. w[N - (c - 1)].cur \in S
    BY <2>1, <2>3
  <2>5. w[N - (c - 1)] = Follow(w[N - c])
    BY <1>1, <2>3
  <2>6. w[N - c].cur \in S
    BY <2>4, <2>5 DEF Follow
  <2> QED
    BY <2>1, <2>6
<1>4. w[N - N].cur \in S /\ N - N = 0
  BY <1>0, <1>3
<1> QED
  BY <1>1, <1>4 DEF Start

(* No chain of rotations is longer than resolve_pubkey follows. *)
Shallow == \A k \in Keys : Resolve(k) \notin DOMAIN rotated

LEMMA ShallowStep ==
  ASSUME RotationsTyped, Shallow, NEW pk \in Keys, NEW n \in 1..ROTATE_MAX_DEPTH
  PROVE  FollowFn(pk)[n].cur = IF FollowFn(pk)[n - 1].cur \in DOMAIN rotated
                               THEN rotated[FollowFn(pk)[n - 1].cur]
                               ELSE FollowFn(pk)[n - 1].cur
<1> DEFINE w == FollowFn(pk)
           p == w[n - 1]
<1>1. n - 1 \in 0..ROTATE_MAX_DEPTH /\ w[n] = Follow(p)
  BY DepthNat, FollowSteps
<1>2. p.cur \in DOMAIN rotated => Follow(p) # p
  <2>1. Follow(p) = p => Resolve(pk) = p.cur
    BY <1>1, StandsStill
  <2> QED
    BY <2>1 DEF Shallow
<1> HIDE DEF w, p
<1>3. w[n].cur = IF p.cur \in DOMAIN rotated THEN rotated[p.cur] ELSE p.cur
  BY <1>1, <1>2 DEF Follow
<1> QED
  BY <1>3 DEF w, p

LEMMA ResolveNext ==
  ASSUME RotationsTyped, Shallow, NEW k \in DOMAIN rotated
  PROVE  Resolve(rotated[k]) = Resolve(k)
<1> DEFINE N == ROTATE_MAX_DEPTH
           q == rotated[k]
           w == FollowFn(k)
           v == FollowFn(q)
           Bad == {m \in 0..(N - 1) : v[m].cur # w[m + 1].cur}
<1>0. N \in Nat /\ k \in Keys /\ q \in Keys
  BY DepthNat DEF RotationsTyped
<1>1. w[0].cur = k /\ v[0].cur = q
  <2>1. w[0] = Start(k)
    BY <1>0, FollowSteps
  <2>2. v[0] = Start(q)
    BY <1>0, FollowSteps
  <2> QED
    BY <2>1, <2>2 DEF Start
<1>2. \A n \in 1..N : /\ w[n].cur = IF w[n - 1].cur \in DOMAIN rotated THEN rotated[w[n - 1].cur] ELSE w[n - 1].cur
                      /\ v[n].cur = IF v[n - 1].cur \in DOMAIN rotated THEN rotated[v[n - 1].cur] ELSE v[n - 1].cur
  BY <1>0, ShallowStep
<1>3. w[N].cur = Resolve(k) /\ v[N].cur = Resolve(q) /\ Resolve(k) \notin DOMAIN rotated
  BY <1>0, ResolveIs DEF Shallow
<1>4. N # 0
  BY <1>1, <1>3
<1> HIDE DEF N, w, v, q
<1>5. Bad = {}
  <2> SUFFICES ASSUME Bad # {} PROVE FALSE
    OBVIOUS
  <2>0. Bad \in SUBSET Nat
    BY <1>0
  <2>1. PICK c \in Bad : \A j \in Bad : c <= j
    <3> HIDE DEF Bad
    <3> QED
      BY <2>0, Least
  <2>2. c # 0
    <3>1. 1 \in 1..N /\ 1 - 1 = 0 /\ 0 + 1 = 1
      BY <1>0, <1>4
    <3>2. w[1].cur = q
      BY <1>1, <1>2, <3>1 DEF q
    <3> QED
      BY <1>1, <2>1, <3>1, <3>2
  <2>3. /\ c \in 1..N /\ c + 1 \in 1..N /\ c - 1 \in 0..(N - 1) /\ ~(c <= c - 1)
        /\ (c - 1) + 1 = c /\ (c + 1) - 1 = c
    BY <1>0, <1>4, <2>1, <2>2
  <2>4. v[c - 1].cur = w[c].cur
    BY <2>1, <2>3
  <2>5. v[c].cur = w[c + 1].cur
    BY <1>2, <2>3, <2>4
  <2> QED
    BY <2>1, <2>5
<1>6. v[N - 1].cur = w[N].cur
  <2>1. N - 1 \in 0..(N - 1) /\ (N - 1) + 1 = N
    BY <1>0, <1>4
  <2> QED
    BY <1>5, <2>1
<1>7. v[N].cur = v[N - 1].cur
  <2>1. N \in 1..N
    BY <1>0, <1>4
  <2> QED
    BY <1>2, <1>3, <1>6, <2>1
<1> QED
  BY <1>3, <1>6, <1>7 DEF q

(* The keys that resolve to a key which has not rotated are its own. *)
LEMMA OwnIs ==
  ASSUME RotationsTyped, Shallow, NEW pk \in Keys, pk \notin DOMAIN rotated, NEW k \in Keys
  PROVE  k \in Own(pk) <=> Resolve(k) = pk
<1> DEFINE Closed(S) == pk \in S /\ \A j \in DOMAIN rotated : rotated[j] \in S => j \in S
<1>1. k \in Own(pk) <=> \A S \in SUBSET Keys : Closed(S) => k \in S
  BY DEF Own
<1>2. ASSUME Resolve(k) = pk, NEW S \in SUBSET Keys, Closed(S) PROVE k \in S
  BY <1>2, WalkBack
<1>3. ASSUME \A S \in SUBSET Keys : Closed(S) => k \in S PROVE Resolve(k) = pk
  <2> DEFINE S == {j \in Keys : Resolve(j) = pk}
  <2>1. pk \in S
    BY HeadResolves
  <2>2. ASSUME NEW j \in DOMAIN rotated, rotated[j] \in S PROVE j \in S
    BY <2>2, ResolveNext DEF RotationsTyped
  <2>3. S \in SUBSET Keys /\ Closed(S)
    BY <2>1, <2>2
  <2>4. k \in S
    <3> HIDE DEF S, Closed
    <3> QED
      BY <1>3, <2>3
  <2> QED
    BY <2>4
<1> QED
  BY <1>1, <1>2, <1>3

(* As few rotations as resolve_pubkey follows, none of which leads back, make
   no longer chain. *)
Few == Cardinality(DOMAIN rotated) <= ROTATE_MAX_DEPTH

Acyclic == \E d \in [Keys -> Nat] : \A k \in DOMAIN rotated : d[rotated[k]] < d[k]

LEMMA FewAreShallow ==
  ASSUME RotationsTyped, Few, Acyclic
  PROVE  Shallow
<1> SUFFICES ASSUME NEW k \in Keys, Resolve(k) \in DOMAIN rotated PROVE FALSE
  BY DEF Shallow
<1> DEFINE N == ROTATE_MAX_DEPTH
           w == FollowFn(k)
           D == DOMAIN rotated
<1>1. PICK d \in [Keys -> Nat] : \A j \in D : d[rotated[j]] < d[j]
  BY DEF Acyclic
<1> DEFINE Fresh(n) == /\ w[n].seen \in SUBSET D /\ IsFiniteSet(w[n].seen) /\ Cardinality(w[n].seen) = n + 1
                       /\ \A s \in w[n].seen : d[w[n].cur] <= d[s]
           Bad == {n \in 0..N : ~Fresh(n)}
<1>0. N \in Nat /\ D \in SUBSET Keys /\ IsFiniteSet(D) /\ \A j \in D : rotated[j] \in Keys
  BY DepthNat DEF RotationsTyped
<1>2. w \in [0..N -> Followed] /\ w[0] = Start(k) /\ \A n \in 1..N : w[n] = Follow(w[n - 1])
  BY FollowSteps
<1>3. ASSUME NEW n \in 0..N PROVE w[n].cur \in D
  <2>1. w[n].cur \notin D => Follow(w[n]) = w[n]
    BY DEF Follow
  <2>2. w[n].cur \notin D => Resolve(k) = w[n].cur
    BY <2>1, StandsStill
  <2> QED
    BY <2>2
<1> HIDE DEF N, w, D
<1>4. Bad = {}
  <2> SUFFICES ASSUME Bad # {} PROVE FALSE
    OBVIOUS
  <2>0. Bad \in SUBSET Nat
    BY <1>0
  <2>1. PICK c \in Bad : \A j \in Bad : c <= j
    <3> HIDE DEF Bad
    <3> QED
      BY <2>0, Least
  <2>2. CASE c = 0
    <3>1. 0 \in 0..N
      BY <1>0
    <3>2. w[0].cur = k /\ w[0].seen = {k} /\ k \in D
      BY <1>2, <1>3, <3>1 DEF Start
    <3>3. IsFiniteSet({k}) /\ Cardinality({k}) = 0 + 1
      <4>1. IsFiniteSet({k}) /\ Cardinality({k}) = 1
        BY FS_Singleton
      <4> QED
        BY <4>1
    <3>4. d[k] \in Nat /\ d[k] <= d[k]
      OBVIOUS
    <3>5. Fresh(0)
      BY <3>2, <3>3, <3>4
    <3> HIDE DEF Fresh
    <3> QED
      BY <2>1, <2>2, <3>5
  <2>3. CASE c # 0
    <3> DEFINE p == w[c - 1]
               nxt == rotated[p.cur]
    <3>1. c \in 1..N /\ c \in Nat /\ c - 1 \in 0..N /\ ~(c <= c - 1) /\ (c - 1) + 1 = c
      BY <1>0, <2>1, <2>3
    <3>2. Fresh(c - 1)
      <4> HIDE DEF Fresh
      <4> QED
        BY <2>1, <3>1
    <3>3. p.cur \in D /\ p.cur \in Keys /\ nxt \in Keys /\ d[nxt] < d[p.cur] /\ p \in Followed
      BY <1>0, <1>1, <1>2, <1>3, <3>1
    <3>4. /\ p.seen \in SUBSET D /\ IsFiniteSet(p.seen) /\ Cardinality(p.seen) = c
          /\ \A s \in p.seen : d[p.cur] <= d[s]
      BY <3>1, <3>2
    <3>5. d[nxt] \in Nat /\ d[p.cur] \in Nat /\ \A s \in p.seen : s \in Keys /\ d[s] \in Nat
      BY <1>0, <3>3, <3>4
    <3>6. nxt \notin p.seen /\ \A s \in p.seen : d[nxt] <= d[s]
      BY <3>3, <3>4, <3>5
    <3>7. w[c] = [cur |-> nxt, seen |-> p.seen \cup {nxt}]
      BY <1>2, <3>1, <3>3, <3>6 DEF Follow, D
    <3>8. nxt \in D
      <4>1. c \in 0..N
        BY <2>1
      <4> QED
        BY <1>3, <3>7, <4>1
    <3> HIDE DEF p, nxt
    <3>9. IsFiniteSet(p.seen \cup {nxt}) /\ Cardinality(p.seen \cup {nxt}) = c + 1
      BY <3>4, <3>6, FS_AddElement
    <3>10. d[nxt] <= d[nxt]
      BY <3>5
    <3>11. Fresh(c)
      BY <3>4, <3>6, <3>7, <3>8, <3>9, <3>10
    <3> HIDE DEF Fresh
    <3> QED
      BY <2>1, <3>11
  <2> QED
    BY <2>2, <2>3
<1>5. N \in 0..N /\ Fresh(N)
  <2>1. N \in 0..N
    BY <1>0
  <2> HIDE DEF Fresh
  <2> QED
    BY <1>4, <2>1
<1>6. N + 1 <= Cardinality(D)
  BY <1>0, <1>5, FS_Subset
<1>7. Cardinality(D) <= N /\ Cardinality(D) \in Nat
  BY <1>0, FS_CardinalityType DEF Few, D, N
<1> QED
  BY <1>0, <1>6, <1>7

(* The invariant of the credits: what is recorded has its type, and rotations
   do not lead back while there are as few of them as resolve_pubkey follows. *)
LogTyped == log \in Seq([hi : Heights, pk : Keys])

CreditsInv == WalkInv /\ RotationsTyped /\ LogTyped /\ (Few => Acyclic)

LEMMA RotateKeeps ==
  ASSUME RotationsTyped, Few => Acyclic, NEW old \in Keys, NEW new \in Keys, Rotate(old, new)
  PROVE  RotationsTyped' /\ (Few => Acyclic)'
<1> DEFINE D == DOMAIN rotated
<1>1. /\ old # new /\ old \notin D /\ Resolve(new) # old
      /\ rotated' = [k \in D \cup {old} |-> IF k = old THEN new ELSE rotated[k]]
  BY DEF Rotate
<1>2. D \in SUBSET Keys /\ IsFiniteSet(D) /\ \A k \in D : rotated[k] \in Keys
  BY DEF RotationsTyped
<1>3. DOMAIN rotated' = D \cup {old}
  BY <1>1
<1>4. IsFiniteSet(D \cup {old}) /\ Cardinality(D \cup {old}) = Cardinality(D) + 1 /\ Cardinality(D) \in Nat
  <2> HIDE DEF D
  <2> QED
    BY <1>1, <1>2, FS_AddElement, FS_CardinalityType
<1>5. RotationsTyped'
  BY <1>1, <1>2, <1>3, <1>4 DEF RotationsTyped
<1>6. ASSUME Few' PROVE Acyclic'
  <2>1. Few
    BY <1>3, <1>4, <1>6, DepthNat DEF Few
  <2>2. Shallow
    BY <2>1, FewAreShallow
  <2>3. PICK d \in [Keys -> Nat] : \A k \in D : d[rotated[k]] < d[k]
    BY <2>1 DEF Acyclic
  <2> DEFINE lift == d[new] + 1
             e == [k \in Keys |-> IF Resolve(k) = old THEN d[k] + lift ELSE d[k]]
  <2>4. lift \in Nat /\ \A k \in Keys : d[k] \in Nat
    OBVIOUS
  <2>5. e \in [Keys -> Nat]
    BY <2>4
  <2>6. \A k \in D : k \in Keys /\ rotated[k] \in Keys /\ Resolve(rotated[k]) = Resolve(k) /\ d[rotated[k]] < d[k]
    BY <1>2, <2>2, <2>3, ResolveNext
  <2>7. \A k \in D : e[rotated[k]] < e[k]
    <3> HIDE DEF lift
    <3> QED
      BY <2>4, <2>6
  <2>8. e[new] < e[old]
    <3>1. Resolve(old) = old
      BY <1>1, HeadResolves
    <3>2. e[new] = d[new] /\ e[old] = d[old] + (d[new] + 1)
      BY <1>1, <3>1
    <3> QED
      BY <2>4, <3>2
  <2>9. \A k \in DOMAIN rotated' : e[rotated'[k]] < e[k]
    <3> HIDE DEF e
    <3>1. ASSUME NEW k \in D PROVE rotated'[k] = rotated[k]
      BY <1>1
    <3>2. rotated'[old] = new
      BY <1>1
    <3> QED
      BY <1>3, <2>7, <2>8, <3>1, <3>2
  <2> HIDE DEF e
  <2> QED
    BY <2>5, <2>9 DEF Acyclic
<1> QED
  BY <1>5, <1>6

LEMMA CreditsInit == CInit => CreditsInv
<1> SUFFICES ASSUME CInit PROVE CreditsInv
  OBVIOUS
<1>1. WalkInv /\ rotated = <<>> /\ log = <<>>
  BY WalkInit DEF CInit
<1>2. DOMAIN rotated = {}
  BY <1>1
<1>3. RotationsTyped
  BY <1>1, <1>2, FS_EmptySet DEF RotationsTyped
<1>4. Acyclic
  <2>1. [k \in Keys |-> 0] \in [Keys -> Nat]
    OBVIOUS
  <2> QED
    BY <1>2, <2>1 DEF Acyclic
<1> QED
  BY <1>1, <1>3, <1>4 DEF CreditsInv, LogTyped

LEMMA CreditsNext == CreditsInv /\ [CNext]_<<vars, cvars>> => CreditsInv'
<1> SUFFICES ASSUME CreditsInv, [CNext]_<<vars, cvars>> PROVE CreditsInv'
  OBVIOUS
<1>1. WalkInv'
  <2>1. [Next]_vars
    BY DEF CNext, Next
  <2> QED
    BY <2>1, WalkNext DEF CreditsInv
<1>2. CASE \E old, new \in Keys : Rotate(old, new) /\ UNCHANGED vars
  <2>1. PICK old \in Keys, new \in Keys : Rotate(old, new)
    BY <1>2
  <2>2. RotationsTyped' /\ (Few => Acyclic)'
    BY <2>1, RotateKeeps DEF CreditsInv
  <2>3. LogTyped'
    BY <2>1 DEF Rotate, CreditsInv, LogTyped
  <2> QED
    BY <1>1, <2>2, <2>3 DEF CreditsInv
<1>3. CASE UNCHANGED rotated
  <2>1. RotationsTyped' /\ (Few => Acyclic)'
    BY <1>3 DEF CreditsInv, RotationsTyped, Few, Acyclic
  <2>2. log' = log \/ \E hi \in Heights, pk \in Keys : log' = Append(log, [hi |-> hi, pk |-> pk])
    BY <1>3 DEF CNext, cvars, AdvanceSpine, SpineLost, Rotate
  <2>3. LogTyped'
    <3> DEFINE E == [hi : Heights, pk : Keys]
    <3>1. log \in Seq(E)
      BY DEF CreditsInv, LogTyped
    <3>2. \A hi \in Heights, pk \in Keys : [hi |-> hi, pk |-> pk] \in E
      OBVIOUS
    <3>3. log' = log \/ \E e \in E : log' = Append(log, e)
      BY <2>2, <3>2, Zenon
    <3> HIDE DEF E
    <3>4. log' \in Seq(E)
      BY <3>1, <3>3
    <3> QED
      BY <3>4 DEF LogTyped, E
  <2> QED
    BY <1>1, <2>1, <2>3 DEF CreditsInv
<1> QED
  BY <1>2, <1>3 DEF CNext, cvars, AdvanceSpine, SpineLost

-----------------------------------------------------------------------------
(* Counting by owner: what each of a set of owners has adds up to all there  *)
(* is.                                                                      *)

TallyStep(w, f, s) == IF s = {} THEN 0 ELSE w[PickRow(s)] + f[s \ {PickRow(s)}]

TallyFn(w, S) == CHOOSE f : f = [s \in SUBSET S |-> TallyStep(w, f, s)]

LEMMA TallyExists ==
  ASSUME NEW S, IsFiniteSet(S), NEW w
  PROVE  TallyFn(w, S) = [s \in SUBSET S |-> TallyStep(w, TallyFn(w, S), s)]
<1> DEFINE D(n) == {s \in SUBSET S : Cardinality(s) <= n}
           Bad == {n \in Nat : ~\E f : f = [s \in D(n) |-> TallyStep(w, f, s)]}
<1>0. \A s \in SUBSET S : IsFiniteSet(s) /\ Cardinality(s) \in Nat /\ Cardinality(s) <= Cardinality(S)
  BY FS_Subset, FS_CardinalityType
<1>1. Bad = {}
  <2> SUFFICES ASSUME Bad # {} PROVE FALSE
    OBVIOUS
  <2>1. PICK n \in Bad : \A m \in Bad : n <= m
    BY Least
  <2>2. CASE n = 0
    <3> DEFINE f == [s \in D(n) |-> 0]
    <3>1. \A s \in D(n) : s = {}
      BY <1>0, <2>2, FS_EmptySet
    <3>2. f = [s \in D(n) |-> TallyStep(w, f, s)]
      BY <3>1 DEF TallyStep
    <3> QED
      BY <2>1, <3>2
  <2>3. CASE n # 0
    <3>1. n \in Nat /\ n - 1 \in Nat /\ n - 1 \notin Bad
      <4>1. n \in Nat /\ n - 1 \in Nat /\ ~(n <= n - 1)
        BY <2>1, <2>3
      <4> HIDE DEF Bad
      <4> QED
        BY <2>1, <4>1
    <3>2. PICK f : f = [s \in D(n - 1) |-> TallyStep(w, f, s)]
      BY <3>1
    <3> DEFINE g == [s \in D(n) |-> TallyStep(w, f, s)]
    <3>3. ASSUME NEW s \in D(n) PROVE TallyStep(w, f, s) = TallyStep(w, g, s)
      <4>1. CASE s = {}
        BY <4>1 DEF TallyStep
      <4>2. CASE s # {}
        <5> DEFINE t == s \ {PickRow(s)}
        <5>1. t \in D(n - 1) /\ t \in D(n)
          BY <1>0, <3>1, <4>2, PickSmaller
        <5>2. f[t] = TallyStep(w, f, t)
          BY <3>2, <5>1
        <5>3. g[t] = TallyStep(w, f, t)
          BY <5>1
        <5> QED
          BY <4>2, <5>2, <5>3 DEF TallyStep
      <4> QED
        BY <4>1, <4>2
    <3>4. g = [s \in D(n) |-> TallyStep(w, g, s)]
      BY <3>3
    <3> QED
      BY <2>1, <3>4
  <2> QED
    BY <2>2, <2>3
<1>2. D(Cardinality(S)) = SUBSET S
  BY <1>0
<1>3. Cardinality(S) \in Nat
  BY FS_CardinalityType
<1>4. \E f : f = [s \in SUBSET S |-> TallyStep(w, f, s)]
  <2>1. Cardinality(S) \notin Bad
    BY <1>1
  <2>2. \E f : f = [s \in D(Cardinality(S)) |-> TallyStep(w, f, s)]
    BY <1>3, <2>1, Zenon
  <2> HIDE DEF D
  <2> QED
    BY <1>2, <2>2
<1> QED
  BY <1>4, Zenon DEF TallyFn

OwnedBy(I, o, x) == {i \in I : o[i] = x}

LEMMA Tally ==
  ASSUME NEW S, IsFiniteSet(S), NEW I, IsFiniteSet(I), NEW o \in [I -> S],
         NEW w, \A x \in S : w[x] = Cardinality(OwnedBy(I, o, x))
  PROVE  TallyFn(w, S)[S] = Cardinality(I)
<1> DEFINE f == TallyFn(w, S)
           Of(s) == {i \in I : o[i] \in s}
           Bad == {n \in Nat : \E s \in SUBSET S : Cardinality(s) = n /\ f[s] # Cardinality(Of(s))}
<1>0. \A s \in SUBSET S : IsFiniteSet(s) /\ Cardinality(s) \in Nat
  BY FS_Subset, FS_CardinalityType
<1>1. \A s \in SUBSET S : f[s] = TallyStep(w, f, s)
  <2> HIDE DEF Bad
  <2>1. f = [s \in SUBSET S |-> TallyStep(w, f, s)]
    BY TallyExists
  <2> HIDE DEF f
  <2> QED
    BY <2>1
<1> HIDE DEF f
<1>2. Bad = {}
  <2> SUFFICES ASSUME Bad # {} PROVE FALSE
    OBVIOUS
  <2>1. PICK n \in Bad : \A m \in Bad : n <= m
    BY Least
  <2>2. PICK s \in SUBSET S : Cardinality(s) = n /\ f[s] # Cardinality(Of(s))
    BY <2>1
  <2>3. s # {}
    <3>1. Of({}) = {}
      OBVIOUS
    <3>2. Cardinality(Of({})) = 0
      BY <3>1, FS_EmptySet
    <3>3. s = {} => f[s] = 0
      BY <1>1 DEF TallyStep
    <3> HIDE DEF Of
    <3> QED
      BY <2>2, <3>2, <3>3
  <2> DEFINE x == PickRow(s)
             t == s \ {x}
             X == {i \in I : o[i] = x}
             T == Of(t)
  <2>4. /\ x \in s /\ t \in SUBSET S /\ Cardinality(t) = n - 1 /\ n - 1 \in Nat /\ ~(n <= n - 1)
    BY <1>0, <2>2, <2>3, PickSmaller
  <2>5. f[t] = Cardinality(T)
    <3> HIDE DEF Of, t
    <3> QED
      BY <2>1, <2>4
  <2>6. f[s] = w[x] + f[t] /\ w[x] = Cardinality(X)
    BY <1>1, <2>3, <2>4 DEF TallyStep, OwnedBy
  <2>7. IsFiniteSet(X) /\ IsFiniteSet(T) /\ X \cap T = {} /\ Of(s) = X \cup T
    <3>1. X \in SUBSET I /\ T \in SUBSET I
      OBVIOUS
    <3>2. X \cap T = {} /\ Of(s) = X \cup T
      BY <2>4
    <3> HIDE DEF X, T
    <3> QED
      BY <3>1, <3>2, FS_Subset
  <2> HIDE DEF X, T, t, x, Of
  <2>8. Cardinality(X \cup T) = Cardinality(X) + Cardinality(T)
    <3>1. Cardinality(X \cup T) = Cardinality(X) + Cardinality(T) - Cardinality(X \cap T)
      BY <2>7, FS_Union
    <3>2. Cardinality(X \cap T) = 0 /\ Cardinality(X) \in Nat /\ Cardinality(T) \in Nat
      BY <2>7, FS_EmptySet, FS_CardinalityType
    <3> QED
      BY <3>1, <3>2
  <2> QED
    BY <2>2, <2>5, <2>6, <2>7, <2>8
<1>3. f[S] = Cardinality(Of(S))
  <2>1. Cardinality(S) \in Nat /\ Cardinality(S) \notin Bad
    BY <1>0, <1>2
  <2> HIDE DEF Of
  <2> QED
    BY <2>1
<1>4. Of(S) = I
  OBVIOUS
<1> QED
  BY <1>3, <1>4 DEF f

-----------------------------------------------------------------------------
(* Who is credited.                                                        *)

(* A fold row spans two rows recorded before it. *)
LEMMA FoldHalves ==
  ASSUME table \in Seq(Rows), NEW i \in FoldRows
  PROVE  \E j, k \in DOMAIN table : /\ j < i /\ k < i
                                    /\ Span(table[i]) = Span(table[j]) \cup Span(table[k])
<1> DEFINE lo == table[i].lo
           hi == table[i].hi
<1>0. DOMAIN table = 1..Len(table) /\ Len(table) \in Nat /\ \A j \in DOMAIN table : table[j] \in Rows
  OBVIOUS
<1>1. i \in DOMAIN table /\ lo < hi /\ lo \in Nat /\ hi \in Nat
  BY <1>0, RowNumbers DEF FoldRows
<1>2. PICK m \in EndsAt(i, lo) : ByStart(i, m + 1) = hi
  BY DEF FoldRows, IsFoldSeam
<1>3. PICK j \in 1..(i - 1) : table[j].lo = lo /\ table[j].hi = m
  BY <1>2 DEF EndsAt, Before
<1>4. j \in DOMAIN table /\ j < i /\ m \in Nat /\ lo <= m
  <2>1. j \in DOMAIN table /\ j < i
    BY <1>0, <1>1, <1>3
  <2> QED
    BY <1>0, <1>3, <2>1, RowNumbers
<1>5. hi \in EndsAt(i, m + 1)
  <2> DEFINE S == EndsAt(i, m + 1)
  <2>1. \A x \in S : \E k \in 1..(i - 1) : table[k].hi = x
    BY DEF EndsAt, Before
  <2>2. \A k \in 1..(i - 1) : k \in DOMAIN table
    BY <1>0, <1>1
  <2>3. S \in SUBSET Nat
    BY <1>0, <2>1, <2>2, RowNumbers
  <2>4. IsFiniteSet(S)
    <3> DEFINE K == {k \in 1..(i - 1) : table[k].lo = m + 1}
               H == [k \in K |-> table[k].hi]
    <3>1. S = {H[k] : k \in K}
      BY DEF EndsAt, Before
    <3>2. IsFiniteSet(K)
      <4> DEFINE D == DOMAIN table
      <4>1. IsFiniteSet(D)
        BY TableRows
      <4>2. K \in SUBSET D
        BY <2>2
      <4> HIDE DEF D, K
      <4> QED
        BY <4>1, <4>2, FS_Subset
    <3> HIDE DEF S, K, H
    <3> QED
      BY <3>1, <3>2, ImageFinite
  <2>5. Max(S \cup {-1}) = hi
    BY <1>2 DEF ByStart
  <2> HIDE DEF S
  <2>6. S # {}
    <3> SUFFICES ASSUME S = {} PROVE FALSE
      OBVIOUS
    <3>1. Max({-1}) = -1
      BY DEF Max
    <3>2. S \cup {-1} = {-1}
      OBVIOUS
    <3> QED
      BY <1>1, <2>5, <3>1, <3>2
  <2>7. Max(S) \in S /\ \A x \in S : x <= Max(S)
    BY <2>3, <2>4, <2>6, Greatest
  <2>8. \E x \in S \cup {-1} : \A y \in S \cup {-1} : y <= x
    <3>1. Max(S) \in Nat /\ -1 <= Max(S)
      <4>1. Max(S) \in Nat
        BY <2>3, <2>7
      <4>2. \A x \in Nat : -1 <= x
        OBVIOUS
      <4> QED
        BY <4>1, <4>2
    <3> QED
      BY <2>7, <3>1
  <2>9. hi \in S \cup {-1}
    BY <2>5, <2>8, Zenon DEF Max
  <2> QED
    BY <1>1, <2>9 DEF S
<1>6. PICK k \in 1..(i - 1) : table[k].lo = m + 1 /\ table[k].hi = hi
  BY <1>5 DEF EndsAt, Before
<1>7. k \in DOMAIN table /\ k < i
  BY <1>0, <1>1, <1>6
<1>8. m + 1 <= hi
  BY <1>0, <1>6, <1>7, RowNumbers
<1>9. Span(table[i]) = Span(table[j]) \cup Span(table[k])
  <2>1. lo..hi = (lo..m) \cup ((m + 1)..hi)
    <3> HIDE DEF lo, hi
    <3> QED
      BY <1>1, <1>4, <1>8
  <2> QED
    BY <1>3, <1>6, <2>1 DEF Span
<1> QED
  BY <1>4, <1>7, <1>9

(* So what the folds span, rows that are no folds span. *)
LEMMA ProofsCover ==
  ASSUME table \in Seq(Rows)
  PROVE  UNION {Span(r) : r \in ToSet(table)} = UNION {Span(r) : r \in Proofs}
<1> DEFINE U == UNION {Span(r) : r \in Proofs}
           Bad == {i \in DOMAIN table : ~(Span(table[i]) \subseteq U)}
<1>0. DOMAIN table = 1..Len(table) /\ Len(table) \in Nat
  OBVIOUS
<1>1. ASSUME NEW i \in DOMAIN table \ FoldRows PROVE Span(table[i]) \subseteq U
  BY DEF Proofs
<1> HIDE DEF U
<1>2. Bad = {}
  <2> SUFFICES ASSUME Bad # {} PROVE FALSE
    OBVIOUS
  <2>0. Bad \in SUBSET Nat
    BY <1>0
  <2>1. PICK c \in Bad : \A d \in Bad : c <= d
    <3> HIDE DEF Bad
    <3> QED
      BY <2>0, Least
  <2>2. c \in FoldRows /\ c \in Nat
    BY <1>0, <1>1, <2>1
  <2>3. PICK j \in DOMAIN table, k \in DOMAIN table :
            j < c /\ k < c /\ Span(table[c]) = Span(table[j]) \cup Span(table[k])
    BY <2>2, FoldHalves
  <2>4. ~(c <= j) /\ ~(c <= k)
    BY <1>0, <2>2, <2>3
  <2>5. Span(table[j]) \subseteq U /\ Span(table[k]) \subseteq U
    BY <2>1, <2>3, <2>4
  <2> QED
    BY <2>1, <2>3, <2>5
<1>3. UNION {Span(r) : r \in ToSet(table)} \subseteq U
  <2>1. ToSet(table) = {table[i] : i \in DOMAIN table}
    BY DEF ToSet
  <2> QED
    BY <1>2, <2>1
<1>4. U \subseteq UNION {Span(r) : r \in ToSet(table)}
  BY DEF U, Proofs, ToSet
<1> QED
  BY <1>3, <1>4 DEF U

LEMMA FoldedTally ==
  MapThenSumSet(LAMBDA pk : Contributions[pk].folded, DOMAIN Contributions)
    = TallyFn([pk \in DOMAIN Contributions |-> Contributions[pk].folded], DOMAIN Contributions)[DOMAIN Contributions]
<1> DEFINE D == DOMAIN Contributions
           w == [pk \in D |-> Contributions[pk].folded]
           PlainStep(f, s) == IF s = {} THEN 0 ELSE Contributions[PickRow(s)].folded + f[s \ {PickRow(s)}]
<1>1. MapThenSumSet(LAMBDA pk : Contributions[pk].folded, D)
        = (CHOOSE f : f = [s \in SUBSET D |-> PlainStep(f, s)])[D]
  BY Zenon DEF MapThenSumSet, MapThenFoldSet, PickRow
<1>2. \A f : \A s \in SUBSET D : PlainStep(f, s) = TallyStep(w, f, s)
  <2> SUFFICES ASSUME NEW f, NEW s \in SUBSET D, s # {} PROVE PlainStep(f, s) = TallyStep(w, f, s)
    BY DEF TallyStep
  <2>1. PickRow(s) \in D
    BY DEF PickRow
  <2>2. w[PickRow(s)] = Contributions[PickRow(s)].folded
    BY <2>1
  <2> QED
    BY <2>2 DEF TallyStep
<1> HIDE DEF w, D, PlainStep
<1>3. \A f : (f = [s \in SUBSET D |-> PlainStep(f, s)]) <=> (f = [s \in SUBSET D |-> TallyStep(w, f, s)])
  <2> SUFFICES ASSUME NEW f
               PROVE  [s \in SUBSET D |-> PlainStep(f, s)] = [s \in SUBSET D |-> TallyStep(w, f, s)]
    OBVIOUS
  <2> QED
    BY <1>2
<1>4. (CHOOSE f : f = [s \in SUBSET D |-> PlainStep(f, s)]) = (CHOOSE f : f = [s \in SUBSET D |-> TallyStep(w, f, s)])
  BY <1>3
<1> QED
  BY <1>1, <1>4, Zenon DEF TallyFn, w, D

LEMMA AnchoredTally ==
  MapThenSumSet(LAMBDA pk : Contributions[pk].anchored, DOMAIN Contributions)
    = TallyFn([pk \in DOMAIN Contributions |-> Contributions[pk].anchored], DOMAIN Contributions)[DOMAIN Contributions]
<1> DEFINE D == DOMAIN Contributions
           w == [pk \in D |-> Contributions[pk].anchored]
           PlainStep(f, s) == IF s = {} THEN 0 ELSE Contributions[PickRow(s)].anchored + f[s \ {PickRow(s)}]
<1>1. MapThenSumSet(LAMBDA pk : Contributions[pk].anchored, D)
        = (CHOOSE f : f = [s \in SUBSET D |-> PlainStep(f, s)])[D]
  BY Zenon DEF MapThenSumSet, MapThenFoldSet, PickRow
<1>2. \A f : \A s \in SUBSET D : PlainStep(f, s) = TallyStep(w, f, s)
  <2> SUFFICES ASSUME NEW f, NEW s \in SUBSET D, s # {} PROVE PlainStep(f, s) = TallyStep(w, f, s)
    BY DEF TallyStep
  <2>1. PickRow(s) \in D
    BY DEF PickRow
  <2>2. w[PickRow(s)] = Contributions[PickRow(s)].anchored
    BY <2>1
  <2> QED
    BY <2>2 DEF TallyStep
<1> HIDE DEF w, D, PlainStep
<1>3. \A f : (f = [s \in SUBSET D |-> PlainStep(f, s)]) <=> (f = [s \in SUBSET D |-> TallyStep(w, f, s)])
  <2> SUFFICES ASSUME NEW f
               PROVE  [s \in SUBSET D |-> PlainStep(f, s)] = [s \in SUBSET D |-> TallyStep(w, f, s)]
    OBVIOUS
  <2> QED
    BY <1>2
<1>4. (CHOOSE f : f = [s \in SUBSET D |-> PlainStep(f, s)]) = (CHOOSE f : f = [s \in SUBSET D |-> TallyStep(w, f, s)])
  BY <1>3
<1> QED
  BY <1>1, <1>4, Zenon DEF TallyFn, w, D


LEMMA RowKeys == \A r \in Rows : r.pk \in Keys
  BY CreditsAssumption

LEMMA LogRows ==
  ASSUME LogTyped
  PROVE  /\ DOMAIN log = 1..Len(log) /\ Len(log) \in Nat
         /\ IsFiniteSet(DOMAIN log) /\ Cardinality(DOMAIN log) = Len(log)
         /\ \A i \in DOMAIN log : log[i].hi \in Nat \ {0} /\ log[i].pk \in Keys
<1>1. DOMAIN log = 1..Len(log) /\ Len(log) \in Nat
  BY DEF LogTyped
<1>2. \A i \in DOMAIN log : log[i] \in [hi : Heights, pk : Keys]
  <2> DEFINE E == [hi : Heights, pk : Keys]
  <2>1. log \in Seq(E)
    BY DEF LogTyped
  <2> HIDE DEF E
  <2>2. \A i \in DOMAIN log : log[i] \in E
    BY <2>1
  <2> QED
    BY <2>2 DEF E
<1>3. IsFiniteSet(1..Len(log)) /\ Cardinality(1..Len(log)) = Len(log)
  <2> DEFINE n == Len(log)
  <2>1. n \in Nat /\ 1 \in Int /\ n \in Int
    BY <1>1
  <2> HIDE DEF n
  <2>2. IsFiniteSet(1..n) /\ Cardinality(1..n) = IF 1 > n THEN 0 ELSE n - 1 + 1
    BY <2>1, FS_Interval
  <2>3. Cardinality(1..n) = n
    BY <2>1, <2>2
  <2> QED
    BY <2>2, <2>3 DEF n
<1>4. \A i \in DOMAIN log : log[i].hi \in Nat \ {0} /\ log[i].pk \in Keys
  BY <1>2, CreditsAssumption
<1> QED
  BY <1>1, <1>3, <1>4

(* The identities credited with anything. *)
Credited == {Resolve(r.pk) : r \in ToSet(table)} \cup {Resolve(a.pk) : a \in ToSet(log)}

LEMMA CreditedKeys ==
  ASSUME table \in Seq(Rows), RotationsTyped, LogTyped, Shallow
  PROVE  /\ DOMAIN Contributions = Credited
         /\ Credited \in SUBSET Keys /\ Credited \cap DOMAIN rotated = {}
         /\ IsFiniteSet(Credited)
         /\ \A i \in DOMAIN table : Resolve(table[i].pk) \in Credited
         /\ \A i \in DOMAIN log : Resolve(log[i].pk) \in Credited
<1> DEFINE e == [i \in DOMAIN table |-> Resolve(table[i].pk)]
           g == [i \in DOMAIN log |-> Resolve(log[i].pk)]
           E == {e[i] : i \in DOMAIN table}
           G == {g[i] : i \in DOMAIN log}
<1>1. DOMAIN Contributions = Credited
  BY DEF Contributions, Credited
<1>2. Credited = E \cup G
  BY DEF Credited, ToSet
<1>3. \A i \in DOMAIN table : table[i].pk \in Keys
  BY RowKeys
<1>4. \A i \in DOMAIN log : log[i].pk \in Keys
  BY LogRows
<1>5. E \in SUBSET Keys /\ G \in SUBSET Keys /\ E \cap DOMAIN rotated = {} /\ G \cap DOMAIN rotated = {}
  BY <1>3, <1>4, ResolvesToKey DEF Shallow
<1>6. IsFiniteSet(DOMAIN table) /\ IsFiniteSet(DOMAIN log)
  BY TableRows, LogRows
<1>7. (\A i \in DOMAIN table : Resolve(table[i].pk) \in E) /\ (\A i \in DOMAIN log : Resolve(log[i].pk) \in G)
  OBVIOUS
<1> HIDE DEF e, g
<1>8. IsFiniteSet(E) /\ IsFiniteSet(G)
  BY <1>6, ImageFinite
<1> HIDE DEF E, G
<1>9. IsFiniteSet(E \cup G)
  BY <1>8, FS_Union
<1> QED
  BY <1>1, <1>2, <1>5, <1>7, <1>9

LEMMA CreditsCount ==
  ASSUME table \in Seq(Rows), RotationsTyped, LogTyped, Shallow
  PROVE  CreditedOnce
<1> DEFINE C == Contributions
           D == Credited
<1>1. /\ DOMAIN C = D /\ D \in SUBSET Keys /\ D \cap DOMAIN rotated = {} /\ IsFiniteSet(D)
      /\ \A i \in DOMAIN table : Resolve(table[i].pk) \in D
      /\ \A i \in DOMAIN log : Resolve(log[i].pk) \in D
  BY CreditedKeys
<1>2. \A pk \in D : /\ C[pk].proved = Proved(pk)
                     /\ C[pk].folded = Cardinality({i \in FoldRows : Resolve(table[i].pk) = pk})
                     /\ C[pk].anchored = Cardinality({i \in DOMAIN log : Resolve(log[i].pk) = pk})
  BY DEF Contributions, Credited, Folded, Absorptions
<1> HIDE DEF C, D
<1>3. ASSUME NEW pk \in D
      PROVE  C[pk].proved = Cardinality(UNION {Span(r) : r \in {r \in Proofs : r.pk \in Own(pk)}})
  <2> DEFINE R == {r \in Proofs : Resolve(r.pk) = pk}
             I == {i \in DOMAIN table \ FoldRows : Resolve(table[i].pk) = pk}
  <2>1. R = {table[i] : i \in I} /\ I \in SUBSET DOMAIN table
    BY DEF Proofs
  <2> HIDE DEF I
  <2>2. R \in SUBSET Rows /\ IsFiniteSet(R)
    BY <2>1, TableRows
  <2>3. R = {r \in Proofs : r.pk \in Own(pk)}
    <3>1. \A r \in Proofs : r \in Rows /\ r.pk \in Keys
      BY RowKeys DEF Proofs
    <3>2. pk \in Keys /\ pk \notin DOMAIN rotated
      BY <1>1
    <3> QED
      BY <3>1, <3>2, OwnIs
  <2>4. Proved(pk) = Covered({<<r.lo, r.hi>> : r \in R})
    BY DEF Proved
  <2> HIDE DEF R
  <2>5. Covered({<<r.lo, r.hi>> : r \in R}) = Cardinality(UNION {Span(r) : r \in R})
    BY <2>2, RowsCovered
  <2> QED
    BY <1>2, <2>3, <2>4, <2>5
<1>4. MapThenSumSet(LAMBDA pk : Contributions[pk].folded, DOMAIN Contributions) = Cardinality(FoldRows)
  <2> DEFINE w == [pk \in D |-> C[pk].folded]
             o == [i \in FoldRows |-> Resolve(table[i].pk)]
  <2>1. FoldRows \in SUBSET DOMAIN table
    BY DEF FoldRows
  <2>2. IsFiniteSet(FoldRows)
    BY <2>1, TableRows
  <2>3. o \in [FoldRows -> D]
    BY <1>1, <2>1
  <2>4. \A pk \in D : w[pk] = Cardinality(OwnedBy(FoldRows, o, pk))
    <3> SUFFICES ASSUME NEW pk \in D PROVE w[pk] = Cardinality({i \in FoldRows : o[i] = pk})
      BY DEF OwnedBy
    <3>1. {i \in FoldRows : o[i] = pk} = {i \in FoldRows : Resolve(table[i].pk) = pk}
      OBVIOUS
    <3> HIDE DEF o
    <3> QED
      BY <1>2, <3>1
  <2>5. MapThenSumSet(LAMBDA pk : Contributions[pk].folded, DOMAIN Contributions) = TallyFn(w, D)[D]
    BY <1>1, FoldedTally, Zenon DEF C
  <2> HIDE DEF w, o
  <2>6. TallyFn(w, D)[D] = Cardinality(FoldRows)
    BY <1>1, <2>2, <2>3, <2>4, Tally
  <2> QED
    BY <2>5, <2>6, Zenon
<1>5. MapThenSumSet(LAMBDA pk : Contributions[pk].anchored, DOMAIN Contributions) = Len(log)
  <2> DEFINE I == DOMAIN log
             w == [pk \in D |-> C[pk].anchored]
             o == [i \in I |-> Resolve(log[i].pk)]
  <2>2. IsFiniteSet(I) /\ Cardinality(I) = Len(log)
    BY LogRows
  <2>3. o \in [I -> D]
    BY <1>1
  <2>4. \A pk \in D : w[pk] = Cardinality(OwnedBy(I, o, pk))
    <3> SUFFICES ASSUME NEW pk \in D PROVE w[pk] = Cardinality({i \in I : o[i] = pk})
      BY DEF OwnedBy
    <3>1. {i \in I : o[i] = pk} = {i \in DOMAIN log : Resolve(log[i].pk) = pk}
      OBVIOUS
    <3> HIDE DEF o
    <3> QED
      BY <1>2, <3>1
  <2>5. MapThenSumSet(LAMBDA pk : Contributions[pk].anchored, DOMAIN Contributions) = TallyFn(w, D)[D]
    BY <1>1, AnchoredTally, Zenon DEF C
  <2> HIDE DEF w, o, I
  <2>6. TallyFn(w, D)[D] = Cardinality(I)
    BY <1>1, <2>2, <2>3, <2>4, Tally
  <2> QED
    BY <2>2, <2>5, <2>6, Zenon
<1>6. UNION {Span(r) : r \in ToSet(table)} = UNION {Span(r) : r \in Proofs}
  BY ProofsCover
<1>7. DOMAIN Contributions \cap DOMAIN rotated = {}
  BY <1>1 DEF C
<1>8. \A pk \in DOMAIN Contributions :
         Contributions[pk].proved = Cardinality(UNION {Span(r) : r \in {r \in Proofs : r.pk \in Own(pk)}})
  BY <1>1, <1>3, Zenon DEF C
<1> QED
  BY <1>4, <1>5, <1>6, <1>7, <1>8, Zenon DEF CreditedOnce

(* contributions_by_pubkey gives all credit to keys that have not rotated, to
   each the blocks its person proved, once, and counts every fold and every
   recorded absorption for one identity: whatever has been recorded, whoever
   rotated when, and as long as no more keys have rotated than resolve_pubkey
   follows. *)
THEOREM EveryBlockIsCredited == CSpec => [](Few => CreditedOnce)
<1>1. CreditsInv => (Few => CreditedOnce)
  BY FewAreShallow, CreditsCount, TableTyped DEF CreditsInv
<1> QED
  BY <1>1, CreditsInit, CreditsNext, PTL DEF CSpec

(* However many have rotated, it is enough that no one chain of rotations is
   longer than what resolve_pubkey follows. *)
THEOREM ShallowIsCredited == CSpec => [](Shallow => CreditedOnce)
<1>1. CreditsInv => (Shallow => CreditedOnce)
  BY CreditsCount, TableTyped DEF CreditsInv
<1> QED
  BY <1>1, CreditsInit, CreditsNext, PTL DEF CSpec

-----------------------------------------------------------------------------
(* Who took which block into the spine: spine_segments, row by row.        *)

Segment == [lo : Nat, hi : Nat, pk : Keys]

Absorbed == [segs : Seq(Segment), prev_hi : Nat]

Advance == [hi : Nat \ {0}, pk : Keys]

(* One more advance of the key that has the last segment lengthens it; any
   other one starts a segment. *)
LEMMA ExtendLast ==
  ASSUME NEW s \in Absorbed, NEW a \in Advance, s.segs # <<>>, Last(s.segs).pk = a.pk
  PROVE  /\ Extend(s, a) \in Absorbed /\ Extend(s, a).prev_hi = a.hi
         /\ Len(Extend(s, a).segs) = Len(s.segs) /\ Len(s.segs) \in Nat \ {0}
         /\ \A g \in 1..(Len(s.segs) - 1) : Extend(s, a).segs[g] = s.segs[g]
         /\ Extend(s, a).segs[Len(s.segs)] = [lo |-> s.segs[Len(s.segs)].lo, hi |-> a.hi, pk |-> a.pk]
<1> DEFINE q == s.segs
           n == Len(q)
           x == [lo |-> q[n].lo, hi |-> a.hi, pk |-> a.pk]
           e == [q EXCEPT ![n] = x]
<1>1. q \in Seq(Segment) /\ a.hi \in Nat /\ a.pk \in Keys /\ s.prev_hi \in Nat
  BY DEF Absorbed, Advance
<1>2. n \in Nat \ {0} /\ q[n] \in Segment
  BY <1>1
<1>3. q[n].pk = a.pk
  BY DEF Last
<1>4. [q[n] EXCEPT !.hi = a.hi] = x
  BY <1>2, <1>3 DEF Segment
<1>5. Extend(s, a) = [segs |-> e, prev_hi |-> a.hi]
  BY <1>4 DEF Extend, Last
<1>6. x \in Segment
  BY <1>1, <1>2 DEF Segment
<1> HIDE DEF x
<1>7. e \in Seq(Segment) /\ Len(e) = n /\ e[n] = x /\ \A g \in 1..(n - 1) : e[g] = q[g]
  BY <1>1, <1>2, <1>6
<1> HIDE DEF e
<1> QED
  BY <1>1, <1>2, <1>5, <1>7 DEF Absorbed, x

LEMMA ExtendNew ==
  ASSUME NEW s \in Absorbed, NEW a \in Advance, ~(s.segs # <<>> /\ Last(s.segs).pk = a.pk)
  PROVE  /\ Extend(s, a) \in Absorbed /\ Extend(s, a).prev_hi = a.hi
         /\ Len(Extend(s, a).segs) = Len(s.segs) + 1 /\ Len(s.segs) \in Nat
         /\ \A g \in 1..Len(s.segs) : Extend(s, a).segs[g] = s.segs[g]
         /\ Extend(s, a).segs[Len(s.segs) + 1] = [lo |-> s.prev_hi + 1, hi |-> a.hi, pk |-> a.pk]
<1> DEFINE q == s.segs
           n == Len(q)
           x == [lo |-> s.prev_hi + 1, hi |-> a.hi, pk |-> a.pk]
           e == Append(q, x)
<1>1. q \in Seq(Segment) /\ a.hi \in Nat /\ a.pk \in Keys /\ s.prev_hi \in Nat
  BY DEF Absorbed, Advance
<1>2. Extend(s, a) = [segs |-> e, prev_hi |-> a.hi]
  BY DEF Extend
<1>3. x \in Segment
  BY <1>1 DEF Segment
<1> HIDE DEF x
<1>4. n \in Nat /\ e \in Seq(Segment) /\ Len(e) = n + 1 /\ e[n + 1] = x /\ \A g \in 1..n : e[g] = q[g]
  BY <1>1, <1>3
<1> HIDE DEF e
<1> QED
  BY <1>1, <1>2, <1>4 DEF Absorbed, x

LEMMA AbsorbTyped ==
  ASSUME NEW s \in Absorbed, NEW a \in Advance
  PROVE  Absorb(s, a) \in Absorbed
<1>1. Extend(s, a) \in Absorbed
  BY ExtendLast, ExtendNew
<1> QED
  BY <1>1 DEF Absorb

(* Absorbing the log is a fold over the prefixes of it. *)
NoneAbsorbed == [segs |-> <<>>, prev_hi |-> 0]

AbsorbStep(f, s, seq) ==
  IF s = {} THEN NoneAbsorbed ELSE Absorb(f[s \ {Max(s)}], seq[Max(s)])

AbsorbFn(seq) == CHOOSE f : f = [s \in SUBSET DOMAIN seq |-> AbsorbStep(f, s, seq)]

LEMMA AbsorbIs == \A seq : FoldLeft(Absorb, NoneAbsorbed, seq) = AbsorbFn(seq)[DOMAIN seq]
  BY Zenon DEF FoldLeft, MapThenFoldSet, AbsorbFn, AbsorbStep

LEMMA AbsorbFolds ==
  ASSUME NEW n \in Nat, NEW seq \in [1..n -> Advance]
  PROVE  \E F \in [0..n -> Absorbed] :
            /\ F[0] = NoneAbsorbed
            /\ \A k \in 1..n : F[k] = Absorb(F[k - 1], seq[k])
            /\ F[n] = FoldLeft(Absorb, NoneAbsorbed, seq)
<1> DEFINE g == [x \in Absorbed \X (1..n) |-> Absorb(x[1], seq[x[2]])]
           f == AbsorbFn(seq)
           D == SUBSET (1..n)
           F == [k \in 0..n |-> f[1..k]]
<1>1. NoneAbsorbed \in Absorbed
  BY DEF NoneAbsorbed, Absorbed
<1>2. g \in [Absorbed \X (1..n) -> Absorbed]
  <2>1. ASSUME NEW x \in Absorbed \X (1..n) PROVE Absorb(x[1], seq[x[2]]) \in Absorbed
    <3>1. x[1] \in Absorbed /\ seq[x[2]] \in Advance
      OBVIOUS
    <3> QED
      BY <3>1, AbsorbTyped
  <2> QED
    BY <2>1
<1>3. \A a \in Absorbed, i \in 1..n : g[<<a, i>>] = Absorb(a, seq[i])
  OBVIOUS
<1>4. PICK h \in [D -> Absorbed] : FoldOf(h, n, NoneAbsorbed, g)
  <2> HIDE DEF g
  <2> QED
    BY <1>1, <1>2, FoldExists, Zenon
<1>5. ASSUME NEW s \in D, s # {} PROVE Max(s) \in 1..n /\ s \ {Max(s)} \in D
  <2>1. s \in SUBSET Nat /\ IsFiniteSet(s)
    <3> DEFINE N == 1..n
    <3>1. IsFiniteSet(N) /\ s \in SUBSET N /\ N \in SUBSET Nat
      BY FS_Interval
    <3> HIDE DEF N
    <3> QED
      BY <3>1, FS_Subset
  <2>2. Max(s) \in s
    BY <1>5, <2>1, Greatest
  <2> QED
    BY <2>2
<1>6. h = [s \in D |-> AbsorbStep(h, s, seq)]
  <2>1. ASSUME NEW s \in D, s # {} PROVE g[<<h[s \ {Max(s)}], Max(s)>>] = Absorb(h[s \ {Max(s)}], seq[Max(s)])
    <3>1. Max(s) \in 1..n /\ h[s \ {Max(s)}] \in Absorbed
      BY <1>5, <2>1
    <3> HIDE DEF g
    <3> QED
      BY <1>3, <3>1
  <2> HIDE DEF g
  <2>2. \A s \in D : (IF s = {} THEN NoneAbsorbed ELSE g[<<h[s \ {Max(s)}], Max(s)>>]) = AbsorbStep(h, s, seq)
    BY <2>1 DEF AbsorbStep
  <2> QED
    BY <1>4, <2>2 DEF FoldOf
<1>7. f = [s \in D |-> AbsorbStep(f, s, seq)]
  <2>1. DOMAIN seq = 1..n
    OBVIOUS
  <2>2. \E e : e = [s \in SUBSET DOMAIN seq |-> AbsorbStep(e, s, seq)]
    BY <1>6, <2>1
  <2>3. f = [s \in SUBSET DOMAIN seq |-> AbsorbStep(f, s, seq)]
    BY <2>2, Zenon DEF AbsorbFn
  <2> HIDE DEF f
  <2> QED
    BY <2>1, <2>3
<1> HIDE DEF g, f
<1>8. f[{}] = NoneAbsorbed
  BY <1>7 DEF AbsorbStep
<1>9. ASSUME NEW k \in 1..n PROVE f[1..k] = Absorb(f[1..(k - 1)], seq[k])
  <2>1. k \in Nat /\ k # 0 /\ k \in 0..n
    OBVIOUS
  <2>2. 1..k \in D /\ 1..k # {} /\ (1..k) \ {k} = 1..(k - 1) /\ Max(1..k) = k
    BY <2>1, PrefixMax, PrefixSets
  <2>3. f[1..k] = AbsorbStep(f, 1..k, seq)
    BY <1>7, <2>2
  <2> QED
    BY <2>2, <2>3 DEF AbsorbStep
<1>10. \A k \in 0..n : f[1..k] \in Absorbed
  <2> DEFINE Bad == {k \in 0..n : f[1..k] \notin Absorbed}
  <2> SUFFICES ASSUME Bad # {} PROVE FALSE
    OBVIOUS
  <2>0. Bad \in SUBSET Nat
    OBVIOUS
  <2>1. PICK k \in Bad : \A j \in Bad : k <= j
    <3> HIDE DEF Bad
    <3> QED
      BY <2>0, Least
  <2>2. CASE k = 0
    BY <1>1, <1>8, <2>1, <2>2, PrefixSets
  <2>3. CASE k # 0
    <3>1. k \in 1..n /\ k - 1 \in 0..n /\ ~(k <= k - 1)
      BY <2>1, <2>3
    <3>2. f[1..(k - 1)] \in Absorbed
      BY <2>1, <3>1
    <3>3. f[1..k] \in Absorbed
      BY <1>9, <3>1, <3>2, AbsorbTyped
    <3> QED
      BY <2>1, <3>3
  <2> QED
    BY <2>2, <2>3
<1>11. F \in [0..n -> Absorbed] /\ F[0] = NoneAbsorbed
  BY <1>8, <1>10, PrefixSets
<1>12. \A k \in 1..n : F[k] = Absorb(F[k - 1], seq[k])
  BY <1>9
<1>13. F[n] = FoldLeft(Absorb, NoneAbsorbed, seq)
  <2>1. DOMAIN seq = 1..n /\ F[n] = f[1..n]
    OBVIOUS
  <2> QED
    BY <2>1, AbsorbIs DEF f
<1> HIDE DEF F
<1> QED
  BY <1>11, <1>12, <1>13

(* The first k rows of the log reach p; row f is the first that reaches m. *)
Topped(p, k) ==
  /\ \A j \in 1..k : log[j].hi <= p
  /\ p = 0 \/ \E j \in 1..k : log[j].hi = p

Took(f, m) == f \in DOMAIN log /\ m <= log[f].hi /\ \A j \in 1..(f - 1) : log[j].hi < m

(* The segments tile the blocks up to p in order. *)
Tiled(q, p) ==
  /\ \A g \in 1..Len(q) : 1 <= q[g].lo /\ q[g].lo <= q[g].hi /\ q[g].hi <= p
  /\ \A g, h \in 1..Len(q) : g < h => q[g].hi < q[h].lo
  /\ \A m \in 1..p : \E g \in 1..Len(q) : q[g].lo <= m /\ m <= q[g].hi
  /\ Len(q) = 0 \/ q[Len(q)].hi = p

(* Whose segment a block is in took it, with all else the same row took. *)
TookIn(f, seg, m) ==
  /\ Took(f, m) /\ log[f].pk = seg.pk
  /\ \A n \in Nat : 1 <= n /\ Took(f, n) => seg.lo <= n /\ n <= seg.hi

Owned(q, k) ==
  \A g \in 1..Len(q) : \A m \in Nat :
    q[g].lo <= m /\ m <= q[g].hi => \E f \in 1..k : TookIn(f, q[g], m)

SpineTo(s, k) ==
  s \in Absorbed /\ Topped(s.prev_hi, k) /\ Tiled(s.segs, s.prev_hi) /\ Owned(s.segs, k)

LEMMA LogAdvances ==
  ASSUME LogTyped
  PROVE  log \in [1..Len(log) -> Advance]
<1>1. \A i \in 1..Len(log) : log[i] \in Advance
  <2> DEFINE E == [hi : Heights, pk : Keys]
  <2>1. log \in Seq(E)
    BY DEF LogTyped
  <2>2. E \subseteq Advance
    BY CreditsAssumption DEF Advance
  <2> HIDE DEF E
  <2> QED
    BY <2>1, <2>2
<1> QED
  BY <1>1 DEF LogTyped

LEMMA SegmentNumbers ==
  ASSUME NEW s \in Absorbed
  PROVE  /\ s.prev_hi \in Nat /\ Len(s.segs) \in Nat
         /\ \A g \in 1..Len(s.segs) : s.segs[g].lo \in Nat /\ s.segs[g].hi \in Nat
<1> DEFINE q == s.segs
<1>1. q \in Seq(Segment) /\ s.prev_hi \in Nat
  BY DEF Absorbed
<1> HIDE DEF q
<1>2. Len(q) \in Nat /\ \A g \in 1..Len(q) : q[g] \in Segment
  BY <1>1
<1>3. \A g \in 1..Len(q) : q[g].lo \in Nat /\ q[g].hi \in Nat
  BY <1>2 DEF Segment
<1> QED
  BY <1>1, <1>2, <1>3 DEF q

(* What a row that advances the head takes. *)
LEMMA TakesTheRest ==
  ASSUME LogTyped, NEW k \in 1..Len(log), NEW p \in Nat, Topped(p, k - 1), p < log[k].hi
  PROVE  \A m \in Nat : 1 <= m => (Took(k, m) <=> p < m /\ m <= log[k].hi)
<1>1. /\ DOMAIN log = 1..Len(log) /\ Len(log) \in Nat
      /\ \A i \in DOMAIN log : log[i].hi \in Nat \ {0}
  BY LogRows
<1>2. \A j \in 1..(k - 1) : j \in DOMAIN log
  BY <1>1
<1> SUFFICES ASSUME NEW m \in Nat, 1 <= m PROVE Took(k, m) <=> p < m /\ m <= log[k].hi
  OBVIOUS
<1>3. ASSUME p < m, m <= log[k].hi PROVE Took(k, m)
  <2>1. \A j \in 1..(k - 1) : log[j].hi <= p /\ log[j].hi \in Nat
    BY <1>1, <1>2 DEF Topped
  <2>2. \A j \in 1..(k - 1) : log[j].hi < m
    BY <1>3, <2>1
  <2> QED
    BY <1>1, <1>3, <2>2 DEF Took
<1>4. ASSUME Took(k, m) PROVE p < m /\ m <= log[k].hi
  BY <1>4 DEF Took, Topped
<1> QED
  BY <1>3, <1>4

LEMMA SpineStarts == SpineTo(NoneAbsorbed, 0)
<1>1. /\ NoneAbsorbed \in Absorbed /\ NoneAbsorbed.prev_hi = 0 /\ NoneAbsorbed.segs = <<>>
  BY DEF NoneAbsorbed, Absorbed
<1>2. Len(<<>>) = 0 /\ 1..0 = {}
  OBVIOUS
<1> QED
  BY <1>1, <1>2 DEF SpineTo, Topped, Tiled, Owned

(* A row that does not advance the head changes nothing. *)
LEMMA SpineWaits ==
  ASSUME LogTyped, NEW k \in 1..Len(log), NEW s, SpineTo(s, k - 1), log[k].hi <= s.prev_hi
  PROVE  SpineTo(s, k)
<1>1. \A j \in 1..k : j \in 1..(k - 1) \/ j = k
  OBVIOUS
<1>2. 1..(k - 1) \subseteq 1..k
  OBVIOUS
<1>3. Topped(s.prev_hi, k)
  BY <1>1, <1>2 DEF SpineTo, Topped
<1>4. Owned(s.segs, k)
  BY <1>2, Zenon DEF SpineTo, Owned
<1> QED
  BY <1>3, <1>4 DEF SpineTo

LEMMA SpineGrows ==
  ASSUME LogTyped, NEW k \in 1..Len(log), NEW s, SpineTo(s, k - 1), s.prev_hi < log[k].hi
  PROVE  SpineTo(Extend(s, log[k]), k)
<1> DEFINE a == log[k]
           p == s.prev_hi
           q == s.segs
           n == Len(q)
           t == Extend(s, a)
           r == t.segs
<1>1. s \in Absorbed /\ a \in Advance /\ a.hi \in Nat /\ p < a.hi
  BY LogAdvances DEF SpineTo, Advance
<1>2. p \in Nat /\ n \in Nat /\ \A g \in 1..n : q[g].lo \in Nat /\ q[g].hi \in Nat
  BY <1>1, SegmentNumbers
<1>3. Topped(p, k - 1) /\ Tiled(q, p) /\ Owned(q, k - 1)
  BY DEF SpineTo
<1>4. \A m \in Nat : 1 <= m => (Took(k, m) <=> p < m /\ m <= a.hi)
  BY <1>1, <1>2, <1>3, TakesTheRest
<1>5. t \in Absorbed /\ t.prev_hi = a.hi
  BY <1>1, ExtendLast, ExtendNew
<1>6. Topped(a.hi, k)
  <2>1. \A j \in 1..(k - 1) : log[j].hi <= p /\ log[j].hi \in Nat
    <3>1. \A j \in 1..(k - 1) : j \in DOMAIN log
      BY LogRows
    <3> QED
      BY <1>3, <3>1, LogRows DEF Topped
  <2>2. \A j \in 1..k : j \in 1..(k - 1) \/ j = k
    OBVIOUS
  <2>3. \A j \in 1..k : log[j].hi <= a.hi
    <3>1. ASSUME NEW j \in 1..(k - 1) PROVE log[j].hi <= a.hi
      <4> HIDE DEF a, p
      <4>1. log[j].hi \in Nat /\ log[j].hi <= p /\ p \in Nat /\ a.hi \in Nat /\ p < a.hi
        BY <1>1, <1>2, <2>1
      <4> QED
        BY <4>1
    <3>2. log[k].hi <= a.hi
      BY <1>1
    <3> QED
      BY <2>2, <3>1, <3>2
  <2>4. k \in 1..k
    OBVIOUS
  <2> QED
    BY <2>3, <2>4 DEF Topped
<1>7. k \in 1..k /\ 1..(k - 1) \subseteq 1..k
  OBVIOUS
<1>8. \A g \in 1..n : \A m \in Nat : q[g].lo <= m /\ m <= q[g].hi => \E f \in 1..k : TookIn(f, q[g], m)
  BY <1>3, <1>7, Zenon DEF Owned
<1>9. /\ \A g \in 1..n : 1 <= q[g].lo /\ q[g].lo <= q[g].hi /\ q[g].hi <= p
      /\ \A g, h \in 1..n : g < h => q[g].hi < q[h].lo
      /\ \A m \in 1..p : \E g \in 1..n : q[g].lo <= m /\ m <= q[g].hi
      /\ n = 0 \/ q[n].hi = p
  BY <1>3 DEF Tiled
<1>10. CASE q # <<>> /\ Last(q).pk = a.pk
  <2>1. /\ Len(r) = n /\ n # 0 /\ \A g \in 1..(n - 1) : r[g] = q[g]
        /\ r[n] = [lo |-> q[n].lo, hi |-> a.hi, pk |-> a.pk]
    BY <1>1, <1>10, ExtendLast
  <2> HIDE DEF p, q, n, r, a, t
  <2>2. n \in 1..n /\ q[n].lo \in Nat /\ q[n].hi = p /\ 1 <= q[n].lo /\ q[n].lo <= p
    BY <1>2, <1>9, <2>1
  <2>3. r[n].lo = q[n].lo /\ r[n].hi = a.hi /\ r[n].pk = a.pk
    BY <2>1
  <2>4. \A g \in 1..n : g = n \/ (g \in 1..(n - 1) /\ g < n)
    BY <1>2
  <2>5. \A g \in 1..n : r[g].lo = q[g].lo /\ (r[g].hi = q[g].hi \/ g = n)
    BY <2>1, <2>3, <2>4
  <2>6. Tiled(r, a.hi)
    <3>1. \A g \in 1..n : 1 <= r[g].lo /\ r[g].lo <= r[g].hi /\ r[g].hi <= a.hi
      <4> SUFFICES ASSUME NEW g \in 1..n
                   PROVE  1 <= r[g].lo /\ r[g].lo <= r[g].hi /\ r[g].hi <= a.hi
        OBVIOUS
      <4>1. /\ q[g].lo \in Nat /\ q[g].hi \in Nat /\ p \in Nat /\ a.hi \in Nat
            /\ 1 <= q[g].lo /\ q[g].lo <= q[g].hi /\ q[g].hi <= p /\ p < a.hi
        BY <1>1, <1>2, <1>9
      <4>2. r[g].lo = q[g].lo /\ (r[g].hi = q[g].hi \/ r[g].hi = a.hi)
        BY <2>3, <2>5
      <4>3. q[g].lo <= a.hi /\ q[g].hi <= a.hi /\ a.hi <= a.hi
        <5>1. \A x, y, z, u \in Nat : x <= y /\ y <= z /\ z < u => x <= u /\ y <= u /\ u <= u
          OBVIOUS
        <5> QED
          BY <4>1, <5>1, Zenon
      <4> QED
        BY <4>1, <4>2, <4>3, Zenon
    <3>2. \A g, h \in 1..n : g < h => r[g].hi < r[h].lo
      <4>1. \A g, h \in 1..n : g < h => g # n
        BY <1>2
      <4> QED
        BY <1>9, <2>5, <4>1
    <3>3. \A m \in 1..a.hi : \E g \in 1..n : r[g].lo <= m /\ m <= r[g].hi
      <4> SUFFICES ASSUME NEW m \in 1..a.hi PROVE \E g \in 1..n : r[g].lo <= m /\ m <= r[g].hi
        OBVIOUS
      <4>1. CASE q[n].lo <= m
        BY <1>1, <2>2, <2>3, <4>1
      <4>2. CASE ~(q[n].lo <= m)
        <5>1. m \in 1..p
          BY <1>1, <1>2, <2>2, <4>2
        <5>2. PICK g \in 1..n : q[g].lo <= m /\ m <= q[g].hi
          BY <1>9, <5>1
        <5> QED
          BY <2>5, <4>2, <5>2
      <4> QED
        BY <4>1, <4>2
    <3> QED
      BY <2>1, <2>3, <3>1, <3>2, <3>3 DEF Tiled
  <2>7. Owned(r, k)
    <3> SUFFICES ASSUME NEW g \in 1..n, NEW m \in Nat, r[g].lo <= m, m <= r[g].hi
                 PROVE  \E f \in 1..k : TookIn(f, r[g], m)
      BY <2>1 DEF Owned
    <3>1. CASE g # n
      <4>1. r[g] = q[g]
        BY <2>1, <2>4, <3>1
      <4> QED
        BY <1>8, <4>1
    <3>2. CASE g = n /\ m <= p
      <4>1. q[n].lo <= m /\ m <= q[n].hi
        BY <2>2, <2>3, <3>2
      <4>2. PICK f \in 1..k : TookIn(f, q[n], m)
        BY <1>8, <2>2, <4>1
      <4>3. log[f].pk = q[n].pk /\ q[n].pk = a.pk
        BY <1>10, <4>2 DEF TookIn, Last, q, n
      <4>4. \A i \in Nat : q[n].lo <= i /\ i <= q[n].hi => r[n].lo <= i /\ i <= r[n].hi
        BY <1>1, <1>2, <2>2, <2>3
      <4>5. TookIn(f, r[n], m)
        BY <2>3, <4>2, <4>3, <4>4 DEF TookIn
      <4> QED
        BY <3>2, <4>5
    <3>3. CASE g = n /\ ~(m <= p)
      <4>1. 1 <= m /\ p < m /\ m <= a.hi
        BY <1>2, <2>2, <2>3, <3>3
      <4>2. Took(k, m)
        BY <1>4, <4>1
      <4>3. \A i \in Nat : 1 <= i /\ Took(k, i) => r[n].lo <= i /\ i <= r[n].hi
        <5>1. \A i \in Nat : 1 <= i /\ Took(k, i) => p < i /\ i <= a.hi
          BY <1>4
        <5> QED
          BY <1>1, <1>2, <2>2, <2>3, <5>1
      <4>4. TookIn(k, r[n], m)
        BY <2>3, <4>2, <4>3 DEF TookIn, a
      <4> QED
        BY <1>7, <3>3, <4>4
    <3> QED
      BY <3>1, <3>2, <3>3
  <2> QED
    BY <1>5, <1>6, <2>6, <2>7 DEF SpineTo, t, a, r
<1>11. CASE ~(q # <<>> /\ Last(q).pk = a.pk)
  <2> DEFINE l == n + 1
  <2>1. /\ Len(r) = l /\ \A g \in 1..n : r[g] = q[g]
        /\ r[l] = [lo |-> p + 1, hi |-> a.hi, pk |-> a.pk]
    BY <1>1, <1>11, ExtendNew
  <2> HIDE DEF p, q, n, r, a, t
  <2>2. r[l].lo = p + 1 /\ r[l].hi = a.hi /\ r[l].pk = a.pk
    BY <2>1
  <2>3. l \in 1..l /\ l \notin 1..n /\ \A g \in 1..l : g \in 1..n \/ g = l
    BY <1>2
  <2>4. 1..n \subseteq 1..l
    BY <1>2
  <2>5. Tiled(r, a.hi)
    <3>1. \A g \in 1..l : 1 <= r[g].lo /\ r[g].lo <= r[g].hi /\ r[g].hi <= a.hi
      <4>1. ASSUME NEW g \in 1..n
            PROVE  1 <= r[g].lo /\ r[g].lo <= r[g].hi /\ r[g].hi <= a.hi
        <5>1. /\ q[g].lo \in Nat /\ q[g].hi \in Nat /\ p \in Nat /\ a.hi \in Nat
              /\ 1 <= q[g].lo /\ q[g].lo <= q[g].hi /\ q[g].hi <= p /\ p < a.hi
          BY <1>1, <1>2, <1>9
        <5>2. r[g] = q[g]
          BY <2>1
        <5> QED
          BY <5>1, <5>2
      <4>2. 1 <= r[l].lo /\ r[l].lo <= r[l].hi /\ r[l].hi <= a.hi
        BY <1>1, <1>2, <2>2
      <4> QED
        BY <2>3, <4>1, <4>2
    <3>2. \A g, h \in 1..l : g < h => r[g].hi < r[h].lo
      <4>1. \A g, h \in 1..l : g < h => g \in 1..n /\ (h \in 1..n \/ h = l)
        <5>1. \A i, j \in 1..(n + 1) : i < j => i \in 1..n /\ (j \in 1..n \/ j = n + 1)
          <6>1. n \in Nat
            BY <1>2
          <6> QED
            BY <6>1
        <5> QED
          BY <5>1
      <4>2. ASSUME NEW g \in 1..n PROVE r[g].hi < r[l].lo
        <5>1. q[g].hi \in Nat /\ p \in Nat /\ q[g].hi <= p
          BY <1>2, <1>9
        <5>2. r[g] = q[g] /\ r[l].lo = p + 1
          BY <2>1, <2>2
        <5> QED
          BY <5>1, <5>2
      <4> QED
        BY <1>9, <2>1, <4>1, <4>2
    <3>3. \A m \in 1..a.hi : \E g \in 1..l : r[g].lo <= m /\ m <= r[g].hi
      <4> SUFFICES ASSUME NEW m \in 1..a.hi PROVE \E g \in 1..l : r[g].lo <= m /\ m <= r[g].hi
        OBVIOUS
      <4>1. CASE p + 1 <= m
        BY <1>1, <2>2, <2>3, <4>1
      <4>2. CASE ~(p + 1 <= m)
        <5>1. m \in 1..p
          BY <1>1, <1>2, <4>2
        <5>2. PICK g \in 1..n : q[g].lo <= m /\ m <= q[g].hi
          BY <1>9, <5>1
        <5> QED
          BY <2>1, <2>4, <5>2
      <4> QED
        BY <4>1, <4>2
    <3> QED
      BY <2>1, <2>2, <3>1, <3>2, <3>3 DEF Tiled
  <2>6. Owned(r, k)
    <3> SUFFICES ASSUME NEW g \in 1..l, NEW m \in Nat, r[g].lo <= m, m <= r[g].hi
                 PROVE  \E f \in 1..k : TookIn(f, r[g], m)
      BY <2>1 DEF Owned
    <3>1. CASE g \in 1..n
      BY <1>8, <2>1, <3>1
    <3>2. CASE g = l
      <4>1. 1 <= m /\ p < m /\ m <= a.hi
        BY <1>2, <2>2, <3>2
      <4>2. Took(k, m)
        BY <1>4, <4>1
      <4>3. \A i \in Nat : 1 <= i /\ Took(k, i) => r[l].lo <= i /\ i <= r[l].hi
        <5>1. \A i \in Nat : 1 <= i /\ Took(k, i) => p < i /\ i <= a.hi
          BY <1>4
        <5>2. \A i \in Nat : p < i => p + 1 <= i
          BY <1>2
        <5> QED
          BY <2>2, <5>1, <5>2
      <4>4. TookIn(k, r[l], m)
        BY <2>2, <4>2, <4>3 DEF TookIn, a
      <4> QED
        BY <1>7, <3>2, <4>4
    <3> QED
      BY <2>3, <3>1, <3>2
  <2> QED
    BY <1>5, <1>6, <2>5, <2>6 DEF SpineTo, t, a, r
<1> QED
  BY <1>10, <1>11

(* The segments after the whole log. *)
LEMMA SpineWhole ==
  ASSUME LogTyped
  PROVE  \E s : SpineTo(s, Len(log)) /\ SpineSegments = s.segs
<1> DEFINE n == Len(log)
<1>1. n \in Nat /\ log \in [1..n -> Advance]
  BY LogAdvances, LogRows
<1> HIDE DEF n
<1>2. PICK F \in [0..n -> Absorbed] :
         /\ F[0] = NoneAbsorbed
         /\ \A k \in 1..n : F[k] = Absorb(F[k - 1], log[k])
         /\ F[n] = FoldLeft(Absorb, NoneAbsorbed, log)
  BY <1>1, AbsorbFolds
<1>3. \A k \in 0..n : SpineTo(F[k], k)
  <2> DEFINE Bad == {k \in 0..n : ~SpineTo(F[k], k)}
  <2> SUFFICES ASSUME Bad # {} PROVE FALSE
    OBVIOUS
  <2>0. Bad \in SUBSET Nat
    BY <1>1
  <2>1. PICK c \in Bad : \A j \in Bad : c <= j
    <3> HIDE DEF Bad
    <3> QED
      BY <2>0, Least
  <2>2. c # 0
    BY <1>2, <2>1, SpineStarts
  <2>3. c \in 1..n /\ c - 1 \in 0..n /\ ~(c <= c - 1)
    BY <1>1, <2>1, <2>2
  <2> DEFINE s == F[c - 1]
  <2>4. SpineTo(s, c - 1)
    BY <2>1, <2>3
  <2>5. F[c] = Absorb(s, log[c]) /\ s.prev_hi \in Nat /\ log[c].hi \in Nat
    <3>1. F[c] = Absorb(s, log[c])
      BY <1>2, <2>3
    <3>2. s.prev_hi \in Nat
      BY <2>4, SegmentNumbers DEF SpineTo
    <3>3. log[c].hi \in Nat
      BY <1>1, <2>3 DEF Advance
    <3> QED
      BY <3>1, <3>2, <3>3
  <2>6. c \in 1..Len(log)
    BY <2>3 DEF n
  <2> HIDE DEF s
  <2>7. CASE log[c].hi <= s.prev_hi
    <3>1. SpineTo(s, c)
      BY <2>4, <2>6, <2>7, SpineWaits
    <3>2. F[c] = s
      BY <2>5, <2>7 DEF Absorb
    <3> QED
      BY <2>1, <3>1, <3>2
  <2>8. CASE ~(log[c].hi <= s.prev_hi)
    <3>1. s.prev_hi < log[c].hi
      BY <2>5, <2>8
    <3>2. SpineTo(Extend(s, log[c]), c)
      BY <2>4, <2>6, <3>1, SpineGrows
    <3>3. F[c] = Extend(s, log[c])
      BY <2>5, <2>8 DEF Absorb
    <3> QED
      BY <2>1, <3>2, <3>3
  <2> QED
    BY <2>7, <2>8
<1>4. SpineTo(F[n], n)
  BY <1>1, <1>3
<1>5. SpineSegments = F[n].segs
  BY <1>2 DEF SpineSegments, NoneAbsorbed
<1> QED
  BY <1>4, <1>5 DEF n

(* PrevHi is the most the rows before a row reach. *)
LEMMA HighestBefore ==
  ASSUME LogTyped, NEW i \in 1..(Len(log) + 1)
  PROVE  /\ PrevHi(i) \in Nat /\ \A j \in 1..(i - 1) : log[j].hi <= PrevHi(i)
         /\ PrevHi(i) = 0 \/ \E j \in 1..(i - 1) : log[j].hi = PrevHi(i)
<1>0. /\ DOMAIN log = 1..Len(log) /\ Len(log) \in Nat /\ i \in Nat
      /\ \A j \in DOMAIN log : log[j].hi \in Nat \ {0}
  BY LogRows
<1> DEFINE H == [j \in 1..(i - 1) |-> log[j].hi]
           T == {H[j] : j \in 1..(i - 1)}
           S == {0} \cup T
<1>1. PrevHi(i) = Max(S)
  BY DEF PrevHi
<1>2. \A j \in 1..(i - 1) : j \in DOMAIN log /\ log[j].hi \in Nat
  BY <1>0
<1>3. IsFiniteSet(T)
  <2> DEFINE J == 1..(i - 1)
  <2>1. IsFiniteSet(J)
    <3>1. i - 1 \in Int /\ 1 \in Int
      BY <1>0
    <3> QED
      BY <3>1, FS_Interval
  <2> HIDE DEF J, H
  <2>2. IsFiniteSet({H[j] : j \in J})
    BY <2>1, ImageFinite
  <2> QED
    BY <2>2 DEF J
<1>4. IsFiniteSet({0})
  BY FS_Singleton
<1>5. T \in SUBSET Nat /\ \A x \in T : \E j \in 1..(i - 1) : log[j].hi = x
  BY <1>2
<1>6. \A j \in 1..(i - 1) : log[j].hi \in T
  OBVIOUS
<1> HIDE DEF T, H
<1>7. IsFiniteSet(S) /\ S \in SUBSET Nat /\ S # {}
  <2>1. IsFiniteSet({0} \cup T)
    BY <1>3, <1>4, FS_Union
  <2> QED
    BY <1>5, <2>1
<1>8. Max(S) \in S /\ \A x \in S : x <= Max(S)
  <2> HIDE DEF S
  <2> QED
    BY <1>7, Greatest
<1>9. Max(S) = 0 \/ Max(S) \in T
  BY <1>8
<1> QED
  BY <1>1, <1>5, <1>6, <1>7, <1>8, <1>9

(* The row the segments go by is the one First and Absorption choose. *)
LEMMA FirstTook ==
  ASSUME LogTyped, NEW f, NEW m \in Nat, 1 <= m, Took(f, m)
  PROVE  /\ Min({i \in DOMAIN log : log[i].hi >= m}) = f
         /\ {i \in DOMAIN log : PrevHi(i) < m /\ m <= log[i].hi} = {f}
<1>1. /\ DOMAIN log = 1..Len(log) /\ Len(log) \in Nat
      /\ \A i \in DOMAIN log : log[i].hi \in Nat \ {0}
  BY LogRows
<1>2. f \in DOMAIN log /\ m <= log[f].hi /\ (\A j \in 1..(f - 1) : log[j].hi < m) /\ f \in Nat
  BY <1>1 DEF Took
<1>3. Min({i \in DOMAIN log : log[i].hi >= m}) = f
  <2> DEFINE S == {i \in DOMAIN log : log[i].hi >= m}
  <2>1. f \in S
    BY <1>1, <1>2
  <2>2. ASSUME NEW i \in S PROVE i \in Nat /\ f <= i
    <3>1. i \in 1..Len(log) /\ m <= log[i].hi /\ log[i].hi \in Nat
      BY <1>1
    <3>2. i \notin 1..(f - 1)
      BY <1>2, <3>1
    <3> QED
      BY <1>1, <1>2, <3>1, <3>2
  <2> HIDE DEF S
  <2>3. Min(S) \in S /\ \A y \in S : Min(S) <= y
    BY <2>1, <2>2, Zenon DEF Min
  <2>4. Min(S) <= f /\ f <= Min(S) /\ Min(S) \in Nat
    BY <2>1, <2>2, <2>3
  <2>5. Min(S) = f
    BY <1>2, <2>4
  <2> QED
    BY <2>5 DEF S
<1>4. ASSUME NEW i \in DOMAIN log
      PROVE  /\ PrevHi(i) \in Nat /\ \A j \in 1..(i - 1) : log[j].hi <= PrevHi(i)
             /\ PrevHi(i) = 0 \/ \E j \in 1..(i - 1) : log[j].hi = PrevHi(i)
  <2>1. i \in 1..(Len(log) + 1)
    BY <1>1
  <2> QED
    BY <2>1, HighestBefore
<1>5. PrevHi(f) < m
  <2>1. PrevHi(f) \in Nat /\ (PrevHi(f) = 0 \/ \E j \in 1..(f - 1) : log[j].hi = PrevHi(f))
    BY <1>2, <1>4
  <2>2. CASE PrevHi(f) = 0
    BY <2>2
  <2>3. CASE \E j \in 1..(f - 1) : log[j].hi = PrevHi(f)
    BY <1>2, <2>3
  <2> QED
    BY <2>1, <2>2, <2>3
<1>6. ASSUME NEW i \in DOMAIN log, PrevHi(i) < m, m <= log[i].hi PROVE i = f
  <2>1. i \in Nat /\ PrevHi(i) \in Nat /\ log[i].hi \in Nat
    BY <1>1, <1>4
  <2>2. i \notin 1..(f - 1)
    <3> SUFFICES ASSUME i \in 1..(f - 1) PROVE FALSE
      OBVIOUS
    <3>1. log[i].hi < m
      BY <1>2
    <3> QED
      BY <1>6, <2>1, <3>1
  <2>3. f \notin 1..(i - 1)
    <3> SUFFICES ASSUME f \in 1..(i - 1) PROVE FALSE
      OBVIOUS
    <3>1. log[f].hi <= PrevHi(i) /\ log[f].hi \in Nat
      BY <1>1, <1>2, <1>4
    <3> QED
      BY <1>2, <1>6, <2>1, <3>1
  <2>4. 1 <= i /\ 1 <= f
    BY <1>1, <1>2
  <2> QED
    BY <1>2, <2>1, <2>2, <2>3, <2>4
<1> QED
  BY <1>2, <1>3, <1>5, <1>6

LEMMA SpineFits == LogTyped => SpineIsSomebodys
<1> SUFFICES ASSUME LogTyped PROVE SpineIsSomebodys
  OBVIOUS
<1> DEFINE top == Max({0} \cup {a.hi : a \in ToSet(log)})
           First(m) == Min({i \in DOMAIN log : log[i].hi >= m})
<1>1. /\ DOMAIN log = 1..Len(log) /\ Len(log) \in Nat
      /\ \A i \in DOMAIN log : log[i].hi \in Nat \ {0}
  BY LogRows
<1>2. PICK s : SpineTo(s, Len(log)) /\ SpineSegments = s.segs
  BY SpineWhole
<1> DEFINE q == s.segs
           p == s.prev_hi
<1>3. p \in Nat /\ Len(q) \in Nat /\ \A g \in 1..Len(q) : q[g].lo \in Nat /\ q[g].hi \in Nat
  BY <1>2, SegmentNumbers DEF SpineTo
<1>4. top = p
  <2> DEFINE l == Len(log) + 1
  <2>1. l \in 1..(Len(log) + 1) /\ 1..(l - 1) = 1..Len(log)
    BY <1>1
  <2> HIDE DEF l
  <2>2. top = PrevHi(l)
    BY <1>1, <2>1 DEF PrevHi, ToSet
  <2>3. /\ PrevHi(l) \in Nat /\ \A j \in 1..Len(log) : log[j].hi <= PrevHi(l)
        /\ PrevHi(l) = 0 \/ \E j \in 1..Len(log) : log[j].hi = PrevHi(l)
    BY <2>1, HighestBefore
  <2>4. Topped(p, Len(log))
    BY <1>2 DEF SpineTo
  <2> HIDE DEF p, top
  <2>5. p <= PrevHi(l)
    BY <1>3, <2>3, <2>4 DEF Topped
  <2>6. PrevHi(l) <= p
    BY <1>3, <2>3, <2>4 DEF Topped
  <2> QED
    BY <1>3, <2>2, <2>3, <2>5, <2>6
<1>5. /\ \A g \in 1..Len(q) : 1 <= q[g].lo /\ q[g].lo <= q[g].hi /\ q[g].hi <= p
      /\ \A g, h \in 1..Len(q) : g < h => q[g].hi < q[h].lo
      /\ \A m \in 1..p : \E g \in 1..Len(q) : q[g].lo <= m /\ m <= q[g].hi
  BY <1>2 DEF SpineTo, Tiled
<1>6. Owned(q, Len(log))
  BY <1>2 DEF SpineTo
<1>7. DOMAIN q = 1..Len(q) /\ ToSet(q) = {q[g] : g \in 1..Len(q)}
  <2>1. q \in Seq(Segment)
    BY <1>2 DEF SpineTo, Absorbed
  <2>2. DOMAIN q = 1..Len(q)
    BY <2>1
  <2> QED
    BY <2>2 DEF ToSet
<1> HIDE DEF p, q
<1>8. UNION {Span(g) : g \in ToSet(q)} = 1..p
  <2>1. \A g \in 1..Len(q) : \A x \in Span(q[g]) : x \in 1..p
    BY <1>3, <1>5 DEF Span
  <2>2. \A m \in 1..p : \E g \in 1..Len(q) : m \in Span(q[g])
    <3> SUFFICES ASSUME NEW m \in 1..p PROVE \E g \in 1..Len(q) : m \in Span(q[g])
      OBVIOUS
    <3>1. PICK g \in 1..Len(q) : q[g].lo <= m /\ m <= q[g].hi
      BY <1>5
    <3>2. m \in q[g].lo..q[g].hi
      BY <1>3, <3>1
    <3> QED
      BY <3>2 DEF Span
  <2> QED
    BY <1>7, <2>1, <2>2
<1>9. ASSUME NEW m \in 1..p
      PROVE  LET In == {g \in ToSet(q) : m \in Span(g)}
             IN  /\ Cardinality(In) = 1
                 /\ \A g \in In : /\ g.pk = log[First(m)].pk
                                  /\ Absorption(m).pk = g.pk
                                  /\ Absorption(m).lo..Absorption(m).hi \subseteq Span(g)
  <2>0. m \in Nat /\ 1 <= m
    BY <1>3
  <2>1. PICK g \in 1..Len(q) : q[g].lo <= m /\ m <= q[g].hi
    BY <1>5
  <2>2. {e \in ToSet(q) : m \in Span(e)} = {q[g]}
    <3>1. m \in Span(q[g])
      BY <1>3, <2>0, <2>1 DEF Span
    <3>2. ASSUME NEW h \in 1..Len(q), m \in Span(q[h]) PROVE h = g
      <4>1. q[h].lo <= m /\ m <= q[h].hi
        BY <3>2 DEF Span
      <4>4. q[g].lo \in Nat /\ q[g].hi \in Nat /\ q[h].lo \in Nat /\ q[h].hi \in Nat
        BY <1>3
      <4>5. \A a, b \in Nat : m <= a /\ b <= m => ~(a < b)
        BY <2>0
      <4>2. ~(g < h)
        <5>1. ~(q[g].hi < q[h].lo)
          BY <2>1, <4>1, <4>4, <4>5, Zenon
        <5> QED
          BY <1>5, <5>1
      <4>3. ~(h < g)
        <5>1. ~(q[h].hi < q[g].lo)
          BY <2>1, <4>1, <4>4, <4>5, Zenon
        <5> QED
          BY <1>5, <5>1
      <4> QED
        BY <1>3, <4>2, <4>3
    <3> QED
      BY <1>7, <3>1, <3>2
  <2>3. PICK f \in 1..Len(log) : TookIn(f, q[g], m)
    BY <1>6, <2>0, <2>1 DEF Owned
  <2>4. /\ Took(f, m) /\ log[f].pk = q[g].pk
        /\ \A n \in Nat : 1 <= n /\ Took(f, n) => q[g].lo <= n /\ n <= q[g].hi
    BY <2>3 DEF TookIn
  <2>5. First(m) = f /\ {i \in DOMAIN log : PrevHi(i) < m /\ m <= log[i].hi} = {f}
    BY <2>0, <2>4, FirstTook
  <2>6. Absorption(m).pk = log[f].pk /\ Absorption(m).lo = PrevHi(f) + 1 /\ Absorption(m).hi = log[f].hi
    <3>1. Min({f}) = f
      <4>1. f <= f
        BY <1>1
      <4> QED
        BY <4>1 DEF Min
    <3> QED
      BY <2>5, <3>1 DEF Absorption
  <2>7. \A x \in (PrevHi(f) + 1)..log[f].hi : x \in Span(q[g])
    <3> SUFFICES ASSUME NEW x \in (PrevHi(f) + 1)..log[f].hi PROVE x \in Span(q[g])
      OBVIOUS
    <3>1. f \in 1..(Len(log) + 1) /\ f \in DOMAIN log
      BY <1>1
    <3>2. PrevHi(f) \in Nat /\ \A j \in 1..(f - 1) : log[j].hi <= PrevHi(f)
      BY <3>1, HighestBefore
    <3>3. x \in Nat /\ 1 <= x /\ PrevHi(f) < x /\ x <= log[f].hi
      BY <1>1, <3>1, <3>2
    <3>4. \A j \in 1..(f - 1) : log[j].hi < x
      <4> SUFFICES ASSUME NEW j \in 1..(f - 1) PROVE log[j].hi < x
        OBVIOUS
      <4>1. j \in DOMAIN log
        BY <1>1
      <4>2. log[j].hi \in Nat /\ log[j].hi <= PrevHi(f)
        BY <1>1, <3>2, <4>1
      <4>3. \A a, b, c \in Nat : a <= b /\ b < c => a < c
        OBVIOUS
      <4> QED
        BY <3>2, <3>3, <4>2, <4>3
    <3>5. Took(f, x)
      BY <3>1, <3>3, <3>4 DEF Took
    <3>6. q[g].lo <= x /\ x <= q[g].hi
      BY <2>4, <3>3, <3>5
    <3> QED
      BY <1>3, <3>3, <3>6 DEF Span
  <2>8. Cardinality({q[g]}) = 1
    BY FS_Singleton
  <2> HIDE DEF First
  <2> QED
    BY <2>2, <2>4, <2>5, <2>6, <2>7, <2>8
<1> HIDE DEF top, First
<1> QED
  BY <1>2, <1>4, <1>8, <1>9 DEF SpineIsSomebodys, q, top, First

(* spine_segments tiles the blocks of the spine, each block belongs to the key
   whose recorded advance reached it first, and spine_absorption names an
   advance inside that segment: whatever advances were recorded, also after
   the spine was lost and built again. *)
THEOREM EveryBlockIsSomebodys == CSpec => []SpineIsSomebodys
<1>1. CreditsInv => SpineIsSomebodys
  BY SpineFits DEF CreditsInv
<1> QED
  BY <1>1, CreditsInit, CreditsNext, PTL DEF CSpec

=============================================================================
