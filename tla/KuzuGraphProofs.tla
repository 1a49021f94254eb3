--------------------------- MODULE KuzuGraphProofs ---------------------------
(***************************************************************************)
(* What the operators of KuzuGraph compute, for any graph and any batches: *)
(* executing, merging, shedding and replaying statements; staging,         *)
(* pruning, promoting and resolving writes.  KuzuFlusherProofs puts them   *)
(* together.                                                               *)
(***************************************************************************)
EXTENDS KuzuGraph, FiniteSetTheorems, WellFoundedInduction, TLAPS

-----------------------------------------------------------------------------
(***************************************************************************)
(* What a fold over a sequence computes.  The folds of the model are       *)
(* functions on the sets of indices, defined by recursion; such a function *)
(* exists, and it is determined on every set of indices.                   *)
(***************************************************************************)

LEMMA InductionOnNat ==
    ASSUME NEW A, A \subseteq Nat, 0 \in A, \A n \in A : n + 1 \in A
    PROVE  A = Nat
<1> SUFFICES ASSUME Nat \ A # {} PROVE FALSE
  OBVIOUS
<1> DEFINE R == OpToRel(<, Nat)
<1>1. PICK m \in Nat \ A : \A y \in Nat \ A : ~(<<y, m>> \in R)
  <2>1. IsWellFoundedOn(R, Nat)
    BY NatLessThanWellFounded
  <2> HIDE DEF R
  <2> QED BY <2>1, WFMin
<1>2. \A y \in Nat \ A : ~(y < m)
  BY <1>1 DEF OpToRel
<1>3. m # 0 /\ m - 1 \in Nat /\ m - 1 < m /\ (m - 1) + 1 = m
  OBVIOUS
<1>4. m - 1 \in A
  BY <1>2, <1>3
<1> QED BY <1>3, <1>4

(* A step can be taken any number of times.                                *)
StepIn(W, w, F) == w \in W /\ F \in [W -> W]
RunOf(W, w, F, h) == h \in [Nat -> W] /\ h[0] = w /\ \A n \in Nat : h[n + 1] = F[h[n]]

LEMMA Iterates ==
    ASSUME NEW W, NEW w, NEW F, StepIn(W, w, F)
    PROVE  \E h : RunOf(W, w, F, h)
<1> USE DEF StepIn
<1> DEFINE Runs(n) == {a \in [0..n -> W] : a[0] = w /\ \A i \in 0..(n - 1) : a[i + 1] = F[a[i]]}
<1>1. \A n \in Nat : Runs(n) # {}
  <2> DEFINE A == {n \in Nat : Runs(n) # {}}
  <2>1. 0 \in A
    <3>1. [i \in 0..0 |-> w] \in Runs(0)
      OBVIOUS
    <3> QED BY <3>1
  <2>2. ASSUME NEW n \in A PROVE n + 1 \in A
    <3>1. PICK a \in Runs(n) : TRUE
      OBVIOUS
    <3> DEFINE b == [i \in 0..(n + 1) |-> IF i = n + 1 THEN F[a[n]] ELSE a[i]]
    <3>2. b \in [0..(n + 1) -> W]
      BY <3>1
    <3>3. b[0] = w /\ \A i \in 0..n : b[i + 1] = F[b[i]]
      BY <3>1
    <3>4. b \in Runs(n + 1)
      BY <3>2, <3>3
    <3> QED BY <3>4
  <2>3. A = Nat
    <3> HIDE DEF A
    <3> QED BY <2>1, <2>2, InductionOnNat DEF A
  <2> QED BY <2>3
<1>2. \A n \in Nat : \A m \in Nat : \A a \in Runs(n), b \in Runs(m) :
          n <= m => a[n] = b[n]
  <2> SUFFICES ASSUME NEW n \in Nat, NEW m \in Nat, NEW a \in Runs(n), NEW b \in Runs(m), n <= m
               PROVE  a[n] = b[n]
    OBVIOUS
  <2> DEFINE A == {i \in Nat : i <= n => a[i] = b[i]}
  <2>1. 0 \in A
    OBVIOUS
  <2>2. ASSUME NEW i \in A PROVE i + 1 \in A
    <3> SUFFICES ASSUME i + 1 <= n PROVE a[i + 1] = b[i + 1]
      OBVIOUS
    <3>1. a[i] = b[i] /\ i \in 0..(n - 1) /\ i \in 0..(m - 1)
      OBVIOUS
    <3> QED BY <3>1
  <2>3. A = Nat
    <3> HIDE DEF A
    <3> QED BY <2>1, <2>2, InductionOnNat DEF A
  <2> QED BY <2>3
<1> DEFINE run(n) == CHOOSE a \in Runs(n) : TRUE
           h == [n \in Nat |-> run(n)[n]]
<1>3. \A n \in Nat : run(n) \in Runs(n)
  BY <1>1
<1> HIDE DEF run
<1>4. h \in [Nat -> W]
  BY <1>3
<1>5. h[0] = w
  BY <1>3
<1>6. ASSUME NEW n \in Nat PROVE h[n + 1] = F[h[n]]
  <2>1. run(n + 1)[n + 1] = F[run(n + 1)[n]]
    BY <1>3
  <2>2. run(n)[n] = run(n + 1)[n]
    <3>1. n + 1 \in Nat /\ n <= n + 1 /\ run(n) \in Runs(n) /\ run(n + 1) \in Runs(n + 1)
      BY <1>3
    <3> HIDE DEF Runs
    <3> QED BY <1>2, <3>1
  <2> QED BY <2>1, <2>2
<1>7. RunOf(W, w, F, h)
  BY <1>4, <1>5, <1>6 DEF RunOf
<1> QED BY <1>7

(* The greatest of some indices.                                           *)
LEMMA GreatestIndex ==
    ASSUME NEW n \in Nat, NEW S, S \subseteq 1..n, S # {}
    PROVE  Max(S) \in S /\ \A i \in S : i <= Max(S)
<1> DEFINE A == {m \in Nat : \E x \in S : x >= n - m}
           R == OpToRel(<, Nat)
<1>1. PICK m \in A : \A y \in A : ~(<<y, m>> \in R)
  <2>1. IsWellFoundedOn(R, Nat)
    BY NatLessThanWellFounded
  <2>2. PICK z \in S : z >= n - n
    <3>1. PICK z \in S : TRUE
      OBVIOUS
    <3> QED BY <3>1
  <2>3. A \subseteq Nat /\ n \in A
    BY <2>2
  <2> HIDE DEF R, A
  <2> QED BY <2>1, <2>3, WFMin
<1>2. \A y \in A : ~(y < m)
  BY <1>1 DEF OpToRel
<1>3. PICK x \in S : x >= n - m
  OBVIOUS
<1>4. ASSUME NEW y \in S PROVE x >= y
  <2>1. SUFFICES ASSUME y > x PROVE FALSE
    OBVIOUS
  <2>2. n - y \in A /\ n - y < m
    BY <2>1, <1>3
  <2> QED BY <1>2, <2>2
<1>5. \E z \in S : \A y \in S : z >= y
  BY <1>3, <1>4
<1> QED BY <1>5 DEF Max

LEMMA InitialIndices ==
    ASSUME NEW n \in Nat
    PROVE  1..(n + 1) # {} /\ Max(1..(n + 1)) = n + 1 /\ (1..(n + 1)) \ {n + 1} = 1..n
<1>1. 1..(n + 1) # {} /\ (1..(n + 1)) \ {n + 1} = 1..n
  OBVIOUS
<1>2. Max(1..(n + 1)) \in 1..(n + 1) /\ \A i \in 1..(n + 1) : i <= Max(1..(n + 1))
  <2> DEFINE S == 1..(n + 1)
  <2>1. n + 1 \in Nat /\ S \subseteq 1..(n + 1) /\ S # {}
    BY <1>1
  <2> HIDE DEF S
  <2>2. Max(S) \in S /\ \A i \in S : i <= Max(S)
    BY <2>1, GreatestIndex
  <2> QED BY <2>2 DEF S
<1> QED BY <1>1, <1>2

(* F is a step of a fold over elements of X, on values in V; it is a       *)
(* solution of the recursion of the fold over the n elements of s.         *)
Steps(V, X, F) == F \in [V \X X -> V]
Over(n, X, s) == n \in Nat /\ s \in [1..n -> X]
Solves(F, b, n, s, it) ==
    \A S \in SUBSET (1..n) :
        it[S] = IF S = {} THEN b ELSE F[<<it[S \ {Max(S)}], s[Max(S)]>>]

LEMMA FoldExists ==
    ASSUME NEW V, NEW X, NEW F, Steps(V, X, F), NEW b \in V, NEW n, NEW s, Over(n, X, s)
    PROVE  \E it : it \in [SUBSET (1..n) -> V] /\ Solves(F, b, n, s, it)
<1> USE DEF Steps, Over
<1> DEFINE D == SUBSET (1..n)
           W == [D -> V]
           Step == [a \in W |-> [S \in D |->
                      IF S = {} THEN b ELSE F[<<a[S \ {Max(S)}], s[Max(S)]>>]]]
           w0 == [S \in D |-> b]
<1>0. \A S \in D : S # {} => Max(S) \in S /\ S \ {Max(S)} \in D /\ s[Max(S)] \in X
  BY GreatestIndex
<1>1. Step \in [W -> W]
  BY <1>0
<1>2. PICK h \in [Nat -> W] : h[0] = w0 /\ \A i \in Nat : h[i + 1] = Step[h[i]]
  <2>1. w0 \in W
    OBVIOUS
  <2>2. StepIn(W, w0, Step)
    BY <1>1, <2>1 DEF StepIn
  <2> HIDE DEF W, Step, w0
  <2>3. PICK h : RunOf(W, w0, Step, h)
    BY <2>2, Iterates
  <2> QED BY <2>3 DEF RunOf
<1> DEFINE it == [S \in D |-> h[Cardinality(S)][S]]
<1>3. \A S \in D : Cardinality(S) \in Nat /\ (S = {} <=> Cardinality(S) = 0)
  <2> SUFFICES ASSUME NEW S \in D
        PROVE Cardinality(S) \in Nat /\ (S = {} <=> Cardinality(S) = 0)
    OBVIOUS
  <2>1. IsFiniteSet(1..n)
    BY FS_Interval
  <2>2. IsFiniteSet(S)
    BY <2>1, FS_Subset
  <2> QED BY <2>2, FS_CardinalityType, FS_EmptySet
<1>4. it \in W
  <2>1. \A S \in D : h[Cardinality(S)] \in W
    BY <1>2, <1>3
  <2> QED BY <2>1
<1>5. ASSUME NEW S \in D
      PROVE  it[S] = IF S = {} THEN b ELSE F[<<it[S \ {Max(S)}], s[Max(S)]>>]
  <2>1. CASE S = {}
    BY <1>2, <1>3, <2>1
  <2>2. CASE S # {}
    <3> DEFINE m == Max(S)
               c == Cardinality(S \ {m})
    <3>1. IsFiniteSet(1..n)
      BY FS_Interval
    <3>2. IsFiniteSet(S) /\ m \in S /\ S \ {m} \in D
      BY <1>0, <2>2, <3>1, FS_Subset
    <3>3. Cardinality(S) = c + 1 /\ c \in Nat
      <4> HIDE DEF m
      <4>1. Cardinality(S \ {m}) = Cardinality(S) - 1
        BY <3>2, FS_RemoveElement
      <4>2. Cardinality(S) \in Nat /\ Cardinality(S \ {m}) \in Nat
        BY <3>2, <1>3
      <4> QED BY <4>1, <4>2
    <3>4. it[S] = Step[h[c]][S]
      BY <3>3, <1>2
    <3>5. h[c] \in W /\ it[S \ {m}] = h[c][S \ {m}]
      BY <1>2, <3>2, <3>3
    <3> HIDE DEF c, m, it
    <3> QED BY <2>2, <3>4, <3>5 DEF m
  <2> QED BY <2>1, <2>2
<1>6. Solves(F, b, n, s, it)
  BY <1>5 DEF Solves
<1> QED BY <1>4, <1>6

(* Any solution stays where the steps of the fold keep it.                 *)
LEMMA FoldStaysTyped ==
    ASSUME NEW V, NEW n \in Nat, NEW it,
           \A S \in SUBSET (1..n) :
              IF S = {} THEN it[S] \in V
              ELSE it[S \ {Max(S)}] \in V => it[S] \in V
    PROVE  \A S \in SUBSET (1..n) : it[S] \in V
<1> DEFINE A == {c \in Nat : \A S \in SUBSET (1..n) : Cardinality(S) = c => it[S] \in V}
<1>0. \A S \in SUBSET (1..n) : IsFiniteSet(S) /\ Cardinality(S) \in Nat
                               /\ (Cardinality(S) = 0 <=> S = {})
  <2>1. IsFiniteSet(1..n)
    BY FS_Interval
  <2>2. \A S \in SUBSET (1..n) : IsFiniteSet(S)
    BY <2>1, FS_Subset
  <2> QED BY <2>2, FS_CardinalityType, FS_EmptySet
<1>1. 0 \in A
  BY <1>0
<1>2. ASSUME NEW c \in A PROVE c + 1 \in A
  <2> SUFFICES ASSUME NEW S \in SUBSET (1..n), Cardinality(S) = c + 1
               PROVE  it[S] \in V
    OBVIOUS
  <2>1. S # {} /\ IsFiniteSet(S)
    BY <1>0
  <2>2. Max(S) \in S /\ S \ {Max(S)} \in SUBSET (1..n)
    BY <2>1, GreatestIndex
  <2>3. Cardinality(S \ {Max(S)}) = c
    <3>1. Cardinality(S \ {Max(S)}) = Cardinality(S) - 1
      BY <2>1, <2>2, FS_RemoveElement
    <3> QED BY <3>1
  <2> QED BY <2>1, <2>2, <2>3
<1>3. A = Nat
  <2> HIDE DEF A
  <2> QED BY <1>1, <1>2, InductionOnNat DEF A
<1> QED BY <1>0, <1>3

(* The fold of a function F over a sequence, from the left.                *)
Fold(F, b, s) ==
    LET h[i \in 0..Len(s)] == IF i = 0 THEN b ELSE F[<<h[i - 1], s[i]>>]
    IN  h[Len(s)]

FoldRun(F, b, s, h) ==
    h = [i \in 0..Len(s) |-> IF i = 0 THEN b ELSE F[<<h[i - 1], s[i]>>]]

Folds(V, X, F, b, s) == Steps(V, X, F) /\ b \in V /\ s \in Seq(X)

IsRun(F, b, n, s, h) ==
    h[0] = b /\ \A i \in 0..(n - 1) : h[i + 1] = F[<<h[i], s[i + 1]>>]

LEMMA EqualSequences ==
    ASSUME NEW X, NEW s \in Seq(X), NEW t \in Seq(X), Len(s) = Len(t),
           \A i \in 1..Len(s) : s[i] = t[i]
    PROVE  s = t
<1>1. s \in [1..Len(s) -> X] /\ t \in [1..Len(s) -> X]
  OBVIOUS
<1> QED BY <1>1

LEMMA InductionOnSeq ==
    ASSUME NEW X, NEW A, A \subseteq Seq(X), <<>> \in A,
           \A s \in A : \A x \in X : Append(s, x) \in A
    PROVE  A = Seq(X)
<1> DEFINE N == {n \in Nat : \A s \in Seq(X) : Len(s) = n => s \in A}
<1>1. 0 \in N
  <2>1. \A s \in Seq(X) : Len(s) = 0 => s = <<>>
    OBVIOUS
  <2> QED BY <2>1
<1>2. ASSUME NEW n \in N PROVE n + 1 \in N
  <2> SUFFICES ASSUME NEW s \in Seq(X), Len(s) = n + 1 PROVE s \in A
    OBVIOUS
  <2> DEFINE t == SubSeq(s, 1, n)
  <2>1. t \in Seq(X) /\ Len(t) = n /\ s[n + 1] \in X
    OBVIOUS
  <2>2. s = Append(t, s[n + 1])
    <3>1. /\ Append(t, s[n + 1]) \in Seq(X) /\ Len(Append(t, s[n + 1])) = n + 1
          /\ \A i \in 1..(n + 1) : Append(t, s[n + 1])[i] = s[i]
      BY <2>1
    <3> HIDE DEF t
    <3> QED BY <3>1, EqualSequences
  <2> HIDE DEF t
  <2> QED BY <2>1, <2>2
<1>3. N = Nat
  <2> HIDE DEF N
  <2> QED BY <1>1, <1>2, InductionOnNat DEF N
<1>4. \A s \in Seq(X) : Len(s) \in Nat
  OBVIOUS
<1> QED BY <1>3, <1>4

(* The values of a run are determined, and the run exists.                 *)
LEMMA RunDetermined ==
    ASSUME NEW V, NEW X, NEW F, Steps(V, X, F), NEW b \in V, NEW n, NEW s, Over(n, X, s),
           NEW it, Solves(F, b, n, s, it)
    PROVE  /\ it[1..0] = b
           /\ \A i \in 0..(n - 1) : it[1..(i + 1)] = F[<<it[1..i], s[i + 1]>>]
           /\ \A i \in 0..n : it[1..i] \in V
<1> USE DEF Over
<1>1. it[1..0] = b
  <2>1. 1..0 = {} /\ {} \in SUBSET (1..n)
    OBVIOUS
  <2> QED BY <2>1 DEF Solves
<1>2. ASSUME NEW i \in 0..(n - 1) PROVE it[1..(i + 1)] = F[<<it[1..i], s[i + 1]>>]
  <2>1. /\ 1..(i + 1) # {} /\ Max(1..(i + 1)) = i + 1
        /\ (1..(i + 1)) \ {i + 1} = 1..i
    <3>1. i \in Nat
      OBVIOUS
    <3> QED BY <3>1, InitialIndices
  <2>2. 1..(i + 1) \in SUBSET (1..n)
    OBVIOUS
  <2> QED BY <2>1, <2>2 DEF Solves
<1>3. \A i \in 0..n : it[1..i] \in V
  <2> DEFINE A == {i \in Nat : i <= n => it[1..i] \in V}
  <2>1. 0 \in A
    BY <1>1
  <2>2. ASSUME NEW i \in A PROVE i + 1 \in A
    <3> SUFFICES ASSUME i + 1 <= n PROVE it[1..(i + 1)] \in V
      OBVIOUS
    <3>1. i \in 0..(n - 1) /\ i + 1 \in 1..n /\ it[1..i] \in V
      OBVIOUS
    <3> QED BY <3>1, <1>2 DEF Steps
  <2>3. A = Nat
    <3> HIDE DEF A
    <3> QED BY <2>1, <2>2, InductionOnNat DEF A
  <2> QED BY <2>3
<1> QED BY <1>1, <1>2, <1>3

LEMMA FoldRuns ==
    ASSUME NEW V, NEW X, NEW F, NEW b, NEW s, Folds(V, X, F, b, s)
    PROVE  \E h : /\ h \in [0..Len(s) -> V] /\ IsRun(F, b, Len(s), s, h)
                  /\ Fold(F, b, s) = h[Len(s)]
<1> DEFINE n == Len(s)
<1>0. Steps(V, X, F) /\ b \in V /\ s \in Seq(X)
  BY DEF Folds
<1>1. n \in Nat /\ s \in [1..n -> X] /\ Over(n, X, s)
  BY <1>0 DEF Over
<1>2. PICK it : it \in [SUBSET (1..n) -> V] /\ Solves(F, b, n, s, it)
  <2> HIDE DEF n
  <2> QED BY <1>0, <1>1, FoldExists
<1> DEFINE r == [i \in 0..n |-> it[1..i]]
<1>3. /\ it[1..0] = b
      /\ \A i \in 0..(n - 1) : it[1..(i + 1)] = F[<<it[1..i], s[i + 1]>>]
      /\ \A i \in 0..n : it[1..i] \in V
  <2> HIDE DEF n
  <2> QED BY <1>0, <1>1, <1>2, RunDetermined
<1>4. FoldRun(F, b, s, r)
  <2>1. \A i \in 0..n : i # 0 => i - 1 \in 0..(n - 1) /\ (i - 1) + 1 = i
    BY <1>1
  <2>2. \A i \in 0..n : r[i] = IF i = 0 THEN b ELSE F[<<r[i - 1], s[i]>>]
    BY <1>1, <1>3, <2>1
  <2> HIDE DEF r
  <2>3. r = [i \in 0..n |-> r[i]]
    BY DEF r
  <2> QED BY <2>2, <2>3 DEF FoldRun
<1> DEFINE h == CHOOSE x : FoldRun(F, b, s, x)
<1>5. FoldRun(F, b, s, h)
  BY <1>4
<1>6. Fold(F, b, s) = h[n]
  BY DEF Fold, FoldRun
<1> HIDE DEF h
<1>7. h[0] = b /\ \A i \in 0..(n - 1) : h[i + 1] = F[<<h[i], s[i + 1]>>]
  <2>1. \A i \in 0..n : h[i] = IF i = 0 THEN b ELSE F[<<h[i - 1], s[i]>>]
    BY <1>5 DEF FoldRun
  <2>2. \A i \in 0..(n - 1) : i + 1 \in 0..n /\ i + 1 # 0 /\ (i + 1) - 1 = i
    BY <1>1
  <2>3. 0 \in 0..n
    BY <1>1
  <2> QED BY <2>1, <2>2, <2>3
<1>8. \A i \in 0..n : h[i] \in V
  <2> DEFINE A == {i \in Nat : i <= n => h[i] \in V}
  <2>1. 0 \in A
    BY <1>0, <1>7
  <2>2. ASSUME NEW i \in A PROVE i + 1 \in A
    <3> SUFFICES ASSUME i + 1 <= n PROVE h[i + 1] \in V
      OBVIOUS
    <3>1. i \in 0..(n - 1) /\ i + 1 \in 1..n /\ h[i] \in V /\ s[i + 1] \in X
      BY <1>0, <1>1
    <3> QED BY <3>1, <1>0, <1>7 DEF Steps
  <2>3. A = Nat
    <3> HIDE DEF A
    <3> QED BY <2>1, <2>2, InductionOnNat DEF A
  <2> QED BY <2>3, <1>1
<1>9. h \in [0..n -> V]
  <2>1. h = [i \in 0..n |-> h[i]]
    BY <1>5 DEF FoldRun
  <2> QED BY <2>1, <1>8
<1>10. IsRun(F, b, n, s, h)
  BY <1>7 DEF IsRun
<1> QED BY <1>6, <1>9, <1>10

(* A solution of the recursion on sets of indices has the fold at the top. *)
LEMMA FoldIsSolution ==
    ASSUME NEW V, NEW X, NEW F, NEW b, NEW s, Folds(V, X, F, b, s), NEW it,
           Solves(F, b, Len(s), s, it)
    PROVE  it[1..Len(s)] = Fold(F, b, s)
<1> DEFINE n == Len(s)
<1>0. Steps(V, X, F) /\ b \in V /\ s \in Seq(X)
  BY DEF Folds
<1>1. n \in Nat /\ s \in [1..n -> X] /\ Over(n, X, s)
  BY <1>0 DEF Over
<1>2. PICK h \in [0..n -> V] :
         /\ h[0] = b /\ Fold(F, b, s) = h[n]
         /\ \A i \in 0..(n - 1) : h[i + 1] = F[<<h[i], s[i + 1]>>]
  BY FoldRuns DEF IsRun
<1>3. /\ it[1..0] = b
      /\ \A i \in 0..(n - 1) : it[1..(i + 1)] = F[<<it[1..i], s[i + 1]>>]
  <2>1. Solves(F, b, n, s, it)
    OBVIOUS
  <2> HIDE DEF n
  <2> QED BY <1>0, <1>1, <2>1, RunDetermined
<1> DEFINE A == {i \in Nat : i <= n => it[1..i] = h[i]}
<1>4. 0 \in A
  BY <1>2, <1>3
<1>5. ASSUME NEW i \in A PROVE i + 1 \in A
  <2> SUFFICES ASSUME i + 1 <= n PROVE it[1..(i + 1)] = h[i + 1]
    OBVIOUS
  <2>1. i \in 0..(n - 1) /\ it[1..i] = h[i]
    BY <1>1
  <2> QED BY <2>1, <1>2, <1>3
<1>6. A = Nat
  <2> HIDE DEF A
  <2> QED BY <1>4, <1>5, InductionOnNat DEF A
<1> QED BY <1>1, <1>2, <1>6

LEMMA FoldOfNothing ==
    ASSUME NEW V, NEW X, NEW F, NEW b, NEW s, Folds(V, X, F, b, s), s = <<>>
    PROVE  Fold(F, b, s) = b
<1>1. PICK h : h \in [0..Len(s) -> V] /\ IsRun(F, b, Len(s), s, h) /\ Fold(F, b, s) = h[Len(s)]
  BY FoldRuns
<1>2. Len(s) = 0
  OBVIOUS
<1> QED BY <1>1, <1>2 DEF IsRun

LEMMA FoldInV ==
    ASSUME NEW V, NEW X, NEW F, NEW b, NEW s, Folds(V, X, F, b, s)
    PROVE  Fold(F, b, s) \in V
<1>1. PICK h : h \in [0..Len(s) -> V] /\ Fold(F, b, s) = h[Len(s)]
  BY FoldRuns
<1>2. Len(s) \in Nat
  BY DEF Folds
<1> QED BY <1>1, <1>2

(* One element more is one step more.                                      *)
LEMMA FoldOfAppend ==
    ASSUME NEW V, NEW X, NEW F, NEW b, NEW s, Folds(V, X, F, b, s), NEW x \in X
    PROVE  Fold(F, b, Append(s, x)) = F[<<Fold(F, b, s), x>>]
<1> DEFINE n == Len(s)
           t == Append(s, x)
<1>0. Steps(V, X, F) /\ b \in V /\ s \in Seq(X)
  BY DEF Folds
<1>1. /\ n \in Nat /\ t \in Seq(X) /\ Len(t) = n + 1 /\ t[n + 1] = x
      /\ \A i \in 1..n : t[i] = s[i]
  BY <1>0
<1>2. PICK h \in [0..n -> V] :
         /\ h[0] = b /\ Fold(F, b, s) = h[n]
         /\ \A i \in 0..(n - 1) : h[i + 1] = F[<<h[i], s[i + 1]>>]
  BY FoldRuns DEF IsRun
<1>3. PICK k \in [0..(n + 1) -> V] :
         /\ k[0] = b /\ Fold(F, b, t) = k[n + 1]
         /\ \A i \in 0..n : k[i + 1] = F[<<k[i], t[i + 1]>>]
  <2>1. PICK k \in [0..Len(t) -> V] :
           /\ k[0] = b /\ Fold(F, b, t) = k[Len(t)]
           /\ \A i \in 0..(Len(t) - 1) : k[i + 1] = F[<<k[i], t[i + 1]>>]
    <3>1. Folds(V, X, F, b, t)
      BY <1>0, <1>1 DEF Folds
    <3> HIDE DEF t
    <3> QED BY <3>1, FoldRuns DEF IsRun
  <2>2. Len(t) = n + 1 /\ Len(t) - 1 = n
    BY <1>1
  <2> QED BY <2>1, <2>2
<1> HIDE DEF t
<1> DEFINE A == {i \in Nat : i <= n => k[i] = h[i]}
<1>4. 0 \in A
  BY <1>2, <1>3
<1>5. ASSUME NEW i \in A PROVE i + 1 \in A
  <2> SUFFICES ASSUME i + 1 <= n PROVE k[i + 1] = h[i + 1]
    OBVIOUS
  <2>1. i \in 0..(n - 1) /\ i \in 0..n /\ i + 1 \in 1..n /\ k[i] = h[i]
    BY <1>1
  <2> QED BY <2>1, <1>1, <1>2, <1>3
<1>6. A = Nat
  <2> HIDE DEF A
  <2> QED BY <1>4, <1>5, InductionOnNat DEF A
<1>7. k[n] = h[n] /\ n \in 0..n
  BY <1>1, <1>6
<1> QED BY <1>1, <1>2, <1>3, <1>7 DEF t

-----------------------------------------------------------------------------
(* The folds of the model.                                                 *)

Rows == [Keys -> Payload]
Kinds == {"delete", "set", "create"}
Stmt == {x \in [key : Keys, val : Payload, stmt : Kinds] :
            x.val = 0 <=> x.stmt = "delete"}
Write == [key : Keys, val : Payload]

DoneF == [p \in Rows \X Stmt |-> Done(p[1], p[2])]
MergedF == [p \in Seq(Stmt) \X Stmt |-> MergedWith(p[1], p[2])]
KeptF == [p \in Seq(Stmt) \X Stmt |-> KeptWith(p[1], p[2])]
PutF(m) == [p \in Seq(Write) \X Keys |-> Put(p[1], p[2], m[p[2]])]

LEMMA DoneTyped ==
    ASSUME NEW d \in Rows, NEW x \in Stmt
    PROVE  Done(d, x) \in Rows
BY DEF Done, Rows, Stmt, Payload

LEMMA DoneIsStep ==
    /\ Steps(Rows, Stmt, DoneF)
    /\ \A d \in Rows, x \in Stmt : DoneF[<<d, x>>] = Done(d, x)
BY DoneTyped DEF DoneF, Steps

LEMMA MergedWithTyped ==
    ASSUME NEW t \in Seq(Stmt), NEW x \in Stmt
    PROVE  MergedWith(t, x) \in Seq(Stmt)
<1>0. CASE x.stmt = "delete"
  BY <1>0 DEF MergedWith
<1> SUFFICES ASSUME x.stmt # "delete" PROVE MergedWith(t, x) \in Seq(Stmt)
  BY <1>0
<1>1. Append(t, x) \in Seq(Stmt)
  OBVIOUS
<1> DEFINE u == [i \in DOMAIN t |-> IF i \in Slots(t, x)
                                   THEN [t[i] EXCEPT !.val = x.val] ELSE t[i]]
<1>2. u \in Seq(Stmt)
  <2>1. \A i \in 1..Len(t) : u[i] \in Stmt
    <3>1. \A y \in Stmt : y.stmt # "delete" => [y EXCEPT !.val = x.val] \in Stmt
      BY DEF Stmt
    <3>2. \A i \in 1..Len(t) : i \in DOMAIN t /\ t[i] \in Stmt
      OBVIOUS
    <3>3. \A i \in Slots(t, x) : t[i].stmt # "delete"
      <4>1. \A i \in 1..Len(t) : i \in i..Len(t)
        OBVIOUS
      <4> QED BY <4>1 DEF Slots
    <3> QED BY <3>1, <3>2, <3>3
  <2>2. Len(t) \in Nat /\ DOMAIN t = 1..Len(t)
    OBVIOUS
  <2>3. u \in [1..Len(t) -> Stmt]
    BY <2>1, <2>2
  <2> HIDE DEF u
  <2> QED BY <2>2, <2>3
<1> QED BY <1>1, <1>2 DEF MergedWith

LEMMA MergedWithIsStep ==
    /\ Steps(Seq(Stmt), Stmt, MergedF) /\ <<>> \in Seq(Stmt)
    /\ \A t \in Seq(Stmt), x \in Stmt : MergedF[<<t, x>>] = MergedWith(t, x)
BY MergedWithTyped DEF MergedF, Steps

LEMMA KeptWithTyped ==
    ASSUME NEW t \in Seq(Stmt), NEW x \in Stmt
    PROVE  KeptWith(t, x) \in Seq(Stmt)
BY DEF KeptWith

LEMMA KeptWithIsStep ==
    /\ Steps(Seq(Stmt), Stmt, KeptF) /\ <<>> \in Seq(Stmt)
    /\ \A t \in Seq(Stmt), x \in Stmt : KeptF[<<t, x>>] = KeptWith(t, x)
BY KeptWithTyped DEF KeptF, Steps

LEMMA PutTyped ==
    ASSUME NEW q \in Seq(Write), NEW k \in Keys, NEW v \in Payload
    PROVE  Put(q, k, v) \in Seq(Write)
<1>1. Append(q, [key |-> k, val |-> v]) \in Seq(Write)
  BY DEF Write
<1> DEFINE u == [i \in DOMAIN q |-> IF q[i].key = k THEN [key |-> k, val |-> v] ELSE q[i]]
<1>2. u \in Seq(Write)
  <2>1. \A i \in 1..Len(q) : u[i] \in Write
    <3>1. [key |-> k, val |-> v] \in Write
      BY DEF Write
    <3>2. \A i \in 1..Len(q) : i \in DOMAIN q /\ q[i] \in Write
      OBVIOUS
    <3> QED BY <3>1, <3>2
  <2>2. Len(q) \in Nat /\ DOMAIN q = 1..Len(q)
    OBVIOUS
  <2>3. u \in [1..Len(q) -> Write]
    BY <2>1, <2>2
  <2> HIDE DEF u
  <2> QED BY <2>2, <2>3
<1> QED BY <1>1, <1>2 DEF Put

LEMMA PutIsStep ==
    ASSUME NEW m \in Rows
    PROVE  /\ Steps(Seq(Write), Keys, PutF(m))
           /\ \A q \in Seq(Write), k \in Keys : PutF(m)[<<q, k>>] = Put(q, k, m[k])
BY PutTyped DEF PutF, Steps, Rows

LEMMA ExecutedIsFold ==
    ASSUME NEW d \in Rows, NEW s \in Seq(Stmt)
    PROVE  Executed(d, s) = Fold(DoneF, d, s)
<1> DEFINE n == Len(s)
           Eq(x) == x = [S \in SUBSET (DOMAIN s) |->
                           IF S = {} THEN d ELSE Done(x[S \ {Max(S)}], s[Max(S)])]
           it == CHOOSE x : Eq(x)
<1>0. /\ Steps(Rows, Stmt, DoneF) /\ d \in Rows
      /\ \A v \in Rows, x \in Stmt : DoneF[<<v, x>>] = Done(v, x)
  BY DoneIsStep
<1>1. n \in Nat /\ DOMAIN s = 1..n /\ Over(n, Stmt, s)
  BY DEF Over
<1>2. \A S \in SUBSET (1..n) :
         S # {} => S \ {Max(S)} \in SUBSET (1..n) /\ s[Max(S)] \in Stmt
  <2> SUFFICES ASSUME NEW S \in SUBSET (1..n), S # {}
               PROVE  S \ {Max(S)} \in SUBSET (1..n) /\ s[Max(S)] \in Stmt
    OBVIOUS
  <2>1. PICK top \in S : top = Max(S)
    BY <1>1, GreatestIndex
  <2>2. top \in 1..n /\ s[top] \in Stmt
    BY <1>1 DEF Over
  <2> QED BY <2>1, <2>2
<1>3. PICK i0 : i0 \in [SUBSET (1..n) -> Rows] /\ Solves(DoneF, d, n, s, i0)
  BY <1>0, <1>1, FoldExists
<1>4. Eq(i0)
  <2>1. \A S \in SUBSET (1..n) :
           i0[S] = IF S = {} THEN d ELSE Done(i0[S \ {Max(S)}], s[Max(S)])
    BY <1>0, <1>2, <1>3 DEF Solves
  <2>2. i0 = [S \in SUBSET (1..n) |-> i0[S]]
    BY <1>3
  <2> QED BY <1>1, <2>1, <2>2
<1>5. Eq(it)
  BY <1>4
<1>6. Executed(d, s) = it[1..n]
  BY <1>1 DEF Executed, FoldLeft, MapThenFoldSet
<1> HIDE DEF it
<1>7. \A S \in SUBSET (1..n) :
         it[S] = IF S = {} THEN d ELSE Done(it[S \ {Max(S)}], s[Max(S)])
  BY <1>1, <1>5
<1>8. \A S \in SUBSET (1..n) : it[S] \in Rows
  <2>1. \A S \in SUBSET (1..n) :
           IF S = {} THEN it[S] \in Rows
           ELSE it[S \ {Max(S)}] \in Rows => it[S] \in Rows
    <3>1. \A v \in Rows, x \in Stmt : Done(v, x) \in Rows
      BY <1>0 DEF Steps
    <3> QED BY <1>0, <1>2, <1>7, <3>1
  <2> HIDE DEF n
  <2> QED BY <1>1, <2>1, FoldStaysTyped
<1>9. Solves(DoneF, d, n, s, it)
  BY <1>0, <1>2, <1>7, <1>8 DEF Solves
<1>10. Folds(Rows, Stmt, DoneF, d, s)
  BY <1>0 DEF Folds
<1>11. it[1..Len(s)] = Fold(DoneF, d, s)
  BY <1>9, <1>10, FoldIsSolution
<1> QED BY <1>6, <1>11

LEMMA MergedIsFold ==
    ASSUME NEW s \in Seq(Stmt)
    PROVE  Merged(s) = Fold(MergedF, <<>>, s)
<1> DEFINE n == Len(s)
           Eq(x) == x = [S \in SUBSET (DOMAIN s) |->
                           IF S = {} THEN <<>> ELSE MergedWith(x[S \ {Max(S)}], s[Max(S)])]
           it == CHOOSE x : Eq(x)
<1>0. /\ Steps(Seq(Stmt), Stmt, MergedF) /\ <<>> \in Seq(Stmt)
      /\ \A v \in Seq(Stmt), x \in Stmt : MergedF[<<v, x>>] = MergedWith(v, x)
  BY MergedWithIsStep
<1>1. n \in Nat /\ DOMAIN s = 1..n /\ Over(n, Stmt, s)
  BY DEF Over
<1>2. \A S \in SUBSET (1..n) :
         S # {} => S \ {Max(S)} \in SUBSET (1..n) /\ s[Max(S)] \in Stmt
  <2> SUFFICES ASSUME NEW S \in SUBSET (1..n), S # {}
               PROVE  S \ {Max(S)} \in SUBSET (1..n) /\ s[Max(S)] \in Stmt
    OBVIOUS
  <2>1. PICK top \in S : top = Max(S)
    BY <1>1, GreatestIndex
  <2>2. top \in 1..n /\ s[top] \in Stmt
    BY <1>1 DEF Over
  <2> QED BY <2>1, <2>2
<1>3. PICK i0 : i0 \in [SUBSET (1..n) -> Seq(Stmt)] /\ Solves(MergedF, <<>>, n, s, i0)
  BY <1>0, <1>1, FoldExists
<1>4. Eq(i0)
  <2>1. \A S \in SUBSET (1..n) :
           i0[S] = IF S = {} THEN <<>> ELSE MergedWith(i0[S \ {Max(S)}], s[Max(S)])
    BY <1>0, <1>2, <1>3 DEF Solves
  <2>2. i0 = [S \in SUBSET (1..n) |-> i0[S]]
    BY <1>3
  <2> QED BY <1>1, <2>1, <2>2
<1>5. Eq(it)
  BY <1>4
<1>6. Merged(s) = it[1..n]
  BY <1>1 DEF Merged, FoldLeft, MapThenFoldSet
<1> HIDE DEF it
<1>7. \A S \in SUBSET (1..n) :
         it[S] = IF S = {} THEN <<>> ELSE MergedWith(it[S \ {Max(S)}], s[Max(S)])
  BY <1>1, <1>5
<1>8. \A S \in SUBSET (1..n) : it[S] \in Seq(Stmt)
  <2>1. \A S \in SUBSET (1..n) :
           IF S = {} THEN it[S] \in Seq(Stmt)
           ELSE it[S \ {Max(S)}] \in Seq(Stmt) => it[S] \in Seq(Stmt)
    <3>1. \A v \in Seq(Stmt), x \in Stmt : MergedWith(v, x) \in Seq(Stmt)
      BY <1>0 DEF Steps
    <3> QED BY <1>0, <1>2, <1>7, <3>1
  <2> HIDE DEF n
  <2> QED BY <1>1, <2>1, FoldStaysTyped
<1>9. Solves(MergedF, <<>>, n, s, it)
  BY <1>0, <1>2, <1>7, <1>8 DEF Solves
<1>10. Folds(Seq(Stmt), Stmt, MergedF, <<>>, s)
  BY <1>0 DEF Folds
<1>11. it[1..Len(s)] = Fold(MergedF, <<>>, s)
  BY <1>9, <1>10, FoldIsSolution
<1> QED BY <1>6, <1>11

LEMMA KeptIsFold ==
    ASSUME NEW s \in Seq(Stmt)
    PROVE  Kept(s) = Fold(KeptF, <<>>, s)
<1> DEFINE n == Len(s)
           Eq(x) == x = [S \in SUBSET (DOMAIN s) |->
                           IF S = {} THEN <<>> ELSE KeptWith(x[S \ {Max(S)}], s[Max(S)])]
           it == CHOOSE x : Eq(x)
<1>0. /\ Steps(Seq(Stmt), Stmt, KeptF) /\ <<>> \in Seq(Stmt)
      /\ \A v \in Seq(Stmt), x \in Stmt : KeptF[<<v, x>>] = KeptWith(v, x)
  BY KeptWithIsStep
<1>1. n \in Nat /\ DOMAIN s = 1..n /\ Over(n, Stmt, s)
  BY DEF Over
<1>2. \A S \in SUBSET (1..n) :
         S # {} => S \ {Max(S)} \in SUBSET (1..n) /\ s[Max(S)] \in Stmt
  <2> SUFFICES ASSUME NEW S \in SUBSET (1..n), S # {}
               PROVE  S \ {Max(S)} \in SUBSET (1..n) /\ s[Max(S)] \in Stmt
    OBVIOUS
  <2>1. PICK top \in S : top = Max(S)
    BY <1>1, GreatestIndex
  <2>2. top \in 1..n /\ s[top] \in Stmt
    BY <1>1 DEF Over
  <2> QED BY <2>1, <2>2
<1>3. PICK i0 : i0 \in [SUBSET (1..n) -> Seq(Stmt)] /\ Solves(KeptF, <<>>, n, s, i0)
  BY <1>0, <1>1, FoldExists
<1>4. Eq(i0)
  <2>1. \A S \in SUBSET (1..n) :
           i0[S] = IF S = {} THEN <<>> ELSE KeptWith(i0[S \ {Max(S)}], s[Max(S)])
    BY <1>0, <1>2, <1>3 DEF Solves
  <2>2. i0 = [S \in SUBSET (1..n) |-> i0[S]]
    BY <1>3
  <2> QED BY <1>1, <2>1, <2>2
<1>5. Eq(it)
  BY <1>4
<1>6. Kept(s) = it[1..n]
  BY <1>1 DEF Kept, FoldLeft, MapThenFoldSet
<1> HIDE DEF it
<1>7. \A S \in SUBSET (1..n) :
         it[S] = IF S = {} THEN <<>> ELSE KeptWith(it[S \ {Max(S)}], s[Max(S)])
  BY <1>1, <1>5
<1>8. \A S \in SUBSET (1..n) : it[S] \in Seq(Stmt)
  <2>1. \A S \in SUBSET (1..n) :
           IF S = {} THEN it[S] \in Seq(Stmt)
           ELSE it[S \ {Max(S)}] \in Seq(Stmt) => it[S] \in Seq(Stmt)
    <3>1. \A v \in Seq(Stmt), x \in Stmt : KeptWith(v, x) \in Seq(Stmt)
      BY <1>0 DEF Steps
    <3> QED BY <1>0, <1>2, <1>7, <3>1
  <2> HIDE DEF n
  <2> QED BY <1>1, <2>1, FoldStaysTyped
<1>9. Solves(KeptF, <<>>, n, s, it)
  BY <1>0, <1>2, <1>7, <1>8 DEF Solves
<1>10. Folds(Seq(Stmt), Stmt, KeptF, <<>>, s)
  BY <1>0 DEF Folds
<1>11. it[1..Len(s)] = Fold(KeptF, <<>>, s)
  BY <1>9, <1>10, FoldIsSolution
<1> QED BY <1>6, <1>11

LEMMA PutsAreFold ==
    ASSUME NEW m \in Rows, NEW b \in Seq(Write), NEW s \in Seq(Keys)
    PROVE  FoldLeft(LAMBDA q, k : Put(q, k, m[k]), b, s) = Fold(PutF(m), b, s)
<1> DEFINE n == Len(s)
           Eq(x) == x = [S \in SUBSET (DOMAIN s) |->
                           IF S = {} THEN b ELSE Put(x[S \ {Max(S)}], s[Max(S)], m[s[Max(S)]])]
           it == CHOOSE x : Eq(x)
<1>0. /\ Steps(Seq(Write), Keys, PutF(m)) /\ b \in Seq(Write)
      /\ \A v \in Seq(Write), x \in Keys : PutF(m)[<<v, x>>] = Put(v, x, m[x])
  BY PutIsStep
<1>1. n \in Nat /\ DOMAIN s = 1..n /\ Over(n, Keys, s)
  BY DEF Over
<1>2. \A S \in SUBSET (1..n) :
         S # {} => S \ {Max(S)} \in SUBSET (1..n) /\ s[Max(S)] \in Keys
  <2> SUFFICES ASSUME NEW S \in SUBSET (1..n), S # {}
               PROVE  S \ {Max(S)} \in SUBSET (1..n) /\ s[Max(S)] \in Keys
    OBVIOUS
  <2>1. PICK top \in S : top = Max(S)
    BY <1>1, GreatestIndex
  <2>2. top \in 1..n /\ s[top] \in Keys
    BY <1>1 DEF Over
  <2> QED BY <2>1, <2>2
<1>3. PICK i0 : i0 \in [SUBSET (1..n) -> Seq(Write)] /\ Solves(PutF(m), b, n, s, i0)
  BY <1>0, <1>1, FoldExists
<1>4. Eq(i0)
  <2>1. \A S \in SUBSET (1..n) :
           i0[S] = IF S = {} THEN b ELSE Put(i0[S \ {Max(S)}], s[Max(S)], m[s[Max(S)]])
    BY <1>0, <1>2, <1>3 DEF Solves
  <2>2. i0 = [S \in SUBSET (1..n) |-> i0[S]]
    BY <1>3
  <2> QED BY <1>1, <2>1, <2>2
<1>5. Eq(it)
  BY <1>4
<1>6. FoldLeft(LAMBDA q, k : Put(q, k, m[k]), b, s) = it[1..n]
  BY <1>1 DEF FoldLeft, MapThenFoldSet
<1> HIDE DEF it
<1>7. \A S \in SUBSET (1..n) :
         it[S] = IF S = {} THEN b ELSE Put(it[S \ {Max(S)}], s[Max(S)], m[s[Max(S)]])
  BY <1>1, <1>5
<1>8. \A S \in SUBSET (1..n) : it[S] \in Seq(Write)
  <2>1. \A S \in SUBSET (1..n) :
           IF S = {} THEN it[S] \in Seq(Write)
           ELSE it[S \ {Max(S)}] \in Seq(Write) => it[S] \in Seq(Write)
    <3>1. \A v \in Seq(Write), x \in Keys : Put(v, x, m[x]) \in Seq(Write)
      BY <1>0 DEF Steps
    <3> QED BY <1>0, <1>2, <1>7, <3>1
  <2> HIDE DEF n
  <2> QED BY <1>1, <2>1, FoldStaysTyped
<1>9. Solves(PutF(m), b, n, s, it)
  BY <1>0, <1>2, <1>7, <1>8 DEF Solves
<1>10. Folds(Seq(Write), Keys, PutF(m), b, s)
  BY <1>0 DEF Folds
<1>11. it[1..Len(s)] = Fold(PutF(m), b, s)
  BY <1>9, <1>10, FoldIsSolution
<1> QED BY <1>6, <1>11

(* Each of them, step by step.                                             *)
LEMMA ExecutedSteps ==
    ASSUME NEW d \in Rows
    PROVE  /\ Executed(d, <<>>) = d
           /\ \A s \in Seq(Stmt) : Executed(d, s) \in Rows
           /\ \A s \in Seq(Stmt), x \in Stmt :
                 Executed(d, Append(s, x)) = Done(Executed(d, s), x)
<1>0. <<>> \in Seq(Stmt) /\ \A s \in Seq(Stmt), x \in Stmt : Append(s, x) \in Seq(Stmt)
  OBVIOUS
<1>1. \A s \in Seq(Stmt) : Folds(Rows, Stmt, DoneF, d, s) /\ Executed(d, s) = Fold(DoneF, d, s)
  BY DoneIsStep, ExecutedIsFold DEF Folds
<1>2. Executed(d, <<>>) = d
  BY <1>0, <1>1, FoldOfNothing
<1>3. \A s \in Seq(Stmt) : Executed(d, s) \in Rows
  BY <1>1, FoldInV
<1>4. ASSUME NEW s \in Seq(Stmt), NEW x \in Stmt
      PROVE  Executed(d, Append(s, x)) = Done(Executed(d, s), x)
  <2>1. Fold(DoneF, d, Append(s, x)) = DoneF[<<Fold(DoneF, d, s), x>>]
    BY <1>1, FoldOfAppend
  <2> QED BY <1>0, <1>1, <1>3, <2>1, DoneIsStep
<1> QED BY <1>2, <1>3, <1>4

LEMMA MergedSteps ==
    /\ Merged(<<>>) = <<>>
    /\ \A s \in Seq(Stmt) : Merged(s) \in Seq(Stmt)
    /\ \A s \in Seq(Stmt), x \in Stmt : Merged(Append(s, x)) = MergedWith(Merged(s), x)
<1>0. <<>> \in Seq(Stmt) /\ \A s \in Seq(Stmt), x \in Stmt : Append(s, x) \in Seq(Stmt)
  OBVIOUS
<1>1. \A s \in Seq(Stmt) : /\ Folds(Seq(Stmt), Stmt, MergedF, <<>>, s)
                           /\ Merged(s) = Fold(MergedF, <<>>, s)
  BY MergedWithIsStep, MergedIsFold DEF Folds
<1>2. Merged(<<>>) = <<>>
  BY <1>0, <1>1, FoldOfNothing
<1>3. \A s \in Seq(Stmt) : Merged(s) \in Seq(Stmt)
  BY <1>1, FoldInV
<1>4. ASSUME NEW s \in Seq(Stmt), NEW x \in Stmt
      PROVE  Merged(Append(s, x)) = MergedWith(Merged(s), x)
  <2>1. Fold(MergedF, <<>>, Append(s, x)) = MergedF[<<Fold(MergedF, <<>>, s), x>>]
    BY <1>1, FoldOfAppend
  <2> QED BY <1>0, <1>1, <1>3, <2>1, MergedWithIsStep
<1> QED BY <1>2, <1>3, <1>4

LEMMA KeptSteps ==
    /\ Kept(<<>>) = <<>>
    /\ \A s \in Seq(Stmt) : Kept(s) \in Seq(Stmt)
    /\ \A s \in Seq(Stmt), x \in Stmt : Kept(Append(s, x)) = KeptWith(Kept(s), x)
<1>0. <<>> \in Seq(Stmt) /\ \A s \in Seq(Stmt), x \in Stmt : Append(s, x) \in Seq(Stmt)
  OBVIOUS
<1>1. \A s \in Seq(Stmt) : /\ Folds(Seq(Stmt), Stmt, KeptF, <<>>, s)
                           /\ Kept(s) = Fold(KeptF, <<>>, s)
  BY KeptWithIsStep, KeptIsFold DEF Folds
<1>2. Kept(<<>>) = <<>>
  BY <1>0, <1>1, FoldOfNothing
<1>3. \A s \in Seq(Stmt) : Kept(s) \in Seq(Stmt)
  BY <1>1, FoldInV
<1>4. ASSUME NEW s \in Seq(Stmt), NEW x \in Stmt
      PROVE  Kept(Append(s, x)) = KeptWith(Kept(s), x)
  <2>1. Fold(KeptF, <<>>, Append(s, x)) = KeptF[<<Fold(KeptF, <<>>, s), x>>]
    BY <1>1, FoldOfAppend
  <2> QED BY <1>0, <1>1, <1>3, <2>1, KeptWithIsStep
<1> QED BY <1>2, <1>3, <1>4

(* The writes b, and then those of the keys s with the payloads of m.      *)
Puts(b, m, s) == FoldLeft(LAMBDA q, k : Put(q, k, m[k]), b, s)

LEMMA PutsSteps ==
    ASSUME NEW m \in Rows, NEW b \in Seq(Write)
    PROVE  /\ Puts(b, m, <<>>) = b
           /\ \A s \in Seq(Keys) : Puts(b, m, s) \in Seq(Write)
           /\ \A s \in Seq(Keys), k \in Keys :
                 Puts(b, m, Append(s, k)) = Put(Puts(b, m, s), k, m[k])
<1>0. <<>> \in Seq(Keys) /\ \A s \in Seq(Keys), x \in Keys : Append(s, x) \in Seq(Keys)
  OBVIOUS
<1>1. \A s \in Seq(Keys) : /\ Folds(Seq(Write), Keys, PutF(m), b, s)
                           /\ Puts(b, m, s) = Fold(PutF(m), b, s)
  BY PutIsStep, PutsAreFold DEF Folds, Puts
<1>2. Puts(b, m, <<>>) = b
  BY <1>0, <1>1, FoldOfNothing
<1>3. \A s \in Seq(Keys) : Puts(b, m, s) \in Seq(Write)
  BY <1>1, FoldInV
<1>4. ASSUME NEW s \in Seq(Keys), NEW x \in Keys
      PROVE  Puts(b, m, Append(s, x)) = Put(Puts(b, m, s), x, m[x])
  <2>1. Fold(PutF(m), b, Append(s, x)) = PutF(m)[<<Fold(PutF(m), b, s), x>>]
    BY <1>1, FoldOfAppend
  <2> QED BY <1>0, <1>1, <1>3, <2>1, PutIsStep
<1> QED BY <1>2, <1>3, <1>4

(* Batches one after the other.                                            *)
LEMMA AppendToConcat ==
    ASSUME NEW X, NEW s \in Seq(X), NEW t \in Seq(X), NEW x \in X
    PROVE  s \o Append(t, x) = Append(s \o t, x)
<1>1. s \o Append(t, x) \in Seq(X) /\ Append(s \o t, x) \in Seq(X)
  OBVIOUS
<1>2. /\ Len(s) \in Nat /\ Len(t) \in Nat
      /\ Len(s \o Append(t, x)) = Len(s) + Len(t) + 1
      /\ Len(Append(s \o t, x)) = Len(s) + Len(t) + 1
  OBVIOUS
<1>3. \A i \in 1..(Len(s) + Len(t) + 1) : (s \o Append(t, x))[i] = Append(s \o t, x)[i]
  OBVIOUS
<1> QED BY <1>1, <1>2, <1>3, EqualSequences

LEMMA ConcatAssociates ==
    ASSUME NEW X, NEW s \in Seq(X), NEW t \in Seq(X), NEW u \in Seq(X)
    PROVE  (s \o t) \o u = s \o (t \o u)
<1>1. (s \o t) \o u \in Seq(X) /\ s \o (t \o u) \in Seq(X)
  OBVIOUS
<1>2. /\ Len(s) \in Nat /\ Len(t) \in Nat /\ Len(u) \in Nat
      /\ Len((s \o t) \o u) = Len(s) + Len(t) + Len(u)
      /\ Len(s \o (t \o u)) = Len(s) + Len(t) + Len(u)
  OBVIOUS
<1>3. \A i \in 1..(Len(s) + Len(t) + Len(u)) : ((s \o t) \o u)[i] = (s \o (t \o u))[i]
  OBVIOUS
<1> QED BY <1>1, <1>2, <1>3, EqualSequences

LEMMA ConcatWithNothing ==
    ASSUME NEW X, NEW s \in Seq(X)
    PROVE  s \o <<>> = s /\ <<>> \o s = s
<1>1. s \o <<>> \in Seq(X) /\ <<>> \o s \in Seq(X)
  OBVIOUS
<1>2. Len(s \o <<>>) = Len(s) /\ Len(<<>> \o s) = Len(s)
  OBVIOUS
<1>3. \A i \in 1..Len(s) : (s \o <<>>)[i] = s[i] /\ (<<>> \o s)[i] = s[i]
  OBVIOUS
<1> QED BY <1>1, <1>2, <1>3, EqualSequences

LEMMA ExecutedInTurn ==
    ASSUME NEW d \in Rows, NEW s \in Seq(Stmt), NEW t \in Seq(Stmt)
    PROVE  Executed(d, s \o t) = Executed(Executed(d, s), t)
<1> DEFINE e == Executed(d, s)
           A == {u \in Seq(Stmt) : Executed(d, s \o u) = Executed(e, u)}
<1>0. e \in Rows
  BY ExecutedSteps
<1>1. <<>> \in A
  <2>1. Executed(e, <<>>) = e /\ s \o <<>> = s /\ <<>> \in Seq(Stmt)
    BY <1>0, ExecutedSteps, ConcatWithNothing
  <2> QED BY <2>1
<1>2. ASSUME NEW u \in A, NEW x \in Stmt PROVE Append(u, x) \in A
  <2>1. u \in Seq(Stmt) /\ s \o u \in Seq(Stmt) /\ Append(u, x) \in Seq(Stmt)
    OBVIOUS
  <2>2. s \o Append(u, x) = Append(s \o u, x)
    BY <2>1, AppendToConcat
  <2>3. Executed(d, Append(s \o u, x)) = Done(Executed(d, s \o u), x)
    BY <2>1, ExecutedSteps
  <2>4. Executed(e, Append(u, x)) = Done(Executed(e, u), x)
    BY <1>0, <2>1, ExecutedSteps
  <2>5. Executed(d, s \o u) = Executed(e, u)
    OBVIOUS
  <2> QED BY <2>1, <2>2, <2>3, <2>4, <2>5
<1>3. A = Seq(Stmt)
  <2> HIDE DEF A
  <2> QED BY <1>1, <1>2, InductionOnSeq DEF A
<1> QED BY <1>3

Batches == Seq(Stmt)
ConcatF == [p \in Batches \X Batches |-> p[1] \o p[2]]

LEMMA FlattenIsFold ==
    ASSUME NEW bs \in Seq(Batches)
    PROVE  Folds(Batches, Batches, ConcatF, <<>>, bs) /\
          FlattenSeq(bs) = Fold(ConcatF, <<>>, bs)
<1> DEFINE n == Len(bs)
           Eq(f) == f = [i \in 1..n |-> IF i = 1 THEN bs[i] ELSE f[i - 1] \o bs[i]]
           f == CHOOSE x : Eq(x)
<1>0. \A x, y \in Batches : x \o y \in Batches /\ <<>> \o x = x
  <2>1. \A x, y \in Batches : x \o y \in Batches
    BY DEF Batches
  <2> QED BY <2>1, ConcatWithNothing DEF Batches
<1>1. Folds(Batches, Batches, ConcatF, <<>>, bs)
  <2>1. <<>> \in Batches
    BY DEF Batches
  <2>2. Steps(Batches, Batches, ConcatF)
    BY <1>0 DEF ConcatF, Steps
  <2> QED BY <2>1, <2>2 DEF Folds
<1>2. PICK h : /\ h \in [0..n -> Batches] /\ IsRun(ConcatF, <<>>, n, bs, h)
               /\ Fold(ConcatF, <<>>, bs) = h[n]
  BY <1>1, FoldRuns
<1>3. n \in Nat /\ \A i \in 1..n : bs[i] \in Batches
  OBVIOUS
<1>4. h[0] = <<>> /\ \A i \in 0..(n - 1) : h[i + 1] = h[i] \o bs[i + 1]
  <2>1. \A i \in 0..(n - 1) : i \in 0..n /\ i + 1 \in 1..n
    BY <1>3
  <2> QED BY <1>2, <1>3, <2>1 DEF IsRun, ConcatF
<1>5. CASE n = 0
  <2>1. bs = <<>>
    BY <1>5
  <2>2. FlattenSeq(bs) = bs
    BY <1>5 DEF FlattenSeq
  <2> QED BY <1>1, <1>2, <1>4, <1>5, <2>1, <2>2
<1>6. CASE n # 0
  <2>0. h[1] = <<>> \o bs[1] /\ bs[1] \in Batches
    <3>1. 0 \in 0..(n - 1) /\ 0 + 1 = 1 /\ 1 \in 1..n
      BY <1>3, <1>6
    <3>2. h[0 + 1] = h[0] \o bs[0 + 1]
      BY <1>4, <3>1
    <3> QED BY <1>3, <1>4, <3>1, <3>2
  <2> DEFINE k == [i \in 1..n |-> h[i]]
  <2>1. Eq(k)
    <3>1. \A i \in 1..n : k[i] = IF i = 1 THEN bs[i] ELSE k[i - 1] \o bs[i]
      <4> SUFFICES ASSUME NEW i \in 1..n
                   PROVE  k[i] = IF i = 1 THEN bs[i] ELSE k[i - 1] \o bs[i]
        OBVIOUS
      <4>1. i - 1 \in 0..(n - 1) /\ (i - 1) + 1 = i
        BY <1>3
      <4>2. h[i] = h[i - 1] \o bs[i]
        BY <1>4, <4>1
      <4>3. CASE i = 1
        BY <1>0, <2>0, <4>3
      <4>4. CASE i # 1
        <5>1. i - 1 \in 1..n
          BY <1>3, <4>4
        <5> QED BY <4>2, <4>4, <5>1
      <4> QED BY <4>3, <4>4
    <3> HIDE DEF k
    <3>2. k = [i \in 1..n |-> k[i]]
      BY DEF k
    <3> QED BY <3>1, <3>2
  <2>2. Eq(f)
    BY <2>1
  <2>3. FlattenSeq(bs) = f[n]
    BY <1>6 DEF FlattenSeq
  <2> HIDE DEF f
  <2>4. \A i \in 1..n : f[i] = IF i = 1 THEN bs[i] ELSE f[i - 1] \o bs[i]
    BY <2>2
  <2> DEFINE A == {i \in Nat : i + 1 <= n => f[i + 1] = h[i + 1]}
  <2>5. 0 \in A
    <3>1. 1 \in 1..n /\ bs[1] \in Batches /\ 0 \in 0..(n - 1)
      BY <1>3, <1>6
    <3>2. f[1] = bs[1]
      BY <2>4, <3>1
    <3>3. h[1] = bs[1]
      BY <1>0, <2>0
    <3>4. 0 + 1 = 1
      OBVIOUS
    <3> QED BY <3>2, <3>3, <3>4
  <2>6. ASSUME NEW i \in A PROVE i + 1 \in A
    <3> SUFFICES ASSUME (i + 1) + 1 <= n PROVE f[(i + 1) + 1] = h[(i + 1) + 1]
      OBVIOUS
    <3>1. /\ (i + 1) + 1 \in 1..n /\ (i + 1) + 1 # 1 /\ ((i + 1) + 1) - 1 = i + 1
          /\ i + 1 \in 0..(n - 1) /\ f[i + 1] = h[i + 1]
      BY <1>3
    <3>2. f[(i + 1) + 1] = f[i + 1] \o bs[(i + 1) + 1]
      BY <2>4, <3>1
    <3>3. h[(i + 1) + 1] = h[i + 1] \o bs[(i + 1) + 1]
      BY <1>4, <3>1
    <3> QED BY <3>1, <3>2, <3>3
  <2>7. A = Nat
    <3> HIDE DEF A
    <3> QED BY <2>5, <2>6, InductionOnNat DEF A
  <2>8. n - 1 \in Nat /\ (n - 1) + 1 = n
    BY <1>3, <1>6
  <2>9. f[n] = h[n]
    <3>1. n - 1 \in A
      BY <2>7, <2>8
    <3>2. (n - 1) + 1 <= n
      BY <1>3
    <3>3. f[(n - 1) + 1] = h[(n - 1) + 1]
      BY <3>1, <3>2
    <3> QED BY <2>8, <3>3
  <2> QED BY <1>1, <1>2, <2>3, <2>9
<1> QED BY <1>5, <1>6

LEMMA FlattenSteps ==
    /\ FlattenSeq(<<>>) = <<>>
    /\ \A bs \in Seq(Batches) : FlattenSeq(bs) \in Seq(Stmt)
    /\ \A bs \in Seq(Batches), s \in Batches :
          FlattenSeq(Append(bs, s)) = FlattenSeq(bs) \o s
<1>0. <<>> \in Seq(Batches) /\
      \A bs \in Seq(Batches), s \in Batches : Append(bs, s) \in Seq(Batches)
  OBVIOUS
<1>1. FlattenSeq(<<>>) = <<>>
  BY <1>0, FlattenIsFold, FoldOfNothing
<1>2. \A bs \in Seq(Batches) : FlattenSeq(bs) \in Batches
  BY FlattenIsFold, FoldInV
<1>3. ASSUME NEW bs \in Seq(Batches), NEW s \in Batches
      PROVE  FlattenSeq(Append(bs, s)) = FlattenSeq(bs) \o s
  <2>1. Folds(Batches, Batches, ConcatF, <<>>, bs) /\ FlattenSeq(bs) = Fold(ConcatF, <<>>, bs)
    BY FlattenIsFold
  <2>2. FlattenSeq(Append(bs, s)) = Fold(ConcatF, <<>>, Append(bs, s))
    BY <1>0, FlattenIsFold
  <2>3. Fold(ConcatF, <<>>, Append(bs, s)) = ConcatF[<<Fold(ConcatF, <<>>, bs), s>>]
    BY <2>1, FoldOfAppend
  <2>4. FlattenSeq(bs) \in Batches
    BY <1>2
  <2> QED BY <2>1, <2>2, <2>3, <2>4 DEF ConcatF
<1> QED BY <1>1, <1>2, <1>3 DEF Batches

LEMMA FlattenInTurn ==
    ASSUME NEW bs \in Seq(Batches), NEW cs \in Seq(Batches)
    PROVE  FlattenSeq(bs \o cs) = FlattenSeq(bs) \o FlattenSeq(cs)
<1> DEFINE A == {u \in Seq(Batches) : FlattenSeq(bs \o u) = FlattenSeq(bs) \o FlattenSeq(u)}
<1>0. \A u \in Seq(Batches) : FlattenSeq(u) \in Seq(Stmt)
  BY FlattenSteps
<1>1. <<>> \in A
  <2>1. bs \o <<>> = bs /\ <<>> \in Seq(Batches)
    BY ConcatWithNothing
  <2>2. FlattenSeq(bs) \o <<>> = FlattenSeq(bs)
    BY <1>0, ConcatWithNothing
  <2> QED BY <2>1, <2>2, FlattenSteps
<1>2. ASSUME NEW u \in A, NEW x \in Batches PROVE Append(u, x) \in A
  <2>1. u \in Seq(Batches) /\ bs \o u \in Seq(Batches) /\ Append(u, x) \in Seq(Batches)
    OBVIOUS
  <2>2. bs \o Append(u, x) = Append(bs \o u, x)
    BY <2>1, AppendToConcat
  <2>3. FlattenSeq(Append(bs \o u, x)) = FlattenSeq(bs \o u) \o x
    BY <2>1, FlattenSteps
  <2>4. FlattenSeq(Append(u, x)) = FlattenSeq(u) \o x
    BY <2>1, FlattenSteps
  <2>5. (FlattenSeq(bs) \o FlattenSeq(u)) \o x = FlattenSeq(bs) \o (FlattenSeq(u) \o x)
    BY <1>0, <2>1, ConcatAssociates DEF Batches
  <2>6. FlattenSeq(bs \o u) = FlattenSeq(bs) \o FlattenSeq(u)
    OBVIOUS
  <2> QED BY <2>1, <2>2, <2>3, <2>4, <2>5, <2>6
<1>3. A = Seq(Batches)
  <2> HIDE DEF A
  <2> QED BY <1>1, <1>2, InductionOnSeq DEF A
<1> QED BY <1>3

LEMMA SequenceOfSet ==
    ASSUME NEW S, IsFiniteSet(S)
    PROVE  /\ SetToSeq(S) \in Seq(S)
           /\ \A x \in S : \E i \in 1..Len(SetToSeq(S)) : SetToSeq(S)[i] = x
           /\ \A i, j \in 1..Len(SetToSeq(S)) : SetToSeq(S)[i] = SetToSeq(S)[j] => i = j
<1> DEFINE n == Cardinality(S)
<1>1. n \in Nat /\ ExistsBijection(1..n, S)
  BY FS_CardinalityType
<1>2. PICK b0 : b0 \in Bijection(1..n, S)
  BY <1>1 DEF ExistsBijection
<1>3. b0 \in [1..n -> S] /\ IsInjective(b0)
  BY <1>2 DEF Bijection, Injection, IsInjective
<1> DEFINE q == SetToSeq(S)
<1>4. q \in [1..n -> S] /\ IsInjective(q)
  BY <1>3 DEF SetToSeq
<1> HIDE DEF q
<1>5. q \in Seq(S) /\ Len(q) = n /\ DOMAIN q = 1..n
  BY <1>1, <1>4
<1>6. \A i, j \in 1..n : q[i] = q[j] => i = j
  BY <1>4, <1>5 DEF IsInjective
<1>7. q \in Injection(1..n, S)
  BY <1>4, <1>6 DEF Injection, IsInjective
<1>8. q \in Surjection(1..n, S)
  <2>1. IsFiniteSet(1..n) /\ Cardinality(1..n) = n
    BY <1>1, FS_Interval
  <2> QED BY <1>7, <2>1, FS_Injection
<1>9. \A x \in S : \E i \in 1..n : q[i] = x
  BY <1>8 DEF Surjection
<1> QED BY <1>5, <1>6, <1>9 DEF q

-----------------------------------------------------------------------------
(***************************************************************************)
(* What a sequence of statements demands.  Beside the rows, the edges that *)
(* are doomed: a node of theirs was deleted and took their row along, so   *)
(* their next statement has to be their own deletion; and the keys that    *)
(* are bad: an upsert of theirs did not find what it needs.  Of keys that  *)
(* are not bad, merging, replaying and shedding keep the rows.             *)
(***************************************************************************)
State == [rows : Rows, doomed : SUBSET Edges, bad : SUBSET Keys]
Start(d) == [rows |-> d, doomed |-> {}, bad |-> {}]

Near(k) == {k} \cup (IF k \in Edges THEN Ends[k] ELSE {})

Linkable(d, k) == k \in Edges => \A n \in Ends[k] : d[n] # 0
Fits(st, x) ==
    /\ x.key \notin st.doomed
    /\ st.rows[x.key] # 0 \/ (x.stmt = "create" /\ Linkable(st.rows, x.key))
Cut(st, x) == {e \in Edges : x.key \in Nodes /\ x.key \in Ends[e] /\ st.rows[e] # 0}

Follows(st, x) ==
    IF x.stmt = "delete"
    THEN [rows |-> Done(st.rows, x), doomed |-> (st.doomed \cup Cut(st, x)) \ {x.key},
          bad |-> st.bad]
    ELSE [rows |-> Done(st.rows, x), doomed |-> st.doomed,
          bad |-> IF Fits(st, x) THEN st.bad ELSE st.bad \cup {x.key}]

FollowsF == [p \in State \X Stmt |-> Follows(p[1], p[2])]
After(st, s) == Fold(FollowsF, st, s)

LEMMA StmtFields ==
    ASSUME NEW x \in Stmt
    PROVE  /\ x.key \in Keys /\ x.val \in Payload /\ x.stmt \in Kinds
           /\ x.val = 0 <=> x.stmt = "delete"
BY DEF Stmt

LEMMA DoneAt ==
    ASSUME NEW d \in Rows, NEW x \in Stmt, NEW k \in Keys
    PROVE  /\ x.stmt = "delete" =>
                 Done(d, x)[k] = IF k = x.key \/ (x.key \in Nodes /\ k \in EdgesOf(x.key))
                                 THEN 0 ELSE d[k]
           /\ x.stmt # "delete" /\ k # x.key => Done(d, x)[k] = d[k]
           /\ x.stmt # "delete" /\ k = x.key =>
                 Done(d, x)[k] = IF d[k] # 0 \/ (x.stmt = "create" /\ Linkable(d, k))
                                 THEN x.val ELSE d[k]
BY StmtFields DEF Done, Rows, Linkable

LEMMA FollowsTyped ==
    ASSUME NEW st \in State, NEW x \in Stmt
    PROVE  Follows(st, x) \in State
<1>1. Done(st.rows, x) \in Rows
  BY DoneTyped DEF State
<1> QED BY <1>1, StmtFields DEF State, Follows, Cut

LEMMA AfterSteps ==
    ASSUME NEW st \in State
    PROVE  /\ After(st, <<>>) = st
           /\ \A s \in Seq(Stmt) : After(st, s) \in State
           /\ \A s \in Seq(Stmt), x \in Stmt :
                 After(st, Append(s, x)) = Follows(After(st, s), x)
<1>0. <<>> \in Seq(Stmt) /\ \A s \in Seq(Stmt), x \in Stmt : Append(s, x) \in Seq(Stmt)
  OBVIOUS
<1>1. /\ Steps(State, Stmt, FollowsF)
      /\ \A a \in State, x \in Stmt : FollowsF[<<a, x>>] = Follows(a, x)
  BY FollowsTyped DEF FollowsF, Steps
<1>2. \A s \in Seq(Stmt) : Folds(State, Stmt, FollowsF, st, s)
  BY <1>1 DEF Folds
<1>3. After(st, <<>>) = st
  BY <1>0, <1>2, FoldOfNothing DEF After
<1>4. \A s \in Seq(Stmt) : After(st, s) \in State
  BY <1>2, FoldInV DEF After
<1>5. ASSUME NEW s \in Seq(Stmt), NEW x \in Stmt
      PROVE  After(st, Append(s, x)) = Follows(After(st, s), x)
  <2>1. Fold(FollowsF, st, Append(s, x)) = FollowsF[<<Fold(FollowsF, st, s), x>>]
    BY <1>2, FoldOfAppend
  <2> QED BY <1>1, <1>4, <2>1 DEF After
<1> QED BY <1>3, <1>4, <1>5

LEMMA AfterInTurn ==
    ASSUME NEW st \in State, NEW s \in Seq(Stmt), NEW t \in Seq(Stmt)
    PROVE  After(st, s \o t) = After(After(st, s), t)
<1> DEFINE e == After(st, s)
           A == {u \in Seq(Stmt) : After(st, s \o u) = After(e, u)}
<1>0. e \in State
  BY AfterSteps
<1>1. <<>> \in A
  <2>1. After(e, <<>>) = e /\ s \o <<>> = s /\ <<>> \in Seq(Stmt)
    BY <1>0, AfterSteps, ConcatWithNothing
  <2> QED BY <2>1
<1>2. ASSUME NEW u \in A, NEW x \in Stmt PROVE Append(u, x) \in A
  <2>1. u \in Seq(Stmt) /\ s \o u \in Seq(Stmt) /\ Append(u, x) \in Seq(Stmt)
    OBVIOUS
  <2>2. s \o Append(u, x) = Append(s \o u, x)
    BY <2>1, AppendToConcat
  <2>3. After(st, Append(s \o u, x)) = Follows(After(st, s \o u), x)
    BY <2>1, AfterSteps
  <2>4. After(e, Append(u, x)) = Follows(After(e, u), x)
    BY <1>0, <2>1, AfterSteps
  <2>5. After(st, s \o u) = After(e, u)
    OBVIOUS
  <2> QED BY <2>1, <2>2, <2>3, <2>4, <2>5
<1>3. A = Seq(Stmt)
  <2> HIDE DEF A
  <2> QED BY <1>1, <1>2, InductionOnSeq DEF A
<1> QED BY <1>3

(* The rows are those of the execution.                                    *)
LEMMA AfterRows ==
    ASSUME NEW st \in State, NEW s \in Seq(Stmt)
    PROVE  After(st, s).rows = Executed(st.rows, s)
<1> DEFINE A == {u \in Seq(Stmt) : After(st, u).rows = Executed(st.rows, u)}
<1>0. st.rows \in Rows
  BY DEF State
<1>1. <<>> \in A
  BY <1>0, AfterSteps, ExecutedSteps
<1>2. ASSUME NEW u \in A, NEW x \in Stmt PROVE Append(u, x) \in A
  <2>1. u \in Seq(Stmt) /\ Append(u, x) \in Seq(Stmt)
    OBVIOUS
  <2>2. After(st, Append(u, x)).rows = Done(After(st, u).rows, x)
    BY <2>1, AfterSteps DEF Follows
  <2>3. Executed(st.rows, Append(u, x)) = Done(Executed(st.rows, u), x)
    BY <1>0, <2>1, ExecutedSteps
  <2> QED BY <2>1, <2>2, <2>3
<1>3. A = Seq(Stmt)
  <2> HIDE DEF A
  <2> QED BY <1>1, <1>2, InductionOnSeq DEF A
<1> QED BY <1>3

(* b is as good as a near k, but for the payloads of the rows L.           *)
Alike(L, b, a, k) ==
    \A i \in Near(k) : /\ b.rows[i] = 0 <=> a.rows[i] = 0
                       /\ i \notin L => b.rows[i] = a.rows[i]
                       /\ i \in b.doomed => i \in a.doomed
                       /\ i \in b.bad => i \in a.bad

(* b is as good as a wherever a is not bad, but for what is near T.        *)
Better(T, L, b, a) ==
    \A k \in Keys : Near(k) \cap (T \cup a.bad) = {} => Alike(L, b, a, k)

LEMMA NearKeys ==
    ASSUME NEW k \in Keys
    PROVE  /\ k \in Near(k) /\ Near(k) \subseteq Keys
           /\ \A i \in Near(k) : Near(i) \subseteq Near(k)
BY GraphAssumption DEF Near, Keys

LEMMA BadStays ==
    ASSUME NEW a \in State, NEW x \in Stmt
    PROVE  a.bad \subseteq Follows(a, x).bad
BY DEF Follows

LEMMA AlikeFollows ==
    ASSUME NEW a \in State, NEW b \in State, NEW x \in Stmt, NEW k \in Keys, NEW L,
           Alike(L, b, a, k), Near(k) \cap Follows(a, x).bad = {}
    PROVE  /\ Alike(L \ {x.key}, Follows(b, x), Follows(a, x), k)
           /\ x.stmt = "set" =>
                 Alike(L \ {x.key}, Follows(b, [x EXCEPT !.stmt = "create"]), Follows(a, x), k)
           /\ \A v \in Values : x.stmt # "delete" =>
                 Alike(L \cup {x.key}, Follows(b, [x EXCEPT !.val = v]), Follows(a, x), k)
<1>0. /\ a.rows \in Rows /\ b.rows \in Rows /\ x.key \in Keys /\ x.val \in Payload
      /\ x.stmt = "delete" <=> x.val = 0
  BY StmtFields DEF State
<1>1. ASSUME NEW y \in Stmt, NEW M, L \ {x.key} \subseteq M, y.key = x.key,
             x.stmt = "delete" <=> y.stmt = "delete",
             x.stmt = y.stmt \/ y.stmt = "create",
             x.val = y.val \/ x.key \in M
      PROVE  Alike(M, Follows(b, y), Follows(a, x), k)
  <2>0. y.val \in Payload /\ (y.stmt = "delete" <=> y.val = 0)
    BY StmtFields
  <2> SUFFICES ASSUME NEW i \in Near(k)
               PROVE  /\ Follows(b, y).rows[i] = 0 <=> Follows(a, x).rows[i] = 0
                      /\ i \notin M => Follows(b, y).rows[i] = Follows(a, x).rows[i]
                      /\ i \in Follows(b, y).doomed => i \in Follows(a, x).doomed
                      /\ i \in Follows(b, y).bad => i \in Follows(a, x).bad
    BY DEF Alike
  <2>1. /\ i \in Keys /\ i \in Near(i)
        /\ \A j \in Near(i) : /\ b.rows[j] = 0 <=> a.rows[j] = 0
                              /\ j \notin L => b.rows[j] = a.rows[j]
                              /\ j \in b.doomed => j \in a.doomed
                              /\ j \in b.bad => j \in a.bad
    BY NearKeys DEF Alike
  <2>2. Linkable(b.rows, i) <=> Linkable(a.rows, i)
    BY <2>1 DEF Linkable, Near
  <2>3. CASE x.stmt = "delete"
    <3>1. /\ Follows(b, y).rows[i] = 0 <=> Follows(a, x).rows[i] = 0
          /\ i \notin M => Follows(b, y).rows[i] = Follows(a, x).rows[i]
      BY <1>0, <1>1, <2>1, <2>3, DoneAt DEF Follows
    <3>2. i \in Follows(b, y).doomed => i \in Follows(a, x).doomed
      BY <1>0, <1>1, <2>1, <2>3 DEF Follows, Cut
    <3>3. i \in Follows(b, y).bad => i \in Follows(a, x).bad
      BY <1>0, <1>1, <2>1, <2>3 DEF Follows
    <3> QED BY <3>1, <3>2, <3>3
  <2>4. CASE x.stmt # "delete" /\ i # x.key
    <3>1. Follows(b, y).rows[i] = b.rows[i] /\ Follows(a, x).rows[i] = a.rows[i]
      BY <1>0, <1>1, <2>1, <2>4, DoneAt DEF Follows
    <3>2. i \notin M => i \notin L
      BY <1>1, <2>4
    <3> QED BY <1>0, <1>1, <2>1, <2>4, <3>1, <3>2 DEF Follows
  <2>5. CASE x.stmt # "delete" /\ i = x.key
    <3>1. Fits(a, x)
      BY <1>0, <2>1, <2>5 DEF Follows
    <3>2. Fits(b, y)
      BY <1>0, <1>1, <2>1, <2>2, <2>5, <3>1 DEF Fits
    <3>3. Follows(a, x).rows[i] = x.val /\ Follows(b, y).rows[i] = y.val
      BY <1>0, <1>1, <2>1, <2>5, <3>1, <3>2, DoneAt DEF Follows, Fits
    <3>4. x.val # 0 /\ y.val # 0
      BY <1>0, <1>1, <2>0, <2>5
    <3>5. i \notin Follows(b, y).bad \/ i \in b.bad
      BY <1>1, <3>2 DEF Follows
    <3>6. i \in Follows(b, y).doomed => i \in b.doomed
      BY <1>1, <2>5 DEF Follows
    <3>7. a.doomed \subseteq Follows(a, x).doomed /\ a.bad \subseteq Follows(a, x).bad
      BY <2>5 DEF Follows
    <3> QED BY <1>1, <2>1, <2>5, <3>3, <3>4, <3>5, <3>6, <3>7
  <2> QED BY <2>3, <2>4, <2>5
<1>2. Alike(L \ {x.key}, Follows(b, x), Follows(a, x), k)
  BY <1>1
<1>3. ASSUME x.stmt = "set"
      PROVE  Alike(L \ {x.key}, Follows(b, [x EXCEPT !.stmt = "create"]), Follows(a, x), k)
  <2> DEFINE y == [x EXCEPT !.stmt = "create"]
  <2>1. y \in Stmt /\ y.key = x.key /\ y.stmt = "create" /\ y.val = x.val
    BY <1>3 DEF Stmt, Kinds
  <2> HIDE DEF y
  <2>2. Alike(L \ {x.key}, Follows(b, y), Follows(a, x), k)
    BY <1>1, <1>3, <2>1
  <2> QED BY <2>2 DEF y
<1>4. ASSUME NEW v \in Values, x.stmt # "delete"
      PROVE  Alike(L \cup {x.key}, Follows(b, [x EXCEPT !.val = v]), Follows(a, x), k)
  <2> DEFINE y == [x EXCEPT !.val = v]
             M == L \cup {x.key}
  <2>1. y \in Stmt /\ y.key = x.key /\ y.stmt = x.stmt
    BY <1>4, <1>0, GraphAssumption DEF Stmt, Payload
  <2>2. L \ {x.key} \subseteq M /\ x.key \in M
    OBVIOUS
  <2> HIDE DEF y, M
  <2>3. Alike(M, Follows(b, y), Follows(a, x), k)
    BY <1>1, <2>1, <2>2
  <2> QED BY <2>3 DEF y, M
<1> QED BY <1>2, <1>3, <1>4

LEMMA BetterFollows ==
    ASSUME NEW a \in State, NEW b \in State, NEW x \in Stmt, NEW T, NEW L, Better(T, L, b, a)
    PROVE  /\ Better(T, L \ {x.key}, Follows(b, x), Follows(a, x))
           /\ x.stmt = "set" =>
                 Better(T, L \ {x.key}, Follows(b, [x EXCEPT !.stmt = "create"]), Follows(a, x))
           /\ \A v \in Values : x.stmt # "delete" =>
                 Better(T, L \cup {x.key}, Follows(b, [x EXCEPT !.val = v]), Follows(a, x))
<1>1. ASSUME NEW k \in Keys, Near(k) \cap (T \cup Follows(a, x).bad) = {}
      PROVE  Alike(L, b, a, k) /\ Near(k) \cap Follows(a, x).bad = {}
  BY <1>1, BadStays DEF Better
<1>2. Better(T, L \ {x.key}, Follows(b, x), Follows(a, x))
  BY <1>1, AlikeFollows DEF Better
<1>3. x.stmt = "set" =>
         Better(T, L \ {x.key}, Follows(b, [x EXCEPT !.stmt = "create"]), Follows(a, x))
  BY <1>1, AlikeFollows DEF Better
<1>4. \A v \in Values : x.stmt # "delete" =>
         Better(T, L \cup {x.key}, Follows(b, [x EXCEPT !.val = v]), Follows(a, x))
  BY <1>1, AlikeFollows DEF Better
<1> QED BY <1>2, <1>3, <1>4

LEMMA BetterWeakens ==
    ASSUME NEW a, NEW b, NEW T, NEW L, Better(T, L, b, a), NEW U, NEW M,
           T \subseteq U, L \subseteq U \cup M
    PROVE  Better(U, M, b, a)
BY DEF Better, Alike

LEMMA BetterSelf ==
    ASSUME NEW a, NEW T, NEW L
    PROVE  Better(T, L, a, a)
BY DEF Better, Alike

LEMMA BetterChains ==
    ASSUME NEW a, NEW b, NEW c, NEW T, NEW U, Better(T, {}, c, b), Better(U, {}, b, a)
    PROVE  Better(T \cup U, {}, c, a)
<1> SUFFICES ASSUME NEW k \in Keys, Near(k) \cap (T \cup U \cup a.bad) = {}
             PROVE  Alike({}, c, a, k)
  BY DEF Better
<1>1. Alike({}, b, a, k)
  BY DEF Better
<1>2. Near(k) \cap (T \cup b.bad) = {}
  BY <1>1 DEF Alike
<1>3. Alike({}, c, b, k)
  BY <1>2 DEF Better
<1> QED BY <1>1, <1>3 DEF Alike

(* Without a statement, what is near its key may go wrong.                 *)
LEMMA BetterWithout ==
    ASSUME NEW a \in State, NEW b \in State, NEW x \in Stmt, NEW T, NEW L,
           Better(T, L, b, a), x.key \in T
    PROVE  Better(T, L, b, Follows(a, x))
<1> SUFFICES ASSUME NEW k \in Keys, Near(k) \cap (T \cup Follows(a, x).bad) = {}
             PROVE  Alike(L, b, Follows(a, x), k)
  BY DEF Better
<1>1. Alike(L, b, a, k) /\ x.key \notin Near(k)
  BY BadStays DEF Better
<1>2. ASSUME NEW i \in Near(k)
      PROVE  /\ Follows(a, x).rows[i] = a.rows[i] /\ i # x.key
             /\ i \in a.doomed => i \in Follows(a, x).doomed
             /\ a.bad \subseteq Follows(a, x).bad
  <2>1. i \in Keys /\ Near(i) \subseteq Near(k) /\ x.key \notin Near(i)
    BY <1>1, NearKeys
  <2>2. i # x.key /\ ~(x.key \in Nodes /\ i \in EdgesOf(x.key))
    BY <2>1 DEF Near, EdgesOf
  <2>3. Done(a.rows, x)[i] = a.rows[i]
    BY <2>1, <2>2, StmtFields, DoneAt DEF State
  <2> QED BY <2>2, <2>3 DEF Follows
<1> QED BY <1>1, <1>2 DEF Alike

LEMMA BetterAfter ==
    ASSUME NEW a \in State, NEW b \in State, NEW s \in Seq(Stmt), NEW T, Better(T, {}, b, a)
    PROVE  Better(T, {}, After(b, s), After(a, s))
<1> DEFINE A == {u \in Seq(Stmt) : Better(T, {}, After(b, u), After(a, u))}
<1>1. <<>> \in A
  <2>1. After(b, <<>>) = b /\ After(a, <<>>) = a /\ <<>> \in Seq(Stmt)
    BY AfterSteps
  <2> QED BY <2>1
<1>2. ASSUME NEW u \in A, NEW x \in Stmt PROVE Append(u, x) \in A
  <2>1. /\ u \in Seq(Stmt) /\ Append(u, x) \in Seq(Stmt)
        /\ After(b, u) \in State /\ After(a, u) \in State
    BY AfterSteps
  <2>2. /\ After(b, Append(u, x)) = Follows(After(b, u), x)
        /\ After(a, Append(u, x)) = Follows(After(a, u), x)
    BY <2>1, AfterSteps
  <2>3. Better(T, {} \ {x.key}, Follows(After(b, u), x), Follows(After(a, u), x))
    BY <2>1, BetterFollows
  <2>4. {} \ {x.key} = {}
    OBVIOUS
  <2> QED BY <2>1, <2>2, <2>3, <2>4
<1>3. A = Seq(Stmt)
  <2> HIDE DEF A
  <2> QED BY <1>1, <1>2, InductionOnSeq DEF A
<1> QED BY <1>3

(* A replay looks for the row.                                             *)
Looking(x) == IF x.stmt = "set" THEN [x EXCEPT !.stmt = "create"] ELSE x
AllLooking(s) == [i \in DOMAIN s |-> Looking(s[i])]

LEMMA LookingTyped ==
    ASSUME NEW s \in Seq(Stmt)
    PROVE  /\ AllLooking(s) \in Seq(Stmt)
           /\ \A x \in Stmt : /\ Looking(x) \in Stmt
                              /\ AllLooking(Append(s, x)) = Append(AllLooking(s), Looking(x))
<1>0. ASSUME NEW x \in Stmt PROVE Looking(x) \in Stmt
  BY DEF Looking, Stmt, Kinds
<1>1. ASSUME NEW t \in Seq(Stmt)
      PROVE AllLooking(t) \in Seq(Stmt) /\ Len(AllLooking(t)) = Len(t)
  <2>1. \A i \in 1..Len(t) : Looking(t[i]) \in Stmt
    BY <1>0
  <2>2. Len(t) \in Nat /\ DOMAIN t = 1..Len(t)
    OBVIOUS
  <2>3. AllLooking(t) \in [1..Len(t) -> Stmt]
    BY <2>1, <2>2 DEF AllLooking
  <2> QED BY <2>2, <2>3
<1>2. ASSUME NEW x \in Stmt PROVE AllLooking(Append(s, x)) = Append(AllLooking(s), Looking(x))
  <2> DEFINE t == AllLooking(Append(s, x))
             u == Append(AllLooking(s), Looking(x))
  <2>1. t \in Seq(Stmt) /\ Len(t) = Len(s) + 1 /\ u \in Seq(Stmt) /\ Len(u) = Len(s) + 1
    <3>1. Append(s, x) \in Seq(Stmt) /\ Len(Append(s, x)) = Len(s) + 1
      OBVIOUS
    <3>2. AllLooking(s) \in Seq(Stmt) /\ Len(AllLooking(s)) = Len(s) /\ Looking(x) \in Stmt
      BY <1>0, <1>1
    <3>3. t \in Seq(Stmt) /\ Len(t) = Len(s) + 1
      BY <1>1, <3>1
    <3> HIDE DEF t
    <3> QED BY <3>2, <3>3
  <2>2. ASSUME NEW i \in 1..(Len(s) + 1) PROVE t[i] = u[i]
    <3>1. t[i] = Looking(Append(s, x)[i])
      BY DEF AllLooking
    <3>2. CASE i = Len(s) + 1
      <4>1. Append(s, x)[i] = x /\ u[i] = Looking(x)
        BY <1>1, <3>2
      <4> QED BY <3>1, <4>1
    <3>3. CASE i # Len(s) + 1
      <4>1. i \in 1..Len(s) /\ Append(s, x)[i] = s[i]
        BY <3>3
      <4>2. u[i] = AllLooking(s)[i]
        BY <1>1, <4>1
      <4>3. AllLooking(s)[i] = Looking(s[i])
        BY <4>1 DEF AllLooking
      <4> QED BY <3>1, <4>1, <4>2, <4>3
    <3> QED BY <3>2, <3>3
  <2> HIDE DEF t, u
  <2>3. t = u
    BY <2>1, <2>2, EqualSequences
  <2> QED BY <2>3 DEF t, u
<1> QED BY <1>0, <1>1, <1>2

LEMMA BetterReplayed ==
    ASSUME NEW a \in State, NEW s \in Seq(Stmt)
    PROVE  Better({}, {}, After(a, AllLooking(s)), After(a, s))
<1> DEFINE A == {u \in Seq(Stmt) : Better({}, {}, After(a, AllLooking(u)), After(a, u))}
<1>1. <<>> \in A
  <2>1. AllLooking(<<>>) = <<>>
    BY DEF AllLooking
  <2> QED BY <2>1, BetterSelf
<1>2. ASSUME NEW u \in A, NEW x \in Stmt PROVE Append(u, x) \in A
  <2>1. /\ u \in Seq(Stmt) /\ Append(u, x) \in Seq(Stmt) /\ AllLooking(u) \in Seq(Stmt)
        /\ Looking(x) \in Stmt
        /\ AllLooking(Append(u, x)) = Append(AllLooking(u), Looking(x))
    BY LookingTyped
  <2> DEFINE c == After(a, AllLooking(u))
             e == After(a, u)
  <2>2. c \in State /\ e \in State /\ Better({}, {}, c, e)
    BY <2>1, AfterSteps
  <2>3. /\ After(a, AllLooking(Append(u, x))) = Follows(c, Looking(x))
        /\ After(a, Append(u, x)) = Follows(e, x)
    BY <2>1, AfterSteps
  <2> HIDE DEF c, e
  <2>4. Better({}, {} \ {x.key}, Follows(c, Looking(x)), Follows(e, x))
    BY <2>2, BetterFollows DEF Looking
  <2>5. {} \ {x.key} = {}
    OBVIOUS
  <2> QED BY <2>1, <2>3, <2>4, <2>5
<1>3. A = Seq(Stmt)
  <2> HIDE DEF A
  <2> QED BY <1>1, <1>2, InductionOnSeq DEF A
<1> QED BY <1>3

LEMMA BetterDropped ==
    ASSUME NEW a \in State, NEW s \in Seq(Stmt)
    PROVE  Better({s[i].key : i \in DOMAIN s}, {}, a, After(a, s))
<1> DEFINE K(u) == {u[i].key : i \in DOMAIN u}
           A == {u \in Seq(Stmt) : Better(K(u), {}, a, After(a, u))}
<1>1. <<>> \in A
  BY AfterSteps, BetterSelf
<1>2. ASSUME NEW u \in A, NEW x \in Stmt PROVE Append(u, x) \in A
  <2>1. u \in Seq(Stmt) /\ Append(u, x) \in Seq(Stmt) /\ After(a, u) \in State
    BY AfterSteps
  <2>2. After(a, Append(u, x)) = Follows(After(a, u), x)
    BY <2>1, AfterSteps
  <2>3. K(u) \subseteq K(Append(u, x)) /\ x.key \in K(Append(u, x))
    <3>1. /\ Len(u) \in Nat /\ DOMAIN u = 1..Len(u) /\ DOMAIN Append(u, x) = 1..(Len(u) + 1)
          /\ Append(u, x)[Len(u) + 1] = x /\ \A i \in 1..Len(u) : Append(u, x)[i] = u[i]
      OBVIOUS
    <3> QED BY <3>1
  <2>4. Better(K(u), {}, a, After(a, u))
    OBVIOUS
  <2> HIDE DEF K
  <2>5. Better(K(Append(u, x)), {}, a, After(a, u))
    BY <2>3, <2>4, BetterWeakens
  <2>6. Better(K(Append(u, x)), {}, a, Follows(After(a, u), x))
    BY <2>1, <2>3, <2>5, BetterWithout
  <2> QED BY <2>1, <2>2, <2>6
<1>3. A = Seq(Stmt)
  <2> HIDE DEF A
  <2> QED BY <1>1, <1>2, InductionOnSeq DEF A
<1> QED BY <1>3

LEMMA ConcatFacts ==
    ASSUME NEW X, NEW s \in Seq(X), NEW t \in Seq(X)
    PROVE  /\ s \o t \in Seq(X) /\ Len(s \o t) = Len(s) + Len(t)
           /\ \A j \in 1..Len(s) : (s \o t)[j] = s[j]
           /\ \A m \in 1..Len(t) : (s \o t)[Len(s) + m] = t[m]
OBVIOUS

(* One statement less.                                                     *)
LEMMA BetterRemoved ==
    ASSUME NEW a \in State, NEW s \in Seq(Stmt), NEW i \in DOMAIN s
    PROVE  /\ RemoveAt(s, i) \in Seq(Stmt)
           /\ Better({s[i].key}, {}, After(a, RemoveAt(s, i)), After(a, s))
<1> DEFINE u == SubSeq(s, 1, i - 1)
           v == SubSeq(s, i + 1, Len(s))
           x == s[i]
<1>0. Len(s) \in Nat /\ i \in 1..Len(s) /\ x \in Stmt
  OBVIOUS
<1>1. u \in Seq(Stmt) /\ v \in Seq(Stmt) /\ Len(u) = i - 1 /\ Len(v) = Len(s) - i
  BY <1>0
<1>2. s = Append(u, x) \o v
  <2>1. Append(u, x) \in Seq(Stmt) /\ Len(Append(u, x)) = i
    BY <1>0, <1>1
  <2>2. Append(u, x) \o v \in Seq(Stmt) /\ Len(Append(u, x) \o v) = Len(s)
    <3> HIDE DEF u, v, x
    <3>1. Append(u, x) \o v \in Seq(Stmt) /\ Len(Append(u, x) \o v) = Len(Append(u, x)) + Len(v)
      BY <1>1, <2>1, ConcatFacts
    <3>2. i + (Len(s) - i) = Len(s)
      BY <1>0
    <3> QED BY <1>1, <2>1, <3>1, <3>2
  <2>3. ASSUME NEW j \in 1..Len(s) PROVE s[j] = (Append(u, x) \o v)[j]
    <3>1. CASE j <= i
      <4>1. (Append(u, x) \o v)[j] = Append(u, x)[j]
        BY <1>0, <1>1, <2>1, <3>1
      <4>2. CASE j = i
        BY <1>0, <1>1, <4>1, <4>2
      <4>3. CASE j # i
        <5>1. j \in 1..(i - 1) /\ u[j] = s[j]
          BY <1>0, <3>1, <4>3
        <5>2. Append(u, x)[j] = u[j]
          BY <1>0, <1>1, <5>1
        <5> QED BY <4>1, <5>1, <5>2
      <4> QED BY <4>2, <4>3
    <3>2. CASE ~(j <= i)
      <4>1. PICK m \in 1..(Len(s) - i) : j = i + m
        <5>1. j - i \in 1..(Len(s) - i) /\ j = i + (j - i)
          BY <1>0, <3>2
        <5> QED BY <5>1
      <4>2. v[m] = s[(i + 1) + m - 1]
        BY <1>0
      <4>3. (i + 1) + m - 1 = j
        BY <1>0, <4>1
      <4> HIDE DEF u, v, x
      <4>4. (Append(u, x) \o v)[i + m] = v[m]
        BY <1>1, <2>1, ConcatFacts
      <4> QED BY <4>1, <4>2, <4>3, <4>4
    <3> QED BY <3>1, <3>2
  <2> HIDE DEF u, v
  <2> QED BY <2>2, <2>3, EqualSequences
<1>3. RemoveAt(s, i) = u \o v
  BY DEF RemoveAt
<1> HIDE DEF u, v
<1>4. /\ After(a, u) \in State /\ Append(u, x) \in Seq(Stmt)
      /\ After(a, Append(u, x)) = Follows(After(a, u), x)
      /\ Follows(After(a, u), x) \in State
  BY <1>0, <1>1, AfterSteps, FollowsTyped
<1>5. Better({x.key}, {}, After(a, u), Follows(After(a, u), x))
  BY <1>0, <1>4, BetterSelf, BetterWithout
<1>6. Better({x.key}, {}, After(After(a, u), v), After(Follows(After(a, u), x), v))
  BY <1>1, <1>4, <1>5, BetterAfter
<1>7. After(a, u \o v) = After(After(a, u), v)
  BY <1>1, AfterInTurn
<1>8. After(a, Append(u, x) \o v) = After(After(a, Append(u, x)), v)
  BY <1>1, <1>4, AfterInTurn
<1>9. u \o v \in Seq(Stmt)
  BY <1>1
<1> QED BY <1>2, <1>3, <1>4, <1>6, <1>7, <1>8, <1>9

-----------------------------------------------------------------------------
(* Merging.                                                                *)

Revalued(t, x) ==
    [i \in DOMAIN t |-> IF i \in Slots(t, x) THEN [t[i] EXCEPT !.val = x.val] ELSE t[i]]
RevaluedAs(y, x) == IF y.key = x.key THEN [y EXCEPT !.val = x.val] ELSE y

LEMMA RevaluedTyped ==
    ASSUME NEW x \in Stmt, x.stmt # "delete"
    PROVE  /\ x.val \in Values
           /\ \A y \in Stmt : ~(y.key = x.key /\ y.stmt = "delete") => RevaluedAs(y, x) \in Stmt
           /\ \A t \in Seq(Stmt) : /\ Revalued(t, x) \in Seq(Stmt)
                                   /\ Len(Revalued(t, x)) = Len(t)
<1>0. x.val \in Payload /\ x.val # 0
  BY StmtFields
<1>1. x.val \in Values
  BY <1>0 DEF Payload
<1>2. ASSUME NEW y \in Stmt, y.stmt # "delete" PROVE [y EXCEPT !.val = x.val] \in Stmt
  BY <1>0, <1>2 DEF Stmt
<1>3. \A y \in Stmt : ~(y.key = x.key /\ y.stmt = "delete") => RevaluedAs(y, x) \in Stmt
  BY <1>2 DEF RevaluedAs
<1>4. ASSUME NEW t \in Seq(Stmt)
      PROVE Revalued(t, x) \in Seq(Stmt) /\ Len(Revalued(t, x)) = Len(t)
  <2>1. \A i \in 1..Len(t) :
           (IF i \in Slots(t, x) THEN [t[i] EXCEPT !.val = x.val] ELSE t[i]) \in Stmt
    <3> SUFFICES ASSUME NEW i \in 1..Len(t), i \in Slots(t, x)
                 PROVE  [t[i] EXCEPT !.val = x.val] \in Stmt
      OBVIOUS
    <3>1. t[i].key = x.key /\ (\A m \in i..Len(t) : t[m].key = x.key => t[m].stmt # "delete")
      BY DEF Slots
    <3>2. i \in i..Len(t) /\ t[i] \in Stmt
      OBVIOUS
    <3> QED BY <1>2, <3>1, <3>2
  <2>2. Len(t) \in Nat /\ DOMAIN t = 1..Len(t)
    OBVIOUS
  <2>3. Revalued(t, x) \in [1..Len(t) -> Stmt]
    BY <2>1, <2>2 DEF Revalued
  <2> QED BY <2>2, <2>3
<1> QED BY <1>1, <1>3, <1>4

LEMMA AppendFacts ==
    ASSUME NEW X, NEW t \in Seq(X), NEW y \in X
    PROVE  /\ Append(t, y) \in Seq(X) /\ Len(Append(t, y)) = Len(t) + 1
           /\ Len(t) \in Nat /\ Append(t, y)[Len(t) + 1] = y
           /\ \A i \in 1..Len(t) : Append(t, y)[i] = t[i]
           /\ DOMAIN t = 1..Len(t) /\ DOMAIN Append(t, y) = 1..(Len(t) + 1)
OBVIOUS

LEMMA SlotsOfAppend ==
    ASSUME NEW t \in Seq(Stmt), NEW y \in Stmt, NEW x \in Stmt
    PROVE  Slots(Append(t, y), x) =
              IF y.key = x.key
              THEN IF y.stmt = "delete" THEN {} ELSE Slots(t, x) \cup {Len(t) + 1}
              ELSE Slots(t, x)
<1> DEFINE n == Len(t)
           u == Append(t, y)
<1>0. /\ n \in Nat /\ DOMAIN t = 1..n /\ DOMAIN u = 1..(n + 1) /\ Len(u) = n + 1
      /\ u[n + 1] = y /\ \A i \in 1..n : u[i] = t[i]
  BY AppendFacts
<1> HIDE DEF n, u
<1>1. ASSUME NEW i \in 1..n, ~(y.key = x.key /\ y.stmt = "delete")
      PROVE  i \in Slots(u, x) <=> i \in Slots(t, x)
  <2>1. i \in 1..(n + 1) /\ u[i] = t[i] /\ i..(n + 1) = (i..n) \cup {n + 1} /\
        i..n \subseteq 1..n
    BY <1>0
  <2>2. \A m \in i..n : u[m] = t[m]
    BY <1>0, <2>1
  <2>3. (\A m \in i..(n + 1) : u[m].key = x.key => u[m].stmt # "delete")
        <=> (\A m \in i..n : t[m].key = x.key => t[m].stmt # "delete")
    BY <1>0, <1>1, <2>1, <2>2
  <2>4. n = Len(t)
    BY DEF n
  <2> QED BY <1>0, <2>1, <2>3, <2>4 DEF Slots
<1>2. n + 1 \in Slots(u, x) <=> y.key = x.key /\ y.stmt # "delete"
  <2>1. (n + 1)..(n + 1) = {n + 1} /\ n + 1 \in 1..(n + 1)
    BY <1>0
  <2> QED BY <1>0, <2>1 DEF Slots
<1>3. Slots(u, x) \subseteq 1..(n + 1) /\ Slots(t, x) \subseteq 1..n
  BY <1>0 DEF Slots, n
<1>4. 1..(n + 1) = (1..n) \cup {n + 1} /\ n + 1 \notin 1..n
  BY <1>0
<1>5. CASE y.key = x.key /\ y.stmt = "delete"
  <2>1. \A i \in 1..(n + 1) : n + 1 \in i..(n + 1)
    BY <1>0
  <2>2. Slots(u, x) = {}
    BY <1>0, <1>5, <2>1 DEF Slots
  <2> QED BY <1>5, <2>2 DEF u
<1>6. CASE ~(y.key = x.key /\ y.stmt = "delete")
  <2>1. CASE y.key = x.key
    <3>1. Slots(u, x) = Slots(t, x) \cup {n + 1}
      BY <1>1, <1>2, <1>3, <1>4, <1>6, <2>1
    <3> QED BY <1>6, <2>1, <3>1 DEF u, n
  <2>2. CASE y.key # x.key
    <3>1. Slots(u, x) = Slots(t, x)
      BY <1>1, <1>2, <1>3, <1>4, <2>2
    <3> QED BY <2>2, <3>1 DEF u
  <2> QED BY <2>1, <2>2
<1> QED BY <1>5, <1>6

LEMMA RevaluedOfAppend ==
    ASSUME NEW t \in Seq(Stmt), NEW y \in Stmt, NEW x \in Stmt, x.stmt # "delete"
    PROVE  Revalued(Append(t, y), x) =
              IF y.key = x.key /\ y.stmt = "delete" THEN Append(t, y)
              ELSE Append(Revalued(t, x), RevaluedAs(y, x))
<1> DEFINE n == Len(t)
           u == Append(t, y)
<1>0. /\ n \in Nat /\ DOMAIN t = 1..n /\ DOMAIN u = 1..(n + 1) /\ Len(u) = n + 1
      /\ u[n + 1] = y /\ (\A i \in 1..n : u[i] = t[i]) /\ u \in Seq(Stmt)
  BY AppendFacts
<1>1. Revalued(u, x) \in Seq(Stmt) /\ Len(Revalued(u, x)) = n + 1
  BY <1>0, RevaluedTyped
<1>2. \A i \in 1..(n + 1) :
         Revalued(u, x)[i] = IF i \in Slots(u, x) THEN [u[i] EXCEPT !.val = x.val] ELSE u[i]
  BY <1>0 DEF Revalued
<1>3. Slots(u, x) = IF y.key = x.key
                    THEN IF y.stmt = "delete" THEN {} ELSE Slots(t, x) \cup {n + 1}
                    ELSE Slots(t, x)
  BY SlotsOfAppend
<1>4. CASE y.key = x.key /\ y.stmt = "delete"
  <2>1. \A i \in 1..Len(u) : Revalued(u, x)[i] = u[i]
    BY <1>0, <1>2, <1>3, <1>4
  <2> HIDE DEF u
  <2>2. Revalued(u, x) = u
    BY <1>0, <1>1, <2>1, EqualSequences
  <2> QED BY <1>4, <2>2 DEF u
<1>5. CASE ~(y.key = x.key /\ y.stmt = "delete")
  <2> DEFINE w == Append(Revalued(t, x), RevaluedAs(y, x))
  <2>1. Revalued(t, x) \in Seq(Stmt) /\ Len(Revalued(t, x)) = n /\ RevaluedAs(y, x) \in Stmt
    BY <1>5, RevaluedTyped
  <2>2. /\ w \in Seq(Stmt) /\ Len(w) = n + 1 /\ w[n + 1] = RevaluedAs(y, x)
        /\ \A i \in 1..n : w[i] = Revalued(t, x)[i]
    BY <2>1, AppendFacts
  <2>3. \A i \in 1..n :
           Revalued(t, x)[i] = IF i \in Slots(t, x) THEN [t[i] EXCEPT !.val = x.val] ELSE t[i]
    BY <1>0 DEF Revalued
  <2> HIDE DEF w
  <2>4. Slots(t, x) \subseteq 1..n /\ n + 1 \notin 1..n
    BY <1>0 DEF Slots
  <2>5. ASSUME NEW i \in 1..(n + 1) PROVE Revalued(u, x)[i] = w[i]
    <3>1. CASE i = n + 1
      <4>1. i \in Slots(u, x) <=> y.key = x.key
        BY <1>3, <1>5, <2>4, <3>1
      <4> HIDE DEF u
      <4> QED BY <1>0, <1>2, <2>2, <3>1, <4>1 DEF RevaluedAs
    <3>2. CASE i # n + 1
      <4>0. i \in 1..n
        BY <1>0, <3>2
      <4>1. i \in Slots(u, x) <=> i \in Slots(t, x)
        BY <1>3, <1>5, <3>2
      <4> HIDE DEF u
      <4> QED BY <1>0, <1>2, <2>2, <2>3, <4>0, <4>1
    <3> QED BY <3>1, <3>2
  <2> HIDE DEF u
  <2>6. Revalued(u, x) = w
    BY <1>1, <2>2, <2>5, EqualSequences
  <2> QED BY <1>5, <2>6 DEF u, w
<1> QED BY <1>4, <1>5

(* The last slot of k decides its row, unless the edge has lost a node.    *)
Settled(c, a, x) ==
    /\ c.rows[x.key] \in {0, x.val}
    /\ a.rows[x.key] = 0 => x.key \in a.bad \cup a.doomed

LEMMA RevaluedBetter ==
    ASSUME NEW st \in State, NEW x \in Stmt, x.stmt # "delete", NEW t \in Seq(Stmt)
    PROVE  /\ Better({}, {x.key}, After(st, Revalued(t, x)), After(st, t))
           /\ Slots(t, x) # {} => Settled(After(st, Revalued(t, x)), After(st, t), x)
<1> DEFINE A == {u \in Seq(Stmt) :
                    /\ Better({}, {x.key}, After(st, Revalued(u, x)), After(st, u))
                    /\ Slots(u, x) # {} => Settled(After(st, Revalued(u, x)), After(st, u), x)}
<1>1. <<>> \in A
  <2>1. Revalued(<<>>, x) = <<>> /\ Slots(<<>>, x) = {} /\ <<>> \in Seq(Stmt)
    BY DEF Revalued, Slots
  <2> QED BY <2>1, BetterSelf
<1>2. ASSUME NEW u \in A, NEW y \in Stmt PROVE Append(u, y) \in A
  <2> DEFINE r == Revalued(u, x)
             c == After(st, r)
             a == After(st, u)
             w == Append(u, y)
  <2>1. /\ u \in Seq(Stmt) /\ w \in Seq(Stmt) /\ r \in Seq(Stmt)
        /\ c \in State /\ a \in State /\ x.val \in Values
        /\ Better({}, {x.key}, c, a) /\ (Slots(u, x) # {} => Settled(c, a, x))
    BY RevaluedTyped, AfterSteps
  <2>2. After(st, w) = Follows(a, y)
    BY <2>1, AfterSteps
  <2>3. CASE y.key = x.key /\ y.stmt = "delete"
    <3>1. Revalued(w, x) = w /\ Slots(w, x) = {}
      BY <2>1, <2>3, RevaluedOfAppend, SlotsOfAppend
    <3> HIDE DEF w
    <3>2. w \in A
      BY <2>1, <3>1, BetterSelf
    <3> QED BY <3>2 DEF w
  <2>4. CASE ~(y.key = x.key /\ y.stmt = "delete")
    <3> DEFINE z == RevaluedAs(y, x)
    <3>1. z \in Stmt /\ Revalued(w, x) = Append(r, z)
      BY <2>1, <2>4, RevaluedTyped, RevaluedOfAppend
    <3>2. After(st, Revalued(w, x)) = Follows(c, z)
      BY <2>1, <3>1, AfterSteps
    <3>3. Better({}, {x.key}, Follows(c, z), Follows(a, y))
      <4> HIDE DEF c, a
      <4>1. CASE y.key = x.key
        <5>1. y.stmt # "delete" /\ z = [y EXCEPT !.val = x.val]
          BY <2>4, <4>1 DEF RevaluedAs
        <5>2. Better({}, {x.key} \cup {y.key}, Follows(c, z), Follows(a, y))
          BY <2>1, <5>1, BetterFollows
        <5>3. {x.key} \cup {y.key} = {x.key}
          BY <4>1
        <5> QED BY <5>2, <5>3
      <4>2. CASE y.key # x.key
        <5>1. z = y
          BY <4>2 DEF RevaluedAs
        <5>2. Better({}, {x.key} \ {y.key}, Follows(c, y), Follows(a, y))
          BY <2>1, BetterFollows
        <5>3. {x.key} \ {y.key} = {x.key}
          BY <4>2
        <5> QED BY <5>1, <5>2, <5>3
      <4> QED BY <4>1, <4>2
    <3>4. Slots(w, x) # {} => Settled(Follows(c, z), Follows(a, y), x)
      <4> HIDE DEF c, a
      <4>0. /\ c.rows \in Rows /\ a.rows \in Rows /\ x.key \in Keys /\ y.key \in Keys
            /\ y.val \in Payload /\ (y.val = 0 <=> y.stmt = "delete")
            /\ a.doomed \subseteq Edges
        BY <2>1, StmtFields DEF State
      <4>1. CASE y.key = x.key
        <5>1. y.stmt # "delete" /\ z = [y EXCEPT !.val = x.val]
          BY <2>4, <4>1 DEF RevaluedAs
        <5>2. z.key = x.key /\ z.val = x.val /\ z.stmt = y.stmt
          BY <3>1, <4>1, <5>1 DEF Stmt
        <5>3. Follows(c, z).rows[x.key] \in {0, x.val}
          <6> HIDE DEF z
          <6>1. Follows(c, z).rows = Done(c.rows, z)
            BY DEF Follows
          <6>2. Done(c.rows, z)[x.key] \in {z.val, c.rows[x.key]}
            BY <3>1, <4>0, <5>1, <5>2, DoneAt
          <6>3. c.rows[x.key] # 0 => Done(c.rows, z)[x.key] = z.val
            BY <3>1, <4>0, <5>1, <5>2, DoneAt
          <6> QED BY <5>2, <6>1, <6>2, <6>3
        <5>4. Fits(a, y) => Follows(a, y).rows[x.key] # 0
          BY <4>0, <4>1, <5>1, DoneAt DEF Follows, Fits
        <5>5. ~Fits(a, y) => x.key \in Follows(a, y).bad
          BY <4>1, <5>1 DEF Follows
        <5> QED BY <5>3, <5>4, <5>5 DEF Settled
      <4>2. CASE y.key # x.key
        <5>1. z = y /\ Slots(w, x) = Slots(u, x)
          BY <2>1, <4>2, SlotsOfAppend DEF RevaluedAs
        <5> SUFFICES ASSUME Settled(c, a, x) PROVE Settled(Follows(c, y), Follows(a, y), x)
          BY <2>1, <5>1
        <5>2. Follows(c, y).rows[x.key] \in {0, x.val}
          BY <4>0, <4>2, DoneAt DEF Settled, Follows
        <5>3. x.key \in a.bad \cup a.doomed =>
              x.key \in Follows(a, y).bad \cup Follows(a, y).doomed
          BY <4>2 DEF Follows
        <5>4. a.rows[x.key] # 0 /\
              Follows(a, y).rows[x.key] = 0 => x.key \in Follows(a, y).doomed
          <6> SUFFICES ASSUME a.rows[x.key] # 0, Follows(a, y).rows[x.key] = 0
                       PROVE  x.key \in Follows(a, y).doomed
            OBVIOUS
          <6>1. y.stmt = "delete" /\ y.key \in Nodes /\ x.key \in EdgesOf(y.key)
            BY <4>0, <4>2, DoneAt DEF Follows
          <6>2. x.key \in Cut(a, y)
            BY <6>1 DEF Cut, EdgesOf
          <6> QED BY <4>2, <6>1, <6>2 DEF Follows
        <5> QED BY <5>2, <5>3, <5>4 DEF Settled
      <4> QED BY <4>1, <4>2
    <3> HIDE DEF w, c, a, z, r
    <3>5. w \in A
      BY <2>1, <2>2, <3>2, <3>3, <3>4
    <3> QED BY <3>5 DEF w
  <2> QED BY <2>3, <2>4
<1>3. A = Seq(Stmt)
  <2> HIDE DEF A
  <2> QED BY <1>1, <1>2, InductionOnSeq DEF A
<1> QED BY <1>3

(* An upsert may leave its payload in its slots.                           *)
LEMMA SlotTakes ==
    ASSUME NEW st \in State, NEW x \in Stmt, x.stmt # "delete", NEW t \in Seq(Stmt),
           Slots(t, x) # {}
    PROVE  Better({}, {}, After(st, Revalued(t, x)), Follows(After(st, t), x))
<1> DEFINE c == After(st, Revalued(t, x))
           a == After(st, t)
<1>1. /\ c \in State /\ a \in State /\ Better({}, {x.key}, c, a) /\ Settled(c, a, x)
      /\ Revalued(t, x) \in Seq(Stmt) /\ x.val \in Values
  BY RevaluedTyped, AfterSteps, RevaluedBetter
<1> HIDE DEF c, a
<1> SUFFICES ASSUME NEW k \in Keys, Near(k) \cap Follows(a, x).bad = {}
             PROVE  Alike({}, c, Follows(a, x), k)
  BY DEF Better, c, a
<1>2. Alike({x.key}, c, a, k)
  BY <1>1, BadStays DEF Better
<1>3. ASSUME NEW i \in Near(k)
      PROVE  /\ c.rows[i] = Follows(a, x).rows[i]
             /\ i \in c.doomed => i \in Follows(a, x).doomed
             /\ i \in c.bad => i \in Follows(a, x).bad
  <2>0. /\ i \in Keys /\ i \notin Follows(a, x).bad /\ a.rows \in Rows /\ c.rows \in Rows
        /\ x.key \in Keys
    BY <1>1, NearKeys, StmtFields DEF State
  <2>1. Follows(a, x).doomed = a.doomed /\ a.bad \subseteq Follows(a, x).bad
    BY DEF Follows
  <2>2. CASE i # x.key
    <3>1. Follows(a, x).rows[i] = a.rows[i]
      BY <2>0, <2>2, DoneAt DEF Follows
    <3> QED BY <1>2, <2>1, <2>2, <3>1 DEF Alike
  <2>3. CASE i = x.key
    <3>1. Fits(a, x)
      BY <2>0, <2>3 DEF Follows
    <3>2. a.rows[i] # 0
      BY <1>1, <2>0, <2>1, <2>3, <3>1 DEF Settled, Fits
    <3>3. c.rows[i] = x.val
      BY <1>1, <1>2, <2>3, <3>2 DEF Settled, Alike
    <3>4. Follows(a, x).rows[i] = x.val
      BY <2>0, <2>3, <3>2, DoneAt DEF Follows
    <3> QED BY <1>2, <2>1, <3>3, <3>4 DEF Alike
  <2> QED BY <2>2, <2>3
<1> QED BY <1>3 DEF Alike

LEMMA BetterMerged ==
    ASSUME NEW st \in State, NEW s \in Seq(Stmt)
    PROVE  Better({}, {}, After(st, Merged(s)), After(st, s))
<1> DEFINE A == {u \in Seq(Stmt) : Better({}, {}, After(st, Merged(u)), After(st, u))}
<1>1. <<>> \in A
  BY MergedSteps, BetterSelf
<1>2. ASSUME NEW u \in A, NEW x \in Stmt PROVE Append(u, x) \in A
  <2> DEFINE t == Merged(u)
             c == After(st, t)
             a == After(st, u)
  <2>1. /\ u \in Seq(Stmt) /\ Append(u, x) \in Seq(Stmt) /\ t \in Seq(Stmt)
        /\ c \in State /\ a \in State /\ Better({}, {}, c, a)
        /\ After(st, Append(u, x)) = Follows(a, x)
        /\ Merged(Append(u, x)) = MergedWith(t, x)
    BY MergedSteps, AfterSteps
  <2>2. After(st, Append(t, x)) = Follows(c, x)
    BY <2>1, AfterSteps
  <2>3. Better({}, {}, Follows(c, x), Follows(a, x))
    <3> HIDE DEF c, a
    <3>1. Better({}, {} \ {x.key}, Follows(c, x), Follows(a, x))
      BY <2>1, BetterFollows
    <3>2. {} \ {x.key} = {}
      OBVIOUS
    <3> QED BY <3>1, <3>2
  <2>4. CASE x.stmt = "delete" \/ Slots(t, x) = {}
    <3>1. MergedWith(t, x) = Append(t, x)
      BY <2>4 DEF MergedWith
    <3> HIDE DEF t, c, a
    <3> QED BY <2>1, <2>2, <2>3, <3>1
  <2>5. CASE x.stmt # "delete" /\ Slots(t, x) # {}
    <3>1. MergedWith(t, x) = Revalued(t, x)
      BY <2>5 DEF MergedWith, Revalued
    <3>2. Better({}, {}, After(st, Revalued(t, x)), Follows(c, x))
      BY <2>1, <2>5, SlotTakes
    <3> HIDE DEF t, c, a
    <3>3. Better({} \cup {}, {}, After(st, Revalued(t, x)), Follows(a, x))
      BY <2>3, <3>2, BetterChains
    <3>4. {} \cup {} = {}
      OBVIOUS
    <3> QED BY <2>1, <3>1, <3>3, <3>4
  <2> QED BY <2>4, <2>5
<1>3. A = Seq(Stmt)
  <2> HIDE DEF A
  <2> QED BY <1>1, <1>2, InductionOnSeq DEF A
<1> QED BY <1>3

-----------------------------------------------------------------------------
(* Shedding.  In a merged batch a delete is between any two upserts of a   *)
(* key; so a refresh that is shed is the first statement of its edge, and  *)
(* a delete of the edge is the next.                                       *)
Spaced(t) ==
    \A i, j \in DOMAIN t :
        i < j /\ t[i].key = t[j].key /\ t[i].stmt # "delete" /\ t[j].stmt # "delete" =>
            \E m \in i..j : t[m].key = t[i].key /\ t[m].stmt = "delete"

KeysOf(t) == {t[i].key : i \in DOMAIN t}

LEMMA SpacedAppend ==
    ASSUME NEW t \in Seq(Stmt), NEW x \in Stmt
    PROVE  /\ Spaced(Append(t, x)) => Spaced(t)
           /\ Spaced(t) /\ (x.stmt = "delete" \/ Slots(t, x) = {}) => Spaced(Append(t, x))
<1> DEFINE n == Len(t)
           u == Append(t, x)
<1>0. /\ n \in Nat /\ DOMAIN t = 1..n /\ DOMAIN u = 1..(n + 1)
      /\ u[n + 1] = x /\ \A i \in 1..n : u[i] = t[i]
  BY AppendFacts
<1>1. \A i, j \in 1..n : i..j \subseteq 1..n /\ i \in 1..(n + 1)
  BY <1>0
<1> HIDE DEF u
<1>2. Spaced(u) => Spaced(t)
  BY <1>0, <1>1 DEF Spaced
<1>3. ASSUME Spaced(t), x.stmt = "delete" \/ Slots(t, x) = {} PROVE Spaced(u)
  <2> SUFFICES ASSUME NEW i \in 1..(n + 1), NEW j \in 1..(n + 1), i < j, u[i].key = u[j].key,
                      u[i].stmt # "delete", u[j].stmt # "delete"
               PROVE  \E m \in i..j : u[m].key = u[i].key /\ u[m].stmt = "delete"
    BY <1>0 DEF Spaced
  <2>1. i \in 1..n
    BY <1>0
  <2>2. CASE j = n + 1
    <3>1. x.stmt # "delete" /\ t[i].key = x.key /\ i \notin Slots(t, x)
      BY <1>0, <1>3, <2>1, <2>2
    <3>2. PICK m \in i..n : t[m].key = x.key /\ t[m].stmt = "delete"
      BY <1>0, <2>1, <3>1 DEF Slots, n
    <3>3. m \in 1..n /\ m \in i..j
      BY <1>0, <2>1, <2>2
    <3> QED BY <1>0, <2>1, <2>2, <3>2, <3>3
  <2>3. CASE j # n + 1
    <3>1. j \in 1..n
      BY <1>0, <2>3
    <3>2. PICK m \in i..j : t[m].key = t[i].key /\ t[m].stmt = "delete"
      BY <1>0, <1>3, <2>1, <3>1 DEF Spaced
    <3>3. m \in 1..n
      BY <1>1, <2>1, <3>1
    <3> QED BY <1>0, <2>1, <3>2, <3>3
  <2> QED BY <2>2, <2>3
<1> QED BY <1>2, <1>3 DEF u

LEMMA SpacedRevalued ==
    ASSUME NEW t \in Seq(Stmt), NEW x \in Stmt, x.stmt # "delete", Spaced(t)
    PROVE  Spaced(Revalued(t, x))
<1> DEFINE r == Revalued(t, x)
<1>1. DOMAIN r = DOMAIN t
  BY DEF Revalued
<1>2. \A i \in DOMAIN t : r[i].key = t[i].key /\ r[i].stmt = t[i].stmt
  <2> SUFFICES ASSUME NEW i \in DOMAIN t PROVE r[i].key = t[i].key /\ r[i].stmt = t[i].stmt
    OBVIOUS
  <2>1. t[i] \in Stmt
    OBVIOUS
  <2>2. r[i] = IF i \in Slots(t, x) THEN [t[i] EXCEPT !.val = x.val] ELSE t[i]
    BY DEF Revalued
  <2>3. [t[i] EXCEPT !.val = x.val].key = t[i].key /\
        [t[i] EXCEPT !.val = x.val].stmt = t[i].stmt
    BY <2>1 DEF Stmt
  <2> QED BY <2>2, <2>3
<1>3. DOMAIN t = 1..Len(t) /\ Len(t) \in Nat
  OBVIOUS
<1>4. \A i, j \in DOMAIN t : i..j \subseteq DOMAIN t
  BY <1>3
<1> HIDE DEF r
<1> SUFFICES Spaced(r)
  BY DEF r
<1> QED BY <1>1, <1>2, <1>4 DEF Spaced

LEMMA MergedIsSpaced ==
    ASSUME NEW s \in Seq(Stmt)
    PROVE  Spaced(Merged(s))
<1> DEFINE A == {u \in Seq(Stmt) : Spaced(Merged(u))}
<1>1. <<>> \in A
  BY MergedSteps DEF Spaced
<1>2. ASSUME NEW u \in A, NEW x \in Stmt PROVE Append(u, x) \in A
  <2> DEFINE t == Merged(u)
  <2>1. /\ Append(u, x) \in Seq(Stmt) /\ t \in Seq(Stmt) /\ Spaced(t)
        /\ Merged(Append(u, x)) = MergedWith(t, x)
    BY MergedSteps
  <2> HIDE DEF t
  <2>2. Spaced(MergedWith(t, x))
    <3>1. CASE x.stmt = "delete" \/ Slots(t, x) = {}
      BY <2>1, <3>1, SpacedAppend DEF MergedWith
    <3>2. CASE x.stmt # "delete" /\ Slots(t, x) # {}
      <4>1. MergedWith(t, x) = Revalued(t, x)
        BY <3>2 DEF MergedWith, Revalued
      <4> QED BY <2>1, <3>2, <4>1, SpacedRevalued
    <3> QED BY <3>1, <3>2
  <2> QED BY <2>1, <2>2
<1>3. A = Seq(Stmt)
  <2> HIDE DEF A
  <2> QED BY <1>1, <1>2, InductionOnSeq DEF A
<1> QED BY <1>3

LEMMA KeysOfAppend ==
    ASSUME NEW t \in Seq(Stmt), NEW x \in Stmt
    PROVE  KeysOf(Append(t, x)) = KeysOf(t) \cup {x.key} /\ KeysOf(t) \subseteq Keys
<1>0. /\ Len(t) \in Nat /\ DOMAIN t = 1..Len(t) /\ DOMAIN Append(t, x) = 1..(Len(t) + 1)
      /\ Append(t, x)[Len(t) + 1] = x /\ \A i \in 1..Len(t) : Append(t, x)[i] = t[i]
  BY AppendFacts
<1>1. 1..(Len(t) + 1) = 1..Len(t) \cup {Len(t) + 1}
  BY <1>0
<1>2. KeysOf(Append(t, x)) = KeysOf(t) \cup {x.key}
  BY <1>0, <1>1 DEF KeysOf
<1>3. \A i \in 1..Len(t) : t[i].key \in Keys
  BY StmtFields
<1> QED BY <1>0, <1>2, <1>3 DEF KeysOf

(* The last statement of k deletes it.                                     *)
Deletes(t, k) ==
    \E m \in DOMAIN t : /\ t[m].key = k
                        /\ \A j \in m..Len(t) : t[j].key = k => t[j].stmt = "delete"

LEMMA DeletedIsGone ==
    ASSUME NEW st \in State, NEW s \in Seq(Stmt), NEW k \in Keys
    PROVE  Deletes(s, k) => After(st, s).rows[k] = 0
<1> DEFINE A == {u \in Seq(Stmt) : Deletes(u, k) => After(st, u).rows[k] = 0}
<1>1. <<>> \in A
  BY DEF Deletes
<1>2. ASSUME NEW u \in A, NEW x \in Stmt, Deletes(Append(u, x), k)
      PROVE  After(st, Append(u, x)).rows[k] = 0
  <2> DEFINE n == Len(u)
             w == Append(u, x)
             a == After(st, u)
  <2>0. /\ n \in Nat /\ DOMAIN u = 1..n /\ DOMAIN w = 1..(n + 1) /\ Len(w) = n + 1
        /\ w[n + 1] = x /\ \A i \in 1..n : w[i] = u[i]
    BY AppendFacts
  <2>1. a \in State /\ After(st, w) = Follows(a, x) /\ a.rows \in Rows
    BY AfterSteps DEF State
  <2>2. PICK m \in 1..(n + 1) :
           w[m].key = k /\ \A j \in m..(n + 1) : w[j].key = k => w[j].stmt = "delete"
    BY <1>2, <2>0 DEF Deletes
  <2>3. n + 1 \in m..(n + 1)
    BY <2>0
  <2>4. CASE x.key = k
    <3>1. x.stmt = "delete"
      BY <2>0, <2>2, <2>3, <2>4
    <3> HIDE DEF a
    <3> QED BY <2>1, <2>4, <3>1, DoneAt DEF Follows
  <2>5. CASE x.key # k
    <3>1. m \in 1..n
      BY <2>0, <2>2, <2>5
    <3>2. \A j \in m..n : j \in m..(n + 1) /\ j \in 1..n
      BY <2>0, <3>1
    <3> HIDE DEF w
    <3>3. Deletes(u, k)
      BY <2>0, <2>2, <3>1, <3>2 DEF Deletes, n
    <3>4. a.rows[k] = 0
      BY <3>3
    <3> HIDE DEF a
    <3>5. Follows(a, x).rows[k] = 0
      BY <2>1, <2>5, <3>4, DoneAt DEF Follows
    <3> QED BY <2>1, <3>5 DEF w, a
  <2> QED BY <2>4, <2>5
<1>3. A = Seq(Stmt)
  <2>1. \A u \in A, x \in Stmt : Append(u, x) \in A
    BY <1>2
  <2> HIDE DEF A
  <2> QED BY <1>1, <2>1, InductionOnSeq DEF A
<1> QED BY <1>3

(* A key that has statements, and after which an upsert keeps the spacing: *)
(* the last of them deletes it.                                            *)
LEMMA SpacedDeletes ==
    ASSUME NEW s \in Seq(Stmt), NEW x \in Stmt, x.stmt # "delete", Spaced(Append(s, x)),
           x.key \in KeysOf(s)
    PROVE  Deletes(s, x.key)
<1> DEFINE n == Len(s)
           w == Append(s, x)
           I == {i \in 1..n : s[i].key = x.key}
<1>0. /\ n \in Nat /\ DOMAIN s = 1..n /\ DOMAIN w = 1..(n + 1)
      /\ w[n + 1] = x /\ \A i \in 1..n : w[i] = s[i]
  BY AppendFacts
<1>1. I \subseteq 1..n /\ I # {}
  BY <1>0 DEF KeysOf
<1> HIDE DEF n, w, I
<1>2. PICK m \in I : \A i \in I : i <= m
  BY <1>0, <1>1, GreatestIndex
<1>3. m \in 1..n /\ s[m].key = x.key /\ n + 1 \in 1..(n + 1) /\ m \in 1..(n + 1) /\ m < n + 1
  BY <1>0, <1>1, <1>2 DEF I
<1>4. ASSUME NEW i \in m..n, s[i].key = x.key PROVE i = m
  <2>1. i \in I
    BY <1>0, <1>3, <1>4 DEF I
  <2>2. i <= m
    BY <1>2, <2>1
  <2> QED BY <1>0, <1>3, <2>2
<1>5. s[m].stmt = "delete"
  <2> SUFFICES ASSUME s[m].stmt # "delete" PROVE FALSE
    OBVIOUS
  <2>1. PICK j \in m..(n + 1) : w[j].key = x.key /\ w[j].stmt = "delete"
    BY <1>0, <1>3 DEF Spaced, w
  <2>2. j # n + 1
    BY <1>0, <2>1
  <2>3. j \in m..n /\ j \in 1..n
    BY <1>0, <1>3, <2>1, <2>2
  <2>4. s[j].key = x.key /\ s[j].stmt = "delete"
    BY <1>0, <2>1, <2>3
  <2> QED BY <1>4, <2>3, <2>4
<1> QED BY <1>0, <1>3, <1>4, <1>5 DEF Deletes, n

LEMMA ShedOf ==
    ASSUME NEW s \in Seq(Stmt)
    PROVE  Shed(s) = KeysOf(s) \ KeysOf(Kept(s))
BY DEF Shed, KeysOf

(* What is shed of a merged batch leaves the payloads of the keys of which *)
(* nothing is left, and only those, as they were.                          *)
LEMMA BetterKept ==
    ASSUME NEW st \in State, NEW s \in Seq(Stmt), Spaced(s)
    PROVE  Better(Shed(s), {}, After(st, Kept(s)), After(st, s))
<1> DEFINE A == {u \in Seq(Stmt) :
                    Spaced(u) => Better({}, Shed(u), After(st, Kept(u)), After(st, u))}
<1>1. <<>> \in A
  BY KeptSteps, BetterSelf
<1>2. ASSUME NEW u \in A, NEW x \in Stmt, Spaced(Append(u, x))
      PROVE  Better({}, Shed(Append(u, x)), After(st, Kept(Append(u, x))), After(st,
            Append(u, x)))
  <2> DEFINE w == Append(u, x)
             t == Kept(u)
             c == After(st, t)
             a == After(st, u)
  <2>1. /\ u \in Seq(Stmt) /\ w \in Seq(Stmt) /\ t \in Seq(Stmt) /\ Spaced(w)
        /\ c \in State /\ a \in State
        /\ After(st, w) = Follows(a, x) /\ Kept(w) = KeptWith(t, x)
    BY <1>2, KeptSteps, AfterSteps
  <2>2. Better({}, Shed(u), c, a)
    BY <1>2, <2>1, SpacedAppend
  <2>3. /\ Shed(u) = KeysOf(u) \ KeysOf(t) /\ Shed(w) = KeysOf(w) \ KeysOf(Kept(w))
        /\ KeysOf(w) = KeysOf(u) \cup {x.key}
    BY <2>1, ShedOf, KeysOfAppend
  <2>4. CASE ~(x.stmt = "set" /\ x.key \in Edges)
    <3>1. Kept(w) = Append(t, x)
      BY <2>1, <2>4 DEF KeptWith
    <3>2. After(st, Kept(w)) = Follows(c, x) /\ KeysOf(Kept(w)) = KeysOf(t) \cup {x.key}
      BY <2>1, <3>1, AfterSteps, KeysOfAppend
    <3>3. Shed(w) = Shed(u) \ {x.key}
      BY <2>3, <3>2
    <3> HIDE DEF w, c, a
    <3>4. Better({}, Shed(u) \ {x.key}, Follows(c, x), Follows(a, x))
      BY <2>1, <2>2, BetterFollows
    <3>5. Better({}, Shed(w), After(st, Kept(w)), After(st, w))
      BY <2>1, <3>2, <3>3, <3>4
    <3> QED BY <3>5 DEF w
  <2>5. CASE x.stmt = "set" /\ x.key \in Edges
    <3>1. Kept(w) = t
      BY <2>1, <2>5 DEF KeptWith
    <3>2. Shed(u) \subseteq Shed(w)
      BY <2>3, <3>1
    <3>3. a.rows[x.key] # 0 => x.key \in Shed(w)
      <4> SUFFICES ASSUME x.key \notin Shed(w) PROVE a.rows[x.key] = 0
        OBVIOUS
      <4>1. x.key \in KeysOf(t)
        BY <2>3, <3>1
      <4>2. x.key \in KeysOf(u)
        <5> DEFINE B == {v \in Seq(Stmt) : KeysOf(Kept(v)) \subseteq KeysOf(v)}
        <5>1. <<>> \in B
          BY KeptSteps
        <5>2. ASSUME NEW v \in B, NEW y \in Stmt PROVE Append(v, y) \in B
          <6>1. /\ v \in Seq(Stmt) /\ Append(v, y) \in Seq(Stmt) /\ Kept(v) \in Seq(Stmt)
                /\ Kept(Append(v, y)) = KeptWith(Kept(v), y)
            BY KeptSteps
          <6>2. /\ KeysOf(Append(v, y)) = KeysOf(v) \cup {y.key}
                /\ KeysOf(Append(Kept(v), y)) = KeysOf(Kept(v)) \cup {y.key}
            BY <6>1, KeysOfAppend
          <6> QED BY <6>1, <6>2 DEF KeptWith
        <5>3. B = Seq(Stmt)
          <6> HIDE DEF B
          <6> QED BY <5>1, <5>2, InductionOnSeq DEF B
        <5> QED BY <2>1, <4>1, <5>3
      <4>3. x.stmt # "delete" /\ x.key \in Keys
        BY <2>5, StmtFields
      <4>4. Deletes(u, x.key)
        BY <2>1, <4>2, <4>3, SpacedDeletes
      <4> QED BY <2>1, <4>3, <4>4, DeletedIsGone
    <3> HIDE DEF w, c, a
    <3> SUFFICES ASSUME NEW k \in Keys, Near(k) \cap Follows(a, x).bad = {}
                 PROVE  Alike(Shed(w), c, Follows(a, x), k)
      <4>1. Better({}, Shed(w), c, Follows(a, x))
        BY DEF Better
      <4> QED BY <2>1, <3>1, <4>1 DEF w, c
    <3>4. Alike(Shed(u), c, a, k)
      BY <2>1, <2>2, BadStays DEF Better
    <3>5. ASSUME NEW i \in Near(k)
          PROVE  /\ c.rows[i] = 0 <=> Follows(a, x).rows[i] = 0
                 /\ i \notin Shed(w) => c.rows[i] = Follows(a, x).rows[i]
                 /\ i \in c.doomed => i \in Follows(a, x).doomed
                 /\ i \in c.bad => i \in Follows(a, x).bad
      <4>0. /\ i \in Keys /\ i \notin Follows(a, x).bad /\ a.rows \in Rows
            /\ x.stmt # "delete" /\ x.val # 0 /\ x.key \in Keys
        BY <2>1, <2>5, NearKeys, StmtFields DEF State
      <4>1. Follows(a, x).doomed = a.doomed /\ a.bad \subseteq Follows(a, x).bad
        BY <4>0 DEF Follows
      <4>2. CASE i # x.key
        <5>1. Follows(a, x).rows[i] = a.rows[i]
          BY <4>0, <4>2, DoneAt DEF Follows
        <5> QED BY <3>2, <3>4, <4>1, <5>1 DEF Alike
      <4>3. CASE i = x.key
        <5>1. a.rows[i] # 0
          BY <2>5, <4>0, <4>3 DEF Follows, Fits
        <5>2. Follows(a, x).rows[i] = x.val
          BY <4>0, <4>3, <5>1, DoneAt DEF Follows
        <5> QED BY <3>3, <3>4, <4>0, <4>1, <4>3, <5>1, <5>2 DEF Alike
      <4> QED BY <4>2, <4>3
    <3> QED BY <3>5 DEF Alike
  <2> QED BY <2>4, <2>5
<1>3. A = Seq(Stmt)
  <2>1. \A u \in A, x \in Stmt : Append(u, x) \in A
    BY <1>2
  <2> HIDE DEF A
  <2> QED BY <1>1, <2>1, InductionOnSeq DEF A
<1>4. Better({}, Shed(s), After(st, Kept(s)), After(st, s))
  BY <1>3
<1> QED BY <1>4, BetterWeakens

-----------------------------------------------------------------------------
(* The window: what is due of each key, and that all of it finds what it   *)
(* needs.                                                                  *)
Pending(p, k) == \E i \in DOMAIN p : p[i].key = k
Deleting(p, k) == \E i \in DOMAIN p : p[i].key = k /\ p[i].val = 0
Due(p, r, k) == IF Pending(p, k) THEN p[CHOOSE i \in DOMAIN p : p[i].key = k].val ELSE r[k]

Distinct(p) == \A i, j \in DOMAIN p : p[i].key = p[j].key => i = j

(* An edge of S that may be created has its nodes, or they come before it. *)
NodesFirst(p, kn, S) ==
    \A e \in S \cap Edges : \A i \in DOMAIN p :
        p[i].key = e /\ e \notin kn =>
            \A n \in Ends[e] : n \in kn \/ \E j \in DOMAIN p : j < i /\ p[j].key = n

(* With a node its edges in S go, those to be written among them.          *)
EdgesGo(p, r, S) ==
    \A e \in S \cap Edges : \A n \in Ends[e] : Deleting(p, n) => Due(p, r, e) = 0

(* Sound keys: known exactly if they will have a row.                      *)
Good(st, kn, S) ==
    \A k \in S : k \notin st.bad /\ k \notin st.doomed /\ (k \in kn <=> st.rows[k] # 0)

(* Keys, with the nodes of the edges.                                      *)
WithNodes(S) == S \subseteq Keys /\ \A e \in S \cap Edges : Ends[e] \subseteq S

LEMMA DueAt ==
    ASSUME NEW p, Distinct(p), NEW i \in DOMAIN p, NEW r
    PROVE  Pending(p, p[i].key) /\ Due(p, r, p[i].key) = p[i].val
<1> DEFINE j == CHOOSE j \in DOMAIN p : p[j].key = p[i].key
<1>1. j \in DOMAIN p /\ p[j].key = p[i].key
  OBVIOUS
<1> HIDE DEF j
<1>2. j = i
  BY <1>1 DEF Distinct
<1> QED BY <1>2 DEF Pending, Due, j

LEMMA DueOfAppend ==
    ASSUME NEW u \in Seq(Write), NEW w \in Write, Distinct(Append(u, w)), NEW r
    PROVE  /\ Distinct(u) /\ ~Pending(u, w.key)
           /\ \A k : /\ Pending(Append(u, w), k) <=> Pending(u, k) \/ k = w.key
                     /\ Deleting(Append(u, w), k) <=> Deleting(u, k) \/ (k = w.key /\ w.val = 0)
                     /\ Due(Append(u, w), r, k) = IF k = w.key THEN w.val ELSE Due(u, r, k)
<1> DEFINE n == Len(u)
           v == Append(u, w)
<1>0. /\ n \in Nat /\ DOMAIN u = 1..n /\ DOMAIN v = 1..(n + 1)
      /\ v[n + 1] = w /\ (\A i \in 1..n : v[i] = u[i])
      /\ 1..(n + 1) = (1..n) \cup {n + 1} /\ n + 1 \notin 1..n
  BY AppendFacts
<1>00. Distinct(v)
  OBVIOUS
<1> HIDE DEF v, n
<1>1. Distinct(u)
  BY <1>0, <1>00 DEF Distinct
<1>2. ~Pending(u, w.key)
  BY <1>0, <1>00 DEF Distinct, Pending
<1>3. ASSUME NEW k
      PROVE  /\ Pending(v, k) <=> Pending(u, k) \/ k = w.key
             /\ Deleting(v, k) <=> Deleting(u, k) \/ (k = w.key /\ w.val = 0)
             /\ Due(v, r, k) = IF k = w.key THEN w.val ELSE Due(u, r, k)
  <2>1. Pending(v, k) <=> Pending(u, k) \/ k = w.key
    BY <1>0 DEF Pending
  <2>2. Deleting(v, k) <=> Deleting(u, k) \/ (k = w.key /\ w.val = 0)
    BY <1>0 DEF Deleting
  <2>3. CASE k = w.key
    <3>1. n + 1 \in DOMAIN v /\ v[n + 1].key = k /\ v[n + 1].val = w.val
      BY <1>0, <2>3
    <3>2. Due(v, r, k) = w.val
      BY <1>00, <3>1, DueAt
    <3> QED BY <2>1, <2>2, <2>3, <3>2
  <2>4. CASE k # w.key /\ Pending(u, k)
    <3>1. PICK i \in 1..n : u[i].key = k
      BY <1>0, <2>4 DEF Pending
    <3>2. Due(u, r, k) = u[i].val
      BY <1>0, <1>1, <3>1, DueAt
    <3>3. i \in DOMAIN v /\ v[i] = u[i]
      BY <1>0, <3>1
    <3>4. Due(v, r, k) = v[i].val
      BY <1>00, <3>1, <3>3, DueAt
    <3> QED BY <2>1, <2>2, <2>4, <3>2, <3>3, <3>4
  <2>5. CASE k # w.key /\ ~Pending(u, k)
    <3>1. Due(v, r, k) = r[k] /\ Due(u, r, k) = r[k]
      BY <2>1, <2>5 DEF Due
    <3> QED BY <2>1, <2>2, <2>5, <3>1
  <2> QED BY <2>3, <2>4, <2>5
<1> QED BY <1>1, <1>2, <1>3 DEF v

(* A statement of the window.                                              *)
ResolvedAs(w, kn) ==
    [key |-> w.key, val |-> w.val,
     stmt |-> IF w.val = 0 THEN "delete" ELSE IF w.key \in kn THEN "set" ELSE "create"]

LEMMA ResolvedSteps ==
    ASSUME NEW kn
    PROVE  /\ \A w \in Write : ResolvedAs(w, kn) \in Stmt
           /\ Resolved(<<>>, kn) = <<>>
           /\ \A p \in Seq(Write) : Resolved(p, kn) \in Seq(Stmt) /\
                 Len(Resolved(p, kn)) = Len(p)
           /\ \A p \in Seq(Write), w \in Write :
                 Resolved(Append(p, w), kn) = Append(Resolved(p, kn), ResolvedAs(w, kn))
<1>1. ASSUME NEW w \in Write PROVE ResolvedAs(w, kn) \in Stmt
  BY DEF ResolvedAs, Write, Stmt, Kinds
<1>2. Resolved(<<>>, kn) = <<>>
  BY DEF Resolved
<1>3. ASSUME NEW p \in Seq(Write)
      PROVE  /\ Resolved(p, kn) \in Seq(Stmt) /\ Len(Resolved(p, kn)) = Len(p)
             /\ \A i \in 1..Len(p) : Resolved(p, kn)[i] = ResolvedAs(p[i], kn)
  <2>1. Len(p) \in Nat /\ DOMAIN p = 1..Len(p) /\ \A i \in 1..Len(p) : p[i] \in Write
    OBVIOUS
  <2>2. Resolved(p, kn) = [i \in 1..Len(p) |-> ResolvedAs(p[i], kn)]
    BY <2>1 DEF Resolved, ResolvedAs
  <2>3. \A i \in 1..Len(p) : ResolvedAs(p[i], kn) \in Stmt
    BY <1>1, <2>1
  <2>4. Resolved(p, kn) \in [1..Len(p) -> Stmt]
    BY <2>2, <2>3
  <2> QED BY <2>1, <2>2, <2>4
<1>4. ASSUME NEW p \in Seq(Write), NEW w \in Write
      PROVE  Resolved(Append(p, w), kn) = Append(Resolved(p, kn), ResolvedAs(w, kn))
  <2> DEFINE n == Len(p)
             q == Append(p, w)
             a == Resolved(q, kn)
             b == Append(Resolved(p, kn), ResolvedAs(w, kn))
  <2>1. q \in Seq(Write) /\ Len(q) = n + 1 /\ q[n + 1] = w /\
        (\A i \in 1..n : q[i] = p[i]) /\ n \in Nat
    BY AppendFacts
  <2> HIDE DEF q
  <2>2. a \in Seq(Stmt) /\ Len(a) = n + 1 /\ \A i \in 1..(n + 1) : a[i] = ResolvedAs(q[i], kn)
    BY <1>3, <2>1
  <2>3. /\ Resolved(p, kn) \in Seq(Stmt) /\ Len(Resolved(p, kn)) = n
        /\ \A i \in 1..n : Resolved(p, kn)[i] = ResolvedAs(p[i], kn)
    BY <1>3
  <2>4. /\ b \in Seq(Stmt) /\ Len(b) = n + 1 /\ b[n + 1] = ResolvedAs(w, kn)
        /\ \A i \in 1..n : b[i] = ResolvedAs(p[i], kn)
    BY <1>1, <2>3, AppendFacts
  <2>5. 1..(n + 1) = (1..n) \cup {n + 1}
    BY <2>1
  <2> HIDE DEF a, b
  <2>6. \A i \in 1..Len(a) : a[i] = b[i]
    BY <2>1, <2>2, <2>4, <2>5
  <2>7. a = b
    BY <2>2, <2>4, <2>6, EqualSequences
  <2> QED BY <2>7 DEF a, b, q
<1> QED BY <1>1, <1>2, <1>3, <1>4

(* What is asked of the first writes of a window.                          *)
Upholds(u, S) ==
    \A e \in S \cap Edges : \A n \in Ends[e] : \A i \in DOMAIN u :
        Deleting(u, n) /\ u[i].key = e => u[i].val = 0

(* An edge that has lost a node to the window, and is not in it.           *)
LosesNode(u, k) == k \in Edges /\ ~Pending(u, k) /\ \E n \in Ends[k] : Deleting(u, n)

Landed(q, u, st, S) ==
    \A k \in S : /\ k \notin q.bad
                 /\ q.rows[k] = IF LosesNode(u, k) THEN 0 ELSE Due(u, st.rows, k)
                 /\ k \in q.doomed => LosesNode(u, k) /\ st.rows[k] # 0

Opens(u, st, kn, S) == Distinct(u) /\ NodesFirst(u, kn, S) /\ Upholds(u, S)

LEMMA OpensAppend ==
    ASSUME NEW u \in Seq(Write), NEW w \in Write, NEW st, NEW kn, NEW S,
           Opens(Append(u, w), st, kn, S)
    PROVE  /\ Opens(u, st, kn, S)
           /\ w.key \in S \cap Edges =>
                 \A n \in Ends[w.key] : /\ Deleting(u, n) => w.val = 0
                                        /\ w.key \notin kn => n \in kn \/ Pending(u, n)
           /\ w.val = 0 =>
                 \A e \in S \cap Edges : w.key \in Ends[e] /\ Pending(u, e) =>
                    Due(u, st.rows, e) = 0
<1> DEFINE n == Len(u)
           v == Append(u, w)
<1>0. /\ n \in Nat /\ DOMAIN u = 1..n /\ DOMAIN v = 1..(n + 1)
      /\ v[n + 1] = w /\ (\A i \in 1..n : v[i] = u[i])
      /\ 1..(n + 1) = (1..n) \cup {n + 1} /\ n + 1 \notin 1..n
      /\ \A j \in 1..(n + 1) : j < n + 1 => j \in 1..n
  BY AppendFacts
<1>1. /\ Distinct(u) /\ ~Pending(u, w.key)
      /\ \A k : Deleting(v, k) <=> Deleting(u, k) \/ (k = w.key /\ w.val = 0)
  BY DueOfAppend DEF Opens
<1>2. Opens(v, st, kn, S)
  OBVIOUS
<1> HIDE DEF v, n
<1>3. Upholds(u, S)
  BY <1>0, <1>1, <1>2 DEF Opens, Upholds
<1>4. NodesFirst(u, kn, S)
  <2> SUFFICES ASSUME NEW e \in S \cap Edges, NEW i \in 1..n, u[i].key = e, e \notin kn,
                      NEW m \in Ends[e], m \notin kn
               PROVE  \E j \in 1..n : j < i /\ u[j].key = m
    BY <1>0 DEF NodesFirst
  <2>1. i \in 1..(n + 1) /\ v[i].key = e
    BY <1>0
  <2>2. PICK j \in 1..(n + 1) : j < i /\ v[j].key = m
    BY <1>0, <1>2, <2>1 DEF Opens, NodesFirst
  <2>3. j \in 1..n
    BY <1>0, <2>2
  <2> QED BY <1>0, <2>2, <2>3
<1>5. ASSUME w.key \in S \cap Edges, NEW m \in Ends[w.key]
      PROVE  /\ Deleting(u, m) => w.val = 0
             /\ w.key \notin kn => m \in kn \/ Pending(u, m)
  <2>1. n + 1 \in DOMAIN v /\ v[n + 1] = w
    BY <1>0
  <2>2. Deleting(u, m) => w.val = 0
    BY <1>1, <1>2, <1>5, <2>1 DEF Opens, Upholds
  <2>3. ASSUME w.key \notin kn, m \notin kn PROVE Pending(u, m)
    <3>1. PICK j \in DOMAIN v : j < n + 1 /\ v[j].key = m
      BY <1>2, <1>5, <2>1, <2>3 DEF Opens, NodesFirst
    <3>2. j \in 1..n
      BY <1>0, <3>1
    <3> QED BY <1>0, <3>1, <3>2 DEF Pending
  <2> QED BY <2>2, <2>3
<1>6. ASSUME w.val = 0, NEW e \in S \cap Edges, w.key \in Ends[e], Pending(u, e)
      PROVE  Due(u, st.rows, e) = 0
  <2>1. PICK i \in DOMAIN u : u[i].key = e
    BY <1>6 DEF Pending
  <2>2. i \in DOMAIN v /\ v[i] = u[i]
    BY <1>0, <2>1
  <2>3. Deleting(v, w.key)
    BY <1>1, <1>6
  <2>4. u[i].val = 0
    BY <1>2, <1>6, <2>1, <2>2, <2>3 DEF Opens, Upholds
  <2> QED BY <1>1, <2>1, <2>4, DueAt
<1> QED BY <1>1, <1>3, <1>4, <1>5, <1>6 DEF Opens

LEMMA WritesLand ==
    ASSUME NEW st \in State, NEW kn, NEW S, WithNodes(S), Good(st, kn, S), NEW p \in Seq(Write)
    PROVE  Opens(p, st, kn, S) => Landed(After(st, Resolved(p, kn)), p, st, S)
<1> DEFINE A == {u \in Seq(Write) :
                    Opens(u, st, kn, S) => Landed(After(st, Resolved(u, kn)), u, st, S)}
<1>0. st.rows \in Rows /\ S \subseteq Keys /\ \A k \in S : st.rows[k] \in Payload
  BY DEF State, Rows, WithNodes
<1>1. <<>> \in A
  <2>1. After(st, Resolved(<<>>, kn)) = st
    BY ResolvedSteps, AfterSteps
  <2>2. \A k : ~Pending(<<>>, k) /\ ~Deleting(<<>>, k) /\ Due(<<>>, st.rows, k) = st.rows[k]
    BY DEF Pending, Deleting, Due
  <2>3. Landed(st, <<>>, st, S)
    BY <2>2 DEF Landed, LosesNode, Good
  <2> QED BY <2>1, <2>3
<1>2. ASSUME NEW u \in A, NEW w \in Write, Opens(Append(u, w), st, kn, S)
      PROVE  Landed(After(st, Resolved(Append(u, w), kn)), Append(u, w), st, S)
  <2> DEFINE x == ResolvedAs(w, kn)
             q == After(st, Resolved(u, kn))
             v == Append(u, w)
  <2>1. /\ u \in Seq(Write) /\ x \in Stmt /\ Resolved(u, kn) \in Seq(Stmt)
        /\ Resolved(v, kn) = Append(Resolved(u, kn), x)
    BY ResolvedSteps
  <2>2. q \in State /\ After(st, Resolved(v, kn)) = Follows(q, x)
    BY <2>1, AfterSteps
  <2>3. /\ Opens(u, st, kn, S)
        /\ w.key \in S \cap Edges =>
              \A n \in Ends[w.key] : /\ Deleting(u, n) => w.val = 0
                                     /\ w.key \notin kn => n \in kn \/ Pending(u, n)
        /\ w.val = 0 =>
              \A e \in S \cap Edges : w.key \in Ends[e] /\ Pending(u, e) =>
                 Due(u, st.rows, e) = 0
    BY <1>2, <2>1, OpensAppend
  <2>4. Landed(q, u, st, S)
    BY <2>3
  <2>5. /\ ~Pending(u, w.key)
        /\ \A k : /\ Pending(v, k) <=> Pending(u, k) \/ k = w.key
                  /\ Deleting(v, k) <=> Deleting(u, k) \/ (k = w.key /\ w.val = 0)
                  /\ Due(v, st.rows, k) = IF k = w.key THEN w.val ELSE Due(u, st.rows, k)
    BY <1>2, <2>1, DueOfAppend DEF Opens
  <2>6. /\ x.key = w.key /\ x.val = w.val /\ x.key \in Keys
        /\ x.stmt = "delete" <=> w.val = 0
        /\ x.stmt = "set" <=> w.val # 0 /\ w.key \in kn
        /\ x.stmt = "create" <=> w.val # 0 /\ w.key \notin kn
        /\ q.rows \in Rows
    BY <2>1, <2>2, StmtFields DEF ResolvedAs, State
  <2> HIDE DEF x, q, v
  <2> SUFFICES Landed(Follows(q, x), v, st, S)
    BY <2>2 DEF v
  <2> SUFFICES ASSUME NEW k \in S
               PROVE  /\ k \notin Follows(q, x).bad
                      /\ Follows(q, x).rows[k] =
                            IF LosesNode(v, k) THEN 0 ELSE Due(v, st.rows, k)
                      /\ k \in Follows(q, x).doomed => LosesNode(v, k) /\ st.rows[k] # 0
    BY DEF Landed
  <2>7. /\ k \in Keys /\ k \notin q.bad
        /\ q.rows[k] = IF LosesNode(u, k) THEN 0 ELSE Due(u, st.rows, k)
        /\ k \in q.doomed => LosesNode(u, k) /\ st.rows[k] # 0
    BY <1>0, <2>4 DEF Landed
  <2>8. CASE w.val = 0
    <3>1. k \notin Follows(q, x).bad
      BY <2>6, <2>7, <2>8 DEF Follows
    <3>2. Follows(q, x).rows[k] =
             IF k = w.key \/ (w.key \in Nodes /\ k \in EdgesOf(w.key)) THEN 0 ELSE q.rows[k]
      BY <2>1, <2>6, <2>7, <2>8, DoneAt DEF Follows
    <3>3. LosesNode(v, k) <=>
             /\ k # w.key
             /\ LosesNode(u, k) \/ (k \in Edges /\ ~Pending(u, k) /\ w.key \in Ends[k])
      <4>1. \A n : Deleting(v, n) <=> Deleting(u, n) \/ n = w.key
        BY <2>5, <2>8
      <4>2. Pending(v, k) <=> Pending(u, k) \/ k = w.key
        BY <2>5
      <4>3. (\E n \in Ends[k] : Deleting(v, n))
            <=> (\E n \in Ends[k] : Deleting(u, n)) \/ w.key \in Ends[k]
        BY <4>1
      <4> QED BY <4>2, <4>3 DEF LosesNode
    <3>4. \A n \in Ends[k] : k \in Edges => n \in Nodes
      BY GraphAssumption
    <3>5. Follows(q, x).rows[k] = IF LosesNode(v, k) THEN 0 ELSE Due(v, st.rows, k)
      <4>1. CASE k = w.key
        BY <2>5, <2>8, <3>2, <3>3, <4>1
      <4>2. CASE k # w.key /\ k \in Edges /\ w.key \in Ends[k]
        <5>1. Follows(q, x).rows[k] = 0
          BY <3>2, <3>4, <4>2 DEF EdgesOf
        <5>2. Pending(u, k) => Due(u, st.rows, k) = 0
          BY <2>3, <2>8, <4>2
        <5> QED BY <2>5, <3>3, <4>2, <5>1, <5>2
      <4>3. CASE k # w.key /\ ~(k \in Edges /\ w.key \in Ends[k])
        <5>1. Follows(q, x).rows[k] = q.rows[k]
          BY <3>2, <4>3 DEF EdgesOf
        <5>2. LosesNode(v, k) <=> LosesNode(u, k)
          BY <3>3, <4>3
        <5>3. Due(v, st.rows, k) = Due(u, st.rows, k)
          BY <2>5, <4>3
        <5> QED BY <2>7, <5>1, <5>2, <5>3
      <4> QED BY <4>1, <4>2, <4>3
    <3>6. ASSUME k \in Follows(q, x).doomed PROVE LosesNode(v, k) /\ st.rows[k] # 0
      <4>1. k # w.key /\ (k \in q.doomed \/ k \in Cut(q, x))
        BY <2>6, <2>8, <3>6 DEF Follows
      <4>2. CASE k \in q.doomed
        <5>1. LosesNode(u, k) /\ st.rows[k] # 0
          BY <2>7, <4>2
        <5> QED BY <3>3, <4>1, <5>1
      <4>3. CASE k \in Cut(q, x)
        <5>1. k \in Edges /\ w.key \in Ends[k] /\ q.rows[k] # 0
          BY <2>6, <4>3 DEF Cut
        <5>2. ~LosesNode(u, k) /\ Due(u, st.rows, k) # 0
          BY <2>7, <5>1
        <5>3. ~Pending(u, k)
          BY <2>3, <2>8, <5>1, <5>2
        <5>4. st.rows[k] # 0
          BY <5>2, <5>3 DEF Due
        <5> QED BY <3>3, <4>1, <5>1, <5>3, <5>4
      <4> QED BY <4>1, <4>2, <4>3
    <3> QED BY <3>1, <3>5, <3>6
  <2>9. CASE w.val # 0
    <3>1. /\ k # w.key => Follows(q, x).rows[k] = q.rows[k]
          /\ k # w.key => k \notin Follows(q, x).bad
          /\ Follows(q, x).doomed = q.doomed
      BY <2>1, <2>6, <2>7, <2>9, DoneAt DEF Follows
    <3>2. k # w.key => (LosesNode(v, k) <=> LosesNode(u, k))
      BY <2>5, <2>9 DEF LosesNode
    <3>3. CASE k # w.key
      BY <2>5, <2>7, <3>1, <3>2, <3>3
    <3>4. CASE k = w.key
      <4>1. ~LosesNode(v, k) /\ Due(v, st.rows, k) = w.val
        BY <2>5, <3>4 DEF LosesNode
      <4>2. ~LosesNode(u, k)
        BY <2>3, <2>9, <3>4 DEF LosesNode
      <4>3. q.rows[k] = st.rows[k] /\ k \notin q.doomed
        BY <2>5, <2>7, <3>4, <4>2 DEF Due
      <4>4. q.rows[k] # 0 \/ (x.stmt = "create" /\ Linkable(q.rows, k))
        <5>1. CASE k \in kn
          BY <4>3, <5>1 DEF Good
        <5>2. CASE k \notin kn
          <6>1. x.stmt = "create"
            BY <2>6, <2>9, <3>4, <5>2
          <6>2. ASSUME k \in Edges, NEW n \in Ends[k] PROVE q.rows[n] # 0
            <7>1. n \in S /\ n \in Nodes /\ n \notin Edges
              BY <6>2, GraphAssumption DEF WithNodes
            <7>2. ~Deleting(u, n) /\ (n \in kn \/ Pending(u, n))
              BY <2>3, <2>9, <3>4, <5>2, <6>2
            <7>3. q.rows[n] = Due(u, st.rows, n)
              BY <2>4, <7>1 DEF Landed, LosesNode
            <7>4. CASE Pending(u, n)
              <8>1. PICK i \in DOMAIN u : u[i].key = n
                BY <7>4 DEF Pending
              <8>2. u[i].val # 0
                BY <7>2, <8>1 DEF Deleting
              <8>3. Due(u, st.rows, n) = u[i].val
                BY <2>3, <8>1, DueAt DEF Opens
              <8> QED BY <7>3, <8>2, <8>3
            <7>5. CASE ~Pending(u, n)
              <8>1. q.rows[n] = st.rows[n]
                BY <7>3, <7>5 DEF Due
              <8> QED BY <7>1, <7>2, <7>5, <8>1 DEF Good
            <7> QED BY <7>4, <7>5
          <6> QED BY <6>1, <6>2 DEF Linkable
        <5> QED BY <5>1, <5>2
      <4>5. Fits(q, x)
        BY <2>6, <3>4, <4>3, <4>4 DEF Fits
      <4>6. Follows(q, x).rows[k] = w.val
        BY <2>1, <2>6, <2>7, <2>9, <3>4, <4>4, DoneAt DEF Follows
      <4>7. k \notin Follows(q, x).bad
        BY <2>6, <2>7, <2>9, <4>5 DEF Follows
      <4> QED BY <3>1, <4>1, <4>3, <4>6, <4>7
    <3> QED BY <3>3, <3>4
  <2> QED BY <2>8, <2>9
<1>3. A = Seq(Write)
  <2>1. \A u \in A, w \in Write : Append(u, w) \in A
    BY <1>2
  <2> HIDE DEF A
  <2> QED BY <1>1, <2>1, InductionOnSeq DEF A
<1> QED BY <1>3

(* A window that is in order lands as it is due.                           *)
LEMMA WindowLands ==
    ASSUME NEW st \in State, NEW kn, NEW S, WithNodes(S), Good(st, kn, S), NEW p \in Seq(Write),
           Distinct(p), NodesFirst(p, kn, S), EdgesGo(p, st.rows, S)
    PROVE  /\ Good(After(st, Resolved(p, kn)), KnownAfter(p, kn), S)
           /\ \A k \in S : After(st, Resolved(p, kn)).rows[k] = Due(p, st.rows, k)
<1> DEFINE q == After(st, Resolved(p, kn))
<1>1. Opens(p, st, kn, S)
  <2>1. Upholds(p, S)
    <3> SUFFICES ASSUME NEW e \in S \cap Edges, NEW n \in Ends[e], NEW i \in DOMAIN p,
                        Deleting(p, n), p[i].key = e
                 PROVE  p[i].val = 0
      BY DEF Upholds
    <3>1. Due(p, st.rows, e) = 0
      BY DEF EdgesGo
    <3> QED BY <3>1, DueAt
  <2> QED BY <2>1 DEF Opens
<1>2. Landed(q, p, st, S)
  BY <1>1, WritesLand
<1> HIDE DEF q
<1>3. ASSUME NEW k \in S, LosesNode(p, k) PROVE Due(p, st.rows, k) = 0 /\ st.rows[k] = 0
  <2>1. Due(p, st.rows, k) = 0
    BY <1>3 DEF LosesNode, EdgesGo
  <2> QED BY <1>3, <2>1 DEF LosesNode, Due
<1>4. \A k \in S : q.rows[k] = Due(p, st.rows, k) /\ k \notin q.bad /\ k \notin q.doomed
  BY <1>2, <1>3 DEF Landed
<1>5. ASSUME NEW k \in S PROVE k \in KnownAfter(p, kn) <=> Due(p, st.rows, k) # 0
  <2>0. DOMAIN p = DOMAIN p
    OBVIOUS
  <2>1. CASE Pending(p, k)
    <3>1. PICK i \in DOMAIN p : p[i].key = k
      BY <2>1 DEF Pending
    <3>2. Due(p, st.rows, k) = p[i].val
      BY <3>1, DueAt
    <3>3. \A j \in DOMAIN p : p[j].key = k => j = i
      BY <3>1 DEF Distinct
    <3> QED BY <3>1, <3>2, <3>3 DEF KnownAfter
  <2>2. CASE ~Pending(p, k)
    <3>1. Due(p, st.rows, k) = st.rows[k] /\ (k \in kn <=> st.rows[k] # 0)
      BY <2>2 DEF Due, Good
    <3>2. k \in KnownAfter(p, kn) <=> k \in kn
      BY <2>2 DEF KnownAfter, Pending
    <3> QED BY <3>1, <3>2
  <2> QED BY <2>1, <2>2
<1> QED BY <1>4, <1>5 DEF Good, q

-----------------------------------------------------------------------------
(* What memory holds is what is due.                                       *)
Graph == [mem : Rows, pending : Seq(Write), deferred : Rows, staged : Rows]

Window(p, r, kn, S) == Distinct(p) /\ NodesFirst(p, kn, S) /\ EdgesGo(p, r, S)
Matches(h, r, S) ==
    \A k \in S :
        /\ h.deferred[k] = 0 => h.mem[k] = Due(h.pending, r, k)
        /\ h.deferred[k] # 0 => h.mem[k] = h.deferred[k] /\ Due(h.pending, r, k) # 0
        /\ h.staged[k] # 0 => h.staged[k] = Due(h.pending, r, k)
Memory(h, r, kn, S) == Window(h.pending, r, kn, S) /\ Matches(h, r, S)

(* The keys of S are known that have a row.                                *)
Knows(r, kn, S) == r \in Rows /\ WithNodes(S) /\ \A k \in S : k \in kn <=> r[k] # 0

LEMMA NotDeleting ==
    ASSUME NEW p, Distinct(p), NEW r, NEW k
    PROVE  Deleting(p, k) <=> Pending(p, k) /\ Due(p, r, k) = 0
<1>1. ASSUME Deleting(p, k) PROVE Pending(p, k) /\ Due(p, r, k) = 0
  <2>1. PICK i \in DOMAIN p : p[i].key = k /\ p[i].val = 0
    BY <1>1 DEF Deleting
  <2> QED BY <2>1, DueAt
<1>2. ASSUME Pending(p, k), Due(p, r, k) = 0 PROVE Deleting(p, k)
  <2>1. PICK i \in DOMAIN p : p[i].key = k
    BY <1>2 DEF Pending
  <2>2. p[i].val = 0
    BY <1>2, <2>1, DueAt
  <2> QED BY <2>1, <2>2 DEF Deleting
<1> QED BY <1>1, <1>2

LEMMA PutFacts ==
    ASSUME NEW p \in Seq(Write), Distinct(p), NEW k \in Keys, NEW v \in Payload
    PROVE  /\ Put(p, k, v) \in Seq(Write) /\ Distinct(Put(p, k, v))
           /\ \A j : Pending(Put(p, k, v), j) <=> Pending(p, j) \/ j = k
           /\ \A j, r : Due(Put(p, k, v), r, j) = IF j = k THEN v ELSE Due(p, r, j)
           /\ \A i \in DOMAIN p : i \in DOMAIN Put(p, k, v) /\ Put(p, k, v)[i].key = p[i].key
           /\ \A i \in DOMAIN Put(p, k, v) :
                 i \in DOMAIN p \/ (/\ Put(p, k, v)[i].key = k /\ ~Pending(p, k)
                                    /\ \A j \in DOMAIN p : j < i)
<1> DEFINE w == [key |-> k, val |-> v]
<1>0. w \in Write /\ Put(p, k, v) \in Seq(Write)
  BY PutTyped DEF Write
<1>1. CASE ~Pending(p, k)
  <2> DEFINE q == Append(p, w)
             n == Len(p)
  <2>1. Put(p, k, v) = q
    BY <1>1 DEF Put, Pending
  <2>2. /\ n \in Nat /\ DOMAIN p = 1..n /\ DOMAIN q = 1..(n + 1)
        /\ q[n + 1] = w /\ \A i \in 1..n : q[i] = p[i]
    BY <1>0, AppendFacts
  <2>3. w.key = k /\ w.val = v
    OBVIOUS
  <2> HIDE DEF q, w
  <2>4. Distinct(q)
    <3> SUFFICES ASSUME NEW i \in 1..(n + 1), NEW j \in 1..(n + 1), q[i].key = q[j].key
                 PROVE  i = j
      BY <2>2 DEF Distinct
    <3>1. CASE i = n + 1 /\ j # n + 1
      BY <1>1, <2>2, <2>3, <3>1 DEF Pending
    <3>2. CASE i # n + 1 /\ j = n + 1
      BY <1>1, <2>2, <2>3, <3>2 DEF Pending
    <3>3. CASE i # n + 1 /\ j # n + 1
      BY <2>2, <3>3 DEF Distinct
    <3> QED BY <3>1, <3>2, <3>3
  <2>5. \A j, r : /\ Pending(q, j) <=> Pending(p, j) \/ j = k
                  /\ Due(q, r, j) = IF j = k THEN v ELSE Due(p, r, j)
    <3> SUFFICES ASSUME NEW j, NEW r
                 PROVE  /\ Pending(q, j) <=> Pending(p, j) \/ j = k
                        /\ Due(q, r, j) = IF j = k THEN v ELSE Due(p, r, j)
      OBVIOUS
    <3>1. Distinct(Append(p, w))
      BY <2>4 DEF q
    <3>2. /\ Pending(Append(p, w), j) <=> Pending(p, j) \/ j = w.key
          /\ Due(Append(p, w), r, j) = IF j = w.key THEN w.val ELSE Due(p, r, j)
      BY <1>0, <3>1, DueOfAppend
    <3> QED BY <2>3, <3>2 DEF q
  <2>6. \A i \in 1..(n + 1) : i \in 1..n \/ (i = n + 1 /\ \A j \in 1..n : j < i)
    BY <2>2
  <2> QED BY <1>0, <1>1, <2>1, <2>2, <2>3, <2>4, <2>5, <2>6
<1>2. CASE Pending(p, k)
  <2> DEFINE q == [i \in DOMAIN p |-> IF p[i].key = k THEN w ELSE p[i]]
  <2>1. Put(p, k, v) = q
    BY <1>2 DEF Put, Pending
  <2>2. DOMAIN q = DOMAIN p /\ \A i \in DOMAIN p : q[i] = IF p[i].key = k THEN w ELSE p[i]
    OBVIOUS
  <2>3. w.key = k /\ w.val = v
    OBVIOUS
  <2> HIDE DEF q, w
  <2>4. \A i \in DOMAIN p : q[i].key = p[i].key
    BY <2>2, <2>3
  <2>5. Distinct(q)
    BY <2>2, <2>4 DEF Distinct
  <2>6. \A j : Pending(q, j) <=> Pending(p, j)
    BY <2>2, <2>4 DEF Pending
  <2>7. ASSUME NEW j, NEW r PROVE Due(q, r, j) = IF j = k THEN v ELSE Due(p, r, j)
    <3>1. CASE Pending(p, j)
      <4>1. PICK i \in DOMAIN p : p[i].key = j
        BY <3>1 DEF Pending
      <4>2. Due(p, r, j) = p[i].val /\ Due(q, r, j) = q[i].val
        BY <2>2, <2>4, <2>5, <4>1, DueAt
      <4> QED BY <2>2, <2>3, <4>1, <4>2
    <3>2. CASE ~Pending(p, j)
      BY <1>2, <2>6, <3>2 DEF Due
    <3> QED BY <3>1, <3>2
  <2> QED BY <1>0, <1>2, <2>1, <2>2, <2>4, <2>5, <2>6, <2>7
<1> QED BY <1>1, <1>2

(* A write is put that finds what it needs.                                *)
MayPut(p, r, kn, S, k, v) ==
    /\ k \in S \cap Edges /\ ~Pending(p, k) /\ k \notin kn =>
          \A n \in Ends[k] : n \in kn \/ Pending(p, n)
    /\ k \in S \cap Edges /\ v # 0 => \A n \in Ends[k] : ~Deleting(p, n)
    /\ v = 0 => \A e \in S \cap Edges : k \in Ends[e] => Due(p, r, e) = 0

LEMMA PutKeeps ==
    ASSUME NEW p \in Seq(Write), NEW k \in Keys, NEW v \in Payload, NEW r, NEW kn, NEW S,
           Window(p, r, kn, S), MayPut(p, r, kn, S, k, v)
    PROVE  Window(Put(p, k, v), r, kn, S)
<1> DEFINE q == Put(p, k, v)
<1>0. Distinct(p)
  BY DEF Window
<1>1. /\ Distinct(q)
      /\ \A j : Pending(q, j) <=> Pending(p, j) \/ j = k
      /\ \A j : Due(q, r, j) = IF j = k THEN v ELSE Due(p, r, j)
      /\ \A i \in DOMAIN p : i \in DOMAIN q /\ q[i].key = p[i].key
      /\ \A i \in DOMAIN q :
            i \in DOMAIN p \/ (q[i].key = k /\ ~Pending(p, k) /\ \A j \in DOMAIN p : j < i)
  BY <1>0, PutFacts
<1> HIDE DEF q
<1>2. NodesFirst(q, kn, S)
  <2> SUFFICES ASSUME NEW e \in S \cap Edges, NEW i \in DOMAIN q, q[i].key = e, e \notin kn,
                      NEW n \in Ends[e], n \notin kn
               PROVE  \E j \in DOMAIN q : j < i /\ q[j].key = n
    BY DEF NodesFirst
  <2>1. CASE i \in DOMAIN p
    <3>1. PICK j \in DOMAIN p : j < i /\ p[j].key = n
      BY <1>1, <2>1 DEF Window, NodesFirst
    <3> QED BY <1>1, <3>1
  <2>2. CASE i \notin DOMAIN p
    <3>1. e = k /\ ~Pending(p, k) /\ \A j \in DOMAIN p : j < i
      BY <1>1, <2>2
    <3>2. Pending(p, n)
      BY <3>1 DEF MayPut
    <3>3. PICK j \in DOMAIN p : p[j].key = n
      BY <3>2 DEF Pending
    <3> QED BY <1>1, <3>1, <3>3
  <2> QED BY <2>1, <2>2
<1>3. EdgesGo(q, r, S)
  <2> SUFFICES ASSUME NEW e \in S \cap Edges, NEW n \in Ends[e], Deleting(q, n)
               PROVE  Due(q, r, e) = 0
    BY DEF EdgesGo
  <2>1. n # e
    BY GraphAssumption
  <2>2. Pending(q, n) /\ Due(q, r, n) = 0
    BY <1>1, NotDeleting
  <2>3. CASE n = k
    <3>1. v = 0
      BY <1>1, <2>2, <2>3
    <3>2. Due(p, r, e) = 0
      BY <2>3, <3>1 DEF MayPut
    <3> QED BY <1>1, <2>1, <2>3, <3>2
  <2>4. CASE n # k
    <3>1. Deleting(p, n)
      BY <1>0, <1>1, <2>2, <2>4, NotDeleting
    <3>2. Due(p, r, e) = 0
      BY <3>1 DEF Window, EdgesGo
    <3>3. e = k => v = 0
      BY <3>1 DEF MayPut
    <3> QED BY <1>1, <3>2, <3>3
  <2> QED BY <2>3, <2>4
<1> QED BY <1>1, <1>2, <1>3 DEF Window, q

LEMMA MemoryNodes ==
    ASSUME NEW h \in Graph, NEW r, NEW kn, NEW S, Knows(r, kn, S), Memory(h, r, kn, S),
           NEW k \in S, h.mem[k] # 0
    PROVE  /\ Due(h.pending, r, k) # 0
           /\ ~Deleting(h.pending, k)
           /\ k \in kn \/ Pending(h.pending, k)
<1>1. Due(h.pending, r, k) # 0
  BY DEF Memory, Matches
<1>2. ~Deleting(h.pending, k)
  BY <1>1, NotDeleting DEF Memory, Window
<1>3. ~Pending(h.pending, k) => k \in kn
  BY <1>1 DEF Due, Knows
<1> QED BY <1>1, <1>2, <1>3

LEMMA StagedKeeps ==
    ASSUME NEW h \in Graph, NEW r, NEW kn, NEW S, Knows(r, kn, S), Memory(h, r, kn, S),
           NEW k \in Keys, NEW v \in Values, NEW age \in Ages,
           k \in Edges => \A n \in Ends[k] : h.mem[n] # 0
    PROVE  Upserted(h, k, v, age) \in Graph /\ Memory(Upserted(h, k, v, age), r, kn, S)
<1> DEFINE p == h.pending
           h1 == [h EXCEPT !.mem[k] = v]
           u == Staged(h1, k, v, age)
<1>0. /\ h.mem \in Rows /\ h.deferred \in Rows /\ h.staged \in Rows /\ p \in Seq(Write)
      /\ v \in Payload /\ v # 0 /\ S \subseteq Keys /\ 0 \in Payload
  BY GraphAssumption DEF Graph, Payload, Knows, WithNodes
<1>1. /\ h1 \in Graph /\ h1.pending = p /\ h1.deferred = h.deferred /\ h1.staged = h.staged
      /\ h1.mem = [h.mem EXCEPT ![k] = v]
  BY <1>0 DEF Graph, Rows
<1>00. /\ [h.deferred EXCEPT ![k] = 0] \in Rows /\ [h.staged EXCEPT ![k] = v] \in Rows
       /\ h1.mem \in Rows
  BY <1>0, <1>1 DEF Rows, Graph
<1>2. Window(p, r, kn, S) /\ Matches(h, r, S)
  BY DEF Memory
<1> HIDE DEF p, h1
<1> SUFFICES u \in Graph /\ Memory(u, r, kn, S)
  BY DEF Upserted, u, h1
<1>3. CASE Skips(h1, k, v, age)
  <2>1. u = [h1 EXCEPT !.deferred[k] = 0] /\ h.staged[k] = v
    BY <1>1, <1>3 DEF Staged, Skips
  <2>2. /\ u \in Graph /\ u.pending = p /\ u.staged = h.staged
        /\ u.mem = [h.mem EXCEPT ![k] = v] /\ u.deferred = [h.deferred EXCEPT ![k] = 0]
    BY <1>0, <1>00, <1>1, <2>1 DEF Graph
  <2>3. Matches(u, r, S)
    BY <1>0, <1>2, <2>1, <2>2 DEF Matches, Rows, p
  <2> QED BY <1>2, <2>2, <2>3 DEF Memory
<1>4. CASE ~Skips(h1, k, v, age) /\ Parks(h1, k, v, age)
  <2>1. u = [h1 EXCEPT !.deferred[k] = v] /\ h.staged[k] # 0
    BY <1>1, <1>4 DEF Staged, Parks
  <2>2. /\ u \in Graph /\ u.pending = p /\ u.staged = h.staged
        /\ u.mem = [h.mem EXCEPT ![k] = v] /\ u.deferred = [h.deferred EXCEPT ![k] = v]
    BY <1>0, <1>1, <2>1 DEF Graph, Rows
  <2>3. Matches(u, r, S)
    BY <1>0, <1>2, <2>1, <2>2 DEF Matches, Rows, p
  <2> QED BY <1>2, <2>2, <2>3 DEF Memory
<1>5. CASE ~Skips(h1, k, v, age) /\ ~Parks(h1, k, v, age)
  <2>1. u = [h1 EXCEPT !.staged[k] = v, !.deferred[k] = 0, !.pending = Put(p, k, v)]
    BY <1>1, <1>5 DEF Staged
  <2>2. /\ Put(p, k, v) \in Seq(Write)
        /\ \A j : Due(Put(p, k, v), r, j) = IF j = k THEN v ELSE Due(p, r, j)
    BY <1>0, <1>2, PutFacts DEF Window
  <2>3. /\ u \in Graph /\ u.pending = Put(p, k, v) /\ u.staged = [h.staged EXCEPT ![k] = v]
        /\ u.mem = [h.mem EXCEPT ![k] = v] /\ u.deferred = [h.deferred EXCEPT ![k] = 0]
    <3> DEFINE q == Put(p, k, v)
               d == [h.deferred EXCEPT ![k] = 0]
               t == [h.staged EXCEPT ![k] = v]
    <3>1. h1 = [mem |-> h1.mem, pending |-> p, deferred |-> h.deferred, staged |-> h.staged]
      BY <1>1 DEF Graph
    <3>2. u = [h1 EXCEPT !.staged = t, !.deferred = d, !.pending = q]
      BY <1>1, <2>1
    <3>3. q \in Seq(Write) /\ d \in Rows /\ t \in Rows
      BY <1>00, <2>2
    <3> HIDE DEF q, d, t, u
    <3>4. u = [mem |-> h1.mem, pending |-> q, deferred |-> d, staged |-> t]
      BY <3>1, <3>2
    <3>5. u \in Graph
      BY <1>00, <3>3, <3>4 DEF Graph
    <3> QED BY <1>1, <3>4, <3>5 DEF q, d, t
  <2>4. ASSUME k \in S \cap Edges, NEW n \in Ends[k]
        PROVE  ~Deleting(p, n) /\ (n \in kn \/ Pending(p, n))
    <3>1. n \in S /\ h.mem[n] # 0
      BY <2>4 DEF Knows, WithNodes
    <3> QED BY <3>1, MemoryNodes DEF p
  <2>5. MayPut(p, r, kn, S, k, v)
    BY <1>0, <2>4 DEF MayPut
  <2>6. Window(Put(p, k, v), r, kn, S)
    BY <1>0, <1>2, <2>5, PutKeeps
  <2>7. Matches(u, r, S)
    BY <1>0, <1>2, <2>2, <2>3 DEF Matches, Rows, p
  <2> QED BY <2>3, <2>6, <2>7 DEF Memory
<1> QED BY <1>3, <1>4, <1>5

LEMMA PrunedKeeps ==
    ASSUME NEW h \in Graph, NEW r, NEW kn, NEW S, Knows(r, kn, S), Memory(h, r, kn, S),
           NEW k \in Prunable(h)
    PROVE  Pruned(h, k) \in Graph /\ Memory(Pruned(h, k), r, kn, S)
<1> DEFINE p == h.pending
           u == Pruned(h, k)
<1>0. /\ h.mem \in Rows /\ h.deferred \in Rows /\ h.staged \in Rows /\ p \in Seq(Write)
      /\ S \subseteq Keys /\ 0 \in Payload
      /\ k \in Keys /\ h.mem[k] # 0 /\ (k \in Nodes => \A e \in EdgesOf(k) : h.mem[e] = 0)
      /\ Window(p, r, kn, S) /\ Matches(h, r, S)
  BY DEF Graph, Payload, Knows, WithNodes, Prunable, Memory
<1>1. /\ Put(p, k, 0) \in Seq(Write)
      /\ \A j : Due(Put(p, k, 0), r, j) = IF j = k THEN 0 ELSE Due(p, r, j)
  BY <1>0, PutFacts DEF Window
<1> HIDE DEF p
<1>2. /\ u.pending = Put(p, k, 0) /\ u.staged = [h.staged EXCEPT ![k] = 0]
      /\ u.mem = [h.mem EXCEPT ![k] = 0] /\ u.deferred = [h.deferred EXCEPT ![k] = 0]
  BY DEF Pruned, p
<1>3. u \in Graph
  BY <1>0, <1>1 DEF Pruned, Graph, Rows, p
<1>4. MayPut(p, r, kn, S, k, 0)
  <2>1. ASSUME k \in S, ~Pending(p, k) PROVE k \in kn
    BY <1>0, <2>1, MemoryNodes DEF p
  <2>2. ASSUME NEW e \in S \cap Edges, k \in Ends[e] PROVE Due(p, r, e) = 0
    <3>1. k \in Nodes /\ e \in EdgesOf(k)
      BY <2>2, GraphAssumption DEF EdgesOf
    <3>2. h.mem[e] = 0
      BY <1>0, <3>1
    <3> QED BY <1>0, <3>2 DEF Matches, p
  <2> QED BY <2>1, <2>2 DEF MayPut
<1>5. Window(Put(p, k, 0), r, kn, S)
  BY <1>0, <1>4, PutKeeps
<1> HIDE DEF u
<1>6. Matches(u, r, S)
  BY <1>0, <1>1, <1>2 DEF Matches, Rows, p
<1> QED BY <1>2, <1>3, <1>5, <1>6 DEF Memory, u

LEMMA SubSequences ==
    ASSUME NEW X, NEW C, C \subseteq X
    PROVE  Seq(C) \subseteq Seq(X)
<1> SUFFICES ASSUME NEW s \in Seq(C) PROVE s \in Seq(X)
  OBVIOUS
<1>1. Len(s) \in Nat /\ s \in [1..Len(s) -> C]
  OBVIOUS
<1>2. s \in [1..Len(s) -> X]
  BY <1>1
<1> QED BY <1>1, <1>2

(* The keys of s are put with what is parked of them.                      *)
LEMMA PutsKeep ==
    ASSUME NEW h \in Graph, NEW r, NEW kn, NEW S, Knows(r, kn, S), Memory(h, r, kn, S),
           NEW C \in SUBSET Keys,
           \A k \in C : h.deferred[k] # 0 /\ ~Deleting(h.pending, k),
           NEW s \in Seq(C)
    PROVE  LET q == Puts(h.pending, h.deferred, s)
           IN  /\ q \in Seq(Write) /\ Window(q, r, kn, S)
               /\ \A j : Due(q, r, j) = IF j \in ToSet(s) THEN h.deferred[j]
                                        ELSE Due(h.pending, r, j)
<1> DEFINE p == h.pending
           m == h.deferred
           Q(u) == Puts(p, m, u)
           A == {u \in Seq(C) : /\ Q(u) \in Seq(Write) /\ Window(Q(u), r, kn, S)
                                /\ \A j : Pending(Q(u), j) <=> Pending(p, j) \/ j \in ToSet(u)
                                /\ \A j : Due(Q(u), r, j) = IF j \in ToSet(u) THEN m[j]
                                                            ELSE Due(p, r, j)}
<1>0. /\ p \in Seq(Write) /\ m \in Rows /\ Window(p, r, kn, S) /\ Matches(h, r, S)
      /\ Seq(C) \subseteq Seq(Keys) /\ S \subseteq Keys
      /\ \A k \in C : k \in Keys /\ m[k] \in Payload /\ m[k] # 0 /\ ~Deleting(p, k)
  BY SubSequences DEF Graph, Memory, Rows, Knows, WithNodes
<1>1. <<>> \in A
  <2>1. Q(<<>>) = p /\ ToSet(<<>>) = {} /\ <<>> \in Seq(C)
    BY <1>0, PutsSteps DEF ToSet
  <2> HIDE DEF Q
  <2> QED BY <1>0, <2>1
<1>2. ASSUME NEW u \in A, NEW k \in C PROVE Append(u, k) \in A
  <2> DEFINE q == Q(u)
             w == Append(u, k)
  <2>1. /\ u \in Seq(C) /\ w \in Seq(C) /\ u \in Seq(Keys) /\ k \in Keys
        /\ q \in Seq(Write) /\ Window(q, r, kn, S)
        /\ \A j : Pending(q, j) <=> Pending(p, j) \/ j \in ToSet(u)
        /\ \A j : Due(q, r, j) = IF j \in ToSet(u) THEN m[j] ELSE Due(p, r, j)
    BY <1>0
  <2>2. Q(w) = Put(q, k, m[k])
    <3> HIDE DEF p, m
    <3>1. Puts(p, m, Append(u, k)) = Put(Puts(p, m, u), k, m[k])
      BY <1>0, <2>1, PutsSteps
    <3> QED BY <3>1
  <2>3. ToSet(w) = ToSet(u) \cup {k}
    <3>1. /\ Len(u) \in Nat /\ DOMAIN u = 1..Len(u) /\ DOMAIN w = 1..(Len(u) + 1)
          /\ w[Len(u) + 1] = k /\ \A i \in 1..Len(u) : w[i] = u[i]
      BY <2>1, AppendFacts
    <3>2. 1..(Len(u) + 1) = 1..Len(u) \cup {Len(u) + 1}
      BY <3>1
    <3> HIDE DEF w
    <3> QED BY <3>1, <3>2 DEF ToSet
  <2> HIDE DEF q, w, Q
  <2>4. MayPut(q, r, kn, S, k, m[k])
    <3>1. ASSUME k \in S PROVE Due(p, r, k) # 0
      BY <1>0, <3>1 DEF Matches, p, m
    <3>2. ASSUME k \in S \cap Edges, ~Pending(q, k), k \notin kn PROVE FALSE
      <4>1. Due(p, r, k) = r[k]
        BY <2>1, <3>2 DEF Due
      <4> QED BY <3>1, <3>2, <4>1 DEF Knows
    <3>3. ASSUME k \in S \cap Edges, NEW n \in Ends[k], Deleting(q, n) PROVE FALSE
      <4>1. Pending(q, n) /\ Due(q, r, n) = 0
        BY <2>1, <3>3, NotDeleting DEF Window
      <4>2. n \notin C => ~(n \in ToSet(u))
        BY <2>1 DEF ToSet
      <4>3. n \notin ToSet(u)
        BY <1>0, <2>1, <4>1, <4>2
      <4>4. Deleting(p, n)
        BY <1>0, <2>1, <4>1, <4>3, NotDeleting DEF Window
      <4>5. Due(p, r, k) = 0
        BY <1>0, <3>3, <4>4 DEF Window, EdgesGo
      <4> QED BY <3>1, <3>3, <4>5
    <3> QED BY <1>0, <3>2, <3>3 DEF MayPut
  <2>5. Window(Put(q, k, m[k]), r, kn, S)
    BY <1>0, <2>1, <2>4, PutKeeps
  <2>6. /\ Put(q, k, m[k]) \in Seq(Write)
        /\ \A j : Pending(Put(q, k, m[k]), j) <=> Pending(q, j) \/ j = k
        /\ \A j : Due(Put(q, k, m[k]), r, j) = IF j = k THEN m[k] ELSE Due(q, r, j)
    BY <1>0, <2>1, PutFacts DEF Window
  <2>7. /\ \A j : Pending(Q(w), j) <=> Pending(p, j) \/ j \in ToSet(w)
        /\ \A j : Due(Q(w), r, j) = IF j \in ToSet(w) THEN m[j] ELSE Due(p, r, j)
    BY <2>1, <2>2, <2>3, <2>6
  <2>8. w \in A
    BY <2>1, <2>2, <2>5, <2>6, <2>7
  <2> QED BY <2>8 DEF w
<1>3. A = Seq(C)
  <2> HIDE DEF A
  <2> QED BY <1>1, <1>2, InductionOnSeq DEF A
<1> QED BY <1>3

LEMMA PromotedKeeps ==
    ASSUME NEW h \in Graph, NEW r, NEW kn, NEW S, Knows(r, kn, S), Memory(h, r, kn, S)
    PROVE  /\ Promoted(h) \in Graph /\ Memory(Promoted(h), r, kn, S)
           /\ Promoted(h).deferred = NoRows /\ Promoted(h).mem = h.mem
<1> DEFINE D == {h.pending[i].key : i \in {j \in DOMAIN h.pending : h.pending[j].val = 0}}
           C == {k \in Keys : h.deferred[k] # 0} \ D
           s == SetToSeq(C)
           q == Puts(h.pending, h.deferred, s)
           t == [k \in Keys |-> IF k \in ToSet(s) THEN h.deferred[k] ELSE h.staged[k]]
           u == Promoted(h)
<1>0. /\ h.mem \in Rows /\ h.deferred \in Rows /\ h.staged \in Rows /\ h.pending \in Seq(Write)
      /\ Matches(h, r, S) /\ Distinct(h.pending) /\ S \subseteq Keys
  BY DEF Graph, Memory, Window, Knows, WithNodes
<1>1. u = [h EXCEPT !.pending = q, !.deferred = NoRows, !.staged = t]
  BY DEF Promoted, Puts
<1>2. \A k : k \in D <=> Deleting(h.pending, k)
  BY DEF Deleting
<1> HIDE DEF D
<1>3. C \in SUBSET Keys /\ \A k \in C : h.deferred[k] # 0 /\ ~Deleting(h.pending, k)
  BY <1>2
<1>4. IsFiniteSet(C)
  <2>1. IsFiniteSet(Keys)
    BY GraphAssumption, FS_Union DEF Keys
  <2> QED BY <1>3, <2>1, FS_Subset
<1>5. \A k \in S : h.deferred[k] # 0 => k \in C
  <2> SUFFICES ASSUME NEW k \in S, h.deferred[k] # 0 PROVE k \in C
    OBVIOUS
  <2>1. Due(h.pending, r, k) # 0
    BY <1>0 DEF Matches
  <2>2. ~Deleting(h.pending, k)
    BY <1>0, <2>1, NotDeleting
  <2> QED BY <1>0, <1>2, <2>2
<1>6. \A k \in C : h.deferred[k] # 0
  OBVIOUS
<1> HIDE DEF C
<1>7. s \in Seq(C) /\ ToSet(s) = C
  <2>1. s \in Seq(C) /\ \A x \in C : \E i \in 1..Len(s) : s[i] = x
    BY <1>4, SequenceOfSet
  <2> HIDE DEF s
  <2> QED BY <2>1 DEF ToSet
<1>8. /\ q \in Seq(Write) /\ Window(q, r, kn, S)
      /\ \A j : Due(q, r, j) = IF j \in C THEN h.deferred[j] ELSE Due(h.pending, r, j)
  BY <1>3, <1>7, PutsKeep
<1>9. t \in Rows /\ NoRows \in Rows
  BY <1>0 DEF Rows, NoRows, Payload
<1> HIDE DEF q, s, u
<1>10. /\ u \in Graph /\ u.pending = q /\ u.deferred = NoRows /\ u.mem = h.mem /\ u.staged = t
  <2>1. h = [mem |-> h.mem, pending |-> h.pending, deferred |-> h.deferred, staged |-> h.staged]
    BY DEF Graph
  <2> HIDE DEF t
  <2>2. u = [mem |-> h.mem, pending |-> q, deferred |-> NoRows, staged |-> t]
    BY <1>1, <2>1
  <2> QED BY <1>0, <1>8, <1>9, <2>2 DEF Graph
<1>11. Matches(u, r, S)
  <2> SUFFICES ASSUME NEW k \in S
               PROVE  /\ u.deferred[k] = 0 /\ u.mem[k] = Due(q, r, k)
                      /\ u.staged[k] # 0 => u.staged[k] = Due(q, r, k)
    BY <1>10 DEF Matches
  <2>1. k \in Keys /\ u.deferred[k] = 0 /\ u.mem[k] = h.mem[k]
        /\ u.staged[k] = IF k \in C THEN h.deferred[k] ELSE h.staged[k]
    BY <1>0, <1>7, <1>10 DEF NoRows
  <2> QED BY <1>0, <1>5, <1>6, <1>8, <2>1 DEF Matches
<1> QED BY <1>8, <1>10, <1>11 DEF Memory, u

(* The window has at most one write of each key.                           *)
LEMMA DistinctFits ==
    ASSUME NEW p \in Seq(Write), Distinct(p)
    PROVE  Len(p) <= Cardinality(Keys)
<1> DEFINE n == Len(p)
           f == [i \in 1..n |-> p[i].key]
<1>0. n \in Nat /\ DOMAIN p = 1..n /\ \A i \in 1..n : p[i].key \in Keys
  <2>1. \A w \in Write : w.key \in Keys
    BY DEF Write
  <2>2. n \in Nat /\ DOMAIN p = 1..n /\ \A i \in 1..n : p[i] \in Write
    OBVIOUS
  <2> QED BY <2>1, <2>2
<1>1. IsFiniteSet(Keys)
  BY GraphAssumption, FS_Union DEF Keys
<1>2. IsFiniteSet(1..n) /\ Cardinality(1..n) = n
  BY <1>0, FS_Interval
<1>3. f \in Injection(1..n, Keys)
  BY <1>0 DEF Injection, IsInjective, Distinct
<1> QED BY <1>1, <1>2, <1>3, FS_Injection

(* The window is flushed: what was due is there.                           *)
LEMMA FlushedMatches ==
    ASSUME NEW h \in Graph, NEW st \in State, NEW kn, NEW S, WithNodes(S), Good(st, kn, S),
           Memory(h, st.rows, kn, S)
    PROVE  LET q == After(st, Resolved(h.pending, kn))
               c == KnownAfter(h.pending, kn)
           IN  /\ Good(q, c, S)
               /\ [h EXCEPT !.pending = <<>>] \in Graph
               /\ Memory([h EXCEPT !.pending = <<>>], q.rows, c, S)
<1> DEFINE q == After(st, Resolved(h.pending, kn))
           c == KnownAfter(h.pending, kn)
           u == [h EXCEPT !.pending = <<>>]
<1>0. /\ h.pending \in Seq(Write) /\ Window(h.pending, st.rows, kn, S) /\ Matches(h, st.rows, S)
      /\ S \subseteq Keys
  BY DEF Graph, Memory, WithNodes
<1>1. Good(q, c, S) /\ \A k \in S : q.rows[k] = Due(h.pending, st.rows, k)
  BY <1>0, WindowLands DEF Window
<1>2. /\ u \in Graph /\ u.pending = <<>> /\ u.mem = h.mem /\ u.deferred = h.deferred
      /\ u.staged = h.staged
  <2>1. h = [mem |-> h.mem, pending |-> h.pending, deferred |-> h.deferred, staged |-> h.staged]
    BY DEF Graph
  <2>2. u = [mem |-> h.mem, pending |-> <<>>, deferred |-> h.deferred, staged |-> h.staged]
    BY <2>1
  <2>3. <<>> \in Seq(Write) /\ h.mem \in Rows /\ h.deferred \in Rows /\ h.staged \in Rows
    BY DEF Graph
  <2> HIDE DEF u
  <2> QED BY <2>2, <2>3 DEF Graph
<1>3. \A k : ~Pending(<<>>, k) /\ ~Deleting(<<>>, k) /\ Due(<<>>, q.rows, k) = q.rows[k]
  BY DEF Pending, Deleting, Due
<1> HIDE DEF q, c, u
<1>4. Window(<<>>, q.rows, c, S)
  BY <1>3 DEF Window, Distinct, NodesFirst, EdgesGo
<1>5. Matches(u, q.rows, S)
  BY <1>0, <1>1, <1>2, <1>3 DEF Matches
<1> QED BY <1>1, <1>2, <1>4, <1>5 DEF Memory, q, c, u

(* With nothing parked, what was due is what memory holds.                 *)
LEMMA FlushedIsMemory ==
    ASSUME NEW h \in Graph, NEW st \in State, NEW kn, NEW S, WithNodes(S), Good(st, kn, S),
           Memory(h, st.rows, kn, S), h.deferred = NoRows
    PROVE  \A k \in S : After(st, Resolved(h.pending, kn)).rows[k] = h.mem[k]
<1>0. /\ h.pending \in Seq(Write) /\ Window(h.pending, st.rows, kn, S) /\ Matches(h, st.rows, S)
      /\ S \subseteq Keys
  BY DEF Graph, Memory, WithNodes
<1> DEFINE q == After(st, Resolved(h.pending, kn))
<1>1. \A k \in S : q.rows[k] = Due(h.pending, st.rows, k)
  BY <1>0, WindowLands DEF Window
<1> HIDE DEF q
<1>2. \A k \in S : q.rows[k] = h.mem[k]
  BY <1>0, <1>1 DEF Matches, NoRows
<1> QED BY <1>2 DEF q

(* Other rows, equal at fewer keys.                                        *)
LEMMA MemoryMoves ==
    ASSUME NEW h, NEW r, NEW kn, NEW S, Memory(h, r, kn, S), NEW t, NEW M, M \subseteq S,
           \A k \in M : t[k] = r[k]
    PROVE  Memory(h, t, kn, M)
<1>1. \A k \in M : Due(h.pending, t, k) = Due(h.pending, r, k)
  BY DEF Due
<1>2. Window(h.pending, t, kn, M)
  BY <1>1 DEF Memory, Window, NodesFirst, EdgesGo
<1>3. Matches(h, t, M)
  BY <1>1 DEF Memory, Matches
<1> QED BY <1>2, <1>3 DEF Memory

-----------------------------------------------------------------------------
(* What all this says of the rows.                                         *)

LEMMA BetterExecuted ==
    ASSUME NEW d \in Rows, NEW s \in Seq(Stmt), NEW t \in Seq(Stmt), NEW T,
           Better(T, {}, After(Start(d), t), After(Start(d), s)),
           NEW k \in Keys, Near(k) \cap (T \cup After(Start(d), s).bad) = {}
    PROVE  Executed(d, t)[k] = Executed(d, s)[k]
<1>1. Start(d) \in State /\ Start(d).rows = d
  BY DEF Start, State
<1>2. After(Start(d), t).rows[k] = After(Start(d), s).rows[k]
  <2>1. k \in Near(k)
    BY NearKeys
  <2> QED BY <2>1 DEF Better, Alike
<1>3. /\ After(Start(d), t).rows = Executed(d, t)
      /\ After(Start(d), s).rows = Executed(d, s)
  BY <1>1, AfterRows
<1> QED BY <1>2, <1>3

(* _merge_batches: executing a merged batch leaves the same row of every   *)
(* key as executing what was merged, unless an upsert of the key, or of an *)
(* end of the edge, does not find what it needs there.                     *)
THEOREM MergingIsSafe ==
    ASSUME NEW d \in Rows, NEW s \in Seq(Stmt), NEW k \in Keys,
           Near(k) \cap After(Start(d), s).bad = {}
    PROVE  Executed(d, Merged(s))[k] = Executed(d, s)[k]
<1>1. Start(d) \in State /\ Merged(s) \in Seq(Stmt)
  BY MergedSteps DEF Start, State
<1>2. Better({}, {}, After(Start(d), Merged(s)), After(Start(d), s))
  BY <1>1, BetterMerged
<1>3. Near(k) \cap ({} \cup After(Start(d), s).bad) = {}
  OBVIOUS
<1> QED BY <1>1, <1>2, <1>3, BetterExecuted

(* _maybe_shed, of a merged batch: but for the keys of which every         *)
(* statement was shed, and the edges at them.                              *)
THEOREM SheddingIsSafe ==
    ASSUME NEW d \in Rows, NEW s \in Seq(Stmt), NEW k \in Keys,
           Near(k) \cap (Shed(Merged(s)) \cup After(Start(d), s).bad) = {}
    PROVE  Executed(d, Kept(Merged(s)))[k] = Executed(d, s)[k]
<1> DEFINE m == Merged(s)
           T == Shed(m)
<1>1. Start(d) \in State /\ m \in Seq(Stmt) /\ Kept(m) \in Seq(Stmt) /\ Spaced(m)
  BY MergedSteps, KeptSteps, MergedIsSpaced DEF Start, State
<1>2. Better({}, {}, After(Start(d), m), After(Start(d), s))
  BY <1>1, BetterMerged
<1> HIDE DEF m
<1>3. Better(T, {}, After(Start(d), Kept(m)), After(Start(d), m))
  BY <1>1, BetterKept
<1>4. Near(k) \cap (T \cup After(Start(d), s).bad) = {}
  BY DEF m
<1> HIDE DEF T
<1>5. Better(T \cup {}, {}, After(Start(d), Kept(m)), After(Start(d), s))
  BY <1>2, <1>3, BetterChains
<1>6. T \cup {} = T
  OBVIOUS
<1>7. Executed(d, Kept(m))[k] = Executed(d, s)[k]
  BY <1>1, <1>4, <1>5, <1>6, BetterExecuted
<1> QED BY <1>7 DEF m

(* _replay_op: replaying a batch one statement at a time, looking for the  *)
(* rows, leaves what its transaction would have left.                      *)
THEOREM ReplayingIsSafe ==
    ASSUME NEW d \in Rows, NEW s \in Seq(Stmt), NEW k \in Keys,
           Near(k) \cap After(Start(d), s).bad = {}
    PROVE  Replayed(d, s)[k] = Executed(d, s)[k]
<1>1. Start(d) \in State /\ AllLooking(s) \in Seq(Stmt)
  BY LookingTyped DEF Start, State
<1>2. Better({}, {}, After(Start(d), AllLooking(s)), After(Start(d), s))
  BY <1>1, BetterReplayed
<1>3. Near(k) \cap ({} \cup After(Start(d), s).bad) = {}
  OBVIOUS
<1>4. Executed(d, AllLooking(s))[k] = Executed(d, s)[k]
  BY <1>1, <1>2, <1>3, BetterExecuted
<1>5. Replayed(d, s) = Executed(d, AllLooking(s))
  BY DEF Replayed, AllLooking, Looking
<1> QED BY <1>4, <1>5
=============================================================================
