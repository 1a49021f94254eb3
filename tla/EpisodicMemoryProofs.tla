------------------------ MODULE EpisodicMemoryProofs ------------------------
(***************************************************************************)
(* What EpisodicMemory keeps for any number of episodes, any caps, any     *)
(* interval of pruning and any size of the queue and the buffers, whatever *)
(* the backend: that recall is honest, that retention spares the newest,   *)
(* and that the store implements EpisodeLog.                               *)
(*                                                                         *)
(* EpInv is inductive: the types, where each episode is, and, as long as   *)
(* row ids follow the order of append, how the rows are numbered.          *)
(***************************************************************************)
EXTENDS EpisodicMemory, FiniteSetTheorems, WellFoundedInduction, TLAPS

(* Episodes are written in the order of append: the batch, then the queue. *)
Lined(q) == \A i, j \in 1..Len(q) : i < j => q[i] < q[j]
Ranked(S, ids, next) ==
    /\ \A n \in S : ids[n] < next
    /\ \A m, n \in S : m < n => ids[m] < ids[n]

(* Only one backend is in use.                                             *)
OneBackend ==
    /\ backend \in {"sqlite", "lancedb"}
    /\ backend = "sqlite" => pending = {} /\ mirror = {} /\ recall = "unloaded"
    /\ backend = "lancedb" => queue = <<>> /\ batch = <<>> /\ joining = "no" /\ cache = {}

(* What is known was appended, and is known to this life.                  *)
Lived ==
    /\ life \subseteq 1..appended
    /\ cache \subseteq life /\ mirror \subseteq life
    /\ rows \subseteq life /\ Waiting \subseteq life
    /\ \A S \in backup : S \subseteq 1..appended

(* An episode waits in one place, and is not yet stored.                   *)
Apart ==
    /\ Lined(queue) /\ Lined(batch)
    /\ \A b \in Items(batch), w \in Items(queue) : b < w
    /\ Waiting \cap rows = {}
    /\ \A S \in backup : Waiting \cap S = {}

(* The next row gets this id at the least: AUTOINCREMENT counts from 1.    *)
Unused == IF backend = "sqlite" THEN nextId + 1 ELSE nextId

(* As long as row ids follow the order of append.                          *)
InOrder ==
    ~disordered =>
        /\ Ranked(rows \cup pending, idOf, Unused)
        /\ \A n \in rows : \A w \in Items(queue) \cup Items(batch) : n < w
        /\ \A S \in backup : /\ \A m, n \in S : m < n => idOf[m] < idOf[n]
                             /\ backend = "sqlite" => \A n \in S : idOf[n] < Unused

Recalled ==
    /\ recall = "loaded" =>
          /\ rows \cup pending \subseteq mirror
          /\ faults = 0 => mirror = rows \cup pending
    /\ backend = "sqlite" /\ appended \in life /\ ~disordered
          => appended \in cache

Due == sinceWrites < PruneInterval + faults

EpInv == EpTypeOK /\ Due /\ OneBackend /\ Lived /\ Apart /\ InOrder /\ Recalled

-----------------------------------------------------------------------------
(* Selections and prunings.                                                *)

LEMMA EpisodesFinite ==
    ASSUME NEW S, S \subseteq Episodes
    PROVE  IsFiniteSet(S) /\ Cardinality(S) \in Nat
<1>1. IsFiniteSet(Episodes)
  BY RowsAssumption, FS_Interval DEF Episodes
<1>2. IsFiniteSet(S)
  BY <1>1, FS_Subset
<1> QED
  BY <1>2, FS_CardinalityType

LEMMA SubsetSmaller ==
    ASSUME NEW S, S \subseteq Episodes, NEW T, T \subseteq S
    PROVE  /\ Cardinality(T) \in Nat /\ Cardinality(S) \in Nat
           /\ Cardinality(T) <= Cardinality(S)
           /\ Cardinality(T) = Cardinality(S) => T = S
<1>1. IsFiniteSet(S) /\ Cardinality(S) \in Nat
  BY EpisodesFinite
<1>2. T \subseteq Episodes
  OBVIOUS
<1> QED
  BY <1>1, <1>2, EpisodesFinite, FS_Subset

(* Of a set in a strict order, those with fewer than c before them are c   *)
(* at the least, if the set has as many: before[x] are those before x.     *)
LEMMA EnoughSelected ==
    ASSUME NEW S, S \subseteq Episodes, NEW before \in [S -> SUBSET S],
           \A x \in S : x \notin before[x],
           \A x \in S : \A y \in before[x] : before[y] \subseteq before[x],
           NEW c \in Nat, Cardinality(S) >= c
    PROVE  Cardinality({x \in S : Cardinality(before[x]) < c}) >= c
<1> DEFINE K == {x \in S : Cardinality(before[x]) < c}
           T == {before[x] : x \in S \ K}
<1>1. K \subseteq S /\ Cardinality(K) \in Nat
  BY EpisodesFinite
<1> SUFFICES ASSUME Cardinality(K) < c
             PROVE  FALSE
  BY <1>1
<1>2. K # S
  <2>1. Cardinality(S) \in Nat
    BY EpisodesFinite
  <2> QED
    BY <1>1, <2>1
<1>3. T # {} /\ T \subseteq FiniteSubsetsOf(S)
  <2>1. T # {}
    BY <1>1, <1>2
  <2>2. \A x \in S : before[x] \subseteq S /\ IsFiniteSet(before[x])
    BY EpisodesFinite
  <2> QED
    BY <2>1, <2>2 DEF FiniteSubsetsOf
<1> HIDE DEF T
<1>4. PICK A \in T : \A B \in T : <<B, A>> \notin StrictSubsetOrdering(S)
  BY <1>3, FS_StrictSubsetOrderingWellFounded, WFMin
<1>5. PICK x \in S \ K : A = before[x]
  BY <1>4 DEF T
<1>6. A \subseteq K
  <2> SUFFICES ASSUME NEW y \in A, y \notin K
               PROVE  FALSE
    OBVIOUS
  <2>1. y \in S /\ before[y] \in T
    BY <1>5 DEF T
  <2>2. before[y] \subseteq A /\ before[y] # A
    BY <1>5, <2>1
  <2> QED
    BY <1>4, <1>5, <2>1, <2>2 DEF StrictSubsetOrdering
<1>7. Cardinality(A) <= Cardinality(K) /\ Cardinality(A) \in Nat
  BY <1>1, <1>6, SubsetSmaller
<1> QED
  BY <1>1, <1>5, <1>7

(* What a pruning deletes has none of the recent ids, with its own id it   *)
(* goes from every row, and it leaves the newest.                          *)
LEMMA VictimsSpareTheNewest ==
    ASSUME NEW S, S \subseteq Episodes, NEW ids \in [Episodes -> Nat]
    PROVE  /\ Victims(S, ids) \subseteq S
           /\ \A n \in S, m \in Victims(S, ids) :
                 ids[n] = ids[m] => n \in Victims(S, ids)
           /\ Victims(S, ids) # {} => Cardinality(S \ Victims(S, ids)) >= RecentCap
           /\ (\A m, n \in S : m < n => ids[m] < ids[n]) =>
                 \A n \in Victims(S, ids) :
                     Cardinality({m \in S \ Victims(S, ids) : m > n}) >= RecentCap
<1> DEFINE V == Victims(S, ids)
           newer == [x \in S |-> {y \in S : ids[y] > ids[x]}]
           K == {x \in S : Cardinality(newer[x]) < RecentCap}
<1>1. V \subseteq S /\ \A n \in S, m \in V : ids[n] = ids[m] => n \in V
  BY DEF Victims
<1>2. CASE V = {}
  BY <1>1, <1>2
<1>3. CASE V # {}
  <2>1. Cardinality(S) \in Nat /\ Cardinality(S) > RecentCap + SalientCap
    <3>1. ~(Cardinality(S) <= RecentCap + SalientCap)
      BY <1>3 DEF Victims
    <3>2. Cardinality(S) \in Nat
      BY EpisodesFinite
    <3> QED
      BY <3>1, <3>2, RowsAssumption
  <2>2. \A n \in V : ids[n] \notin RecentIds(S, ids)
    BY DEF Victims
  <2>3. K = {x \in S : Cardinality({y \in S : ids[y] > ids[x]}) < RecentCap}
    OBVIOUS
  <2>4. K \cap V = {}
    BY <2>2, <2>3 DEF RecentIds
  <2>5. Cardinality(K) >= RecentCap
    <3>1. newer \in [S -> SUBSET S]
      OBVIOUS
    <3>2. \A x \in S : x \notin newer[x]
      OBVIOUS
    <3>3. \A x \in S : \A y \in newer[x] : newer[y] \subseteq newer[x]
      OBVIOUS
    <3>4. Cardinality(S) >= RecentCap
      BY <2>1, RowsAssumption
    <3> HIDE DEF newer
    <3> QED
      BY <3>1, <3>2, <3>3, <3>4, RowsAssumption, EnoughSelected
  <2>6. \A T : K \subseteq T /\ T \subseteq S => Cardinality(T) >= RecentCap
    <3> HIDE DEF K
    <3> SUFFICES ASSUME NEW T, K \subseteq T, T \subseteq S
                 PROVE  Cardinality(T) >= RecentCap
      OBVIOUS
    <3>1. /\ Cardinality(K) \in Nat /\ Cardinality(T) \in Nat
          /\ Cardinality(K) <= Cardinality(T)
      BY SubsetSmaller
    <3> QED
      BY <2>5, <3>1, RowsAssumption
  <2>7. Cardinality(S \ V) >= RecentCap
    BY <1>1, <2>4, <2>6
  <2>8. ASSUME \A m, n \in S : m < n => ids[m] < ids[n], NEW n \in V
        PROVE  Cardinality({m \in S \ V : m > n}) >= RecentCap
    <3>1. \A x \in K : x > n
      <4> SUFFICES ASSUME NEW x \in K, ~(x > n)
                   PROVE  FALSE
        OBVIOUS
      <4>1. x \in S /\ n \in S /\ n \notin K /\ x \in Nat /\ n \in Nat
        <5>1. K \subseteq S
          OBVIOUS
        <5>2. x \in S /\ n \in S
          BY <1>1, <5>1
        <5>3. x \in Nat /\ n \in Nat
          BY <5>2 DEF Episodes
        <5>4. n \notin K
          <6> HIDE DEF K
          <6> QED
            BY <2>4
        <5> QED
          BY <5>2, <5>3, <5>4
      <4>2. x < n /\ ids[x] < ids[n]
        BY <2>8, <4>1
      <4>3. newer[n] \subseteq newer[x]
        <5>1. ids[x] \in Nat /\ ids[n] \in Nat
          BY <4>1
        <5>2. \A y \in S : ids[y] \in Nat
          OBVIOUS
        <5>3. /\ newer[n] = {y \in S : ids[y] > ids[n]}
              /\ newer[x] = {y \in S : ids[y] > ids[x]}
          BY <4>1
        <5> HIDE DEF newer, K
        <5> QED
          BY <4>2, <5>1, <5>2, <5>3, SMTT(30)
      <4>4. Cardinality(newer[n]) <= Cardinality(newer[x])
        BY <4>1, <4>3, SubsetSmaller
      <4>5. Cardinality(newer[n]) \in Nat /\ Cardinality(newer[x]) \in Nat
        BY <4>1, EpisodesFinite
      <4> QED
        BY <4>1, <4>4, <4>5, RowsAssumption
    <3>2. K \subseteq {m \in S \ V : m > n}
      BY <3>1, <2>4
    <3> QED
      BY <3>2, <2>6
  <2> QED
    BY <1>1, <2>7, <2>8
<1> QED
  BY <1>2, <1>3

-----------------------------------------------------------------------------
(* Sequences of episodes.                                                  *)

LEMMA ItemsOfSequence ==
    ASSUME NEW q \in Seq(Episodes)
    PROVE  /\ Len(q) \in Nat /\ DOMAIN q = 1..Len(q)
           /\ \A i \in 1..Len(q) : q[i] \in Episodes /\ q[i] \in Nat
           /\ Items(q) = {q[i] : i \in 1..Len(q)} /\ Items(q) \subseteq Episodes
<1>1. Len(q) \in Nat /\ DOMAIN q = 1..Len(q)
  OBVIOUS
<1>2. \A i \in 1..Len(q) : q[i] \in Episodes
  OBVIOUS
<1>3. \A n \in Episodes : n \in Nat
  BY DEF Episodes
<1>4. Items(q) = {q[i] : i \in 1..Len(q)}
  BY <1>1 DEF Items
<1> QED
  BY <1>1, <1>2, <1>3, <1>4

LEMMA EmptyQueue == Items(<<>>) = {} /\ Lined(<<>>)
  BY DEF Items, Lined

LEMMA QueueOfOne ==
    ASSUME NEW n \in Episodes
    PROVE  /\ <<n>> \in Seq(Episodes) /\ Len(<<n>>) = 1
           /\ Items(<<n>>) = {n} /\ Lined(<<n>>)
<1>1. /\ <<n>> \in Seq(Episodes) /\ Len(<<n>>) = 1
      /\ DOMAIN <<n>> = 1..1 /\ <<n>>[1] = n
  OBVIOUS
<1>2. 1..1 = {1}
  OBVIOUS
<1> QED
  BY <1>1, <1>2 DEF Items, Lined

LEMMA QueueWithOneMore ==
    ASSUME NEW q \in Seq(Episodes), Lined(q), NEW n \in Episodes,
           \A m \in Items(q) : m < n
    PROVE  /\ Append(q, n) \in Seq(Episodes) /\ Len(Append(q, n)) = Len(q) + 1
           /\ Items(Append(q, n)) = Items(q) \cup {n} /\ Lined(Append(q, n))
<1> DEFINE p == Append(q, n)
<1>1. /\ p \in Seq(Episodes) /\ Len(p) = Len(q) + 1 /\ Len(q) \in Nat
      /\ \A i \in 1..Len(q) : p[i] = q[i]
      /\ p[Len(q) + 1] = n
  OBVIOUS
<1>2. 1..Len(p) = 1..Len(q) \cup {Len(p)}
  BY <1>1
<1> HIDE DEF p
<1>3. Items(p) = Items(q) \cup {n}
  BY <1>1, <1>2, ItemsOfSequence
<1>4. Lined(p)
  <2> SUFFICES ASSUME NEW i \in 1..Len(p), NEW j \in 1..Len(p), i < j
               PROVE  p[i] < p[j]
    BY DEF Lined
  <2>1. i \in 1..Len(q) /\ p[i] = q[i] /\ q[i] \in Items(q)
    BY <1>1, ItemsOfSequence
  <2>2. CASE j \in 1..Len(q)
    BY <1>1, <2>1, <2>2 DEF Lined
  <2>3. CASE j = Len(p)
    BY <1>1, <2>1, <2>3
  <2> QED
    BY <1>2, <2>2, <2>3
<1> QED
  BY <1>1, <1>3, <1>4 DEF p

LEMMA QueueWithoutItsHead ==
    ASSUME NEW q \in Seq(Episodes), Lined(q), q # <<>>
    PROVE  /\ Head(q) \in Episodes /\ Tail(q) \in Seq(Episodes)
           /\ Len(Tail(q)) = Len(q) - 1 /\ Len(q) > 0
           /\ Items(q) = {Head(q)} \cup Items(Tail(q)) /\ Lined(Tail(q))
           /\ \A m \in Items(Tail(q)) : Head(q) < m
<1> DEFINE p == Tail(q)
<1>1. /\ Len(q) \in Nat /\ Len(q) > 0 /\ Head(q) = q[1]
      /\ p \in Seq(Episodes) /\ Len(p) = Len(q) - 1
      /\ \A i \in 1..Len(p) : p[i] = q[i + 1] /\ i + 1 \in 1..Len(q)
  OBVIOUS
<1>2. \A j \in 1..Len(q) : j = 1 \/ (j - 1 \in 1..Len(p) /\ q[j] = p[j - 1])
  BY <1>1
<1>3. q[1] \in Episodes
  BY <1>1, ItemsOfSequence
<1> HIDE DEF p
<1>4. Items(q) = {q[1]} \cup Items(p)
  <2>1. /\ Items(q) = {q[i] : i \in 1..Len(q)}
        /\ Items(p) = {p[i] : i \in 1..Len(p)}
    BY <1>1, ItemsOfSequence
  <2>2. 1 \in 1..Len(q)
    BY <1>1
  <2> QED
    BY <1>1, <1>2, <2>1, <2>2
<1>5. \A m \in Items(p) : q[1] < m
  BY <1>1, ItemsOfSequence DEF Lined
<1>6. Lined(p)
  BY <1>1 DEF Lined
<1> QED
  BY <1>1, <1>3, <1>4, <1>5, <1>6 DEF p

-----------------------------------------------------------------------------
(* Row ids.                                                                *)

(* The first k of s get the next k ids.                                    *)
Numbered(s, k) ==
    [n \in Episodes |-> IF \E i \in 1..k : s[i] = n
                        THEN nextId + (CHOOSE i \in 1..k : s[i] = n)
                        ELSE idOf[n]]
FirstItems(s, k) == {s[i] : i \in 1..k}

LEMMA NumberedIds ==
    ASSUME idOf \in [Episodes -> Nat], nextId \in Nat,
           NEW s \in Seq(Episodes), Lined(s), NEW k \in 0..Len(s)
    PROVE  /\ Numbered(s, k) \in [Episodes -> Nat]
           /\ FirstItems(s, k) \subseteq Items(s)
           /\ \A i \in 1..k : Numbered(s, k)[s[i]] = nextId + i
           /\ \A n \in Episodes \ FirstItems(s, k) : Numbered(s, k)[n] = idOf[n]
<1>1. /\ Len(s) \in Nat /\ 1..k \subseteq 1..Len(s)
      /\ \A i \in 1..Len(s) : s[i] \in Episodes /\ s[i] \in Nat
  BY ItemsOfSequence
<1>2. \A i \in 1..k : (CHOOSE j \in 1..k : s[j] = s[i]) = i
  <2> SUFFICES ASSUME NEW i \in 1..k
               PROVE  (CHOOSE j \in 1..k : s[j] = s[i]) = i
    OBVIOUS
  <2>1. \A j \in 1..k : s[j] = s[i] => j = i
    BY <1>1 DEF Lined
  <2> QED
    BY <2>1
<1>3. \A n \in Episodes : (\E i \in 1..k : s[i] = n) =>
          (CHOOSE i \in 1..k : s[i] = n) \in Nat
  OBVIOUS
<1>4. Numbered(s, k) \in [Episodes -> Nat]
  <2> SUFFICES ASSUME NEW n \in Episodes
               PROVE  (IF \E i \in 1..k : s[i] = n
                       THEN nextId + (CHOOSE i \in 1..k : s[i] = n)
                       ELSE idOf[n]) \in Nat
    BY DEF Numbered
  <2>1. CASE \E i \in 1..k : s[i] = n
    BY <1>3, <2>1
  <2>2. CASE ~\E i \in 1..k : s[i] = n
    BY <2>2
  <2> QED
    BY <2>1, <2>2
<1>5. \A i \in 1..k : Numbered(s, k)[s[i]] = nextId + i
  <2> SUFFICES ASSUME NEW i \in 1..k
               PROVE  Numbered(s, k)[s[i]] = nextId + i
    OBVIOUS
  <2>1. s[i] \in Episodes /\ \E j \in 1..k : s[j] = s[i]
    BY <1>1
  <2>2. Numbered(s, k)[s[i]] = nextId + (CHOOSE j \in 1..k : s[j] = s[i])
    BY <2>1 DEF Numbered
  <2> QED
    BY <1>2, <2>2
<1>6. \A n \in Episodes \ FirstItems(s, k) : Numbered(s, k)[n] = idOf[n]
  BY DEF Numbered, FirstItems
<1>7. FirstItems(s, k) \subseteq Items(s)
  BY <1>1, ItemsOfSequence DEF FirstItems
<1> QED
  BY <1>4, <1>5, <1>6, <1>7

LEMMA RankedSubset ==
    ASSUME NEW S, S \subseteq Episodes, NEW T, T \subseteq S,
           NEW ids \in [Episodes -> Nat], NEW m \in Nat, NEW n \in Nat, m <= n,
           Ranked(S, ids, m)
    PROVE  Ranked(T, ids, n)
  BY DEF Ranked

(* Rows added in the order of append, behind those there are, keep it.     *)
LEMMA NumberedKeepsRank ==
    ASSUME idOf \in [Episodes -> Nat], nextId \in Nat,
           NEW s \in Seq(Episodes), Lined(s), NEW k \in 0..Len(s),
           NEW S, S \subseteq Episodes, Ranked(S, idOf, nextId + 1),
           \A n \in S, m \in Items(s) : n < m
    PROVE  Ranked(S \cup FirstItems(s, k), Numbered(s, k), nextId + k + 1)
<1> DEFINE ids == Numbered(s, k)
<1>1. /\ \A i \in 1..k : ids[s[i]] = nextId + i
      /\ \A n \in Episodes \ FirstItems(s, k) : ids[n] = idOf[n]
      /\ FirstItems(s, k) \subseteq Items(s)
  BY NumberedIds
<1>2. \A n \in S : n \in Nat /\ n \in Episodes \ FirstItems(s, k)
  BY <1>1, ItemsOfSequence DEF Episodes
<1>3. \A n \in S : ids[n] \in Nat /\ ids[n] < nextId + 1
  BY <1>1, <1>2 DEF Ranked
<1>4. \A n \in FirstItems(s, k) : \E i \in 1..k : n = s[i] /\ ids[n] = nextId + i
  BY <1>1 DEF FirstItems
<1>5. \A i \in 1..k : s[i] \in Items(s) /\ i \in 1..Len(s) /\ s[i] \in Nat
  BY ItemsOfSequence
<1> HIDE DEF ids
<1>6. \A n \in S \cup FirstItems(s, k) : ids[n] < nextId + k + 1
  BY <1>3, <1>4
<1>7. ASSUME NEW m \in S \cup FirstItems(s, k), NEW n \in S \cup FirstItems(s, k),
             m < n
      PROVE  ids[m] < ids[n]
  <2>1. CASE m \in S /\ n \in S
    BY <1>1, <1>2, <1>7, <2>1 DEF Ranked
  <2>2. CASE m \in S /\ n \in FirstItems(s, k)
    BY <1>3, <1>4, <2>2
  <2>3. CASE m \in FirstItems(s, k) /\ n \in S
    <3>1. n < m /\ n \in Nat /\ m \in Nat
      BY <1>1, <1>2, <1>4, <1>5, <2>3
    <3> QED
      BY <1>7, <3>1
  <2>4. CASE m \in FirstItems(s, k) /\ n \in FirstItems(s, k)
    <3>1. PICK i \in 1..k : m = s[i] /\ ids[m] = nextId + i
      BY <1>4, <2>4
    <3>2. PICK j \in 1..k : n = s[j] /\ ids[n] = nextId + j
      BY <1>4, <2>4
    <3>3. i < j
      <4>1. CASE j < i
        BY <1>5, <1>7, <3>1, <3>2, <4>1 DEF Lined
      <4>2. CASE j = i
        BY <1>5, <1>7, <3>1, <3>2, <4>2
      <4> QED
        BY <4>1, <4>2
    <3> QED
      BY <3>1, <3>2, <3>3
  <2> QED
    BY <2>1, <2>2, <2>3, <2>4
<1> QED
  BY <1>6, <1>7 DEF Ranked, ids

-----------------------------------------------------------------------------
(* What a write does, be it the worker's or one made by append.            *)

LEMMA InsertsEffect ==
    ASSUME NEW s \in Seq(Episodes), Inserts(s), sinceWrites \in Nat
    PROVE  /\ idOf' = Numbered(s, Len(s)) /\ nextId' = nextId + Len(s)
           /\ \/ rows' = rows \cup Items(s)
              \/ rows' = (rows \cup Items(s)) \ Victims(rows \cup Items(s), idOf')
           /\ sinceWrites' \in Nat /\ sinceWrites' < PruneInterval
<1> DEFINE due == sinceWrites + Len(s) >= PruneInterval
<1>1. Len(s) \in Nat /\ DOMAIN s = 1..Len(s)
  BY ItemsOfSequence
<1>2. idOf' = Numbered(s, Len(s)) /\ nextId' = nextId + Len(s)
  BY <1>1 DEF Inserts, Numbered
<1>3. rows' = IF due THEN (rows \cup Items(s)) \ Victims(rows \cup Items(s), idOf')
              ELSE rows \cup Items(s)
  BY DEF Inserts
<1>4. sinceWrites' = IF due THEN 0 ELSE sinceWrites + Len(s)
  BY DEF Inserts
<1>5. sinceWrites' \in Nat /\ sinceWrites' < PruneInterval
  BY <1>1, <1>4, RowsAssumption
<1>6. \/ rows' = rows \cup Items(s)
      \/ rows' = (rows \cup Items(s)) \ Victims(rows \cup Items(s), idOf')
  BY <1>3
<1> QED
  BY <1>2, <1>5, <1>6

LEMMA InsertRaisesEffect ==
    ASSUME NEW s \in Seq(Episodes), InsertRaises(s)
    PROVE  \E k \in 0..Len(s) :
              /\ idOf' = Numbered(s, k) /\ nextId' = nextId + k
              /\ rows' = rows \cup FirstItems(s, k)
              /\ sinceWrites' = sinceWrites
<1>1. PICK k \in 0..(Len(s) - 1) :
          /\ idOf' = Numbered(s, k) /\ nextId' = nextId + k
          /\ rows' = rows \cup FirstItems(s, k)
  BY DEF InsertRaises, Numbered, FirstItems
<1>2. Len(s) \in Nat
  BY ItemsOfSequence
<1>3. k \in 0..Len(s)
  BY <1>2
<1> QED
  BY <1>1, <1>3 DEF InsertRaises

(* The writes since the last pruning are fewer than the interval and the   *)
(* faults there were.                                                      *)
LEMMA WritesBounded ==
    ASSUME NEW s \in Nat, NEW f \in 0..MaxFaults, NEW g \in Nat, g <= f,
           s < PruneInterval + g
    PROVE  s < PruneInterval + f /\ s \in 0..(PruneInterval + MaxFaults)
  BY RowsAssumption

(* Whether or not it raises.                                               *)
LEMMA PersistsKeepsTypes ==
    ASSUME EpTypeOK, Due, NEW s \in Seq(Episodes), Lined(s), Persists(s)
    PROVE  /\ rows' \subseteq rows \cup Items(s) /\ rows' \subseteq Episodes
           /\ idOf' \in [Episodes -> Nat] /\ nextId' \in Nat /\ nextId <= nextId'
           /\ sinceWrites' \in 0..(PruneInterval + MaxFaults) /\ Due'
           /\ faults' \in 0..MaxFaults /\ faults <= faults'
           /\ \A n \in Episodes \ Items(s) : idOf'[n] = idOf[n]
<1> USE RowsAssumption
<1>1. /\ rows \subseteq Episodes /\ idOf \in [Episodes -> Nat] /\ nextId \in Nat
      /\ sinceWrites \in Nat /\ sinceWrites < PruneInterval + faults
      /\ faults \in 0..MaxFaults
  BY DEF EpTypeOK, Due
<1>2. Items(s) \subseteq Episodes /\ Len(s) \in Nat /\ Len(s) \in 0..Len(s)
  BY ItemsOfSequence
<1>3. faults' \in 0..MaxFaults /\ faults <= faults'
  BY <1>1 DEF Persists, Raises
<1>4. CASE Inserts(s)
  <2>1. /\ idOf' = Numbered(s, Len(s)) /\ nextId' = nextId + Len(s)
        /\ rows' \subseteq rows \cup Items(s)
        /\ sinceWrites' \in Nat /\ sinceWrites' < PruneInterval
    BY <1>1, <1>4, InsertsEffect
  <2>2. /\ idOf' \in [Episodes -> Nat]
        /\ \A n \in Episodes \ Items(s) : idOf'[n] = idOf[n]
    BY <1>1, <1>2, <2>1, NumberedIds
  <2>3. Due' /\ sinceWrites' \in 0..(PruneInterval + MaxFaults)
    <3>1. sinceWrites' < PruneInterval + 0 /\ 0 \in Nat
      BY <2>1
    <3>2. 0 <= faults'
      BY <1>3
    <3> QED
      BY <1>3, <2>1, <3>1, <3>2, WritesBounded, Zenon DEF Due
  <2> QED
    BY <1>1, <1>2, <1>3, <2>1, <2>2, <2>3
<1>5. CASE InsertRaises(s)
  <2>1. PICK k \in 0..Len(s) :
            /\ idOf' = Numbered(s, k) /\ nextId' = nextId + k
            /\ rows' = rows \cup FirstItems(s, k)
            /\ sinceWrites' = sinceWrites
    BY <1>5, InsertRaisesEffect
  <2>2. /\ idOf' \in [Episodes -> Nat] /\ FirstItems(s, k) \subseteq Items(s)
        /\ \A n \in Episodes \ Items(s) : idOf'[n] = idOf[n]
    BY <1>1, <1>2, <2>1, NumberedIds
  <2>3. Due' /\ sinceWrites' \in 0..(PruneInterval + MaxFaults)
    <3>1. /\ sinceWrites' < PruneInterval + faults /\ sinceWrites' \in Nat
          /\ faults \in Nat
      BY <1>1, <2>1
    <3> QED
      BY <1>3, <3>1, WritesBounded, Zenon DEF Due
  <2> QED
    BY <1>1, <1>2, <1>3, <2>1, <2>2, <2>3
<1> QED
  BY <1>4, <1>5 DEF Persists, Raises

(* The rows behind which it writes stay in order, with those written.      *)
LEMMA PersistsKeepsRank ==
    ASSUME EpTypeOK, NEW s \in Seq(Episodes), Lined(s), Persists(s),
           Ranked(rows, idOf, nextId + 1), \A n \in rows, m \in Items(s) : n < m
    PROVE  Ranked(rows', idOf', nextId' + 1)
<1> USE RowsAssumption
<1>1. /\ rows \subseteq Episodes /\ idOf \in [Episodes -> Nat] /\ nextId \in Nat
      /\ sinceWrites \in Nat
  BY DEF EpTypeOK
<1>2. Items(s) \subseteq Episodes /\ Len(s) \in Nat /\ Len(s) \in 0..Len(s)
  BY ItemsOfSequence
<1>3. CASE Inserts(s)
  <2>1. /\ idOf' = Numbered(s, Len(s)) /\ nextId' = nextId + Len(s)
        /\ rows' \subseteq rows \cup Items(s)
    BY <1>1, <1>3, InsertsEffect
  <2>2. Ranked(rows \cup FirstItems(s, Len(s)), Numbered(s, Len(s)), nextId + Len(s) + 1)
    BY <1>1, <1>2, NumberedKeepsRank
  <2>3. FirstItems(s, Len(s)) = Items(s)
    BY ItemsOfSequence DEF FirstItems
  <2>4. idOf' \in [Episodes -> Nat]
    BY <1>1, <1>2, <2>1, NumberedIds
  <2>5. Ranked(rows \cup Items(s), idOf', nextId' + 1)
    BY <2>1, <2>2, <2>3
  <2> QED
    BY <1>1, <1>2, <2>1, <2>4, <2>5, RankedSubset
<1>4. CASE InsertRaises(s)
  <2>1. PICK k \in 0..Len(s) :
            /\ idOf' = Numbered(s, k) /\ nextId' = nextId + k
            /\ rows' = rows \cup FirstItems(s, k)
    BY <1>4, InsertRaisesEffect
  <2>2. Ranked(rows \cup FirstItems(s, k), Numbered(s, k), nextId + k + 1)
    BY <1>1, <1>2, NumberedKeepsRank
  <2> QED
    BY <2>1, <2>2
<1> QED
  BY <1>3, <1>4 DEF Persists, Raises

(* Without a fault it loses only what a pruning deletes.                   *)
LEMMA PersistsLosesVictims ==
    ASSUME EpTypeOK, NEW s \in Seq(Episodes), Lined(s), Persists(s),
           faults' = faults
    PROVE  LET gone == (rows \cup Items(s)) \ rows'
           IN  /\ gone # {} => Cardinality(rows') >= RecentCap
               /\ Ranked(rows, idOf, nextId + 1)
                  /\ (\A n \in rows, m \in Items(s) : n < m)
                  => \A n \in gone : Cardinality({m \in rows' : m > n}) >= RecentCap
<1> USE RowsAssumption
<1> DEFINE all == rows \cup Items(s)
<1>1. /\ rows \subseteq Episodes /\ idOf \in [Episodes -> Nat] /\ nextId \in Nat
      /\ sinceWrites \in Nat /\ faults \in Nat
  BY DEF EpTypeOK
<1>2. all \subseteq Episodes /\ Len(s) \in Nat /\ Len(s) \in 0..Len(s)
  BY <1>1, ItemsOfSequence
<1>3. Inserts(s)
  BY <1>1 DEF Persists, Raises
<1>4. /\ idOf' = Numbered(s, Len(s)) /\ nextId' = nextId + Len(s)
      /\ rows' = all \/ rows' = all \ Victims(all, idOf')
  BY <1>1, <1>3, InsertsEffect
<1>5. idOf' \in [Episodes -> Nat]
  BY <1>1, <1>2, <1>4, NumberedIds
<1>6. ASSUME Ranked(rows, idOf, nextId + 1), \A n \in rows, m \in Items(s) : n < m
      PROVE  \A m, n \in all : m < n => idOf'[m] < idOf'[n]
  <2>1. Ranked(rows \cup FirstItems(s, Len(s)), Numbered(s, Len(s)), nextId + Len(s) + 1)
    BY <1>1, <1>2, <1>6, NumberedKeepsRank
  <2>2. FirstItems(s, Len(s)) = Items(s)
    BY ItemsOfSequence DEF FirstItems
  <2> QED
    BY <1>4, <2>1, <2>2 DEF Ranked
<1> HIDE DEF all
<1>7. CASE rows' = all
  BY <1>7 DEF all
<1>8. CASE rows' = all \ Victims(all, idOf')
  <2>1. /\ Victims(all, idOf') \subseteq all
        /\ Victims(all, idOf') # {} => Cardinality(rows') >= RecentCap
        /\ (\A m, n \in all : m < n => idOf'[m] < idOf'[n]) =>
              \A n \in Victims(all, idOf') : Cardinality({m \in rows' : m > n}) >= RecentCap
    <3> DEFINE ids == idOf'
    <3>1. ids \in [Episodes -> Nat] /\ rows' = all \ Victims(all, ids)
      BY <1>5, <1>8
    <3> HIDE DEF ids
    <3>2. /\ Victims(all, ids) \subseteq all
          /\ Victims(all, ids) # {} =>
                Cardinality(all \ Victims(all, ids)) >= RecentCap
          /\ (\A m, n \in all : m < n => ids[m] < ids[n]) =>
                \A n \in Victims(all, ids) :
                    Cardinality({m \in all \ Victims(all, ids) : m > n}) >= RecentCap
      BY <1>2, <3>1, VictimsSpareTheNewest
    <3> QED
      BY <3>1, <3>2 DEF ids
  <2>2. all \ rows' = Victims(all, idOf')
    BY <1>8, <2>1
  <2> QED
    BY <1>6, <2>1, <2>2 DEF all
<1> QED
  BY <1>4, <1>7, <1>8

-----------------------------------------------------------------------------
(* The recall cache.                                                       *)

LEMMA PrunedCacheKeepsNewest ==
    ASSUME NEW items, items \subseteq Episodes,
           NEW n \in items, \A m \in items : m <= n
    PROVE  PrunedCache(items) \subseteq items /\ n \in PrunedCache(items)
<1>1. {m \in items : m > n} = {}
  <2>1. \A m \in items : m \in Nat
    BY DEF Episodes
  <2> QED
    BY <2>1
<1>2. Cardinality({m \in items : m > n}) < RecallRecent
  BY <1>1, FS_EmptySet, WriteBehindAssumption
<1>3. PrunedCache(items) \subseteq items
  BY DEF PrunedCache, Firsts
<1>4. n \in PrunedCache(items)
  BY <1>2 DEF PrunedCache, Firsts, Later
<1> QED
  BY <1>3, <1>4

LEMMA LoadedCacheKeepsLastRow ==
    ASSUME NEW S, S \subseteq Episodes, idOf \in [Episodes -> Nat]
    PROVE  /\ LoadedCache(S) \subseteq S
           /\ \A n \in S : (\A m \in S : idOf[m] <= idOf[n]) => n \in LoadedCache(S)
<1>1. LoadedCache(S) \subseteq S
  BY DEF LoadedCache, Firsts
<1>2. ASSUME NEW n \in S, \A m \in S : idOf[m] <= idOf[n]
      PROVE  n \in LoadedCache(S)
  <2>1. {m \in S : idOf[m] > idOf[n]} = {}
    <3>1. \A m \in S : idOf[m] \in Nat
      OBVIOUS
    <3> QED
      BY <1>2, <3>1
  <2>2. Cardinality({m \in S : idOf[m] > idOf[n]}) < RecallRecent
    BY <2>1, FS_EmptySet, WriteBehindAssumption
  <2> QED
    BY <2>2 DEF LoadedCache, Firsts, LaterRow
<1> QED
  BY <1>1, <1>2

-----------------------------------------------------------------------------
(* Steps that change no more than who waits, and what is deferred.         *)
quiet == <<appended, salience, life, rows, idOf, nextId, sinceWrites, backup,
           disordered, faults, wipes, queue, batch, cache, lanceVars, backend>>

LEMMA QuietStep ==
    ASSUME EpInv, UNCHANGED quiet, async' \in BOOLEAN,
           joining' \in Calls \cup {"no"}, backend = "lancedb" => joining' = "no"
    PROVE  EpInv'
<1> USE DEF quiet, lanceVars
<1>1. EpTypeOK'
  BY DEF EpInv, EpTypeOK
<1>2. Due' /\ OneBackend'
  BY DEF EpInv, Due, OneBackend
<1>3. Lived' /\ Apart'
  BY DEF EpInv, Lived, Apart, Lined, Items, Waiting
<1>4. InOrder' /\ Recalled'
  BY DEF EpInv, InOrder, Recalled, Ranked, Unused, Items
<1> QED
  BY <1>1, <1>2, <1>3, <1>4 DEF EpInv

LEMMA JoinsInv ==
    ASSUME EpInv, Sqlite, NEW call \in Calls, Joins(call)
    PROVE  EpInv'
<1>1. async' \in BOOLEAN
  BY Zenon DEF Joins
<1>2. UNCHANGED quiet /\ joining' = call /\ backend = "sqlite"
  BY DEF Joins, Sqlite, quiet
<1> QED
  BY <1>1, <1>2, QuietStep

LEMMA GoesSyncInv ==
    ASSUME EpInv, Sqlite, GoesSync
    PROVE  EpInv'
<1>1. async' \in BOOLEAN
  BY DEF EpInv, EpTypeOK, GoesSync, rowVars
<1>2. UNCHANGED quiet /\ joining' = "no"
  BY DEF GoesSync, Sqlite, quiet, rowVars
<1> QED
  BY <1>1, <1>2, QuietStep

LEMMA GoesAsyncInv ==
    ASSUME EpInv, Sqlite, GoesAsync
    PROVE  EpInv'
<1>1. async' \in BOOLEAN
  BY DEF GoesAsync
<1>2. UNCHANGED quiet /\ joining' = "no"
  BY DEF GoesAsync, Sqlite, quiet, sqliteVars, Idle
<1> QED
  BY <1>1, <1>2, QuietStep

-----------------------------------------------------------------------------
(* The worker.                                                             *)

LEMMA WorkerTakesItems ==
    ASSUME EpInv, WorkerTakes
    PROVE  /\ queue' \in Seq(Episodes) /\ Len(queue') <= QueueMax
           /\ batch' \in Seq(Episodes) /\ Len(batch') <= BatchMax
           /\ Lined(queue') /\ Lined(batch')
           /\ \A b \in Items(batch'), w \in Items(queue') : b < w
           /\ Items(queue') \cup Items(batch') = Items(queue) \cup Items(batch)
<1>1. /\ queue \in Seq(Episodes) /\ Lined(queue) /\ queue # <<>>
      /\ batch \in Seq(Episodes) /\ Lined(batch) /\ Len(batch) < BatchMax
      /\ Len(queue) <= QueueMax /\ Len(queue) \in Nat /\ Len(batch) \in Nat
      /\ \A b \in Items(batch), w \in Items(queue) : b < w
      /\ batch' = Append(batch, Head(queue)) /\ queue' = Tail(queue)
  BY DEF EpInv, EpTypeOK, Apart, WorkerTakes
<1>2. /\ Head(queue) \in Episodes /\ queue' \in Seq(Episodes)
      /\ Len(queue') = Len(queue) - 1
      /\ Items(queue) = {Head(queue)} \cup Items(queue') /\ Lined(queue')
      /\ \A m \in Items(queue') : Head(queue) < m
  BY <1>1, QueueWithoutItsHead
<1>3. /\ batch' \in Seq(Episodes) /\ Len(batch') = Len(batch) + 1
      /\ Items(batch') = Items(batch) \cup {Head(queue)} /\ Lined(batch')
  BY <1>1, <1>2, QueueWithOneMore
<1>4. Len(batch') <= BatchMax /\ Len(queue') <= QueueMax
  BY <1>1, <1>2, <1>3, WriteBehindAssumption
<1> QED
  BY <1>1, <1>2, <1>3, <1>4

LEMMA WorkerTakesInv ==
    ASSUME EpInv, Sqlite, WorkerTakes
    PROVE  EpInv'
<1> USE DEF workerFrame, lanceVars
<1>1. /\ queue' \in Seq(Episodes) /\ Len(queue') <= QueueMax
      /\ batch' \in Seq(Episodes) /\ Len(batch') <= BatchMax
      /\ Lined(queue') /\ Lined(batch')
      /\ \A b \in Items(batch'), w \in Items(queue') : b < w
      /\ Items(queue') \cup Items(batch') = Items(queue) \cup Items(batch)
  BY WorkerTakesItems
<1>2. EpTypeOK'
  BY <1>1 DEF EpInv, EpTypeOK, WorkerTakes, Sqlite
<1>3. Due' /\ OneBackend'
  BY DEF EpInv, Due, OneBackend, WorkerTakes, Sqlite
<1>4. Waiting' = Waiting
  BY <1>1 DEF Waiting, Sqlite
<1>5. Lived' /\ Apart'
  BY <1>1, <1>4 DEF EpInv, Lived, Apart, WorkerTakes, Sqlite
<1>6. InOrder' /\ Recalled'
  BY <1>1 DEF EpInv, InOrder, Recalled, Ranked, Unused, WorkerTakes, Sqlite
<1> QED
  BY <1>2, <1>3, <1>5, <1>6 DEF EpInv

LEMMA WorkerPersistsInv ==
    ASSUME EpInv, Sqlite, WorkerPersists
    PROVE  EpInv'
<1> USE DEF workerFrame, lanceVars
<1>1. /\ batch \in Seq(Episodes) /\ Lined(batch) /\ Persists(batch)
      /\ batch' = <<>> /\ EpTypeOK /\ Due /\ backend = "sqlite"
  BY DEF EpInv, Apart, WorkerPersists, EpTypeOK, Sqlite
<1>2. /\ rows' \subseteq rows \cup Items(batch) /\ rows' \subseteq Episodes
      /\ idOf' \in [Episodes -> Nat] /\ nextId' \in Nat /\ nextId <= nextId'
      /\ sinceWrites' \in 0..(PruneInterval + MaxFaults) /\ Due'
      /\ faults' \in 0..MaxFaults /\ faults <= faults'
      /\ \A n \in Episodes \ Items(batch) : idOf'[n] = idOf[n]
  BY <1>1, PersistsKeepsTypes
<1>3. /\ Items(batch') = {} /\ Lined(batch') /\ batch' \in Seq(Episodes)
      /\ Len(batch') <= BatchMax
  BY <1>1, EmptyQueue, WriteBehindAssumption
<1>4. EpTypeOK'
  BY <1>2, <1>3 DEF EpInv, EpTypeOK, WorkerPersists, Sqlite
<1>5. OneBackend'
  BY <1>1 DEF EpInv, OneBackend, WorkerPersists, Sqlite
<1>6. /\ Waiting' \subseteq Waiting /\ Items(batch) \subseteq Waiting
      /\ Waiting' = Items(queue) \cup pending
  BY <1>3 DEF Waiting, WorkerPersists, Sqlite
<1>7. Lived'
  BY <1>2, <1>6 DEF EpInv, Lived, WorkerPersists, Sqlite
<1>8. Apart'
  <2>1. Items(queue) \cap Items(batch) = {} /\ pending = {}
    <3>1. \A b \in Items(batch), w \in Items(queue) : b < w /\ b \in Nat
      BY <1>1, ItemsOfSequence DEF EpInv, Apart
    <3> QED
      BY <1>1, <3>1 DEF EpInv, OneBackend
  <2>2. Waiting' \cap rows' = {}
    BY <1>2, <1>6, <2>1 DEF EpInv, Apart
  <2> QED
    BY <1>3, <1>6, <2>2 DEF EpInv, Apart, WorkerPersists, Sqlite
<1>9. InOrder'
  <2> SUFFICES ASSUME ~disordered'
               PROVE  InOrder'
    BY DEF InOrder
  <2>1. /\ ~disordered /\ disordered' = disordered /\ pending = {} /\ pending' = {}
        /\ backend' = "sqlite" /\ backup' = backup /\ queue' = queue
    BY <1>1 DEF EpInv, OneBackend, WorkerPersists, Sqlite
  <2>2. /\ Ranked(rows, idOf, nextId + 1)
        /\ \A n \in rows : \A w \in Items(queue) \cup Items(batch) : n < w
        /\ \A S \in backup : /\ \A m, n \in S : m < n => idOf[m] < idOf[n]
                             /\ \A n \in S : idOf[n] < nextId + 1
    BY <1>1, <2>1 DEF EpInv, InOrder, Unused
  <2>3. Ranked(rows', idOf', nextId' + 1)
    BY <1>1, <2>2, PersistsKeepsRank
  <2>4. \A n \in rows' : \A w \in Items(queue') \cup Items(batch') : n < w
    BY <1>2, <1>3, <2>1, <2>2 DEF EpInv, Apart
  <2>5. ASSUME NEW S \in backup
        PROVE  /\ \A m, n \in S : m < n => idOf'[m] < idOf'[n]
               /\ \A n \in S : idOf'[n] < nextId' + 1
    <3>1. \A n \in S : n \in Episodes \ Items(batch)
      BY <1>1, <1>6 DEF EpInv, EpTypeOK, Apart
    <3>2. \A n \in S : idOf'[n] = idOf[n] /\ idOf[n] \in Nat
      BY <1>1, <1>2, <3>1 DEF EpTypeOK
    <3>3. \A n \in S : idOf[n] < nextId' + 1
      <4>1. \A i, m, n \in Nat : i < m + 1 /\ m <= n => i < n + 1
        OBVIOUS
      <4>2. nextId \in Nat
        BY <1>1 DEF EpTypeOK
      <4> QED
        BY <1>2, <2>2, <3>2, <4>1, <4>2, Zenon
    <3> QED
      BY <2>2, <3>2, <3>3
  <2> QED
    BY <2>1, <2>3, <2>4, <2>5 DEF InOrder, Unused
<1>10. Recalled'
  <2>1. recall' # "loaded"
    BY <1>1 DEF EpInv, OneBackend, Sqlite
  <2> QED
    BY <2>1 DEF EpInv, Recalled, WorkerPersists, Sqlite
<1> QED
  BY <1>2, <1>4, <1>5, <1>7, <1>8, <1>9, <1>10 DEF EpInv

-----------------------------------------------------------------------------
(* The calls that wait for the worker.                                     *)

LEMMA NothingWaits ==
    ASSUME EpInv, Sqlite, Flushed
    PROVE  /\ queue = <<>> /\ batch = <<>> /\ Items(queue) = {} /\ Items(batch) = {}
           /\ pending = {} /\ Waiting = {} /\ backend = "sqlite"
<1>1. queue = <<>> /\ batch = <<>> /\ backend = "sqlite"
  BY DEF Flushed, Drained, Sqlite
<1>2. pending = {}
  BY <1>1 DEF EpInv, OneBackend
<1> QED
  BY <1>1, <1>2, EmptyQueue DEF Waiting

LEMMA ClearsInv ==
    ASSUME EpInv, Sqlite, Clears
    PROVE  EpInv'
<1> USE DEF lanceVars, joinFrame, Forgets
<1>1. /\ queue = <<>> /\ batch = <<>> /\ Items(queue) = {} /\ Items(batch) = {}
      /\ pending = {} /\ Waiting = {} /\ backend = "sqlite"
      /\ recall = "unloaded" /\ mirror = {}
  BY NothingWaits DEF Clears, EpInv, OneBackend
<1>2. EpTypeOK'
  BY RowsAssumption DEF EpInv, EpTypeOK, Clears, Sqlite
<1>3. Due' /\ OneBackend'
  BY DEF EpInv, Due, OneBackend, Clears, Sqlite
<1>4. Waiting' = {}
  BY <1>1 DEF Waiting, Clears, Sqlite
<1>5. Lived' /\ Apart'
  BY <1>1, <1>4 DEF EpInv, Lived, Apart, Clears, Sqlite
<1>6. InOrder' /\ Recalled'
  BY <1>1 DEF EpInv, InOrder, Recalled, Ranked, Unused, Clears, Sqlite
<1> QED
  BY <1>2, <1>3, <1>5, <1>6 DEF EpInv

LEMMA BacksUpInv ==
    ASSUME EpInv, Sqlite, BacksUp
    PROVE  EpInv'
<1> USE DEF lanceVars, joinFrame
<1>1. /\ queue = <<>> /\ batch = <<>> /\ Items(queue) = {} /\ Items(batch) = {}
      /\ pending = {} /\ Waiting = {} /\ backend = "sqlite"
      /\ recall = "unloaded" /\ mirror = {}
  BY NothingWaits DEF BacksUp, EpInv, OneBackend
<1>2. EpTypeOK'
  BY DEF EpInv, EpTypeOK, BacksUp, Sqlite
<1>3. Due' /\ OneBackend'
  BY DEF EpInv, Due, OneBackend, BacksUp, Sqlite
<1>4. Waiting' = {}
  BY <1>1 DEF Waiting, BacksUp, Sqlite
<1>5. Lived' /\ Apart'
  BY <1>1, <1>4 DEF EpInv, Lived, Apart, BacksUp, Sqlite
<1>6. InOrder' /\ Recalled'
  BY <1>1 DEF EpInv, InOrder, Recalled, Ranked, Unused, BacksUp, Sqlite
<1> QED
  BY <1>2, <1>3, <1>5, <1>6 DEF EpInv

LEMMA RestoresInv ==
    ASSUME EpInv, Sqlite, Restores
    PROVE  EpInv'
<1> USE DEF lanceVars, joinFrame, Forgets
<1>1. /\ queue = <<>> /\ batch = <<>> /\ Items(queue) = {} /\ Items(batch) = {}
      /\ pending = {} /\ Waiting = {} /\ backend = "sqlite"
      /\ recall = "unloaded" /\ mirror = {}
  BY NothingWaits DEF Restores, EpInv, OneBackend
<1>2. PICK S \in backup : rows' = S /\ life' = S /\ cache' = LoadedCache(S)
  BY DEF Restores
<1>3. S \subseteq Episodes /\ S \subseteq 1..appended /\ idOf \in [Episodes -> Nat]
      /\ appended \in Nat
  BY <1>2 DEF EpInv, EpTypeOK, Lived
<1>4. /\ cache' \subseteq S
      /\ \A n \in S : (\A m \in S : idOf[m] <= idOf[n]) => n \in cache'
  BY <1>2, <1>3, LoadedCacheKeepsLastRow
<1>5. EpTypeOK'
  <2>1. rows' \subseteq Episodes /\ life' \subseteq Episodes /\ cache' \subseteq Episodes
    BY <1>2, <1>3, <1>4
  <2>2. /\ wipes < MaxWipes /\ wipes' = wipes + 1 /\ joining' = "no"
        /\ UNCHANGED <<appended, salience, idOf, nextId, sinceWrites, backup,
                       async, disordered, faults, queue, batch, lanceVars>>
    BY DEF Restores, Sqlite
  <2> QED
    BY <2>1, <2>2, RowsAssumption DEF EpInv, EpTypeOK
<1>6. Due' /\ OneBackend'
  BY DEF EpInv, Due, OneBackend, Restores, Sqlite
<1>7. Waiting' = {}
  BY <1>1 DEF Waiting, Restores, Sqlite
<1>8. Lived' /\ Apart'
  BY <1>1, <1>2, <1>3, <1>4, <1>7 DEF EpInv, Lived, Apart, Restores, Sqlite
<1>9. InOrder'
  BY <1>1, <1>2 DEF EpInv, InOrder, Ranked, Unused, Restores, Sqlite
<1>10. Recalled'
  <2>1. ASSUME appended \in S, ~disordered
        PROVE  appended \in cache'
    <3>1. \A m \in S : m <= appended /\ (m = appended \/ m < appended)
      BY <1>3
    <3>2. \A m \in S : idOf[m] <= idOf[appended]
      <4> SUFFICES ASSUME NEW m \in S
                   PROVE  idOf[m] <= idOf[appended]
        OBVIOUS
      <4>1. m = appended \/ idOf[m] < idOf[appended]
        BY <1>2, <2>1, <3>1 DEF EpInv, InOrder
      <4>2. idOf[m] \in Nat /\ idOf[appended] \in Nat
        BY <1>3, <2>1
      <4> QED
        BY <4>1, <4>2
    <3> QED
      BY <1>4, <2>1, <3>2
  <2>2. /\ recall' = "unloaded" /\ appended' = appended /\ life' = S
        /\ disordered' = disordered
    BY <1>1, <1>2 DEF Restores, Sqlite
  <2> QED
    BY <2>1, <2>2 DEF Recalled
<1> QED
  BY <1>5, <1>6, <1>8, <1>9, <1>10 DEF EpInv

-----------------------------------------------------------------------------
(* append(), on either backend.                                            *)

LEMMA NewEpisode ==
    ASSUME EpInv, Remember
    PROVE  /\ New \in Episodes /\ appended \in Nat /\ appended' = New
           /\ New \notin 1..appended /\ \A n \in 1..appended : n < New
           /\ (1..appended) \cup {New} = 1..appended'
           /\ (appended + 1)..appended' = {New}
           /\ appended' \in 0..MaxEpisodes
           /\ life' = life \cup {New} /\ life' \subseteq Episodes
           /\ life' \subseteq 1..appended'
           /\ UNCHANGED <<salience, backup, async, wipes>>
<1>1. /\ appended \in 0..MaxEpisodes /\ appended < MaxEpisodes
      /\ appended' = appended + 1 /\ life' = life \cup {New}
      /\ life \subseteq 1..appended /\ life \subseteq Episodes
      /\ UNCHANGED <<salience, backup, async, wipes>>
  BY DEF EpInv, EpTypeOK, Lived, Remember, New
<1>2. /\ New \in Episodes /\ appended \in Nat /\ New = appended + 1
      /\ New \notin 1..appended /\ \A n \in 1..appended : n < New
      /\ (1..appended) \cup {New} = 1..New
      /\ (appended + 1)..New = {New} /\ New \in 0..MaxEpisodes
  BY <1>1, RowsAssumption DEF New, Episodes
<1> QED
  BY <1>1, <1>2

(* The write of one episode that nothing waits before.                     *)
LEMMA AppendedCache ==
    ASSUME EpInv, Append_
    PROVE  cache' \subseteq life' /\ New \in cache'
<1>1. /\ New \in Episodes /\ life' = life \cup {New} /\ life' \subseteq Episodes
      /\ \A n \in life : n < New /\ n \in Nat
      /\ cache \subseteq life /\ cache' = PrunedCache(cache \cup {New})
  BY NewEpisode DEF EpInv, Lived, Append_
<1>2. /\ cache \cup {New} \subseteq Episodes /\ New \in Nat
      /\ \A m \in cache \cup {New} : m <= New
  BY <1>1 DEF Episodes
<1> QED
  BY <1>1, <1>2, PrunedCacheKeepsNewest

LEMMA AppendQueuedInv ==
    ASSUME EpInv, Sqlite, Append_, queue' = Append(queue, New),
           Len(queue) < QueueMax,
           UNCHANGED <<rows, idOf, nextId, sinceWrites, disordered, faults>>
    PROVE  EpInv'
<1> USE DEF lanceVars
<1>1. /\ New \in Episodes /\ New \notin life /\ appended' = New
      /\ \A n \in 1..appended : n < New
      /\ life \subseteq 1..appended /\ 1..appended \subseteq 1..appended'
      /\ New \in 1..appended'
      /\ appended' \in 0..MaxEpisodes
      /\ life' = life \cup {New} /\ life' \subseteq Episodes
      /\ life' \subseteq 1..appended'
      /\ cache' \subseteq life' /\ New \in cache'
      /\ UNCHANGED <<salience, backup, async, wipes>>
  BY NewEpisode, AppendedCache DEF EpInv, Lived, Append_
<1>2. /\ queue \in Seq(Episodes) /\ Lined(queue) /\ Len(queue) \in Nat
      /\ \A m \in Items(queue) : m < New
  <2>1. /\ queue \in Seq(Episodes) /\ Lined(queue)
        /\ Items(queue) \subseteq 1..appended
    BY <1>1 DEF EpInv, EpTypeOK, Apart, Lived, Waiting
  <2> QED
    BY <1>1, <2>1, ItemsOfSequence
<1>3. /\ queue' \in Seq(Episodes) /\ Len(queue') = Len(queue) + 1
      /\ Items(queue') = Items(queue) \cup {New} /\ Lined(queue')
  BY <1>1, <1>2, QueueWithOneMore
<1>4. Len(queue') <= QueueMax
  BY <1>2, <1>3, WriteBehindAssumption
<1>5. EpTypeOK'
  BY <1>1, <1>3, <1>4 DEF EpInv, EpTypeOK, Append_, Sqlite
<1>6. Due' /\ OneBackend'
  BY DEF EpInv, Due, OneBackend, Append_, Sqlite
<1>7. Waiting' = Waiting \cup {New} /\ batch' = batch /\ pending' = pending
  BY <1>3 DEF Waiting, Append_, Sqlite
<1>8. Lived'
  BY <1>1, <1>7 DEF EpInv, Lived, Append_, Sqlite
<1>9. Apart'
  <2>1. \A b \in Items(batch) : b < New
    BY <1>1 DEF EpInv, Lived, Waiting
  <2>2. New \notin rows /\ \A S \in backup : New \notin S
    BY <1>1 DEF EpInv, Lived
  <2> QED
    BY <1>1, <1>3, <1>7, <2>1, <2>2 DEF EpInv, Apart
<1>10. InOrder'
  <2>1. \A n \in rows : n < New
    BY <1>1 DEF EpInv, Lived
  <2> QED
    BY <1>1, <1>3, <1>7, <2>1 DEF EpInv, InOrder, Ranked, Unused, Sqlite
<1>11. Recalled'
  <2>1. recall' # "loaded"
    BY DEF EpInv, OneBackend, Sqlite
  <2> QED
    BY <1>1, <2>1 DEF Recalled
<1> QED
  BY <1>5, <1>6, <1>8, <1>9, <1>10, <1>11 DEF EpInv

LEMMA AppendWrittenInv ==
    ASSUME EpInv, Sqlite, Append_, Persists(<<New>>), queue' = queue,
           disordered' = (disordered \/ ~Drained)
    PROVE  EpInv'
<1> USE DEF lanceVars
<1>1. /\ New \in Episodes /\ New \notin life /\ appended' = New
      /\ \A n \in 1..appended : n < New
      /\ life \subseteq 1..appended /\ 1..appended \subseteq 1..appended'
      /\ New \in 1..appended'
      /\ appended' \in 0..MaxEpisodes
      /\ life' = life \cup {New} /\ life' \subseteq Episodes
      /\ life' \subseteq 1..appended'
      /\ cache' \subseteq life' /\ New \in cache'
      /\ UNCHANGED <<salience, backup, async, wipes>>
  BY NewEpisode, AppendedCache DEF EpInv, Lived, Append_
<1>2. /\ <<New>> \in Seq(Episodes) /\ Items(<<New>>) = {New} /\ Lined(<<New>>)
      /\ EpTypeOK /\ Due
  BY <1>1, QueueOfOne DEF EpInv
<1>3. /\ rows' \subseteq rows \cup {New} /\ rows' \subseteq Episodes
      /\ idOf' \in [Episodes -> Nat] /\ nextId' \in Nat /\ nextId <= nextId'
      /\ sinceWrites' \in 0..(PruneInterval + MaxFaults) /\ Due'
      /\ faults' \in 0..MaxFaults /\ faults <= faults'
      /\ \A n \in Episodes \ {New} : idOf'[n] = idOf[n]
  BY <1>2, PersistsKeepsTypes
<1>4. disordered' \in BOOLEAN
  BY Zenon
<1>5. EpTypeOK'
  BY <1>1, <1>3, <1>4 DEF EpInv, EpTypeOK, Append_, Sqlite
<1>6. OneBackend'
  BY DEF EpInv, OneBackend, Append_, Sqlite
<1>7. Waiting' = Waiting /\ batch' = batch /\ pending' = pending
  BY DEF Waiting, Append_, Sqlite
<1>8. Lived'
  BY <1>1, <1>3, <1>7 DEF EpInv, Lived, Append_, Sqlite
<1>9. Apart'
  <2>1. New \notin Waiting
    BY <1>1 DEF EpInv, Lived
  <2> QED
    BY <1>1, <1>3, <1>7, <2>1 DEF EpInv, Apart
<1>10. InOrder'
  <2> SUFFICES ASSUME ~disordered'
               PROVE  InOrder'
    BY DEF InOrder
  <2>1. ~disordered /\ Drained
    BY Zenon
  <2>2. /\ queue' = <<>> /\ batch' = <<>> /\ pending = {} /\ pending' = {}
        /\ backend = "sqlite" /\ backend' = "sqlite" /\ backup' = backup
    BY <1>1, <1>7, <2>1 DEF EpInv, OneBackend, Drained, Sqlite
  <2>3. /\ Ranked(rows, idOf, nextId + 1)
        /\ \A S \in backup : /\ \A m, n \in S : m < n => idOf[m] < idOf[n]
                             /\ \A n \in S : idOf[n] < nextId + 1
    BY <2>1, <2>2 DEF EpInv, InOrder, Unused
  <2>4. \A n \in rows : n < New
    BY <1>1 DEF EpInv, Lived
  <2>5. Ranked(rows', idOf', nextId' + 1)
    BY <1>2, <2>3, <2>4, PersistsKeepsRank
  <2>6. ASSUME NEW S \in backup
        PROVE  /\ \A m, n \in S : m < n => idOf'[m] < idOf'[n]
               /\ \A n \in S : idOf'[n] < nextId' + 1
    <3>1. \A n \in S : n \in Episodes \ {New}
      BY <1>1, <1>2 DEF EpInv, EpTypeOK, Lived
    <3>2. \A n \in S : idOf'[n] = idOf[n] /\ idOf[n] \in Nat
      BY <1>2, <1>3, <3>1 DEF EpTypeOK
    <3>3. \A n \in S : idOf[n] < nextId' + 1
      <4>1. \A i, m, n \in Nat : i < m + 1 /\ m <= n => i < n + 1
        OBVIOUS
      <4>2. nextId \in Nat
        BY <1>2 DEF EpTypeOK
      <4> QED
        BY <1>3, <2>3, <3>2, <4>1, <4>2, Zenon
    <3> QED
      BY <2>3, <3>2, <3>3
  <2>7. Items(queue') \cup Items(batch') = {}
    BY <2>2, EmptyQueue
  <2> QED
    BY <2>2, <2>5, <2>6, <2>7 DEF InOrder, Unused
<1>11. Recalled'
  <2>1. recall' # "loaded"
    BY DEF EpInv, OneBackend, Sqlite
  <2> QED
    BY <1>1, <2>1 DEF Recalled
<1> QED
  BY <1>3, <1>5, <1>6, <1>8, <1>9, <1>10, <1>11 DEF EpInv

LEMMA AppendInv ==
    ASSUME EpInv, Sqlite, Append_
    PROVE  EpInv'
<1>1. CASE /\ queue' = Append(queue, New) /\ Len(queue) < QueueMax
           /\ UNCHANGED <<rows, idOf, nextId, sinceWrites, disordered, faults>>
  BY <1>1, AppendQueuedInv
<1>2. CASE /\ Persists(<<New>>) /\ queue' = queue
           /\ disordered' = (disordered \/ ~Drained)
  BY <1>2, AppendWrittenInv
<1> QED
  BY <1>1, <1>2 DEF Append_

LEMMA SqliteInv ==
    ASSUME EpInv, Sqlite
    PROVE  EpInv'
<1>1. CASE Append_
  BY <1>1, AppendInv
<1>2. CASE GoesAsync
  BY <1>2, GoesAsyncInv
<1>3. CASE WorkerStep
  BY <1>3, WorkerTakesInv, WorkerPersistsInv DEF WorkerStep
<1>4. CASE JoinEnds
  BY <1>4, ClearsInv, BacksUpInv, RestoresInv, GoesSyncInv DEF JoinEnds
<1>5. CASE \E call \in Calls : Joins(call)
  BY <1>5, JoinsInv
<1> QED
  BY <1>1, <1>2, <1>3, <1>4, <1>5 DEF Sqlite, SqliteNext

-----------------------------------------------------------------------------
(* The default backend.                                                    *)
sqliteFrame == <<sqliteVars, backend>>

LEMMA NoQueue ==
    ASSUME EpInv, Lance
    PROVE  /\ backend = "lancedb" /\ backend' = "lancedb" /\ UNCHANGED sqliteFrame
           /\ queue = <<>> /\ batch = <<>> /\ joining = "no" /\ cache = {}
           /\ queue' = <<>> /\ batch' = <<>> /\ joining' = "no" /\ cache' = {}
           /\ Items(queue) = {} /\ Items(batch) = {}
           /\ Waiting = pending /\ Waiting' = pending'
           /\ queue' \in Seq(Episodes) /\ batch' \in Seq(Episodes)
           /\ Len(queue') = 0 /\ Len(batch') = 0 /\ Lined(queue') /\ Lined(batch')
<1>1. /\ backend = "lancedb" /\ backend' = "lancedb" /\ UNCHANGED sqliteFrame
      /\ queue = <<>> /\ batch = <<>> /\ joining = "no" /\ cache = {}
      /\ queue' = <<>> /\ batch' = <<>> /\ joining' = "no" /\ cache' = {}
  BY DEF EpInv, OneBackend, Lance, sqliteVars, sqliteFrame
<1>2. Waiting = pending /\ Waiting' = pending'
  BY <1>1, EmptyQueue DEF Waiting
<1>3. <<>> \in Seq(Episodes) /\ Len(<<>>) = 0
  OBVIOUS
<1> QED
  BY <1>1, <1>2, <1>3, EmptyQueue

(* A step of the default backend keeps EpInv if what it leaves in the      *)
(* table, the buffer and the mirror was there or is new.                   *)
LEMMA LanceStepInv ==
    ASSUME EpInv, Lance,
           appended' \in 0..MaxEpisodes, salience' = salience,
           life' \subseteq Episodes, life' \subseteq 1..appended',
           1..appended \subseteq 1..appended',
           rows' \subseteq life', pending' \subseteq life', rows' \cap pending' = {},
           mirror' \subseteq life', Cardinality(pending') < BufferMax,
           idOf' \in [Episodes -> Nat], nextId' \in Nat,
           Due', faults' \in 0..MaxFaults, wipes' \in 0..MaxWipes,
           sinceWrites' \in 0..(PruneInterval + MaxFaults),
           \A S \in backup' : /\ S \subseteq Episodes /\ S \subseteq 1..appended'
                              /\ pending' \cap S = {},
           async' \in BOOLEAN, disordered' \in BOOLEAN, made' \in BOOLEAN,
           recall' \in {"unloaded", "loaded", "disabled"},
           recall' = "loaded" => /\ rows' \cup pending' \subseteq mirror'
                                 /\ faults' = 0 => mirror' = rows' \cup pending',
           ~disordered' => /\ Ranked(rows' \cup pending', idOf', nextId')
                           /\ \A S \in backup' : \A m, n \in S :
                                 m < n => idOf'[m] < idOf'[n]
    PROVE  EpInv'
<1>1. /\ backend' = "lancedb"
      /\ queue' = <<>> /\ batch' = <<>> /\ joining' = "no" /\ cache' = {}
      /\ Waiting' = pending'
      /\ queue' \in Seq(Episodes) /\ batch' \in Seq(Episodes)
      /\ Len(queue') = 0 /\ Len(batch') = 0 /\ Lined(queue') /\ Lined(batch')
      /\ Items(queue') = {} /\ Items(batch') = {}
  BY NoQueue, EmptyQueue
<1>2. Len(queue') <= QueueMax /\ Len(batch') <= BatchMax
  BY <1>1, WriteBehindAssumption
<1>3. EpTypeOK'
  BY <1>1, <1>2 DEF EpInv, EpTypeOK
<1>4. OneBackend'
  BY <1>1 DEF OneBackend
<1>5. Lived'
  BY <1>1 DEF Lived
<1>6. Apart'
  BY <1>1 DEF Apart
<1>7. InOrder'
  BY <1>1 DEF InOrder, Unused
<1>8. Recalled'
  BY <1>1 DEF Recalled
<1> QED
  BY <1>3, <1>4, <1>5, <1>6, <1>7, <1>8 DEF EpInv

(* What EpInv says of this backend.                                        *)
LEMMA LanceState ==
    ASSUME EpInv, Lance
    PROVE  /\ appended \in 0..MaxEpisodes /\ salience \in [Episodes -> Saliences]
           /\ life \subseteq Episodes /\ life \subseteq 1..appended
           /\ rows \subseteq life /\ pending \subseteq life /\ rows \cap pending = {}
           /\ mirror \subseteq life /\ Cardinality(pending) < BufferMax
           /\ idOf \in [Episodes -> Nat] /\ nextId \in Nat
           /\ sinceWrites < PruneInterval + faults /\ Due
           /\ sinceWrites \in 0..(PruneInterval + MaxFaults)
           /\ faults \in 0..MaxFaults /\ wipes \in 0..MaxWipes
           /\ \A S \in backup : /\ S \subseteq Episodes /\ S \subseteq 1..appended
                                /\ pending \cap S = {}
           /\ async \in BOOLEAN /\ disordered \in BOOLEAN /\ made \in BOOLEAN
           /\ recall \in {"unloaded", "loaded", "disabled"}
           /\ recall = "loaded" => /\ rows \cup pending \subseteq mirror
                                   /\ faults = 0 => mirror = rows \cup pending
           /\ ~disordered => /\ Ranked(rows \cup pending, idOf, nextId)
                             /\ \A S \in backup : \A m, n \in S :
                                   m < n => idOf[m] < idOf[n]
  BY NoQueue DEF EpInv, EpTypeOK, Due, Lived, Apart, InOrder, Recalled, Unused

LEMMA NothingPending == Cardinality({}) < BufferMax
  BY FS_EmptySet, LanceAssumption

LEMMA LanceSearchInv ==
    ASSUME EpInv, Lance, LanceSearch
    PROVE  EpInv'
<1>1. UNCHANGED <<rowVars, pending, made>>
  BY DEF LanceSearch
<1>2. \/ recall' = "disabled" /\ mirror' = {}
      \/ recall' = "loaded" /\ mirror' = rows \cup pending
  BY DEF LanceSearch
<1>3. Due'
  BY <1>1, LanceState DEF Due, rowVars
<1> QED
  BY <1>1, <1>2, <1>3, LanceState, LanceStepInv DEF rowVars

LEMMA LanceClearInv ==
    ASSUME EpInv, Lance, LanceClear
    PROVE  EpInv'
<1>1. /\ rows' = {} /\ life' = {} /\ pending' = {} /\ mirror' = {}
      /\ recall' = "loaded" /\ wipes' \in 0..MaxWipes
      /\ UNCHANGED <<appended, salience, backup, faults, idOf, nextId,
                     sinceWrites, async, disordered, made>>
  BY LanceState, RowsAssumption DEF LanceClear, Forgets
<1>2. Due' /\ Ranked({}, idOf', nextId')
  BY <1>1, LanceState DEF Due, Ranked
<1>3. /\ \A S \in backup' : /\ S \subseteq Episodes /\ S \subseteq 1..appended'
                            /\ pending' \cap S = {}
      /\ ~disordered' => \A S \in backup' : \A m, n \in S :
                            m < n => idOf'[m] < idOf'[n]
  BY <1>1, LanceState
<1> QED
  BY <1>1, <1>2, <1>3, LanceState, LanceStepInv, NothingPending

LEMMA HighestId ==
    ASSUME NEW S, S \subseteq Episodes, S # {}, idOf \in [Episodes -> Nat]
    PROVE  \E n \in S : \A m \in S : idOf[m] <= idOf[n]
<1> DEFINE higher == [x \in S |-> {y \in S : idOf[y] > idOf[x]}]
           K == {x \in S : Cardinality(higher[x]) < 1}
<1>1. \A x \in S : idOf[x] \in Nat
  OBVIOUS
<1>2. /\ higher \in [S -> SUBSET S]
      /\ \A x \in S : higher[x] = {y \in S : idOf[y] > idOf[x]}
  OBVIOUS
<1>3. Cardinality(S) >= 1
  BY EpisodesFinite, FS_EmptySet
<1> HIDE DEF higher
<1>4. Cardinality(K) >= 1
  <2>1. \A x \in S : x \notin higher[x]
    BY <1>1, <1>2
  <2>2. \A x \in S : \A y \in higher[x] : higher[y] \subseteq higher[x]
    BY <1>1, <1>2
  <2> QED
    BY <1>2, <1>3, <2>1, <2>2, EnoughSelected
<1>5. PICK x \in K : TRUE
  <2>1. K # {}
    <3> SUFFICES ASSUME K = {}
                 PROVE  FALSE
      OBVIOUS
    <3>1. Cardinality(K) = 0
      BY FS_EmptySet
    <3> QED
      BY <1>4, <3>1
  <2> QED
    BY <2>1
<1>6. higher[x] = {}
  BY <1>2, <1>5, EpisodesFinite, FS_EmptySet
<1>7. \A m \in S : idOf[m] <= idOf[x]
  BY <1>1, <1>2, <1>5, <1>6
<1> QED
  BY <1>5, <1>7

LEMMA LanceRestoreInv ==
    ASSUME EpInv, Lance, LanceRestore
    PROVE  EpInv'
<1>1. PICK S \in backup :
          /\ rows' = S /\ life' = S
          /\ nextId' = IF S = {} THEN 0
                       ELSE 1 + CHOOSE i \in {idOf[n] : n \in S} :
                                   \A n \in S : idOf[n] <= i
  BY DEF LanceRestore
<1>2. /\ pending' = {} /\ made' = TRUE /\ mirror' = {} /\ recall' = "unloaded"
      /\ wipes' \in 0..MaxWipes
      /\ UNCHANGED <<appended, salience, backup, faults, idOf, sinceWrites,
                     async, disordered>>
  BY LanceState, RowsAssumption DEF LanceRestore, Forgets
<1>3. S \subseteq Episodes /\ S \subseteq 1..appended /\ idOf \in [Episodes -> Nat]
  BY <1>1, LanceState
<1>4. nextId' \in Nat /\ \A n \in S : idOf[n] < nextId'
  <2>1. CASE S = {}
    BY <1>1, <2>1
  <2>2. CASE S # {}
    <3> DEFINE i == CHOOSE j \in {idOf[n] : n \in S} : \A n \in S : idOf[n] <= j
    <3>1. \E j \in {idOf[n] : n \in S} : \A n \in S : idOf[n] <= j
      BY <1>3, <2>2, HighestId
    <3>2. i \in {idOf[n] : n \in S} /\ \A n \in S : idOf[n] <= i
      BY <3>1
    <3>3. nextId' = 1 + i
      BY <1>1, <2>2
    <3>4. i \in Nat /\ \A n \in S : idOf[n] \in Nat
      BY <1>3, <3>2
    <3> HIDE DEF i
    <3>5. \A n \in S : idOf[n] < 1 + i
      BY <3>2, <3>4
    <3> QED
      BY <3>3, <3>4, <3>5
  <2> QED
    BY <2>1, <2>2
<1>5. Due'
  BY <1>2, LanceState DEF Due
<1>6. ~disordered' => /\ Ranked(rows' \cup pending', idOf', nextId')
                      /\ \A T \in backup' : \A m, n \in T :
                            m < n => idOf'[m] < idOf'[n]
  BY <1>1, <1>2, <1>4, LanceState DEF Ranked
<1>7. \A T \in backup' : /\ T \subseteq Episodes /\ T \subseteq 1..appended'
                         /\ pending' \cap T = {}
  BY <1>2, LanceState
<1> QED
  BY <1>1, <1>2, <1>3, <1>4, <1>5, <1>6, <1>7, LanceState, LanceStepInv,
     NothingPending

(* What a pruning deletes goes from the mirror m too, and nothing else.    *)
LEMMA MaskedKeepsRows ==
    ASSUME NEW all, all \subseteq Episodes, NEW ids \in [Episodes -> Nat],
           NEW gone, gone = {} \/ gone = Victims(all, ids), NEW m
    PROVE  /\ gone \subseteq all /\ Masked(m, gone, ids) \subseteq m
           /\ all \subseteq m => all \ gone \subseteq Masked(m, gone, ids)
           /\ m = all => Masked(m, gone, ids) = all \ gone
<1>1. gone \subseteq all /\ \A n \in all, x \in gone : ids[n] = ids[x] => n \in gone
  <2>1. /\ Victims(all, ids) \subseteq all
        /\ \A n \in all, x \in Victims(all, ids) :
              ids[n] = ids[x] => n \in Victims(all, ids)
    BY VictimsSpareTheNewest
  <2> QED
    BY <2>1
<1>2. Masked(m, gone, ids) \subseteq m
  BY DEF Masked
<1>3. all \subseteq m => all \ gone \subseteq Masked(m, gone, ids)
  BY <1>1 DEF Masked
<1>4. m = all => Masked(m, gone, ids) = all \ gone
  BY <1>1 DEF Masked
<1> QED
  BY <1>1, <1>2, <1>3, <1>4

(* The buffer p is added to the table, and what a pruning deletes of both  *)
(* goes from the mirror m too; or the rows p are lost.                     *)
LEMMA AddsEffect ==
    ASSUME NEW p, p \subseteq Episodes, rows \subseteq Episodes, NEW m,
           NEW ids \in [Episodes -> Nat], NEW prunes \in BOOLEAN,
           Adds(p, prunes, m, ids)
    PROVE  /\ rows' \subseteq rows \cup p /\ mirror' \subseteq m /\ faults' = faults
           /\ rows \cup p \subseteq m => rows' \subseteq mirror'
           /\ m = rows \cup p => mirror' = rows'
           /\ ~prunes => rows' = rows \cup p
<1> DEFINE all == rows \cup p
           gone == IF prunes THEN Victims(all, ids) ELSE {}
<1>1. rows' = all \ gone /\ mirror' = Masked(m, gone, ids) /\ faults' = faults
  BY DEF Adds
<1>2. /\ gone \subseteq all /\ Masked(m, gone, ids) \subseteq m
      /\ all \subseteq m => all \ gone \subseteq Masked(m, gone, ids)
      /\ m = all => Masked(m, gone, ids) = all \ gone
  <2>1. all \subseteq Episodes /\ (gone = {} \/ gone = Victims(all, ids))
    OBVIOUS
  <2> HIDE DEF all, gone
  <2> QED
    BY <2>1, MaskedKeepsRows
<1>3. ~prunes => rows' = all
  BY <1>1
<1> HIDE DEF gone, all
<1> QED
  BY <1>1, <1>2, <1>3 DEF all

LEMMA OpensEffect ==
    ASSUME NEW next \in Nat, Opens(next)
    PROVE  /\ nextId' \in Nat /\ made' \in BOOLEAN /\ disordered' \in BOOLEAN
           /\ ~disordered' => ~disordered /\ nextId' = next
<1>1. made' \in BOOLEAN /\ nextId' \in Nat
  BY DEF Opens
<1>2. disordered' \in BOOLEAN
  BY Zenon DEF Opens
<1>3. ASSUME ~disordered'
      PROVE  ~disordered /\ nextId' = next
  <2>1. ~disordered /\ ~(~made /\ next > 0)
    BY <1>3, Zenon DEF Opens
  <2>2. nextId' = IF made THEN next ELSE 0
    BY DEF Opens
  <2> QED
    BY <2>1, <2>2
<1> QED
  BY <1>1, <1>2, <1>3

LEMMA FlushInv ==
    ASSUME EpInv, Lance, Opens(nextId), pending' = {},
           \/ Adds(pending, FALSE, mirror, idOf) /\ backup' \in {backup, {rows'}}
           \/ AddRaises(pending, mirror) /\ backup' = backup,
           async' \in BOOLEAN,
           UNCHANGED <<appended, salience, life, idOf, sinceWrites, wipes, recall>>
    PROVE  EpInv'
<1>1. /\ nextId' \in Nat /\ made' \in BOOLEAN /\ disordered' \in BOOLEAN
      /\ ~disordered' => ~disordered /\ nextId' = nextId
  BY LanceState, OpensEffect
<1>2. CASE Adds(pending, FALSE, mirror, idOf) /\ backup' \in {backup, {rows'}}
  <2>1. /\ rows' = rows \cup pending /\ mirror' \subseteq mirror /\ faults' = faults
        /\ rows \cup pending \subseteq mirror => rows' \subseteq mirror'
        /\ mirror = rows \cup pending => mirror' = rows'
    <3>1. /\ pending \subseteq Episodes /\ rows \subseteq Episodes
          /\ idOf \in [Episodes -> Nat] /\ FALSE \in BOOLEAN
      BY LanceState
    <3>2. Adds(pending, FALSE, mirror, idOf)
      BY <1>2
    <3>3. /\ mirror' \subseteq mirror /\ faults' = faults
          /\ rows \cup pending \subseteq mirror => rows' \subseteq mirror'
          /\ mirror = rows \cup pending => mirror' = rows'
          /\ ~FALSE => rows' = rows \cup pending
      BY <3>1, <3>2, AddsEffect, Zenon
    <3> QED
      BY <3>3
  <2>2. Due'
    BY <2>1, LanceState DEF Due
  <2>3. /\ \A S \in backup' : S \in backup \/ S = rows'
        /\ rows' \subseteq Episodes /\ rows' \subseteq 1..appended'
    BY <1>2, <2>1, LanceState
  <2>4. /\ \A S \in backup' : /\ S \subseteq Episodes /\ S \subseteq 1..appended'
                              /\ pending' \cap S = {}
    <3> SUFFICES ASSUME NEW S \in backup'
                 PROVE  /\ S \subseteq Episodes /\ S \subseteq 1..appended'
                        /\ pending' \cap S = {}
      OBVIOUS
    <3>1. CASE S = rows'
      BY <2>3, <3>1
    <3>2. CASE S \in backup
      BY <3>2, LanceState
    <3> QED
      BY <2>3, <3>1, <3>2
  <2>5. ~disordered' => /\ Ranked(rows' \cup pending', idOf', nextId')
                        /\ \A S \in backup' : \A m, n \in S :
                              m < n => idOf'[m] < idOf'[n]
    BY <1>1, <2>1, <2>3, LanceState DEF Ranked
  <2>6. recall' = "loaded" => /\ rows' \cup pending' \subseteq mirror'
                              /\ faults' = 0 => mirror' = rows' \cup pending'
    BY <2>1, LanceState
  <2> QED
    BY <1>1, <2>1, <2>2, <2>4, <2>5, <2>6, LanceState,
       LanceStepInv, NothingPending
<1>3. CASE AddRaises(pending, mirror) /\ backup' = backup
  <2>1. /\ rows' = rows /\ mirror' = mirror /\ faults' = faults + 1
        /\ faults' \in 0..MaxFaults /\ faults' # 0 /\ faults <= faults'
        /\ faults \in Nat
    BY <1>3, LanceState, RowsAssumption DEF AddRaises
  <2>2. Due'
    BY <2>1, LanceState, WritesBounded DEF Due
  <2>3. /\ \A S \in backup' : /\ S \subseteq Episodes /\ S \subseteq 1..appended'
                              /\ pending' \cap S = {}
        /\ ~disordered' => /\ Ranked(rows' \cup pending', idOf', nextId')
                           /\ \A S \in backup' : \A m, n \in S :
                                 m < n => idOf'[m] < idOf'[n]
    BY <1>1, <1>3, <2>1, LanceState DEF Ranked
  <2>4. recall' = "loaded" => rows' \cup pending' \subseteq mirror'
    BY <2>1, LanceState
  <2> QED
    BY <1>1, <2>1, <2>2, <2>3, <2>4, LanceState,
       LanceStepInv, NothingPending
<1> QED
  BY <1>2, <1>3

LEMMA LanceBackupInv ==
    ASSUME EpInv, Lance, LanceBackup
    PROVE  EpInv'
<1>1. /\ Opens(nextId) /\ pending' = {} /\ async' \in BOOLEAN
      /\ UNCHANGED <<appended, salience, life, idOf, sinceWrites, wipes, recall>>
  BY LanceState DEF LanceBackup
<1>2. \/ Adds(pending, FALSE, mirror, idOf) /\ backup' \in {backup, {rows'}}
      \/ AddRaises(pending, mirror) /\ backup' = backup
  BY DEF LanceBackup
<1> QED
  BY <1>1, <1>2, FlushInv

LEMMA LanceSetAsyncInv ==
    ASSUME EpInv, Lance, NEW on \in BOOLEAN, LanceSetAsync(on)
    PROVE  EpInv'
<1>1. /\ async' \in BOOLEAN
      /\ UNCHANGED <<appended, salience, life, idOf, sinceWrites, backup, wipes,
                     recall>>
  BY DEF LanceSetAsync
<1>2. CASE UNCHANGED <<rows, nextId, disordered, faults, pending, made, mirror>>
  <2>1. UNCHANGED quiet /\ joining' \in Calls \cup {"no"} /\ joining' = "no"
    BY <1>1, <1>2, NoQueue DEF quiet, lanceVars, sqliteFrame, sqliteVars
  <2> QED
    BY <1>1, <2>1, QuietStep
<1>3. CASE Flushes /\ pending # {}
  <2>1. /\ Opens(nextId) /\ pending' = {}
        /\ Adds(pending, FALSE, mirror, idOf) \/ AddRaises(pending, mirror)
    BY <1>3 DEF Flushes
  <2> QED
    BY <1>1, <2>1, FlushInv
<1> QED
  BY <1>2, <1>3 DEF LanceSetAsync, Flushes

(* The numbered rows with the new one.                                     *)
LEMMA NewIsLast ==
    ASSUME EpInv, Lance, Remember, idOf' = [idOf EXCEPT ![New] = nextId]
    PROVE  /\ idOf' \in [Episodes -> Nat] /\ idOf'[New] = nextId
           /\ \A n \in Episodes : n # New => idOf'[n] = idOf[n]
           /\ ~disordered =>
                 /\ Ranked(rows \cup pending \cup {New}, idOf', nextId + 1)
                 /\ \A S \in backup : \A m, n \in S : m < n => idOf'[m] < idOf'[n]
<1>1. /\ New \in Episodes /\ New \notin 1..appended
      /\ \A n \in 1..appended : n < New
  BY NewEpisode
<1>2. /\ idOf' \in [Episodes -> Nat] /\ idOf'[New] = nextId
      /\ \A n \in Episodes : n # New => idOf'[n] = idOf[n]
  BY <1>1, LanceState
<1>3. ASSUME ~disordered
      PROVE  Ranked(rows \cup pending \cup {New}, idOf', nextId + 1)
  <2>1. \A n \in rows \cup pending :
            /\ n \in Episodes /\ n < New /\ n # New /\ n \in Nat
            /\ idOf'[n] = idOf[n] /\ idOf[n] < nextId /\ idOf[n] \in Nat
    BY <1>1, <1>2, <1>3, LanceState DEF Ranked, Episodes
  <2>2. \A m, n \in rows \cup pending : m < n => idOf[m] < idOf[n]
    BY <1>3, LanceState DEF Ranked
  <2>3. nextId \in Nat /\ New \in Nat
    BY <1>1, LanceState DEF Episodes
  <2>4. \A n \in rows \cup pending \cup {New} : idOf'[n] < nextId + 1
    BY <1>2, <2>1, <2>3
  <2>5. \A m, n \in rows \cup pending \cup {New} : m < n => idOf'[m] < idOf'[n]
    <3> SUFFICES ASSUME NEW m \in rows \cup pending \cup {New},
                        NEW n \in rows \cup pending \cup {New}, m < n
                 PROVE  idOf'[m] < idOf'[n]
      OBVIOUS
    <3>1. CASE m # New /\ n # New
      BY <2>1, <2>2, <3>1
    <3>2. CASE m # New /\ n = New
      BY <1>2, <2>1, <3>2
    <3>3. CASE m = New
      BY <2>1, <2>3, <3>3
    <3> QED
      BY <3>1, <3>2, <3>3
  <2> QED
    BY <2>4, <2>5 DEF Ranked
<1>4. ASSUME ~disordered, NEW S \in backup, NEW m \in S, NEW n \in S, m < n
      PROVE  idOf'[m] < idOf'[n]
  <2>1. m \in Episodes /\ n \in Episodes /\ m # New /\ n # New /\ idOf[m] < idOf[n]
    BY <1>1, <1>4, LanceState
  <2> QED
    BY <1>2, <2>1
<1> QED
  BY <1>2, <1>3, <1>4

LEMMA LanceAppendInv ==
    ASSUME EpInv, Lance, LanceAppend
    PROVE  EpInv'
<1> DEFINE p == pending \cup {New}
           since == sinceWrites + 1
           due == since >= PruneInterval
           flushes == ~async \/ Cardinality(p) >= BufferMax
           full == recall = "loaded" /\ Cardinality(mirror) >= MirrorCap
           m == IF recall = "loaded" /\ ~full THEN mirror \cup {New} ELSE {}
<1>1. /\ recall' = IF full THEN "disabled" ELSE recall
      /\ idOf' = [idOf EXCEPT ![New] = nextId] /\ Remember
      /\ \/ /\ Opens(nextId + 1) /\ pending' = {}
            /\ Adds(p, due, m, idOf')
            /\ sinceWrites' = IF due THEN 0 ELSE since
         \/ /\ Opens(nextId + 1) /\ pending' = {}
            /\ AddRaises(p, m)
            /\ sinceWrites' = IF flushes THEN since ELSE 0
         \/ /\ ~flushes /\ ~due
            /\ pending' = p /\ nextId' = nextId + 1 /\ mirror' = m
            /\ sinceWrites' = since
            /\ UNCHANGED <<rows, made, disordered, faults>>
  BY DEF LanceAppend
<1>2. /\ New \in Episodes /\ New \notin 1..appended
      /\ appended' \in 0..MaxEpisodes /\ life' = life \cup {New}
      /\ life' \subseteq Episodes /\ life' \subseteq 1..appended'
      /\ 1..appended \subseteq 1..appended'
      /\ UNCHANGED <<salience, backup, async, wipes>>
  BY <1>1, NewEpisode
<1>3. /\ idOf' \in [Episodes -> Nat]
      /\ ~disordered => /\ Ranked(rows \cup p, idOf', nextId + 1)
                        /\ \A S \in backup' : \A i, j \in S :
                              i < j => idOf'[i] < idOf'[j]
  BY <1>1, <1>2, NewIsLast
<1>4. /\ p \subseteq life' /\ rows \subseteq life' /\ p \cap rows = {}
      /\ m \subseteq life' /\ rows \subseteq Episodes /\ p \subseteq Episodes
      /\ nextId \in Nat /\ nextId + 1 \in Nat
      /\ faults \in 0..MaxFaults /\ wipes' \in 0..MaxWipes
      /\ async' \in BOOLEAN /\ disordered \in BOOLEAN /\ made \in BOOLEAN
  <2>1. /\ rows \subseteq life /\ pending \subseteq life /\ mirror \subseteq life
        /\ rows \cap pending = {} /\ life \subseteq 1..appended
        /\ life \subseteq Episodes
    BY LanceState
  <2>2. New \in life' /\ life \subseteq life' /\ New \notin rows
    BY <1>2, <2>1
  <2>3. p \subseteq life' /\ rows \subseteq life' /\ p \cap rows = {}
    BY <2>1, <2>2
  <2>4. m \subseteq life'
    BY <2>1, <2>2
  <2>5. rows \subseteq Episodes /\ p \subseteq Episodes
    BY <1>2, <2>1
  <2>6. nextId \in Nat /\ nextId + 1 \in Nat
    BY LanceState
  <2>7. /\ faults \in 0..MaxFaults /\ wipes' \in 0..MaxWipes
        /\ async' \in BOOLEAN /\ disordered \in BOOLEAN /\ made \in BOOLEAN
    BY <1>2, LanceState
  <2> HIDE DEF p, m
  <2> QED
    BY <2>3, <2>4, <2>5, <2>6, <2>7
<1>5. \A S \in backup' : /\ S \subseteq Episodes /\ S \subseteq 1..appended'
                         /\ p \cap S = {}
  BY <1>2, LanceState
<1>6. /\ recall' \in {"unloaded", "loaded", "disabled"}
      /\ recall' = "loaded" => /\ rows \cup p \subseteq m
                               /\ faults = 0 => m = rows \cup p
  BY <1>1, LanceState
<1>7. /\ sinceWrites \in Nat /\ sinceWrites < PruneInterval + faults
      /\ since \in Nat /\ due \in BOOLEAN
  BY LanceState, RowsAssumption
<1>8. CASE /\ Opens(nextId + 1) /\ pending' = {}
           /\ Adds(p, due, m, idOf')
           /\ sinceWrites' = IF due THEN 0 ELSE since
  <2>1. /\ nextId' \in Nat /\ made' \in BOOLEAN /\ disordered' \in BOOLEAN
        /\ ~disordered' => ~disordered /\ nextId' = nextId + 1
    BY <1>4, <1>8, OpensEffect
  <2>2. /\ rows' \subseteq rows \cup p /\ mirror' \subseteq m /\ faults' = faults
        /\ rows \cup p \subseteq m => rows' \subseteq mirror'
        /\ m = rows \cup p => mirror' = rows'
    <3> DEFINE ids == idOf'
               all == rows \cup p
               gone == IF due THEN Victims(all, ids) ELSE {}
    <3>1. /\ rows' = all \ gone /\ mirror' = Masked(m, gone, ids)
          /\ faults' = faults
      BY <1>8 DEF Adds
    <3>2. gone = {} \/ gone = Victims(all, ids)
      OBVIOUS
    <3>3. all \subseteq Episodes /\ ids \in [Episodes -> Nat]
      BY <1>3, <1>4
    <3> HIDE DEF p, m, all, ids, gone
    <3>4. /\ gone \subseteq all /\ Masked(m, gone, ids) \subseteq m
          /\ all \subseteq m => all \ gone \subseteq Masked(m, gone, ids)
          /\ m = all => Masked(m, gone, ids) = all \ gone
      BY <3>2, <3>3, MaskedKeepsRows
    <3>5. /\ rows' \subseteq all /\ mirror' \subseteq m /\ faults' = faults
          /\ all \subseteq m => rows' \subseteq mirror'
          /\ m = all => mirror' = rows'
      BY <3>1, <3>4
    <3> QED
      BY <3>5 DEF all
  <2>3. Due' /\ sinceWrites' \in 0..(PruneInterval + MaxFaults)
    <3>1. sinceWrites' \in Nat /\ sinceWrites' < PruneInterval + faults
      BY <1>4, <1>7, <1>8, RowsAssumption
    <3> QED
      BY <1>4, <2>2, <3>1, WritesBounded DEF Due
  <2> HIDE DEF p, m
  <2>4. recall' = "loaded" => /\ rows' \cup pending' \subseteq mirror'
                              /\ faults' = 0 => mirror' = rows' \cup pending'
    BY <1>6, <1>8, <2>2
  <2>5. ~disordered' => /\ Ranked(rows' \cup pending', idOf', nextId')
                        /\ \A S \in backup' : \A i, j \in S :
                              i < j => idOf'[i] < idOf'[j]
    BY <1>3, <1>8, <2>1, <2>2 DEF Ranked
  <2> QED
    BY <1>2, <1>3, <1>4, <1>5, <1>6, <1>8, <2>1, <2>2, <2>3, <2>4, <2>5,
       LanceStepInv, NothingPending
<1>9. CASE /\ Opens(nextId + 1) /\ pending' = {}
           /\ AddRaises(p, m)
           /\ sinceWrites' = IF flushes THEN since ELSE 0
  <2>1. /\ nextId' \in Nat /\ made' \in BOOLEAN /\ disordered' \in BOOLEAN
        /\ ~disordered' => ~disordered /\ nextId' = nextId + 1
    BY <1>4, <1>9, OpensEffect
  <2>2. /\ rows' = rows /\ mirror' = m /\ faults' = faults + 1
        /\ faults' \in 0..MaxFaults /\ faults' # 0
    BY <1>4, <1>9, RowsAssumption DEF AddRaises
  <2>3. Due' /\ sinceWrites' \in 0..(PruneInterval + MaxFaults)
    <3> DEFINE f == faults'
    <3>1. f = faults + 1 /\ f \in 0..MaxFaults
      BY <2>2
    <3> HIDE DEF f
    <3>2. sinceWrites' \in Nat /\ sinceWrites' < PruneInterval + f
      BY <1>4, <1>7, <1>9, <3>1, RowsAssumption
    <3>3. sinceWrites' \in 0..(PruneInterval + MaxFaults)
      BY <3>1, <3>2, WritesBounded
    <3> QED
      BY <3>2, <3>3 DEF Due, f
  <2> HIDE DEF p, m
  <2>4. recall' = "loaded" => /\ rows' \cup pending' \subseteq mirror'
                              /\ faults' = 0 => mirror' = rows' \cup pending'
    BY <1>6, <1>9, <2>2
  <2>5. ~disordered' => /\ Ranked(rows' \cup pending', idOf', nextId')
                        /\ \A S \in backup' : \A i, j \in S :
                              i < j => idOf'[i] < idOf'[j]
    BY <1>3, <1>9, <2>1, <2>2 DEF Ranked
  <2> QED
    BY <1>2, <1>3, <1>4, <1>5, <1>6, <1>9, <2>1, <2>2, <2>3, <2>4, <2>5,
       LanceStepInv, NothingPending
<1>10. CASE /\ ~flushes /\ ~due
            /\ pending' = p /\ nextId' = nextId + 1 /\ mirror' = m
            /\ sinceWrites' = since
            /\ UNCHANGED <<rows, made, disordered, faults>>
  <2>1. Due' /\ sinceWrites' \in 0..(PruneInterval + MaxFaults)
    BY <1>4, <1>7, <1>10, RowsAssumption DEF Due
  <2>2. Cardinality(pending') < BufferMax
    <3>1. Cardinality(p) \in Nat /\ ~(Cardinality(p) >= BufferMax)
      BY <1>4, <1>10, EpisodesFinite
    <3> QED
      BY <1>10, <3>1, LanceAssumption
  <2> HIDE DEF p, m
  <2>3. recall' = "loaded" => /\ rows' \cup pending' \subseteq mirror'
                              /\ faults' = 0 => mirror' = rows' \cup pending'
    BY <1>6, <1>10
  <2>4. ~disordered' => /\ Ranked(rows' \cup pending', idOf', nextId')
                        /\ \A S \in backup' : \A i, j \in S :
                              i < j => idOf'[i] < idOf'[j]
    BY <1>3, <1>10
  <2>5. rows' \cap pending' = {} /\ rows' \subseteq life' /\ pending' \subseteq life'
        /\ mirror' \subseteq life'
        /\ \A S \in backup' : pending' \cap S = {}
    BY <1>4, <1>5, <1>10
  <2> QED
    BY <1>2, <1>3, <1>4, <1>5, <1>6, <1>10, <2>1, <2>2, <2>3, <2>4, <2>5,
       LanceStepInv
<1> QED
  BY <1>1, <1>8, <1>9, <1>10

LEMMA LanceInv ==
    ASSUME EpInv, Lance
    PROVE  EpInv'
<1>1. CASE LanceAppend
  BY <1>1, LanceAppendInv
<1>2. CASE LanceSearch
  BY <1>2, LanceSearchInv
<1>3. CASE LanceClear
  BY <1>3, LanceClearInv
<1>4. CASE LanceBackup
  BY <1>4, LanceBackupInv
<1>5. CASE LanceRestore
  BY <1>5, LanceRestoreInv
<1>6. CASE \E on \in BOOLEAN : LanceSetAsync(on)
  BY <1>6, LanceSetAsyncInv
<1> QED
  BY <1>1, <1>2, <1>3, <1>4, <1>5, <1>6 DEF Lance, LanceNext

LEMMA InitInv == Init => EpInv
<1> SUFFICES ASSUME Init
             PROVE  EpInv
  OBVIOUS
<1> USE DEF Init, RowsInit, SqliteInit, LanceInit
<1>1. Items(<<>>) = {} /\ Lined(<<>>) /\ <<>> \in Seq(Episodes) /\ Len(<<>>) = 0
  BY EmptyQueue
<1>2. EpTypeOK
  <2>1. /\ appended \in 0..MaxEpisodes /\ salience \in [Episodes -> Saliences]
        /\ life \subseteq Episodes /\ rows \subseteq Episodes
        /\ idOf \in [Episodes -> Nat] /\ nextId \in Nat
    BY RowsAssumption
  <2>2. /\ sinceWrites \in 0..(PruneInterval + MaxFaults)
        /\ faults \in 0..MaxFaults /\ wipes \in 0..MaxWipes
    BY RowsAssumption
  <2>3. /\ \A S \in backup : S \subseteq Episodes
        /\ async \in BOOLEAN /\ disordered \in BOOLEAN /\ made \in BOOLEAN
        /\ joining \in Calls \cup {"no"} /\ cache \subseteq Episodes
        /\ recall \in {"unloaded", "loaded", "disabled"}
        /\ mirror \subseteq Episodes
    OBVIOUS
  <2>4. /\ queue \in Seq(Episodes) /\ Len(queue) <= QueueMax
        /\ batch \in Seq(Episodes) /\ Len(batch) <= BatchMax
    BY <1>1, WriteBehindAssumption
  <2>5. pending \subseteq Episodes /\ Cardinality(pending) < BufferMax
    BY NothingPending
  <2> QED
    BY <2>1, <2>2, <2>3, <2>4, <2>5 DEF EpTypeOK
<1>3. Due /\ OneBackend
  BY RowsAssumption, BackendsAssumption DEF Due, OneBackend
<1>4. Waiting = {}
  BY <1>1 DEF Waiting
<1>5. Lived /\ Apart /\ InOrder /\ Recalled
  BY <1>1, <1>4 DEF Lived, Apart, InOrder, Recalled, Ranked
<1> QED
  BY <1>2, <1>3, <1>5 DEF EpInv

LEMMA StutterInv ==
    ASSUME EpInv, UNCHANGED vars
    PROVE  EpInv'
<1>1. UNCHANGED quiet /\ async' = async /\ joining' = joining
  BY DEF vars, rowVars, sqliteVars, quiet
<1>2. /\ async' \in BOOLEAN /\ joining' \in Calls \cup {"no"}
      /\ backend = "lancedb" => joining' = "no"
  BY <1>1 DEF EpInv, EpTypeOK, OneBackend
<1> QED
  BY <1>1, <1>2, QuietStep

LEMMA NextInv == EpInv /\ [Next]_vars => EpInv'
  BY SqliteInv, LanceInv, StutterInv DEF Next

(* The invariant holds in every reachable state.                           *)
THEOREM EpisodicInvariant == Spec => []EpInv
<1> QED
  BY InitInv, NextInv, PTL DEF Spec

(* Types: also that neither the queue, the batch nor the buffer outgrows   *)
(* its limit, and that a pruning is not put off for longer than the writes *)
(* that failed.                                                            *)
THEOREM EpisodicTypes == Spec => []EpTypeOK
<1>1. EpInv => EpTypeOK
  BY DEF EpInv
<1> QED
  BY <1>1, EpisodicInvariant, PTL

(* Recall has what the agent has lived through, at once and no more: what  *)
(* _recall_items and the mirror of the table give to a search.             *)
THEOREM RecallIsHonest == Spec => []RecallHonest
<1>1. EpInv => RecallHonest
  BY DEF EpInv, Lived, Recalled, RecallHonest
<1> QED
  BY <1>1, EpisodicInvariant, PTL

-----------------------------------------------------------------------------
(* What a step does to the episodes that are known.                        *)

Known == Waiting \cup rows \cup ((appended + 1)..appended')
Gone == Known \ (rows' \cup Waiting')

(* It appends or stores, and what is lost is lost to a fault or to a       *)
(* pruning that leaves the newest.                                         *)
Works ==
    /\ appended' \in {appended, appended + 1} /\ backup' = backup
    /\ Waiting' \subseteq Known \ rows /\ rows' \subseteq Known
    /\ faults' >= faults
    /\ Gone # {} => faults' > faults \/ Cardinality(rows') >= RecentCap
    /\ ~disordered' => \A n \in Gone : \/ faults' > faults
                                       \/ Cardinality({m \in rows' : m > n}) >= RecentCap

(* Or it changes none of it.                                               *)
Rests == UNCHANGED <<appended, Waiting, rows, backup, faults>>

(* Or it is a call that sets the store as a whole.                         *)
Resets ==
    \/ Log!Snapshot
    \/ Log!Clear /\ wipes' > wipes
    \/ Log!Restore /\ wipes' > wipes

LEMMA NothingAppended ==
    ASSUME EpInv, appended' = appended
    PROVE  (appended + 1)..appended' = {}
<1>1. appended \in Nat
  BY RowsAssumption DEF EpInv, EpTypeOK
<1> QED
  BY <1>1

(* A write of s by the sqlite store, with or without a fault.              *)
LEMMA PersistsWorks ==
    ASSUME EpInv, NEW s \in Seq(Episodes), Lined(s), Persists(s),
           Items(s) \subseteq Known, Gone \subseteq (rows \cup Items(s)) \ rows',
           ~disordered' => /\ Ranked(rows, idOf, nextId + 1)
                           /\ \A n \in rows, m \in Items(s) : n < m,
           appended' \in {appended, appended + 1}, backup' = backup,
           Waiting' \subseteq Known \ rows
    PROVE  Works
<1>1. /\ rows' \subseteq rows \cup Items(s) /\ faults <= faults'
      /\ faults' \in Nat /\ faults \in Nat
  <2>1. EpTypeOK /\ Due
    BY DEF EpInv
  <2> QED
    BY <2>1, PersistsKeepsTypes, RowsAssumption DEF EpTypeOK
<1>2. rows' \subseteq Known
  BY <1>1 DEF Known
<1>3. CASE faults' = faults
  <2> DEFINE lost == (rows \cup Items(s)) \ rows'
  <2>1. EpTypeOK
    BY DEF EpInv
  <2>2. /\ lost # {} => Cardinality(rows') >= RecentCap
        /\ Ranked(rows, idOf, nextId + 1) /\ (\A n \in rows, m \in Items(s) : n < m)
           => \A n \in lost : Cardinality({m \in rows' : m > n}) >= RecentCap
    BY <1>3, <2>1, PersistsLosesVictims
  <2>3. Gone \subseteq lost
    OBVIOUS
  <2> HIDE DEF lost
  <2> QED
    BY <1>1, <1>2, <2>2, <2>3 DEF Works
<1>4. CASE faults' # faults
  <2>1. faults' > faults /\ faults' >= faults
    BY <1>1, <1>4
  <2> QED
    BY <1>2, <2>1 DEF Works
<1> QED
  BY <1>3, <1>4

LEMMA AppendWorks ==
    ASSUME EpInv, Sqlite, Append_
    PROVE  Works
<1>1. /\ New \in Episodes /\ appended' = New /\ New = appended + 1
      /\ \A n \in 1..appended : n < New
      /\ (appended + 1)..appended' = {New} /\ backup' = backup
      /\ New \notin rows
  BY NewEpisode DEF EpInv, Lived, New, Append_
<1>2. Known = Waiting \cup rows \cup {New} /\ batch' = batch /\ pending' = pending
  BY <1>1 DEF Known, Append_, Sqlite, lanceVars
<1>3. Waiting \cap rows = {}
  BY DEF EpInv, Apart
<1>4. CASE /\ queue' = Append(queue, New) /\ Len(queue) < QueueMax
           /\ UNCHANGED <<rows, idOf, nextId, sinceWrites, disordered, faults>>
  <2>1. Items(queue') = Items(queue) \cup {New}
    <3>1. /\ queue \in Seq(Episodes) /\ Lined(queue)
          /\ Items(queue) \subseteq 1..appended
      BY DEF EpInv, EpTypeOK, Apart, Lived, Waiting
    <3> QED
      BY <1>1, <1>4, <3>1, QueueWithOneMore
  <2>2. Waiting' = Waiting \cup {New}
    BY <1>2, <2>1 DEF Waiting
  <2>3. faults' >= faults
    BY <1>4, RowsAssumption DEF EpInv, EpTypeOK
  <2>4. Gone = {} /\ Waiting' \subseteq Known \ rows /\ rows' \subseteq Known
    BY <1>1, <1>2, <1>3, <1>4, <2>2 DEF Gone
  <2> QED
    BY <1>1, <2>3, <2>4 DEF Works
<1>5. CASE /\ Persists(<<New>>) /\ queue' = queue
           /\ disordered' = (disordered \/ ~Drained)
  <2>1. /\ <<New>> \in Seq(Episodes) /\ Lined(<<New>>) /\ Items(<<New>>) = {New}
    BY <1>1, QueueOfOne
  <2>2. Waiting' = Waiting
    BY <1>2, <1>5 DEF Waiting
  <2>3. /\ Items(<<New>>) \subseteq Known /\ Waiting' \subseteq Known \ rows
        /\ Gone \subseteq (rows \cup Items(<<New>>)) \ rows'
    BY <1>2, <1>3, <2>1, <2>2 DEF Gone
  <2>4. ASSUME ~disordered'
        PROVE  /\ Ranked(rows, idOf, nextId + 1)
               /\ \A n \in rows, m \in Items(<<New>>) : n < m
    <3>1. ~disordered
      BY <1>5, <2>4, Zenon
    <3>2. backend = "sqlite" /\ pending = {}
      BY DEF Sqlite, EpInv, OneBackend
    <3>3. Ranked(rows, idOf, nextId + 1)
      BY <3>1, <3>2 DEF EpInv, InOrder, Unused
    <3>4. rows \subseteq 1..appended
      BY DEF EpInv, Lived
    <3> QED
      BY <1>1, <2>1, <3>3, <3>4
  <2> QED
    BY <1>1, <1>5, <2>1, <2>3, <2>4, PersistsWorks
<1> QED
  BY <1>4, <1>5 DEF Append_

LEMMA WorkerPersistsWorks ==
    ASSUME EpInv, Sqlite, WorkerPersists
    PROVE  Works
<1>1. /\ batch \in Seq(Episodes) /\ Lined(batch) /\ Persists(batch)
      /\ batch' = <<>> /\ queue' = queue /\ appended' = appended
      /\ backup' = backup /\ disordered' = disordered /\ pending' = pending
      /\ backend = "sqlite" /\ pending = {}
  BY DEF EpInv, EpTypeOK, Apart, OneBackend, WorkerPersists, workerFrame, Sqlite,
         lanceVars
<1>2. Items(batch') = {} /\ Waiting' = Items(queue) \cup pending
  BY <1>1, EmptyQueue DEF Waiting
<1>3. Waiting \cap rows = {}
  BY DEF EpInv, Apart
<1>4. Known = Waiting \cup rows
  BY <1>1, NothingAppended DEF Known
<1>5. /\ Items(batch) \subseteq Known /\ Waiting' \subseteq Known \ rows
      /\ Gone \subseteq (rows \cup Items(batch)) \ rows'
  BY <1>2, <1>3, <1>4 DEF Gone, Waiting
<1>6. ASSUME ~disordered'
      PROVE  /\ Ranked(rows, idOf, nextId + 1)
             /\ \A n \in rows, m \in Items(batch) : n < m
  BY <1>1, <1>6 DEF EpInv, InOrder, Unused
<1> QED
  BY <1>1, <1>5, <1>6, PersistsWorks

(* The calls that wait for the worker.                                     *)
LEMMA JoinEndsResets ==
    ASSUME EpInv, Sqlite, JoinEnds
    PROVE  Resets \/ Rests
<1> USE DEF lanceVars, joinFrame
<1>1. /\ Waiting = {} /\ queue = <<>> /\ batch = <<>> /\ pending = {}
      /\ Items(queue) = {}
  <2>1. Flushed \/ GoesSync
    BY DEF JoinEnds, Clears, BacksUp, Restores
  <2>2. Flushed
    BY <2>1 DEF GoesSync
  <2> QED
    BY <2>2, NothingWaits
<1>2. Waiting' = {}
  BY <1>1, EmptyQueue DEF JoinEnds, Clears, BacksUp, Restores, GoesSync, Waiting,
                          Sqlite
<1>3. CASE Clears
  <2>1. wipes' > wipes
    BY <1>3, RowsAssumption DEF Clears, Forgets, EpInv, EpTypeOK
  <2> QED
    BY <1>2, <1>3, <2>1 DEF Clears, Forgets, Resets, Log!Clear
<1>4. CASE BacksUp
  BY <1>1, <1>2, <1>4 DEF BacksUp, Resets, Log!Snapshot
<1>5. CASE Restores
  <2>1. wipes' > wipes
    BY <1>5, RowsAssumption DEF Restores, Forgets, EpInv, EpTypeOK
  <2> QED
    BY <1>2, <1>5, <2>1 DEF Restores, Forgets, Resets, Log!Restore
<1>6. CASE GoesSync
  BY <1>1, <1>2, <1>6 DEF GoesSync, rowVars, Rests
<1> QED
  BY <1>3, <1>4, <1>5, <1>6 DEF JoinEnds

LEMMA SqliteSteps ==
    ASSUME EpInv, Sqlite
    PROVE  Works \/ Rests \/ Resets
<1> USE DEF lanceVars
<1>1. CASE Append_
  BY <1>1, AppendWorks
<1>2. CASE GoesAsync
  BY <1>2 DEF GoesAsync, sqliteVars, Sqlite, Rests, Waiting
<1>3. CASE WorkerTakes
  <2>1. Items(queue') \cup Items(batch') = Items(queue) \cup Items(batch)
    BY <1>3, WorkerTakesItems
  <2> QED
    BY <1>3, <2>1 DEF WorkerTakes, workerFrame, Sqlite, Rests, Waiting
<1>4. CASE WorkerPersists
  BY <1>4, WorkerPersistsWorks
<1>5. CASE JoinEnds
  BY <1>5, JoinEndsResets
<1>6. CASE \E call \in Calls : Joins(call)
  BY <1>6 DEF Joins, Sqlite, Rests, Waiting
<1> QED
  BY <1>1, <1>2, <1>3, <1>4, <1>5, <1>6 DEF Sqlite, SqliteNext, WorkerStep

-----------------------------------------------------------------------------
(* The same of the default backend: the buffer p is added, and pruned, or  *)
(* the rows are lost.                                                      *)
LEMMA AddsWorks ==
    ASSUME EpInv, Lance, NEW p, p \subseteq Episodes, p \cap rows = {},
           NEW ids \in [Episodes -> Nat], NEW gone,
           rows' = (rows \cup p) \ gone, faults' = faults,
           gone = {} \/ gone = Victims(rows \cup p, ids),
           Known = rows \cup p, pending' = {},
           ~disordered' =>
               \A m, n \in rows \cup p : m < n => ids[m] < ids[n],
           appended' \in {appended, appended + 1}, backup' = backup
    PROVE  Works
<1> DEFINE all == rows \cup p
           V == Victims(all, ids)
<1>1. all \subseteq Episodes
  BY LanceState
<1>2. Waiting' = {} /\ rows' = all \ gone /\ Known = all
  BY NoQueue
<1>3. /\ V \subseteq all
      /\ V # {} => Cardinality(all \ V) >= RecentCap
      /\ (\A m, n \in all : m < n => ids[m] < ids[n]) =>
            \A n \in V : Cardinality({m \in all \ V : m > n}) >= RecentCap
  <2> HIDE DEF all
  <2> QED
    BY <1>1, VictimsSpareTheNewest
<1>4. ~disordered' => \A m, n \in all : m < n => ids[m] < ids[n]
  OBVIOUS
<1>5. gone = {} \/ gone = V
  OBVIOUS
<1> HIDE DEF all, V
<1>6. Gone = gone
  BY <1>2, <1>3, <1>5 DEF Gone
<1>7. faults' >= faults
  BY LanceState
<1>8. Waiting' \subseteq Known \ rows /\ rows' \subseteq Known
  BY <1>2
<1>9. CASE gone = {}
  BY <1>6, <1>7, <1>8, <1>9 DEF Works
<1>10. CASE gone = V
  BY <1>2, <1>3, <1>4, <1>6, <1>7, <1>8, <1>10 DEF Works
<1> QED
  BY <1>5, <1>9, <1>10

LEMMA RaisesWorks ==
    ASSUME EpInv, Lance, NEW p, NEW m, AddRaises(p, m),
           pending' = {}, appended' \in {appended, appended + 1}, backup' = backup
    PROVE  Works
<1>1. rows' = rows /\ faults' = faults + 1
  BY DEF AddRaises
<1>2. faults' > faults /\ faults' >= faults
  BY <1>1, LanceState
<1>3. Waiting' = {}
  BY NoQueue
<1>4. Waiting' \subseteq Known \ rows /\ rows' \subseteq Known
  BY <1>1, <1>3 DEF Known
<1> QED
  BY <1>2, <1>4 DEF Works

LEMMA LanceAppendWorks ==
    ASSUME EpInv, Lance, LanceAppend
    PROVE  Works
<1> DEFINE p == pending \cup {New}
           since == sinceWrites + 1
           due == since >= PruneInterval
           full == recall = "loaded" /\ Cardinality(mirror) >= MirrorCap
           m == IF recall = "loaded" /\ ~full THEN mirror \cup {New} ELSE {}
<1>1. /\ idOf' = [idOf EXCEPT ![New] = nextId] /\ Remember
      /\ \/ Opens(nextId + 1) /\ pending' = {} /\ Adds(p, due, m, idOf')
         \/ pending' = {} /\ AddRaises(p, m)
         \/ /\ pending' = p
            /\ UNCHANGED <<rows, made, disordered, faults>>
  BY DEF LanceAppend
<1>2. /\ New \in Episodes /\ appended' = New /\ New = appended + 1
      /\ (appended + 1)..appended' = {New} /\ backup' = backup /\ New \notin rows
  BY <1>1, NewEpisode DEF EpInv, Lived, New
<1>3. Known = rows \cup p /\ p \cap rows = {} /\ p \subseteq Episodes
  BY <1>2, NoQueue, LanceState DEF Known
<1>4. CASE Opens(nextId + 1) /\ pending' = {} /\ Adds(p, due, m, idOf')
  <2> DEFINE ids == idOf'
             gone == IF due THEN Victims(rows \cup p, ids) ELSE {}
  <2>1. rows' = (rows \cup p) \ gone /\ faults' = faults
    BY <1>4 DEF Adds
  <2>2. gone = {} \/ gone = Victims(rows \cup p, ids)
    OBVIOUS
  <2>3. ids \in [Episodes -> Nat]
    BY <1>1, NewIsLast
  <2>4. ASSUME ~disordered'
        PROVE  \A i, j \in rows \cup p : i < j => ids[i] < ids[j]
    <3>1. ~disordered
      BY <1>4, <2>4, Zenon DEF Opens
    <3>2. Ranked(rows \cup pending \cup {New}, ids, nextId + 1)
      BY <1>1, <3>1, NewIsLast
    <3>3. rows \cup pending \cup {New} = rows \cup p
      OBVIOUS
    <3> HIDE DEF ids, p
    <3> QED
      BY <3>2, <3>3 DEF Ranked
  <2> HIDE DEF p, ids, gone
  <2> QED
    BY <1>2, <1>3, <1>4, <2>1, <2>2, <2>3, <2>4, AddsWorks
<1>5. CASE pending' = {} /\ AddRaises(p, m)
  <2> HIDE DEF p, m
  <2> QED
    BY <1>2, <1>5, RaisesWorks
<1>6. CASE pending' = p /\ UNCHANGED <<rows, made, disordered, faults>>
  <2>1. Waiting' = p
    BY <1>6, NoQueue
  <2>2. Gone = {} /\ Waiting' \subseteq Known \ rows /\ rows' \subseteq Known
    BY <1>3, <1>6, <2>1 DEF Gone
  <2>3. faults' >= faults
    BY <1>6, LanceState
  <2> QED
    BY <1>2, <2>2, <2>3 DEF Works
<1> QED
  BY <1>1, <1>4, <1>5, <1>6

LEMMA LanceFlushWorks ==
    ASSUME EpInv, Lance, pending' = {}, appended' = appended, backup' = backup,
           \/ Adds(pending, FALSE, mirror, idOf) /\ Opens(nextId)
           \/ AddRaises(pending, mirror)
    PROVE  Works
<1>1. appended' \in {appended, appended + 1}
  OBVIOUS
<1>2. CASE Adds(pending, FALSE, mirror, idOf) /\ Opens(nextId)
  <2>1. rows' = (rows \cup pending) \ {} /\ faults' = faults
    BY <1>2 DEF Adds
  <2>2. Known = rows \cup pending
    BY NoQueue, NothingAppended DEF Known
  <2>3. ASSUME ~disordered'
        PROVE  \A m, n \in rows \cup pending : m < n => idOf[m] < idOf[n]
    <3>1. ~disordered
      BY <1>2, <2>3, Zenon DEF Opens
    <3> QED
      BY <3>1, LanceState DEF Ranked
  <2>4. /\ pending \subseteq Episodes /\ pending \cap rows = {}
        /\ idOf \in [Episodes -> Nat]
    BY LanceState
  <2> QED
    BY <1>1, <2>1, <2>2, <2>3, <2>4, AddsWorks
<1>3. CASE AddRaises(pending, mirror)
  BY <1>1, <1>3, RaisesWorks
<1> QED
  BY <1>2, <1>3

LEMMA LanceSteps ==
    ASSUME EpInv, Lance
    PROVE  Works \/ Rests \/ Resets
<1>1. CASE LanceAppend
  BY <1>1, LanceAppendWorks
<1>2. CASE LanceSearch
  BY <1>2, NoQueue DEF LanceSearch, rowVars, Rests
<1>3. CASE LanceClear
  <2>1. wipes' > wipes
    BY <1>3, LanceState DEF LanceClear, Forgets
  <2> QED
    BY <1>3, <2>1, NoQueue DEF LanceClear, Forgets, Resets, Log!Clear
<1>4. CASE LanceBackup
  <2>1. /\ Opens(nextId) /\ pending' = {} /\ appended' = appended
        /\ \/ Adds(pending, FALSE, mirror, idOf) /\ backup' = {rows'}
           \/ AddRaises(pending, mirror) /\ backup' = backup
    BY <1>4 DEF LanceBackup
  <2>2. CASE Adds(pending, FALSE, mirror, idOf) /\ backup' = {rows'}
    <3>1. rows' = rows \cup pending /\ faults' = faults
      BY <2>2 DEF Adds
    <3>2. Waiting = pending /\ Waiting' = {}
      BY <2>1, NoQueue
    <3> QED
      BY <2>1, <2>2, <3>1, <3>2 DEF Resets, Log!Snapshot
  <2>3. CASE AddRaises(pending, mirror) /\ backup' = backup
    BY <2>1, <2>3, LanceFlushWorks
  <2> QED
    BY <2>1, <2>2, <2>3
<1>5. CASE LanceRestore
  <2>1. wipes' > wipes
    BY <1>5, LanceState DEF LanceRestore, Forgets
  <2> QED
    BY <1>5, <2>1, NoQueue DEF LanceRestore, Forgets, Resets, Log!Restore
<1>6. CASE \E on \in BOOLEAN : LanceSetAsync(on)
  <2>1. appended' = appended /\ backup' = backup
    BY <1>6 DEF LanceSetAsync
  <2>2. CASE UNCHANGED <<rows, nextId, disordered, faults, pending, made, mirror>>
    BY <2>1, <2>2, NoQueue DEF Rests
  <2>3. CASE /\ pending' = {} /\ Opens(nextId)
             /\ Adds(pending, FALSE, mirror, idOf) \/ AddRaises(pending, mirror)
    BY <2>1, <2>3, LanceFlushWorks
  <2> QED
    BY <1>6, <2>2, <2>3 DEF LanceSetAsync, Flushes
<1> QED
  BY <1>1, <1>2, <1>3, <1>4, <1>5, <1>6 DEF Lance, LanceNext

LEMMA EpisodicSteps ==
    ASSUME EpInv, [Next]_vars
    PROVE  Works \/ Rests \/ Resets
<1>1. CASE UNCHANGED vars
  BY <1>1 DEF vars, rowVars, sqliteVars, lanceVars, Rests, Waiting
<1> QED
  BY <1>1, SqliteSteps, LanceSteps DEF Next

-----------------------------------------------------------------------------
(* A property of every step that keeps the invariant is one of Spec.       *)
Spares ==
    \A n \in Gone : wipes' > wipes \/ faults' > faults \/ disordered'
                    \/ Cardinality({m \in rows' : m > n}) >= RecentCap

LEMMA StepSpares ==
    ASSUME EpInv, [Next]_vars
    PROVE  Spares
<1>1. CASE Works
  BY <1>1 DEF Works, Spares
<1>2. CASE Rests
  BY <1>2, NothingAppended DEF Rests, Spares, Gone, Known
<1>3. CASE Resets
  <2>1. CASE Log!Snapshot
    <3>1. appended' = appended /\ Waiting' = {} /\ rows' = rows \cup Waiting
      BY <2>1 DEF Log!Snapshot
    <3> QED
      BY <3>1, NothingAppended DEF Spares, Gone, Known
  <2>2. CASE wipes' > wipes
    BY <2>2 DEF Spares
  <2> QED
    BY <1>3, <2>1, <2>2 DEF Resets
<1> QED
  BY <1>1, <1>2, <1>3, EpisodicSteps

(* Retention deletes no episode while it is one of the RecentCap newest,   *)
(* unless its write has failed or row ids do not follow the appends: what  *)
(* prune() and _prune_locked delete.                                       *)
THEOREM NewestAreKept == Spec => NewestKept
<1>1. EpInv /\ [Next]_vars =>
          [\A n \in (rows \cup Waiting \cup ((appended + 1)..appended'))
                        \ (rows' \cup Waiting') :
              wipes' > wipes \/ faults' > faults \/ disordered'
              \/ Cardinality({m \in rows' : m > n}) >= RecentCap]_vars
  BY StepSpares DEF Spares, Gone, Known
<1> QED
  BY <1>1, EpisodicInvariant, PTL DEF Spec, NewestKept

LEMMA LogCardinality == \A S : Log!Cardinality(S) = Cardinality(S)
  BY Zenon DEF Log!Cardinality, Cardinality

LEMMA StepOfLog ==
    ASSUME EpInv, EpInv', [Next]_vars
    PROVE  [Log!Next]_(Log!vars)
<1>1. CASE Works
  <2>1. Waiting' \cap rows' = {}
    BY DEF EpInv, Apart
  <2>2. /\ appended' \in {appended, appended + 1} /\ backup' = backup
        /\ Waiting' \subseteq Known \ rows /\ rows' \subseteq Known
        /\ Gone # {} => faults' > faults \/ Cardinality(rows') >= RecentCap
        /\ faults' >= faults
    BY <1>1 DEF Works
  <2>3. Log!Work
    BY <2>1, <2>2, LogCardinality DEF Log!Work, Gone, Known
  <2> QED
    BY <2>3 DEF Log!Next
<1>2. CASE Rests
  BY <1>2 DEF Rests, Log!vars
<1>3. CASE Resets
  BY <1>3 DEF Resets, Log!Next
<1> QED
  BY <1>1, <1>2, <1>3, EpisodicSteps

LEMMA InitOfLog == Init => Log!Init
<1> SUFFICES ASSUME Init
             PROVE  Log!Init
  OBVIOUS
<1>1. Waiting = {}
  BY EmptyQueue DEF Init, SqliteInit, LanceInit, Waiting
<1> QED
  BY <1>1 DEF Init, RowsInit, Log!Init

(* Whatever the backend, every behaviour of the store is one of            *)
(* EpisodeLog: what was appended is stored unless its write fails, a       *)
(* backup has all of it, and nothing of before lands after a clear.        *)
THEOREM StoreImplementsLog == Spec => ImplementsLog
<1>1. EpInv /\ EpInv' /\ [Next]_vars => [Log!Next]_(Log!vars)
  BY StepOfLog
<1> QED
  BY <1>1, InitOfLog, EpisodicInvariant, PTL DEF Spec, ImplementsLog, Log!Spec
=============================================================================
