------------------------- MODULE KuzuFlusherProofs -------------------------
(***************************************************************************)
(* KuzuFlusher for any number of threads, jobs, calls and faults, any      *)
(* graph and any sizes of the queues.  KuzuInv is about the control: jobs  *)
(* are applied in their order, the barrier counts what is under way, and a *)
(* call whose drain was in time swaps the files with nothing under way.    *)
(* DataInv is about the data: what is under way brings the database to     *)
(* what memory holds.                                                      *)
(***************************************************************************)
EXTENDS KuzuFlusher, KuzuGraphProofs

(* The batches in the hands of the threads, each with a number.            *)
InHands(fl) == {p \in Flushers \X (1..MergeMax) : p[2] <= fl[p[1]].n}

(* Where a thread has batches in hand, and where it has none.              *)
Busy == {"ready", "connected", "gone"}
Idle == {"absent", "waiting"}

Threads(B) == [at : Busy \cup Idle, batch : B, n : 0..MergeMax]

FlowOK ==
    /\ \E S : batches \in Seq(S)
    /\ Len(batches) <= QueueCap
    /\ \E B : flusher \in [Flushers -> Threads(B)]
    /\ \A f \in Flushers : flusher[f].n = 0 <=> flusher[f].at \in Idle

ScalarsOK ==
    /\ stop \in BOOLEAN /\ open \in BOOLEAN /\ late \in BOOLEAN
    /\ enqueued \in Nat /\ done \in Nat /\ orphaned \in Nat
    /\ current \in Flushers \cup {None}
    /\ call \in Calls \cup {None} /\ calls \in 0..MaxCalls
    /\ at \in {None, "draining", "joining", "swapping", "closed"}
    /\ call = None <=> at = None
    /\ faults \in 0..MaxFaults

(* The queue holds exactly the jobs issued after the last one applied.     *)
JobsOK ==
    /\ jobs \in Seq([n : 1..MaxJobs, key : Keys, val : Values])
    /\ Len(jobs) <= QueueMax /\ async \in BOOLEAN
    /\ issued \in 0..MaxJobs /\ applied \in Nat
    /\ issued = applied + Len(jobs)
    /\ \A i \in 1..Len(jobs) : jobs[i].n = applied + i

(* Nothing is queued, and every thread is idle.                            *)
Nothing == batches = <<>> /\ \A f \in Flushers : flusher[f].at \in Idle

(* Without a thread of the graph's own, and from the end of a drain that   *)
(* was in time, nothing is under way.                                      *)
Quiet ==
    ~late /\ (current = None \/ at \in {"joining", "swapping", "closed"}) => Nothing

Barrier == enqueued - done = orphaned + Len(batches) + Cardinality(InHands(flusher))

KuzuInv == JobsOK /\ FlowOK /\ ScalarsOK /\ Barrier /\ Quiet

(* What queueing does to the flow: at most one batch more, counted; no     *)
(* thread has batches it had not; and there is a thread for what is queued.*)
Queueing ==
    /\ FlowOK'
    /\ enqueued' \in Nat /\ enqueued' - Len(batches') = enqueued - Len(batches)
    /\ current' \in Flushers \cup {None} /\ stop' \in BOOLEAN
    /\ \A f \in Flushers : flusher'[f].n = flusher[f].n
    /\ current' = None => current = None /\ batches' = batches /\ flusher' = flusher

-----------------------------------------------------------------------------
(* Batches that enter and leave the hands of a thread.                     *)

LEMMA InHandsFinite ==
    ASSUME NEW fl
    PROVE  IsFiniteSet(InHands(fl)) /\ Cardinality(InHands(fl)) \in Nat
<1>1. IsFiniteSet(Flushers) /\ IsFiniteSet(1..MergeMax)
  BY FS_Interval, FlusherAssumption
<1>2. IsFiniteSet(Flushers \X (1..MergeMax))
  BY <1>1, FS_Product
<1>3. InHands(fl) \subseteq Flushers \X (1..MergeMax)
  BY DEF InHands
<1> QED BY <1>2, <1>3, FS_Subset, FS_CardinalityType

LEMMA UpToCount ==
    ASSUME NEW n \in Nat
    PROVE  IsFiniteSet(1..n) /\ Cardinality(1..n) = n
BY FS_Interval

LEMMA PairsCount ==
    ASSUME NEW f, NEW n \in Nat, NEW N,
           \A p : p \in N <=> \E i \in 1..n : p = <<f, i>>
    PROVE  IsFiniteSet(N) /\ Cardinality(N) = n
<1> DEFINE pair == [i \in 1..n |-> <<f, i>>]
<1>1. IsFiniteSet(1..n) /\ Cardinality(1..n) = n
  BY UpToCount
<1>2. pair \in Bijection(1..n, N)
  BY DEF Bijection, Injection, Surjection, IsInjective
<1> QED BY <1>1, <1>2, FS_Bijection DEF ExistsBijection

(* A thread whose hands are empty takes n batches.                         *)
LEMMA HandsFill ==
    ASSUME NEW fl, NEW new, NEW f \in Flushers, NEW n \in 0..MergeMax,
           fl[f].n = 0, new[f].n = n,
           \A x \in Flushers \ {f} : new[x].n = fl[x].n
    PROVE  Cardinality(InHands(new)) = Cardinality(InHands(fl)) + n
<1> DEFINE N == {<<f, i>> : i \in 1..n}
           K == InHands(fl)
<1>0. n \in Nat /\ n <= MergeMax /\ MergeMax \in Nat
  BY FlusherAssumption
<1>1. InHands(new) = K \cup N
  <2>1. ASSUME NEW p \in InHands(new) PROVE p \in K \cup N
    <3>1. PICK x \in Flushers, i \in 1..MergeMax : p = <<x, i>> /\ i <= new[x].n
      BY <2>1 DEF InHands
    <3>2. CASE x = f
      BY <3>1, <3>2, <1>0
    <3>3. CASE x # f
      <4>1. i <= fl[x].n
        BY <3>1, <3>3
      <4> QED BY <3>1, <4>1 DEF InHands
    <3> QED BY <3>2, <3>3
  <2>2. ASSUME NEW p \in K PROVE p \in InHands(new)
    <3>1. PICK x \in Flushers, i \in 1..MergeMax : p = <<x, i>> /\ i <= fl[x].n
      BY <2>2 DEF InHands
    <3>2. x # f
      BY <3>1, <1>0
    <3>3. i <= new[x].n
      BY <3>1, <3>2
    <3> QED BY <3>1, <3>3 DEF InHands
  <2>3. ASSUME NEW p \in N PROVE p \in InHands(new)
    <3>1. PICK i \in 1..n : p = <<f, i>>
      BY <2>3
    <3>2. i \in 1..MergeMax /\ i <= new[f].n
      BY <3>1, <1>0
    <3> QED BY <3>1, <3>2 DEF InHands
  <2> QED BY <2>1, <2>2, <2>3
<1>2. K \cap N = {}
  <2> SUFFICES ASSUME NEW p \in K, p \in N PROVE FALSE
    OBVIOUS
  <2>1. PICK i \in 1..n : p = <<f, i>>
    OBVIOUS
  <2>2. PICK x \in Flushers, j \in 1..MergeMax : p = <<x, j>> /\ j <= fl[x].n
    BY DEF InHands
  <2> QED BY <2>1, <2>2, <1>0
<1>3. IsFiniteSet(K) /\ Cardinality(K) \in Nat
  BY InHandsFinite
<1>4. IsFiniteSet(N) /\ Cardinality(N) = n
  <2>1. \A p : p \in N <=> \E i \in 1..n : p = <<f, i>>
    OBVIOUS
  <2> HIDE DEF N
  <2> QED BY <2>1, PairsCount, <1>0
<1> HIDE DEF K, N
<1>5. Cardinality(K \cap N) = 0
  BY <1>2, FS_EmptySet
<1>6. Cardinality(K \cup N) = Cardinality(K) + n
  <2>1. Cardinality(K \cup N) = Cardinality(K) + Cardinality(N) - Cardinality(K \cap N)
    BY <1>3, <1>4, FS_Union
  <2> QED BY <2>1, <1>0, <1>3, <1>4, <1>5
<1> QED BY <1>1, <1>6 DEF K

(* No batch changes hands.                                                 *)
LEMMA HandsStay ==
    ASSUME NEW fl, NEW new, \A f \in Flushers : new[f].n = fl[f].n
    PROVE  InHands(new) = InHands(fl)
BY DEF InHands

(* Hands that are all empty.                                               *)
LEMMA HandsEmpty ==
    ASSUME NEW fl, \A f \in Flushers : fl[f].n = 0
    PROVE  Cardinality(InHands(fl)) = 0
<1>1. InHands(fl) = {}
  BY DEF InHands
<1> QED BY <1>1, FS_EmptySet

(* A thread that has a batch in hand is counted.                           *)
LEMMA HandsCounted ==
    ASSUME NEW fl, NEW f \in Flushers, fl[f].n \in Nat \ {0}
    PROVE  Cardinality(InHands(fl)) # 0
<1>1. <<f, 1>> \in InHands(fl)
  BY FlusherAssumption DEF InHands
<1>2. InHands(fl) # {}
  BY <1>1
<1> HIDE DEF InHands
<1> QED BY <1>2, InHandsFinite, FS_EmptySet

-----------------------------------------------------------------------------
(* Queueing                                                                *)

(* One thread of all changes.                                              *)
LEMMA ThreadSet ==
    ASSUME NEW B, flusher \in [Flushers -> Threads(B)], NEW f, NEW b,
           NEW a \in Busy \cup Idle, NEW n \in 0..MergeMax,
           \A x \in Flushers : flusher[x].n = 0 <=> flusher[x].at \in Idle,
           n = 0 <=> a \in Idle,
           flusher' = [flusher EXCEPT ![f] = [at |-> a, batch |-> b, n |-> n]]
    PROVE  /\ \E C : flusher' \in [Flushers -> Threads(C)]
           /\ \A x \in Flushers : flusher'[x].n = 0 <=> flusher'[x].at \in Idle
<1> DEFINE C == B \cup {b}
           r == [at |-> a, batch |-> b, n |-> n]
<1>1. \A x \in Flushers : flusher[x] \in Threads(C)
  <2> TAKE x \in Flushers
  <2>1. flusher[x] \in Threads(B)
    OBVIOUS
  <2> QED BY <2>1 DEF Threads
<1>2. r \in Threads(C)
  BY DEF Threads
<1> HIDE DEF C
<1>3. flusher' = [flusher EXCEPT ![f] = r]
  OBVIOUS
<1>4. r.n = n /\ r.at = a
  OBVIOUS
<1> HIDE DEF r
<1>5. flusher' \in [Flushers -> Threads(C)]
  BY <1>1, <1>2, <1>3
<1>6. ASSUME NEW x \in Flushers PROVE flusher'[x].n = 0 <=> flusher'[x].at \in Idle
  BY <1>3, <1>4
<1> QED BY <1>5, <1>6

(* A batch enters a queue below its cap, or the last one grows.            *)
LEMMA QueueSet ==
    ASSUME FlowOK, NEW s,
           \/ ~AtCap /\ batches' = Append(batches, s)
           \/ AtCap /\ batches' = [batches EXCEPT ![Len(batches)] = s]
    PROVE  /\ \E S : batches' \in Seq(S)
           /\ Len(batches') <= QueueCap /\ Len(batches') \in Nat
           /\ Len(batches') = IF AtCap THEN Len(batches) ELSE Len(batches) + 1
<1>1. PICK S : batches \in Seq(S)
  BY DEF FlowOK
<1> DEFINE T == S \cup {s}
<1>2. batches \in Seq(T) /\ s \in T
  BY <1>1
<1> HIDE DEF T
<1>3. CASE ~AtCap
  BY <1>2, <1>3, FlusherAssumption DEF FlowOK, AtCap
<1>4. CASE AtCap
  <2>1. Len(batches) \in 1..Len(batches)
    BY <1>2, <1>4, FlusherAssumption DEF FlowOK, AtCap
  <2>2. batches' = [batches EXCEPT ![Len(batches)] = s]
    BY <1>4
  <2>3. batches' \in Seq(T) /\ Len(batches') = Len(batches)
    BY <1>2, <2>1, <2>2
  <2> QED BY <2>3, <1>4 DEF FlowOK
<1> QED BY <1>3, <1>4

LEMMA NoFlushQueues ==
    ASSUME KuzuInv, NEW h, NoFlush(h)
    PROVE  Queueing
BY DEF KuzuInv, FlowOK, ScalarsOK, Queueing, NoFlush

LEMMA FlushQueues ==
    ASSUME KuzuInv, NEW h, Flush(h)
    PROVE  Queueing
<1> DEFINE s == Resolved(h.pending, known)
           m == Merged(batches[Len(batches)] \o s)
<1>0. FlowOK /\ enqueued \in Nat /\ stop \in BOOLEAN /\ current \in Flushers \cup {None}
  BY DEF KuzuInv, ScalarsOK
<1>1. \/ ~AtCap /\ batches' = Append(batches, s)
      \/ AtCap /\ batches' = [batches EXCEPT ![Len(batches)] = m]
  BY DEF Flush
<1>2. enqueued' = IF AtCap THEN enqueued ELSE enqueued + 1
  BY DEF Flush
<1>3. \/ Alive(current) /\ UNCHANGED <<current, stop, flusher>>
      \/ \E f \in {x \in Flushers : ~Alive(x)} :
            /\ current' = f /\ stop' = FALSE
            /\ flusher' = [flusher EXCEPT ![f] = Waiting]
  BY DEF Flush
<1> HIDE DEF s, m
<1>4. /\ \E S : batches' \in Seq(S)
      /\ Len(batches') <= QueueCap /\ Len(batches') \in Nat
      /\ Len(batches') = IF AtCap THEN Len(batches) ELSE Len(batches) + 1
  BY <1>0, <1>1, QueueSet
<1>5. Len(batches) \in Nat
  BY <1>0 DEF FlowOK
<1>6. enqueued' \in Nat /\ enqueued' - Len(batches') = enqueued - Len(batches)
  BY <1>0, <1>2, <1>4, <1>5
<1>7. PICK B : flusher \in [Flushers -> Threads(B)]
  BY <1>0 DEF FlowOK
<1>8. CASE Alive(current) /\ UNCHANGED <<current, stop, flusher>>
  <2>1. current' # None
    BY <1>8 DEF Alive
  <2> QED BY <1>0, <1>4, <1>6, <1>8, <2>1 DEF Queueing, FlowOK
<1>9. ASSUME NEW f \in Flushers, ~Alive(f), current' = f, stop' = FALSE,
             flusher' = [flusher EXCEPT ![f] = Waiting]
      PROVE  Queueing
  <2>1. f # None
    BY FlusherAssumption DEF None
  <2>2. flusher[f].at = "absent"
    BY <1>9, <2>1 DEF Alive
  <2>3. flusher[f].n = 0
    BY <1>0, <2>2 DEF FlowOK, Idle
  <2>4. Waiting = [at |-> "waiting", batch |-> <<>>, n |-> 0]
    BY DEF Waiting, Absent
  <2>5. flusher' = [flusher EXCEPT ![f] = [at |-> "waiting", batch |-> <<>>, n |-> 0]]
    BY <1>9, <2>4
  <2>6. "waiting" \in Busy \cup Idle /\ 0 \in 0..MergeMax /\ "waiting" \in Idle
    BY FlusherAssumption DEF Idle
  <2>7. /\ \E C : flusher' \in [Flushers -> Threads(C)]
        /\ \A x \in Flushers : flusher'[x].n = 0 <=> flusher'[x].at \in Idle
    BY <1>0, <1>7, <2>5, <2>6, ThreadSet DEF FlowOK
  <2>8. \A x \in Flushers : flusher'[x].n = flusher[x].n
    BY <1>7, <2>3, <2>5
  <2> QED BY <1>4, <1>6, <1>9, <2>1, <2>7, <2>8 DEF Queueing, FlowOK
<1> QED BY <1>3, <1>8, <1>9

LEMMA CommitQueues ==
    ASSUME KuzuInv, NEW h, Commit(h)
    PROVE  Queueing
BY NoFlushQueues, FlushQueues DEF Commit

(* Queueing, when the barrier is not being waited for, or is not yet.      *)
LEMMA QueueingKeeps ==
    ASSUME KuzuInv, Queueing, UNCHANGED <<done, late, orphaned>>,
           at' \in {None, "draining"}
    PROVE  FlowOK' /\ Barrier' /\ Quiet'
<1>1. InHands(flusher') = InHands(flusher)
  BY HandsStay DEF Queueing
<1>2. enqueued' - Len(batches') = enqueued - Len(batches)
  BY DEF Queueing
<1>3. /\ enqueued \in Nat /\ done \in Nat /\ orphaned \in Nat /\ enqueued' \in Nat
      /\ Len(batches) \in Nat /\ Len(batches') \in Nat
      /\ Cardinality(InHands(flusher)) \in Nat
  BY InHandsFinite DEF KuzuInv, ScalarsOK, Queueing, FlowOK
<1>4. enqueued' - done = orphaned + Len(batches') + Cardinality(InHands(flusher))
  BY <1>2, <1>3 DEF KuzuInv, Barrier
<1>5. Barrier'
  BY <1>1, <1>4 DEF Barrier
<1>6. Quiet'
  BY DEF KuzuInv, Quiet, Queueing, Nothing, None
<1> QED BY <1>5, <1>6 DEF Queueing

-----------------------------------------------------------------------------
(* Jobs                                                                    *)

LEMMA JobsStay ==
    ASSUME JobsOK, UNCHANGED jobVars
    PROVE  JobsOK'
BY DEF JobsOK, jobVars

LEMMA FlowStays ==
    ASSUME FlowOK, Barrier, UNCHANGED <<batches, flusher, enqueued, done, orphaned>>
    PROVE  FlowOK' /\ Barrier'
BY DEF FlowOK, Barrier

(* The oldest job leaves the queue and is the last one applied.            *)
LEMMA HeadLeaves ==
    ASSUME JobsOK, jobs # <<>>, jobs' = Tail(jobs), applied' = Head(jobs).n,
           UNCHANGED <<issued, async>>
    PROVE  JobsOK' /\ applied' > applied
<1> DEFINE T == [n : 1..MaxJobs, key : Keys, val : Values]
<1>0. /\ jobs \in Seq(T) /\ Len(jobs) <= QueueMax /\ issued = applied + Len(jobs)
      /\ \A i \in 1..Len(jobs) : jobs[i].n = applied + i
      /\ applied \in Nat /\ Len(jobs) \in Nat
  BY DEF JobsOK
<1> HIDE DEF T
<1>1. Len(jobs) # 0
  BY <1>0
<1>2. jobs' \in Seq(T) /\ Len(jobs') = Len(jobs) - 1
  BY <1>0, <1>1
<1>3. applied' = applied + 1
  BY <1>0, <1>1
<1>4. \A i \in 1..Len(jobs') : jobs'[i] = jobs[i + 1]
  BY <1>0, <1>1
<1>5. ASSUME NEW i \in 1..Len(jobs') PROVE jobs'[i].n = applied' + i
  <2>1. i + 1 \in 1..Len(jobs)
    BY <1>0, <1>1, <1>2
  <2>2. jobs[i + 1].n = applied + (i + 1)
    BY <2>1, <1>0
  <2>3. jobs'[i] = jobs[i + 1]
    BY <1>4
  <2>4. applied + (i + 1) = applied' + i
    <3>1. i \in Nat
      BY <1>0, <1>2
    <3>2. applied + (i + 1) = (applied + 1) + i
      BY <1>0, <3>1
    <3> QED BY <3>2, <1>3
  <2> QED BY <2>2, <2>3, <2>4
<1>6. issued = applied' + Len(jobs')
  BY <1>0, <1>2, <1>3
<1>7. Len(jobs') <= QueueMax
  BY <1>0, <1>2, FlusherAssumption
<1> QED BY <1>0, <1>2, <1>3, <1>5, <1>6, <1>7 DEF JobsOK, T

LEMMA JobEnters ==
    ASSUME JobsOK, EnqueueJob
    PROVE  JobsOK'
<1> DEFINE T == [n : 1..MaxJobs, key : Keys, val : Values]
<1>0. /\ jobs \in Seq(T) /\ issued = applied + Len(jobs)
      /\ \A i \in 1..Len(jobs) : jobs[i].n = applied + i
      /\ applied \in Nat /\ Len(jobs) \in Nat /\ issued \in 0..MaxJobs
      /\ async' \in BOOLEAN /\ applied' = applied
  BY DEF JobsOK, EnqueueJob
<1>1. PICK job \in Jobs : jobs' = Append(jobs, job)
  BY DEF EnqueueJob
<1>2. issued < MaxJobs /\ issued' = issued + 1 /\ Len(jobs) < QueueMax
  BY DEF EnqueueJob, Issue
<1>3. job \in T /\ job.n = issued + 1
  BY <1>0, <1>1, <1>2, FlusherAssumption DEF Jobs
<1> HIDE DEF T
<1>4. jobs' \in Seq(T) /\ Len(jobs') = Len(jobs) + 1
  BY <1>0, <1>1, <1>3
<1>5. ASSUME NEW i \in 1..Len(jobs') PROVE jobs'[i].n = applied' + i
  BY <1>0, <1>1, <1>3, <1>4
<1>6. issued' = applied' + Len(jobs') /\ issued' \in 0..MaxJobs /\ Len(jobs') <= QueueMax
  BY <1>0, <1>2, <1>4, FlusherAssumption
<1> QED BY <1>0, <1>4, <1>5, <1>6 DEF JobsOK, T

(* An application is one commit, of a window that has just changed.        *)
LEMMA ApplyCommits ==
    ASSUME NEW job, Apply(job)
    PROVE  \E h : Commit(h)
BY DEF Apply

LEMMA ApplyKeeps ==
    ASSUME KuzuInv, NEW job, Apply(job)
    PROVE  FlowOK' /\ ScalarsOK' /\ Barrier' /\ Quiet'
<1>1. Queueing
  BY ApplyCommits, CommitQueues
<1>2. at = None
  BY DEF Apply, KuzuInv, ScalarsOK
<1>3. UNCHANGED <<done, db, open, backup, call, at, calls, late, orphaned, tainted, faults>>
  BY DEF Apply, callVars
<1>4. FlowOK' /\ Barrier' /\ Quiet'
  BY <1>1, <1>2, <1>3, QueueingKeeps
<1>5. ScalarsOK'
  BY <1>1, <1>3 DEF ScalarsOK, KuzuInv, Queueing
<1> QED BY <1>4, <1>5

LEMMA JobStep ==
    ASSUME KuzuInv, EnqueueJob \/ ApplyHere \/ WorkerApplies \/ JobRaises \/ SetAsync
    PROVE  KuzuInv' /\ applied' >= applied
<1>0. JobsOK /\ applied \in Nat
  BY DEF KuzuInv, JobsOK
<1>1. CASE EnqueueJob
  <2>1. UNCHANGED <<applied, batches, flusher, enqueued, done, orphaned, current, stop,
                    call, at, calls, late, open, faults>>
    BY <1>1 DEF EnqueueJob, queueVars, callVars
  <2>2. JobsOK'
    BY <1>0, <1>1, JobEnters
  <2>3. FlowOK' /\ Barrier'
    BY <2>1, FlowStays DEF KuzuInv
  <2>4. ScalarsOK' /\ Quiet'
    BY <2>1 DEF KuzuInv, ScalarsOK, Quiet, Nothing
  <2> QED BY <2>1, <2>2, <2>3, <2>4, <1>0 DEF KuzuInv
<1>2. CASE ApplyHere
  <2>1. PICK job \in Jobs : Apply(job)
    BY <1>2 DEF ApplyHere
  <2>2. jobs = <<>> /\ issued < MaxJobs /\ issued' = issued + 1 /\ UNCHANGED <<jobs, async>>
    BY <1>2 DEF ApplyHere, MayApplyHere, Issue
  <2>3. applied' = issued + 1
    BY <2>1 DEF Apply, Jobs
  <2>4. Len(jobs) = 0 /\ issued = applied
    BY <1>0, <2>2 DEF JobsOK
  <2>5. JobsOK' /\ applied' >= applied
    BY <1>0, <2>2, <2>3, <2>4, FlusherAssumption DEF JobsOK
  <2>6. FlowOK' /\ ScalarsOK' /\ Barrier' /\ Quiet'
    BY <2>1, ApplyKeeps
  <2> QED BY <2>5, <2>6 DEF KuzuInv
<1>3. CASE WorkerApplies
  <2>1. Apply(Head(jobs)) /\ jobs # <<>> /\ jobs' = Tail(jobs) /\ UNCHANGED <<issued, async>>
    BY <1>3 DEF WorkerApplies
  <2>2. applied' = Head(jobs).n
    BY <2>1 DEF Apply
  <2>3. JobsOK' /\ applied' > applied
    BY <1>0, <2>1, <2>2, HeadLeaves
  <2>4. FlowOK' /\ ScalarsOK' /\ Barrier' /\ Quiet'
    BY <2>1, ApplyKeeps
  <2>5. applied' \in Nat
    BY <2>3 DEF JobsOK
  <2> QED BY <1>0, <2>3, <2>4, <2>5 DEF KuzuInv
<1>4. CASE JobRaises
  <2>1. /\ jobs # <<>> /\ jobs' = Tail(jobs) /\ applied' = Head(jobs).n
        /\ faults < MaxFaults /\ faults' = faults + 1
        /\ UNCHANGED <<issued, async, batches, flusher, enqueued, done, orphaned, current,
                       stop, call, at, calls, late, open>>
    BY <1>4 DEF JobRaises, queueVars, callVars
  <2>2. JobsOK' /\ applied' > applied
    BY <1>0, <2>1, HeadLeaves
  <2>3. FlowOK' /\ Barrier'
    BY <2>1, FlowStays DEF KuzuInv
  <2>4. ScalarsOK' /\ Quiet'
    BY <2>1, FlusherAssumption DEF KuzuInv, ScalarsOK, Quiet, Nothing
  <2>5. applied' \in Nat
    BY <2>2 DEF JobsOK
  <2> QED BY <1>0, <2>2, <2>3, <2>4, <2>5 DEF KuzuInv
<1>5. CASE SetAsync
  <2>1. UNCHANGED <<jobs, issued, applied, batches, flusher, enqueued, done, orphaned,
                    current, stop, call, at, calls, late, open, faults>>
    BY <1>5 DEF SetAsync, queueVars, callVars
  <2>2. async' \in BOOLEAN
    <3>1. async' = ~async
      BY <1>5 DEF SetAsync
    <3> QED BY <3>1
  <2>3. JobsOK'
    BY <1>0, <2>1, <2>2 DEF JobsOK
  <2>4. FlowOK' /\ Barrier'
    BY <2>1, FlowStays DEF KuzuInv
  <2>5. ScalarsOK' /\ Quiet'
    BY <2>1 DEF KuzuInv, ScalarsOK, Quiet, Nothing
  <2> QED BY <1>0, <2>1, <2>3, <2>4, <2>5 DEF KuzuInv
<1> QED BY <1>1, <1>2, <1>3, <1>4, <1>5

-----------------------------------------------------------------------------
(* The flusher threads                                                     *)

(* A thread that has batches in hand, or a queue that has: not nothing.    *)
LEMMA NotQuiet ==
    ASSUME Quiet, ~Nothing, UNCHANGED <<late, current, at>>
    PROVE  Quiet'
BY DEF Quiet

LEMMA TakesKeeps ==
    ASSUME KuzuInv, NEW f \in Flushers, Takes(f)
    PROVE  FlowOK' /\ Barrier' /\ Quiet' /\ UNCHANGED <<done, orphaned, faults>>
<1> DEFINE n == IF Len(batches) < MergeMax THEN Len(batches) ELSE MergeMax
           s == Merged(FlattenSeq(SubSeq(batches, 1, n)))
<1>0. /\ FlowOK /\ Barrier /\ Quiet /\ MergeMax \in Nat \ {0}
      /\ enqueued \in Nat /\ done \in Nat /\ orphaned \in Nat
  BY FlusherAssumption DEF KuzuInv, ScalarsOK
<1>1. /\ flusher[f].at = "waiting" /\ batches # <<>>
      /\ batches' = SubSeq(batches, n + 1, Len(batches))
      /\ UNCHANGED <<done, orphaned, faults, enqueued, late, current, at>>
  BY DEF Takes, flusherFrame, callVars
<1>2. \/ flusher' = [flusher EXCEPT ![f] = [at |-> "ready", batch |-> s, n |-> n]]
      \/ flusher' = [flusher EXCEPT ![f] = [at |-> "ready", batch |-> Kept(s), n |-> n]]
  BY DEF Takes
<1>3. PICK b : flusher' = [flusher EXCEPT ![f] = [at |-> "ready", batch |-> b, n |-> n]]
  BY <1>2
<1> HIDE DEF s
<1>4. PICK S : batches \in Seq(S)
  BY <1>0 DEF FlowOK
<1>5. PICK B : flusher \in [Flushers -> Threads(B)]
  BY <1>0 DEF FlowOK
<1>6. Len(batches) \in Nat /\ Len(batches) # 0
  BY <1>1, <1>4
<1>7. n \in 1..MergeMax /\ n <= Len(batches) /\ n \in Nat
  BY <1>0, <1>6
<1> HIDE DEF n
<1>8. batches' \in Seq(S) /\ Len(batches') = Len(batches) - n
  BY <1>1, <1>4, <1>6, <1>7
<1>9. flusher[f].n = 0
  BY <1>0, <1>1 DEF FlowOK, Idle
<1>10. "ready" \in Busy \cup Idle /\ "ready" \notin Idle /\ n \in 0..MergeMax /\ n # 0
  BY <1>7 DEF Busy, Idle
<1>11. /\ \E C : flusher' \in [Flushers -> Threads(C)]
       /\ \A x \in Flushers : flusher'[x].n = 0 <=> flusher'[x].at \in Idle
  BY <1>0, <1>3, <1>5, <1>10, ThreadSet DEF FlowOK
<1>12. Len(batches') <= QueueCap
  BY <1>0, <1>6, <1>7, <1>8, FlusherAssumption DEF FlowOK
<1>13. FlowOK'
  BY <1>8, <1>11, <1>12 DEF FlowOK
<1>14. flusher'[f].n = n /\ \A x \in Flushers \ {f} : flusher'[x].n = flusher[x].n
  BY <1>3, <1>5
<1>15. Cardinality(InHands(flusher')) = Cardinality(InHands(flusher)) + n
  BY <1>9, <1>10, <1>14, HandsFill
<1>16. Cardinality(InHands(flusher)) \in Nat
  BY InHandsFinite
<1>17. enqueued - done = orphaned + Len(batches') + Cardinality(InHands(flusher'))
  BY <1>0, <1>6, <1>7, <1>8, <1>15, <1>16 DEF Barrier
<1>18. Barrier'
  BY <1>1, <1>17 DEF Barrier
<1>19. ~Nothing
  BY <1>1 DEF Nothing
<1> QED BY <1>0, <1>1, <1>13, <1>18, <1>19, NotQuiet

(* A thread lays down what it has in hand.                                 *)
LEMMA HandsLaidDown ==
    ASSUME FlowOK, NEW f \in Flushers, flusher[f].at \in Busy, NEW a \in Idle,
           flusher' = [flusher EXCEPT ![f] = [at |-> a, batch |-> <<>>, n |-> 0]],
           UNCHANGED batches
    PROVE  /\ FlowOK'
           /\ flusher[f].n \in Nat
           /\ Cardinality(InHands(flusher)) = Cardinality(InHands(flusher')) + flusher[f].n
<1>1. PICK B : flusher \in [Flushers -> Threads(B)]
  BY DEF FlowOK
<1>2. /\ \E C : flusher' \in [Flushers -> Threads(C)]
      /\ \A x \in Flushers : flusher'[x].n = 0 <=> flusher'[x].at \in Idle
  <2>1. a \in Busy \cup Idle /\ 0 \in 0..MergeMax
    BY FlusherAssumption
  <2> QED BY <1>1, <2>1, ThreadSet DEF FlowOK
<1>3. FlowOK'
  BY <1>2 DEF FlowOK
<1>4. flusher[f].n \in 0..MergeMax /\ flusher[f].n \in Nat
  BY <1>1, FlusherAssumption DEF Threads
<1>5. flusher'[f].n = 0 /\ \A x \in Flushers \ {f} : flusher[x].n = flusher'[x].n
  BY <1>1
<1>6. Cardinality(InHands(flusher)) = Cardinality(InHands(flusher')) + flusher[f].n
  BY <1>4, <1>5, HandsFill
<1> QED BY <1>3, <1>4, <1>6

LEMMA BusyIsSomething ==
    ASSUME NEW f \in Flushers, flusher[f].at \in Busy
    PROVE  ~Nothing
BY DEF Nothing, Busy, Idle

LEMMA DiesKeeps ==
    ASSUME KuzuInv, NEW f \in Flushers, Dies(f)
    PROVE  FlowOK' /\ Barrier' /\ Quiet' /\ orphaned' \in Nat /\ faults' \in 0..MaxFaults
<1>0. /\ FlowOK /\ Barrier /\ Quiet /\ enqueued \in Nat /\ done \in Nat /\ orphaned \in Nat
      /\ faults \in 0..MaxFaults
  BY DEF KuzuInv, ScalarsOK
<1>1. /\ flusher[f].at \in Busy /\ orphaned' = orphaned + flusher[f].n
      /\ faults < MaxFaults /\ faults' = faults + 1
      /\ flusher' = [flusher EXCEPT ![f] = [at |-> "absent", batch |-> <<>>, n |-> 0]]
      /\ UNCHANGED <<batches, done, enqueued, late, current, at>>
  BY DEF Dies, flusherFrame, callVars, Absent, Busy
<1>2. "absent" \in Idle
  BY DEF Idle
<1>3. /\ FlowOK' /\ flusher[f].n \in Nat
      /\ Cardinality(InHands(flusher)) = Cardinality(InHands(flusher')) + flusher[f].n
  BY <1>0, <1>1, <1>2, HandsLaidDown
<1>4. /\ Len(batches) \in Nat /\ Cardinality(InHands(flusher')) \in Nat
      /\ Cardinality(InHands(flusher)) \in Nat
  BY <1>0, InHandsFinite DEF FlowOK
<1>5. enqueued - done = (orphaned + flusher[f].n) + Len(batches)
                            + Cardinality(InHands(flusher'))
  <2>1. enqueued - done = orphaned + Len(batches) + Cardinality(InHands(flusher))
    BY <1>0 DEF Barrier
  <2>2. PICK n, rest \in Nat : n = flusher[f].n /\ rest = Cardinality(InHands(flusher'))
    BY <1>3, <1>4
  <2>3. PICK l \in Nat : l = Len(batches)
    BY <1>4
  <2>4. enqueued - done = orphaned + l + (rest + n)
    BY <2>1, <2>2, <2>3, <1>3
  <2>5. enqueued \in Nat /\ done \in Nat /\ orphaned \in Nat
    BY <1>0
  <2>6. enqueued - done = (orphaned + n) + l + rest
    BY <2>4, <2>5
  <2> QED BY <2>2, <2>3, <2>6
<1>6. Barrier'
  BY <1>1, <1>5 DEF Barrier
<1>7. Quiet'
  BY <1>0, <1>1, BusyIsSomething, NotQuiet
<1>8. orphaned' \in Nat /\ faults' \in 0..MaxFaults
  BY <1>0, <1>1, <1>3, FlusherAssumption
<1> QED BY <1>3, <1>6, <1>7, <1>8

LEMMA ExecutesKeeps ==
    ASSUME KuzuInv, NEW f \in Flushers, Executes(f)
    PROVE  FlowOK' /\ Barrier' /\ Quiet' /\ done' \in Nat /\ faults' \in 0..MaxFaults
<1>0. /\ FlowOK /\ Barrier /\ Quiet /\ enqueued \in Nat /\ done \in Nat /\ orphaned \in Nat
      /\ faults \in 0..MaxFaults
  BY DEF KuzuInv, ScalarsOK
<1>1. /\ flusher[f].at \in Busy /\ done' = done + flusher[f].n
      /\ flusher' = [flusher EXCEPT ![f] = [at |-> "waiting", batch |-> <<>>, n |-> 0]]
      /\ UNCHANGED <<batches, orphaned, enqueued, late, current, at>>
  <2>1. flusher[f].at \in Busy
    BY DEF Executes, Busy
  <2>2. Waiting = [at |-> "waiting", batch |-> <<>>, n |-> 0]
    BY DEF Waiting, Absent
  <2>3. /\ done' = done + flusher[f].n /\ flusher' = [flusher EXCEPT ![f] = Waiting]
        /\ UNCHANGED <<batches, orphaned, enqueued, late, current, at>>
    BY DEF Executes, flusherFrame, callVars
  <2> QED BY <2>1, <2>2, <2>3
<1>2. "waiting" \in Idle
  BY DEF Idle
<1>3. /\ FlowOK' /\ flusher[f].n \in Nat
      /\ Cardinality(InHands(flusher)) = Cardinality(InHands(flusher')) + flusher[f].n
  BY <1>0, <1>1, <1>2, HandsLaidDown
<1>4. /\ Len(batches) \in Nat /\ Cardinality(InHands(flusher')) \in Nat
      /\ Cardinality(InHands(flusher)) \in Nat
  BY <1>0, InHandsFinite DEF FlowOK
<1>5. enqueued - (done + flusher[f].n) = orphaned + Len(batches)
                            + Cardinality(InHands(flusher'))
  <2>1. enqueued - done = orphaned + Len(batches) + Cardinality(InHands(flusher))
    BY <1>0 DEF Barrier
  <2>2. PICK n, rest \in Nat : n = flusher[f].n /\ rest = Cardinality(InHands(flusher'))
    BY <1>3, <1>4
  <2>3. PICK l \in Nat : l = Len(batches)
    BY <1>4
  <2>4. enqueued - done = orphaned + l + (rest + n)
    BY <2>1, <2>2, <2>3, <1>3
  <2>5. enqueued \in Nat /\ done \in Nat /\ orphaned \in Nat
    BY <1>0
  <2>6. enqueued - (done + n) = orphaned + l + rest
    BY <2>4, <2>5
  <2> QED BY <2>2, <2>3, <2>6
<1>6. Barrier'
  BY <1>1, <1>5 DEF Barrier
<1>7. Quiet'
  BY <1>0, <1>1, BusyIsSomething, NotQuiet
<1>8. \/ faults' = faults
      \/ faults < MaxFaults /\ faults' = faults + 1
      \/ faults + 1 < MaxFaults /\ faults' = faults + 2
  BY DEF Executes
<1>9. done' \in Nat /\ faults' \in 0..MaxFaults
  BY <1>0, <1>1, <1>3, <1>8, FlusherAssumption
<1> QED BY <1>3, <1>6, <1>7, <1>9

LEMMA ConnectsKeeps ==
    ASSUME KuzuInv, NEW f \in Flushers, Connects(f)
    PROVE  FlowOK' /\ Barrier' /\ Quiet'
<1> DEFINE a == IF open THEN "connected" ELSE "gone"
<1>0. FlowOK /\ Barrier /\ Quiet
  BY DEF KuzuInv
<1>1. /\ flusher[f].at = "ready" /\ flusher' = [flusher EXCEPT ![f].at = a]
      /\ UNCHANGED <<batches, done, orphaned, enqueued, late, current, at>>
  BY DEF Connects, flusherFrame, callVars
<1>2. a \in Busy
  BY DEF Busy
<1> HIDE DEF a
<1>3. PICK B : flusher \in [Flushers -> Threads(B)]
  BY <1>0 DEF FlowOK
<1>4. flusher[f].n # 0 /\ flusher[f].n \in 0..MergeMax
  BY <1>0, <1>1, <1>3 DEF FlowOK, Idle, Threads
<1>5. flusher' = [flusher EXCEPT ![f] =
                    [at |-> a, batch |-> flusher[f].batch, n |-> flusher[f].n]]
  <2>1. flusher[f] = [at |-> flusher[f].at, batch |-> flusher[f].batch, n |-> flusher[f].n]
    BY <1>3 DEF Threads
  <2>2. [flusher[f] EXCEPT !.at = a] =
            [at |-> a, batch |-> flusher[f].batch, n |-> flusher[f].n]
    BY <2>1
  <2>3. flusher' = [flusher EXCEPT ![f] = [flusher[f] EXCEPT !.at = a]]
    BY <1>1
  <2> QED BY <2>2, <2>3
<1>6. a \in Busy \cup Idle /\ a \notin Idle
  BY <1>2 DEF Busy, Idle
<1>7. /\ \E C : flusher' \in [Flushers -> Threads(C)]
      /\ \A x \in Flushers : flusher'[x].n = 0 <=> flusher'[x].at \in Idle
  BY <1>0, <1>3, <1>4, <1>5, <1>6, ThreadSet DEF FlowOK
<1>8. FlowOK'
  BY <1>0, <1>1, <1>7 DEF FlowOK
<1>9. \A x \in Flushers : flusher'[x].n = flusher[x].n
  BY <1>3, <1>5
<1>10. InHands(flusher') = InHands(flusher)
  BY <1>9, HandsStay
<1>11. Barrier'
  BY <1>0, <1>1, <1>10 DEF Barrier
<1>12. ~Nothing
  BY <1>1, BusyIsSomething DEF Busy
<1> QED BY <1>0, <1>1, <1>8, <1>11, <1>12, NotQuiet

LEMMA StopsKeeps ==
    ASSUME KuzuInv, NEW f \in Flushers, Stops(f)
    PROVE  FlowOK' /\ Barrier' /\ Quiet'
<1>0. FlowOK /\ Barrier /\ Quiet
  BY DEF KuzuInv
<1>1. /\ flusher[f].at = "waiting"
      /\ flusher' = [flusher EXCEPT ![f] = [at |-> "absent", batch |-> <<>>, n |-> 0]]
      /\ UNCHANGED <<batches, done, orphaned, enqueued, late, current, at>>
  BY DEF Stops, flusherFrame, callVars, Absent
<1>2. PICK B : flusher \in [Flushers -> Threads(B)]
  BY <1>0 DEF FlowOK
<1>3. "absent" \in Busy \cup Idle /\ "absent" \in Idle /\ 0 \in 0..MergeMax
  BY FlusherAssumption DEF Idle
<1>4. /\ \E C : flusher' \in [Flushers -> Threads(C)]
      /\ \A x \in Flushers : flusher'[x].n = 0 <=> flusher'[x].at \in Idle
  BY <1>0, <1>1, <1>2, <1>3, ThreadSet DEF FlowOK
<1>5. FlowOK'
  BY <1>0, <1>1, <1>4 DEF FlowOK
<1>6. \A x \in Flushers : flusher'[x].n = flusher[x].n
  BY <1>0, <1>1, <1>2 DEF FlowOK, Idle
<1>7. InHands(flusher') = InHands(flusher)
  BY <1>6, HandsStay
<1>8. Barrier'
  BY <1>0, <1>1, <1>7 DEF Barrier
<1>9. Nothing => Nothing'
  BY <1>1, <1>2, <1>3 DEF Nothing
<1> QED BY <1>0, <1>1, <1>5, <1>8, <1>9 DEF Quiet

LEMMA ThreadStep ==
    ASSUME KuzuInv, NEW f \in Flushers, FlusherStep(f) \/ Dies(f)
    PROVE  KuzuInv' /\ applied' = applied
<1>1. UNCHANGED <<jobs, issued, applied, async, enqueued, current, stop, open, call, at,
                  calls, late>>
  BY DEF FlusherStep, Takes, Dies, Connects, Executes, Stops, flusherFrame, jobVars, callVars
<1>2. FlowOK' /\ Barrier' /\ Quiet'
  BY TakesKeeps, DiesKeeps, ConnectsKeeps, ExecutesKeeps, StopsKeeps DEF FlusherStep
<1>3. done' \in Nat /\ orphaned' \in Nat /\ faults' \in 0..MaxFaults
  <2>1. done \in Nat /\ orphaned \in Nat /\ faults \in 0..MaxFaults
    BY DEF KuzuInv, ScalarsOK
  <2>2. CASE Takes(f)
    BY <2>1, <2>2, TakesKeeps
  <2>3. CASE Dies(f)
    BY <2>1, <2>3, DiesKeeps DEF Dies
  <2>4. CASE Executes(f)
    BY <2>1, <2>4, ExecutesKeeps DEF Executes
  <2>5. CASE Connects(f) \/ Stops(f)
    BY <2>1, <2>5 DEF Connects, Stops
  <2> QED BY <2>2, <2>3, <2>4, <2>5 DEF FlusherStep
<1>4. ScalarsOK'
  BY <1>1, <1>3 DEF KuzuInv, ScalarsOK
<1>5. JobsOK'
  BY <1>1, JobsStay DEF KuzuInv, jobVars
<1> QED BY <1>1, <1>2, <1>4, <1>5 DEF KuzuInv

-----------------------------------------------------------------------------
(* The calls                                                               *)

(* A drain that was in time leaves nothing queued, in hand or lost.        *)
LEMMA DrainedIsQuiet ==
    ASSUME FlowOK, Barrier, done >= enqueued,
           enqueued \in Nat, done \in Nat, orphaned \in Nat
    PROVE  Nothing /\ orphaned = 0
<1> DEFINE c == Cardinality(InHands(flusher))
<1>1. c \in Nat /\ Len(batches) \in Nat
  BY InHandsFinite DEF FlowOK
<1>2. enqueued - done = orphaned + Len(batches) + c
  BY DEF Barrier
<1> HIDE DEF c
<1>3. orphaned = 0 /\ Len(batches) = 0 /\ c = 0
  BY <1>1, <1>2
<1>4. batches = <<>>
  BY <1>3 DEF FlowOK
<1>5. ASSUME NEW f \in Flushers PROVE flusher[f].at \in Idle
  <2>1. PICK B : flusher \in [Flushers -> Threads(B)]
    BY DEF FlowOK
  <2>2. flusher[f].n \in Nat
    BY <2>1, FlusherAssumption DEF Threads
  <2>3. flusher[f].n = 0
    BY <2>2, <1>3, HandsCounted DEF c
  <2> QED BY <2>3 DEF FlowOK
<1> QED BY <1>3, <1>4, <1>5 DEF Nothing

LEMMA ClosedKeeps ==
    ASSUME FlowOK, flusher' = Closed(flusher), UNCHANGED batches
    PROVE  /\ FlowOK'
           /\ InHands(flusher') = InHands(flusher)
           /\ Nothing => Nothing'
<1>1. PICK B : flusher \in [Flushers -> Threads(B)]
  BY DEF FlowOK
<1>2. ASSUME NEW f \in Flushers
      PROVE  /\ flusher'[f] \in Threads(B) /\ flusher'[f].n = flusher[f].n
             /\ flusher'[f].at \in Idle <=> flusher[f].at \in Idle
  <2>0. flusher[f] \in Threads(B)
    BY <1>1
  <2>1. flusher'[f] = IF flusher[f].at = "connected"
                      THEN [flusher[f] EXCEPT !.at = "gone"] ELSE flusher[f]
    BY DEF Closed
  <2>2. CASE flusher[f].at = "connected"
    <3>1. flusher'[f] = [flusher[f] EXCEPT !.at = "gone"]
      BY <2>1, <2>2
    <3>2. flusher'[f] \in Threads(B)
      BY <2>0, <3>1 DEF Threads, Busy
    <3>3. flusher'[f].at = "gone" /\ flusher'[f].n = flusher[f].n
      BY <2>0, <3>1 DEF Threads
    <3> QED BY <2>2, <3>2, <3>3 DEF Idle
  <2>3. CASE flusher[f].at # "connected"
    BY <2>0, <2>1, <2>3
  <2> QED BY <2>2, <2>3
<1>3. flusher' = [f \in Flushers |-> flusher'[f]]
  BY DEF Closed
<1>4. flusher' \in [Flushers -> Threads(B)]
  BY <1>2, <1>3
<1>5. FlowOK'
  BY <1>2, <1>4 DEF FlowOK
<1>6. InHands(flusher') = InHands(flusher)
  BY <1>2, HandsStay
<1>7. Nothing => Nothing'
  BY <1>2 DEF Nothing
<1> QED BY <1>5, <1>6, <1>7

LEMMA EntersTyped ==
    ASSUME ScalarsOK, NEW c \in Calls, Enters(c)
    PROVE  call' \in Calls /\ call' # None /\ calls' \in 0..MaxCalls /\ at = None
<1>1. calls \in 0..MaxCalls /\ calls < MaxCalls /\ calls' = calls + 1
  BY DEF ScalarsOK, Enters
<1>2. calls' \in 0..MaxCalls
  BY <1>1, FlusherAssumption
<1> QED BY <1>2 DEF ScalarsOK, Enters, Calls, None

LEMMA CallEnters ==
    ASSUME KuzuInv, \/ \E c \in Calls : DrainCall(c)
                    \/ ClearCall \/ RestoreCall \/ CloseCall
    PROVE  KuzuInv' /\ applied' = applied
<1>0. /\ JobsOK /\ FlowOK /\ Barrier /\ Quiet /\ ScalarsOK
      /\ enqueued \in Nat /\ done \in Nat /\ orphaned \in Nat /\ faults \in 0..MaxFaults
      /\ stop \in BOOLEAN /\ open \in BOOLEAN /\ late \in BOOLEAN
      /\ current \in Flushers \cup {None}
  BY DEF KuzuInv, ScalarsOK
<1>1. /\ UNCHANGED <<jobs, issued, applied, async, done, late, orphaned, faults>>
      /\ call' \in Calls /\ call' # None /\ calls' \in 0..MaxCalls /\ at = None
  <2>1. PICK c \in Calls : Enters(c)
    BY DEF DrainCall, ClearCall, RestoreCall, CloseCall, Calls
  <2>2. UNCHANGED <<jobs, issued, applied, async, done, late, orphaned, faults>>
    BY DEF DrainCall, ClearCall, RestoreCall, CloseCall, callFrame, jobVars
  <2> QED BY <1>0, <2>1, <2>2, EntersTyped
<1>2. JobsOK'
  BY <1>0, <1>1, JobsStay DEF jobVars
<1>3. ASSUME Queueing, at' = "draining", open' = open PROVE KuzuInv'
  <2>1. FlowOK' /\ Barrier' /\ Quiet'
    BY <1>1, <1>3, QueueingKeeps
  <2>2. ScalarsOK'
    BY <1>0, <1>1, <1>3 DEF ScalarsOK, Queueing, None
  <2> QED BY <1>2, <2>1, <2>2 DEF KuzuInv
<1>4. ASSUME Drains PROVE Queueing
  BY <1>4, NoFlushQueues, FlushQueues DEF Drains
<1>5. CASE \E c \in Calls : DrainCall(c)
  BY <1>1, <1>3, <1>4, <1>5 DEF DrainCall
<1>6. CASE ClearCall
  BY <1>1, <1>3, <1>6, NoFlushQueues DEF ClearCall
<1>7. CASE RestoreCall
  <2>1. /\ batches' = <<>> /\ enqueued' = enqueued - Len(batches)
        /\ UNCHANGED <<current, stop, flusher, open>> /\ at' = "draining"
    BY <1>7 DEF RestoreCall, Dropped
  <2>2. Len(batches) \in Nat /\ Cardinality(InHands(flusher)) \in Nat
    BY <1>0, InHandsFinite DEF FlowOK
  <2>3. enqueued - done = orphaned + Len(batches) + Cardinality(InHands(flusher))
    BY <1>0 DEF Barrier
  <2>4. enqueued - Len(batches) \in Nat
    BY <1>0, <2>2, <2>3
  <2>5. (enqueued - Len(batches)) - done = orphaned + 0 + Cardinality(InHands(flusher))
    BY <1>0, <2>2, <2>3
  <2>6. Len(batches') = 0 /\ batches' \in Seq({})
    BY <2>1
  <2>7. Barrier'
    BY <1>1, <2>1, <2>5, <2>6 DEF Barrier
  <2>8. FlowOK'
    BY <1>0, <2>1, <2>6, FlusherAssumption DEF FlowOK
  <2>9. Quiet'
    BY <1>0, <1>1, <2>1 DEF Quiet, Nothing
  <2>10. ScalarsOK'
    BY <1>0, <1>1, <2>1, <2>4 DEF ScalarsOK, None
  <2> QED BY <1>1, <1>2, <2>7, <2>8, <2>9, <2>10 DEF KuzuInv
<1>8. CASE CloseCall
  <2>1. CASE at' = "draining" /\ Drains /\ open' = open
    BY <1>1, <1>3, <1>4, <2>1
  <2>2. CASE /\ current = None /\ at' = "swapping" /\ open' = FALSE
             /\ flusher' = Closed(flusher)
             /\ UNCHANGED <<batches, enqueued, current, stop>>
    <3>1. FlowOK' /\ InHands(flusher') = InHands(flusher) /\ (Nothing => Nothing')
      BY <1>0, <2>2, ClosedKeeps
    <3>2. Barrier'
      BY <1>0, <1>1, <2>2, <3>1 DEF Barrier
    <3>3. Quiet'
      BY <1>0, <1>1, <2>2, <3>1 DEF Quiet
    <3>4. ScalarsOK'
      BY <1>0, <1>1, <2>2 DEF ScalarsOK, None
    <3> QED BY <1>1, <1>2, <3>1, <3>2, <3>3, <3>4 DEF KuzuInv
  <2> QED BY <1>8, <2>1, <2>2 DEF CloseCall, queueVars
<1> QED BY <1>1, <1>5, <1>6, <1>7, <1>8

(* The end of a drain: late, or in time and with nothing under way.        *)
LEMMA DrainEndsKeeps ==
    ASSUME KuzuInv, NEW c \in Calls, DrainEnds(c), UNCHANGED <<current, flusher>>
    PROVE  /\ JobsOK' /\ FlowOK' /\ Barrier' /\ late' \in BOOLEAN
           /\ ~late' => Nothing'
           /\ UNCHANGED <<applied, enqueued, done, orphaned, calls>>
<1>0. /\ FlowOK /\ Barrier /\ JobsOK
      /\ enqueued \in Nat /\ done \in Nat /\ orphaned \in Nat /\ late \in BOOLEAN
  BY DEF KuzuInv, ScalarsOK
<1>1. /\ late' = (late \/ done < enqueued)
      /\ UNCHANGED <<jobs, issued, applied, async, batches, enqueued, done, calls, orphaned>>
  BY DEF DrainEnds, jobVars
<1>2. late' \in BOOLEAN
  BY <1>1
<1>3. ASSUME ~late' PROVE Nothing'
  <2>1. done >= enqueued
    <3>1. ~(done < enqueued)
      BY <1>1, <1>3, Zenon
    <3> QED BY <1>0, <3>1
  <2>2. Nothing
    BY <1>0, <2>1, DrainedIsQuiet
  <2> QED BY <1>1, <2>2 DEF Nothing
<1>4. FlowOK' /\ Barrier'
  BY <1>0, <1>1, FlowStays
<1>5. JobsOK'
  BY <1>0, <1>1, JobsStay DEF jobVars
<1> QED BY <1>1, <1>2, <1>3, <1>4, <1>5

LEMMA CallGoesOn ==
    ASSUME KuzuInv, CallStep
    PROVE  KuzuInv' /\ applied' = applied
<1>0. /\ JobsOK /\ FlowOK /\ Barrier /\ Quiet /\ ScalarsOK
      /\ enqueued \in Nat /\ done \in Nat /\ orphaned \in Nat /\ faults \in 0..MaxFaults
      /\ stop \in BOOLEAN /\ open \in BOOLEAN /\ late \in BOOLEAN
      /\ current \in Flushers \cup {None} /\ calls \in 0..MaxCalls
      /\ call \in Calls \cup {None} /\ call = None <=> at = None
  BY DEF KuzuInv, ScalarsOK
<1>1. CASE IndexEnds \/ ClearEnds
  <2>1. PICK c \in Calls : DrainEnds(c)
    BY <1>1 DEF IndexEnds, ClearEnds, Calls
  <2>2. UNCHANGED <<current, stop, flusher, open>> /\ call' = None /\ at' = None
    BY <1>1 DEF IndexEnds, ClearEnds, Leaves, threadFrame
  <2>3. faults' = faults \/ (faults < MaxFaults /\ faults' = faults + 1)
    BY <1>1 DEF IndexEnds, ClearEnds
  <2>4. /\ JobsOK' /\ FlowOK' /\ Barrier' /\ late' \in BOOLEAN /\ (~late' => Nothing')
        /\ UNCHANGED <<applied, enqueued, done, orphaned, calls>>
    BY <2>1, <2>2, DrainEndsKeeps
  <2>5. faults' \in 0..MaxFaults
    BY <1>0, <2>3, FlusherAssumption
  <2>6. ScalarsOK'
    BY <1>0, <2>2, <2>4, <2>5 DEF ScalarsOK
  <2> QED BY <2>4, <2>6 DEF KuzuInv, Quiet
<1>2. CASE TellsToStop
  <2>1. PICK c \in Calls : DrainEnds(c)
    BY <1>2 DEF TellsToStop, Calls
  <2>2. /\ UNCHANGED <<call, current, flusher, open, faults>> /\ at' = "joining"
        /\ stop' = Alive(current)
    BY <1>2 DEF TellsToStop
  <2>3. /\ JobsOK' /\ FlowOK' /\ Barrier' /\ late' \in BOOLEAN /\ (~late' => Nothing')
        /\ UNCHANGED <<applied, enqueued, done, orphaned, calls>>
    BY <2>1, <2>2, DrainEndsKeeps
  <2>4. at # None
    BY <2>1 DEF DrainEnds, None
  <2>5. stop' \in BOOLEAN
    BY <2>2 DEF Alive
  <2>6. ScalarsOK'
    BY <1>0, <2>2, <2>3, <2>4, <2>5 DEF ScalarsOK, None
  <2> QED BY <2>3, <2>6 DEF KuzuInv, Quiet
<1>3. CASE JoinEnds
  <2>1. /\ at = "joining" /\ at' = "swapping" /\ current' = None
        /\ stop' = FALSE /\ open' = FALSE /\ flusher' = Closed(flusher)
        /\ UNCHANGED <<jobs, issued, applied, async, batches, enqueued, done, call, calls,
                       orphaned, faults>>
    BY <1>3 DEF JoinEnds, jobVars
  <2>2. late' = late \/ late' = TRUE
    BY <1>3 DEF JoinEnds
  <2>3. FlowOK' /\ InHands(flusher') = InHands(flusher) /\ (Nothing => Nothing')
    BY <1>0, <2>1, ClosedKeeps
  <2>4. Barrier'
    BY <1>0, <2>1, <2>3 DEF Barrier
  <2>5. Quiet'
    BY <1>0, <2>1, <2>2, <2>3 DEF Quiet
  <2>6. JobsOK'
    BY <1>0, <2>1, JobsStay DEF jobVars
  <2>7. late' \in BOOLEAN
    BY <1>0, <2>2
  <2>8. ScalarsOK'
    BY <1>0, <2>1, <2>7 DEF ScalarsOK, None
  <2> QED BY <2>1, <2>3, <2>4, <2>5, <2>6, <2>8 DEF KuzuInv
<1>4. CASE BackupEnds \/ RestoreEnds \/ CloseEnds
  <2>1. /\ at = "swapping"
        /\ UNCHANGED <<jobs, issued, applied, async, batches, enqueued, current, stop,
                       flusher, calls, late, orphaned, faults, done>>
    BY <1>4 DEF BackupEnds, RestoreEnds, CloseEnds, Swaps, jobVars, queueVars
  <2>2. \/ call' = None /\ at' = None /\ open' = TRUE
        \/ call' = call /\ at' = "closed" /\ open' = open
    BY <1>4 DEF BackupEnds, RestoreEnds, CloseEnds, Leaves
  <2>3. FlowOK' /\ Barrier'
    BY <1>0, <2>1, FlowStays
  <2>4. Nothing => Nothing'
    BY <2>1 DEF Nothing
  <2>5. Quiet'
    BY <1>0, <2>1, <2>4 DEF Quiet
  <2>6. JobsOK'
    BY <1>0, <2>1, JobsStay DEF jobVars
  <2>7. ScalarsOK'
    BY <1>0, <2>1, <2>2 DEF ScalarsOK, None
  <2> QED BY <2>1, <2>3, <2>5, <2>6, <2>7 DEF KuzuInv
<1> QED BY <1>1, <1>2, <1>3, <1>4 DEF CallStep

-----------------------------------------------------------------------------
(* The invariant, and what follows from it                                 *)

LEMMA InitInv ==
    ASSUME Init
    PROVE  KuzuInv
<1>1. JobsOK
  BY FlusherAssumption DEF Init, JobsOK
<1>2. /\ batches = <<>> /\ flusher = [f \in Flushers |-> Absent]
      /\ Absent = [at |-> "absent", batch |-> <<>>, n |-> 0]
  BY DEF Init, Absent
<1>3. \A f \in Flushers : flusher[f].n = 0 /\ flusher[f].at \in Idle
  BY <1>2 DEF Idle
<1>4. flusher \in [Flushers -> Threads({<<>>})]
  BY <1>2, FlusherAssumption DEF Threads, Idle
<1>5. batches \in Seq({}) /\ Len(batches) = 0
  BY <1>2
<1>6. FlowOK
  BY <1>3, <1>4, <1>5, FlusherAssumption DEF FlowOK
<1>7. Cardinality(InHands(flusher)) = 0
  BY <1>3, HandsEmpty
<1>8. enqueued = 0 /\ done = 0 /\ orphaned = 0
  BY DEF Init
<1>9. Barrier
  BY <1>5, <1>7, <1>8 DEF Barrier
<1>10. ScalarsOK
  <2>1. /\ stop \in BOOLEAN /\ open \in BOOLEAN /\ late \in BOOLEAN
        /\ current \in Flushers \cup {None} /\ call \in Calls \cup {None}
        /\ at \in {None, "draining", "joining", "swapping", "closed"}
        /\ call = None /\ at = None
    BY DEF Init
  <2>2. calls \in 0..MaxCalls /\ faults \in 0..MaxFaults
    BY FlusherAssumption DEF Init
  <2> QED BY <1>8, <2>1, <2>2 DEF ScalarsOK
<1>11. Quiet
  BY <1>2, <1>3 DEF Quiet, Nothing
<1> QED BY <1>1, <1>6, <1>9, <1>10, <1>11 DEF KuzuInv

LEMMA NextInv ==
    ASSUME KuzuInv, [Next]_vars
    PROVE  KuzuInv' /\ applied' >= applied
<1>0. applied \in Nat
  BY DEF KuzuInv, JobsOK
<1>1. CASE EnqueueJob \/ ApplyHere \/ WorkerApplies \/ JobRaises \/ SetAsync
  BY <1>1, JobStep
<1>2. CASE \E f \in Flushers : FlusherStep(f) \/ Dies(f)
  BY <1>0, <1>2, ThreadStep
<1>3. CASE (\E c \in Calls : DrainCall(c)) \/ ClearCall \/ RestoreCall \/ CloseCall
  BY <1>0, <1>3, CallEnters
<1>4. CASE CallStep
  BY <1>0, <1>4, CallGoesOn
<1>5. CASE UNCHANGED vars
  <2>1. UNCHANGED <<jobs, issued, applied, async, batches, enqueued, done, current, stop,
                    flusher, open, call, at, calls, late, orphaned, faults>>
    BY <1>5 DEF vars, jobVars, queueVars, callVars
  <2>2. JobsOK'
    BY <2>1, JobsStay DEF KuzuInv, jobVars
  <2>3. FlowOK' /\ Barrier'
    BY <2>1, FlowStays DEF KuzuInv
  <2>4. ScalarsOK' /\ Quiet'
    BY <2>1 DEF KuzuInv, ScalarsOK, Quiet, Nothing
  <2> QED BY <1>0, <2>1, <2>2, <2>3, <2>4 DEF KuzuInv
<1> QED BY <1>1, <1>2, <1>3, <1>4, <1>5 DEF Next

(* What the queues, the threads and the call in progress hold, in every    *)
(* reachable state.                                                        *)
THEOREM KuzuInvariant == Spec => []KuzuInv
BY InitInv, NextInv, PTL DEF Spec

LEMMA ControlTyped ==
    ASSUME KuzuInv
    PROVE  ControlOK
<1>1. PICK B : flusher \in [Flushers -> Threads(B)]
  BY DEF KuzuInv, FlowOK
<1>2. \A f \in Flushers :
          /\ flusher[f].at \in {"absent", "waiting", "ready", "connected", "gone"}
          /\ flusher[f].n \in 0..MergeMax
  BY <1>1 DEF Threads, Busy, Idle
<1>3. applied \in 0..issued
  BY DEF KuzuInv, JobsOK
<1>4. JobsOK /\ ScalarsOK /\ Len(batches) <= QueueCap
  BY DEF KuzuInv, FlowOK
<1> QED BY <1>2, <1>3, <1>4 DEF ControlOK, JobsOK, ScalarsOK

(* The queues keep their limits, and the control its types: at most        *)
(* max_queue jobs, and at most _flush_queue_cap batches however the last   *)
(* one grows, in any order of the threads and the calls.                   *)
THEOREM ControlTypes == Spec => []ControlOK
BY KuzuInvariant, ControlTyped, PTL

(* _batches_enqueued - _batches_done is the number of batches that are     *)
(* queued, in the hands of a thread or lost, through merges, drops, failed *)
(* transactions and threads that die.                                      *)
THEOREM BarrierIsExact == Spec => []BarrierCounts
<1>1. KuzuInv => BarrierCounts
  BY DEF KuzuInv, Barrier, BarrierCounts, InHands
<1> QED BY <1>1, KuzuInvariant, PTL

(* Jobs are applied in the order they were issued in, by the worker or     *)
(* inline, for any queue.                                                  *)
THEOREM JobsAreInOrder == Spec => JobsInOrder
<1>1. KuzuInv /\ [Next]_vars => [applied' >= applied]_vars
  BY NextInv
<1> QED BY <1>1, KuzuInvariant, PTL DEF Spec, JobsInOrder

(* backup_to, restore_from and close work on the files only when no batch  *)
(* is queued and no thread has one in hand, unless a drain or a join has   *)
(* timed out.                                                              *)
NothingUnderWay ==
    at \in {"swapping", "closed"} /\ ~late =>
        /\ batches = <<>>
        /\ \A f \in Flushers : flusher[f].at \in {"absent", "waiting"}

THEOREM SwapsAreQuiet == Spec => []NothingUnderWay
<1>1. KuzuInv => NothingUnderWay
  BY DEF KuzuInv, Quiet, Nothing, Idle, NothingUnderWay
<1> QED BY <1>1, KuzuInvariant, PTL

-----------------------------------------------------------------------------
(***************************************************************************)
(* The invariant of what is on its way to disk.                            *)
(***************************************************************************)

(* The batch in hand.                                                      *)
Hand(fl) ==
    LET busy == {f \in Flushers : fl[f].batch # <<>>}
    IN  IF busy = {} THEN <<>> ELSE fl[CHOOSE f \in busy : TRUE].batch

(* Nothing near the key has failed, was shed or was lost; none counts      *)
(* after a drain has timed out, or while a call drops what is under way.   *)
Sounds(t) == {k \in Keys : Near(k) \cap t = {}}
Counted == IF late \/ call \in {"clear", "restore"} THEN {} ELSE Sounds(tainted)

OnItsWay == After(Start(db), Hand(flusher) \o FlattenSeq(batches))

(* What memory holds is what st will hold, of the keys of S.               *)
Lands(st, h, kn, S) == Good(st, kn, S) /\ Memory(h, st.rows, kn, S)

Carries(fl) ==
    \A f \in Flushers : /\ fl[f].batch \in Batches
                        /\ fl[f].at \in Idle => fl[f].batch = <<>>

DataTyped ==
    /\ g \in Graph /\ db \in Rows /\ known \subseteq Keys /\ tainted \subseteq Keys
    /\ batches \in Seq(Batches) /\ Carries(flusher)
    /\ backup \subseteq Rows

(* Only the graph's own thread is there, until a join has timed out.       *)
Sole == ~late => \A f \in Flushers : flusher[f].at # "absent" => f = current

(* A clear and a restore find nothing to be written, and neither does what *)
(* follows the drain of an index build or of a backup.                     *)
CallOK ==
    /\ call = "clear" => g = Fresh
    /\ call = "restore" => g.pending = <<>>
    /\ call \in {"index", "backup"} => g.pending = <<>> /\ g.deferred = NoRows

LandInv == Lands(OnItsWay, g, known, Counted)

DataInv == DataTyped /\ Sole /\ CallOK /\ LandInv

-----------------------------------------------------------------------------
LEMMA SoundKeys ==
    ASSUME NEW t
    PROVE  /\ WithNodes(Sounds(t)) /\ \A k \in Sounds(t) : Near(k) \subseteq Sounds(t)
           /\ \A u : t \subseteq u => Sounds(u) \subseteq Sounds(t)
           /\ \A k \in Sounds(t) : \A T : T \subseteq t => Near(k) \cap T = {}
           /\ Sounds(Keys) = {}
<1>1. ASSUME NEW k \in Sounds(t) PROVE Near(k) \subseteq Sounds(t)
  <2>1. k \in Keys /\ Near(k) \cap t = {}
    BY DEF Sounds
  <2>2. ASSUME NEW i \in Near(k) PROVE i \in Sounds(t)
    <3>1. Near(i) \subseteq Near(k) /\ i \in Keys
      BY <2>1, NearKeys
    <3>2. Near(i) \cap t = {}
      BY <2>1, <3>1
    <3> QED BY <3>1, <3>2 DEF Sounds
  <2> QED BY <2>2
<1>2. WithNodes(Sounds(t))
  <2>1. ASSUME NEW e \in Sounds(t) \cap Edges PROVE Ends[e] \subseteq Sounds(t)
    <3>1. Ends[e] \subseteq Near(e)
      BY DEF Near
    <3> QED BY <1>1, <3>1
  <2>2. Sounds(t) \subseteq Keys
    BY DEF Sounds
  <2> QED BY <2>1, <2>2 DEF WithNodes
<1>3. \A u : t \subseteq u => Sounds(u) \subseteq Sounds(t)
  BY DEF Sounds
<1>4. \A k \in Sounds(t) : \A T : T \subseteq t => Near(k) \cap T = {}
  BY DEF Sounds
<1>5. Sounds(Keys) = {}
  <2>1. ASSUME NEW k \in Sounds(Keys) PROVE FALSE
    <3>1. k \in Keys /\ Near(k) \cap Keys = {}
      BY DEF Sounds
    <3>2. k \in Near(k)
      BY <3>1, NearKeys
    <3> QED BY <3>1, <3>2
  <2> QED BY <2>1
<1> QED BY <1>1, <1>2, <1>3, <1>4, <1>5

LEMMA CountedKeys == WithNodes(Counted) /\ (\A k \in Counted : Near(k) \subseteq Counted)
<1>1. Counted = {} \/ Counted = Sounds(tainted)
  BY DEF Counted
<1>2. CASE Counted = {}
  BY <1>2 DEF WithNodes
<1>3. CASE Counted = Sounds(tainted)
  BY <1>3, SoundKeys
<1> QED BY <1>1, <1>2, <1>3

LEMMA LandsNothing ==
    ASSUME NEW st, NEW h, NEW kn
    PROVE  Lands(st, h, kn, {}) <=> Distinct(h.pending)
BY DEF Lands, Good, Memory, Window, NodesFirst, EdgesGo, Matches

LEMMA LandsTyped ==
    ASSUME NEW st \in State, NEW h, NEW kn, NEW S, WithNodes(S), Lands(st, h, kn, S)
    PROVE  /\ Knows(st.rows, kn, S) /\ Memory(h, st.rows, kn, S) /\ Good(st, kn, S)
           /\ Distinct(h.pending)
<1>1. st.rows \in Rows
  BY DEF State
<1>2. Good(st, kn, S) /\ Memory(h, st.rows, kn, S)
  BY DEF Lands
<1>3. Knows(st.rows, kn, S)
  BY <1>1, <1>2 DEF Knows, Good
<1>4. Distinct(h.pending)
  BY <1>2 DEF Memory, Window
<1> QED BY <1>2, <1>3, <1>4

(* Something better lands, of fewer keys.                                  *)
LEMMA BetterLands ==
    ASSUME NEW st, NEW b, NEW h, NEW kn, NEW S, Lands(st, h, kn, S), S \subseteq Keys,
           NEW T, Better(T, {}, b, st), NEW M, M \subseteq S,
           \A k \in M : Near(k) \subseteq S /\ Near(k) \cap T = {}
    PROVE  Lands(b, h, kn, M)
<1>1. Good(st, kn, S) /\ Memory(h, st.rows, kn, S)
  BY DEF Lands
<1>2. ASSUME NEW k \in M
      PROVE  /\ b.rows[k] = st.rows[k] /\ (k \in b.doomed => k \in st.doomed)
             /\ k \in b.bad => k \in st.bad
  <2>1. k \in Keys /\ Near(k) \subseteq S /\ Near(k) \cap T = {}
    OBVIOUS
  <2>2. Near(k) \cap (T \cup st.bad) = {}
    BY <1>1, <2>1 DEF Good
  <2>3. Alike({}, b, st, k)
    BY <2>1, <2>2 DEF Better
  <2>4. k \in Near(k)
    BY <2>1, NearKeys
  <2> QED BY <2>3, <2>4 DEF Alike
<1>3. Good(b, kn, M)
  BY <1>1, <1>2 DEF Good
<1>4. Memory(h, b.rows, kn, M)
  BY <1>1, <1>2, MemoryMoves
<1> QED BY <1>3, <1>4 DEF Lands

LEMMA HandIs ==
    ASSUME NEW fl, NEW c, \A f \in Flushers : fl[f].batch # <<>> => f = c
    PROVE  Hand(fl) = IF c \in Flushers THEN fl[c].batch ELSE <<>>
<1> DEFINE busy == {f \in Flushers : fl[f].batch # <<>>}
<1>1. busy \subseteq {c}
  OBVIOUS
<1>2. Hand(fl) = IF busy = {} THEN <<>> ELSE fl[CHOOSE f \in busy : TRUE].batch
  BY DEF Hand
<1>3. c \in busy <=> c \in Flushers /\ fl[c].batch # <<>>
  OBVIOUS
<1> HIDE DEF busy
<1>4. CASE busy = {}
  BY <1>2, <1>3, <1>4
<1>5. CASE busy # {}
  <2>1. (CHOOSE f \in busy : TRUE) = c /\ c \in busy
    BY <1>1, <1>5
  <2> QED BY <1>2, <1>3, <1>5, <2>1
<1> QED BY <1>4, <1>5

LEMMA HandStays ==
    ASSUME NEW fl, NEW new, \A f \in Flushers : new[f].batch = fl[f].batch
    PROVE  Hand(new) = Hand(fl)
<1>1. {f \in Flushers : new[f].batch # <<>>} = {f \in Flushers : fl[f].batch # <<>>}
  OBVIOUS
<1>2. ASSUME NEW B, B = {f \in Flushers : fl[f].batch # <<>>}, B # {}
      PROVE  new[CHOOSE f \in B : TRUE].batch = fl[CHOOSE f \in B : TRUE].batch
  BY <1>2
<1> QED BY <1>1, <1>2 DEF Hand

LEMMA HandTyped ==
    ASSUME NEW fl, Carries(fl)
    PROVE  Hand(fl) \in Batches /\ ((\A f \in Flushers : fl[f].at \in Idle) => Hand(fl) = <<>>)
<1>1. ASSUME NEW B, B = {f \in Flushers : fl[f].batch # <<>>}, B # {}
      PROVE  fl[CHOOSE f \in B : TRUE].batch \in Batches
  BY <1>1 DEF Carries
<1>2. <<>> \in Batches
  BY DEF Batches
<1>3. (\A f \in Flushers : fl[f].at \in Idle) => {f \in Flushers : fl[f].batch # <<>>} = {}
  BY DEF Carries
<1> QED BY <1>1, <1>2, <1>3 DEF Hand

LEMMA OnItsWayTyped ==
    ASSUME NEW fl, Carries(fl), NEW bs \in Seq(Batches), NEW d \in Rows
    PROVE  /\ Start(d) \in State /\ FlattenSeq(bs) \in Seq(Stmt) /\ Hand(fl) \in Seq(Stmt)
           /\ Hand(fl) \o FlattenSeq(bs) \in Seq(Stmt)
           /\ After(Start(d), Hand(fl) \o FlattenSeq(bs)) \in State
           /\ After(Start(d), Hand(fl) \o FlattenSeq(bs))
                = After(After(Start(d), Hand(fl)), FlattenSeq(bs))
<1>1. Start(d) \in State
  BY DEF Start, State
<1>2. FlattenSeq(bs) \in Seq(Stmt)
  BY FlattenSteps
<1>3. Hand(fl) \in Seq(Stmt)
  BY HandTyped DEF Batches
<1>4. Hand(fl) \o FlattenSeq(bs) \in Seq(Stmt)
  BY <1>2, <1>3, ConcatFacts
<1>5. After(Start(d), Hand(fl) \o FlattenSeq(bs)) \in State
  BY <1>1, <1>4, AfterSteps
<1> QED BY <1>1, <1>2, <1>3, <1>4, <1>5, AfterInTurn

-----------------------------------------------------------------------------
(* Jobs.  A window that is queued is on its way behind the others.         *)
LEMMA QueueTyped ==
    ASSUME NEW bs \in Seq(Batches), NEW s \in Batches
    PROVE  /\ Append(bs, s) \in Seq(Batches)
           /\ FlattenSeq(Append(bs, s)) = FlattenSeq(bs) \o s
BY FlattenSteps, AppendFacts

LEMMA PrefixFacts ==
    ASSUME NEW X, NEW s \in Seq(X), NEW n \in 0..Len(s)
    PROVE  /\ SubSeq(s, 1, n) \in Seq(X) /\ Len(SubSeq(s, 1, n)) = n
           /\ \A i \in 1..n : SubSeq(s, 1, n)[i] = s[i]
OBVIOUS

(* A queue that has a last batch.                                          *)
LEMMA LastOfQueue ==
    ASSUME NEW bs \in Seq(Batches), Len(bs) # 0
    PROVE  LET front == SubSeq(bs, 1, Len(bs) - 1)
           IN  /\ front \in Seq(Batches) /\ bs[Len(bs)] \in Batches
               /\ bs = Append(front, bs[Len(bs)])
               /\ \A s \in Batches : [bs EXCEPT ![Len(bs)] = s] = Append(front, s)
<1> DEFINE n == Len(bs)
           front == SubSeq(bs, 1, n - 1)
<1>1. n \in Nat /\ n \in 1..n /\ n - 1 \in 0..n
  OBVIOUS
<1>2. /\ front \in Seq(Batches) /\ Len(front) = n - 1
      /\ \A i \in 1..(n - 1) : front[i] = bs[i]
  BY <1>1, PrefixFacts
<1>3. bs[n] \in Batches
  BY <1>1
<1> HIDE DEF front
<1>4. ASSUME NEW s \in Batches
      PROVE  [bs EXCEPT ![n] = s] = Append(front, s)
  <2> DEFINE u == [bs EXCEPT ![n] = s]
             w == Append(front, s)
  <2>1. u \in Seq(Batches) /\ Len(u) = n /\ u[n] = s /\ \A i \in 1..(n - 1) : u[i] = bs[i]
    BY <1>1
  <2>2. w \in Seq(Batches) /\ Len(w) = n /\ w[n] = s /\ \A i \in 1..(n - 1) : w[i] = front[i]
    BY <1>1, <1>2
  <2> HIDE DEF u, w
  <2>3. \A i \in 1..Len(u) : u[i] = w[i]
    BY <1>1, <1>2, <2>1, <2>2
  <2>4. u = w
    BY <2>1, <2>2, <2>3, EqualSequences
  <2> QED BY <2>4 DEF u, w
<1>5. bs = Append(front, bs[n])
  <2>1. [bs EXCEPT ![n] = bs[n]] = bs
    OBVIOUS
  <2> QED BY <1>3, <1>4, <2>1
<1> QED BY <1>2, <1>3, <1>4, <1>5 DEF front

LEMMA QueueLands ==
    ASSUME NEW st \in State, NEW bs \in Seq(Batches), NEW bs2, NEW s \in Batches,
           \/ bs2 = Append(bs, s)
           \/ Len(bs) # 0 /\ bs2 = [bs EXCEPT ![Len(bs)] = Merged(@ \o s)]
    PROVE  /\ bs2 \in Seq(Batches)
           /\ Better({}, {}, After(st, FlattenSeq(bs2)), After(After(st, FlattenSeq(bs)), s))
<1>0. FlattenSeq(bs) \in Seq(Stmt) /\ s \in Seq(Stmt)
  BY FlattenSteps DEF Batches
<1>1. CASE bs2 = Append(bs, s)
  <2>1. bs2 \in Seq(Batches) /\ FlattenSeq(bs2) = FlattenSeq(bs) \o s
    BY <1>1, QueueTyped
  <2>2. After(st, FlattenSeq(bs2)) = After(After(st, FlattenSeq(bs)), s)
    BY <1>0, <2>1, AfterInTurn
  <2> QED BY <2>1, <2>2, BetterSelf
<1>2. CASE Len(bs) # 0 /\ bs2 = [bs EXCEPT ![Len(bs)] = Merged(@ \o s)]
  <2> DEFINE last == bs[Len(bs)]
             front == SubSeq(bs, 1, Len(bs) - 1)
             m == Merged(last \o s)
  <2>1. /\ front \in Seq(Batches) /\ last \in Batches /\ bs = Append(front, last)
        /\ \A t \in Batches : [bs EXCEPT ![Len(bs)] = t] = Append(front, t)
    BY <1>2, LastOfQueue
  <2>2. bs2 = [bs EXCEPT ![Len(bs)] = m]
    BY <1>2
  <2> HIDE DEF front, last
  <2>3. last \in Seq(Stmt) /\ last \o s \in Seq(Stmt)
    BY <1>0, <2>1, ConcatFacts DEF Batches
  <2>4. m \in Seq(Stmt) /\ m \in Batches
    BY <2>3, MergedSteps DEF Batches
  <2>5. bs2 = Append(front, m)
    BY <2>1, <2>2, <2>4
  <2>6. bs2 \in Seq(Batches) /\ FlattenSeq(bs2) = FlattenSeq(front) \o m
    BY <2>1, <2>4, <2>5, QueueTyped
  <2>7. FlattenSeq(bs) = FlattenSeq(front) \o last
    BY <2>1, QueueTyped
  <2>8. FlattenSeq(front) \in Seq(Stmt)
    BY <2>1, FlattenSteps
  <2> DEFINE f == FlattenSeq(front)
             a == After(st, f)
  <2>9. a \in State
    BY <2>8, AfterSteps
  <2>10. After(st, FlattenSeq(bs2)) = After(a, m)
    BY <2>4, <2>6, <2>8, AfterInTurn
  <2>11. After(st, FlattenSeq(bs)) = After(a, last)
    BY <2>3, <2>7, <2>8, AfterInTurn
  <2> HIDE DEF a, f
  <2>12. After(After(a, last), s) = After(a, last \o s)
    BY <1>0, <2>3, <2>9, AfterInTurn
  <2>13. Better({}, {}, After(a, m), After(a, last \o s))
    BY <2>3, <2>9, BetterMerged
  <2> QED BY <2>6, <2>10, <2>11, <2>12, <2>13
<1> QED BY <1>1, <1>2

(* What is queued, and what memory holds then.                             *)
LEMMA FlushLands ==
    ASSUME DataTyped, FlowOK, NEW S, WithNodes(S), \A k \in S : Near(k) \subseteq S,
           NEW h \in Graph, Lands(OnItsWay, h, known, S), Flush(h), db' = db
    PROVE  /\ g' \in Graph /\ known' \subseteq Keys /\ batches' \in Seq(Batches)
           /\ Lands(OnItsWay', g', known', S)
           /\ g'.pending = <<>> /\ g'.deferred = h.deferred
           /\ Carries(flusher')
<1> DEFINE s == Resolved(h.pending, known)
           q == After(OnItsWay, s)
           c == KnownAfter(h.pending, known)
           n == [h EXCEPT !.pending = <<>>]
<1>0. /\ Carries(flusher) /\ batches \in Seq(Batches) /\ db \in Rows /\ known \subseteq Keys
      /\ h.pending \in Seq(Write)
  BY DEF DataTyped, Graph
<1>1. OnItsWay \in State /\
      OnItsWay = After(After(Start(db), Hand(flusher)), FlattenSeq(batches))
  BY <1>0, OnItsWayTyped DEF OnItsWay
<1>2. s \in Batches
  BY <1>0, ResolvedSteps DEF Batches
<1>3. g' = n /\ known' = c
  BY DEF Flush
<1>4. Good(OnItsWay, known, S) /\ Memory(h, OnItsWay.rows, known, S)
  BY DEF Lands
<1>5. Good(q, c, S) /\ n \in Graph /\ Memory(n, q.rows, c, S)
  BY <1>1, <1>4, FlushedMatches
<1>6. Lands(q, n, c, S)
  BY <1>5 DEF Lands
<1>7. n.pending = <<>> /\ n.deferred = h.deferred
  BY DEF Graph
<1>8. c \subseteq Keys
  <2>1. \A i \in DOMAIN h.pending : h.pending[i].key \in Keys
    <3>1. \A i \in 1..Len(h.pending) : h.pending[i] \in Write
      BY <1>0
    <3>2. DOMAIN h.pending = 1..Len(h.pending)
      BY <1>0
    <3> QED BY <3>1, <3>2 DEF Write
  <2> QED BY <1>0, <2>1 DEF KnownAfter
<1> DEFINE st == After(Start(db), Hand(flusher))
<1>9. \/ batches' = Append(batches, s)
      \/ Len(batches) # 0 /\ batches' = [batches EXCEPT ![Len(batches)] = Merged(@ \o s)]
  <2>1. CASE AtCap
    <3>1. Len(batches) # 0
      BY <1>0, <2>1, FlusherAssumption DEF AtCap
    <3> QED BY <2>1, <3>1 DEF Flush
  <2>2. CASE ~AtCap
    BY <2>2 DEF Flush
  <2> QED BY <2>1, <2>2
<1>10. st \in State
  <2>1. Start(db) \in State /\ Hand(flusher) \in Seq(Stmt)
    BY <1>0, OnItsWayTyped
  <2> QED BY <2>1, AfterSteps
<1> HIDE DEF s, c, n, st
<1>11. /\ batches' \in Seq(Batches)
       /\ Better({}, {}, After(st, FlattenSeq(batches')), After(After(st,
             FlattenSeq(batches)), s))
  BY <1>0, <1>2, <1>9, <1>10, QueueLands
<1>12. ASSUME NEW f \in Flushers
       PROVE  flusher'[f].batch = flusher[f].batch /\
             (flusher'[f].at \in Idle => flusher'[f].batch = <<>>)
  <2>1. CASE UNCHANGED flusher
    BY <1>0, <2>1 DEF Carries
  <2>2. ASSUME NEW x \in Flushers, ~Alive(x), flusher' = [flusher EXCEPT ![x] = Waiting]
        PROVE  flusher'[f].batch = flusher[f].batch /\
              (flusher'[f].at \in Idle => flusher'[f].batch = <<>>)
    <3>1. x # None
      BY FlusherAssumption DEF None
    <3>2. flusher[x].at = "absent"
      BY <2>2, <3>1 DEF Alive
    <3>3. flusher[x].batch = <<>>
      BY <1>0, <3>2 DEF Carries, Idle
    <3>4. Waiting.batch = <<>>
      BY DEF Waiting, Absent
    <3>5. PICK B : flusher \in [Flushers -> B]
      BY DEF FlowOK
    <3>6. flusher'[f] = IF f = x THEN Waiting ELSE flusher[f]
      BY <2>2, <3>5
    <3> QED BY <1>0, <3>3, <3>4, <3>6 DEF Carries
  <2>3. UNCHANGED flusher \/ \E x \in {y \in Flushers : ~Alive(y)} :
                                flusher' = [flusher EXCEPT ![x] = Waiting]
    BY DEF Flush
  <2> QED BY <2>1, <2>2, <2>3
<1>13. Hand(flusher') = Hand(flusher)
  BY <1>12, HandStays
<1>14. Carries(flusher')
  BY <1>0, <1>12 DEF Carries
<1>15. OnItsWay' = After(st, FlattenSeq(batches'))
  <2>1. OnItsWay' = After(Start(db'), Hand(flusher') \o FlattenSeq(batches'))
    BY DEF OnItsWay
  <2>2. After(Start(db'), Hand(flusher') \o FlattenSeq(batches'))
          = After(After(Start(db'), Hand(flusher')), FlattenSeq(batches'))
    BY <1>0, <1>11, <1>14, OnItsWayTyped
  <2> QED BY <1>13, <2>1, <2>2 DEF st
<1>16. Better({}, {}, OnItsWay', q)
  BY <1>1, <1>11, <1>15 DEF st
<1> HIDE DEF q
<1>17. S \subseteq Keys
  BY DEF WithNodes
<1>18. Lands(OnItsWay', n, c, S)
  BY <1>6, <1>16, <1>17, BetterLands
<1> QED BY <1>3, <1>5, <1>7, <1>8, <1>11, <1>14, <1>18

(* What a commit or a drain does with the window.                          *)
LEMMA WindowLeaves ==
    ASSUME DataTyped, FlowOK, Sole, NEW h \in Graph, Lands(OnItsWay, h, known, Counted),
           Flush(h) \/ NoFlush(h), UNCHANGED <<db, tainted, late, backup>>
    PROVE  /\ DataTyped' /\ Sole' /\ Lands(OnItsWay', g', known', Counted)
           /\ g'.deferred = h.deferred
           /\ g'.pending \in {<<>>, h.pending}
           /\ Flush(h) => g'.pending = <<>>
<1>0. WithNodes(Counted) /\ \A k \in Counted : Near(k) \subseteq Counted
  BY CountedKeys
<1>1. CASE NoFlush(h)
  <2>1. g' = h /\ UNCHANGED <<known, batches, current, flusher>>
    BY <1>1 DEF NoFlush
  <2>2. DataTyped' /\ Sole'
    BY <2>1 DEF DataTyped, Sole
  <2>3. OnItsWay' = OnItsWay
    BY <2>1 DEF OnItsWay
  <2>4. Flush(h) => g'.pending = <<>>
    BY DEF Flush, Graph
  <2> QED BY <2>1, <2>2, <2>3, <2>4
<1>2. CASE Flush(h)
  <2>1. /\ g' \in Graph /\ known' \subseteq Keys /\ batches' \in Seq(Batches)
        /\ Lands(OnItsWay', g', known', Counted)
        /\ g'.pending = <<>> /\ g'.deferred = h.deferred /\ Carries(flusher')
    BY <1>0, <1>2, FlushLands
  <2>2. DataTyped'
    BY <2>1 DEF DataTyped
  <2>3. ASSUME ~late', NEW x \in Flushers, flusher'[x].at # "absent" PROVE x = current'
    <3>1. flusher[x].at # "absent" => x = current
      BY <2>3 DEF Sole
    <3>2. CASE Alive(current)
      <4>1. UNCHANGED <<current, flusher>>
        BY <1>2, <3>2 DEF Flush
      <4> QED BY <2>3, <3>1, <4>1
    <3>3. CASE ~Alive(current)
      <4>1. PICK f \in Flushers : /\ current' = f
                                  /\ flusher' = [flusher EXCEPT ![f] = Waiting]
        BY <1>2, <3>3 DEF Flush
      <4>2. CASE x = f
        BY <4>1, <4>2
      <4>3. CASE x # f
        <5>1. flusher'[x] = flusher[x]
          BY <4>1, <4>3
        <5>2. x = current /\ flusher[x].at # "absent"
          BY <2>3, <3>1, <5>1
        <5>3. x # None
          BY FlusherAssumption DEF None
        <5> QED BY <3>3, <5>2, <5>3 DEF Alive
      <4> QED BY <4>2, <4>3
    <3> QED BY <3>2, <3>3
  <2>4. Sole'
    BY <2>3 DEF Sole
  <2> QED BY <2>1, <2>2, <2>4
<1> QED BY <1>1, <1>2

LEMMA ApplyLands ==
    ASSUME DataInv, FlowOK, NEW job, job.key \in Keys, job.val \in Values, Apply(job)
    PROVE  DataInv'
<1>0. /\ DataTyped /\ Sole /\ g \in Graph /\ Lands(OnItsWay, g, known, Counted)
      /\ OnItsWay \in State /\ WithNodes(Counted)
  BY CountedKeys, OnItsWayTyped DEF DataInv, LandInv, DataTyped, OnItsWay
<1> DEFINE r == OnItsWay.rows
<1>1. Knows(r, known, Counted) /\ Memory(g, r, known, Counted) /\ Good(OnItsWay, known, Counted)
  BY <1>0, LandsTyped
<1>2. call = None /\ UNCHANGED <<db, tainted, late, backup, call>>
  BY DEF Apply, callVars
<1>3. \E h \in Graph : Memory(h, r, known, Counted) /\ Commit(h)
  <2> HIDE DEF r
  <2>1. PICK age \in Ages :
          LET there == job.key \in Edges => \A n \in Ends[job.key] : g.mem[n] # 0
              h == IF there THEN Upserted(g, job.key, job.val, age) ELSE g
          IN  Commit(h) \/ \E k \in Prunable(h) : Commit(Pruned(h, k))
    BY DEF Apply
  <2> DEFINE there == job.key \in Edges => \A n \in Ends[job.key] : g.mem[n] # 0
             h == IF there THEN Upserted(g, job.key, job.val, age) ELSE g
  <2>2. Commit(h) \/ \E k \in Prunable(h) : Commit(Pruned(h, k))
    BY <2>1
  <2>3. h \in Graph /\ Memory(h, r, known, Counted)
    <3>1. CASE there
      BY <1>0, <1>1, <3>1, StagedKeeps
    <3>2. CASE ~there
      BY <1>0, <1>1, <3>2
    <3> QED BY <3>1, <3>2
  <2> HIDE DEF h, there
  <2>4. CASE Commit(h)
    BY <2>3, <2>4
  <2>5. ASSUME NEW k \in Prunable(h), Commit(Pruned(h, k))
        PROVE  \E x \in Graph : Memory(x, r, known, Counted) /\ Commit(x)
    <3>1. Pruned(h, k) \in Graph /\ Memory(Pruned(h, k), r, known, Counted)
      BY <1>1, <2>3, <2>5, PrunedKeeps
    <3> QED BY <2>5, <3>1
  <2> QED BY <2>2, <2>4, <2>5
<1>4. PICK h \in Graph : Memory(h, r, known, Counted) /\ Commit(h)
  BY <1>3
<1>5. Lands(OnItsWay, h, known, Counted)
  BY <1>1, <1>4 DEF Lands
<1>6. Flush(h) \/ NoFlush(h)
  BY <1>4 DEF Commit
<1>7. DataTyped' /\ Sole' /\ Lands(OnItsWay', g', known', Counted)
  BY <1>0, <1>2, <1>5, <1>6, WindowLeaves
<1>8. Counted' = Counted
  BY <1>2 DEF Counted
<1>9. CallOK'
  BY <1>2 DEF CallOK, None
<1> QED BY <1>7, <1>8, <1>9 DEF DataInv, LandInv

(* What is on its way stays as it is.                                      *)
dataVars == <<g, db, known, tainted, batches, flusher, backup, current, late, call>>

LEMMA DataStays ==
    ASSUME DataInv, UNCHANGED dataVars
    PROVE  DataInv'
<1>1. DataTyped' /\ Sole' /\ CallOK'
  BY DEF DataInv, DataTyped, Sole, CallOK, dataVars
<1>2. OnItsWay' = OnItsWay /\ Counted' = Counted /\ g' = g /\ known' = known
  BY DEF OnItsWay, Counted, dataVars
<1> QED BY <1>1, <1>2 DEF DataInv, LandInv

LEMMA JobLands ==
    ASSUME KuzuInv, DataInv,
           EnqueueJob \/ ApplyHere \/ WorkerApplies \/ JobRaises \/ SetAsync
    PROVE  DataInv'
<1>0. FlowOK /\ JobsOK
  BY DEF KuzuInv
<1>1. CASE EnqueueJob \/ JobRaises \/ SetAsync
  <2>1. UNCHANGED dataVars
    BY <1>1 DEF EnqueueJob, JobRaises, SetAsync, queueVars, callVars, dataVars
  <2> QED BY <2>1, DataStays
<1>2. CASE ApplyHere
  <2>1. PICK job \in Jobs : Apply(job)
    BY <1>2 DEF ApplyHere
  <2>2. job.key \in Keys /\ job.val \in Values
    BY DEF Jobs
  <2> QED BY <1>0, <2>1, <2>2, ApplyLands
<1>3. CASE WorkerApplies
  <2>1. Apply(Head(jobs)) /\ jobs # <<>>
    BY <1>3 DEF WorkerApplies
  <2>2. Head(jobs) \in [n : 1..MaxJobs, key : Keys, val : Values]
    <3> DEFINE T == [n : 1..MaxJobs, key : Keys, val : Values]
    <3>1. jobs \in Seq(T)
      BY <1>0 DEF JobsOK
    <3> HIDE DEF T
    <3>2. Head(jobs) \in T
      BY <2>1, <3>1
    <3> QED BY <3>2 DEF T
  <2>3. Head(jobs).key \in Keys /\ Head(jobs).val \in Values
    BY <2>2
  <2> QED BY <1>0, <2>1, <2>3, ApplyLands
<1> QED BY <1>1, <1>2, <1>3

-----------------------------------------------------------------------------
(* The flusher threads                                                     *)

LEMMA SuffixFacts ==
    ASSUME NEW X, NEW s \in Seq(X), NEW n \in 0..Len(s)
    PROVE  /\ SubSeq(s, n + 1, Len(s)) \in Seq(X) /\ Len(SubSeq(s, n + 1, Len(s))) = Len(s) - n
           /\ \A i \in 1..(Len(s) - n) : SubSeq(s, n + 1, Len(s))[i] = s[n + i]
OBVIOUS

(* The first n batches of a queue, and the others.                         *)
LEMMA QueueSplits ==
    ASSUME NEW bs \in Seq(Batches), NEW n \in 1..Len(bs)
    PROVE  LET taken == SubSeq(bs, 1, n)
               rest == SubSeq(bs, n + 1, Len(bs))
           IN  /\ taken \in Seq(Batches) /\ rest \in Seq(Batches)
               /\ FlattenSeq(bs) = FlattenSeq(taken) \o FlattenSeq(rest)
<1> DEFINE taken == SubSeq(bs, 1, n)
           rest == SubSeq(bs, n + 1, Len(bs))
           l == Len(bs)
<1>1. l \in Nat /\ n \in Nat /\ n <= l /\ n \in 0..l
  OBVIOUS
<1>2. /\ taken \in Seq(Batches) /\ Len(taken) = n /\ \A i \in 1..n : taken[i] = bs[i]
  BY <1>1, PrefixFacts
<1>3. /\ rest \in Seq(Batches) /\ Len(rest) = l - n
      /\ \A i \in 1..(l - n) : rest[i] = bs[n + i]
  BY <1>1, SuffixFacts
<1> HIDE DEF taken, rest
<1> DEFINE w == taken \o rest
<1>4. w \in Seq(Batches) /\ Len(w) = l /\ (\A i \in 1..n : w[i] = taken[i])
      /\ (\A i \in 1..(l - n) : w[n + i] = rest[i])
  <2>1. /\ w \in Seq(Batches) /\ Len(w) = Len(taken) + Len(rest)
        /\ \A i \in 1..Len(taken) : w[i] = taken[i]
        /\ \A i \in 1..Len(rest) : w[Len(taken) + i] = rest[i]
    <3>1. taken \in Seq(Batches) /\ rest \in Seq(Batches)
      BY <1>2, <1>3
    <3> QED BY <3>1, ConcatFacts
  <2>2. n + (l - n) = l
    BY <1>1
  <2> HIDE DEF w
  <2> QED BY <1>2, <1>3, <2>1, <2>2
<1> HIDE DEF w
<1>5. ASSUME NEW i \in 1..l PROVE bs[i] = w[i]
  <2>1. CASE i \in 1..n
    BY <1>2, <1>4, <2>1
  <2>2. CASE i \notin 1..n
    <3>1. i - n \in 1..(l - n) /\ n + (i - n) = i
      BY <1>1, <2>2
    <3> QED BY <1>3, <1>4, <3>1
  <2> QED BY <2>1, <2>2
<1>6. bs = w
  BY <1>4, <1>5, EqualSequences
<1>7. FlattenSeq(taken \o rest) = FlattenSeq(taken) \o FlattenSeq(rest)
  BY <1>2, <1>3, FlattenInTurn
<1>8. FlattenSeq(bs) = FlattenSeq(taken) \o FlattenSeq(rest)
  BY <1>6, <1>7 DEF w
<1> QED BY <1>2, <1>3, <1>8 DEF taken, rest

(* The rows of a state are better than it.                                 *)
LEMMA BetterRows ==
    ASSUME NEW a
    PROVE  Better({}, {}, Start(a.rows), a)
BY DEF Better, Alike, Start

(* A batch t lands on st as well as s does, but for the keys of T.         *)
Replaces(T, t, s) ==
    t \in Seq(Stmt) /\ s \in Seq(Stmt) /\
    \A st \in State : Better(T, {}, After(st, t), After(st, s))

LEMMA TakenReplaces ==
    ASSUME NEW s \in Seq(Stmt)
    PROVE  Replaces({}, Merged(s), s) /\ Replaces(Shed(Merged(s)), Kept(Merged(s)), s)
<1> DEFINE m == Merged(s)
<1>1. m \in Seq(Stmt) /\ Kept(m) \in Seq(Stmt)
  BY MergedSteps, KeptSteps
<1>2. Spaced(m)
  BY MergedIsSpaced
<1>3. \A st \in State : Better({}, {}, After(st, m), After(st, s))
  BY BetterMerged
<1> HIDE DEF m
<1>4. \A st \in State : Better(Shed(m), {}, After(st, Kept(m)), After(st, m))
  BY <1>1, <1>2, BetterKept
<1>5. ASSUME NEW st \in State PROVE Better(Shed(m), {}, After(st, Kept(m)), After(st, s))
  <2>1. Better(Shed(m) \cup {}, {}, After(st, Kept(m)), After(st, s))
    BY <1>3, <1>4, BetterChains
  <2>2. Shed(m) \cup {} = Shed(m)
    OBVIOUS
  <2> QED BY <2>1, <2>2
<1> QED BY <1>1, <1>3, <1>5 DEF Replaces, m

(* What is on its way from one thread with the batch s.                    *)
Way(d, s, bs) == After(After(Start(d), s), FlattenSeq(bs))

LEMMA WayTyped ==
    ASSUME NEW d \in Rows, NEW s \in Seq(Stmt), NEW bs \in Seq(Batches)
    PROVE  /\ After(Start(d), s) \in State /\ Way(d, s, bs) \in State
           /\ Start(d) \in State /\ FlattenSeq(bs) \in Seq(Stmt)
           /\ After(Start(d), s).rows \in Rows
<1>1. Start(d) \in State
  BY DEF Start, State
<1>2. After(Start(d), s) \in State /\ FlattenSeq(bs) \in Seq(Stmt)
  BY <1>1, AfterSteps, FlattenSteps
<1>3. Way(d, s, bs) \in State
  BY <1>2, AfterSteps DEF Way
<1>4. After(Start(d), s).rows \in Rows
  BY <1>2 DEF State
<1> QED BY <1>1, <1>2, <1>3, <1>4

(* What lands first is better: all is.                                     *)
LEMMA BetterWay ==
    ASSUME NEW d \in Rows, NEW s \in Seq(Stmt), NEW e \in Rows, NEW t \in Seq(Stmt),
           NEW bs \in Seq(Batches), NEW T,
           Better(T, {}, After(Start(e), t), After(Start(d), s))
    PROVE  Better(T, {}, Way(e, t, bs), Way(d, s, bs))
BY WayTyped, BetterAfter DEF Way

LEMMA WayOfTaken ==
    ASSUME NEW d \in Rows, NEW bs \in Seq(Batches), NEW n \in 1..Len(bs), NEW t, NEW T,
           Replaces(T, t, FlattenSeq(SubSeq(bs, 1, n)))
    PROVE  Better(T, {}, Way(d, t, SubSeq(bs, n + 1, Len(bs))), Way(d, <<>>, bs))
<1> DEFINE s == FlattenSeq(SubSeq(bs, 1, n))
           rest == SubSeq(bs, n + 1, Len(bs))
<1>1. rest \in Seq(Batches) /\ s \in Seq(Stmt) /\ FlattenSeq(bs) = s \o FlattenSeq(rest)
  BY QueueSplits, FlattenSteps
<1>2. t \in Seq(Stmt) /\ \A st \in State : Better(T, {}, After(st, t), After(st, s))
  BY DEF Replaces
<1> HIDE DEF s, rest
<1>3. Start(d) \in State /\ FlattenSeq(rest) \in Seq(Stmt) /\ <<>> \in Seq(Stmt)
  BY <1>1, <1>2, WayTyped
<1>4. After(Start(d), <<>>) = Start(d)
  BY <1>3, AfterSteps
<1>5. Way(d, <<>>, bs) = After(Start(d), s \o FlattenSeq(rest))
  BY <1>1, <1>4 DEF Way
<1>6. Way(d, <<>>, bs) = Way(d, s, rest)
  BY <1>1, <1>3, <1>5, AfterInTurn DEF Way
<1>7. Better(T, {}, After(Start(d), t), After(Start(d), s))
  BY <1>2, <1>3
<1>8. Better(T, {}, Way(d, t, rest), Way(d, s, rest))
  BY <1>1, <1>2, <1>7, BetterWay
<1> QED BY <1>6, <1>8 DEF rest

(* A batch has been executed, on the rows that were there.                 *)
LEMMA WayOfExecuted ==
    ASSUME NEW d \in Rows, NEW s \in Seq(Stmt), NEW t \in Seq(Stmt), NEW bs \in Seq(Batches),
           NEW T, Better(T, {}, After(Start(d), t), After(Start(d), s))
    PROVE  /\ Executed(d, t) \in Rows
           /\ Better(T, {}, Way(Executed(d, t), <<>>, bs), Way(d, s, bs))
<1> DEFINE e == Executed(d, t)
           b == After(Start(d), t)
<1>1. Start(d) \in State /\ b \in State /\ b.rows \in Rows
  BY WayTyped
<1>2. e = b.rows
  <2>1. Start(d).rows = d
    BY DEF Start
  <2> QED BY <1>1, <2>1, AfterRows
<1>3. e \in Rows /\ Start(e) \in State /\ <<>> \in Seq(Stmt)
  BY <1>1, <1>2, WayTyped
<1>4. After(Start(e), <<>>) = Start(e)
  BY <1>3, AfterSteps
<1>5. Better({}, {}, Start(e), b)
  BY <1>2, BetterRows
<1>6. Better({} \cup T, {}, Start(e), After(Start(d), s))
  BY <1>5, BetterChains
<1>7. {} \cup T = T
  OBVIOUS
<1> HIDE DEF e
<1>8. Better(T, {}, After(Start(e), <<>>), After(Start(d), s))
  BY <1>4, <1>6, <1>7
<1>9. Better(T, {}, Way(e, <<>>, bs), Way(d, s, bs))
  BY <1>3, <1>8, BetterWay
<1> QED BY <1>3, <1>9 DEF e

(* A replay, of all of the batch or without one of its statements.         *)
LEMMA WayOfReplayed ==
    ASSUME NEW d \in Rows, NEW s \in Seq(Stmt), NEW t \in Seq(Stmt), NEW bs \in Seq(Batches),
           NEW T, Better(T, {}, After(Start(d), t), After(Start(d), s))
    PROVE  /\ Replayed(d, t) \in Rows
           /\ Better(T, {}, Way(Replayed(d, t), <<>>, bs), Way(d, s, bs))
<1>1. Start(d) \in State
  BY WayTyped
<1>2. AllLooking(t) \in Seq(Stmt)
  BY LookingTyped
<1>3. Better({}, {}, After(Start(d), AllLooking(t)), After(Start(d), t))
  BY <1>1, BetterReplayed
<1>4. Better({} \cup T, {}, After(Start(d), AllLooking(t)), After(Start(d), s))
  BY <1>3, BetterChains
<1>5. {} \cup T = T
  OBVIOUS
<1>6. Replayed(d, t) = Executed(d, AllLooking(t))
  BY DEF Replayed, AllLooking, Looking
<1> QED BY <1>2, <1>4, <1>5, <1>6, WayOfExecuted

LEMMA KeysTyped ==
    ASSUME NEW s \in Seq(Stmt)
    PROVE  KeysOf(s) \subseteq Keys /\ KeysOf(s) = {x.key : x \in ToSet(s)}
<1>1. \A i \in DOMAIN s : s[i] \in Stmt
  OBVIOUS
<1>2. \A i \in DOMAIN s : s[i].key \in Keys
  BY <1>1, StmtFields
<1>3. KeysOf(s) = {x.key : x \in ToSet(s)}
  BY DEF KeysOf, ToSet
<1> QED BY <1>2, <1>3 DEF KeysOf

(* What is left when one thread f has acted: it has r in hand now.         *)
LEMMA ActsTyped ==
    ASSUME DataTyped, FlowOK, NEW f \in Flushers, NEW r,
           flusher' = [flusher EXCEPT ![f] = r], r.batch \in Batches,
           r.at \in Idle => r.batch = <<>>,
           batches' \in Seq(Batches), db' \in Rows, tainted' \subseteq Keys,
           UNCHANGED <<g, known, backup>>
    PROVE  /\ DataTyped' /\ flusher'[f] = r
           /\ \A x \in Flushers \ {f} : flusher'[x] = flusher[x]
<1>1. PICK B : flusher \in [Flushers -> B]
  BY DEF FlowOK
<1>2. flusher'[f] = r /\ \A x \in Flushers \ {f} : flusher'[x] = flusher[x]
  BY <1>1
<1>3. Carries(flusher')
  BY <1>2 DEF DataTyped, Carries
<1> QED BY <1>2, <1>3 DEF DataTyped

(* One thread has acted: but for the keys of T, what is on its way is as   *)
(* good as it was.                                                         *)
Acted(f, T) ==
    /\ DataTyped' /\ T \subseteq tainted' /\ tainted \subseteq tainted'
    /\ \A x \in Flushers \ {f} : flusher'[x] = flusher[x]
    /\ Better(T, {}, Way(db', flusher'[f].batch, batches'), Way(db, flusher[f].batch, batches))

LEMMA TakesLands ==
    ASSUME DataTyped, FlowOK, NEW f \in Flushers, Takes(f)
    PROVE  \E T : Acted(f, T)
<1> DEFINE n == IF Len(batches) < MergeMax THEN Len(batches) ELSE MergeMax
           taken == FlattenSeq(SubSeq(batches, 1, n))
           s == Merged(taken)
           rest == SubSeq(batches, n + 1, Len(batches))
           hand(b) == [at |-> "ready", batch |-> b, n |-> n]
<1>0. batches \in Seq(Batches) /\ db \in Rows /\ tainted \subseteq Keys /\ Carries(flusher)
  BY DEF DataTyped
<1>1. /\ flusher[f].at = "waiting" /\ batches # <<>> /\ batches' = rest
      /\ UNCHANGED <<g, known, backup, db>>
      /\ \/ flusher' = [flusher EXCEPT ![f] = hand(s)] /\ UNCHANGED tainted
         \/ /\ flusher' = [flusher EXCEPT ![f] = hand(Kept(s))]
            /\ tainted' = tainted \cup Shed(s)
  BY DEF Takes, flusherFrame
<1>2. n \in 1..Len(batches)
  <2>1. Len(batches) \in Nat /\ Len(batches) # 0
    BY <1>0, <1>1
  <2> QED BY <2>1, FlusherAssumption
<1>3. rest \in Seq(Batches) /\ taken \in Seq(Stmt)
  BY <1>0, <1>2, QueueSplits, FlattenSteps
<1>4. flusher[f].batch = <<>>
  BY <1>0, <1>1 DEF Carries, Idle
<1> HIDE DEF n
<1>5. ASSUME NEW T, NEW b, Replaces(T, b, taken), flusher' = [flusher EXCEPT ![f] = hand(b)],
             tainted' = tainted \cup T, T \subseteq Keys
      PROVE  Acted(f, T)
  <2>1. b \in Batches /\ hand(b).batch = b /\ hand(b).at \notin Idle
    BY <1>5 DEF Replaces, Batches, Idle
  <2>2. Better(T, {}, Way(db, b, rest), Way(db, <<>>, batches))
    BY <1>0, <1>2, <1>5, WayOfTaken
  <2>3. batches' = rest /\ db' = db
    BY <1>1
  <2> DEFINE r == hand(b)
  <2>4. r.batch = b /\ r.at \notin Idle /\ flusher' = [flusher EXCEPT ![f] = r]
    BY <2>1, <1>5
  <2>5. batches' \in Seq(Batches) /\ db' \in Rows /\ tainted' \subseteq Keys
    BY <1>0, <1>3, <1>5, <2>3
  <2> HIDE DEF hand, r, rest
  <2>6. /\ DataTyped' /\ flusher'[f] = r
        /\ \A x \in Flushers \ {f} : flusher'[x] = flusher[x]
    BY <1>1, <2>1, <2>4, <2>5, ActsTyped
  <2> QED BY <1>4, <1>5, <2>2, <2>3, <2>4, <2>6 DEF Acted
<1>6. Replaces({}, s, taken) /\ Replaces(Shed(s), Kept(s), taken)
  BY <1>3, TakenReplaces
<1>7. Shed(s) \subseteq Keys
  <2>1. s \in Seq(Stmt)
    BY <1>3, MergedSteps
  <2> HIDE DEF s
  <2>2. KeysOf(s) \subseteq Keys
    BY <2>1, KeysTyped
  <2> QED BY <2>1, <2>2, ShedOf
<1> HIDE DEF s, taken, rest, hand
<1>8. CASE flusher' = [flusher EXCEPT ![f] = hand(s)] /\ UNCHANGED tainted
  <2> DEFINE T == {}
  <2>1. tainted' = tainted \cup T /\ T \subseteq Keys
    BY <1>8
  <2>2. Replaces(T, s, taken)
    BY <1>6
  <2> HIDE DEF T
  <2>3. Acted(f, T)
    BY <1>5, <1>8, <2>1, <2>2
  <2> QED BY <2>3
<1>9. CASE /\ flusher' = [flusher EXCEPT ![f] = hand(Kept(s))]
           /\ tainted' = tainted \cup Shed(s)
  <2>1. Acted(f, Shed(s))
    BY <1>5, <1>6, <1>7, <1>9
  <2> QED BY <2>1
<1> QED BY <1>1, <1>8, <1>9

(* A thread lays its batch down, done or lost.                             *)
LEMMA LaidDownLands ==
    ASSUME DataTyped, FlowOK, NEW f \in Flushers, NEW r,
           r.batch = <<>>, flusher' = [flusher EXCEPT ![f] = r],
           NEW T, T \subseteq Keys, tainted' = tainted \cup T, db' \in Rows,
           Better(T, {}, Way(db', <<>>, batches), Way(db, flusher[f].batch, batches)),
           UNCHANGED <<g, known, backup, batches>>
    PROVE  Acted(f, T)
<1>1. batches' \in Seq(Batches) /\ tainted' \subseteq Keys
  BY DEF DataTyped
<1>2. r.batch \in Batches
  BY DEF Batches
<1>3. /\ DataTyped' /\ flusher'[f] = r
      /\ \A x \in Flushers \ {f} : flusher'[x] = flusher[x]
  BY <1>1, <1>2, ActsTyped
<1> QED BY <1>3 DEF Acted

(* The batch is lost.                                                      *)
LEMMA LostLands ==
    ASSUME DataTyped, NEW f \in Flushers
    PROVE  LET T == {x.key : x \in ToSet(flusher[f].batch)}
           IN  /\ T \subseteq Keys
               /\ Better(T, {}, Way(db, <<>>, batches), Way(db, flusher[f].batch, batches))
<1> DEFINE s == flusher[f].batch
           T == {x.key : x \in ToSet(s)}
<1>1. s \in Seq(Stmt) /\ db \in Rows /\ batches \in Seq(Batches)
  BY DEF DataTyped, Carries, Batches
<1> HIDE DEF s
<1>2. T \subseteq Keys /\ T = {s[i].key : i \in DOMAIN s}
  BY <1>1, KeysTyped DEF KeysOf
<1> HIDE DEF T
<1>3. Start(db) \in State /\ <<>> \in Seq(Stmt)
  BY <1>1, WayTyped
<1>4. After(Start(db), <<>>) = Start(db)
  BY <1>3, AfterSteps
<1>5. Better(T, {}, After(Start(db), <<>>), After(Start(db), s))
  BY <1>1, <1>2, <1>3, <1>4, BetterDropped
<1>6. Better(T, {}, Way(db, <<>>, batches), Way(db, s, batches))
  BY <1>1, <1>3, <1>5, BetterWay
<1> QED BY <1>2, <1>6 DEF T, s

LEMMA DiesLands ==
    ASSUME DataTyped, FlowOK, NEW f \in Flushers, Dies(f)
    PROVE  \E T : Acted(f, T)
<1> DEFINE T == {x.key : x \in ToSet(flusher[f].batch)}
<1>1. /\ flusher' = [flusher EXCEPT ![f] = Absent] /\ tainted' = tainted \cup T
      /\ UNCHANGED <<g, known, backup, batches, db>>
  BY DEF Dies, flusherFrame
<1>2. T \subseteq Keys /\
      Better(T, {}, Way(db, <<>>, batches), Way(db, flusher[f].batch, batches))
  BY LostLands
<1> HIDE DEF T
<1>3. Absent.batch = <<>> /\ db' = db /\ db' \in Rows
  BY <1>1 DEF Absent, DataTyped
<1>4. Acted(f, T)
  BY <1>1, <1>2, <1>3, LaidDownLands
<1> QED BY <1>4

LEMMA ExecutesLands ==
    ASSUME DataTyped, FlowOK, NEW f \in Flushers, Executes(f)
    PROVE  \E T : Acted(f, T)
<1> DEFINE s == flusher[f].batch
           lost == {x.key : x \in ToSet(s)}
<1>1. /\ flusher' = [flusher EXCEPT ![f] = Waiting]
      /\ UNCHANGED <<g, known, backup, batches>>
      /\ \/ db' = Executed(db, s) /\ UNCHANGED tainted
         \/ db' = Replayed(db, s) /\ UNCHANGED tainted
         \/ \E i \in DOMAIN s : /\ db' = Replayed(db, RemoveAt(s, i))
                                /\ tainted' = tainted \cup {s[i].key}
         \/ tainted' = tainted \cup lost /\ UNCHANGED db
  BY DEF Executes, flusherFrame
<1>2. s \in Seq(Stmt) /\ db \in Rows /\ batches \in Seq(Batches)
  BY DEF DataTyped, Carries, Batches
<1>3. lost \subseteq Keys /\ Better(lost, {}, Way(db, <<>>, batches), Way(db, s, batches))
  BY LostLands
<1>4. Waiting.batch = <<>> /\ Start(db) \in State
  BY <1>2, WayTyped DEF Waiting, Absent
<1>5. ASSUME NEW T, T \subseteq Keys, tainted' = tainted \cup T, db' \in Rows,
             Better(T, {}, Way(db', <<>>, batches), Way(db, s, batches))
      PROVE  \E U : Acted(f, U)
  <2>1. Acted(f, T)
    BY <1>1, <1>4, <1>5, LaidDownLands
  <2> QED BY <2>1
<1> HIDE DEF lost, s
<1>6. Better({}, {}, After(Start(db), s), After(Start(db), s))
  BY BetterSelf
<1>7. CASE db' = Executed(db, s) /\ UNCHANGED tainted
  <2>1. /\ Executed(db, s) \in Rows
        /\ Better({}, {}, Way(Executed(db, s), <<>>, batches), Way(db, s, batches))
    BY <1>2, <1>6, WayOfExecuted
  <2>2. tainted' = tainted \cup {}
    BY <1>7
  <2> QED BY <1>5, <1>7, <2>1, <2>2
<1>8. CASE db' = Replayed(db, s) /\ UNCHANGED tainted
  <2>1. /\ Replayed(db, s) \in Rows
        /\ Better({}, {}, Way(Replayed(db, s), <<>>, batches), Way(db, s, batches))
    BY <1>2, <1>6, WayOfReplayed
  <2>2. tainted' = tainted \cup {}
    BY <1>8
  <2> QED BY <1>5, <1>8, <2>1, <2>2
<1>9. ASSUME NEW i \in DOMAIN s, db' = Replayed(db, RemoveAt(s, i)),
             tainted' = tainted \cup {s[i].key}
      PROVE  \E U : Acted(f, U)
  <2> DEFINE t == RemoveAt(s, i)
  <2>1. t \in Seq(Stmt) /\ Better({s[i].key}, {}, After(Start(db), t), After(Start(db), s))
    BY <1>2, <1>4, BetterRemoved
  <2>2. s[i].key \in Keys
    BY <1>2, StmtFields
  <2> HIDE DEF t
  <2>3. /\ Replayed(db, t) \in Rows
        /\ Better({s[i].key}, {}, Way(Replayed(db, t), <<>>, batches), Way(db, s, batches))
    BY <1>2, <2>1, WayOfReplayed
  <2> QED BY <1>5, <1>9, <2>2, <2>3 DEF t
<1>10. CASE tainted' = tainted \cup lost /\ UNCHANGED db
  BY <1>2, <1>3, <1>5, <1>10
<1> QED BY <1>1, <1>7, <1>8, <1>9, <1>10

LEMMA OthersLand ==
    ASSUME DataTyped, FlowOK, NEW f \in Flushers, Connects(f) \/ Stops(f)
    PROVE  \E T : Acted(f, T)
<1> DEFINE r == IF flusher[f].at = "ready"
                THEN [flusher[f] EXCEPT !.at = IF open THEN "connected" ELSE "gone"]
                ELSE Absent
<1>0. flusher[f].batch \in Batches /\ (flusher[f].at \in Idle => flusher[f].batch = <<>>)
  BY DEF DataTyped, Carries
<1>1. UNCHANGED <<g, known, backup, batches, db, tainted>>
  BY DEF Connects, Stops, flusherFrame
<1>2. flusher' = [flusher EXCEPT ![f] = r] /\ flusher[f].at \in {"ready", "waiting"}
  BY DEF Connects, Stops
<1>3. r.batch = flusher[f].batch /\ (r.at \in Idle => r.batch = <<>>)
  <2>0. PICK B : flusher \in [Flushers -> Threads(B)]
    BY DEF FlowOK
  <2>1. flusher[f] \in Threads(B)
    BY <2>0
  <2>2. CASE flusher[f].at = "ready"
    <3>1. r = [flusher[f] EXCEPT !.at = IF open THEN "connected" ELSE "gone"]
      BY <2>2
    <3>2. r.batch = flusher[f].batch /\ r.at \notin Idle
      BY <2>1, <3>1 DEF Threads, Idle
    <3> QED BY <3>2
  <2>3. CASE flusher[f].at = "waiting"
    <3>1. flusher[f].batch = <<>>
      BY <1>0, <2>3 DEF Idle
    <3> QED BY <2>3, <3>1 DEF Absent
  <2> QED BY <1>2, <2>2, <2>3
<1> HIDE DEF r
<1>4. r.batch \in Batches /\ batches' \in Seq(Batches) /\ db' \in Rows /\
      tainted' \subseteq Keys
  BY <1>0, <1>1, <1>3 DEF DataTyped
<1>5. /\ DataTyped' /\ flusher'[f] = r
      /\ \A x \in Flushers \ {f} : flusher'[x] = flusher[x]
  BY <1>1, <1>2, <1>3, <1>4, ActsTyped
<1>6. Acted(f, {})
  BY <1>1, <1>3, <1>5, BetterSelf DEF Acted
<1> QED BY <1>6

(* The other threads have nothing in hand: what is on its way comes from   *)
(* the one that acts.                                                      *)
LEMMA WayIsOnItsWay ==
    ASSUME NEW fl, Carries(fl), NEW bs \in Seq(Batches), NEW d \in Rows, NEW f \in Flushers,
           \A x \in Flushers \ {f} : fl[x].at = "absent"
    PROVE  After(Start(d), Hand(fl) \o FlattenSeq(bs)) = Way(d, fl[f].batch, bs)
<1>1. \A x \in Flushers : fl[x].batch # <<>> => x = f
  BY DEF Carries, Idle
<1>2. Hand(fl) = fl[f].batch
  BY <1>1, HandIs
<1>3. After(Start(d), Hand(fl) \o FlattenSeq(bs))
        = After(After(Start(d), Hand(fl)), FlattenSeq(bs))
  BY OnItsWayTyped
<1> QED BY <1>2, <1>3 DEF Way

LEMMA ThreadLands ==
    ASSUME KuzuInv, DataInv, NEW f \in Flushers, FlusherStep(f) \/ Dies(f)
    PROVE  DataInv'
<1>0. DataTyped /\ Sole /\ CallOK /\ LandInv /\ FlowOK
  BY DEF DataInv, KuzuInv
<1>1. PICK T : Acted(f, T)
  BY <1>0, TakesLands, DiesLands, ExecutesLands, OthersLand DEF FlusherStep
<1>2. UNCHANGED <<g, known, current, call, late>> /\ flusher[f].at # "absent"
  BY DEF FlusherStep, Takes, Dies, Connects, Executes, Stops, flusherFrame, callVars
<1>3. /\ DataTyped' /\ T \subseteq tainted' /\ tainted \subseteq tainted'
      /\ \A x \in Flushers \ {f} : flusher'[x] = flusher[x]
      /\ Better(T, {}, Way(db', flusher'[f].batch, batches'), Way(db, flusher[f].batch,
            batches))
  BY <1>1 DEF Acted
<1>4. Sole'
  BY <1>0, <1>2, <1>3 DEF Sole
<1>5. CallOK'
  BY <1>0, <1>2 DEF CallOK
<1>6. Distinct(g.pending)
  <2>1. OnItsWay \in State /\ WithNodes(Counted)
    BY <1>0, CountedKeys, OnItsWayTyped DEF DataTyped, OnItsWay
  <2> QED BY <1>0, <2>1, LandsTyped DEF LandInv
<1>7. LandInv'
  <2>1. CASE late \/ call \in {"clear", "restore"}
    <3>1. Counted' = {}
      BY <1>2, <2>1 DEF Counted
    <3>2. Lands(OnItsWay', g, known', {})
      BY <1>6, LandsNothing
    <3> QED BY <1>2, <3>1, <3>2 DEF LandInv
  <2>2. CASE ~late /\ call \notin {"clear", "restore"}
    <3>1. Counted = Sounds(tainted) /\ Counted' = Sounds(tainted')
      BY <1>2, <2>2 DEF Counted
    <3>2. \A x \in Flushers \ {f} : flusher[x].at = "absent" /\ flusher'[x].at = "absent"
      BY <1>0, <1>2, <1>3, <2>2 DEF Sole
    <3>3. OnItsWay = Way(db, flusher[f].batch, batches)
      BY <1>0, <3>2, WayIsOnItsWay DEF OnItsWay, DataTyped
    <3>4. OnItsWay' = Way(db', flusher'[f].batch, batches')
      <4>1. Carries(flusher') /\ batches' \in Seq(Batches) /\ db' \in Rows
        BY <1>3 DEF DataTyped
      <4>2. After(Start(db'), Hand(flusher') \o FlattenSeq(batches'))
              = Way(db', flusher'[f].batch, batches')
        BY <3>2, <4>1, WayIsOnItsWay
      <4> QED BY <4>2 DEF OnItsWay
    <3>5. Better(T, {}, OnItsWay', OnItsWay)
      BY <1>3, <3>3, <3>4
    <3>6. Lands(OnItsWay, g, known, Sounds(tainted))
      BY <1>0, <3>1 DEF LandInv
    <3>7. /\ Sounds(tainted') \subseteq Sounds(tainted) /\ Sounds(tainted) \subseteq Keys
          /\ \A k \in Sounds(tainted') : /\ Near(k) \subseteq Sounds(tainted)
                                         /\ Near(k) \cap T = {}
      <4>1. Sounds(tainted') \subseteq Sounds(tainted)
        BY <1>3, SoundKeys
      <4>2. \A k \in Sounds(tainted) : Near(k) \subseteq Sounds(tainted)
        BY SoundKeys
      <4>3. \A k \in Sounds(tainted') : Near(k) \cap T = {}
        BY <1>3, SoundKeys
      <4>4. Sounds(tainted) \subseteq Keys
        BY DEF Sounds
      <4> QED BY <4>1, <4>2, <4>3, <4>4
    <3>8. Lands(OnItsWay', g, known, Sounds(tainted'))
      BY <3>5, <3>6, <3>7, BetterLands
    <3> QED BY <1>2, <3>1, <3>8 DEF LandInv
  <2> QED BY <2>1, <2>2
<1> QED BY <1>3, <1>4, <1>5, <1>7 DEF DataInv

-----------------------------------------------------------------------------
(* The calls                                                               *)

(* A drain starts: all that memory holds is on its way.                    *)
LEMMA DrainLands ==
    ASSUME DataInv, FlowOK, Drains, UNCHANGED <<db, tainted, late, backup>>
    PROVE  /\ DataTyped' /\ Sole' /\ Lands(OnItsWay', g', known', Counted)
           /\ g'.pending = <<>> /\ g'.deferred = NoRows
<1> DEFINE h == Promoted(g)
<1>0. /\ DataTyped /\ Sole /\ g \in Graph /\ Lands(OnItsWay, g, known, Counted)
      /\ OnItsWay \in State /\ WithNodes(Counted)
  BY CountedKeys, OnItsWayTyped DEF DataInv, LandInv, DataTyped, OnItsWay
<1>1. /\ Knows(OnItsWay.rows, known, Counted) /\ Memory(g, OnItsWay.rows, known, Counted)
      /\ Good(OnItsWay, known, Counted)
  BY <1>0, LandsTyped
<1>2. h \in Graph /\ Memory(h, OnItsWay.rows, known, Counted) /\ h.deferred = NoRows
  BY <1>0, <1>1, PromotedKeeps
<1>3. IF h.pending = <<>> THEN NoFlush(h) ELSE Flush(h)
  BY DEF Drains
<1> HIDE DEF h
<1>4. Lands(OnItsWay, h, known, Counted)
  BY <1>1, <1>2 DEF Lands
<1>5. /\ DataTyped' /\ Sole' /\ Lands(OnItsWay', g', known', Counted)
      /\ g'.deferred = h.deferred /\ g'.pending \in {<<>>, h.pending}
      /\ Flush(h) => g'.pending = <<>>
  BY <1>0, <1>2, <1>3, <1>4, WindowLeaves
<1> QED BY <1>2, <1>3, <1>5

LEMMA ClosedLands ==
    ASSUME DataTyped, FlowOK, flusher' = Closed(flusher),
           UNCHANGED <<g, known, batches, db, tainted, backup>>
    PROVE  /\ DataTyped' /\ OnItsWay' = OnItsWay
           /\ \A f \in Flushers : flusher'[f].at = "absent" <=> flusher[f].at = "absent"
<1>1. PICK B : flusher \in [Flushers -> Threads(B)]
  BY DEF FlowOK
<1>2. ASSUME NEW f \in Flushers
      PROVE  /\ flusher'[f].batch = flusher[f].batch
             /\ flusher'[f].at \in Idle <=> flusher[f].at \in Idle
             /\ flusher'[f].at = "absent" <=> flusher[f].at = "absent"
  <2>0. flusher[f] \in Threads(B)
    BY <1>1
  <2>1. flusher'[f] = IF flusher[f].at = "connected"
                      THEN [flusher[f] EXCEPT !.at = "gone"] ELSE flusher[f]
    BY DEF Closed
  <2>2. CASE flusher[f].at = "connected"
    <3>1. flusher'[f] = [flusher[f] EXCEPT !.at = "gone"]
      BY <2>1, <2>2
    <3>2. flusher'[f].at = "gone" /\ flusher'[f].batch = flusher[f].batch
      BY <2>0, <3>1 DEF Threads
    <3> QED BY <2>2, <3>2 DEF Idle
  <2>3. CASE flusher[f].at # "connected"
    BY <2>0, <2>1, <2>3
  <2> QED BY <2>2, <2>3
<1>3. Hand(flusher') = Hand(flusher)
  BY <1>2, HandStays
<1>4. OnItsWay' = OnItsWay
  BY <1>3 DEF OnItsWay
<1>5. DataTyped'
  BY <1>2 DEF DataTyped, Carries
<1> QED BY <1>2, <1>4, <1>5

(* When nothing counts, a window of distinct keys is enough.               *)
LEMMA NothingCounts ==
    ASSUME Counted' = {}, Distinct(g'.pending)
    PROVE  LandInv'
<1>1. Lands(OnItsWay', g', known', {})
  BY LandsNothing
<1> QED BY <1>1 DEF LandInv

LEMMA DistinctNothing == Distinct(<<>>)
BY DEF Distinct

(* A graph with nothing to be written.                                     *)
LEMMA FreshTyped ==
    /\ Fresh \in Graph /\ Fresh.pending = <<>> /\ NoRows \in Rows
    /\ \A m \in Rows : LET h == [Fresh EXCEPT !.mem = m]
                       IN  /\ h \in Graph /\ h.pending = <<>> /\ h.mem = m
                           /\ h.deferred = NoRows /\ h.staged = NoRows
<1>1. NoRows \in Rows
  BY DEF NoRows, Rows, Payload
<1>2. <<>> \in Seq(Write)
  OBVIOUS
<1> QED BY <1>1, <1>2 DEF Fresh, Graph

LEMMA CallLands ==
    ASSUME KuzuInv, DataInv, \/ \E c \in Calls : DrainCall(c)
                             \/ ClearCall \/ RestoreCall \/ CloseCall
    PROVE  DataInv'
<1>0. DataTyped /\ Sole /\ CallOK /\ LandInv /\ FlowOK
  BY DEF DataInv, KuzuInv
<1>1. UNCHANGED <<db, late, tainted, backup>> /\ call = None
  BY DEF DrainCall, ClearCall, RestoreCall, CloseCall, callFrame, Enters
<1>2. ASSUME Drains, call' \in {"index", "backup", "close"} PROVE DataInv'
  <2>1. /\ DataTyped' /\ Sole' /\ Lands(OnItsWay', g', known', Counted)
        /\ g'.pending = <<>> /\ g'.deferred = NoRows
    BY <1>0, <1>1, <1>2, DrainLands
  <2>2. Counted' = Counted
    BY <1>1, <1>2 DEF Counted, None
  <2>3. CallOK'
    BY <1>2, <2>1 DEF CallOK
  <2> QED BY <2>1, <2>2, <2>3 DEF DataInv, LandInv
<1>3. CASE \E c \in Calls : DrainCall(c)
  <2>1. Drains /\ call' \in {"index", "backup"}
    BY <1>3 DEF DrainCall, Enters
  <2> QED BY <1>2, <2>1
<1>4. CASE ClearCall
  <2>1. /\ g' = Fresh /\ call' = "clear"
        /\ UNCHANGED <<known, batches, current, flusher>>
    BY <1>4 DEF ClearCall, Enters, NoFlush
  <2>2. Fresh \in Graph /\ Fresh.pending = <<>>
    BY FreshTyped
  <2>3. DataTyped' /\ Sole' /\ CallOK'
    BY <1>0, <1>1, <2>1, <2>2 DEF DataTyped, Sole, CallOK
  <2>4. Counted' = {}
    BY <2>1 DEF Counted
  <2> QED BY <2>1, <2>2, <2>3, <2>4, NothingCounts, DistinctNothing DEF DataInv
<1>5. CASE RestoreCall
  <2>1. /\ g' = [Fresh EXCEPT !.mem = g.mem] /\ call' = "restore" /\ batches' = <<>>
        /\ UNCHANGED <<known, current, flusher>>
    BY <1>5 DEF RestoreCall, Enters
  <2>2. g.mem \in Rows
    BY <1>0 DEF DataTyped, Graph
  <2>3. g' \in Graph /\ g'.pending = <<>>
    BY <2>1, <2>2, FreshTyped
  <2>4. batches' \in Seq(Batches)
    BY <2>1
  <2>5. DataTyped' /\ Sole' /\ CallOK'
    BY <1>0, <1>1, <2>1, <2>3, <2>4 DEF DataTyped, Sole, CallOK
  <2>6. Counted' = {}
    BY <2>1 DEF Counted
  <2> QED BY <2>3, <2>5, <2>6, NothingCounts, DistinctNothing DEF DataInv
<1>6. CASE CloseCall
  <2>1. call' = "close"
    BY <1>6 DEF CloseCall, Enters
  <2>2. CASE Drains
    BY <1>2, <2>1, <2>2
  <2>3. CASE flusher' = Closed(flusher) /\ UNCHANGED <<g, known, batches, current>>
    <3>1. /\ DataTyped' /\ OnItsWay' = OnItsWay
          /\ \A f \in Flushers : flusher'[f].at = "absent" <=> flusher[f].at = "absent"
      BY <1>0, <1>1, <2>3, ClosedLands
    <3>2. Sole'
      BY <1>0, <1>1, <2>3, <3>1 DEF Sole
    <3>3. CallOK'
      BY <2>1 DEF CallOK
    <3>4. Counted' = Counted
      BY <1>1, <2>1 DEF Counted, None
    <3>5. LandInv'
      BY <1>0, <2>3, <3>1, <3>4 DEF LandInv
    <3> QED BY <3>1, <3>2, <3>3, <3>5 DEF DataInv
  <2> QED BY <1>6, <2>2, <2>3 DEF CloseCall, queueVars
<1> QED BY <1>3, <1>4, <1>5, <1>6

(* With nothing under way, what lands is there.                            *)
LEMMA QuietWay ==
    ASSUME NEW fl, Carries(fl), \A f \in Flushers : fl[f].at \in Idle, NEW d \in Rows
    PROVE  After(Start(d), Hand(fl) \o FlattenSeq(<<>>)) = Start(d)
<1>1. Hand(fl) = <<>> /\ FlattenSeq(<<>>) = <<>>
  BY HandTyped, FlattenSteps
<1>2. <<>> \o <<>> = <<>>
  OBVIOUS
<1>3. Start(d) \in State
  BY DEF Start, State
<1> QED BY <1>1, <1>2, <1>3, AfterSteps

LEMMA QuietLands ==
    ASSUME NEW h, h.pending = <<>>, h.deferred = NoRows, h.staged = NoRows,
           NEW S, S \subseteq Keys, h.mem \in Rows,
           NEW kn, \A k \in S : k \in kn <=> h.mem[k] # 0
    PROVE  Lands(Start(h.mem), h, kn, S)
<1>1. ~(\E i \in DOMAIN h.pending : TRUE)
  OBVIOUS
<1>2. \A k : Due(h.pending, h.mem, k) = h.mem[k] /\ ~Deleting(h.pending, k)
  BY <1>1 DEF Due, Pending, Deleting
<1>3. Good(Start(h.mem), kn, S)
  BY DEF Good, Start
<1>4. Window(h.pending, h.mem, kn, S)
  BY <1>1, <1>2 DEF Window, Distinct, NodesFirst, EdgesGo
<1>5. Matches(h, h.mem, S)
  BY <1>2 DEF Matches, NoRows
<1>6. Start(h.mem).rows = h.mem
  BY DEF Start
<1> QED BY <1>3, <1>4, <1>5, <1>6 DEF Lands, Memory

(* A call ends, or goes on: if anything still counts, what counted does.   *)
LEMMA CountsOn ==
    ASSUME DataInv, UNCHANGED <<g, known>>, OnItsWay' = OnItsWay,
           Counted' \in {{}, Counted}
    PROVE  LandInv'
<1>0. LandInv /\ DataTyped
  BY DEF DataInv
<1>1. OnItsWay \in State /\ WithNodes(Counted)
  BY <1>0, CountedKeys, OnItsWayTyped DEF DataTyped, OnItsWay
<1>2. Distinct(g.pending)
  BY <1>0, <1>1, LandsTyped DEF LandInv
<1>3. CASE Counted' = {}
  BY <1>2, <1>3, NothingCounts
<1>4. CASE Counted' = Counted
  BY <1>0, <1>4 DEF LandInv
<1> QED BY <1>3, <1>4

LEMMA CallStepLands ==
    ASSUME KuzuInv, DataInv, CallStep
    PROVE  DataInv'
<1>0. /\ DataTyped /\ Sole /\ CallOK /\ LandInv /\ FlowOK /\ Quiet /\ late \in BOOLEAN
      /\ db \in Rows /\ Carries(flusher)
  BY DEF DataInv, KuzuInv, ScalarsOK, DataTyped
<1>1. CASE IndexEnds \/ TellsToStop
  <2>1. /\ UNCHANGED <<g, known, current, flusher, batches, db, tainted, backup>>
        /\ late' = (late \/ done < enqueued)
        /\ \/ call = "index" /\ call' = None
           \/ call \in {"backup", "restore", "close"} /\ call' = call
    BY <1>1 DEF IndexEnds, TellsToStop, DrainEnds, Leaves, threadFrame
  <2>2. DataTyped' /\ OnItsWay' = OnItsWay
    BY <1>0, <2>1 DEF DataTyped, OnItsWay
  <2>3. Sole' /\ CallOK'
    BY <1>0, <2>1 DEF Sole, CallOK, None
  <2>4. Counted' \in {{}, Counted}
    BY <1>0, <2>1 DEF Counted, None
  <2> QED BY <2>1, <2>2, <2>3, <2>4, CountsOn DEF DataInv
<1>2. CASE ClearEnds
  <2>1. /\ UNCHANGED <<g, current, flusher, batches, backup>> /\ known' = {}
        /\ DrainEnds("clear") /\ call = "clear" /\ call' = None
        /\ \/ db' = NoRows /\ tainted' = {}
           \/ tainted' = Keys /\ UNCHANGED db
    BY <1>2 DEF ClearEnds, DrainEnds, Leaves, threadFrame
  <2>2. ~late' => Nothing'
    BY <2>1, DrainEndsKeeps DEF Calls
  <2>3. late' = (late \/ done < enqueued)
    BY <2>1 DEF DrainEnds
  <2>4. g' = Fresh /\ NoRows \in Rows
    BY <1>0, <2>1, FreshTyped DEF CallOK
  <2>5. DataTyped' /\ db' \in Rows
    BY <1>0, <2>1, <2>4 DEF DataTyped
  <2>6. Sole' /\ CallOK'
    BY <1>0, <2>1, <2>3 DEF Sole, CallOK, None
  <2>7. LandInv'
    <3>1. CASE late' \/ tainted' = Keys
      <4>1. Counted' = {}
        BY <3>1, SoundKeys DEF Counted
      <4>2. g'.pending = <<>>
        BY <2>4, FreshTyped
      <4> QED BY <4>1, <4>2, NothingCounts, DistinctNothing
    <3>2. CASE ~late' /\ db' = NoRows
      <4>1. batches' = <<>> /\ (\A f \in Flushers : flusher'[f].at \in Idle) /\
            Carries(flusher')
        BY <2>2, <2>5, <3>2 DEF Nothing, DataTyped
      <4>2. OnItsWay' = Start(NoRows)
        <5>1. After(Start(NoRows), Hand(flusher') \o FlattenSeq(<<>>)) = Start(NoRows)
          BY <2>4, <4>1, QuietWay
        <5> QED BY <3>2, <4>1, <5>1 DEF OnItsWay
      <4>3. Counted' \subseteq Keys
        BY DEF Counted, Sounds
      <4> DEFINE S == Counted'
      <4>4. \A k \in S : k \in {} <=> Fresh.mem[k] # 0
        BY <4>3 DEF Fresh, NoRows
      <4>5. Fresh.mem = NoRows /\ Fresh.pending = <<>> /\ Fresh.deferred = NoRows
            /\ Fresh.staged = NoRows
        BY DEF Fresh
      <4> HIDE DEF S
      <4>6. Lands(Start(Fresh.mem), Fresh, {}, S)
        BY <2>4, <4>3, <4>4, <4>5, QuietLands DEF S
      <4> QED BY <2>1, <2>4, <4>2, <4>5, <4>6 DEF LandInv, S
    <3> QED BY <2>1, <3>1, <3>2
  <2> QED BY <2>5, <2>6, <2>7 DEF DataInv
<1>3. CASE JoinEnds
  <2>1. /\ flusher' = Closed(flusher) /\ current' = None
        /\ UNCHANGED <<g, known, batches, db, tainted, backup, call>>
        /\ (~Alive(current) /\ late' = late) \/ late' = TRUE
    BY <1>3 DEF JoinEnds
  <2>2. /\ DataTyped' /\ OnItsWay' = OnItsWay
        /\ \A f \in Flushers : flusher'[f].at = "absent" <=> flusher[f].at = "absent"
    BY <1>0, <2>1, ClosedLands
  <2>3. Sole'
    <3>1. ASSUME ~late', NEW f \in Flushers, flusher'[f].at # "absent" PROVE FALSE
      <4>1. ~Alive(current) /\ ~late /\ flusher[f].at # "absent"
        BY <2>1, <2>2, <3>1
      <4>2. f = current /\ f # None
        BY <1>0, <4>1, FlusherAssumption DEF Sole, None
      <4> QED BY <4>1, <4>2 DEF Alive
    <3> QED BY <3>1 DEF Sole
  <2>4. CallOK'
    BY <1>0, <2>1 DEF CallOK
  <2>5. Counted' \in {{}, Counted}
    BY <2>1 DEF Counted
  <2> QED BY <2>1, <2>2, <2>3, <2>4, <2>5, CountsOn DEF DataInv
<1>4. CASE BackupEnds
  <2>1. /\ UNCHANGED <<g, known, batches, flusher, current, late, db, tainted>>
        /\ call = "backup" /\ call' = None /\ backup' = {db}
    BY <1>4 DEF BackupEnds, Swaps, Leaves, queueVars
  <2>2. DataTyped' /\ OnItsWay' = OnItsWay
    BY <1>0, <2>1 DEF DataTyped, OnItsWay
  <2>3. Sole' /\ CallOK'
    BY <1>0, <2>1 DEF Sole, CallOK, None
  <2>4. Counted' = Counted
    BY <2>1 DEF Counted, None
  <2> QED BY <2>1, <2>2, <2>3, <2>4, CountsOn DEF DataInv
<1>5. CASE RestoreEnds
  <2>1. PICK d \in backup : /\ db' = d /\ g' = [Fresh EXCEPT !.mem = d]
                            /\ known' = {k \in Keys : d[k] # 0}
    BY <1>5 DEF RestoreEnds
  <2>2. /\ UNCHANGED <<batches, flusher, current, late, backup>> /\ tainted' = {}
        /\ call' = None /\ at = "swapping"
    BY <1>5 DEF RestoreEnds, Swaps, Leaves, queueVars
  <2>3. d \in Rows
    BY <1>0 DEF DataTyped
  <2>4. /\ g' \in Graph /\ g'.pending = <<>> /\ g'.mem = d /\ g'.deferred = NoRows
        /\ g'.staged = NoRows
    BY <2>1, <2>3, FreshTyped
  <2>5. DataTyped'
    BY <1>0, <2>1, <2>2, <2>3, <2>4 DEF DataTyped
  <2>6. Sole' /\ CallOK'
    BY <1>0, <2>2 DEF Sole, CallOK, None
  <2>7. LandInv'
    <3>1. CASE late
      <4>1. Counted' = {}
        BY <2>2, <3>1 DEF Counted
      <4> QED BY <2>4, <4>1, NothingCounts, DistinctNothing
    <3>2. CASE ~late
      <4>1. batches' = <<>> /\ (\A f \in Flushers : flusher'[f].at \in Idle) /\
            Carries(flusher')
        BY <1>0, <2>2, <3>2 DEF Quiet, Nothing
      <4>2. OnItsWay' = Start(d)
        <5>1. After(Start(d), Hand(flusher') \o FlattenSeq(<<>>)) = Start(d)
          BY <2>3, <4>1, QuietWay
        <5> QED BY <2>1, <4>1, <5>1 DEF OnItsWay
      <4> DEFINE S == Counted'
                 h == g'
                 kn == known'
      <4>3. S \subseteq Keys
        BY DEF Counted, Sounds
      <4>4. \A k \in S : k \in kn <=> h.mem[k] # 0
        BY <2>1, <2>4, <4>3
      <4>5. h.pending = <<>> /\ h.deferred = NoRows /\ h.staged = NoRows /\ h.mem = d
        BY <2>4
      <4> HIDE DEF S, h, kn
      <4>6. Lands(Start(h.mem), h, kn, S)
        BY <2>3, <4>3, <4>4, <4>5, QuietLands
      <4> QED BY <4>2, <4>5, <4>6 DEF LandInv, S, h, kn
    <3> QED BY <1>0, <3>1, <3>2
  <2> QED BY <2>5, <2>6, <2>7 DEF DataInv
<1>6. CASE CloseEnds
  <2>1. UNCHANGED dataVars
    BY <1>6 DEF CloseEnds, Swaps, queueVars, dataVars
  <2> QED BY <2>1, DataStays
<1> QED BY <1>1, <1>2, <1>3, <1>4, <1>5, <1>6 DEF CallStep

-----------------------------------------------------------------------------
(* The invariant of the data, and what follows from it                     *)

LEMMA InitData ==
    ASSUME Init
    PROVE  DataInv
<1>1. /\ g = Fresh /\ known = {} /\ batches = <<>> /\ db = NoRows /\ backup = {}
      /\ flusher = [f \in Flushers |-> Absent] /\ call = None /\ tainted = {}
  BY DEF Init
<1>2. \A f \in Flushers : flusher[f].at = "absent" /\ flusher[f].batch = <<>>
  BY <1>1 DEF Absent
<1>3. Carries(flusher) /\ \A f \in Flushers : flusher[f].at \in Idle
  <2>1. <<>> \in Batches
    BY DEF Batches
  <2>2. Carries(flusher)
    BY <1>2, <2>1 DEF Carries
  <2> QED BY <1>2, <2>2 DEF Idle
<1>4. batches \in Seq(Batches)
  BY <1>1
<1>5. DataTyped
  BY <1>1, <1>3, <1>4, FreshTyped DEF DataTyped
<1>6. Sole
  BY <1>2 DEF Sole
<1>7. CallOK
  BY <1>1 DEF CallOK, None
<1>8. OnItsWay = Start(NoRows)
  <2>1. After(Start(NoRows), Hand(flusher) \o FlattenSeq(<<>>)) = Start(NoRows)
    BY <1>3, FreshTyped, QuietWay
  <2> QED BY <1>1, <2>1 DEF OnItsWay
<1>9. Counted \subseteq Keys
  BY DEF Counted, Sounds
<1>10. Fresh.mem = NoRows /\ Fresh.pending = <<>> /\ Fresh.deferred = NoRows
       /\ Fresh.staged = NoRows
  BY DEF Fresh
<1>11. \A k \in Counted : k \in {} <=> Fresh.mem[k] # 0
  BY <1>9, <1>10 DEF NoRows
<1>12. Lands(Start(Fresh.mem), Fresh, {}, Counted)
  BY <1>9, <1>10, <1>11, FreshTyped, QuietLands
<1>13. LandInv
  BY <1>1, <1>8, <1>10, <1>12 DEF LandInv
<1> QED BY <1>5, <1>6, <1>7, <1>13 DEF DataInv

LEMMA NextData ==
    ASSUME KuzuInv, DataInv, [Next]_vars
    PROVE  DataInv'
<1>1. CASE EnqueueJob \/ ApplyHere \/ WorkerApplies \/ JobRaises \/ SetAsync
  BY <1>1, JobLands
<1>2. CASE \E f \in Flushers : FlusherStep(f) \/ Dies(f)
  BY <1>2, ThreadLands
<1>3. CASE (\E c \in Calls : DrainCall(c)) \/ ClearCall \/ RestoreCall \/ CloseCall
  BY <1>3, CallLands
<1>4. CASE CallStep
  BY <1>4, CallStepLands
<1>5. CASE UNCHANGED vars
  <2>1. UNCHANGED dataVars
    BY <1>5 DEF vars, queueVars, callVars, dataVars
  <2> QED BY <2>1, DataStays
<1> QED BY <1>1, <1>2, <1>3, <1>4, <1>5 DEF Next

(* What is on its way to the database brings every key that nothing has    *)
(* happened to to what memory holds, and finds there what it needs.        *)
THEOREM DataInvariant == Spec => []DataInv
BY KuzuInvariant, InitData, NextData, PTL DEF Spec

LEMMA DataIsTyped ==
    ASSUME DataInv
    PROVE  DataOK
<1>1. /\ g \in Graph /\ db \in Rows /\ known \subseteq Keys /\ tainted \subseteq Keys
      /\ backup \subseteq Rows /\ LandInv /\ DataTyped
  BY DEF DataInv, DataTyped
<1>2. g.mem \in Rows /\ g.deferred \in Rows /\ g.staged \in Rows /\ g.pending \in Seq(Write)
  BY <1>1 DEF Graph
<1>3. \A m \in {g.mem, g.deferred, g.staged, db} \cup backup : m \in [Keys -> Payload]
  BY <1>1, <1>2 DEF Rows
<1>4. OnItsWay \in State /\ WithNodes(Counted)
  BY <1>1, CountedKeys, OnItsWayTyped DEF DataTyped, OnItsWay
<1>5. Distinct(g.pending)
  BY <1>1, <1>4, LandsTyped DEF LandInv
<1>6. Len(g.pending) <= Cardinality(Keys)
  BY <1>2, <1>5, DistinctFits
<1> QED BY <1>1, <1>2, <1>3, <1>6 DEF DataOK, Write

(* The whole type invariant: the window has at most one write of each key, *)
(* for any graph and any number of jobs, flushes and failures.             *)
THEOREM KuzuTypes == Spec => []KuzuTypeOK
<1>1. KuzuInv /\ DataInv => KuzuTypeOK
  BY ControlTyped, DataIsTyped DEF KuzuTypeOK
<1> QED BY <1>1, KuzuInvariant, DataInvariant, PTL

LEMMA SoundsAre ==
    ASSUME NEW k \in Keys
    PROVE  k \in Sounds(tainted) <=> Sound(k)
BY DEF Sounds, Sound, Near

LEMMA DataReachesDisk ==
    ASSUME DataInv
    PROVE  MemoryReachesDisk
<1> SUFFICES ASSUME ~late, call \notin {"clear", "restore"}, NEW k \in Keys, Sound(k)
             PROVE  Landing[k] = g.mem[k]
  BY DEF MemoryReachesDisk
<1> DEFINE h == Promoted(g)
           s == Resolved(h.pending, known)
           way == Hand(flusher) \o FlattenSeq(batches)
<1>0. /\ DataTyped /\ g \in Graph /\ Lands(OnItsWay, g, known, Counted) /\ db \in Rows
      /\ OnItsWay \in State /\ WithNodes(Counted) /\ way \in Seq(Stmt)
      /\ Start(db) \in State
  BY CountedKeys, OnItsWayTyped DEF DataInv, LandInv, DataTyped, OnItsWay
<1>1. /\ Knows(OnItsWay.rows, known, Counted) /\ Memory(g, OnItsWay.rows, known, Counted)
      /\ Good(OnItsWay, known, Counted)
  BY <1>0, LandsTyped
<1>2. /\ h \in Graph /\ Memory(h, OnItsWay.rows, known, Counted) /\ h.deferred = NoRows
      /\ h.mem = g.mem
  BY <1>0, <1>1, PromotedKeeps
<1>3. InHand = Hand(flusher)
  BY DEF InHand, Hand
<1>4. OnItsWay = After(Start(db), way)
  BY DEF OnItsWay
<1>5. Landing = Executed(db, way \o s)
  BY <1>3 DEF Landing
<1> HIDE DEF h, way
<1>6. s \in Seq(Stmt)
  <2>1. h.pending \in Seq(Write)
    BY <1>2 DEF Graph
  <2> QED BY <2>1, ResolvedSteps
<1>7. \A i \in Counted : After(OnItsWay, s).rows[i] = h.mem[i]
  <2>1. /\ h \in Graph /\ OnItsWay \in State /\ WithNodes(Counted)
        /\ Good(OnItsWay, known, Counted) /\ Memory(h, OnItsWay.rows, known, Counted)
    BY <1>0, <1>1, <1>2
  <2> QED BY <1>2, <2>1, FlushedIsMemory
<1> HIDE DEF s
<1>8. Landing = After(OnItsWay, s).rows
  <2>1. way \o s \in Seq(Stmt) /\ Start(db).rows = db
    BY <1>0, <1>6, ConcatFacts DEF Start
  <2>2. After(Start(db), way \o s).rows = Executed(db, way \o s)
    BY <1>0, <2>1, AfterRows
  <2>3. After(Start(db), way \o s) = After(OnItsWay, s)
    BY <1>0, <1>4, <1>6, AfterInTurn
  <2> QED BY <1>5, <2>2, <2>3
<1>9. k \in Counted
  BY SoundsAre DEF Counted
<1> QED BY <1>2, <1>7, <1>8, <1>9

(* Whatever is skipped, parked, resolved, merged, shed, replayed and       *)
(* dropped, for any graph, any sizes of the queues and any failures: until *)
(* a drain or a join has timed out, what is under way brings every key     *)
(* that no failed, shed or lost statement is near to what memory holds.    *)
THEOREM MemoryIsDurable == Spec => []MemoryReachesDisk
BY DataInvariant, DataReachesDisk, PTL

LEMMA BackupStep ==
    ASSUME KuzuInv, DataInv, [Next]_vars, backup' # backup, ~late,
           NEW d \in backup', NEW k \in Keys, Sound(k)
    PROVE  d[k] = g.mem[k]
<1>1. BackupEnds
  <2>1. CASE EnqueueJob \/ ApplyHere \/ WorkerApplies \/ JobRaises \/ SetAsync
    BY <2>1 DEF EnqueueJob, ApplyHere, WorkerApplies, JobRaises, SetAsync, Apply
  <2>2. CASE \E f \in Flushers : FlusherStep(f) \/ Dies(f)
    BY <2>2 DEF FlusherStep, Takes, Dies, Connects, Executes, Stops, flusherFrame
  <2>3. CASE (\E c \in Calls : DrainCall(c)) \/ ClearCall \/ RestoreCall \/ CloseCall
    BY <2>3 DEF DrainCall, ClearCall, RestoreCall, CloseCall
  <2>4. CASE IndexEnds \/ ClearEnds \/ TellsToStop \/ JoinEnds \/ RestoreEnds \/ CloseEnds
    BY <2>4 DEF IndexEnds, ClearEnds, TellsToStop, JoinEnds, RestoreEnds, CloseEnds,
       DrainEnds, Swaps
  <2>5. CASE UNCHANGED vars
    BY <2>5 DEF vars
  <2> QED BY <2>1, <2>2, <2>3, <2>4, <2>5 DEF Next, CallStep
<1>2. call = "backup" /\ at = "swapping" /\ d = db
  BY <1>1 DEF BackupEnds, Swaps
<1>3. batches = <<>> /\ (\A f \in Flushers : flusher[f].at \in Idle)
  BY <1>2 DEF KuzuInv, Quiet, Nothing
<1>4. Carries(flusher) /\ db \in Rows /\ g.pending = <<>> /\ g.deferred = NoRows
  BY <1>2 DEF DataInv, DataTyped, CallOK
<1>5. OnItsWay = Start(db)
  <2>1. After(Start(db), Hand(flusher) \o FlattenSeq(<<>>)) = Start(db)
    BY <1>3, <1>4, QuietWay
  <2> QED BY <1>3, <2>1 DEF OnItsWay
<1>6. k \in Counted
  BY <1>2, SoundsAre DEF Counted
<1>7. Matches(g, db, Counted)
  BY <1>5 DEF DataInv, LandInv, Lands, Memory, Start
<1>8. g.mem[k] = Due(g.pending, db, k)
  BY <1>4, <1>6, <1>7 DEF Matches, NoRows
<1>9. Due(g.pending, db, k) = db[k]
  BY <1>4 DEF Due, Pending
<1> QED BY <1>2, <1>8, <1>9

(* A backup that no drain or join was late for has, of every such key,     *)
(* what memory holds: what was parked, queued and in hand is in the files. *)
THEOREM BackupsAreExact == Spec => BackupIsExact
<1>1. KuzuInv /\ DataInv /\ [Next]_vars =>
        [backup' # backup /\ ~late =>
            \A d \in backup' : \A k \in Keys : Sound(k) => d[k] = g.mem[k]]_vars
  BY BackupStep
<1> QED BY <1>1, KuzuInvariant, DataInvariant, PTL DEF Spec, BackupIsExact
=============================================================================
