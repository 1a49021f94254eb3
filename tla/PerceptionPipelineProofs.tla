---------------------- MODULE PerceptionPipelineProofs ----------------------
(***************************************************************************)
(* Theorems about PerceptionPipeline, for any number of workers and        *)
(* sockets, any bounds and either overload policy.  PipeInv is inductive:  *)
(* the types, what a task may hold where it is, that the drain misses no   *)
(* frame but an abandoned one, and that no wakeup is lost.                 *)
(***************************************************************************)
EXTENDS PerceptionPipeline, FiniteSetTheorems, TLAPS

SocketPcs == {"idle", "arrived", "admit", "drain", "loop", "fold", "put"}
WorkerPcs == {"dead", "get", "prefetch", "slots", "drain", "loop", "fold"}

(* A task holds an item exactly while it works on one.                     *)
HandsOK ==
    /\ \A s \in Sockets :
          /\ pc[s] \in SocketPcs
          /\ IF pc[s] \in {"idle", "arrived"} THEN hand[s] = NoItem
                                              ELSE hand[s] \in Items
    /\ \A w \in Workers :
          /\ pc[w] \in WorkerPcs
          /\ IF pc[w] \in {"dead", "get"} THEN hand[w] = NoItem
                                          ELSE hand[w] \in Items

CountersOK == /\ nextSeq \in 0..MaxSeq /\ sessions \subseteq Frames
              /\ crashes <= faults
              /\ crashes = 0 /\ configures = 0 => abandoned = {}

PipeInv == /\ PipeTypeOK /\ CountersOK /\ HandsOK
           /\ OnlyAbandonedMissing /\ NoLostWakeup

-----------------------------------------------------------------------------
(* What the prover has to be told about sequences and frames.              *)

LEMMA BoundsAreNat == MaxSeq \in Nat /\ MaxClears \in Nat /\ MaxFaults \in Nat
                      /\ MaxConfigures \in Nat /\ QueueMax \in Nat \ {0}
BY TiersAssumption, PipelineAssumption

(* All but the head of a queue is still in its tail.                       *)
LEMMA TailKeeps ==
    ASSUME NEW T, NEW q \in Seq(T), q # <<>>, NEW i \in DOMAIN q
    PROVE  \/ q[i] = Head(q)
           \/ \E j \in DOMAIN Tail(q) : Tail(q)[j] = q[i]
<1>1. i \in 1..Len(q)
  OBVIOUS
<1>2. CASE i = 1
  BY <1>2
<1>3. CASE i # 1
  <2>1. i - 1 \in 1..Len(Tail(q)) /\ Tail(q)[i - 1] = q[i]
    BY <1>1, <1>3
  <2> QED
    BY <2>1
<1> QED
  BY <1>2, <1>3

LEMMA TailType ==
    ASSUME NEW T, NEW q \in Seq(T), q # <<>>
    PROVE  Tail(q) \in Seq(T) /\ Len(Tail(q)) = Len(q) - 1 /\ Head(q) \in T
OBVIOUS

(* What was in a queue is still there after a put, and so is what is put.  *)
LEMMA AppendKeeps ==
    ASSUME NEW T, NEW q \in Seq(T), NEW x \in T
    PROVE  /\ \A i \in DOMAIN q : i \in DOMAIN Append(q, x)
                                  /\ Append(q, x)[i] = q[i]
           /\ Len(q) + 1 \in DOMAIN Append(q, x)
           /\ Append(q, x)[Len(q) + 1] = x
OBVIOUS

(* What the methods of the session manager that number no frame leave.     *)
NoNewFrame == nextSeq' = nextSeq /\ sessions' \subseteq sessions

LEMMA MarksBringNoFrame ==
    ASSUME NEW f, NEW x
    PROVE  /\ MarkStatus(f, x) => NoNewFrame
           /\ MarkFolded(f, x) => NoNewFrame
           /\ MarkFailed(f) => NoNewFrame
           /\ MarkCommitted(f) => NoNewFrame
           /\ PopCommitCandidate(f) => NoNewFrame
           /\ SetCapacity(f) => NoNewFrame
BY DEF MarkStatus, MarkFolded, MarkFailed, MarkCommitted, PopCommitCandidate,
       SetCapacity, supVars, NoNewFrame

(* A step after which everything awaited is awaited or abandoned keeps     *)
(* OnlyAbandonedMissing, if it brings no frame and commits none again.     *)
LEMMA AwaitedSuffices ==
    ASSUME PipeInv, NoNewFrame, abandoned \subseteq abandoned',
           nextCommit' \in 1..(MaxSeq + 1), nextCommit <= nextCommit',
           \A f \in Frames : f >= nextCommit' /\ Awaited(f)
                                => Awaited(f)' \/ f \in abandoned'
    PROVE  OnlyAbandonedMissing'
<1> SUFFICES ASSUME NEW f \in nextCommit'..nextSeq'
             PROVE  Awaited(f)' \/ f \in abandoned'
  BY DEF OnlyAbandonedMissing
<1>1. /\ nextCommit \in 1..(MaxSeq + 1) /\ nextSeq' = nextSeq /\ nextSeq \in 0..MaxSeq
      /\ \A g \in nextCommit..nextSeq : Awaited(g) \/ g \in abandoned
  BY DEF PipeInv, PipeTypeOK, CountersOK, OnlyAbandonedMissing, NoNewFrame
<1>2. f \in nextCommit..nextSeq /\ f \in Frames /\ f >= nextCommit'
  BY <1>1, BoundsAreNat DEF Frames
<1>3. Awaited(f) \/ f \in abandoned
  BY <1>1, <1>2
<1> QED
  BY <1>2, <1>3

(* Nothing the properties look at has changed but pc and hand, and those   *)
(* only where no frame was carried.                                        *)
LEMMA CarriedSuffices ==
    ASSUME PipeInv, NoNewFrame, abandoned' = abandoned,
           nextCommit' = nextCommit, queue' = queue, prepared' = prepared,
           gen' = gen,
           \A f \in Frames : Carried(f) => Carried(f)'
    PROVE  OnlyAbandonedMissing'
<1>1. \A f \in Frames : Awaited(f) => Awaited(f)'
  BY DEF Awaited, Queued
<1>2. nextCommit \in 1..(MaxSeq + 1)
  BY DEF PipeInv, PipeTypeOK
<1> QED
  BY <1>1, <1>2, AwaitedSuffices, BoundsAreNat

(* A wakeup is not lost if every task that was draining still drains and   *)
(* the entry waited for has not come.                                      *)
LEMMA WakeupSuffices ==
    ASSUME PipeInv, crashes' = crashes, configures' = configures,
           nextCommit' = nextCommit,
           nextCommit <= MaxSeq => prepared'[nextCommit] = prepared[nextCommit],
           \A t \in Tasks : pc[t] \in {"drain", "loop", "fold"}
                               => pc'[t] \in {"drain", "loop", "fold"}
    PROVE  NoLostWakeup'
BY BoundsAreNat DEF PipeInv, NoLostWakeup, PipeTypeOK

-----------------------------------------------------------------------------
(* The initial states, and one lemma for each action.                      *)

LEMMA PipeInitInv == Init => PipeInv
<1> SUFFICES ASSUME Init PROVE PipeInv
  OBVIOUS
<1>1. PipeTypeOK
  BY BoundsAreNat
  DEF Init, PipeTypeOK, Prepared, Absent, Tombstone, NoFrame, Tasks
<1>2. CountersOK
  BY BoundsAreNat DEF Init, SupInit, CountersOK
<1>3. HandsOK
  BY PipelineAssumption DEF Init, HandsOK, SocketPcs, WorkerPcs, Tasks
<1>4. OnlyAbandonedMissing
  BY <1>2 DEF Init, SupInit, OnlyAbandonedMissing, CountersOK
<1>5. NoLostWakeup
  BY BoundsAreNat DEF Init, NoLostWakeup, Frames
<1> QED
  BY <1>1, <1>2, <1>3, <1>4, <1>5 DEF PipeInv

LEMMA ArriveInv == ASSUME PipeInv, NEW s \in Sockets, Arrive(s)
                   PROVE  PipeInv'
<1>1. PICK S \in SUBSET Workers :
           Ensured(S) /\ pc' = [Started(S) EXCEPT ![s] = "arrived"]
  BY DEF Arrive
<1>2. /\ pc[s] = "idle" /\ NoNewFrame
      /\ UNCHANGED <<policy, queue, prepared, nextCommit, hand, retry, inFold,
                     inHand, gen, lost, abandoned, crashes, faults, configures>>
  BY DEF Arrive, supVars, ghostVars, NoNewFrame
<1>3. PipeTypeOK /\ CountersOK /\ HandsOK
  BY DEF PipeInv
<1>4. /\ pc'[s] = "arrived"
      /\ \A t \in Tasks \ {s} :
            \/ t \in Workers /\ pc[t] = "dead" /\ pc'[t] = "get"
            \/ pc'[t] = pc[t]
  BY <1>1, <1>3 DEF Started, Alive, PipeTypeOK, Tasks
<1>5. PipeTypeOK'
  <2>1. pc' \in [Tasks -> {"idle", "arrived", "admit", "put", "get", "prefetch",
                           "slots", "drain", "loop", "fold", "dead"}]
    BY <1>1, <1>3 DEF Started, PipeTypeOK
  <2> QED
    BY <1>2, <1>3, <2>1 DEF PipeTypeOK
<1>6. CountersOK'
  BY <1>2, <1>3 DEF CountersOK, NoNewFrame
<1>7. HandsOK'
  BY <1>2, <1>3, <1>4, PipelineAssumption
  DEF HandsOK, SocketPcs, WorkerPcs, Tasks
<1>8. OnlyAbandonedMissing'
  <2>1. ASSUME NEW f \in Frames, Carried(f) PROVE Carried(f)'
    BY <1>2, <1>4, <2>1, PipelineAssumption DEF Carried, Tasks
  <2> QED
    BY <1>2, <2>1, CarriedSuffices
<1>9. NoLostWakeup'
  BY <1>2, <1>4, WakeupSuffices
<1> QED
  BY <1>5, <1>6, <1>7, <1>8, <1>9 DEF PipeInv

LEMMA EnqueueInv == ASSUME PipeInv, NEW s \in Sockets, Enqueue(s)
                    PROVE  PipeInv'
<1>1. /\ pc[s] = "arrived" /\ nextSeq < MaxSeq /\ nextSeq' = nextSeq + 1
      /\ sessions' = sessions \cup {nextSeq + 1}
      /\ pc' = [pc EXCEPT ![s] = "admit"]
      /\ hand' = [hand EXCEPT ![s] = [seq |-> nextSeq + 1, gen |-> gen]]
      /\ UNCHANGED <<policy, queue, prepared, nextCommit, retry, inFold, inHand,
                     gen, lost, abandoned, crashes, faults, configures>>
  BY DEF Enqueue, EnqueueObservation, ghostVars
<1>2. PipeTypeOK /\ CountersOK /\ HandsOK
  BY DEF PipeInv
<1>3. [seq |-> nextSeq + 1, gen |-> gen] \in Items
  BY <1>1, <1>2, BoundsAreNat DEF PipeTypeOK, CountersOK, Items, Frames
<1>4. s \in Tasks /\ s \notin Workers
  BY PipelineAssumption DEF Tasks
<1>5. PipeTypeOK'
  BY <1>1, <1>2, <1>3 DEF PipeTypeOK
<1>6. CountersOK'
  BY <1>1, <1>2, BoundsAreNat DEF CountersOK, Frames
<1>7. HandsOK'
  BY <1>1, <1>2, <1>3, <1>4 DEF HandsOK, SocketPcs, WorkerPcs, PipeTypeOK, Tasks
<1>8. OnlyAbandonedMissing'
  <2> SUFFICES ASSUME NEW f \in nextCommit..(nextSeq + 1)
               PROVE  Awaited(f)' \/ f \in abandoned
    BY <1>1 DEF OnlyAbandonedMissing
  <2>1. nextSeq \in Nat /\ nextCommit \in Nat
    BY <1>2, BoundsAreNat DEF PipeTypeOK, CountersOK
  <2>2. CASE f = nextSeq + 1
    BY <1>1, <1>2, <1>4, <2>2 DEF PipeTypeOK, Awaited, Carried
  <2>3. CASE f # nextSeq + 1
    <3>1. f \in nextCommit..nextSeq
      BY <2>1, <2>3
    <3>2. Awaited(f) \/ f \in abandoned
      BY <3>1 DEF PipeInv, OnlyAbandonedMissing
    <3>3. CASE Carried(f)
      <4>1. PICK t \in Tasks : /\ hand[t] = [seq |-> f, gen |-> gen]
                               /\ t \in Workers => pc[t] \in {"prefetch", "slots"}
        BY <3>3 DEF Carried
      <4>2. f # NoFrame
        BY <1>2, <2>1, <3>1 DEF PipeTypeOK, NoFrame
      <4>3. t # s
        BY <1>1, <1>2, <4>1, <4>2 DEF HandsOK, NoItem
      <4> QED
        BY <1>1, <1>2, <4>1, <4>3 DEF Awaited, Carried, PipeTypeOK
    <3>4. CASE Queued(f) \/ prepared[f] # Absent
      BY <1>1, <3>4 DEF Awaited, Queued
    <3> QED
      BY <3>2, <3>3, <3>4 DEF Awaited
  <2> QED
    BY <2>2, <2>3
<1>9. NoLostWakeup'
  BY <1>1, <1>2, WakeupSuffices DEF PipeTypeOK
<1> QED
  BY <1>5, <1>6, <1>7, <1>8, <1>9 DEF PipeInv

LEMMA DropOldestInv == ASSUME PipeInv, NEW s \in Sockets, DropOldest(s)
                       PROVE  PipeInv'
<1> DEFINE dropped == Head(queue).seq
<1>1. /\ pc[s] = "admit" /\ Len(queue) >= QueueMax /\ queue' = Tail(queue)
      /\ prepared' = [prepared EXCEPT ![dropped] = Tombstone]
      /\ pc' = [pc EXCEPT ![s] = "drain"] /\ MarkFailed(dropped)
      /\ UNCHANGED <<policy, nextCommit, hand, retry, inFold, inHand,
                     gen, lost, abandoned, crashes, faults, configures>>
  BY DEF DropOldest, ghostVars
<1>2. PipeTypeOK /\ CountersOK /\ HandsOK
  BY DEF PipeInv
<1>3. queue \in Seq(Items) /\ queue # <<>>
  BY <1>1, <1>2, BoundsAreNat DEF PipeTypeOK
<1>4. /\ queue' \in Seq(Items) /\ Len(queue') = Len(queue) - 1
      /\ Head(queue) \in Items /\ dropped \in Frames
  <2>1. Tail(queue) \in Seq(Items) /\ Len(Tail(queue)) = Len(queue) - 1
        /\ Head(queue) \in Items
    BY <1>3, TailType
  <2> QED
    BY <1>1, <2>1 DEF Items
<1>5. NoNewFrame
  BY <1>1, MarksBringNoFrame
<1>6. s \in Tasks /\ s \notin Workers
  BY PipelineAssumption DEF Tasks
<1> HIDE DEF dropped
<1>7. PipeTypeOK'
  <2>1. Len(queue') <= QueueMax
    BY <1>2, <1>3, <1>4, BoundsAreNat DEF PipeTypeOK
  <2>2. prepared' \in [Frames -> Prepared]
    BY <1>1, <1>2, <1>4 DEF PipeTypeOK, Prepared
  <2>3. pc' \in [Tasks -> {"idle", "arrived", "admit", "put", "get", "prefetch",
                           "slots", "drain", "loop", "fold", "dead"}]
    BY <1>1, <1>2 DEF PipeTypeOK
  <2> QED
    BY <1>1, <1>2, <1>4, <2>1, <2>2, <2>3 DEF PipeTypeOK
<1>8. CountersOK'
  BY <1>1, <1>2, <1>5 DEF CountersOK, NoNewFrame
<1>9. HandsOK'
  BY <1>1, <1>2, <1>6 DEF HandsOK, SocketPcs, WorkerPcs, PipeTypeOK, Tasks
<1>10. OnlyAbandonedMissing'
  <2>1. ASSUME NEW f \in Frames, Awaited(f) PROVE Awaited(f)'
    <3>1. CASE Queued(f)
      <4>1. PICK i \in DOMAIN queue : queue[i] = [seq |-> f, gen |-> gen]
        BY <3>1 DEF Queued
      <4>2. CASE queue[i] = Head(queue)
        <5>1. f = dropped
          BY <4>1, <4>2 DEF dropped
        <5> QED
          BY <1>1, <1>2, <5>1 DEF PipeTypeOK, Awaited, Tombstone, Absent
      <4>3. CASE \E j \in DOMAIN Tail(queue) : Tail(queue)[j] = queue[i]
        BY <1>1, <4>1, <4>3 DEF Awaited, Queued
      <4> QED
        BY <1>3, <4>2, <4>3, TailKeeps
    <3>2. CASE Carried(f)
      BY <1>1, <1>2, <1>6, <3>2 DEF Carried, Awaited, PipeTypeOK
    <3>3. CASE prepared[f] # Absent
      BY <1>1, <1>2, <3>3 DEF PipeTypeOK, Awaited, Tombstone, Absent
    <3> QED
      BY <2>1, <3>1, <3>2, <3>3 DEF Awaited
  <2>2. nextCommit \in 1..(MaxSeq + 1)
    BY <1>2 DEF PipeTypeOK
  <2> QED
    BY <1>1, <1>5, <2>1, <2>2, AwaitedSuffices, BoundsAreNat
<1>11. NoLostWakeup'
  BY <1>1, <1>2, <1>6 DEF NoLostWakeup, PipeTypeOK
<1> QED
  BY <1>7, <1>8, <1>9, <1>10, <1>11 DEF PipeInv

LEMMA PutInv == ASSUME PipeInv, NEW s \in Sockets, Put(s)
                PROVE  PipeInv'
<1>1. /\ pc[s] \in {"put", "admit"} /\ Len(queue) < QueueMax
      /\ queue' = Append(queue, hand[s])
      /\ pc' = [pc EXCEPT ![s] = "idle"]
      /\ hand' = [hand EXCEPT ![s] = NoItem]
      /\ NoNewFrame
      /\ UNCHANGED <<policy, prepared, nextCommit, retry, inFold, inHand,
                     gen, lost, abandoned, crashes, faults, configures>>
  BY DEF Put, ghostVars, supVars, NoNewFrame
<1>2. PipeTypeOK /\ CountersOK /\ HandsOK
  BY DEF PipeInv
<1>3. s \in Tasks /\ s \notin Workers
  BY PipelineAssumption DEF Tasks
<1>4. queue \in Seq(Items) /\ hand[s] \in Items
  BY <1>1, <1>2 DEF PipeTypeOK, HandsOK
<1>5. PipeTypeOK'
  <2>1. queue' \in Seq(Items) /\ Len(queue') <= QueueMax
    BY <1>1, <1>4, BoundsAreNat
  <2>2. pc' \in [Tasks -> {"idle", "arrived", "admit", "put", "get", "prefetch",
                           "slots", "drain", "loop", "fold", "dead"}]
    BY <1>1, <1>2 DEF PipeTypeOK
  <2>3. hand' \in [Tasks -> Items \cup {NoItem}]
    BY <1>1, <1>2 DEF PipeTypeOK
  <2> QED
    BY <1>1, <1>2, <2>1, <2>2, <2>3 DEF PipeTypeOK
<1>6. CountersOK'
  BY <1>1, <1>2 DEF CountersOK, NoNewFrame
<1>7. HandsOK'
  BY <1>1, <1>2, <1>3 DEF HandsOK, SocketPcs, WorkerPcs, PipeTypeOK, Tasks
<1>8. OnlyAbandonedMissing'
  <2>1. ASSUME NEW f \in Frames, Awaited(f) PROVE Awaited(f)'
    <3>1. CASE Queued(f)
      <4>1. PICK i \in DOMAIN queue : queue[i] = [seq |-> f, gen |-> gen]
        BY <3>1 DEF Queued
      <4>2. i \in DOMAIN queue' /\ queue'[i] = queue[i]
        BY <1>1, <1>4, <4>1, AppendKeeps
      <4> QED
        BY <1>1, <4>1, <4>2 DEF Awaited, Queued
    <3>2. CASE Carried(f)
      <4>1. PICK t \in Tasks : /\ hand[t] = [seq |-> f, gen |-> gen]
                               /\ t \in Workers => pc[t] \in {"prefetch", "slots"}
        BY <3>2 DEF Carried
      <4>2. CASE t = s
        <5>1. /\ Len(queue) + 1 \in DOMAIN queue'
              /\ queue'[Len(queue) + 1] = hand[s]
          BY <1>1, <1>4, AppendKeeps
        <5> QED
          BY <1>1, <4>1, <4>2, <5>1 DEF Awaited, Queued
      <4>3. CASE t # s
        BY <1>1, <1>2, <4>1, <4>3 DEF Awaited, Carried, PipeTypeOK
      <4> QED
        BY <4>2, <4>3
    <3>3. CASE prepared[f] # Absent
      BY <1>1, <3>3 DEF Awaited
    <3> QED
      BY <2>1, <3>1, <3>2, <3>3 DEF Awaited
  <2>2. nextCommit \in 1..(MaxSeq + 1)
    BY <1>2 DEF PipeTypeOK
  <2> QED
    BY <1>1, <2>1, <2>2, AwaitedSuffices, BoundsAreNat
<1>9. NoLostWakeup'
  BY <1>1, <1>2, WakeupSuffices DEF PipeTypeOK
<1> QED
  BY <1>5, <1>6, <1>7, <1>8, <1>9 DEF PipeInv

LEMMA GetInv == ASSUME PipeInv, NEW w \in Workers, Get(w)
                PROVE  PipeInv'
<1>1. /\ pc[w] = "get" /\ queue # <<>> /\ queue' = Tail(queue)
      /\ hand' = [hand EXCEPT ![w] = Head(queue)]
      /\ pc' = [pc EXCEPT ![w] = "prefetch"]
      /\ UNCHANGED <<policy, prepared, nextCommit, retry, inFold, inHand,
                     gen, lost, abandoned, crashes, faults, configures>>
  BY DEF Get, ghostVars
<1>2. PipeTypeOK /\ CountersOK /\ HandsOK
  BY DEF PipeInv
<1>3. w \in Tasks /\ w \notin Sockets
  BY PipelineAssumption DEF Tasks
<1>4. /\ queue \in Seq(Items) /\ queue' \in Seq(Items)
      /\ Len(queue') = Len(queue) - 1 /\ Head(queue) \in Items
  <2>1. queue \in Seq(Items)
    BY <1>2 DEF PipeTypeOK
  <2> QED
    BY <1>1, <2>1, TailType
<1>5. NoNewFrame
  BY MarksBringNoFrame DEF Get
<1>6. PipeTypeOK'
  <2>1. Len(queue') <= QueueMax
    BY <1>2, <1>4, BoundsAreNat DEF PipeTypeOK
  <2>2. pc' \in [Tasks -> {"idle", "arrived", "admit", "put", "get", "prefetch",
                           "slots", "drain", "loop", "fold", "dead"}]
    BY <1>1, <1>2 DEF PipeTypeOK
  <2>3. hand' \in [Tasks -> Items \cup {NoItem}]
    BY <1>1, <1>2, <1>4 DEF PipeTypeOK
  <2> QED
    BY <1>1, <1>2, <1>4, <2>1, <2>2, <2>3 DEF PipeTypeOK
<1>7. CountersOK'
  BY <1>1, <1>2, <1>5 DEF CountersOK, NoNewFrame
<1>8. HandsOK'
  BY <1>1, <1>2, <1>3, <1>4 DEF HandsOK, SocketPcs, WorkerPcs, PipeTypeOK, Tasks
<1>9. OnlyAbandonedMissing'
  <2>1. ASSUME NEW f \in Frames, Awaited(f) PROVE Awaited(f)'
    <3>1. CASE Queued(f)
      <4>1. PICK i \in DOMAIN queue : queue[i] = [seq |-> f, gen |-> gen]
        BY <3>1 DEF Queued
      <4>2. CASE queue[i] = Head(queue)
        <5>1. hand'[w] = [seq |-> f, gen |-> gen'] /\ pc'[w] = "prefetch"
          BY <1>1, <1>2, <1>3, <4>1, <4>2 DEF PipeTypeOK
        <5> QED
          BY <1>3, <5>1 DEF Awaited, Carried
      <4>3. CASE \E j \in DOMAIN Tail(queue) : Tail(queue)[j] = queue[i]
        BY <1>1, <4>1, <4>3 DEF Awaited, Queued
      <4> QED
        BY <1>1, <1>4, <4>2, <4>3, TailKeeps
    <3>2. CASE Carried(f)
      BY <1>1, <1>2, <1>3, <3>2 DEF Carried, Awaited, PipeTypeOK
    <3>3. CASE prepared[f] # Absent
      BY <1>1, <3>3 DEF Awaited
    <3> QED
      BY <2>1, <3>1, <3>2, <3>3 DEF Awaited
  <2>2. nextCommit \in 1..(MaxSeq + 1)
    BY <1>2 DEF PipeTypeOK
  <2> QED
    BY <1>1, <1>5, <2>1, <2>2, AwaitedSuffices, BoundsAreNat
<1>10. NoLostWakeup'
  BY <1>1, <1>2, WakeupSuffices DEF PipeTypeOK
<1> QED
  BY <1>6, <1>7, <1>8, <1>9, <1>10 DEF PipeInv

LEMMA PrefetchedInv == ASSUME PipeInv, NEW w \in Workers, Prefetched(w)
                       PROVE  PipeInv'
<1>1. /\ pc[w] = "prefetch" /\ pc' = [pc EXCEPT ![w] = "slots"]
      /\ UNCHANGED <<policy, queue, prepared, nextCommit, hand, retry, inFold,
                     inHand, gen, lost, abandoned, crashes, faults, configures>>
  BY DEF Prefetched, ghostVars
<1>2. PipeTypeOK /\ CountersOK /\ HandsOK
  BY DEF PipeInv
<1>3. w \in Tasks /\ w \notin Sockets
  BY PipelineAssumption DEF Tasks
<1>4. NoNewFrame
  BY MarksBringNoFrame DEF Prefetched
<1>5. PipeTypeOK'
  BY <1>1, <1>2 DEF PipeTypeOK
<1>6. CountersOK'
  BY <1>1, <1>2, <1>4 DEF CountersOK, NoNewFrame
<1>7. HandsOK'
  BY <1>1, <1>2, <1>3 DEF HandsOK, SocketPcs, WorkerPcs, PipeTypeOK, Tasks
<1>8. OnlyAbandonedMissing'
  <2>1. ASSUME NEW f \in Frames, Carried(f) PROVE Carried(f)'
    BY <1>1, <1>2, <1>3, <2>1 DEF Carried, PipeTypeOK
  <2> QED
    BY <1>1, <1>4, <2>1, CarriedSuffices
<1>9. NoLostWakeup'
  BY <1>1, <1>2, WakeupSuffices DEF PipeTypeOK
<1> QED
  BY <1>5, <1>6, <1>7, <1>8, <1>9 DEF PipeInv

LEMMA PrepareInv == ASSUME PipeInv, NEW w \in Workers, Prepare(w)
                    PROVE  PipeInv'
<1>1. /\ pc[w] = "slots" /\ pc' = [pc EXCEPT ![w] = "drain"]
      /\ prepared' = [prepared EXCEPT ![hand[w].seq] = hand[w].gen]
      /\ NoNewFrame
      /\ UNCHANGED <<policy, queue, nextCommit, hand, retry, inFold, inHand,
                     gen, lost, abandoned, crashes, faults, configures>>
  BY DEF Prepare, ghostVars, supVars, NoNewFrame
<1>2. PipeTypeOK /\ CountersOK /\ HandsOK
  BY DEF PipeInv
<1>3. w \in Tasks /\ w \notin Sockets
  BY PipelineAssumption DEF Tasks
<1>4. hand[w].seq \in Frames /\ hand[w].gen \in 0..MaxClears
  BY <1>1, <1>2 DEF HandsOK, Items
<1>5. hand[w].gen # Absent
  BY <1>4, BoundsAreNat DEF Absent
<1>6. PipeTypeOK'
  <2>1. prepared' \in [Frames -> Prepared]
    BY <1>1, <1>2, <1>4 DEF PipeTypeOK, Prepared
  <2>2. pc' \in [Tasks -> {"idle", "arrived", "admit", "put", "get", "prefetch",
                           "slots", "drain", "loop", "fold", "dead"}]
    BY <1>1, <1>2 DEF PipeTypeOK
  <2> QED
    BY <1>1, <1>2, <2>1, <2>2 DEF PipeTypeOK
<1>7. CountersOK'
  BY <1>1, <1>2 DEF CountersOK, NoNewFrame
<1>8. HandsOK'
  BY <1>1, <1>2, <1>3 DEF HandsOK, SocketPcs, WorkerPcs, PipeTypeOK, Tasks
<1>9. OnlyAbandonedMissing'
  <2>1. ASSUME NEW f \in Frames, Awaited(f) PROVE Awaited(f)'
    <3>1. prepared[f] # Absent \/ f = hand[w].seq => prepared'[f] # Absent
      BY <1>1, <1>2, <1>5 DEF PipeTypeOK
    <3>2. CASE Carried(f)
      <4>1. PICK t \in Tasks : /\ hand[t] = [seq |-> f, gen |-> gen]
                               /\ t \in Workers => pc[t] \in {"prefetch", "slots"}
        BY <3>2 DEF Carried
      <4>2. CASE t = w
        BY <3>1, <4>1, <4>2 DEF Awaited
      <4>3. CASE t # w
        BY <1>1, <1>2, <4>1, <4>3 DEF Awaited, Carried, PipeTypeOK
      <4> QED
        BY <4>2, <4>3
    <3>3. CASE Queued(f) \/ prepared[f] # Absent
      BY <1>1, <3>1, <3>3 DEF Awaited, Queued
    <3> QED
      BY <2>1, <3>2, <3>3 DEF Awaited
  <2>2. nextCommit \in 1..(MaxSeq + 1)
    BY <1>2 DEF PipeTypeOK
  <2> QED
    BY <1>1, <2>1, <2>2, AwaitedSuffices, BoundsAreNat
<1>10. NoLostWakeup'
  BY <1>1, <1>2, <1>3 DEF NoLostWakeup, PipeTypeOK
<1> QED
  BY <1>6, <1>7, <1>8, <1>9, <1>10 DEF PipeInv

-----------------------------------------------------------------------------
(* The drain, by a worker or by a websocket handler.                       *)

LEMMA StartFoldInv == ASSUME PipeInv, NEW t \in Tasks, StartFold(t)
                      PROVE  PipeInv'
<1>1. PICK next \in Frames :
           /\ IsNext(next) /\ prepared[next] # Absent
           /\ prepared' = [f \in Frames |-> IF f \in nextCommit..next
                                            THEN Absent ELSE prepared[f]]
           /\ nextCommit' = next + 1
           /\ inFold' = prepared[next]
           /\ MarkStatus(next, "folding")
  BY DEF StartFold
<1>2. /\ pc[t] \in {"loop", "drain"} /\ pc' = [pc EXCEPT ![t] = "fold"]
      /\ UNCHANGED <<policy, queue, hand, retry, inHand,
                     gen, lost, abandoned, crashes, faults, configures>>
  BY DEF StartFold, MayDrain, ghostVars
<1>3. PipeTypeOK /\ CountersOK /\ HandsOK
  BY DEF PipeInv
<1>4. NoNewFrame
  BY <1>1, MarksBringNoFrame
<1>5. next \in nextCommit..(MaxSeq + 1) /\ next \in 1..MaxSeq
  BY <1>1 DEF IsNext, Frames
<1>6. nextCommit \in 1..(MaxSeq + 1)
  BY <1>3 DEF PipeTypeOK
<1>7. nextCommit' \in 1..(MaxSeq + 1) /\ nextCommit <= nextCommit'
  BY <1>1, <1>5, <1>6, BoundsAreNat
<1>8. PipeTypeOK'
  <2>1. prepared' \in [Frames -> Prepared]
    BY <1>1, <1>3 DEF PipeTypeOK, Prepared
  <2>2. inFold' \in {Absent} \cup 0..MaxClears
    <3>1. prepared[next] \in Prepared /\ prepared[next] # Tombstone
      BY <1>1, <1>3, <1>5 DEF PipeTypeOK, IsNext
    <3> QED
      BY <1>1, <3>1 DEF Prepared
  <2>3. pc' \in [Tasks -> {"idle", "arrived", "admit", "put", "get", "prefetch",
                           "slots", "drain", "loop", "fold", "dead"}]
    BY <1>2, <1>3 DEF PipeTypeOK
  <2> QED
    BY <1>2, <1>3, <1>7, <2>1, <2>2, <2>3 DEF PipeTypeOK
<1>9. CountersOK'
  BY <1>2, <1>3, <1>4 DEF CountersOK, NoNewFrame
<1>10. HandsOK'
  BY <1>2, <1>3 DEF HandsOK, SocketPcs, WorkerPcs, PipeTypeOK, Tasks
<1>11. OnlyAbandonedMissing'
  <2>1. ASSUME NEW f \in Frames, f >= nextCommit', Awaited(f)
        PROVE  Awaited(f)'
    <3>1. prepared'[f] = prepared[f]
      <4>1. f \notin nextCommit..next
        BY <1>1, <1>5, <1>6, <2>1, BoundsAreNat DEF Frames
      <4> QED
        BY <1>1, <4>1
    <3>2. Carried(f) => Carried(f)'
      BY <1>2, <1>3 DEF Carried, PipeTypeOK
    <3> QED
      BY <1>2, <2>1, <3>1, <3>2 DEF Awaited, Queued
  <2> QED
    BY <1>2, <1>4, <1>7, <2>1, AwaitedSuffices
<1>12. NoLostWakeup'
  BY <1>2, <1>3 DEF NoLostWakeup, PipeTypeOK
<1> QED
  BY <1>8, <1>9, <1>10, <1>11, <1>12 DEF PipeInv

LEMMA EndDrainInv == ASSUME PipeInv, NEW t \in Tasks, EndDrain(t)
                     PROVE  PipeInv'
<1>1. PICK next \in 1..(MaxSeq + 1) :
           /\ IsNext(next)
           /\ next <= MaxSeq => prepared[next] = Absent
           /\ prepared' = [f \in Frames |-> IF f \in nextCommit..(next - 1)
                                            THEN Absent ELSE prepared[f]]
           /\ nextCommit' = next
  BY DEF EndDrain
<1>2. /\ pc[t] \in {"loop", "drain"} /\ NoNewFrame
      /\ UNCHANGED <<policy, queue, inFold, inHand,
                     gen, lost, abandoned, crashes, faults, configures>>
      /\ \/ /\ t \in Workers
            /\ pc' = [pc EXCEPT ![t] = "get"]
            /\ hand' = [hand EXCEPT ![t] = NoItem]
            /\ retry' = [retry EXCEPT ![t] = FALSE]
         \/ /\ t \in Sockets \ Workers
            /\ pc' = [pc EXCEPT ![t] = "put"]
            /\ hand' = hand /\ retry' = retry
  BY DEF EndDrain, MayDrain, ghostVars, supVars, Tasks, NoNewFrame
<1>3. PipeTypeOK /\ CountersOK /\ HandsOK
  BY DEF PipeInv
<1>4. next \in nextCommit..(MaxSeq + 1) /\ nextCommit \in 1..(MaxSeq + 1)
  BY <1>1, <1>3 DEF IsNext, PipeTypeOK
<1>5. PipeTypeOK'
  <2>1. prepared' \in [Frames -> Prepared]
    BY <1>1, <1>3 DEF PipeTypeOK, Prepared
  <2>2. pc' \in [Tasks -> {"idle", "arrived", "admit", "put", "get", "prefetch",
                           "slots", "drain", "loop", "fold", "dead"}]
    BY <1>2, <1>3 DEF PipeTypeOK
  <2>3. hand' \in [Tasks -> Items \cup {NoItem}]
    BY <1>2, <1>3 DEF PipeTypeOK
  <2>4. retry' \in [Workers -> BOOLEAN]
    BY <1>2, <1>3 DEF PipeTypeOK
  <2> QED
    BY <1>1, <1>2, <1>3, <2>1, <2>2, <2>3, <2>4 DEF PipeTypeOK
<1>6. CountersOK'
  BY <1>2, <1>3 DEF CountersOK, NoNewFrame
<1>7. HandsOK'
  BY <1>2, <1>3, PipelineAssumption
  DEF HandsOK, SocketPcs, WorkerPcs, PipeTypeOK, Tasks
<1>8. OnlyAbandonedMissing'
  <2>1. ASSUME NEW f \in Frames, f >= nextCommit', Awaited(f)
        PROVE  Awaited(f)'
    <3>1. prepared'[f] = prepared[f]
      <4>1. f \notin nextCommit..(next - 1)
        BY <1>1, <1>4, <2>1, BoundsAreNat DEF Frames
      <4> QED
        BY <1>1, <4>1
    <3>2. Carried(f) => Carried(f)'
      BY <1>2, <1>3 DEF Carried, PipeTypeOK
    <3> QED
      BY <1>2, <2>1, <3>1, <3>2 DEF Awaited, Queued
  <2>2. nextCommit' \in 1..(MaxSeq + 1) /\ nextCommit <= nextCommit'
    BY <1>1, <1>4, BoundsAreNat
  <2> QED
    BY <1>2, <2>1, <2>2, AwaitedSuffices
<1>9. NoLostWakeup'
  <2>1. CASE next > MaxSeq
    BY <1>1, <2>1 DEF NoLostWakeup
  <2>2. CASE next <= MaxSeq
    <3>1. next \in Frames /\ next \notin nextCommit..(next - 1)
      BY <1>4, <2>2, BoundsAreNat DEF Frames
    <3>2. prepared'[next] = Absent
      BY <1>1, <2>2, <3>1
    <3> QED
      BY <1>1, <3>2 DEF NoLostWakeup
  <2> QED
    BY <1>4, <2>1, <2>2, BoundsAreNat
<1> QED
  BY <1>5, <1>6, <1>7, <1>8, <1>9 DEF PipeInv

LEMMA FinishFoldInv == ASSUME PipeInv, NEW t \in Tasks, FinishFold(t)
                       PROVE  PipeInv'
<1>1. /\ pc[t] = "fold" /\ pc' = [pc EXCEPT ![t] = "loop"] /\ inFold' = Absent
      /\ UNCHANGED <<policy, queue, prepared, nextCommit, hand, retry, inHand,
                     gen, lost, abandoned, crashes, faults, configures>>
  BY DEF FinishFold, ghostVars
<1>2. PipeTypeOK /\ CountersOK /\ HandsOK
  BY DEF PipeInv
<1>3. NoNewFrame
  BY MarksBringNoFrame DEF FinishFold
<1>4. PipeTypeOK'
  BY <1>1, <1>2 DEF PipeTypeOK
<1>5. CountersOK'
  BY <1>1, <1>2, <1>3 DEF CountersOK, NoNewFrame
<1>6. HandsOK'
  BY <1>1, <1>2 DEF HandsOK, SocketPcs, WorkerPcs, PipeTypeOK, Tasks
<1>7. OnlyAbandonedMissing'
  <2>1. ASSUME NEW f \in Frames, Carried(f) PROVE Carried(f)'
    BY <1>1, <1>2, <2>1 DEF Carried, PipeTypeOK
  <2> QED
    BY <1>1, <1>3, <2>1, CarriedSuffices
<1>8. NoLostWakeup'
  BY <1>1, <1>2, WakeupSuffices DEF PipeTypeOK
<1> QED
  BY <1>4, <1>5, <1>6, <1>7, <1>8 DEF PipeInv

-----------------------------------------------------------------------------
(* Folds that raise.                                                       *)

LEMMA InterruptedType == ASSUME PipeInv, NEW t \in Tasks
                         PROVE  Interrupted(t) \subseteq Frames
BY DEF PipeInv, PipeTypeOK, CountersOK, Interrupted

LEMMA FoldRaisesInv == ASSUME PipeInv, NEW w \in Workers, FoldRaises(w)
                       PROVE  PipeInv'
<1>1. /\ pc[w] = "fold" /\ pc' = [pc EXCEPT ![w] = "drain"]
      /\ faults < MaxFaults /\ faults' = faults + 1
      /\ prepared' = [prepared EXCEPT ![hand[w].seq] = Tombstone]
      /\ lost' \in {lost, Interrupted(w)} /\ inFold' = Absent
      /\ retry' = [retry EXCEPT ![w] = TRUE] /\ MarkFailed(hand[w].seq)
      /\ UNCHANGED <<policy, queue, nextCommit, hand, inHand, gen, abandoned,
                     crashes, configures>>
  BY DEF FoldRaises
<1>2. PipeTypeOK /\ CountersOK /\ HandsOK
  BY DEF PipeInv
<1>3. w \in Tasks /\ w \notin Sockets
  BY PipelineAssumption DEF Tasks
<1>4. hand[w].seq \in Frames
  BY <1>1, <1>2 DEF HandsOK, Items
<1>5. NoNewFrame
  BY <1>1, MarksBringNoFrame
<1>6. faults' \in 0..MaxFaults /\ crashes' <= faults'
  BY <1>1, <1>2, BoundsAreNat DEF PipeTypeOK, CountersOK
<1>7. PipeTypeOK'
  <2>1. prepared' \in [Frames -> Prepared]
    BY <1>1, <1>2, <1>4 DEF PipeTypeOK, Prepared
  <2>2. lost' \subseteq Frames
    BY <1>1, <1>2, <1>3, InterruptedType DEF PipeTypeOK
  <2>3. pc' \in [Tasks -> {"idle", "arrived", "admit", "put", "get", "prefetch",
                           "slots", "drain", "loop", "fold", "dead"}]
    BY <1>1, <1>2 DEF PipeTypeOK
  <2>4. retry' \in [Workers -> BOOLEAN]
    BY <1>1, <1>2 DEF PipeTypeOK
  <2> QED
    BY <1>1, <1>2, <1>6, <2>1, <2>2, <2>3, <2>4 DEF PipeTypeOK
<1>8. CountersOK'
  BY <1>1, <1>2, <1>5, <1>6 DEF CountersOK, NoNewFrame
<1>9. HandsOK'
  BY <1>1, <1>2, <1>3 DEF HandsOK, SocketPcs, WorkerPcs, PipeTypeOK, Tasks
<1>10. OnlyAbandonedMissing'
  <2>1. ASSUME NEW f \in Frames, Awaited(f) PROVE Awaited(f)'
    <3>1. prepared[f] # Absent => prepared'[f] # Absent
      BY <1>1, <1>2 DEF PipeTypeOK, Tombstone, Absent
    <3>2. Carried(f) => Carried(f)'
      BY <1>1, <1>2, <1>3 DEF Carried, PipeTypeOK
    <3> QED
      BY <1>1, <2>1, <3>1, <3>2 DEF Awaited, Queued
  <2>2. nextCommit \in 1..(MaxSeq + 1)
    BY <1>2 DEF PipeTypeOK
  <2> QED
    BY <1>1, <1>5, <2>1, <2>2, AwaitedSuffices, BoundsAreNat
<1>11. NoLostWakeup'
  BY <1>1, <1>2, <1>3 DEF NoLostWakeup, PipeTypeOK
<1> QED
  BY <1>7, <1>8, <1>9, <1>10, <1>11 DEF PipeInv

LEMMA WorkerDiesInv == ASSUME PipeInv, NEW w \in Workers, WorkerDies(w)
                       PROVE  PipeInv'
<1>1. /\ pc[w] = "fold" /\ pc' = [pc EXCEPT ![w] = "dead"]
      /\ faults < MaxFaults /\ faults' = faults + 1 /\ crashes' = crashes + 1
      /\ lost' = Interrupted(w) /\ inFold' = Absent /\ NoNewFrame
      /\ hand' = [hand EXCEPT ![w] = NoItem]
      /\ retry' = [retry EXCEPT ![w] = FALSE]
      /\ UNCHANGED <<policy, queue, prepared, nextCommit, inHand, gen,
                     abandoned, configures>>
  BY DEF WorkerDies, supVars, NoNewFrame
<1>2. PipeTypeOK /\ CountersOK /\ HandsOK
  BY DEF PipeInv
<1>3. w \in Tasks /\ w \notin Sockets
  BY PipelineAssumption DEF Tasks
<1>4. /\ faults' \in 0..MaxFaults /\ crashes' \in 0..MaxFaults
      /\ crashes' <= faults' /\ crashes' # 0
  BY <1>1, <1>2, BoundsAreNat DEF PipeTypeOK, CountersOK
<1>5. PipeTypeOK'
  <2>1. lost' \subseteq Frames
    BY <1>1, <1>3, InterruptedType
  <2>2. pc' \in [Tasks -> {"idle", "arrived", "admit", "put", "get", "prefetch",
                           "slots", "drain", "loop", "fold", "dead"}]
    BY <1>1, <1>2 DEF PipeTypeOK
  <2>3. hand' \in [Tasks -> Items \cup {NoItem}]
    BY <1>1, <1>2 DEF PipeTypeOK
  <2>4. retry' \in [Workers -> BOOLEAN]
    BY <1>1, <1>2 DEF PipeTypeOK
  <2> QED
    BY <1>1, <1>2, <1>4, <2>1, <2>2, <2>3, <2>4 DEF PipeTypeOK
<1>6. CountersOK'
  BY <1>1, <1>2, <1>4 DEF CountersOK, NoNewFrame
<1>7. HandsOK'
  BY <1>1, <1>2, <1>3 DEF HandsOK, SocketPcs, WorkerPcs, PipeTypeOK, Tasks
<1>8. OnlyAbandonedMissing'
  <2>1. ASSUME NEW f \in Frames, Carried(f) PROVE Carried(f)'
    BY <1>1, <1>2, <1>3, <2>1 DEF Carried, PipeTypeOK
  <2> QED
    BY <1>1, <2>1, CarriedSuffices
<1>9. NoLostWakeup'
  BY <1>4 DEF NoLostWakeup
<1> QED
  BY <1>5, <1>6, <1>7, <1>8, <1>9 DEF PipeInv

LEMMA SocketFoldRaisesInv ==
    ASSUME PipeInv, NEW s \in Sockets, SocketFoldRaises(s)
    PROVE  PipeInv'
<1>1. /\ pc[s] = "fold" /\ pc' = [pc EXCEPT ![s] = "idle"]
      /\ faults < MaxFaults /\ faults' = faults + 1 /\ crashes' = crashes + 1
      /\ lost' = Interrupted(s) /\ inFold' = Absent /\ NoNewFrame
      /\ hand' = [hand EXCEPT ![s] = NoItem]
      /\ abandoned' = abandoned \cup Unprepared(s)
      /\ UNCHANGED <<policy, queue, prepared, nextCommit, retry, inHand, gen,
                     configures>>
  BY DEF SocketFoldRaises, supVars, NoNewFrame
<1>2. PipeTypeOK /\ CountersOK /\ HandsOK
  BY DEF PipeInv
<1>3. s \in Tasks /\ s \notin Workers
  BY PipelineAssumption DEF Tasks
<1>4. /\ faults' \in 0..MaxFaults /\ crashes' \in 0..MaxFaults
      /\ crashes' <= faults' /\ crashes' # 0
  BY <1>1, <1>2, BoundsAreNat DEF PipeTypeOK, CountersOK
<1>5. PipeTypeOK'
  <2>1. lost' \subseteq Frames
    BY <1>1, <1>3, InterruptedType
  <2>2. pc' \in [Tasks -> {"idle", "arrived", "admit", "put", "get", "prefetch",
                           "slots", "drain", "loop", "fold", "dead"}]
    BY <1>1, <1>2 DEF PipeTypeOK
  <2>3. hand' \in [Tasks -> Items \cup {NoItem}]
    BY <1>1, <1>2 DEF PipeTypeOK
  <2>4. abandoned' \subseteq Frames
    BY <1>1, <1>2 DEF PipeTypeOK, HandsOK, Unprepared, Items
  <2> QED
    BY <1>1, <1>2, <1>4, <2>1, <2>2, <2>3, <2>4 DEF PipeTypeOK
<1>6. CountersOK'
  BY <1>1, <1>2, <1>4 DEF CountersOK, NoNewFrame
<1>7. HandsOK'
  BY <1>1, <1>2, <1>3 DEF HandsOK, SocketPcs, WorkerPcs, PipeTypeOK, Tasks
<1>8. OnlyAbandonedMissing'
  <2>1. ASSUME NEW f \in Frames, Awaited(f)
        PROVE  Awaited(f)' \/ f \in abandoned'
    <3>1. CASE Carried(f)
      <4>1. PICK t \in Tasks : /\ hand[t] = [seq |-> f, gen |-> gen]
                               /\ t \in Workers => pc[t] \in {"prefetch", "slots"}
        BY <3>1 DEF Carried
      <4>2. CASE t = s
        <5>1. hand[s].gen = gen /\ hand[s].seq = f /\ hand[s] # NoItem
          BY <4>1, <4>2, <2>1 DEF NoItem, NoFrame, Frames
        <5> QED
          BY <1>1, <1>3, <5>1 DEF Unprepared
      <4>3. CASE t # s
        BY <1>1, <1>2, <4>1, <4>3 DEF Awaited, Carried, PipeTypeOK
      <4> QED
        BY <4>2, <4>3
    <3>2. CASE Queued(f) \/ prepared[f] # Absent
      BY <1>1, <3>2 DEF Awaited, Queued
    <3> QED
      BY <2>1, <3>1, <3>2 DEF Awaited
  <2>2. nextCommit \in 1..(MaxSeq + 1)
    BY <1>2 DEF PipeTypeOK
  <2> QED
    BY <1>1, <2>1, <2>2, AwaitedSuffices, BoundsAreNat
<1>9. NoLostWakeup'
  BY <1>4 DEF NoLostWakeup
<1> QED
  BY <1>5, <1>6, <1>7, <1>8, <1>9 DEF PipeInv

-----------------------------------------------------------------------------
(* The cycle loop and the administrative calls.                            *)

LEMMA CycleInv == PipeInv /\ (Pop \/ Commit) => PipeInv'
<1> SUFFICES ASSUME PipeInv, Pop \/ Commit PROVE PipeInv'
  OBVIOUS
<1>1. /\ inHand' \in Frames \cup {NoFrame, Stale}
      /\ UNCHANGED <<policy, queue, prepared, nextCommit, pc, hand, retry,
                     inFold, gen, lost, abandoned, crashes, faults, configures>>
  BY DEF Pop, Commit, ghostVars, taskVars
<1>2. PipeTypeOK /\ CountersOK /\ HandsOK
  BY DEF PipeInv
<1>3. NoNewFrame
  BY MarksBringNoFrame DEF Pop, Commit
<1>4. PipeTypeOK'
  BY <1>1, <1>2 DEF PipeTypeOK
<1>5. CountersOK' /\ HandsOK'
  BY <1>1, <1>2, <1>3 DEF CountersOK, NoNewFrame, HandsOK
<1>6. OnlyAbandonedMissing'
  <2>1. \A f \in Frames : Carried(f) => Carried(f)'
    BY <1>1 DEF Carried
  <2> QED
    BY <1>1, <1>3, <2>1, CarriedSuffices
<1>7. NoLostWakeup'
  BY <1>1, WakeupSuffices
<1> QED
  BY <1>4, <1>5, <1>6, <1>7 DEF PipeInv

LEMMA ConfigureInv == ASSUME PipeInv, NEW k \in Capacities, Configure(k)
                      PROVE  PipeInv'
<1>1. PICK S \in SUBSET Workers :
          /\ pc' = [t \in Tasks |-> IF t \in S \ Alive THEN "get"
                                    ELSE IF t \in Workers \ S THEN "dead"
                                    ELSE pc[t]]
          /\ hand' = [t \in Tasks |-> IF t \in Workers \ S THEN NoItem
                                      ELSE hand[t]]
          /\ retry' = [w \in Workers |-> w \in S /\ retry[w]]
          /\ lost' = lost \cup UNION {Interrupted(w) : w \in Workers \ S}
          /\ abandoned' = abandoned
                            \cup UNION {Unprepared(w) : w \in Workers \ S}
          /\ inFold' = IF \E w \in Workers \ S : pc[w] = "fold"
                       THEN Absent ELSE inFold
  BY DEF Configure
<1>2. /\ configures < MaxConfigures /\ configures' = configures + 1
      /\ UNCHANGED <<policy, queue, prepared, nextCommit, inHand, gen, crashes,
                     faults>>
  BY DEF Configure
<1>3. PipeTypeOK /\ CountersOK /\ HandsOK
  BY DEF PipeInv
<1>4. NoNewFrame
  BY MarksBringNoFrame DEF Configure
<1>5. configures' \in 0..MaxConfigures /\ configures' # 0
  BY <1>2, <1>3, BoundsAreNat DEF PipeTypeOK
<1>6. PipeTypeOK'
  <2>1. lost' \subseteq Frames
    <3>1. \A w \in Workers : Interrupted(w) \subseteq Frames
      BY InterruptedType DEF Tasks
    <3>2. lost \subseteq Frames
      BY <1>3 DEF PipeTypeOK
    <3>3. lost \cup UNION {Interrupted(w) : w \in Workers \ S} \subseteq Frames
      BY <3>1, <3>2, Zenon
    <3>4. lost' = lost \cup UNION {Interrupted(w) : w \in Workers \ S}
      BY <1>1
    <3> QED
      BY <3>3, <3>4, SMT
  <2>2. abandoned' \subseteq Frames
    <3>1. \A w \in Workers : Unprepared(w) \subseteq Frames
      BY <1>3 DEF HandsOK, Unprepared, Items
    <3> QED
      BY <1>1, <1>3, <3>1 DEF PipeTypeOK
  <2>3. pc' \in [Tasks -> {"idle", "arrived", "admit", "put", "get", "prefetch",
                           "slots", "drain", "loop", "fold", "dead"}]
    BY <1>1, <1>3 DEF PipeTypeOK
  <2>4. hand' \in [Tasks -> Items \cup {NoItem}]
    BY <1>1, <1>3 DEF PipeTypeOK
  <2>5. retry' \in [Workers -> BOOLEAN]
    BY <1>1
  <2>6. inFold' \in {Absent} \cup 0..MaxClears
    BY <1>1, <1>3 DEF PipeTypeOK
  <2> QED
    BY <1>2, <1>3, <1>5, <2>1, <2>2, <2>3, <2>4, <2>5, <2>6 DEF PipeTypeOK
<1>7. CountersOK'
  BY <1>2, <1>3, <1>4, <1>5 DEF CountersOK, NoNewFrame
<1>8. HandsOK'
  BY <1>1, <1>3, PipelineAssumption
  DEF HandsOK, SocketPcs, WorkerPcs, Tasks, Alive
<1>9. OnlyAbandonedMissing'
  <2>1. ASSUME NEW f \in Frames, Awaited(f)
        PROVE  Awaited(f)' \/ f \in abandoned'
    <3>1. CASE Carried(f)
      <4>1. PICK t \in Tasks : /\ hand[t] = [seq |-> f, gen |-> gen]
                               /\ t \in Workers => pc[t] \in {"prefetch", "slots"}
        BY <3>1 DEF Carried
      <4>2. CASE t \in Workers \ S
        <5>1. hand[t].gen = gen /\ hand[t].seq = f /\ hand[t] # NoItem
          BY <4>1, <2>1 DEF NoItem, NoFrame, Frames
        <5>2. f \in Unprepared(t)
          BY <4>1, <4>2, <5>1 DEF Unprepared
        <5> QED
          BY <1>1, <4>2, <5>2
      <4>3. CASE t \notin Workers \ S
        <5>1. hand'[t] = hand[t]
          BY <1>1, <4>1, <4>3
        <5>2. t \in Workers => pc'[t] = pc[t]
          BY <1>1, <4>1, <4>3 DEF Alive
        <5> QED
          BY <1>2, <4>1, <5>1, <5>2 DEF Awaited, Carried
      <4> QED
        BY <4>2, <4>3
    <3>2. CASE Queued(f) \/ prepared[f] # Absent
      BY <1>2, <3>2 DEF Awaited, Queued
    <3> QED
      BY <2>1, <3>1, <3>2 DEF Awaited
  <2>2. nextCommit \in 1..(MaxSeq + 1) /\ abandoned \subseteq abandoned'
    BY <1>1, <1>3 DEF PipeTypeOK
  <2> QED
    BY <1>2, <1>4, <2>1, <2>2, AwaitedSuffices, BoundsAreNat
<1>10. NoLostWakeup'
  BY <1>5 DEF NoLostWakeup
<1> QED
  BY <1>6, <1>7, <1>8, <1>9, <1>10 DEF PipeInv

LEMMA ClearInv == PipeInv /\ Clear => PipeInv'
<1> SUFFICES ASSUME PipeInv, Clear PROVE PipeInv'
  OBVIOUS
<1>1. /\ gen < MaxClears /\ gen' = gen + 1
      /\ nextSeq' = 0 /\ sessions' = {}
      /\ queue' = <<>> /\ prepared' = [f \in Frames |-> Absent]
      /\ nextCommit' = 1 /\ inHand' \in {NoFrame, Stale}
      /\ lost' = {} /\ abandoned' = {}
      /\ UNCHANGED <<policy, pc, hand, retry, inFold, crashes, faults,
                     configures>>
  BY DEF Clear, ClearSupervisor, taskVars
<1>2. PipeTypeOK /\ CountersOK /\ HandsOK
  BY DEF PipeInv
<1>3. PipeTypeOK'
  BY <1>1, <1>2, BoundsAreNat DEF PipeTypeOK, Prepared
<1>4. CountersOK' /\ HandsOK'
  BY <1>1, <1>2, BoundsAreNat DEF CountersOK, HandsOK
<1>5. OnlyAbandonedMissing'
  BY <1>1 DEF OnlyAbandonedMissing
<1>6. NoLostWakeup'
  BY <1>1, BoundsAreNat DEF NoLostWakeup, Frames
<1> QED
  BY <1>3, <1>4, <1>5, <1>6 DEF PipeInv

-----------------------------------------------------------------------------
(* PipeInv is inductive.                                                   *)
LEMMA PipeNextInv == PipeInv /\ [Next]_vars => PipeInv'
<1> SUFFICES ASSUME PipeInv, [Next]_vars PROVE PipeInv'
  OBVIOUS
<1>1. ASSUME NEW t \in Tasks, StartFold(t) \/ FinishFold(t) \/ EndDrain(t)
      PROVE  PipeInv'
  BY <1>1, StartFoldInv, FinishFoldInv, EndDrainInv
<1>2. ASSUME NEW s \in Sockets, Arrive(s) \/ SocketStep(s) \/ SocketFoldRaises(s)
      PROVE  PipeInv'
  BY <1>1, <1>2, ArriveInv, EnqueueInv, DropOldestInv, PutInv,
     SocketFoldRaisesInv
  DEF SocketStep, Tasks
<1>3. ASSUME NEW w \in Workers, WorkerStep(w) \/ FoldRaises(w) \/ WorkerDies(w)
      PROVE  PipeInv'
  BY <1>1, <1>3, GetInv, PrefetchedInv, PrepareInv, FoldRaisesInv, WorkerDiesInv
  DEF WorkerStep, Tasks
<1>4. CASE Pop \/ Commit
  BY <1>4, CycleInv
<1>5. CASE Clear
  BY <1>5, ClearInv
<1>6. ASSUME NEW k \in Capacities, Configure(k) PROVE PipeInv'
  BY <1>6, ConfigureInv
<1>7. CASE UNCHANGED vars
  <2>1. UNCHANGED <<nextSeq, sessions, policy, queue, prepared, nextCommit, pc,
                    hand, retry, inFold, inHand, gen, lost, abandoned, crashes,
                    faults, configures>>
    BY <1>7 DEF vars, supVars, pipeVars, taskVars, ghostVars
  <2>2. PipeTypeOK' /\ CountersOK' /\ HandsOK'
    BY <2>1 DEF PipeInv, PipeTypeOK, CountersOK, HandsOK
  <2>3. OnlyAbandonedMissing' /\ NoLostWakeup'
    BY <2>1 DEF PipeInv, OnlyAbandonedMissing, NoLostWakeup, Awaited, Queued,
                Carried
  <2> QED
    BY <2>2, <2>3 DEF PipeInv
<1> QED
  BY <1>2, <1>3, <1>4, <1>5, <1>6, <1>7 DEF Next

(* The perception pipeline, whatever its tasks, faults, clears and changes *)
(* of parallel_sessions do, stays in PipeInv.                              *)
THEOREM PipelineInvariant == SafeSpec => []PipeInv
<1>1. Init => PipeInv
  BY PipeInitInv
<1>2. PipeInv /\ [Next]_vars => PipeInv'
  BY PipeNextInv
<1> QED
  BY <1>1, <1>2, PTL DEF SafeSpec

(* Type correctness, for every value of the constants.                     *)
THEOREM PipelineTypeCorrect == SafeSpec => []PipeTypeOK
<1>1. PipeInv => PipeTypeOK
  BY DEF PipeInv
<1> QED
  BY <1>1, PipelineInvariant, PTL

(* The in-order drain of _drain_ready_perception waits forever for a frame *)
(* only if the task that was to prepare it has been ended: with any number *)
(* of workers and sockets, under both overload policies, and across clears *)
(* and folds that raise.                                                   *)
THEOREM DrainMissesOnlyAbandoned == SafeSpec => []OnlyAbandonedMissing
<1>1. PipeInv => OnlyAbandonedMissing
  BY DEF PipeInv
<1> QED
  BY <1>1, PipelineInvariant, PTL

(* As long as no task has ended, a frame the drain could fold has a task   *)
(* that drains or is about to: the worker that stored it.                  *)
THEOREM WakeupsAreKept == SafeSpec => []NoLostWakeup
<1>1. PipeInv => NoLostWakeup
  BY DEF PipeInv
<1> QED
  BY <1>1, PipelineInvariant, PTL

(* Put together: until a task is ended by an exception or parallel_sessions *)
(* is changed, the drain is never stuck.  Either all that was received is  *)
(* folded, or the frame it waits for is in the queue or in a task's hands, *)
(* or a task is on its way to fold it.                                     *)
DrainNotStuck ==
    crashes = 0 /\ configures = 0 /\ nextCommit <= nextSeq =>
        \/ Queued(nextCommit) \/ Carried(nextCommit)
        \/ \E t \in Tasks : pc[t] \in {"drain", "loop", "fold"}

THEOREM DrainIsNeverStuck == SafeSpec => []DrainNotStuck
<1>1. PipeInv => DrainNotStuck
  <2> SUFFICES ASSUME PipeInv, crashes = 0, configures = 0,
                      nextCommit <= nextSeq
               PROVE  \/ Queued(nextCommit) \/ Carried(nextCommit)
                      \/ \E t \in Tasks : pc[t] \in {"drain", "loop", "fold"}
    BY DEF DrainNotStuck
  <2>1. nextCommit \in nextCommit..nextSeq /\ nextCommit <= MaxSeq
    BY BoundsAreNat DEF PipeInv, PipeTypeOK, CountersOK
  <2>2. nextCommit \notin abandoned
    BY DEF PipeInv, CountersOK
  <2>3. Awaited(nextCommit)
    BY <2>1, <2>2 DEF PipeInv, OnlyAbandonedMissing
  <2>4. \/ \E t \in Tasks : pc[t] \in {"drain", "loop", "fold"}
        \/ prepared[nextCommit] = Absent
    BY <2>1, BoundsAreNat DEF PipeInv, PipeTypeOK, NoLostWakeup
  <2> QED
    BY <2>3, <2>4 DEF Awaited
<1> QED
  BY <1>1, PipelineInvariant, PTL

-----------------------------------------------------------------------------
(***************************************************************************)
(* PerceptionPipeline implements PrefetchSupervisor, for any number of     *)
(* workers and sockets and under either overload policy, as long as        *)
(* nothing is cleared and parallel_sessions is left alone: the callers of  *)
(* the session manager keep to what PrefetchSupervisor assumes of them.    *)
(* ContractInv says where the pipeline may hold a frame of each status,    *)
(* and that it holds it in one place only.                                 *)
(***************************************************************************)

(* The operators of SessionTiers and their copies in the instance.         *)

LEMMA SameMarks ==
    ASSUME NEW f, NEW x
    PROVE  /\ MarkStatus(f, x) => Supervisor!MarkStatus(f, x)
           /\ MarkFolded(f, x) => Supervisor!MarkFolded(f, x)
           /\ MarkFailed(f) => Supervisor!MarkFailed(f)
           /\ MarkCommitted(f) => Supervisor!MarkCommitted(f)
           /\ EnqueueObservation => Supervisor!EnqueueObservation
<1> USE DEF flagVars, foldVars, tierVars, supVars, Supervisor!flagVars,
        Supervisor!foldVars, Supervisor!tierVars, Supervisor!supVars
<1>3. MarkStatus(f, x) => Supervisor!MarkStatus(f, x)
  BY DEF MarkStatus, Supervisor!MarkStatus
<1>4. MarkFolded(f, x) => Supervisor!MarkFolded(f, x)
  BY DEF MarkFolded, Supervisor!MarkFolded
<1>5. MarkFailed(f) => Supervisor!MarkFailed(f)
  BY DEF MarkFailed, Supervisor!MarkFailed
<1>6. MarkCommitted(f) => Supervisor!MarkCommitted(f)
  BY DEF MarkCommitted, Supervisor!MarkCommitted
<1>7. EnqueueObservation => Supervisor!EnqueueObservation
  BY DEF EnqueueObservation, Supervisor!EnqueueObservation
<1> QED
  BY <1>3, <1>4, <1>5, <1>6, <1>7

LEMMA SameOrders ==
    ASSUME NEW S, NEW n, NEW f, NEW g, NEW at
    PROVE  /\ Supervisor!Cardinality(S) = Cardinality(S)
           /\ Supervisor!Frames = Frames
           /\ Supervisor!Key(f) = Key(f)
           /\ Supervisor!Weaker(f, g, at) = Weaker(f, g, at)
           /\ Supervisor!Stronger(f, g, at) = Stronger(f, g, at)
           /\ Supervisor!EvictedBefore(f, g) = EvictedBefore(f, g)
           /\ Supervisor!PromotedBefore(f, g) = PromotedBefore(f, g)
<1>1. Supervisor!Cardinality(S) = Cardinality(S)
  BY DEF Cardinality, Supervisor!Cardinality
<1>2. Supervisor!Frames = Frames /\ Supervisor!Key(f) = Key(f)
  BY DEF Frames, Supervisor!Frames, Key, Supervisor!Key
<1>3. /\ Supervisor!Weaker(f, g, at) = Weaker(f, g, at)
      /\ Supervisor!Stronger(f, g, at) = Stronger(f, g, at)
      /\ Supervisor!EvictedBefore(f, g) = EvictedBefore(f, g)
      /\ Supervisor!PromotedBefore(f, g) = PromotedBefore(f, g)
  BY DEF Weaker, Supervisor!Weaker, Stronger, Supervisor!Stronger,
         EvictedBefore, Supervisor!EvictedBefore, PromotedBefore,
         Supervisor!PromotedBefore, Key, Supervisor!Key
<1> QED
  BY <1>1, <1>2, <1>3

LEMMA SameMoves ==
    ASSUME NEW ev, NEW sp
    PROVE  /\ Supervisor!Evicted = Evicted
           /\ Supervisor!OverflowPool(ev) = OverflowPool(ev)
           /\ Supervisor!Spilled(ev) = Spilled(ev)
           /\ Supervisor!Forgotten(ev, sp) = Forgotten(ev, sp)
           /\ Supervisor!Promoted(ev, sp) = Promoted(ev, sp)
<1> USE DEF Cardinality, Supervisor!Cardinality, Take, Supervisor!Take, Rank,
        Supervisor!Rank, Key, Supervisor!Key, Weaker, Supervisor!Weaker,
        EvictedBefore, Supervisor!EvictedBefore, OverflowPool,
        Supervisor!OverflowPool, Frames, Supervisor!Frames
<1>1. Supervisor!Evicted = Evicted
  BY DEF Evicted, Supervisor!Evicted
<1>2. Supervisor!OverflowPool(ev) = OverflowPool(ev)
  OBVIOUS
<1>3. Supervisor!Spilled(ev) = Spilled(ev)
  BY DEF Spilled, Supervisor!Spilled, StampInOverflow,
         Supervisor!StampInOverflow
<1>4. Supervisor!Promoted(ev, sp) = Promoted(ev, sp)
  BY DEF Promoted, Supervisor!Promoted, PromotedBefore,
         Supervisor!PromotedBefore, Stronger, Supervisor!Stronger
<1>5. Supervisor!Forgotten(ev, sp) = Forgotten(ev, sp)
  BY DEF Forgotten, Supervisor!Forgotten, StampInOverflow,
         Supervisor!StampInOverflow, StampInConsolidation,
         Supervisor!StampInConsolidation
<1> QED
  BY <1>1, <1>2, <1>3, <1>4, <1>5

LEMMA SameStamps ==
    ASSUME NEW ev, NEW sp, NEW pr
    PROVE  Supervisor!StampAfterPop(ev, sp, pr) = StampAfterPop(ev, sp, pr)
BY DEF Cardinality, Supervisor!Cardinality, Rank,
       Supervisor!Rank, Key, Supervisor!Key, Weaker, Supervisor!Weaker,
       Stronger, Supervisor!Stronger, PromotedBefore,
       Supervisor!PromotedBefore,
       EvictedBefore, Supervisor!EvictedBefore, Frames, Supervisor!Frames,
       StampInOverflow, Supervisor!StampInOverflow, StampInConsolidation,
       Supervisor!StampInConsolidation, StampAfterPop,
       Supervisor!StampAfterPop

LEMMA SameChoice ==
    ASSUME NEW f, NEW S, NEW lane, NEW at
    PROVE  Supervisor!Selects(f, S, lane, at) <=> Selects(f, S, lane, at)
BY DEF Selects, Supervisor!Selects, ArbiterSelects,
       Supervisor!ArbiterSelects, Stronger, Supervisor!Stronger, Key,
       Supervisor!Key

LEMMA SamePop ==
    ASSUME NEW f
    PROVE  PopCommitCandidate(f) => Supervisor!PopCommitCandidate(f)
<1> SUFFICES ASSUME PopCommitCandidate(f)
             PROVE  Supervisor!PopCommitCandidate(f)
  OBVIOUS
<1> DEFINE ev == Evicted
           sp == Spilled(ev)
           fg == Forgotten(ev, sp)
           pr == Promoted(ev, sp)
           at == StampAfterPop(ev, sp, pr)
           candidates == (ready \ ev) \cup pr
           lane == (urgentLane \ ev) \cup {g \in pr : tag[g].urgent}
<1>1. /\ Supervisor!Evicted = ev /\ Supervisor!Spilled(ev) = sp
      /\ Supervisor!Forgotten(ev, sp) = fg /\ Supervisor!Promoted(ev, sp) = pr
      /\ Supervisor!OverflowPool(ev) = OverflowPool(ev)
      /\ Supervisor!StampAfterPop(ev, sp, pr) = at
  BY SameMoves, SameStamps
<1>2. Supervisor!Selects(f, candidates, lane, at) <=>
        Selects(f, candidates, lane, at)
  BY SameChoice
<1>3. /\ Supervisor!Cardinality(ev) = Cardinality(ev)
      /\ Supervisor!Cardinality(sp) = Cardinality(sp)
      /\ Supervisor!Cardinality(fg) = Cardinality(fg)
      /\ Supervisor!Cardinality(pr) = Cardinality(pr)
      /\ Supervisor!Frames = Frames
  BY SameOrders
<1> QED
  BY <1>1, <1>2, <1>3
  DEF PopCommitCandidate, Supervisor!PopCommitCandidate, flagVars,
      Supervisor!flagVars

-----------------------------------------------------------------------------
(* What the pipeline holds, by the status of the frame.                    *)

(* The frames a fold may still start with, and those not yet received.     *)
Unfolded == {"none", "received", "prefetching", "prefetched"}

(* The session manager's own books, as far as the pipeline relies on them. *)
TiersOK ==
    /\ status \in [Frames -> Statuses]
    /\ ready \subseteq Frames /\ overflow \subseteq Frames
    /\ consolidation \subseteq Frames
    /\ \A f \in Frames :
          /\ status[f] = "none" <=> f > nextSeq
          /\ f \in ready => status[f] = "ready"
          /\ f \in overflow => status[f] = "overflow"
          /\ f \in consolidation => status[f] \in {"consolidation", "failed"}
          /\ status[f] \in Producing => f \in sessions
          /\ f \in sessions => status[f] # "failed"
          /\ f = inHand => status[f] \in {"deep_processing", "failed"}

QueueOK ==
    /\ \A i \in DOMAIN queue : status[queue[i].seq] = "received"
    /\ \A i, j \in DOMAIN queue : queue[i].seq = queue[j].seq => i = j

SocketsOK ==
    \A s \in Sockets : hand[s] # NoItem =>
        /\ status[hand[s].seq] = "received"
        /\ \A i \in DOMAIN queue : queue[i].seq # hand[s].seq
        /\ \A r \in Sockets : hand[r].seq = hand[s].seq => r = s

WorkersOK ==
    \A w \in Workers : hand[w] # NoItem =>
        /\ pc[w] = "prefetch" => status[hand[w].seq] = "prefetching"
        /\ pc[w] = "slots" => /\ status[hand[w].seq] = "prefetched"
                              /\ prepared[hand[w].seq] = Absent
        /\ status[hand[w].seq] \notin {"none", "received"}
        /\ status[hand[w].seq] = "prefetching" => pc[w] = "prefetch"
        /\ \A v \in Workers : hand[v].seq = hand[w].seq => v = w

PreparedOK ==
    \A f \in Frames :
        /\ prepared[f] = Tombstone => status[f] \notin Unfolded
        /\ prepared[f] \notin {Absent, Tombstone} => status[f] = "prefetched"

DrainOK ==
    /\ \A f \in Frames : f < nextCommit => status[f] \notin Unfolded
    /\ \A t, u \in Tasks :
          pc[t] \in {"loop", "fold"} /\ pc[u] \in {"loop", "fold"} => t = u
    /\ \A t \in Tasks : pc[t] = "fold" =>
          nextCommit - 1 \in Frames /\ status[nextCommit - 1] = "folding"

PlacesOK == QueueOK /\ SocketsOK /\ WorkersOK /\ PreparedOK /\ DrainOK
ContractInv == PipeInv /\ TiersOK /\ PlacesOK

-----------------------------------------------------------------------------
(* What the types give.                                                    *)
LEMMA Typed ==
    ASSUME PipeInv
    PROVE  /\ Frames \subseteq Nat \ {0} /\ NoFrame \notin Frames
           /\ queue \in Seq(Items)
           /\ \A i \in DOMAIN queue : queue[i].seq \in Frames
           /\ \A t \in Tasks : \/ hand[t] = NoItem
                               \/ hand[t] # NoItem /\ hand[t].seq \in Frames
           /\ NoItem.seq = NoFrame
           /\ prepared \in [Frames -> Prepared]
           /\ nextCommit \in 1..(MaxSeq + 1) /\ MaxSeq \in Nat
           /\ hand \in [Tasks -> Items \cup {NoItem}]
           /\ pc \in [Tasks -> SocketPcs \cup WorkerPcs]
           /\ Tasks = Workers \cup Sockets /\ Workers \cap Sockets = {}
           /\ nextSeq \in Nat /\ nextSeq <= MaxSeq /\ sessions \subseteq Frames
           /\ lost \subseteq Frames
<1>1. Frames \subseteq Nat \ {0} /\ NoFrame \notin Frames /\ MaxSeq \in Nat
  BY BoundsAreNat DEF Frames, NoFrame
<1>2. queue \in Seq(Items) /\ prepared \in [Frames -> Prepared]
      /\ nextCommit \in 1..(MaxSeq + 1) /\ hand \in [Tasks -> Items \cup {NoItem}]
      /\ lost \subseteq Frames
  BY DEF PipeInv, PipeTypeOK
<1>3. \A i \in DOMAIN queue : queue[i].seq \in Frames
  <2> SUFFICES ASSUME NEW i \in DOMAIN queue PROVE queue[i].seq \in Frames
    OBVIOUS
  <2>1. queue[i] \in Items
    BY <1>2
  <2> QED
    BY <2>1 DEF Items
<1>4. NoItem.seq = NoFrame
  BY DEF NoItem
<1>5. \A t \in Tasks : \/ hand[t] = NoItem
                       \/ hand[t] # NoItem /\ hand[t].seq \in Frames
  BY <1>2 DEF Items
<1>6. pc \in [Tasks -> SocketPcs \cup WorkerPcs]
  BY DEF PipeInv, PipeTypeOK, SocketPcs, WorkerPcs
<1>7. nextSeq \in Nat /\ nextSeq <= MaxSeq /\ sessions \subseteq Frames
  BY <1>1 DEF PipeInv, CountersOK
<1> QED
  BY <1>1, <1>2, <1>3, <1>4, <1>5, <1>6, <1>7, PipelineAssumption DEF Tasks

-----------------------------------------------------------------------------
(* The methods of the session manager and TiersOK.                         *)

LEMMA MarkStatusTiers ==
    ASSUME TiersOK, NEW f \in Frames, status[f] \in Producing,
           NEW s \in Producing, MarkStatus(f, s), inHand' = inHand
    PROVE  TiersOK' /\ status' = [status EXCEPT ![f] = s]
<1>1. /\ status' = [status EXCEPT ![f] = s]
      /\ UNCHANGED <<sessions, ready, overflow, consolidation, nextSeq>>
  BY DEF TiersOK, MarkStatus, tierVars
<1> QED
  BY <1>1 DEF TiersOK, Producing, Statuses

LEMMA MarkFoldedTiers ==
    ASSUME TiersOK, NEW f \in Frames, status[f] = "folding", NEW t,
           MarkFolded(f, t), inHand' = inHand
    PROVE  TiersOK' /\ status' = [status EXCEPT ![f] = "ready"]
<1>1. /\ status' = [status EXCEPT ![f] = "ready"]
      /\ ready' = ready \cup {f}
      /\ UNCHANGED <<sessions, overflow, consolidation, nextSeq>>
  BY DEF TiersOK, MarkFolded, Producing
<1> QED
  BY <1>1 DEF TiersOK, Producing, Statuses

LEMMA MarkFailedTiers ==
    ASSUME TiersOK, NEW f \in Frames, status[f] # "none", MarkFailed(f),
           inHand' = inHand
    PROVE  /\ TiersOK'
           /\ status' \in {status, [status EXCEPT ![f] = "failed"]}
           /\ status'[f] \notin Unfolded
<1>1. /\ consolidation' = consolidation /\ nextSeq' = nextSeq
      /\ \/ /\ f \in sessions
            /\ status' = [status EXCEPT ![f] = "failed"]
            /\ sessions' = sessions \ {f}
            /\ ready' = ready \ {f} /\ overflow' = overflow \ {f}
         \/ /\ f \notin sessions
            /\ UNCHANGED <<status, sessions, ready, overflow>>
  BY DEF MarkFailed
<1>2. status' \in {status, [status EXCEPT ![f] = "failed"]}
  BY <1>1
<1>3. status'[f] \notin Unfolded
  BY <1>1 DEF TiersOK, Unfolded, Producing
<1>4. TiersOK'
  BY <1>1 DEF TiersOK, Producing, Statuses
<1> QED
  BY <1>2, <1>3, <1>4

(* A frame that is not yet folded, or is being folded, keeps its status,   *)
(* and no other comes to have such a one.                                  *)
Kept == \A f \in Frames :
            \/ status'[f] = status[f]
            \/ {status[f], status'[f]} \cap (Unfolded \cup Producing) = {}

LEMMA MarkCommittedTiers ==
    ASSUME TiersOK, MarkCommitted(inHand), inHand' = NoFrame,
           NoFrame \notin Frames, sessions \subseteq Frames
    PROVE  TiersOK' /\ Kept
<1>1. UNCHANGED <<ready, overflow, consolidation, nextSeq>>
      /\ \/ UNCHANGED <<status, sessions>>
         \/ /\ inHand \in sessions /\ sessions' = sessions \ {inHand}
            /\ status' = [status EXCEPT ![inHand] = "deep_processed"]
  BY DEF MarkCommitted, tierVars
<1>2. inHand \in sessions =>
         inHand \in Frames /\ status[inHand] \in {"deep_processing", "failed"}
  BY DEF TiersOK
<1>3. Kept
  BY <1>1, <1>2 DEF Kept, TiersOK, Unfolded, Producing
<1>4. ASSUME NEW f \in Frames PROVE
          /\ status'[f] = "none" <=> f > nextSeq'
          /\ f \in ready' => status'[f] = "ready"
          /\ f \in overflow' => status'[f] = "overflow"
          /\ f \in consolidation' => status'[f] \in {"consolidation", "failed"}
          /\ status'[f] \in Producing => f \in sessions'
          /\ f \in sessions' => status'[f] # "failed"
          /\ f = inHand' => status'[f] \in {"deep_processing", "failed"}
  BY <1>1, <1>2 DEF TiersOK, Producing
<1> QED
  BY <1>1, <1>3, <1>4 DEF TiersOK, Statuses

LEMMA PopTiers ==
    ASSUME TiersOK, NEW f \in Frames, PopCommitCandidate(f), inHand' = f
    PROVE  TiersOK' /\ Kept
<1> DEFINE ev == Evicted
           sp == Spilled(ev)
           fg == Forgotten(ev, sp)
           pr == Promoted(ev, sp)
           pool == OverflowPool(ev)
<1>1. /\ f \in (ready \ ev) \cup pr
      /\ status' = [g \in Frames |->
           CASE g = f -> "deep_processing"
             [] g # f /\ g \in pr -> "ready"
             [] g # f /\ g \in sp -> "consolidation"
             [] g # f /\ g \in ev /\ g \notin sp \cup pr ->
                  IF config.overflow THEN "overflow" ELSE "coalesced"
             [] OTHER -> status[g]]
      /\ sessions' = sessions \ (fg \cup IF config.overflow THEN {} ELSE ev)
      /\ ready' = ((ready \ ev) \cup pr) \ {f}
      /\ overflow' = pool \ (sp \cup pr)
      /\ consolidation' = (consolidation \cup sp) \ fg
      /\ nextSeq' = nextSeq
  BY DEF PopCommitCandidate
<1>2. /\ ev \subseteq ready /\ sp \subseteq pool
      /\ fg \subseteq consolidation \cup sp /\ pr \subseteq pool \ sp
      /\ pool \subseteq overflow \cup ev
      /\ ~config.overflow => pool = overflow
  BY DEF Evicted, Spilled, Forgotten, Promoted, Take, OverflowPool
<1> HIDE DEF ev, sp, fg, pr, pool
<1>3. ASSUME NEW g \in Frames
      PROVE  status'[g] = IF g = f THEN "deep_processing"
                          ELSE IF g \in pr THEN "ready"
                          ELSE IF g \in sp THEN "consolidation"
                          ELSE IF g \in ev
                          THEN IF config.overflow THEN "overflow"
                                                  ELSE "coalesced"
                          ELSE status[g]
  BY <1>1, <1>2
<1>4. Kept
  BY <1>1, <1>2, <1>3 DEF Kept, TiersOK, Unfolded, Producing
<1>5. status' \in [Frames -> Statuses]
  <2>1. \A g \in Frames : status'[g] \in Statuses
    BY <1>3 DEF TiersOK, Statuses, Producing
  <2> QED
    BY <1>1, <2>1
<1>6. ASSUME NEW g \in Frames PROVE
          /\ status'[g] = "none" <=> g > nextSeq'
          /\ g \in ready' => status'[g] = "ready"
          /\ g \in overflow' => status'[g] = "overflow"
          /\ g \in consolidation' => status'[g] \in {"consolidation", "failed"}
          /\ status'[g] \in Producing => g \in sessions'
          /\ g \in sessions' => status'[g] # "failed"
          /\ g = inHand' => status'[g] \in {"deep_processing", "failed"}
  BY <1>1, <1>2, <1>3 DEF TiersOK, Producing
<1> QED
  BY <1>1, <1>2, <1>4, <1>5, <1>6 DEF TiersOK

-----------------------------------------------------------------------------
(* Where the frames are, through each step.                                *)

LEMMA InitContract == Init => TiersOK /\ PlacesOK
<1> SUFFICES ASSUME Init PROVE TiersOK /\ PlacesOK
  OBVIOUS
<1>1. NoFrame \notin Frames /\ \A f \in Frames : f > 0
  BY BoundsAreNat DEF Frames, NoFrame
<1>2. TiersOK
  BY <1>1 DEF Init, SupInit, TiersOK, Statuses, Producing
<1>3. PlacesOK
  BY <1>1, PipelineAssumption
  DEF Init, SupInit, PlacesOK, QueueOK, SocketsOK, WorkersOK, PreparedOK,
      DrainOK, Tasks, Absent, Tombstone, Frames
<1> QED
  BY <1>2, <1>3

(* The steps of the cycle move no frame the pipeline holds.                *)
LEMMA KeptPlaces ==
    ASSUME PipeInv, TiersOK, PlacesOK, Kept,
           UNCHANGED <<queue, prepared, nextCommit, pc, hand>>
    PROVE  PlacesOK'
<1> USE Typed DEF Kept, Unfolded, Producing
<1>1. QueueOK'
  BY DEF PlacesOK, QueueOK
<1>2. SocketsOK'
  BY DEF PlacesOK, SocketsOK
<1>3. WorkersOK'
  BY DEF PlacesOK, WorkersOK
<1>4. PreparedOK'
  BY DEF PlacesOK, PreparedOK
<1>5. DrainOK'
  BY DEF PlacesOK, DrainOK
<1> QED
  BY <1>1, <1>2, <1>3, <1>4, <1>5 DEF PlacesOK

LEMMA ArriveContract ==
    ASSUME ContractInv, NEW s \in Sockets, Arrive(s)
    PROVE  TiersOK' /\ PlacesOK' /\ UNCHANGED <<supVars, Folding>>
<1>1. /\ UNCHANGED <<supVars, status, ready, overflow, consolidation, nextSeq,
                     sessions, queue, prepared, nextCommit, hand, inHand>>
      /\ pc[s] = "idle" /\ hand[s] = NoItem
  BY DEF Arrive, supVars, tierVars, ContractInv, PipeInv, HandsOK
<1>2. /\ pc'[s] = "arrived"
      /\ \A t \in Tasks \ {s} :
            \/ t \in Workers /\ pc[t] = "dead" /\ pc'[t] = "get"
            \/ pc'[t] = pc[t]
  BY Typed DEF Arrive, Started, Alive, ContractInv, Tasks
<1>3. \A w \in Workers : hand[w] # NoItem => pc'[w] = pc[w]
  BY <1>1, <1>2, Typed DEF ContractInv, PipeInv, HandsOK
<1>4. \A t \in Tasks : \A p \in {"loop", "fold"} : pc'[t] = p <=> pc[t] = p
  BY <1>1, <1>2
<1>5. TiersOK'
  BY <1>1 DEF ContractInv, TiersOK
<1>6. PlacesOK'
  BY <1>1, <1>3, <1>4, Typed
  DEF ContractInv, PlacesOK, QueueOK, SocketsOK, WorkersOK, PreparedOK, DrainOK
<1>7. Folding' = Folding
  BY <1>1, <1>4 DEF Folding
<1> QED
  BY <1>1, <1>5, <1>6, <1>7

LEMMA EnqueueContract ==
    ASSUME ContractInv, NEW s \in Sockets, Enqueue(s)
    PROVE  TiersOK' /\ PlacesOK' /\ Folding' = Folding
<1> DEFINE new == nextSeq + 1
<1>1. /\ pc[s] = "arrived" /\ hand[s] = NoItem /\ new \in Frames
      /\ nextSeq' = new /\ sessions' = sessions \cup {new}
      /\ status' = [status EXCEPT ![new] = "received"]
      /\ pc' = [pc EXCEPT ![s] = "admit"]
      /\ hand' = [hand EXCEPT ![s] = [seq |-> new, gen |-> gen]]
      /\ UNCHANGED <<ready, overflow, consolidation, queue, prepared,
                     nextCommit, inHand>>
  BY Typed
  DEF Enqueue, EnqueueObservation, tierVars, ContractInv, PipeInv, HandsOK,
      Frames
<1>2. status[new] = "none" /\ hand'[s].seq = new /\ hand'[s] # NoItem
  BY <1>1, Typed DEF ContractInv, TiersOK, NoItem
<1> HIDE DEF new
<1>3. TiersOK'
  <2>1. nextSeq' = nextSeq + 1
    BY <1>1 DEF new
  <2> QED
    BY <1>1, <1>2, <2>1, Typed DEF ContractInv, TiersOK, Producing, Statuses, new
<1>4. QueueOK'
  BY <1>1, <1>2, Typed DEF ContractInv, TiersOK, PlacesOK, QueueOK
<1>5. SocketsOK'
  BY <1>1, <1>2, Typed DEF ContractInv, TiersOK, PlacesOK, QueueOK, SocketsOK
<1>6. WorkersOK'
  BY <1>1, <1>2, Typed DEF ContractInv, TiersOK, PlacesOK, WorkersOK
<1>7. PreparedOK'
  BY <1>1, <1>2, Typed DEF ContractInv, TiersOK, PlacesOK, PreparedOK, Unfolded
<1>8. DrainOK'
  BY <1>1, <1>2, Typed DEF ContractInv, TiersOK, PlacesOK, DrainOK, Unfolded
<1>9. Folding' = Folding
  BY <1>1, Typed DEF Folding, ContractInv
<1> QED
  BY <1>3, <1>4, <1>5, <1>6, <1>7, <1>8, <1>9 DEF PlacesOK

(* The head of the queue leaves it: nothing else is queued under its       *)
(* number.                                                                 *)
LEMMA QueueTail ==
    ASSUME PipeInv, QueueOK, queue # <<>>, queue' = Tail(queue)
    PROVE  /\ Head(queue) \in Items /\ Head(queue).seq \in Frames
           /\ status[Head(queue).seq] = "received"
           /\ \A s \in Sockets : SocketsOK /\ hand[s] # NoItem
                                    => hand[s].seq # Head(queue).seq
           /\ \A i \in DOMAIN queue' : /\ queue'[i].seq # Head(queue).seq
                                       /\ i + 1 \in DOMAIN queue
                                       /\ queue'[i] = queue[i + 1]
<1>1. /\ Head(queue) = queue[1] /\ 1 \in DOMAIN queue
      /\ \A i \in DOMAIN queue' : /\ i + 1 \in DOMAIN queue /\ i + 1 # 1
                                  /\ queue'[i] = queue[i + 1]
  BY Typed
<1>2. Head(queue) \in Items
  BY <1>1, Typed
<1> QED
  BY <1>1, <1>2, Typed DEF QueueOK, SocketsOK

LEMMA SameNumber ==
    ASSUME PipeInv, QueueOK, queue' = Tail(queue), queue # <<>>,
           NEW i \in DOMAIN queue', NEW j \in DOMAIN queue',
           queue'[i].seq = queue'[j].seq
    PROVE  i = j
<1>1. i \in Nat /\ j \in Nat
  BY Typed
<1>2. i + 1 \in DOMAIN queue /\ j + 1 \in DOMAIN queue
      /\ queue[i + 1].seq = queue[j + 1].seq
  BY QueueTail
<1>3. i + 1 = j + 1
  BY <1>2 DEF QueueOK
<1> QED
  BY <1>1, <1>3

LEMMA DropOldestContract ==
    ASSUME ContractInv, NEW s \in Sockets, DropOldest(s)
    PROVE  /\ TiersOK' /\ PlacesOK' /\ Folding' = Folding
           /\ Head(queue).seq \in Frames
           /\ status[Head(queue).seq] = "received"
<1> DEFINE f == Head(queue).seq
<1>1. /\ pc[s] = "admit" /\ queue # <<>> /\ queue' = Tail(queue)
      /\ MarkFailed(f) /\ inHand' = inHand
      /\ prepared' = [prepared EXCEPT ![f] = Tombstone]
      /\ pc' = [pc EXCEPT ![s] = "drain"]
      /\ UNCHANGED <<nextCommit, hand>>
  <2>1. queue # <<>>
    BY Typed, PipelineAssumption DEF DropOldest, ContractInv
  <2> QED
    BY <2>1 DEF DropOldest
<1>2. /\ f \in Frames /\ status[f] = "received"
      /\ \A r \in Sockets : hand[r] # NoItem => hand[r].seq # f
      /\ \A i \in DOMAIN queue' : /\ queue'[i].seq # f
                                  /\ i + 1 \in DOMAIN queue
                                  /\ queue'[i] = queue[i + 1]
  BY <1>1, QueueTail DEF ContractInv, PlacesOK
<1> HIDE DEF f
<1>3. /\ TiersOK' /\ status' \in {status, [status EXCEPT ![f] = "failed"]}
      /\ status'[f] \notin Unfolded
  BY <1>1, <1>2, MarkFailedTiers DEF ContractInv
<1>4. /\ \A g \in Frames : g # f => status'[g] = status[g]
      /\ \A g \in Frames : g # f => prepared'[g] = prepared[g]
      /\ prepared'[f] = Tombstone
  BY <1>1, <1>2, <1>3, Typed DEF ContractInv, TiersOK
<1>5. \A t \in Tasks \ {s} : pc'[t] = pc[t]
  BY <1>1, Typed DEF ContractInv
<1>6. pc'[s] = "drain"
  BY <1>1, Typed DEF ContractInv
<1>7. QueueOK'
  <2>1. ASSUME NEW i \in DOMAIN queue' PROVE status'[queue'[i].seq] = "received"
    BY <1>2, <1>4, Typed DEF ContractInv, PlacesOK, QueueOK
  <2>2. ASSUME NEW i \in DOMAIN queue', NEW j \in DOMAIN queue',
               queue'[i].seq = queue'[j].seq
        PROVE  i = j
    BY <1>1, <2>2, SameNumber DEF ContractInv, PlacesOK
  <2> QED
    BY <2>1, <2>2 DEF QueueOK
<1>8. SocketsOK'
  BY <1>1, <1>2, <1>4, Typed DEF ContractInv, PlacesOK, SocketsOK
<1>9. WorkersOK'
  BY <1>1, <1>2, <1>4, <1>5, Typed DEF ContractInv, PlacesOK, WorkersOK
<1>10. PreparedOK'
  BY <1>3, <1>4, Typed
  DEF ContractInv, PlacesOK, PreparedOK, Tombstone, Absent
<1>11. DrainOK'
  <2>1. \A g \in Frames : g < nextCommit => status'[g] \notin Unfolded
    BY <1>3, <1>4 DEF ContractInv, PlacesOK, DrainOK
  <2>2. \A t \in Tasks : pc'[t] \in {"loop", "fold"} => pc'[t] = pc[t]
    BY <1>5, <1>6
  <2>3. nextCommit - 1 \in Frames /\ status[nextCommit - 1] = "folding"
        => status'[nextCommit - 1] = "folding"
    BY <1>2, <1>4
  <2> QED
    BY <1>1, <2>1, <2>2, <2>3 DEF ContractInv, PlacesOK, DrainOK
<1>12. Folding' = Folding
  BY <1>1, <1>5, <1>6 DEF Folding
<1> QED
  BY <1>2, <1>3, <1>7, <1>8, <1>9, <1>10, <1>11, <1>12 DEF PlacesOK, f

(* The steps that leave the session manager alone: they need only keep     *)
(* PlacesOK and what is being folded.                                      *)
Aside == UNCHANGED <<supVars, inHand>>

LEMMA AsideTiers ==
    ASSUME TiersOK, Aside
    PROVE  TiersOK' /\ status' = status
BY DEF Aside, TiersOK, supVars, tierVars

LEMMA PutContract ==
    ASSUME ContractInv, NEW s \in Sockets, Put(s)
    PROVE  TiersOK' /\ PlacesOK' /\ Folding' = Folding
<1>1. /\ pc[s] \in {"put", "admit"} /\ hand[s] \in Items
      /\ queue' = Append(queue, hand[s])
      /\ pc' = [pc EXCEPT ![s] = "idle"]
      /\ hand' = [hand EXCEPT ![s] = NoItem]
      /\ UNCHANGED <<prepared, nextCommit>> /\ Aside
  BY DEF Put, Aside, ContractInv, PipeInv, HandsOK
<1>2. TiersOK' /\ status' = status
  BY <1>1, AsideTiers DEF ContractInv
<1>3. /\ hand[s].seq \in Frames /\ hand[s] # NoItem
      /\ hand'[s] = NoItem /\ pc'[s] = "idle"
      /\ \A t \in Tasks \ {s} : hand'[t] = hand[t] /\ pc'[t] = pc[t]
  BY <1>1, Typed DEF ContractInv, Items
<1>4. \A i \in DOMAIN queue' :
         \/ i \in DOMAIN queue /\ queue'[i] = queue[i]
         \/ i = Len(queue) + 1 /\ queue'[i] = hand[s]
  BY <1>1, Typed DEF ContractInv
<1>5. QueueOK'
  BY <1>2, <1>3, <1>4 DEF ContractInv, PlacesOK, QueueOK, SocketsOK
<1>6. SocketsOK'
  <2>1. ASSUME NEW r \in Sockets, hand'[r] # NoItem
        PROVE  /\ status'[hand'[r].seq] = "received"
               /\ \A i \in DOMAIN queue' : queue'[i].seq # hand'[r].seq
               /\ \A q \in Sockets : hand'[q].seq = hand'[r].seq => q = r
    <3>1. r # s /\ hand'[r] = hand[r] /\ hand[r] # NoItem
          /\ hand[r].seq \in Frames
      BY <1>3, <2>1, Typed DEF ContractInv
    <3>2. hand[r].seq # hand[s].seq
      BY <3>1 DEF ContractInv, PlacesOK, SocketsOK
    <3>3. \A i \in DOMAIN queue' : queue'[i].seq # hand[r].seq
      BY <1>4, <3>1, <3>2 DEF ContractInv, PlacesOK, SocketsOK
    <3>4. \A q \in Sockets : hand'[q].seq = hand[r].seq => q = r
      BY <1>3, <3>1, Typed DEF ContractInv, PlacesOK, SocketsOK
    <3> QED
      BY <1>2, <3>1, <3>3, <3>4 DEF ContractInv, PlacesOK, SocketsOK
  <2> QED
    BY <2>1 DEF SocketsOK
<1>7. WorkersOK'
  BY <1>1, <1>2, <1>3, Typed DEF ContractInv, PlacesOK, WorkersOK
<1>8. PreparedOK'
  BY <1>1, <1>2 DEF ContractInv, PlacesOK, PreparedOK
<1>9. DrainOK'
  BY <1>1, <1>2, <1>3 DEF ContractInv, PlacesOK, DrainOK
<1>10. Folding' = Folding
  BY <1>1, <1>3 DEF Folding
<1> QED
  BY <1>2, <1>5, <1>6, <1>7, <1>8, <1>9, <1>10 DEF PlacesOK

LEMMA GetContract ==
    ASSUME ContractInv, NEW w \in Workers, Get(w)
    PROVE  /\ TiersOK' /\ PlacesOK' /\ Folding' = Folding
           /\ Head(queue).seq \in Frames
           /\ status[Head(queue).seq] = "received"
<1> DEFINE f == Head(queue).seq
<1>1. /\ pc[w] = "get" /\ queue # <<>> /\ queue' = Tail(queue)
      /\ hand[w] = NoItem
      /\ hand' = [hand EXCEPT ![w] = Head(queue)]
      /\ MarkStatus(f, "prefetching") /\ inHand' = inHand
      /\ pc' = [pc EXCEPT ![w] = "prefetch"]
      /\ UNCHANGED <<prepared, nextCommit>>
  BY DEF Get, ContractInv, PipeInv, HandsOK
<1>2. /\ Head(queue) \in Items /\ f \in Frames /\ status[f] = "received"
      /\ \A r \in Sockets : hand[r] # NoItem => hand[r].seq # f
      /\ \A i \in DOMAIN queue' : /\ queue'[i].seq # f
                                  /\ i + 1 \in DOMAIN queue
                                  /\ queue'[i] = queue[i + 1]
  BY <1>1, QueueTail DEF ContractInv, PlacesOK
<1>3. hand'[w].seq = f /\ hand'[w] # NoItem /\ pc'[w] = "prefetch"
      /\ \A t \in Tasks \ {w} : hand'[t] = hand[t] /\ pc'[t] = pc[t]
  BY <1>1, <1>2, Typed DEF ContractInv
<1> HIDE DEF f
<1>4. TiersOK' /\ status' = [status EXCEPT ![f] = "prefetching"]
  BY <1>1, <1>2, MarkStatusTiers DEF ContractInv, Producing
<1>5. /\ \A g \in Frames : g # f => status'[g] = status[g]
      /\ status'[f] = "prefetching"
  BY <1>2, <1>4 DEF ContractInv, TiersOK
<1>6. QueueOK'
  <2>1. ASSUME NEW i \in DOMAIN queue' PROVE status'[queue'[i].seq] = "received"
    BY <1>2, <1>5, Typed DEF ContractInv, PlacesOK, QueueOK
  <2>2. ASSUME NEW i \in DOMAIN queue', NEW j \in DOMAIN queue',
               queue'[i].seq = queue'[j].seq
        PROVE  i = j
    BY <1>1, <2>2, SameNumber DEF ContractInv, PlacesOK
  <2> QED
    BY <2>1, <2>2 DEF QueueOK
<1>7. SocketsOK'
  BY <1>1, <1>2, <1>3, <1>5, Typed DEF ContractInv, PlacesOK, SocketsOK
<1>8. WorkersOK'
  <2>1. ASSUME NEW v \in Workers \ {w}
        PROVE  /\ hand'[v] = hand[v] /\ pc'[v] = pc[v]
               /\ hand[v].seq # f
               /\ hand[v] # NoItem => hand[v].seq \in Frames
    <3>1. v \in Tasks /\ v # w
      BY DEF Tasks
    <3>2. hand'[v] = hand[v] /\ pc'[v] = pc[v]
      BY <1>3, <3>1
    <3>3. hand[v] = NoItem => hand[v].seq # f
      BY <1>2, Typed DEF ContractInv
    <3>4. hand[v] # NoItem => hand[v].seq \in Frames /\ hand[v].seq # f
      BY <1>2, <3>1, Typed DEF ContractInv, PlacesOK, WorkersOK
    <3> QED
      BY <3>2, <3>3, <3>4
  <2>2. ASSUME NEW v \in Workers \ {w}, hand'[v] # NoItem
        PROVE  /\ pc'[v] = "prefetch" => status'[hand'[v].seq] = "prefetching"
               /\ pc'[v] = "slots" => /\ status'[hand'[v].seq] = "prefetched"
                                      /\ prepared'[hand'[v].seq] = Absent
               /\ status'[hand'[v].seq] \notin {"none", "received"}
               /\ status'[hand'[v].seq] = "prefetching" => pc'[v] = "prefetch"
               /\ \A u \in Workers : hand'[u].seq = hand'[v].seq => u = v
    <3>1. /\ hand'[v] = hand[v] /\ pc'[v] = pc[v] /\ hand[v] # NoItem
          /\ hand[v].seq # f /\ hand[v].seq \in Frames
      BY <2>1, <2>2
    <3>2. status'[hand[v].seq] = status[hand[v].seq] /\ prepared' = prepared
      BY <1>1, <1>5, <3>1
    <3>3. ASSUME NEW u \in Workers, hand'[u].seq = hand[v].seq PROVE u = v
      <4>1. u # w
        BY <1>3, <3>1, <3>3
      <4>2. hand[u].seq = hand[v].seq
        BY <2>1, <3>3, <4>1
      <4> QED
        BY <3>1, <4>2 DEF ContractInv, PlacesOK, WorkersOK
    <3> QED
      BY <3>1, <3>2, <3>3 DEF ContractInv, PlacesOK, WorkersOK
  <2>3. ASSUME NEW u \in Workers, hand'[u].seq = f PROVE u = w
    BY <2>1, <2>3
  <2> QED
    BY <1>3, <1>5, <2>2, <2>3 DEF WorkersOK
<1>9. PreparedOK'
  BY <1>1, <1>2, <1>5 DEF ContractInv, PlacesOK, PreparedOK, Unfolded
<1>10. DrainOK'
  BY <1>1, <1>2, <1>3, <1>5, Typed DEF ContractInv, PlacesOK, DrainOK, Unfolded
<1>11. Folding' = Folding
  BY <1>1, <1>3 DEF Folding
<1> QED
  BY <1>2, <1>4, <1>6, <1>7, <1>8, <1>9, <1>10, <1>11 DEF PlacesOK, f

LEMMA PrefetchedContract ==
    ASSUME ContractInv, NEW w \in Workers, Prefetched(w)
    PROVE  /\ TiersOK' /\ PlacesOK' /\ Folding' = Folding
           /\ hand[w].seq \in Frames
           /\ status[hand[w].seq] = "prefetching"
<1> DEFINE f == hand[w].seq
<1>1. /\ pc[w] = "prefetch" /\ hand[w] \in Items
      /\ MarkStatus(f, "prefetched") /\ inHand' = inHand
      /\ pc' = [pc EXCEPT ![w] = "slots"]
      /\ UNCHANGED <<queue, prepared, nextCommit, hand>>
  BY DEF Prefetched, ContractInv, PipeInv, HandsOK
<1>2. f \in Frames /\ hand[w] # NoItem /\ status[f] = "prefetching"
  BY <1>1, Typed DEF ContractInv, PlacesOK, WorkersOK, Items
<1>3. pc'[w] = "slots" /\ \A t \in Tasks \ {w} : pc'[t] = pc[t]
  BY <1>1, Typed DEF ContractInv
<1>4. prepared[f] = Absent
  BY <1>2 DEF ContractInv, PlacesOK, PreparedOK, Unfolded
<1>5. \A v \in Workers \ {w} : hand[v].seq # f
  BY <1>2 DEF ContractInv, PlacesOK, WorkersOK
<1>6. hand[w].seq = f
  OBVIOUS
<1> HIDE DEF f
<1>7. TiersOK' /\ status' = [status EXCEPT ![f] = "prefetched"]
  BY <1>1, <1>2, MarkStatusTiers DEF ContractInv, Producing
<1>8. /\ \A g \in Frames : g # f => status'[g] = status[g]
      /\ status'[f] = "prefetched"
  BY <1>2, <1>7 DEF ContractInv, TiersOK
<1>9. QueueOK'
  BY <1>1, <1>2, <1>8, Typed DEF ContractInv, PlacesOK, QueueOK
<1>10. SocketsOK'
  BY <1>1, <1>2, <1>8, Typed DEF ContractInv, PlacesOK, SocketsOK
<1>11. WorkersOK'
  BY <1>1, <1>2, <1>3, <1>4, <1>5, <1>6, <1>8, Typed
  DEF ContractInv, PlacesOK, WorkersOK
<1>12. PreparedOK'
  BY <1>1, <1>4, <1>8 DEF ContractInv, PlacesOK, PreparedOK, Absent, Tombstone
<1>13. DrainOK'
  BY <1>1, <1>2, <1>3, <1>8, Typed DEF ContractInv, PlacesOK, DrainOK, Unfolded
<1>14. Folding' = Folding
  BY <1>1, <1>3 DEF Folding
<1> QED
  BY <1>2, <1>7, <1>9, <1>10, <1>11, <1>12, <1>13, <1>14 DEF PlacesOK, f

LEMMA PrepareContract ==
    ASSUME ContractInv, NEW w \in Workers, Prepare(w)
    PROVE  TiersOK' /\ PlacesOK' /\ Folding' = Folding
<1> DEFINE f == hand[w].seq
<1>1. /\ pc[w] = "slots" /\ hand[w] \in Items
      /\ prepared' = [prepared EXCEPT ![f] = hand[w].gen]
      /\ pc' = [pc EXCEPT ![w] = "drain"]
      /\ UNCHANGED <<queue, nextCommit, hand>> /\ Aside
  BY DEF Prepare, Aside, ContractInv, PipeInv, HandsOK
<1>2. /\ f \in Frames /\ hand[w] # NoItem /\ status[f] = "prefetched"
      /\ hand[w].gen \in Nat
  BY <1>1, Typed, BoundsAreNat DEF ContractInv, PlacesOK, WorkersOK, Items
<1>3. TiersOK' /\ status' = status
  BY <1>1, AsideTiers DEF ContractInv
<1>4. /\ pc'[w] = "drain" /\ \A t \in Tasks \ {w} : pc'[t] = pc[t]
      /\ prepared'[f] = hand[w].gen
      /\ \A g \in Frames \ {f} : prepared'[g] = prepared[g]
  BY <1>1, <1>2, Typed DEF ContractInv
<1>5. \A v \in Workers \ {w} : hand[v].seq # f
  BY <1>2 DEF ContractInv, PlacesOK, WorkersOK
<1>6. QueueOK' /\ SocketsOK'
  BY <1>1, <1>3 DEF ContractInv, PlacesOK, QueueOK, SocketsOK
<1>7. WorkersOK'
  BY <1>1, <1>3, <1>4, <1>5, Typed DEF ContractInv, PlacesOK, WorkersOK
<1>8. PreparedOK'
  <2> HIDE DEF f
  <2> QED
    BY <1>2, <1>3, <1>4 DEF ContractInv, PlacesOK, PreparedOK, Tombstone
<1>9. DrainOK'
  BY <1>1, <1>3, <1>4 DEF ContractInv, PlacesOK, DrainOK
<1>10. Folding' = Folding
  BY <1>1, <1>4 DEF Folding
<1> QED
  BY <1>3, <1>6, <1>7, <1>8, <1>9, <1>10 DEF PlacesOK

-----------------------------------------------------------------------------
(* The drain.  One task at a time has the commit lock.                     *)
LEMMA OneDrains ==
    ASSUME ContractInv, NEW t \in Tasks,
           MayDrain(t) \/ pc[t] = "fold"
    PROVE  /\ \A u \in Tasks \ {t} : pc[u] \notin {"loop", "fold"}
           /\ pc[t] \in {"loop", "drain", "fold"}
           /\ MayDrain(t) => Folding = NoFrame
           /\ pc[t] = "fold" => /\ Folding = nextCommit - 1
                                /\ nextCommit - 1 \in Frames
                                /\ status[nextCommit - 1] = "folding"
<1>1. \A u \in Tasks \ {t} : pc[u] \notin {"loop", "fold"}
  BY DEF ContractInv, PlacesOK, DrainOK, MayDrain, CommitLockHeld
<1> QED
  BY <1>1 DEF MayDrain, Folding, ContractInv, PlacesOK, DrainOK

(* A task that gives its item up, or keeps it, disturbs no other.          *)
LEMMA OneStepsAside ==
    ASSUME ContractInv, NEW t \in Tasks,
           pc[t] # "prefetch", pc'[t] \notin {"prefetch", "slots"},
           hand'[t] \in {hand[t], NoItem},
           \A u \in Tasks \ {t} : pc'[u] = pc[u] /\ hand'[u] = hand[u],
           UNCHANGED <<status, queue>>,
           \A f \in Frames : prepared[f] = Absent => prepared'[f] = Absent
    PROVE  QueueOK' /\ SocketsOK' /\ WorkersOK'
<1>1. QueueOK'
  BY DEF ContractInv, PlacesOK, QueueOK
<1>2. /\ \A u \in Tasks : hand'[u] # NoItem =>
            hand'[u] = hand[u] /\ hand[u].seq \in Frames
      /\ \A u \in Tasks : hand'[u].seq \in Frames => hand'[u] = hand[u]
      /\ Workers \subseteq Tasks /\ Sockets \subseteq Tasks
  BY Typed DEF ContractInv
<1>3. SocketsOK'
  BY <1>2 DEF ContractInv, PlacesOK, SocketsOK
<1>4. WorkersOK'
  <2> SUFFICES ASSUME NEW w \in Workers, hand'[w] # NoItem
      PROVE  /\ pc'[w] = "prefetch" => status[hand'[w].seq] = "prefetching"
             /\ pc'[w] = "slots" => /\ status[hand'[w].seq] = "prefetched"
                                    /\ prepared'[hand'[w].seq] = Absent
             /\ status[hand'[w].seq] \notin {"none", "received"}
             /\ status[hand'[w].seq] = "prefetching" => pc'[w] = "prefetch"
             /\ \A v \in Workers : hand'[v].seq = hand'[w].seq => v = w
    BY DEF WorkersOK
  <2>1. hand'[w] = hand[w] /\ hand[w].seq \in Frames /\ hand[w] # NoItem
    BY <1>2
  <2>2. \A v \in Workers : hand'[v].seq = hand[w].seq => v = w
    BY <1>2, <2>1 DEF ContractInv, PlacesOK, WorkersOK
  <2>3. w # t => pc'[w] = pc[w]
    BY <1>2
  <2> QED
    BY <2>1, <2>2, <2>3 DEF ContractInv, PlacesOK, WorkersOK
<1> QED
  BY <1>1, <1>3, <1>4

LEMMA StartFoldContract ==
    ASSUME ContractInv, NEW t \in Tasks, StartFold(t)
    PROVE  /\ TiersOK' /\ PlacesOK' /\ Folding = NoFrame
           /\ Folding' \in Frames /\ status[Folding'] = "prefetched"
           /\ MarkStatus(Folding', "folding")
           /\ \A g \in 1..(Folding' - 1) :
                 status[g] \notin {"received", "prefetching", "prefetched"}
<1>1. PICK next \in Frames :
         /\ IsNext(next) /\ prepared[next] # Absent
         /\ prepared' = [f \in Frames |-> IF f \in nextCommit..next
                                          THEN Absent ELSE prepared[f]]
         /\ nextCommit' = next + 1
         /\ MarkStatus(next, "folding")
  BY DEF StartFold
<1>2. /\ MayDrain(t) /\ pc' = [pc EXCEPT ![t] = "fold"]
      /\ UNCHANGED <<queue, hand, inHand>>
  BY DEF StartFold
<1>3. /\ next \in Nat /\ next <= MaxSeq /\ nextCommit \in Nat /\ 1 <= nextCommit
      /\ Frames = 1..MaxSeq /\ MaxSeq \in Nat
  BY Typed DEF ContractInv, Frames
<1>4. /\ nextCommit <= next /\ prepared[next] # Tombstone
      /\ \A f \in nextCommit..(next - 1) : prepared[f] = Tombstone
  BY <1>1, <1>3 DEF IsNext
<1>5. status[next] = "prefetched"
  BY <1>1, <1>4 DEF ContractInv, PlacesOK, PreparedOK
<1>6. \A f \in Frames : f < next => status[f] \notin Unfolded
  <2> SUFFICES ASSUME NEW f \in Frames, f < next PROVE status[f] \notin Unfolded
    OBVIOUS
  <2>1. CASE f < nextCommit
    BY <2>1 DEF ContractInv, PlacesOK, DrainOK
  <2>2. CASE nextCommit <= f
    <3>1. prepared[f] = Tombstone
      BY <1>3, <1>4, <2>2
    <3> QED
      BY <3>1 DEF ContractInv, PlacesOK, PreparedOK
  <2> QED
    BY <1>3, <2>1, <2>2
<1>7. TiersOK' /\ status' = [status EXCEPT ![next] = "folding"]
  BY <1>1, <1>2, <1>5, MarkStatusTiers DEF ContractInv, Producing
<1>8. /\ \A g \in Frames : g # next => status'[g] = status[g]
      /\ status'[next] = "folding"
  BY <1>7 DEF ContractInv, TiersOK
<1>9. /\ pc'[t] = "fold" /\ \A u \in Tasks \ {t} : pc'[u] = pc[u]
      /\ \A u \in Tasks \ {t} : pc[u] \notin {"loop", "fold"}
      /\ pc[t] \in {"loop", "drain"} /\ Folding = NoFrame
  BY <1>2, OneDrains, Typed DEF ContractInv, MayDrain
<1>10. QueueOK'
  BY <1>2, <1>5, <1>8, Typed DEF ContractInv, PlacesOK, QueueOK
<1>11. SocketsOK'
  BY <1>2, <1>5, <1>8, Typed DEF ContractInv, PlacesOK, SocketsOK
<1>12. WorkersOK'
  <2> SUFFICES ASSUME NEW w \in Workers, hand[w] # NoItem
      PROVE  /\ pc'[w] = "prefetch" => status'[hand[w].seq] = "prefetching"
             /\ pc'[w] = "slots" => /\ status'[hand[w].seq] = "prefetched"
                                    /\ prepared'[hand[w].seq] = Absent
             /\ status'[hand[w].seq] \notin {"none", "received"}
             /\ status'[hand[w].seq] = "prefetching" => pc'[w] = "prefetch"
             /\ \A v \in Workers : hand[v].seq = hand[w].seq => v = w
    BY <1>2 DEF WorkersOK
  <2>1. hand[w].seq \in Frames /\ w \in Tasks
    BY Typed DEF ContractInv
  <2>2. pc'[w] \in {"prefetch", "slots"} => pc'[w] = pc[w]
    BY <1>9, <2>1
  <2>3. pc[w] = "prefetch" => pc'[w] = "prefetch"
    BY <1>9, <2>1
  <2>4. CASE hand[w].seq = next
    <3>1. pc[w] \notin {"prefetch", "slots"}
      BY <1>1, <1>5, <2>4 DEF ContractInv, PlacesOK, WorkersOK
    <3> QED
      BY <1>8, <2>2, <2>4, <3>1 DEF ContractInv, PlacesOK, WorkersOK
  <2>5. CASE hand[w].seq # next
    <3>1. status'[hand[w].seq] = status[hand[w].seq]
      BY <1>8, <2>1, <2>5
    <3>2. prepared[hand[w].seq] = Absent => prepared'[hand[w].seq] = Absent
      BY <1>1, <2>1
    <3> QED
      BY <2>2, <2>3, <3>1, <3>2 DEF ContractInv, PlacesOK, WorkersOK
  <2> QED
    BY <2>4, <2>5
<1>13. PreparedOK'
  <2> SUFFICES ASSUME NEW f \in Frames
      PROVE  /\ prepared'[f] = Tombstone => status'[f] \notin Unfolded
             /\ prepared'[f] \notin {Absent, Tombstone}
                   => status'[f] = "prefetched"
    BY DEF PreparedOK
  <2>1. f = next => prepared'[f] = Absent
    BY <1>1, <1>3, <1>4
  <2>2. prepared'[f] \in {Absent, prepared[f]}
    BY <1>1
  <2> QED
    BY <1>8, <2>1, <2>2
    DEF ContractInv, PlacesOK, PreparedOK, Absent, Tombstone
<1>14. DrainOK'
  <2>1. \A f \in Frames : f < nextCommit' => status'[f] \notin Unfolded
    BY <1>1, <1>3, <1>6, <1>8 DEF Unfolded
  <2>2. nextCommit' - 1 = next
    BY <1>1, <1>3
  <2> QED
    BY <1>8, <1>9, <2>1, <2>2 DEF DrainOK
<1>15. Folding' = next
  BY <1>1, <1>3, <1>9 DEF Folding
<1>16. \A g \in 1..(next - 1) :
          status[g] \notin {"received", "prefetching", "prefetched"}
  BY <1>3, <1>6 DEF Unfolded
<1> QED
  BY <1>1, <1>5, <1>7, <1>9, <1>10, <1>11, <1>12, <1>13, <1>14, <1>15, <1>16
  DEF PlacesOK

LEMMA EndDrainContract ==
    ASSUME ContractInv, NEW t \in Tasks, EndDrain(t)
    PROVE  TiersOK' /\ PlacesOK' /\ Folding' = Folding
<1>1. PICK next \in 1..(MaxSeq + 1) :
         /\ IsNext(next)
         /\ prepared' = [f \in Frames |-> IF f \in nextCommit..(next - 1)
                                          THEN Absent ELSE prepared[f]]
         /\ nextCommit' = next
  BY DEF EndDrain
<1>2. /\ MayDrain(t) /\ queue' = queue /\ Aside
      /\ pc'[t] \in {"get", "put"} /\ hand'[t] \in {hand[t], NoItem}
      /\ \A u \in Tasks \ {t} : pc'[u] = pc[u] /\ hand'[u] = hand[u]
  BY Typed DEF EndDrain, Aside, ContractInv
<1>3. TiersOK' /\ status' = status
  BY <1>2, AsideTiers DEF ContractInv
<1>4. /\ \A u \in Tasks \ {t} : pc[u] \notin {"loop", "fold"}
      /\ pc[t] \in {"loop", "drain", "fold"} /\ Folding = NoFrame
  BY <1>2, OneDrains
<1>5. \A f \in Frames : prepared'[f] \in {Absent, prepared[f]}
  BY <1>1
<1>6. QueueOK' /\ SocketsOK' /\ WorkersOK'
  BY <1>2, <1>3, <1>4, <1>5, OneStepsAside
<1>7. PreparedOK'
  BY <1>3, <1>5 DEF ContractInv, PlacesOK, PreparedOK, Absent, Tombstone
<1>8. DrainOK'
  <2>1. /\ MaxSeq \in Nat /\ nextCommit \in Nat /\ next \in Nat
        /\ Frames \subseteq Nat
    BY Typed DEF ContractInv
  <2>2. \A f \in Frames : f < next => status[f] \notin Unfolded
    <3> SUFFICES ASSUME NEW f \in Frames, f < next
                 PROVE  status[f] \notin Unfolded
      OBVIOUS
    <3>1. CASE f < nextCommit
      BY <3>1 DEF ContractInv, PlacesOK, DrainOK
    <3>2. CASE nextCommit <= f
      <4>1. prepared[f] = Tombstone
        BY <1>1, <2>1, <3>2 DEF IsNext
      <4> QED
        BY <4>1 DEF ContractInv, PlacesOK, PreparedOK
    <3> QED
      BY <2>1, <3>1, <3>2
  <2> QED
    BY <1>1, <1>2, <1>3, <1>4, <2>2 DEF DrainOK
<1>9. Folding' = NoFrame
  BY <1>2, <1>4 DEF Folding
<1> QED
  BY <1>3, <1>4, <1>6, <1>7, <1>8, <1>9 DEF PlacesOK

LEMMA FinishFoldContract ==
    ASSUME ContractInv, NEW t \in Tasks, FinishFold(t)
    PROVE  /\ TiersOK' /\ PlacesOK' /\ Folding \in Frames
           /\ Folding' = NoFrame
           /\ \E tg \in Tags : MarkFolded(Folding, tg)
<1> DEFINE f == nextCommit - 1
<1>1. /\ pc[t] = "fold" /\ inHand' = inHand
      /\ pc' = [pc EXCEPT ![t] = "loop"]
      /\ UNCHANGED <<queue, prepared, nextCommit, hand>>
  BY DEF FinishFold
<1>2. PICK tg \in Tags : MarkFolded(f, tg)
  BY DEF FinishFold
<1>3. /\ Folding = f /\ f \in Frames /\ status[f] = "folding"
      /\ \A u \in Tasks \ {t} : pc[u] \notin {"loop", "fold"}
  BY <1>1, OneDrains
<1> HIDE DEF f
<1>4. TiersOK' /\ status' = [status EXCEPT ![f] = "ready"]
  BY <1>1, <1>2, <1>3, MarkFoldedTiers DEF ContractInv
<1>5. /\ \A g \in Frames : g # f => status'[g] = status[g]
      /\ status'[f] = "ready"
  BY <1>3, <1>4 DEF ContractInv, TiersOK
<1>6. pc'[t] = "loop" /\ \A u \in Tasks \ {t} : pc'[u] = pc[u]
  BY <1>1, Typed DEF ContractInv
<1>7. QueueOK'
  BY <1>1, <1>3, <1>5, Typed DEF ContractInv, PlacesOK, QueueOK
<1>8. SocketsOK'
  BY <1>1, <1>3, <1>5, Typed DEF ContractInv, PlacesOK, SocketsOK
<1>9. WorkersOK'
  <2> SUFFICES ASSUME NEW w \in Workers, hand[w] # NoItem
      PROVE  /\ pc'[w] = "prefetch" => status'[hand[w].seq] = "prefetching"
             /\ pc'[w] = "slots" => /\ status'[hand[w].seq] = "prefetched"
                                    /\ prepared'[hand[w].seq] = Absent
             /\ status'[hand[w].seq] \notin {"none", "received"}
             /\ status'[hand[w].seq] = "prefetching" => pc'[w] = "prefetch"
             /\ \A v \in Workers : hand[v].seq = hand[w].seq => v = w
    BY <1>1 DEF WorkersOK
  <2>1. hand[w].seq \in Frames /\ w \in Tasks
    BY Typed DEF ContractInv
  <2>2. /\ pc'[w] \in {"prefetch", "slots"} => pc'[w] = pc[w]
        /\ pc[w] = "prefetch" => pc'[w] = "prefetch"
    BY <1>1, <1>6, <2>1
  <2>3. CASE hand[w].seq = f
    <3>1. pc[w] \notin {"prefetch", "slots"}
      BY <1>3, <2>3 DEF ContractInv, PlacesOK, WorkersOK
    <3> QED
      BY <1>5, <2>2, <2>3, <3>1 DEF ContractInv, PlacesOK, WorkersOK
  <2>4. CASE hand[w].seq # f
    <3>1. status'[hand[w].seq] = status[hand[w].seq] /\ prepared' = prepared
      BY <1>1, <1>5, <2>1, <2>4
    <3> QED
      BY <2>2, <3>1 DEF ContractInv, PlacesOK, WorkersOK
  <2> QED
    BY <2>3, <2>4
<1>10. PreparedOK'
  BY <1>1, <1>3, <1>5 DEF ContractInv, PlacesOK, PreparedOK, Unfolded
<1>11. DrainOK'
  <2>1. \A g \in Frames : g < nextCommit => status'[g] \notin Unfolded
    BY <1>3, <1>5 DEF ContractInv, PlacesOK, DrainOK, Unfolded
  <2> QED
    BY <1>1, <1>3, <1>6, <2>1 DEF DrainOK
<1>12. Folding' = NoFrame
  BY <1>3, <1>6 DEF Folding
<1> QED
  BY <1>2, <1>3, <1>4, <1>7, <1>8, <1>9, <1>10, <1>11, <1>12 DEF PlacesOK

(* A fold that raises: the worker gives up its own frame.                  *)
LEMMA FoldRaisesContract ==
    ASSUME ContractInv, NEW w \in Workers, FoldRaises(w)
    PROVE  /\ TiersOK' /\ PlacesOK' /\ Folding \in Frames
           /\ Folding' = NoFrame
           /\ hand[w].seq \in Frames
           /\ status[hand[w].seq] \notin {"none", "received", "prefetching"}
           /\ MarkFailed(hand[w].seq)
           /\ lost' = IF hand[w].seq = Folding THEN lost ELSE lost \cup {Folding}
<1> DEFINE f == nextCommit - 1
           g == hand[w].seq
<1>1. /\ pc[w] = "fold" /\ inHand' = inHand /\ MarkFailed(g)
      /\ prepared' = [prepared EXCEPT ![g] = Tombstone]
      /\ pc' = [pc EXCEPT ![w] = "drain"]
      /\ lost' = IF g = f THEN lost ELSE Interrupted(w)
      /\ UNCHANGED <<queue, nextCommit, hand>>
  BY DEF FoldRaises
<1>2. /\ Folding = f /\ f \in Frames /\ status[f] = "folding" /\ w \in Tasks
      /\ \A u \in Tasks \ {w} : pc[u] \notin {"loop", "fold"}
  BY <1>1, OneDrains DEF Tasks
<1>3. lost' = IF g = f THEN lost ELSE lost \cup {f}
  BY <1>1, <1>2 DEF Interrupted, ContractInv, TiersOK, Producing
<1>4. hand[w] \in Items /\ g \in Frames /\ hand[w] # NoItem
  BY <1>1, Typed DEF ContractInv, PipeInv, HandsOK, Items
<1>5. status[g] \notin {"none", "received", "prefetching"}
  BY <1>1, <1>4 DEF ContractInv, PlacesOK, WorkersOK
<1>6. \A v \in Workers \ {w} : hand[v].seq # g
  BY <1>4 DEF ContractInv, PlacesOK, WorkersOK
<1>7. hand[w].seq = g
  OBVIOUS
<1> HIDE DEF f, g
<1>8. /\ TiersOK' /\ status' \in {status, [status EXCEPT ![g] = "failed"]}
      /\ status'[g] \notin Unfolded
  BY <1>1, <1>4, <1>5, MarkFailedTiers DEF ContractInv
<1>9. /\ \A h \in Frames : h # g => status'[h] = status[h]
      /\ \A h \in Frames : h # g => prepared'[h] = prepared[h]
      /\ prepared'[g] = Tombstone
  BY <1>1, <1>4, <1>8, Typed DEF ContractInv, TiersOK
<1>10. pc'[w] = "drain" /\ \A u \in Tasks \ {w} : pc'[u] = pc[u]
  BY <1>1, Typed DEF ContractInv
<1>11. QueueOK'
  <2>1. ASSUME NEW i \in DOMAIN queue
        PROVE  status'[queue[i].seq] = "received"
    <3>1. queue[i].seq \in Frames /\ status[queue[i].seq] = "received"
      BY Typed DEF ContractInv, PlacesOK, QueueOK
    <3> QED
      BY <1>5, <1>9, <3>1
  <2> QED
    BY <1>1, <2>1 DEF ContractInv, PlacesOK, QueueOK
<1>12. SocketsOK'
  BY <1>1, <1>5, <1>9, Typed DEF ContractInv, PlacesOK, SocketsOK
<1>13. WorkersOK'
  <2> SUFFICES ASSUME NEW v \in Workers, hand[v] # NoItem
      PROVE  /\ pc'[v] = "prefetch" => status'[hand[v].seq] = "prefetching"
             /\ pc'[v] = "slots" => /\ status'[hand[v].seq] = "prefetched"
                                    /\ prepared'[hand[v].seq] = Absent
             /\ status'[hand[v].seq] \notin {"none", "received"}
             /\ status'[hand[v].seq] = "prefetching" => pc'[v] = "prefetch"
             /\ \A u \in Workers : hand[u].seq = hand[v].seq => u = v
    BY <1>1 DEF WorkersOK
  <2>1. hand[v].seq \in Frames /\ v \in Tasks
    BY Typed DEF ContractInv
  <2>2. CASE v = w
    BY <1>7, <1>8, <1>10, <2>2
    DEF ContractInv, PlacesOK, WorkersOK, Unfolded
  <2>3. CASE v # w
    <3>1. hand[v].seq # g /\ pc'[v] = pc[v]
      BY <1>6, <1>10, <2>1, <2>3
    <3>2. /\ status'[hand[v].seq] = status[hand[v].seq]
          /\ prepared'[hand[v].seq] = prepared[hand[v].seq]
      BY <1>9, <2>1, <3>1
    <3> QED
      BY <3>1, <3>2 DEF ContractInv, PlacesOK, WorkersOK
  <2> QED
    BY <2>2, <2>3
<1>14. PreparedOK'
  BY <1>8, <1>9 DEF ContractInv, PlacesOK, PreparedOK
<1>15. DrainOK'
  <2>1. \A h \in Frames : h < nextCommit => status'[h] \notin Unfolded
    BY <1>8, <1>9 DEF ContractInv, PlacesOK, DrainOK
  <2> QED
    BY <1>1, <1>2, <1>10, <2>1 DEF DrainOK
<1>16. Folding' = NoFrame
  BY <1>2, <1>10 DEF Folding
<1> QED
  BY <1>1, <1>2, <1>3, <1>4, <1>5, <1>8, <1>11, <1>12, <1>13, <1>14, <1>15,
     <1>16
  DEF PlacesOK, g

(* A fold that raises and ends its task.                                   *)
LEMMA TaskEndsContract ==
    ASSUME ContractInv, NEW t \in Tasks,
           \/ t \in Workers /\ WorkerDies(t)
           \/ t \in Sockets /\ SocketFoldRaises(t)
    PROVE  /\ TiersOK' /\ PlacesOK' /\ Folding \in Frames
           /\ Folding' = NoFrame /\ UNCHANGED supVars
           /\ lost' = lost \cup {Folding}
<1> DEFINE f == nextCommit - 1
<1>1. /\ pc[t] = "fold" /\ Aside /\ lost' = Interrupted(t)
      /\ pc'[t] \in {"dead", "idle"} /\ hand'[t] = NoItem
      /\ \A u \in Tasks \ {t} : pc'[u] = pc[u] /\ hand'[u] = hand[u]
      /\ UNCHANGED <<queue, prepared, nextCommit>>
  BY Typed DEF WorkerDies, SocketFoldRaises, Aside, ContractInv
<1>2. /\ Folding = f /\ f \in Frames /\ status[f] = "folding"
      /\ \A u \in Tasks \ {t} : pc[u] \notin {"loop", "fold"}
  BY <1>1, OneDrains
<1>3. lost' = lost \cup {f}
  BY <1>1, <1>2 DEF Interrupted, ContractInv, TiersOK, Producing
<1>4. TiersOK' /\ status' = status
  BY <1>1, AsideTiers DEF ContractInv
<1>5. QueueOK' /\ SocketsOK' /\ WorkersOK'
  BY <1>1, <1>4, OneStepsAside
<1>6. PreparedOK'
  BY <1>1, <1>4 DEF ContractInv, PlacesOK, PreparedOK
<1>7. DrainOK'
  BY <1>1, <1>2, <1>4 DEF ContractInv, PlacesOK, DrainOK
<1>8. Folding' = NoFrame
  BY <1>1, <1>2 DEF Folding
<1> QED
  BY <1>1, <1>2, <1>3, <1>4, <1>5, <1>6, <1>7, <1>8 DEF PlacesOK, Aside

(* The cycle.                                                              *)
LEMMA CycleContract ==
    ASSUME ContractInv, Pop \/ Commit
    PROVE  TiersOK' /\ PlacesOK' /\ Folding' = Folding
<1>1. UNCHANGED <<queue, prepared, nextCommit, pc, hand>>
  BY DEF Pop, Commit, taskVars
<1>2. TiersOK' /\ Kept
  <2>1. CASE Pop
    BY <2>1, PopTiers DEF Pop, ContractInv
  <2>2. CASE Commit
    BY <2>2, MarkCommittedTiers, Typed DEF Commit, ContractInv
  <2> QED
    BY <2>1, <2>2
<1> QED
  BY <1>1, <1>2, KeptPlaces DEF ContractInv, Folding

-----------------------------------------------------------------------------
(* Every step is one of PrefetchSupervisor, or none.                       *)

SupervisorStep == Supervisor!Next \/ UNCHANGED Supervisor!vars

LEMMA Stutters ==
    ASSUME UNCHANGED <<supVars, Folding, inHand, lost, gen>>
    PROVE  SupervisorStep
BY DEF SupervisorStep, Supervisor!vars, Supervisor!callerVars,
       Supervisor!supVars, Supervisor!flagVars, Supervisor!foldVars,
       Supervisor!tierVars, supVars, flagVars, foldVars, tierVars

LEMMA FewAreLost ==
    ASSUME PipeInv
    PROVE  Supervisor!Cardinality(lost) < MaxSeq + 1
<1>1. /\ Supervisor!Cardinality(lost) = Cardinality(lost)
      /\ lost \subseteq 1..MaxSeq /\ MaxSeq \in Nat
  BY SameOrders, Typed DEF Frames
<1>2. IsFiniteSet(1..MaxSeq) /\ Cardinality(1..MaxSeq) = MaxSeq
  <2>1. 1 \in Int /\ MaxSeq \in Int
    BY <1>1
  <2>2. /\ IsFiniteSet(1..MaxSeq)
        /\ Cardinality(1..MaxSeq) = IF 1 > MaxSeq THEN 0 ELSE MaxSeq-1+1
    BY <2>1, FS_Interval, Zenon
  <2> DEFINE size == Cardinality(1..MaxSeq)
  <2>3. size = IF 1 > MaxSeq THEN 0 ELSE MaxSeq-1+1
    BY <2>2
  <2> HIDE DEF size
  <2>4. size = MaxSeq
    BY <1>1, <2>3
  <2> QED
    BY <2>2, <2>4 DEF size
<1>3. Cardinality(lost) \in Nat /\ Cardinality(lost) <= MaxSeq
  BY <1>1, <1>2, FS_Subset, FS_CardinalityType
<1> QED
  BY <1>1, <1>3

LEMMA SocketMaps ==
    ASSUME ContractInv, NEW s \in Sockets,
           Arrive(s) \/ Enqueue(s) \/ DropOldest(s) \/ Put(s)
    PROVE  SupervisorStep /\ TiersOK' /\ PlacesOK'
<1>1. UNCHANGED <<inHand, lost, gen>>
  BY DEF Arrive, Enqueue, DropOldest, Put, ghostVars
<1>2. CASE Arrive(s)
  BY <1>1, <1>2, ArriveContract, Stutters
<1>3. CASE Put(s)
  BY <1>1, <1>3, PutContract, Stutters DEF Put
<1>4. CASE Enqueue(s)
  <2>1. Supervisor!EnqueueObservation
    BY <1>4, SameMarks DEF Enqueue
  <2> QED
    BY <1>1, <1>4, <2>1, EnqueueContract
    DEF SupervisorStep, Supervisor!Next, Supervisor!Receive,
        Supervisor!callerVars
<1>5. CASE DropOldest(s)
  <2> DEFINE f == Head(queue).seq
  <2>1. Supervisor!MarkFailed(f)
    BY <1>5, SameMarks DEF DropOldest
  <2>2. /\ TiersOK' /\ PlacesOK' /\ Folding' = Folding
        /\ f \in Supervisor!Frames /\ status[f] = "received"
    BY <1>5, DropOldestContract, SameOrders
  <2> HIDE DEF f
  <2>3. Supervisor!DropOldest(f)
    BY <1>1, <2>1, <2>2 DEF Supervisor!DropOldest, Supervisor!callerVars
  <2> QED
    BY <2>2, <2>3 DEF SupervisorStep, Supervisor!Next
<1> QED
  BY <1>2, <1>3, <1>4, <1>5

LEMMA WorkerMaps ==
    ASSUME ContractInv, NEW w \in Workers,
           Get(w) \/ Prefetched(w) \/ Prepare(w)
    PROVE  SupervisorStep /\ TiersOK' /\ PlacesOK'
<1>1. UNCHANGED <<inHand, lost, gen>>
  BY DEF Get, Prefetched, Prepare, ghostVars
<1>2. CASE Prepare(w)
  BY <1>1, <1>2, PrepareContract, Stutters DEF Prepare
<1>3. CASE Get(w)
  <2> DEFINE f == Head(queue).seq
  <2>1. Supervisor!MarkStatus(f, "prefetching")
    BY <1>3, SameMarks DEF Get
  <2>2. /\ TiersOK' /\ PlacesOK' /\ Folding' = Folding
        /\ f \in Supervisor!Frames /\ status[f] = "received"
    BY <1>3, GetContract, SameOrders
  <2> HIDE DEF f
  <2>3. Supervisor!StartPrefetch(f)
    BY <1>1, <2>1, <2>2 DEF Supervisor!StartPrefetch, Supervisor!callerVars
  <2> QED
    BY <2>2, <2>3 DEF SupervisorStep, Supervisor!Next
<1>4. CASE Prefetched(w)
  <2> DEFINE f == hand[w].seq
  <2>1. Supervisor!MarkStatus(f, "prefetched")
    BY <1>4, SameMarks DEF Prefetched
  <2>2. /\ TiersOK' /\ PlacesOK' /\ Folding' = Folding
        /\ f \in Supervisor!Frames /\ status[f] = "prefetching"
    BY <1>4, PrefetchedContract, SameOrders
  <2> HIDE DEF f
  <2>3. Supervisor!FinishPrefetch(f)
    BY <1>1, <2>1, <2>2 DEF Supervisor!FinishPrefetch, Supervisor!callerVars
  <2> QED
    BY <2>2, <2>3 DEF SupervisorStep, Supervisor!Next
<1> QED
  BY <1>2, <1>3, <1>4

LEMMA DrainMaps ==
    ASSUME ContractInv, NEW t \in Tasks,
           StartFold(t) \/ FinishFold(t) \/ EndDrain(t)
    PROVE  SupervisorStep /\ TiersOK' /\ PlacesOK'
<1>1. /\ UNCHANGED <<inHand, lost, gen>>
      /\ Supervisor!Frames = Frames /\ Supervisor!NoFrame = NoFrame
  BY SameOrders
  DEF StartFold, FinishFold, EndDrain, ghostVars, NoFrame, Supervisor!NoFrame
<1>2. CASE EndDrain(t)
  BY <1>1, <1>2, EndDrainContract, Stutters DEF EndDrain
<1>3. CASE StartFold(t)
  <2>1. Supervisor!MarkStatus(Folding', "folding")
    BY <1>3, StartFoldContract, SameMarks
  <2>2. Supervisor!StartFold(Folding')
    BY <1>1, <1>3, <2>1, StartFoldContract DEF Supervisor!StartFold
  <2> QED
    BY <1>1, <1>3, <2>2, StartFoldContract
    DEF SupervisorStep, Supervisor!Next
<1>4. CASE FinishFold(t)
  <2>1. \E tg \in Tags : Supervisor!MarkFolded(Folding, tg)
    BY <1>4, FinishFoldContract, SameMarks
  <2>2. Supervisor!FinishFold(Folding)
    BY <1>1, <1>4, <2>1, FinishFoldContract DEF Supervisor!FinishFold
  <2> QED
    BY <1>1, <1>4, <2>2, FinishFoldContract
    DEF SupervisorStep, Supervisor!Next
<1> QED
  BY <1>2, <1>3, <1>4

LEMMA FaultMaps ==
    ASSUME ContractInv, NEW t \in Tasks,
           \/ t \in Workers /\ (FoldRaises(t) \/ WorkerDies(t))
           \/ t \in Sockets /\ SocketFoldRaises(t)
    PROVE  SupervisorStep /\ TiersOK' /\ PlacesOK'
<1>1. /\ UNCHANGED <<inHand, gen>>
      /\ Supervisor!Frames = Frames /\ Supervisor!NoFrame = NoFrame
      /\ Supervisor!Cardinality(lost) < MaxSeq + 1
  BY SameOrders, FewAreLost
  DEF FoldRaises, WorkerDies, SocketFoldRaises, NoFrame, Supervisor!NoFrame,
      ContractInv
<1>2. CASE t \in Workers /\ FoldRaises(t)
  <2> DEFINE g == hand[t].seq
  <2>1. Supervisor!MarkFailed(g)
    BY <1>2, FoldRaisesContract, SameMarks
  <2>2. /\ TiersOK' /\ PlacesOK' /\ Folding \in Frames /\ Folding' = NoFrame
        /\ g \in Frames
        /\ status[g] \notin {"none", "received", "prefetching"}
        /\ lost' = IF g = Folding THEN lost ELSE lost \cup {Folding}
    BY <1>2, FoldRaisesContract
  <2> HIDE DEF g
  <2>3. Supervisor!FoldRaises(Folding, g)
    BY <1>1, <2>1, <2>2 DEF Supervisor!FoldRaises
  <2> QED
    BY <1>1, <2>2, <2>3 DEF SupervisorStep, Supervisor!Next
<1>3. CASE ~(t \in Workers /\ FoldRaises(t))
  <2>1. /\ TiersOK' /\ PlacesOK' /\ Folding \in Frames /\ Folding' = NoFrame
        /\ UNCHANGED supVars /\ lost' = lost \cup {Folding}
    BY <1>3, TaskEndsContract
  <2>2. UNCHANGED Supervisor!supVars
    BY <2>1
    DEF supVars, flagVars, foldVars, tierVars, Supervisor!supVars,
        Supervisor!flagVars, Supervisor!foldVars, Supervisor!tierVars
  <2>3. NoFrame \notin Frames
    BY Typed DEF ContractInv
  <2>4. Supervisor!FoldRaises(Folding, NoFrame)
    BY <1>1, <2>1, <2>2, <2>3 DEF Supervisor!FoldRaises
  <2> QED
    BY <1>1, <2>1, <2>4 DEF SupervisorStep, Supervisor!Next
<1> QED
  BY <1>2, <1>3

LEMMA CycleMaps ==
    ASSUME ContractInv, Pop \/ Commit
    PROVE  SupervisorStep /\ TiersOK' /\ PlacesOK'
<1>1. /\ UNCHANGED <<lost, gen>> /\ Folding' = Folding
      /\ TiersOK' /\ PlacesOK'
      /\ Supervisor!Frames = Frames /\ Supervisor!NoFrame = NoFrame
  BY CycleContract, SameOrders
  DEF Pop, Commit, ghostVars, NoFrame, Supervisor!NoFrame
<1>2. CASE Pop
  <2>1. Supervisor!Pop
    BY <1>1, <1>2, SamePop DEF Pop, Supervisor!Pop
  <2> QED
    BY <1>1, <2>1 DEF SupervisorStep, Supervisor!Next
<1>3. CASE Commit
  <2>1. Supervisor!Commit
    BY <1>1, <1>3, SameMarks DEF Commit, Supervisor!Commit
  <2> QED
    BY <1>1, <2>1 DEF SupervisorStep, Supervisor!Next
<1> QED
  BY <1>2, <1>3

LEMMA InitMaps == Init => Supervisor!Init
<1> SUFFICES ASSUME Init PROVE Supervisor!Init
  OBVIOUS
<1>1. Folding = NoFrame
  BY DEF Init, Folding
<1> QED
  BY <1>1
  DEF Init, SupInit, Supervisor!Init, Supervisor!SupInit, NoFrame,
      Supervisor!NoFrame, ZeroCount, Supervisor!ZeroCount, Untagged,
      Supervisor!Untagged, Frames, Supervisor!Frames

LEMMA StepMaps ==
    ASSUME MaxClears = 0, MaxConfigures = 0, ContractInv, PipeInv', [Next]_vars
    PROVE  ContractInv' /\ SupervisorStep
<1>1. CASE UNCHANGED vars
  <2>1. UNCHANGED <<supVars, inHand, lost, gen, queue, prepared, nextCommit,
                    pc, hand>>
    BY <1>1 DEF vars, pipeVars, taskVars, ghostVars
  <2>2. TiersOK' /\ Folding' = Folding
    BY <2>1, AsideTiers DEF ContractInv, Aside, Folding
  <2>3. PlacesOK'
    BY <2>1, AsideTiers
    DEF ContractInv, Aside, PlacesOK, QueueOK, SocketsOK, WorkersOK,
        PreparedOK, DrainOK
  <2> QED
    BY <2>1, <2>2, <2>3, Stutters DEF ContractInv
<1>2. CASE Next
  <2>1. ~Clear /\ \A k \in Capacities : ~Configure(k)
    BY DEF Clear, Configure, ContractInv, PipeInv, PipeTypeOK
  <2>2. SupervisorStep /\ TiersOK' /\ PlacesOK'
    BY <1>2, <2>1, SocketMaps, WorkerMaps, DrainMaps, FaultMaps, CycleMaps
    DEF Next, SocketStep, WorkerStep, Tasks
  <2> QED
    BY <2>2 DEF ContractInv
<1> QED
  BY <1>1, <1>2

(* What is shown of the session manager under the callers of               *)
(* PrefetchSupervisor holds under the real ones: their queue, their locks  *)
(* and their interleavings make no call that those do not.                 *)
THEOREM PipelineImplementsSupervisor ==
    ASSUME MaxClears = 0, MaxConfigures = 0
    PROVE  SafeSpec => KeepsSupervisorContract
<1>1. Init => ContractInv /\ Supervisor!Init
  BY InitContract, InitMaps, PipeInitInv DEF ContractInv
<1>2. ContractInv /\ PipeInv' /\ [Next]_vars
        => ContractInv' /\ [Supervisor!Next]_(Supervisor!vars)
  BY StepMaps DEF SupervisorStep
<1>3. SafeSpec => []PipeInv
  BY PipelineInvariant
<1> QED
  BY <1>1, <1>2, <1>3, PTL DEF SafeSpec, KeepsSupervisorContract,
     Supervisor!Spec

-----------------------------------------------------------------------------
(* Folds that raise or are cancelled.                                      *)

(* Whatever is cleared or cancelled: a session in "folding" is being       *)
(* folded, or its fold was interrupted, and no oftener than tasks were.    *)
FoldsOK ==
    /\ status \in [Frames -> Statuses]
    /\ \A t, u \in Tasks :
          pc[t] \in {"loop", "fold"} /\ pc[u] \in {"loop", "fold"} => t = u
    /\ \A f \in sessions : status[f] = "folding" => f \in lost \/ f = Folding
    /\ Cardinality(lost) <= faults + configures

(* Until a clear, an interrupted session stays where it was left.          *)
LostOK ==
    /\ \A f \in lost : f <= nextSeq
    /\ \A f \in lost \cap sessions : status[f] = "folding" /\ f # Folding

StuckInv == /\ PipeInv /\ FoldsOK
            /\ gen = 0 => TiersOK /\ PlacesOK /\ LostOK

NoNewFold ==
    /\ status' \in [Frames -> Statuses]
    /\ \A f \in sessions' :
          status'[f] = "folding" => f \in sessions /\ status[f] = "folding"

LEMMA MarksBringNoFold ==
    ASSUME PipeInv, FoldsOK, NEW f
    PROVE  /\ \A x \in Statuses \ {"folding"} : MarkStatus(f, x) => NoNewFold
           /\ MarkFailed(f) => NoNewFold
           /\ MarkCommitted(f) => NoNewFold
           /\ PopCommitCandidate(f) => NoNewFold
           /\ EnqueueObservation => NoNewFold
           /\ UNCHANGED <<sessions, status>> => NoNewFold
<1> USE DEF FoldsOK, NoNewFold
<1> sessions \subseteq Frames
  BY Typed
<1>1. ASSUME NEW x \in Statuses \ {"folding"}, MarkStatus(f, x)
      PROVE  NoNewFold
  BY <1>1 DEF MarkStatus
<1>2. MarkFailed(f) => NoNewFold
  BY DEF MarkFailed, Statuses
<1>3. MarkCommitted(f) => NoNewFold
  BY DEF MarkCommitted, Statuses
<1>4. ASSUME PopCommitCandidate(f) PROVE NoNewFold
  <2> DEFINE ev == Evicted
             sp == Spilled(ev)
             fg == Forgotten(ev, sp)
             pr == Promoted(ev, sp)
  <2>1. /\ status' = [g \in Frames |->
               CASE g = f -> "deep_processing"
                 [] g # f /\ g \in pr -> "ready"
                 [] g # f /\ g \in sp -> "consolidation"
                 [] g # f /\ g \in ev /\ g \notin sp \cup pr ->
                      IF config.overflow THEN "overflow" ELSE "coalesced"
                 [] OTHER -> status[g]]
        /\ sessions' \subseteq sessions
    BY <1>4 DEF PopCommitCandidate
  <2> HIDE DEF ev, sp, fg, pr
  <2>2. ASSUME NEW g \in Frames
        PROVE  \/ status'[g] = status[g]
               \/ status'[g] \in {"deep_processing", "ready", "consolidation",
                                  "overflow", "coalesced"}
    BY <2>1
  <2>3. status' \in [Frames -> Statuses]
    <3>1. \A g \in Frames : status'[g] \in Statuses
      BY <2>2 DEF Statuses
    <3> QED
      BY <2>1, <3>1
  <2> QED
    BY <2>1, <2>2, <2>3
<1>5. ASSUME EnqueueObservation PROVE NoNewFold
  <2>1. /\ nextSeq + 1 \in Frames /\ sessions' = sessions \cup {nextSeq + 1}
        /\ status' = [status EXCEPT ![nextSeq + 1] = "received"]
    BY <1>5, Typed DEF EnqueueObservation, Frames
  <2> QED
    BY <2>1 DEF Statuses, Producing
<1>6. UNCHANGED <<sessions, status>> => NoNewFold
  OBVIOUS
<1> QED
  BY <1>1, <1>2, <1>3, <1>4, <1>5, <1>6

(* A step that begins and ends no fold.                                    *)
LEMMA FoldsSuffice ==
    ASSUME FoldsOK, NoNewFold, Folding' = Folding, lost' = lost,
           UNCHANGED <<faults, configures>>,
           \A t \in Tasks :
               pc'[t] \in {"loop", "fold"} => pc[t] \in {"loop", "fold"}
    PROVE  FoldsOK'
BY DEF FoldsOK, NoNewFold

LEMMA FramesAreFew ==
    ASSUME NEW L, L \subseteq Frames
    PROVE  IsFiniteSet(L) /\ Cardinality(L) \in Nat
<1>1. Frames = 1..MaxSeq /\ MaxSeq \in Nat
  BY BoundsAreNat DEF Frames
<1>2. IsFiniteSet(1..MaxSeq)
  BY <1>1, FS_Interval
<1> QED
  BY <1>1, <1>2, FS_Subset, FS_CardinalityType

(* An interruption loses the frame in the fold, and at most that.          *)
LEMMA OneIsLost ==
    ASSUME PipeInv, FoldsOK, NEW L, L \subseteq lost \cup {Folding},
           L \subseteq Frames
    PROVE  Cardinality(L) <= faults + configures + 1
<1>1. IsFiniteSet(lost) /\ Cardinality(lost) \in Nat
  BY Typed, FramesAreFew
<1>2. /\ IsFiniteSet(lost \cup {Folding})
      /\ Cardinality(lost \cup {Folding}) <= Cardinality(lost) + 1
  <2>1. Cardinality(lost \cup {Folding}) \in {Cardinality(lost), Cardinality(lost) + 1}
    BY <1>1, FS_AddElement, Zenon
  <2> QED
    BY <1>1, <2>1, FS_AddElement
<1>3. /\ Cardinality(L) <= Cardinality(lost \cup {Folding})
      /\ Cardinality(L) \in Nat /\ Cardinality(lost \cup {Folding}) \in Nat
  BY <1>2, FS_Subset, FS_CardinalityType
<1>4. faults \in Nat /\ configures \in Nat
  BY BoundsAreNat DEF PipeInv, PipeTypeOK
<1> QED
  BY <1>1, <1>2, <1>3, <1>4 DEF FoldsOK

LEMMA FoldIs == ASSUME NEW t \in Tasks, pc[t] = "fold"
                PROVE  Folding = nextCommit - 1
BY DEF Folding

-----------------------------------------------------------------------------
(* FoldsOK is inductive with PipeInv.                                      *)

LEMMA SocketFolds ==
    ASSUME PipeInv, FoldsOK, NEW s \in Sockets,
           Arrive(s) \/ Enqueue(s) \/ DropOldest(s) \/ Put(s)
    PROVE  FoldsOK'
<1>1. NoNewFold
  BY MarksBringNoFold DEF Arrive, Enqueue, DropOldest, Put, supVars
<1>2. /\ \A t \in Tasks : \A p \in {"loop", "fold"} :
            pc'[t] = p => pc[t] = p
      /\ \A t \in Tasks : pc[t] = "fold" => pc'[t] = "fold"
  <2>1. CASE Arrive(s)
    BY <2>1, Typed DEF Arrive, Started, Alive, Tasks
  <2>2. CASE Enqueue(s) \/ DropOldest(s) \/ Put(s)
    BY <2>2, Typed DEF Enqueue, DropOldest, Put
  <2> QED
    BY <2>1, <2>2
<1>3. UNCHANGED <<nextCommit, lost, faults, configures>>
  BY DEF Arrive, Enqueue, DropOldest, Put, ghostVars
<1>4. Folding' = Folding
  BY <1>2, <1>3 DEF Folding
<1> QED
  BY <1>1, <1>2, <1>3, <1>4, FoldsSuffice

LEMMA WorkerFolds ==
    ASSUME PipeInv, FoldsOK, NEW w \in Workers,
           Get(w) \/ Prefetched(w) \/ Prepare(w)
    PROVE  FoldsOK'
<1>1. NoNewFold
  <2>1. {"prefetching", "prefetched"} \subseteq Statuses \ {"folding"}
    BY DEF Statuses, Producing
  <2>2. CASE Get(w)
    BY <2>1, <2>2, MarksBringNoFold DEF Get
  <2>3. CASE Prefetched(w)
    BY <2>1, <2>3, MarksBringNoFold DEF Prefetched
  <2>4. CASE Prepare(w)
    BY <2>4, MarksBringNoFold DEF Prepare, supVars
  <2> QED
    BY <2>2, <2>3, <2>4
<1>2. /\ \A t \in Tasks : \A p \in {"loop", "fold"} :
            pc'[t] = p => pc[t] = p
      /\ \A t \in Tasks : pc[t] = "fold" => pc'[t] = "fold"
  BY Typed DEF Get, Prefetched, Prepare
<1>3. UNCHANGED <<nextCommit, lost, faults, configures>>
  BY DEF Get, Prefetched, Prepare, ghostVars
<1>4. Folding' = Folding
  BY <1>2, <1>3 DEF Folding
<1> QED
  BY <1>1, <1>2, <1>3, <1>4, FoldsSuffice

(* One task at a time has the commit lock, whatever is cleared.            *)
LEMMA OneFolds ==
    ASSUME FoldsOK, NEW t \in Tasks, MayDrain(t) \/ pc[t] = "fold"
    PROVE  /\ \A u \in Tasks \ {t} : pc[u] \notin {"loop", "fold"}
           /\ MayDrain(t) => Folding = NoFrame
BY DEF FoldsOK, MayDrain, CommitLockHeld, Folding

LEMMA DrainFolds ==
    ASSUME PipeInv, FoldsOK, NEW t \in Tasks,
           StartFold(t) \/ FinishFold(t) \/ EndDrain(t)
    PROVE  FoldsOK'
<1>1. /\ UNCHANGED <<lost, faults, configures>>
      /\ sessions \subseteq Frames /\ NoFrame \notin Frames
  BY Typed DEF StartFold, FinishFold, EndDrain, ghostVars
<1>2. \A u \in Tasks \ {t} : pc[u] \notin {"loop", "fold"}
  BY OneFolds DEF StartFold, FinishFold, EndDrain
<1>3. \A u \in Tasks \ {t} : pc'[u] = pc[u]
  BY Typed DEF StartFold, FinishFold, EndDrain
<1>4. \A u, v \in Tasks : pc'[u] \in {"loop", "fold"} /\ pc'[v] \in {"loop", "fold"}
                             => u = v
  BY <1>2, <1>3
<1>5. CASE EndDrain(t)
  <2>1. NoNewFold /\ pc'[t] \notin {"loop", "fold"} /\ Folding = NoFrame
    BY <1>1, <1>5, MarksBringNoFold, OneFolds, Typed DEF EndDrain, supVars
  <2>2. Folding' = NoFrame
    BY <1>2, <1>3, <2>1 DEF Folding
  <2> QED
    BY <1>1, <1>2, <1>3, <2>1, <2>2, FoldsSuffice
<1>6. CASE StartFold(t)
  <2>1. PICK next \in Frames :
           nextCommit' = next + 1 /\ MarkStatus(next, "folding")
    BY <1>6 DEF StartFold
  <2>2. pc'[t] = "fold" /\ Folding = NoFrame /\ next \in Nat
    BY <1>6, OneFolds, Typed DEF StartFold
  <2>3. Folding' = next
    BY <2>1, <2>2 DEF Folding
  <2>4. /\ sessions' = sessions
        /\ status' = IF next \in sessions THEN [status EXCEPT ![next] = "folding"]
                     ELSE status
    BY <2>1 DEF MarkStatus
  <2> QED
    BY <1>1, <1>4, <2>2, <2>3, <2>4 DEF FoldsOK, Statuses, Producing
<1>7. CASE FinishFold(t)
  <2> DEFINE f == nextCommit - 1
  <2>1. /\ pc[t] = "fold" /\ pc'[t] = "loop"
        /\ \E tg \in Tags : MarkFolded(f, tg)
    BY <1>7, Typed DEF FinishFold
  <2>2. Folding = f /\ Folding' = NoFrame
    BY <1>2, <1>3, <2>1, FoldIs DEF Folding
  <2> HIDE DEF f
  <2>3. /\ sessions' = sessions
        /\ status' = IF f \in sessions THEN [status EXCEPT ![f] = "ready"]
                     ELSE status
    BY <2>1 DEF MarkFolded, supVars
  <2> QED
    BY <1>1, <1>4, <2>2, <2>3 DEF FoldsOK, Statuses, Producing
<1> QED
  BY <1>5, <1>6, <1>7

LEMMA FaultFolds ==
    ASSUME PipeInv, FoldsOK, NEW t \in Tasks,
           \/ t \in Workers /\ (FoldRaises(t) \/ WorkerDies(t))
           \/ t \in Sockets /\ SocketFoldRaises(t)
    PROVE  FoldsOK'
<1>1. /\ pc[t] = "fold" /\ pc'[t] \notin {"loop", "fold"}
      /\ \A u \in Tasks \ {t} : pc'[u] = pc[u]
      /\ faults' = faults + 1 /\ configures' = configures
  BY Typed DEF FoldRaises, WorkerDies, SocketFoldRaises
<1>2. \A u \in Tasks \ {t} : pc[u] \notin {"loop", "fold"}
  BY <1>1, OneFolds
<1>3. Folding = nextCommit - 1 /\ Folding' = NoFrame
  BY <1>1, <1>2, FoldIs DEF Folding
<1>4. /\ lost \subseteq lost' /\ lost' \subseteq lost \cup {Folding}
      /\ lost' \subseteq Frames
      /\ Folding \in sessions' => Folding \in lost'
  <2>1. Interrupted(t) = IF Folding \in sessions THEN lost \cup {Folding}
                         ELSE lost
    BY <1>1, <1>3 DEF Interrupted
  <2>2. CASE t \in Workers /\ FoldRaises(t)
    <3>1. /\ MarkFailed(hand[t].seq)
          /\ lost' = IF hand[t].seq = Folding THEN lost ELSE Interrupted(t)
      BY <1>3, <2>2 DEF FoldRaises
    <3>2. sessions' = sessions \ {hand[t].seq}
      BY <3>1 DEF MarkFailed
    <3> QED
      BY <2>1, <3>1, <3>2, Typed
  <2>3. CASE ~(t \in Workers /\ FoldRaises(t))
    <3>1. lost' = Interrupted(t) /\ sessions' = sessions
      BY <2>3 DEF WorkerDies, SocketFoldRaises, supVars
    <3> QED
      BY <2>1, <3>1, Typed
  <2> QED
    BY <2>2, <2>3
<1>5. NoNewFold
  BY MarksBringNoFold DEF FoldRaises, WorkerDies, SocketFoldRaises, supVars
<1>6. Cardinality(lost') <= faults' + configures'
  <2>1. Cardinality(lost') <= faults + configures + 1
    BY <1>4, OneIsLost
  <2>2. faults \in Nat /\ configures \in Nat /\ Cardinality(lost') \in Int
    BY <1>4, FramesAreFew, BoundsAreNat DEF PipeInv, PipeTypeOK
  <2> QED
    BY <1>1, <2>1, <2>2
<1>7. \A f \in sessions' : status'[f] = "folding" => f \in lost'
  BY <1>4, <1>5 DEF FoldsOK, NoNewFold
<1> QED
  BY <1>1, <1>2, <1>5, <1>6, <1>7 DEF FoldsOK, NoNewFold

LEMMA ConfigureFolds ==
    ASSUME PipeInv, PipeInv', FoldsOK, NEW k \in Capacities, Configure(k)
    PROVE  FoldsOK'
<1>1. PICK S \in SUBSET Workers :
         /\ pc' = [t \in Tasks |-> IF t \in S \ Alive THEN "get"
                                   ELSE IF t \in Workers \ S THEN "dead"
                                   ELSE pc[t]]
         /\ lost' = lost \cup UNION {Interrupted(w) : w \in Workers \ S}
  BY DEF Configure
<1>2. /\ configures' = configures + 1 /\ faults' = faults
      /\ UNCHANGED <<nextCommit, sessions, status>>
  BY DEF Configure, SetCapacity
<1>3. \A t \in Tasks : \A p \in {"loop", "fold"} : pc'[t] = p => pc[t] = p
  BY <1>1
<1>4. \A w \in Workers : Interrupted(w) \subseteq lost \cup {Folding}
  BY FoldIs DEF Interrupted, Tasks
<1>5. lost \subseteq lost' /\ lost' \subseteq lost \cup {Folding}
  <2>1. UNION {Interrupted(w) : w \in Workers \ S} \subseteq lost \cup {Folding}
    BY <1>4
  <2> HIDE DEF Interrupted
  <2> QED
    BY <1>1, <2>1, Zenon
<1>6. ASSUME NEW f \in sessions, status[f] = "folding"
      PROVE  f \in lost' \/ f = Folding'
  <2>1. CASE f \in lost
    BY <1>5, <2>1
  <2>2. CASE f = Folding
    <3>1. PICK t \in Tasks : pc[t] = "fold"
      BY <2>2, Typed DEF Folding
    <3>2. f = nextCommit - 1
      BY <2>2, <3>1, FoldIs
    <3>3. CASE t \in Workers \ S
      <4>1. f \in Interrupted(t)
        BY <3>1, <3>2 DEF Interrupted
      <4> QED
        BY <1>1, <3>3, <4>1
    <3>4. CASE t \notin Workers \ S
      <4>1. pc'[t] = "fold"
        BY <1>1, <3>1, <3>4 DEF Alive
      <4> QED
        BY <1>2, <3>2, <4>1 DEF Folding
    <3> QED
      BY <3>3, <3>4
  <2> QED
    BY <1>6, <2>1, <2>2 DEF FoldsOK
<1>7. Cardinality(lost') <= faults' + configures'
  <2>1. lost' \subseteq Frames
    BY DEF PipeInv, PipeTypeOK
  <2>2. Cardinality(lost') <= faults + configures + 1
    BY <1>5, <2>1, OneIsLost
  <2>3. faults \in Nat /\ configures \in Nat /\ Cardinality(lost') \in Int
    BY <2>1, FramesAreFew, BoundsAreNat DEF PipeInv, PipeTypeOK
  <2> QED
    BY <1>2, <2>2, <2>3
<1> QED
  BY <1>2, <1>3, <1>6, <1>7 DEF FoldsOK

LEMMA CycleFolds ==
    ASSUME PipeInv, FoldsOK, Pop \/ Commit
    PROVE  FoldsOK'
<1>1. NoNewFold
  BY MarksBringNoFold DEF Pop, Commit
<1>2. UNCHANGED <<pc, nextCommit, lost, faults, configures>>
  BY DEF Pop, Commit, taskVars, ghostVars
<1>3. Folding' = Folding
  BY <1>2 DEF Folding
<1> QED
  BY <1>1, <1>2, <1>3, FoldsSuffice

LEMMA ClearFolds ==
    ASSUME PipeInv, FoldsOK, Clear
    PROVE  FoldsOK'
<1>1. /\ status' \in [Frames -> Statuses] /\ sessions' = {} /\ lost' = {}
      /\ UNCHANGED <<pc, faults, configures>>
  BY DEF Clear, ClearSupervisor, taskVars, Statuses
<1>2. faults \in Nat /\ configures \in Nat /\ Cardinality(lost') = 0
  BY <1>1, FS_EmptySet, BoundsAreNat DEF PipeInv, PipeTypeOK
<1> QED
  BY <1>1, <1>2 DEF FoldsOK

LEMMA FoldsStep ==
    ASSUME PipeInv, PipeInv', FoldsOK, [Next]_vars
    PROVE  FoldsOK'
<1>1. CASE UNCHANGED vars
  BY <1>1 DEF vars, supVars, pipeVars, taskVars, ghostVars, FoldsOK, Folding
<1>2. CASE Next
  BY <1>2, SocketFolds, WorkerFolds, DrainFolds, FaultFolds, CycleFolds,
     ClearFolds, ConfigureFolds
  DEF Next, SocketStep, WorkerStep, Tasks
<1> QED
  BY <1>1, <1>2

-----------------------------------------------------------------------------
(* LostOK: every call the pipeline makes, until a clear, finds a frame in  *)
(* a status of its own, and a lost one is in "folding".                    *)

LEMMA LostSuffices ==
    ASSUME PipeInv, LostOK, lost' = lost, nextSeq' \in Nat, nextSeq <= nextSeq',
           Folding' \in {Folding, NoFrame},
           \A g \in sessions' : g <= nextSeq => g \in sessions,
           \A g \in sessions \cap sessions' :
               status[g] = "folding" /\ g # Folding => status'[g] = "folding"
    PROVE  LostOK'
BY Typed DEF LostOK

(* A reconfiguration takes items out of hands, and moves no frame.         *)
LEMMA ConfigureContract ==
    ASSUME ContractInv, NEW k \in Capacities, Configure(k)
    PROVE  TiersOK' /\ PlacesOK' /\ Folding' \in {Folding, NoFrame}
<1>1. PICK S \in SUBSET Workers :
         /\ pc' = [t \in Tasks |-> IF t \in S \ Alive THEN "get"
                                   ELSE IF t \in Workers \ S THEN "dead"
                                   ELSE pc[t]]
         /\ hand' = [t \in Tasks |-> IF t \in Workers \ S THEN NoItem
                                     ELSE hand[t]]
  BY DEF Configure
<1>2. /\ UNCHANGED <<queue, prepared, nextCommit, inHand, status, sessions,
                     ready, overflow, consolidation, nextSeq>>
  BY DEF Configure, SetCapacity, tierVars
<1>3. \A t \in Tasks :
         /\ pc'[t] \in {"loop", "fold", "prefetch", "slots"} => pc'[t] = pc[t]
         /\ hand'[t] # NoItem => hand'[t] = hand[t] /\ pc'[t] = pc[t]
         /\ hand'[t].seq \in Frames => hand'[t] = hand[t]
         /\ t \in Sockets => hand'[t] = hand[t]
  BY <1>1, Typed DEF Alive, ContractInv, PipeInv, HandsOK
<1>4. TiersOK'
  BY <1>2 DEF ContractInv, TiersOK
<1>5. QueueOK' /\ SocketsOK'
  BY <1>2, <1>3, Typed DEF ContractInv, PlacesOK, QueueOK, SocketsOK
<1>6. WorkersOK'
  <2> SUFFICES ASSUME NEW w \in Workers, hand'[w] # NoItem
      PROVE  /\ pc'[w] = "prefetch" => status[hand'[w].seq] = "prefetching"
             /\ pc'[w] = "slots" => /\ status[hand'[w].seq] = "prefetched"
                                    /\ prepared[hand'[w].seq] = Absent
             /\ status[hand'[w].seq] \notin {"none", "received"}
             /\ status[hand'[w].seq] = "prefetching" => pc'[w] = "prefetch"
             /\ \A v \in Workers : hand'[v].seq = hand'[w].seq => v = w
    BY <1>2 DEF WorkersOK
  <2>1. /\ hand'[w] = hand[w] /\ pc'[w] = pc[w] /\ hand[w] # NoItem
        /\ hand[w].seq \in Frames
    BY <1>3, Typed DEF ContractInv
  <2>2. \A v \in Workers : hand'[v].seq = hand[w].seq => v = w
    BY <1>3, <2>1, Typed DEF ContractInv, PlacesOK, WorkersOK
  <2> QED
    BY <2>1, <2>2 DEF ContractInv, PlacesOK, WorkersOK
<1>7. PreparedOK'
  BY <1>2 DEF ContractInv, PlacesOK, PreparedOK
<1>8. DrainOK'
  BY <1>2, <1>3 DEF ContractInv, PlacesOK, DrainOK
<1>9. Folding' \in {Folding, NoFrame}
  BY <1>2, <1>3 DEF Folding
<1> QED
  BY <1>4, <1>5, <1>6, <1>7, <1>8, <1>9 DEF PlacesOK

(* A mark of a frame that is not in "folding" keeps those that are.        *)
FoldsKept ==
    /\ nextSeq' = nextSeq /\ sessions' \subseteq sessions
    /\ \A g \in sessions \cap sessions' :
           status[g] = "folding" /\ g # Folding => status'[g] = "folding"

LEMMA MarksKeepFolds ==
    ASSUME TiersOK, sessions \subseteq Frames,
           NEW f \in Frames, status[f] # "folding" \/ f = Folding
    PROVE  /\ \A x : MarkStatus(f, x) => FoldsKept
           /\ \A x : MarkFolded(f, x) => FoldsKept
           /\ MarkFailed(f) => FoldsKept
BY DEF TiersOK, MarkStatus, MarkFolded, MarkFailed, FoldsKept, supVars, tierVars

LEMMA KeptFolds ==
    ASSUME PipeInv, LostOK, FoldsKept, lost' = lost,
           Folding' \in {Folding, NoFrame}
    PROVE  LostOK'
BY LostSuffices, Typed DEF FoldsKept

LEMMA SocketLost ==
    ASSUME ContractInv, LostOK, NEW s \in Sockets,
           Arrive(s) \/ Enqueue(s) \/ DropOldest(s) \/ Put(s)
    PROVE  LostOK'
<1>1. lost' = lost /\ sessions \subseteq Frames
  BY Typed DEF Arrive, Enqueue, DropOldest, Put, ghostVars, ContractInv
<1>2. CASE Arrive(s) \/ Put(s)
  <2>1. UNCHANGED <<sessions, status, nextSeq>> /\ Folding' = Folding
    BY <1>2, ArriveContract, PutContract DEF Arrive, Put, supVars
  <2> QED
    BY <1>1, <2>1, KeptFolds DEF FoldsKept, ContractInv
<1>3. CASE Enqueue(s)
  <2>1. /\ nextSeq' = nextSeq + 1 /\ sessions' = sessions \cup {nextSeq + 1}
        /\ status' = [status EXCEPT ![nextSeq + 1] = "received"]
    BY <1>3 DEF Enqueue, EnqueueObservation
  <2>2. /\ nextSeq \in Nat /\ nextSeq + 1 > nextSeq /\ nextSeq + 1 \in Frames
        /\ status \in [Frames -> Statuses] /\ status[nextSeq + 1] = "none"
    <3>1. nextSeq \in Nat /\ nextSeq + 1 \in Frames
      BY <1>3, Typed DEF Enqueue, EnqueueObservation, ContractInv, Frames
    <3> QED
      BY <3>1 DEF ContractInv, TiersOK
  <2>3. \A g \in sessions' : g <= nextSeq => g \in sessions
    BY <1>1, <2>1, <2>2
  <2>4. \A g \in sessions : status[g] = "folding" => status'[g] = "folding"
    BY <1>1, <2>1, <2>2
  <2>5. Folding' = Folding
    BY <1>3, EnqueueContract
  <2> QED
    BY <1>1, <2>1, <2>2, <2>3, <2>4, <2>5, LostSuffices DEF ContractInv
<1>4. CASE DropOldest(s)
  <2>1. /\ Head(queue).seq \in Frames /\ status[Head(queue).seq] # "folding"
        /\ Folding' = Folding
    BY <1>4, DropOldestContract
  <2>2. MarkFailed(Head(queue).seq)
    BY <1>4 DEF DropOldest
  <2> QED
    BY <1>1, <2>1, <2>2, MarksKeepFolds, KeptFolds DEF ContractInv
<1> QED
  BY <1>2, <1>3, <1>4

LEMMA WorkerLost ==
    ASSUME ContractInv, LostOK, NEW w \in Workers,
           Get(w) \/ Prefetched(w) \/ Prepare(w)
    PROVE  LostOK'
<1>1. lost' = lost /\ sessions \subseteq Frames
  BY Typed DEF Get, Prefetched, Prepare, ghostVars, ContractInv
<1>2. Folding' = Folding
  BY GetContract, PrefetchedContract, PrepareContract
<1>3. CASE Get(w)
  <2>1. /\ MarkStatus(Head(queue).seq, "prefetching")
        /\ Head(queue).seq \in Frames /\ status[Head(queue).seq] # "folding"
    BY <1>3, GetContract DEF Get
  <2> QED
    BY <1>1, <1>2, <2>1, MarksKeepFolds, KeptFolds DEF ContractInv
<1>4. CASE Prefetched(w)
  <2>1. /\ MarkStatus(hand[w].seq, "prefetched")
        /\ hand[w].seq \in Frames /\ status[hand[w].seq] # "folding"
    BY <1>4, PrefetchedContract DEF Prefetched
  <2> QED
    BY <1>1, <1>2, <2>1, MarksKeepFolds, KeptFolds DEF ContractInv
<1>5. CASE Prepare(w)
  BY <1>1, <1>2, <1>5, KeptFolds DEF Prepare, supVars, FoldsKept, ContractInv
<1> QED
  BY <1>3, <1>4, <1>5

LEMMA DrainLost ==
    ASSUME ContractInv, LostOK, NEW t \in Tasks,
           StartFold(t) \/ FinishFold(t) \/ EndDrain(t)
    PROVE  LostOK'
<1>1. lost' = lost /\ sessions \subseteq Frames
  BY Typed DEF StartFold, FinishFold, EndDrain, ghostVars, ContractInv
<1>2. CASE EndDrain(t)
  BY <1>1, <1>2, EndDrainContract, KeptFolds
  DEF EndDrain, supVars, FoldsKept, ContractInv
<1>3. CASE StartFold(t)
  <2>1. /\ Folding = NoFrame /\ Folding' \in Frames
        /\ status[Folding'] = "prefetched"
        /\ MarkStatus(Folding', "folding")
    BY <1>3, StartFoldContract
  <2>2. /\ sessions' = sessions /\ nextSeq' = nextSeq
        /\ \A g \in Frames : status[g] = "folding" => status'[g] = "folding"
    BY <2>1 DEF MarkStatus, ContractInv, TiersOK
  <2> QED
    BY <1>1, <2>1, <2>2 DEF LostOK
<1>4. CASE FinishFold(t)
  <2>1. /\ Folding \in Frames /\ Folding' = NoFrame
        /\ \E tg \in Tags : MarkFolded(Folding, tg)
    BY <1>4, FinishFoldContract
  <2> QED
    BY <1>1, <2>1, MarksKeepFolds, KeptFolds DEF ContractInv
<1> QED
  BY <1>2, <1>3, <1>4

(* The frame of an interrupted fold joins the lost, in "folding".          *)
LEMMA FaultLost ==
    ASSUME ContractInv, LostOK, NEW t \in Tasks,
           \/ t \in Workers /\ (FoldRaises(t) \/ WorkerDies(t))
           \/ t \in Sockets /\ SocketFoldRaises(t)
    PROVE  LostOK'
<1>1. Folding \in Frames /\ status[Folding] = "folding" /\ Folding <= nextSeq
  <2>1. pc[t] = "fold"
    BY DEF FoldRaises, WorkerDies, SocketFoldRaises
  <2>2. Folding \in Frames /\ status[Folding] = "folding"
    BY <2>1, OneDrains
  <2> QED
    BY <2>2, Typed DEF ContractInv, TiersOK, Frames
<1>2. NoFrame \notin Frames /\ sessions \subseteq Frames /\ lost \subseteq Frames
  BY Typed DEF ContractInv
<1>3. CASE t \in Workers /\ FoldRaises(t)
  <2> DEFINE g == hand[t].seq
  <2>1. /\ g \in Frames /\ MarkFailed(g) /\ Folding' = NoFrame
        /\ lost' = IF g = Folding THEN lost ELSE lost \cup {Folding}
    BY <1>3, FoldRaisesContract
  <2> HIDE DEF g
  <2>2. /\ sessions' = sessions \ {g} /\ nextSeq' = nextSeq
        /\ \A h \in Frames : h # g => status'[h] = status[h]
    BY <2>1 DEF MarkFailed, ContractInv, TiersOK
  <2>3. \A h \in lost' \cap sessions' :
           h # g /\ (h = Folding \/ h \in lost \cap sessions) /\ h \in Frames
    BY <1>1, <1>2, <2>1, <2>2
  <2> QED
    BY <1>1, <1>2, <2>1, <2>2, <2>3 DEF LostOK
<1>4. CASE ~(t \in Workers /\ FoldRaises(t))
  <2>1. /\ Folding' = NoFrame /\ UNCHANGED supVars
        /\ lost' = lost \cup {Folding}
    BY <1>4, TaskEndsContract
  <2> QED
    BY <1>1, <1>2, <2>1 DEF LostOK, supVars
<1> QED
  BY <1>3, <1>4

LEMMA CycleLost ==
    ASSUME ContractInv, LostOK, Pop \/ Commit
    PROVE  LostOK'
<1>1. Folding' = Folding /\ lost' = lost /\ sessions \subseteq Frames
  BY CycleContract, Typed DEF Pop, Commit, ghostVars, ContractInv
<1>2. NoNewFrame
  BY MarksBringNoFrame DEF Pop, Commit
<1>3. Kept
  <2>1. CASE Pop
    BY <2>1, PopTiers DEF Pop, ContractInv
  <2>2. CASE Commit
    BY <2>2, MarkCommittedTiers, Typed DEF Commit, ContractInv
  <2> QED
    BY <2>1, <2>2
<1>4. FoldsKept
  BY <1>1, <1>2, <1>3 DEF FoldsKept, NoNewFrame, Kept, Producing
<1> QED
  BY <1>1, <1>4, KeptFolds DEF ContractInv

LEMMA ConfigureLost ==
    ASSUME ContractInv, LostOK, NEW k \in Capacities, Configure(k)
    PROVE  LostOK'
<1>1. PICK S \in SUBSET Workers :
         /\ pc' = [t \in Tasks |-> IF t \in S \ Alive THEN "get"
                                   ELSE IF t \in Workers \ S THEN "dead"
                                   ELSE pc[t]]
         /\ lost' = lost \cup UNION {Interrupted(w) : w \in Workers \ S}
  BY DEF Configure
<1>2. /\ UNCHANGED <<sessions, status, nextSeq, nextCommit>>
      /\ Folding' \in {Folding, NoFrame}
  BY ConfigureContract DEF Configure, SetCapacity
<1>3. ASSUME NEW f \in lost', f \notin lost
      PROVE  f = Folding /\ Folding' = NoFrame
             /\ status[f] = "folding" /\ f <= nextSeq
  <2>1. PICK w \in Workers \ S : f \in Interrupted(w)
    BY <1>1, <1>3
  <2>2. pc[w] = "fold" /\ f = nextCommit - 1
    BY <1>3, <2>1 DEF Interrupted
  <2>3. /\ f = Folding /\ f \in Frames /\ status[f] = "folding"
        /\ \A u \in Tasks \ {w} : pc[u] \notin {"loop", "fold"}
    BY <2>2, OneDrains DEF Tasks
  <2>4. \A u \in Tasks : pc'[u] # "fold"
    BY <1>1, <2>2, <2>3
  <2> QED
    BY <2>3, <2>4, Typed DEF Folding, ContractInv, TiersOK, Frames
<1>4. NoFrame \notin Frames /\ lost \subseteq Frames /\ sessions \subseteq Frames
  BY Typed DEF ContractInv
<1> QED
  BY <1>2, <1>3, <1>4 DEF LostOK

LEMMA StuckStep ==
    ASSUME StuckInv, PipeInv', [Next]_vars
    PROVE  StuckInv'
<1>1. FoldsOK'
  BY FoldsStep DEF StuckInv
<1>2. ASSUME gen' = 0 PROVE TiersOK' /\ PlacesOK' /\ LostOK'
  <2>1. gen = 0 /\ ~Clear
    <3>1. CASE Clear
      BY <1>2, <3>1 DEF Clear, StuckInv, PipeInv, PipeTypeOK
    <3>2. CASE ~Clear
      BY <1>2, <3>2
      DEF Next, SocketStep, WorkerStep, Arrive, Enqueue, DropOldest, Put, Get,
          Prefetched, Prepare, StartFold, FinishFold, EndDrain, FoldRaises,
          WorkerDies, SocketFoldRaises, Pop, Commit, Configure, vars, pipeVars,
          ghostVars
    <3> QED
      BY <3>1, <3>2
  <2>2. ContractInv /\ LostOK
    BY <2>1 DEF StuckInv, ContractInv
  <2>3. CASE UNCHANGED vars
    <3>1. UNCHANGED <<supVars, inHand, lost, nextSeq, sessions, queue, prepared,
                      nextCommit, pc, hand>>
      BY <2>3 DEF vars, pipeVars, taskVars, ghostVars, supVars
    <3>2. TiersOK' /\ PlacesOK'
      BY <2>2, <3>1, AsideTiers
      DEF ContractInv, Aside, PlacesOK, QueueOK, SocketsOK, WorkersOK,
          PreparedOK, DrainOK
    <3>3. LostOK'
      BY <2>2, <3>1 DEF LostOK, Folding, supVars
    <3> QED
      BY <3>2, <3>3
  <2>4. CASE Next
    BY <2>1, <2>2, <2>4, SocketMaps, WorkerMaps, DrainMaps, FaultMaps,
       CycleMaps, ConfigureContract, SocketLost, WorkerLost, DrainLost,
       FaultLost, CycleLost, ConfigureLost
    DEF Next, SocketStep, WorkerStep, Tasks
  <2> QED
    BY <2>3, <2>4
<1> QED
  BY <1>1, <1>2 DEF StuckInv

(* A fold of _drain_ready_perception that raises, or whose worker          *)
(* configure() cancels, leaves its session in "folding", of which nothing  *)
(* but a clear or the failure of its own worker rids the session manager;  *)
(* no other session is left so, and each interruption leaves one at most.  *)
THEOREM InterruptionsAreCounted == SafeSpec => []InterruptedFoldsStick
<1>1. Init => StuckInv
  <2> SUFFICES ASSUME Init PROVE StuckInv
    OBVIOUS
  <2>1. PipeInv /\ TiersOK /\ PlacesOK
    BY PipeInitInv, InitContract
  <2>2. lost = {} /\ faults = 0 /\ configures = 0 /\ sessions = {}
    BY DEF Init, SupInit
  <2>3. Cardinality(lost) = 0
    BY <2>2, FS_EmptySet
  <2> QED
    BY <2>1, <2>2, <2>3
    DEF StuckInv, FoldsOK, LostOK, TiersOK, PlacesOK, DrainOK
<1>2. StuckInv /\ PipeInv' /\ [Next]_vars => StuckInv'
  BY StuckStep
<1>3. StuckInv => InterruptedFoldsStick
  BY DEF StuckInv, FoldsOK, LostOK, InterruptedFoldsStick
<1>4. SafeSpec => []PipeInv
  BY PipelineInvariant
<1> QED
  BY <1>1, <1>2, <1>3, <1>4, PTL DEF SafeSpec
=============================================================================
