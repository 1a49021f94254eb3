------------------------- MODULE PerceptionPipeline -------------------------
(***************************************************************************)
(* The perception pipeline of decadic/agents/runtime.py in the mode        *)
(* serial_prefetch: websocket handlers enqueue observations, workers       *)
(* prefetch them concurrently, and whoever holds the commit lock folds     *)
(* what is prepared, strictly in the order of frame_seq.  Sessions and     *)
(* tiers are those of SessionTiers; the cycle loop pops and commits them.  *)
(*                                                                         *)
(* All of it runs in one asyncio loop: a step of this module is what a     *)
(* task does from one await that may suspend to the next.  These are the   *)
(* values of pc:                                                           *)
(*   socket:  idle, arrived (waits for the agent's lock), admit, drain     *)
(*            (waits for the commit lock), loop and fold (holds it), put   *)
(*   worker:  get, prefetch, slots, drain, loop, fold, dead                *)
(* In fold the task waits for the agent's lock, which the cycle may hold.  *)
(***************************************************************************)
EXTENDS SessionTiers, Sequences

CONSTANTS
    Workers,           \* places in _perception_workers
    Sockets,           \* open websockets of the agent
    QueueMax,          \* prefetch_queue_max_frames
    OverloadPolicies,  \* settings of DECADIC_PREFETCH_OVERLOAD_POLICY
    MaxClears,         \* bound: resets, checkpoints, restores, mode switches
    MaxConfigures,     \* bound: changes of parallel_sessions
    MaxFaults          \* bound: folds that raise

ASSUME PipelineAssumption ==
    /\ IsFiniteSet(Workers) /\ Workers # {}
    /\ Workers \cap Sockets = {}
    /\ Capacities \subseteq 0..Cardinality(Workers)
    /\ QueueMax \in Nat \ {0}
    /\ OverloadPolicies # {} /\ OverloadPolicies \subseteq {"block", "drop_oldest"}
    /\ MaxClears \in Nat /\ MaxConfigures \in Nat /\ MaxFaults \in Nat

Tasks == Workers \cup Sockets

(* An observation is its frame_seq and its generation, the number of       *)
(* clears before it arrived.                                               *)
Items == [seq : Frames, gen : 0..MaxClears]
NoItem == [seq |-> NoFrame, gen |-> 0]

(* What _perception_ready holds for a frame_seq: nothing, a tombstone, or  *)
(* an observation, of which the generation is kept.                        *)
Absent == -2
Tombstone == -1
Prepared == {Absent, Tombstone} \cup 0..MaxClears

VARIABLES
    policy,         \* prefetch_overload_policy
    queue,          \* _perception_queue
    prepared,       \* _perception_ready
    nextCommit,     \* _perception_next_commit
    pc, hand,       \* where each task is, and the item it works on
    retry,          \* workers in the except branch of their loop
    inFold,         \* generation of the observation being folded, or Absent
    inHand,         \* the session the cycle loop holds
    gen,            \* ghost: clears so far
    lost,           \* ghost: frames whose fold was interrupted
    abandoned,      \* ghost: frames whose task ended before they were prepared
    crashes,        \* ghost: tasks that ended by an exception
    faults, configures  \* spent of MaxFaults and MaxConfigures

ghostVars == <<gen, lost, abandoned, crashes, faults, configures>>
taskVars == <<pc, hand, retry>>
pipeVars == <<policy, queue, prepared, nextCommit, taskVars, inFold, inHand,
              ghostVars>>
vars == <<supVars, pipeVars>>

Stale == -1
Alive == {w \in Workers : pc[w] # "dead"}

Init ==
    /\ SupInit
    /\ policy \in OverloadPolicies
    /\ queue = <<>>
    /\ prepared = [f \in Frames |-> Absent]
    /\ nextCommit = 1
    /\ pc = [t \in Tasks |-> IF t \in Workers THEN "dead" ELSE "idle"]
    /\ hand = [t \in Tasks |-> NoItem]
    /\ retry = [w \in Workers |-> FALSE]
    /\ inFold = Absent
    /\ inHand = NoFrame
    /\ gen = 0 /\ lost = {} /\ abandoned = {} /\ crashes = 0
    /\ faults = 0 /\ configures = 0

-----------------------------------------------------------------------------
(* A websocket handler in _enqueue_perception_observation.                 *)

(* _ensure_perception_workers: as many workers as parallel_sessions, which *)
(* is also the capacity of T1.                                             *)
Ensured(S) == /\ Alive \subseteq S
              /\ S \subseteq Workers
              /\ Cardinality(S) = capacity

Started(S) ==
    [t \in Tasks |-> IF t \in S \ Alive THEN "get" ELSE pc[t]]

Arrive(s) ==
    /\ pc[s] = "idle"
    /\ nextSeq < MaxSeq
    /\ \E S \in SUBSET Workers :
          /\ Ensured(S)
          /\ pc' = [Started(S) EXCEPT ![s] = "arrived"]
    /\ UNCHANGED <<supVars, policy, queue, prepared, nextCommit, hand, retry,
                   inFold, inHand, ghostVars>>

Enqueue(s) ==
    /\ pc[s] = "arrived"
    /\ EnqueueObservation
    /\ pc' = [pc EXCEPT ![s] = "admit"]
    /\ hand' = [hand EXCEPT ![s] = [seq |-> nextSeq + 1, gen |-> gen]]
    /\ UNCHANGED <<policy, queue, prepared, nextCommit, retry, inFold, inHand,
                   ghostVars>>

(* Seeded fault, for the runs only: the item given up leaves no tombstone. *)
FaultyDropOldest(s) ==
    /\ pc[s] = "admit"
    /\ policy = "drop_oldest" /\ Len(queue) >= QueueMax
    /\ queue' = Tail(queue)
    /\ MarkFailed(Head(queue).seq)
    /\ pc' = [pc EXCEPT ![s] = "drain"]
    /\ UNCHANGED <<policy, prepared, nextCommit, hand, retry, inFold, inHand,
                   ghostVars>>

(* The queue is full: the oldest item leaves it, and leaves a tombstone.   *)
DropOldest(s) ==
    LET dropped == Head(queue).seq
    IN  /\ pc[s] = "admit"
        /\ policy = "drop_oldest" /\ Len(queue) >= QueueMax
        /\ queue' = Tail(queue)
        /\ MarkFailed(dropped)
        /\ prepared' = [prepared EXCEPT ![dropped] = Tombstone]
        /\ pc' = [pc EXCEPT ![s] = "drain"]
        /\ UNCHANGED <<policy, nextCommit, hand, retry, inFold, inHand,
                       ghostVars>>

(* Seeded fault: an item is put whether or not there is room.              *)
FaultyPut(s) ==
    /\ pc[s] \in {"admit", "put"}
    /\ queue' = Append(queue, hand[s])
    /\ pc' = [pc EXCEPT ![s] = "idle"]
    /\ hand' = [hand EXCEPT ![s] = NoItem]
    /\ UNCHANGED <<supVars, policy, prepared, nextCommit, retry, inFold,
                   inHand, ghostVars>>

(* put() waits while the queue is full.                                    *)
Put(s) ==
    /\ \/ pc[s] = "put"
       \/ /\ pc[s] = "admit"
          /\ ~(policy = "drop_oldest" /\ Len(queue) >= QueueMax)
    /\ Len(queue) < QueueMax
    /\ queue' = Append(queue, hand[s])
    /\ pc' = [pc EXCEPT ![s] = "idle"]
    /\ hand' = [hand EXCEPT ![s] = NoItem]
    /\ UNCHANGED <<supVars, policy, prepared, nextCommit, retry, inFold,
                   inHand, ghostVars>>

-----------------------------------------------------------------------------
(* A worker in _perception_worker_loop.                                    *)

Get(w) ==
    /\ pc[w] = "get"
    /\ queue # <<>>
    /\ queue' = Tail(queue)
    /\ hand' = [hand EXCEPT ![w] = Head(queue)]
    /\ MarkStatus(Head(queue).seq, "prefetching")
    /\ pc' = [pc EXCEPT ![w] = "prefetch"]
    /\ UNCHANGED <<policy, prepared, nextCommit, retry, inFold, inHand,
                   ghostVars>>

(* predecode has returned, or raised: that is only logged.                 *)
Prefetched(w) ==
    /\ pc[w] = "prefetch"
    /\ MarkStatus(hand[w].seq, "prefetched")
    /\ pc' = [pc EXCEPT ![w] = "slots"]
    /\ UNCHANGED <<policy, queue, prepared, nextCommit, hand, retry, inFold,
                   inHand, ghostVars>>

(* _prepare_perception_slot_evidence has returned: it catches what it      *)
(* raises.                                                                 *)
Prepare(w) ==
    /\ pc[w] = "slots"
    /\ prepared' = [prepared EXCEPT ![hand[w].seq] = hand[w].gen]
    /\ pc' = [pc EXCEPT ![w] = "drain"]
    /\ UNCHANGED <<supVars, policy, queue, nextCommit, hand, retry, inFold,
                   inHand, ghostVars>>

-----------------------------------------------------------------------------
(* _drain_ready_perception, called by workers and by websocket handlers.   *)

CommitLockHeld == \E t \in Tasks : pc[t] \in {"loop", "fold"}

(* Seeded fault: a task drains without the commit lock.                    *)
FaultyMayDrain(t) == pc[t] \in {"loop", "drain"}

MayDrain(t) == \/ pc[t] = "loop"
               \/ pc[t] = "drain" /\ ~CommitLockHeld

(* The drain passes over tombstones and stops at next.                     *)
IsNext(next) == /\ next \in nextCommit..(MaxSeq + 1)
                /\ \A f \in nextCommit..(next - 1) : prepared[f] = Tombstone
                /\ next <= MaxSeq => prepared[next] # Tombstone

(* The task finds an observation and begins to fold it.                    *)
StartFold(t) ==
    /\ MayDrain(t)
    /\ \E next \in Frames :
          /\ IsNext(next)
          /\ prepared[next] # Absent
          /\ prepared' = [f \in Frames |-> IF f \in nextCommit..next THEN Absent
                                           ELSE prepared[f]]
          /\ nextCommit' = next + 1
          /\ MarkStatus(next, "folding")
          /\ inFold' = prepared[next]
    /\ pc' = [pc EXCEPT ![t] = "fold"]
    /\ UNCHANGED <<policy, queue, hand, retry, inHand, ghostVars>>

(* It finds none: it releases the lock and goes on with its own work.      *)
EndDrain(t) ==
    /\ MayDrain(t)
    /\ \E next \in 1..(MaxSeq + 1) :
          /\ IsNext(next)
          /\ next <= MaxSeq => prepared[next] = Absent
          /\ prepared' = [f \in Frames |-> IF f \in nextCommit..(next - 1)
                                           THEN Absent ELSE prepared[f]]
          /\ nextCommit' = next
    /\ IF t \in Workers
       THEN /\ pc' = [pc EXCEPT ![t] = "get"]
            /\ hand' = [hand EXCEPT ![t] = NoItem]
            /\ retry' = [retry EXCEPT ![t] = FALSE]
       ELSE /\ pc' = [pc EXCEPT ![t] = "put"]
            /\ UNCHANGED <<hand, retry>>
    /\ UNCHANGED <<supVars, policy, queue, inFold, inHand, ghostVars>>

(* Seeded fault: the frame is marked by the counter as it stands.          *)
FaultyFinishFold(t) ==
    /\ pc[t] = "fold"
    /\ \E tg \in Tags : MarkFolded(nextCommit, tg)
    /\ inFold' = Absent
    /\ pc' = [pc EXCEPT ![t] = "loop"]
    /\ UNCHANGED <<policy, queue, prepared, nextCommit, hand, retry, inHand,
                   ghostVars>>

(* The frame is marked by the counter, which a clear may have set back.    *)
FinishFold(t) ==
    /\ pc[t] = "fold"
    /\ \E tg \in Tags : MarkFolded(nextCommit - 1, tg)
    /\ inFold' = Absent
    /\ pc' = [pc EXCEPT ![t] = "loop"]
    /\ UNCHANGED <<policy, queue, prepared, nextCommit, hand, retry, inHand,
                   ghostVars>>

-----------------------------------------------------------------------------
(* Folds that raise.                                                       *)

Interrupted(t) ==
    IF pc[t] = "fold" /\ nextCommit - 1 \in sessions
    THEN lost \cup {nextCommit - 1} ELSE lost

(* Seeded fault: the worker goes back to the queue without a second drain. *)
FaultyFoldRaises(w) ==
    /\ pc[w] = "fold"
    /\ faults < MaxFaults
    /\ faults' = faults + 1
    /\ prepared' = [prepared EXCEPT ![hand[w].seq] = Tombstone]
    /\ MarkFailed(hand[w].seq)
    /\ lost' = IF hand[w].seq = nextCommit - 1 THEN lost ELSE Interrupted(w)
    /\ inFold' = Absent
    /\ pc' = [pc EXCEPT ![w] = "get"]
    /\ hand' = [hand EXCEPT ![w] = NoItem]
    /\ UNCHANGED <<policy, queue, nextCommit, retry, inHand, gen, abandoned,
                   crashes, configures>>

(* The worker gives up its own frame, which need not be the one that       *)
(* raised, and drains again.                                               *)
FoldRaises(w) ==
    /\ pc[w] = "fold" /\ ~retry[w]
    /\ faults < MaxFaults
    /\ faults' = faults + 1
    /\ prepared' = [prepared EXCEPT ![hand[w].seq] = Tombstone]
    /\ MarkFailed(hand[w].seq)
    /\ lost' = IF hand[w].seq = nextCommit - 1 THEN lost ELSE Interrupted(w)
    /\ inFold' = Absent
    /\ pc' = [pc EXCEPT ![w] = "drain"]
    /\ retry' = [retry EXCEPT ![w] = TRUE]
    /\ UNCHANGED <<policy, queue, nextCommit, hand, inHand, gen, abandoned,
                   crashes, configures>>

(* The second drain raises too: nothing catches it, and the task ends.     *)
WorkerDies(w) ==
    /\ pc[w] = "fold" /\ retry[w]
    /\ faults < MaxFaults
    /\ faults' = faults + 1
    /\ lost' = Interrupted(w)
    /\ inFold' = Absent
    /\ pc' = [pc EXCEPT ![w] = "dead"]
    /\ hand' = [hand EXCEPT ![w] = NoItem]
    /\ retry' = [retry EXCEPT ![w] = FALSE]
    /\ crashes' = crashes + 1
    /\ UNCHANGED <<supVars, policy, queue, prepared, nextCommit, inHand, gen,
                   abandoned, configures>>

(* What a task leaves undone when it ends: the frame it was to prepare.    *)
Unprepared(t) ==
    IF /\ hand[t].gen = gen /\ hand[t] # NoItem
       /\ t \in Workers => pc[t] \in {"prefetch", "slots"}
    THEN {hand[t].seq} ELSE {}

(* The drain of a websocket handler raises: the connection is closed and   *)
(* its observation, not yet in the queue, is gone.                         *)
SocketFoldRaises(s) ==
    /\ pc[s] = "fold"
    /\ faults < MaxFaults
    /\ faults' = faults + 1
    /\ lost' = Interrupted(s)
    /\ abandoned' = abandoned \cup Unprepared(s)
    /\ inFold' = Absent
    /\ pc' = [pc EXCEPT ![s] = "idle"]
    /\ hand' = [hand EXCEPT ![s] = NoItem]
    /\ crashes' = crashes + 1
    /\ UNCHANGED <<supVars, policy, queue, prepared, nextCommit, retry, inHand,
                   gen, configures>>

-----------------------------------------------------------------------------
(* The cycle loop and the administrative calls.                            *)

Pop == /\ inHand = NoFrame
       /\ \E f \in Frames : PopCommitCandidate(f) /\ inHand' = f
       /\ UNCHANGED <<policy, queue, prepared, nextCommit, taskVars, inFold,
                      ghostVars>>

Commit == /\ inHand # NoFrame
          /\ MarkCommitted(inHand)
          /\ inHand' = NoFrame
          /\ UNCHANGED <<policy, queue, prepared, nextCommit, taskVars, inFold,
                         ghostVars>>

(* configure(parallel_sessions = k), which it keeps above zero: the list   *)
(* of workers is cut to k and what is cut off is cancelled, wherever it    *)
(* is; those that have ended and those missing are started.                *)
Configure(k) ==
    LET target == IF k < 1 THEN 1 ELSE k IN
    /\ configures < MaxConfigures
    /\ configures' = configures + 1
    /\ SetCapacity(k)
    /\ \E S \in SUBSET Workers :
          /\ Cardinality(S) = target
          /\ Cardinality(Alive \ S) <= IF capacity > target
                                       THEN capacity - target ELSE 0
          /\ pc' = [t \in Tasks |-> IF t \in S \ Alive THEN "get"
                                    ELSE IF t \in Workers \ S THEN "dead"
                                    ELSE pc[t]]
          /\ hand' = [t \in Tasks |-> IF t \in Workers \ S THEN NoItem
                                      ELSE hand[t]]
          /\ retry' = [w \in Workers |-> w \in S /\ retry[w]]
          /\ lost' = lost \cup UNION {Interrupted(w) : w \in Workers \ S}
          /\ abandoned' = abandoned
                            \cup UNION {Unprepared(w) : w \in Workers \ S}
          /\ inFold' = IF \E w \in Workers \ S : pc[w] = "fold"
                       THEN Absent ELSE inFold
    /\ UNCHANGED <<policy, queue, prepared, nextCommit, inHand, gen, crashes,
                   faults>>

(* reset, checkpoint, restore and a change of mode: _clear_perception_     *)
(* pipeline and stage_pipeline.clear().  No task is stopped.               *)
Clear ==
    /\ gen < MaxClears
    /\ gen' = gen + 1
    /\ ClearSupervisor
    /\ queue' = <<>>
    /\ prepared' = [f \in Frames |-> Absent]
    /\ nextCommit' = 1
    /\ inHand' = IF inHand = NoFrame THEN NoFrame ELSE Stale
    /\ lost' = {} /\ abandoned' = {}
    /\ UNCHANGED <<policy, taskVars, inFold, crashes, faults, configures>>

SocketStep(s) ==
    \/ Enqueue(s) \/ DropOldest(s) \/ Put(s)
    \/ StartFold(s) \/ FinishFold(s) \/ EndDrain(s)

WorkerStep(w) ==
    \/ Get(w) \/ Prefetched(w) \/ Prepare(w)
    \/ StartFold(w) \/ FinishFold(w) \/ EndDrain(w)

Next ==
    \/ \E s \in Sockets : Arrive(s) \/ SocketStep(s) \/ SocketFoldRaises(s)
    \/ \E w \in Workers : WorkerStep(w) \/ FoldRaises(w) \/ WorkerDies(w)
    \/ Pop \/ Commit \/ Clear
    \/ \E k \in Capacities : Configure(k)

(* The event loop runs every task that can go on, threads return, and the  *)
(* cycle gives the agent's lock back.                                      *)
Fairness == /\ \A s \in Sockets : WF_vars(SocketStep(s))
            /\ \A w \in Workers : WF_vars(WorkerStep(w))
            /\ WF_vars(Pop) /\ WF_vars(Commit)

SafeSpec == Init /\ [][Next]_vars
Spec == SafeSpec /\ Fairness

-----------------------------------------------------------------------------
(* Properties.                                                             *)

(* Every variable has the shape its attribute has in the code.             *)
PipeTypeOK ==
    /\ policy \in OverloadPolicies
    /\ queue \in Seq(Items) /\ Len(queue) <= QueueMax
    /\ prepared \in [Frames -> Prepared]
    /\ nextCommit \in 1..(MaxSeq + 1)
    /\ pc \in [Tasks -> {"idle", "arrived", "admit", "put", "get", "prefetch",
                         "slots", "drain", "loop", "fold", "dead"}]
    /\ hand \in [Tasks -> Items \cup {NoItem}]
    /\ retry \in [Workers -> BOOLEAN]
    /\ inFold \in {Absent} \cup 0..MaxClears
    /\ inHand \in Frames \cup {NoFrame, Stale}
    /\ gen \in 0..MaxClears
    /\ lost \subseteq Frames /\ abandoned \subseteq Frames
    /\ crashes \in 0..MaxFaults /\ faults \in 0..MaxFaults
    /\ configures \in 0..MaxConfigures

(* The drain waits for nextCommit; this is what it waits for: an item in   *)
(* the queue, a task that has taken it and will prepare it, or an entry.   *)
Queued(f) == \E i \in DOMAIN queue : queue[i] = [seq |-> f, gen |-> gen]
Carried(f) ==
    \E t \in Tasks : /\ hand[t] = [seq |-> f, gen |-> gen]
                     /\ t \in Workers => pc[t] \in {"prefetch", "slots"}
Awaited(f) == Queued(f) \/ Carried(f) \/ prepared[f] # Absent

(* "A dropped frame must leave a tombstone ... or the drain waits on the   *)
(* missing seq forever" (_enqueue_perception_observation): no frame is     *)
(* missing.                                                                *)
NoMissingFrame == \A f \in nextCommit..nextSeq : Awaited(f)

(* A frame can be missing in two ways only: the worker that prepares it is *)
(* cancelled, or the websocket handler that brings it is ended by the fold *)
(* of another.                                                             *)
OnlyAbandonedMissing ==
    \A f \in nextCommit..nextSeq : Awaited(f) \/ f \in abandoned

(* No wakeup is lost: an entry the drain could fold now is being folded,   *)
(* or a task is on its way to the lock.  A task that ends on that way, by  *)
(* an exception or by a cancellation, breaks it.                           *)
NoLostWakeup ==
    crashes = 0 /\ configures = 0 =>
        \/ \E t \in Tasks : pc[t] \in {"drain", "loop", "fold"}
        \/ nextCommit > MaxSeq
        \/ prepared[nextCommit] = Absent

(* reset makes a "fresh mind ... zeroed ... perception": what is folded    *)
(* into it was observed by it.                                             *)
FoldsFreshObservations ==
    [][\A t \in Tasks : FinishFold(t) => inFold = gen]_vars

(* The frame whose fold is under way.                                      *)
Folding == IF \E t \in Tasks : pc[t] = "fold" THEN nextCommit - 1 ELSE NoFrame

(* A fold that raises or is cancelled leaves its session in "folding", in  *)
(* no tier: the worker that ran it marks its own frame failed, not that    *)
(* one.  Nothing else leaves a session there, each interruption leaves one *)
(* at the most, and until a clear nobody marks such a session again unless *)
(* it fails and is forgotten: it is never deliberated.                     *)
InterruptedFoldsStick ==
    LET stuck == {f \in sessions : status[f] = "folding"} \ {Folding}
    IN  /\ stuck \subseteq lost
        /\ gen = 0 => lost \cap sessions \subseteq stuck
        /\ Cardinality(lost) <= faults + configures

(* The callers of the session manager keep to what PrefetchSupervisor      *)
(* assumes of them, so that what is shown there holds here.                *)
Supervisor == INSTANCE PrefetchSupervisor
                  WITH inFold <- Folding, clears <- gen, MaxLost <- MaxSeq + 1
KeepsSupervisorContract == Supervisor!Spec

(* Every observation is settled in the end: its session is deliberated,    *)
(* failed or forgotten, or it waits in T3 for rest.  Not so after a task   *)
(* has ended, nor for the frame whose fold raised.                         *)
EveryFrameSettles ==
    \A f \in Frames :
        f \in sessions ~> \/ f \notin sessions \/ f \in consolidation
                          \/ f \in lost \/ crashes > 0
=============================================================================
