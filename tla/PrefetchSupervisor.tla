------------------------- MODULE PrefetchSupervisor -------------------------
(***************************************************************************)
(* SessionTiers and its callers: the perception workers and the in-order   *)
(* drain of decadic/agents/runtime.py, which bring sessions to T1; the     *)
(* cycle loop, the one consumer, which deliberates a session at a time;    *)
(* rest, which empties T3; and the administrative calls.  The callers are  *)
(* here only as far as the supervisor sees them: PerceptionPipeline has    *)
(* their queue, their tasks and their locks.                               *)
(***************************************************************************)
EXTENDS SessionTiers

CONSTANTS
    MaxClears,         \* bound: calls of clear()
    MaxLost            \* bound: folds and cycles that are interrupted

ASSUME BoundsAssumption == MaxClears \in Nat /\ MaxLost \in Nat

Stale == -1            \* a session of before the last clear()

VARIABLES
    inFold,         \* the frame _drain_ready_perception is folding
    inHand,         \* the session the cycle loop holds (selected_session)
    lost,           \* ghost: frames whose fold or cycle was interrupted
    clears          \* ghost: calls of clear()

callerVars == <<inFold, inHand, lost, clears>>
vars == <<supVars, callerVars>>

Init == /\ SupInit
        /\ inFold = NoFrame /\ inHand = NoFrame /\ lost = {} /\ clears = 0

-----------------------------------------------------------------------------
(* The callers, in the order agents/runtime.py calls them.                 *)

Receive == EnqueueObservation /\ UNCHANGED callerVars

StartPrefetch(f) == /\ status[f] = "received"
                    /\ MarkStatus(f, "prefetching") /\ UNCHANGED callerVars

FinishPrefetch(f) == /\ status[f] = "prefetching"
                     /\ MarkStatus(f, "prefetched") /\ UNCHANGED callerVars

(* The queue is full and the overload policy is drop_oldest: a frame that  *)
(* no worker has taken is given up.                                        *)
DropOldest(f) == /\ status[f] = "received"
                 /\ MarkFailed(f) /\ UNCHANGED callerVars

(* Seeded fault: frames are folded as they come out of the workers.        *)
FaultyStartFold(f) ==
    /\ inFold = NoFrame
    /\ status[f] = "prefetched"
    /\ MarkStatus(f, "folding")
    /\ inFold' = f
    /\ UNCHANGED <<inHand, lost, clears>>

(* The drain folds one frame at a time, in the order of frame_seq.         *)
StartFold(f) ==
    /\ inFold = NoFrame
    /\ status[f] = "prefetched"
    /\ \A g \in 1..(f - 1) :
          status[g] \notin {"received", "prefetching", "prefetched"}
    /\ MarkStatus(f, "folding")
    /\ inFold' = f
    /\ UNCHANGED <<inHand, lost, clears>>

FinishFold(f) ==
    /\ inFold = f
    /\ \E t \in Tags : MarkFolded(f, t)
    /\ inFold' = NoFrame
    /\ UNCHANGED <<inHand, lost, clears>>

(* The fold of f raises.  The worker whose drain folded it marks its own   *)
(* frame g as failed, and f stays as it was.  g may be any frame a worker  *)
(* has prefetched; g = NoFrame when it was not a worker that drained.      *)
FoldRaises(f, g) ==
    /\ inFold = f
    /\ Cardinality(lost) < MaxLost
    /\ \/ g = NoFrame
          /\ UNCHANGED supVars
       \/ g \in Frames /\ status[g] \notin {"none", "received", "prefetching"}
          /\ MarkFailed(g)
    /\ inFold' = NoFrame
    /\ lost' = IF g = f THEN lost ELSE lost \cup {f}
    /\ UNCHANGED <<inHand, clears>>

Pop == /\ inHand = NoFrame
       /\ \E f \in Frames : PopCommitCandidate(f) /\ inHand' = f
       /\ UNCHANGED <<inFold, lost, clears>>

Commit == /\ inHand # NoFrame
          /\ MarkCommitted(inHand)
          /\ inHand' = NoFrame
          /\ UNCHANGED <<inFold, lost, clears>>

(* The cycle task is cancelled (suspend_cycle_worker) or raises before it  *)
(* reaches mark_committed.                                                 *)
AbandonCycle ==
    /\ inHand # NoFrame
    /\ Cardinality(lost) < MaxLost
    /\ inHand' = NoFrame
    /\ lost' = IF inHand \in sessions THEN lost \cup {inHand} ELSE lost
    /\ UNCHANGED <<supVars, inFold, clears>>

Rest == DrainConsolidation /\ UNCHANGED callerVars

Clear ==
    /\ clears < MaxClears
    /\ ClearSupervisor
    /\ clears' = clears + 1
    /\ inFold' = NoFrame
    /\ inHand' = IF inHand = NoFrame THEN NoFrame ELSE Stale
    /\ lost' = {}

Configure(c) == SetCapacity(c) /\ UNCHANGED callerVars

Next ==
    \/ Receive
    \/ \E f \in Frames : \/ StartPrefetch(f) \/ FinishPrefetch(f)
                         \/ DropOldest(f)
                         \/ StartFold(f) \/ FinishFold(f)
                         \/ \E g \in Frames \cup {NoFrame} : FoldRaises(f, g)
    \/ Pop \/ Commit \/ AbandonCycle \/ Rest \/ Clear
    \/ \E c \in Capacities : Configure(c)

(* Nothing here says that a session must move: PerceptionPipeline does.    *)
Spec == Init /\ [][Next]_vars

-----------------------------------------------------------------------------
(* Properties.                                                             *)

(* Every variable has the shape its attribute has in the code.             *)
TypeOK ==
    /\ config \in Configs /\ capacity \in Nat \ {0}
    /\ sessions \subseteq Frames
    /\ status \in [Frames -> Statuses]
    /\ tag \in [Frames -> Tags]
    /\ folded \in [Frames -> Nat] /\ stamp \in [Frames -> Nat]
    /\ clock \in Nat
    /\ ready \subseteq Frames /\ urgentLane \subseteq Frames
    /\ overflow \subseteq Frames /\ consolidation \subseteq Frames
    /\ nextSeq \in 0..MaxSeq
    /\ count \in Counts
    /\ inFold \in Frames \cup {NoFrame}
    /\ inHand \in Frames \cup {NoFrame, Stale}
    /\ lost \subseteq Frames
    /\ clears \in 0..MaxClears

(* A session's status says where it is, and it is there and nowhere else:  *)
(* waiting in one tier, with the one task that works on it, or among those *)
(* whose fold or cycle was interrupted.  Only mark_failed leaves a trace,  *)
(* of a frame it finds in T3.                                              *)
PlacementOf(f) ==
    /\ status[f] = "none" <=> f > nextSeq
    /\ f \in ready <=> status[f] = "ready"
    /\ f \in overflow <=> status[f] = "overflow"
    /\ f \in consolidation => status[f] \in {"consolidation", "failed"}
    /\ f \in sessions /\ status[f] = "consolidation" => f \in consolidation
    /\ f \in consolidation /\ status[f] = "consolidation" => f \in sessions
    /\ status[f] \in Producing \cup {"ready", "overflow", "deep_processing"}
          => f \in sessions
    /\ status[f] \in {"none", "deep_processed", "coalesced", "failed"}
          => f \notin sessions
    /\ f = inFold => status[f] = "folding"
    /\ f = inHand => status[f] \in {"deep_processing", "failed"}
    /\ status[f] = "folding" => f = inFold \/ f \in lost
    /\ status[f] = "deep_processing" => f = inHand \/ f \in lost
Placement == \A f \in Frames : PlacementOf(f)

(* _urgent is "a subset index of ready" (__init__): exactly the urgent     *)
(* sessions of T1, through evictions, promotions, failures and commits.    *)
UrgentLaneIndexesReady == urgentLane = {f \in ready : tag[f].urgent}

(* No observation disappears from the books: the frames received are those *)
(* still in the pipeline and those the counters report as processed,       *)
(* failed, forgotten, handed to rest or coalesced.  A failure marked late  *)
(* (FoldRaises) may count one frame twice, never none.                     *)
Departed == count.deepProcessed + count.failed + count.forgotten
            + count.drained + IF config.overflow THEN 0 ELSE count.coalesced
Accounting ==
    /\ nextSeq <= Cardinality(sessions) + Departed
    /\ consolidation \subseteq sessions /\ count.failed = 0
          => nextSeq = Cardinality(sessions) + Departed

Popped == inHand = NoFrame /\ inHand' \in Frames

(* In the parity configuration (no overflow, no priorities) the O(1)       *)
(* selection takes the session the arbiter would scan T1 for, whatever was *)
(* evicted, failed or cleared before.                                      *)
HeadIsArbitersChoice ==
    [][Popped /\ ~config.priority /\ ~config.overflow =>
         ArbiterSelects(inHand', ready' \cup {inHand'})]_vars

(* The caps hold at every tier once a session has been selected, however   *)
(* many frames were folded since the last pop.                             *)
CapsEnforced ==
    [][Popped => /\ Cardinality(ready') < capacity
                 /\ Cardinality(overflow') <= OverflowCap
                 /\ Cardinality(consolidation') <= ConsolidationCap]_vars

(* Forgetting is genuinely priority-ordered across the three tiers: a      *)
(* session dropped at the cap of T3 is no stronger than any that remains   *)
(* in T1, T2 or T3, or that the cycle takes.                               *)
Waiting == ready \cup overflow \cup consolidation
ForgetsWeakest ==
    [][Popped /\ count'.forgotten > count.forgotten =>
         \A f \in Waiting \ (Waiting' \cup {inHand'}) :
         \A g \in Waiting' \cup {inHand'} : Key(f) <= Key(g)]_vars

(* Threats pre-empt: no session that is not urgent is taken while an       *)
(* urgent one is in T1, be it one that was just promoted from T2, in any   *)
(* configuration.  (One that was evicted to T2 has no such right.)         *)
UrgentFirst ==
    [][Popped /\ ~tag[inHand'].urgent =>
         \A f \in ready' : ~tag[f].urgent]_vars
=============================================================================
