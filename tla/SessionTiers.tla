---------------------------- MODULE SessionTiers ----------------------------
(***************************************************************************)
(* The session manager of decadic/cycle/stage_pipeline.py                  *)
(* (SerialPrefetchSupervisor).  Every observation becomes a session, named *)
(* here by its frame_seq.  A folded session waits in T1 (ready); what T1   *)
(* cannot hold is staged in T2 (overflow); what T2 cannot hold is queued   *)
(* for rest in T3 (consolidation); what T3 cannot hold is forgotten.       *)
(*                                                                         *)
(* Every method of the class is one action here: the class runs in one     *)
(* asyncio loop and no method awaits anything but its own lock.  Who calls *)
(* them, and when, is for the modules that extend this one to say.         *)
(*                                                                         *)
(* A dictionary that keeps insertion order is a set, and the insertion     *)
(* time of a member is stamp[f]; a session is in at most one tier (the     *)
(* invariant Placement), so one stamp per session is enough.  The priority *)
(* salience * exp(-age/tau) of two sessions compares the same way at every *)
(* instant, so it is a fixed key: see Key.                                 *)
(***************************************************************************)
EXTENDS Integers, FiniteSets

CONSTANTS
    MaxSeq,            \* bound: observations enqueued between two clears
    Tags,              \* what a fold may learn: salience and urgency
    Capacities,        \* values set_capacity may be given
    OverflowCap,       \* DECADIC_PIPELINE_OVERFLOW_CAP
    ConsolidationCap,  \* DECADIC_PIPELINE_CONSOLIDATION_CAP
    DrainBatch,        \* DECADIC_REST_CONSOLIDATE_BATCH
    Configs            \* the settings of the DECADIC_PIPELINE_* flags

Frames == 1..MaxSeq
NoFrame == 0

Policies == {"freshest", "oldest"}
Flags == [priority : BOOLEAN, overflow : BOOLEAN, o1 : BOOLEAN,
          policy : Policies]

(* The tag of a session before its fold, and of a frame without events,    *)
(* motion or looming.  A frame with events is urgent, and its salience is  *)
(* at least 0.05.                                                          *)
Untagged == [salience |-> 0, urgent |-> FALSE]

ASSUME TiersAssumption ==
    /\ MaxSeq \in Nat
    /\ Tags \subseteq [salience : Nat, urgent : BOOLEAN]
    /\ \A t \in Tags : t.urgent => t.salience > 0
    /\ Untagged \in Tags
    /\ Capacities \subseteq Nat /\ Capacities \ {0} # {}
    /\ OverflowCap \in Nat \ {0} /\ ConsolidationCap \in Nat \ {0}
    /\ DrainBatch \in Nat \ {0}
    /\ Configs # {} /\ Configs \subseteq Flags

(* received, prefetching, prefetched, folding: in the producers' hands.    *)
Producing == {"received", "prefetching", "prefetched", "folding"}
Statuses == Producing \cup {"none", "ready", "deep_processing",
    "deep_processed", "coalesced", "overflow", "consolidation", "failed"}

VARIABLES
    config,         \* the flags, read from the environment at every call
    capacity,       \* capacity of T1
    sessions,       \* keys of sessions and of by_seq (always the same)
    status,         \* status of the session object of each frame
    tag,            \* salience and urgency written at the fold
    folded,         \* folded_s
    stamp,          \* when the session entered the dictionary it is in
    clock,          \* time, advanced by whatever is stamped
    ready, urgentLane, overflow, consolidation,
    nextSeq,        \* next_frame_seq, and frames_received
    count           \* the counters metrics() reports

flagVars == <<config, capacity>>
foldVars == <<tag, folded, stamp, clock>>
tierVars == <<ready, urgentLane, overflow, consolidation>>
supVars == <<flagVars, sessions, status, foldVars, tierVars, nextSeq, count>>

Counts == [deepProcessed : Nat, coalesced : Nat, failed : Nat,
           informationLoss : Nat, forgotten : Nat, drained : Nat]
ZeroCount == [deepProcessed |-> 0, coalesced |-> 0, failed |-> 0,
              informationLoss |-> 0, forgotten |-> 0, drained |-> 0]

SupInit ==
    /\ config \in Configs
    /\ capacity \in Capacities \ {0}
    /\ sessions = {}
    /\ status = [f \in Frames |-> "none"]
    /\ tag = [f \in Frames |-> Untagged]
    /\ folded = [f \in Frames |-> 0]
    /\ stamp = [f \in Frames |-> 0]
    /\ clock = 0
    /\ ready = {} /\ urgentLane = {} /\ overflow = {} /\ consolidation = {}
    /\ nextSeq = 0
    /\ count = ZeroCount

-----------------------------------------------------------------------------
(* Priorities and orders.                                                  *)

(* salience * exp(-age/tau), on a logarithmic scale and up to a factor     *)
(* that is the same for all sessions: one unit of salience outweighs one   *)
(* unit of time.  Salience 0 has priority 0 at any age.                    *)
Key(f) == IF tag[f].salience = 0 THEN 0 ELSE tag[f].salience + folded[f]

(* min over a dictionary takes the first of the least, in insertion order; *)
(* at is the insertion time.                                               *)
Weaker(f, g, at) == \/ Key(f) < Key(g)
                    \/ Key(f) = Key(g) /\ at[f] < at[g]

(* max over a dictionary takes the first of the greatest.                  *)
Stronger(f, g, at) == \/ Key(f) > Key(g)
                      \/ Key(f) = Key(g) /\ at[f] < at[g]

(* The place of f when S is listed in the order Before.                    *)
Rank(f, S, Before(_, _)) == Cardinality({g \in S : Before(g, f)})

(* The first n of S in the order Before; none of them if n <= 0.           *)
Take(S, n, Before(_, _)) == {f \in S : Rank(f, S, Before) < n}

-----------------------------------------------------------------------------
(* What pop_commit_candidate does to the tiers, step by step.  ev are the  *)
(* sessions evicted from T1 and sp those spilled from T2.                  *)

(* _coalesce_ready_overflow_locked: who leaves T1, first to last.          *)
EvictedBefore(f, g) ==
    IF config.overflow \/ config.priority THEN Weaker(f, g, stamp)
    ELSE IF config.policy = "oldest" THEN stamp[f] > stamp[g]
    ELSE stamp[f] < stamp[g]

(* Seeded fault, for the runs only: T1 may stay one above its capacity.    *)
FaultyEvicted ==
    Take(ready, Cardinality(ready) - capacity - 1, EvictedBefore)

Evicted == Take(ready, Cardinality(ready) - capacity, EvictedBefore)

(* _overflow_push_locked: the evicted join T2 in that order, and the       *)
(* weakest beyond its cap leave it.                                        *)
StampInOverflow(ev) ==
    [f \in Frames |-> IF f \in ev THEN clock + 1 + Rank(f, ev, EvictedBefore)
                                  ELSE stamp[f]]
OverflowPool(ev) == IF config.overflow THEN overflow \cup ev ELSE overflow
Spilled(ev) ==
    LET at == StampInOverflow(ev)
        Before(f, g) == Weaker(f, g, at)
        pool == OverflowPool(ev)
    IN  Take(pool, Cardinality(pool) - OverflowCap, Before)

(* _consolidation_push_locked: the spilled are appended to T3; over its    *)
(* cap the list is sorted, strongest first, and its tail forgotten.  The   *)
(* sort is stable, so of two equals the later one goes.                    *)
StampInConsolidation(ev, sp) ==
    LET at == StampInOverflow(ev)
        Before(f, g) == Weaker(f, g, at)
    IN  [f \in Frames |->
            IF f \in sp
            THEN clock + 1 + Cardinality(ev) + Rank(f, sp, Before)
            ELSE at[f]]
(* Seeded fault: the reverse=True of the sort is missing, the strongest go. *)
FaultyForgotten(ev, sp) ==
    LET at == StampInConsolidation(ev, sp)
        Before(f, g) == Stronger(f, g, at)
        pool == consolidation \cup sp
    IN  Take(pool, Cardinality(pool) - ConsolidationCap, Before)

Forgotten(ev, sp) ==
    LET at == StampInConsolidation(ev, sp)
        Before(f, g) == \/ Key(f) < Key(g)
                        \/ Key(f) = Key(g) /\ at[f] > at[g]
        pool == consolidation \cup sp
    IN  Take(pool, Cardinality(pool) - ConsolidationCap, Before)

(* _promote_from_overflow_locked: the strongest of T2 take the room left   *)
(* in T1.  There is room only if nothing was evicted, so the stamps are    *)
(* those of the state.                                                     *)
PromotedBefore(f, g) == Stronger(f, g, stamp)
(* Seeded fault: one place of T1 is never refilled.                        *)
FaultyPromoted(ev, sp) ==
    IF config.overflow
    THEN Take(OverflowPool(ev) \ sp, capacity - Cardinality(ready \ ev) - 1,
              PromotedBefore)
    ELSE {}

Promoted(ev, sp) ==
    IF config.overflow
    THEN Take(OverflowPool(ev) \ sp, capacity - Cardinality(ready \ ev),
              PromotedBefore)
    ELSE {}

StampAfterPop(ev, sp, pr) ==
    LET at == StampInConsolidation(ev, sp)
    IN  [f \in Frames |->
            IF f \in pr
            THEN clock + 1 + Cardinality(ev) + Cardinality(sp)
                       + Rank(f, pr, PromotedBefore)
            ELSE at[f]]

(* DecadicCommitArbiter.select: first in, first out, and urgent first.     *)
ArbiterSelects(f, S) ==
    LET urgent == {g \in S : tag[g].urgent}
    IN  IF urgent # {} THEN f \in urgent /\ \A g \in urgent : f <= g
        ELSE \A g \in S : f <= g

(* Seeded fault: priorities are looked at before the urgent lane.          *)
FaultySelects(f, candidates, lane, at) ==
    IF config.priority THEN \A g \in candidates \ {f} : Stronger(f, g, at)
    ELSE IF lane # {} THEN f \in lane /\ \A g \in lane : at[f] <= at[g]
    ELSE IF config.o1 THEN \A g \in candidates : at[f] <= at[g]
    ELSE ArbiterSelects(f, candidates)

(* The head of the urgent lane; else the strongest; else the head of       *)
(* ready; else what the arbiter takes.                                     *)
Selects(f, candidates, lane, at) ==
    IF lane # {} THEN f \in lane /\ \A g \in lane : at[f] <= at[g]
    ELSE IF config.priority
         THEN \A g \in candidates \ {f} : Stronger(f, g, at)
    ELSE IF config.o1 THEN \A g \in candidates : at[f] <= at[g]
    ELSE ArbiterSelects(f, candidates)

-----------------------------------------------------------------------------
(* The methods.  Each says what becomes of every variable of this module.  *)

EnqueueObservation ==
    /\ nextSeq < MaxSeq
    /\ nextSeq' = nextSeq + 1
    /\ sessions' = sessions \cup {nextSeq + 1}
    /\ status' = [status EXCEPT ![nextSeq + 1] = "received"]
    /\ UNCHANGED <<flagVars, foldVars, tierVars, count>>

(* mark_prefetching, mark_prefetched, mark_folding: nothing happens to a   *)
(* frame by_seq does not know.                                             *)
MarkStatus(f, s) ==
    /\ status' = IF f \in sessions THEN [status EXCEPT ![f] = s] ELSE status
    /\ UNCHANGED <<flagVars, sessions, foldVars, tierVars, nextSeq, count>>

MarkFolded(f, t) ==
    IF f \in sessions
    THEN /\ status' = [status EXCEPT ![f] = "ready"]
         /\ clock' = clock + 1
         /\ tag' = [tag EXCEPT ![f] = t]
         /\ folded' = [folded EXCEPT ![f] = clock + 1]
         /\ stamp' = IF f \in ready THEN stamp
                     ELSE [stamp EXCEPT ![f] = clock + 1]
         /\ ready' = ready \cup {f}
         /\ urgentLane' = IF t.urgent THEN urgentLane \cup {f} ELSE urgentLane
         /\ UNCHANGED <<flagVars, sessions, overflow, consolidation, nextSeq,
                        count>>
    ELSE UNCHANGED supVars

(* Seeded fault: the failed session stays selectable in T1.                *)
FaultyMarkFailed(f) ==
    /\ UNCHANGED <<flagVars, foldVars, ready, urgentLane, consolidation,
                   nextSeq>>
    /\ IF f \in sessions
       THEN /\ status' = [status EXCEPT ![f] = "failed"]
            /\ sessions' = sessions \ {f}
            /\ overflow' = overflow \ {f}
            /\ count' = [count EXCEPT !.failed = @ + 1,
                                      !.informationLoss = @ + 1]
       ELSE /\ count' = [count EXCEPT !.informationLoss = @ + 1]
            /\ UNCHANGED <<sessions, status, overflow>>

(* Seeded fault: the urgent lane keeps a session T1 has lost.              *)
FaultyForget(f) ==
    /\ UNCHANGED <<flagVars, foldVars, urgentLane, consolidation, nextSeq>>
    /\ IF f \in sessions
       THEN /\ status' = [status EXCEPT ![f] = "failed"]
            /\ sessions' = sessions \ {f}
            /\ ready' = ready \ {f}
            /\ overflow' = overflow \ {f}
            /\ count' = [count EXCEPT !.failed = @ + 1,
                                      !.informationLoss = @ + 1]
       ELSE /\ count' = [count EXCEPT !.informationLoss = @ + 1]
            /\ UNCHANGED <<sessions, status, ready, overflow>>

(* _forget takes the session out of every dictionary but not out of T3.    *)
MarkFailed(f) ==
    /\ UNCHANGED <<flagVars, foldVars, consolidation, nextSeq>>
    /\ IF f \in sessions
       THEN /\ status' = [status EXCEPT ![f] = "failed"]
            /\ sessions' = sessions \ {f}
            /\ ready' = ready \ {f}
            /\ urgentLane' = urgentLane \ {f}
            /\ overflow' = overflow \ {f}
            /\ count' = [count EXCEPT !.failed = @ + 1,
                                      !.informationLoss = @ + 1]
       ELSE /\ count' = [count EXCEPT !.informationLoss = @ + 1]
            /\ UNCHANGED <<sessions, status, ready, urgentLane, overflow>>

(* The whole of pop_commit_candidate, when it selects f.  With nothing to  *)
(* offer it changes nothing: no step stands for that.                      *)
PopCommitCandidate(f) ==
    LET ev == Evicted
        sp == Spilled(ev)
        fg == Forgotten(ev, sp)
        pr == Promoted(ev, sp)
        at == StampAfterPop(ev, sp, pr)
        candidates == (ready \ ev) \cup pr
        lane == (urgentLane \ ev) \cup {g \in pr : tag[g].urgent}
    IN  /\ f \in candidates
        /\ Selects(f, candidates, lane, at)
        /\ status' = [g \in Frames |->
             CASE g = f -> "deep_processing"
               [] g # f /\ g \in pr -> "ready"
               [] g # f /\ g \in sp -> "consolidation"
               [] g # f /\ g \in ev /\ g \notin sp \cup pr ->
                    IF config.overflow THEN "overflow" ELSE "coalesced"
               [] OTHER -> status[g]]
        /\ sessions' = sessions \ (fg \cup IF config.overflow THEN {} ELSE ev)
        /\ ready' = candidates \ {f}
        /\ urgentLane' = lane \ {f}
        /\ overflow' = OverflowPool(ev) \ (sp \cup pr)
        /\ consolidation' = (consolidation \cup sp) \ fg
        /\ stamp' = at
        /\ clock' = clock + Cardinality(ev) + Cardinality(sp) + Cardinality(pr)
        /\ count' = [count EXCEPT !.coalesced = @ + Cardinality(ev),
                                  !.forgotten = @ + Cardinality(fg)]
        /\ UNCHANGED <<flagVars, tag, folded, nextSeq>>

(* Seeded fault: a session of before the last clear is counted too.        *)
FaultyMarkCommitted(f) ==
    /\ UNCHANGED <<flagVars, foldVars, tierVars, nextSeq>>
    /\ sessions' = sessions \ {f}
    /\ status' = IF f \in sessions
                 THEN [status EXCEPT ![f] = "deep_processed"] ELSE status
    /\ count' = [count EXCEPT !.deepProcessed = @ + 1]

(* mark_committed looks the session up by its id: a session of before a    *)
(* clear is not found.                                                     *)
MarkCommitted(f) ==
    /\ UNCHANGED <<flagVars, foldVars, tierVars, nextSeq>>
    /\ IF f \in sessions
       THEN /\ status' = [status EXCEPT ![f] = "deep_processed"]
            /\ sessions' = sessions \ {f}
            /\ count' = [count EXCEPT !.deepProcessed = @ + 1]
       ELSE UNCHANGED <<status, sessions, count>>

DrainedBefore(f, g) == Stronger(f, g, stamp)
Drained == Take(consolidation, DrainBatch, DrainedBefore)

DrainConsolidation ==
    /\ consolidation # {}
    /\ consolidation' = consolidation \ Drained
    /\ sessions' = sessions \ Drained
    /\ count' = [count EXCEPT !.drained = @ + Cardinality(Drained)]
    /\ UNCHANGED <<flagVars, status, foldVars, ready, urgentLane, overflow,
                   nextSeq>>

(* Seeded fault: the capacity is not kept above zero.                      *)
FaultySetCapacity(c) ==
    /\ capacity' = c
    /\ UNCHANGED <<config, sessions, status, foldVars, tierVars, nextSeq,
                   count>>

SetCapacity(c) ==
    /\ capacity' = IF c < 1 THEN 1 ELSE c
    /\ UNCHANGED <<config, sessions, status, foldVars, tierVars, nextSeq,
                   count>>

ClearSupervisor ==
    /\ sessions' = {}
    /\ status' = [f \in Frames |-> "none"]
    /\ tag' = [f \in Frames |-> Untagged]
    /\ folded' = [f \in Frames |-> 0]
    /\ stamp' = [f \in Frames |-> 0]
    /\ clock' = 0
    /\ ready' = {} /\ urgentLane' = {} /\ overflow' = {} /\ consolidation' = {}
    /\ nextSeq' = 0
    /\ count' = ZeroCount
    /\ UNCHANGED flagVars
=============================================================================
