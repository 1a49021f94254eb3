---------------------- MODULE PrefetchSupervisorProofs ----------------------
(***************************************************************************)
(* Theorems about PrefetchSupervisor, for every bound, cap, set of tags    *)
(* and setting of the flags.  SupInv is inductive: the types, where every  *)
(* session is, and what the urgent lane indexes.  On it rest the order of  *)
(* T1 in the parity configuration, the balance of the books, and, with the *)
(* distinct insertion times of every tier, the caps of T2 and T3 and the   *)
(* order in which a pop forgets.                                           *)
(***************************************************************************)
EXTENDS PrefetchSupervisor, FiniteSetTheorems, WellFoundedInduction, TLAPS

SupInv == TypeOK /\ Placement /\ UrgentLaneIndexesReady

-----------------------------------------------------------------------------
(* A set of frames is finite, and its cardinality is a natural number.     *)
LEMMA FramesFinite ==
    ASSUME NEW S, S \subseteq Frames
    PROVE  IsFiniteSet(S) /\ Cardinality(S) \in Nat
<1>1. IsFiniteSet(Frames)
  BY TiersAssumption, FS_Interval DEF Frames
<1>2. IsFiniteSet(S)
  BY <1>1, FS_Subset
<1> QED
  BY <1>2, FS_CardinalityType

(* What pop_commit_candidate moves comes from where it takes it.           *)
LEMMA EvictedFromReady == Evicted \subseteq ready
BY DEF Evicted, Take

LEMMA SpilledFromPool ==
    ASSUME NEW ev
    PROVE  Spilled(ev) \subseteq OverflowPool(ev)
BY DEF Spilled, Take

LEMMA ForgottenFromConsolidation ==
    ASSUME NEW ev, NEW sp
    PROVE  Forgotten(ev, sp) \subseteq consolidation \cup sp
BY DEF Forgotten, Take

LEMMA PromotedFromStaged ==
    ASSUME NEW ev, NEW sp
    PROVE  Promoted(ev, sp) \subseteq OverflowPool(ev) \ sp
BY DEF Promoted, Take

LEMMA DrainedFromConsolidation == Drained \subseteq consolidation
BY DEF Drained, Take

(* Insertion times stay natural numbers.                                   *)
LEMMA StampOverflowType ==
    ASSUME stamp \in [Frames -> Nat], clock \in Nat,
           NEW ev, ev \subseteq Frames
    PROVE  StampInOverflow(ev) \in [Frames -> Nat]
<1> SUFFICES ASSUME NEW f \in Frames
             PROVE  Rank(f, ev, EvictedBefore) \in Nat
  BY DEF StampInOverflow
<1>1. {g \in ev : EvictedBefore(g, f)} \subseteq Frames
  OBVIOUS
<1> QED
  BY <1>1, FramesFinite DEF Rank

LEMMA StampConsolidationType ==
    ASSUME stamp \in [Frames -> Nat], clock \in Nat,
           NEW ev, ev \subseteq Frames, NEW sp, sp \subseteq Frames
    PROVE  StampInConsolidation(ev, sp) \in [Frames -> Nat]
<1> DEFINE at == StampInOverflow(ev)
           Before(f, g) == Weaker(f, g, at)
<1>1. at \in [Frames -> Nat]
  BY StampOverflowType
<1>2. Cardinality(ev) \in Nat
  BY FramesFinite
<1>3. ASSUME NEW f \in Frames PROVE Rank(f, sp, Before) \in Nat
  <2>1. {g \in sp : Before(g, f)} \subseteq Frames
    OBVIOUS
  <2> QED
    BY <2>1, FramesFinite DEF Rank
<1>4. StampInConsolidation(ev, sp) =
        [f \in Frames |->
            IF f \in sp
            THEN clock + 1 + Cardinality(ev) + Rank(f, sp, Before)
            ELSE at[f]]
  BY DEF StampInConsolidation
<1> HIDE DEF at, Before
<1> QED
  BY <1>1, <1>2, <1>3, <1>4

LEMMA StampPopType ==
    ASSUME stamp \in [Frames -> Nat], clock \in Nat,
           NEW ev, ev \subseteq Frames, NEW sp, sp \subseteq Frames,
           NEW pr, pr \subseteq Frames
    PROVE  StampAfterPop(ev, sp, pr) \in [Frames -> Nat]
<1> DEFINE at == StampInConsolidation(ev, sp)
<1>1. at \in [Frames -> Nat]
  BY StampConsolidationType
<1>2. Cardinality(ev) \in Nat /\ Cardinality(sp) \in Nat
  BY FramesFinite
<1>3. ASSUME NEW f \in Frames PROVE Rank(f, pr, PromotedBefore) \in Nat
  <2>1. {g \in pr : PromotedBefore(g, f)} \subseteq Frames
    OBVIOUS
  <2> QED
    BY <2>1, FramesFinite DEF Rank
<1>4. StampAfterPop(ev, sp, pr) =
        [f \in Frames |->
            IF f \in pr
            THEN clock + 1 + Cardinality(ev) + Cardinality(sp)
                       + Rank(f, pr, PromotedBefore)
            ELSE at[f]]
  BY DEF StampAfterPop
<1> HIDE DEF at
<1> QED
  BY <1>1, <1>2, <1>3, <1>4

(* The counters stay natural numbers.                                      *)
LEMMA CountFailed ==
    ASSUME NEW k \in Counts
    PROVE  [k EXCEPT !.failed = @ + 1] \in Counts
BY DEF Counts

LEMMA CountInformationLoss ==
    ASSUME NEW k \in Counts
    PROVE  [k EXCEPT !.informationLoss = @ + 1] \in Counts
BY DEF Counts

LEMMA CountDeepProcessed ==
    ASSUME NEW k \in Counts
    PROVE  [k EXCEPT !.deepProcessed = @ + 1] \in Counts
BY DEF Counts

LEMMA CountDrained ==
    ASSUME NEW k \in Counts, NEW n \in Nat
    PROVE  [k EXCEPT !.drained = @ + n] \in Counts
BY DEF Counts

LEMMA CountCoalesced ==
    ASSUME NEW k \in Counts, NEW n \in Nat
    PROVE  [k EXCEPT !.coalesced = @ + n] \in Counts
BY DEF Counts

LEMMA CountForgotten ==
    ASSUME NEW k \in Counts, NEW n \in Nat
    PROVE  [k EXCEPT !.forgotten = @ + n] \in Counts
BY DEF Counts

-----------------------------------------------------------------------------
(* What a pop does, without how it chooses: which sets the evicted, the    *)
(* spilled, the forgotten and the promoted are taken from, and where each  *)
(* of them goes.                                                           *)
PopEffect(f, ev, sp, fg, pr) ==
    /\ ev \subseteq ready
    /\ sp \subseteq OverflowPool(ev)
    /\ fg \subseteq consolidation \cup sp
    /\ pr \subseteq OverflowPool(ev) \ sp
    /\ f \in (ready \ ev) \cup pr
    /\ status' = [g \in Frames |->
         IF g = f THEN "deep_processing"
         ELSE IF g \in pr THEN "ready"
         ELSE IF g \in sp THEN "consolidation"
         ELSE IF g \in ev THEN IF config.overflow THEN "overflow"
                                                  ELSE "coalesced"
         ELSE status[g]]
    /\ sessions' = sessions \ (fg \cup IF config.overflow THEN {} ELSE ev)
    /\ ready' = ((ready \ ev) \cup pr) \ {f}
    /\ urgentLane' = ((urgentLane \ ev) \cup {g \in pr : tag[g].urgent}) \ {f}
    /\ overflow' = OverflowPool(ev) \ (sp \cup pr)
    /\ consolidation' = (consolidation \cup sp) \ fg
    /\ stamp' \in [Frames -> Nat]
    /\ clock' \in Nat
    /\ count' \in Counts
    /\ UNCHANGED <<flagVars, tag, folded, nextSeq>>

LEMMA PopHasEffect ==
    ASSUME TypeOK, NEW f, PopCommitCandidate(f)
    PROVE  \E ev, sp, fg, pr : PopEffect(f, ev, sp, fg, pr)
<1> DEFINE ev == Evicted
           sp == Spilled(ev)
           fg == Forgotten(ev, sp)
           pr == Promoted(ev, sp)
<1>1. /\ ev \subseteq ready /\ ready \subseteq Frames
      /\ OverflowPool(ev) \subseteq Frames
      /\ consolidation \subseteq Frames
  BY EvictedFromReady DEF TypeOK, OverflowPool
<1>2. /\ sp \subseteq OverflowPool(ev)
      /\ fg \subseteq consolidation \cup sp
      /\ pr \subseteq OverflowPool(ev) \ sp
  BY SpilledFromPool, ForgottenFromConsolidation, PromotedFromStaged
<1>3. ev \subseteq Frames /\ sp \subseteq Frames /\ fg \subseteq Frames
      /\ pr \subseteq Frames
  BY <1>1, <1>2
<1>4. /\ Cardinality(ev) \in Nat /\ Cardinality(sp) \in Nat
      /\ Cardinality(fg) \in Nat /\ Cardinality(pr) \in Nat
  BY <1>3, FramesFinite
<1>5. stamp \in [Frames -> Nat] /\ clock \in Nat
      /\ count \in Counts
  BY DEF TypeOK
<1>6. StampAfterPop(ev, sp, pr) \in [Frames -> Nat]
  BY <1>3, <1>5, StampPopType
<1>7. /\ f \in (ready \ ev) \cup pr
      /\ status' = [g \in Frames |->
             CASE g = f -> "deep_processing"
               [] g # f /\ g \in pr -> "ready"
               [] g # f /\ g \in sp -> "consolidation"
               [] g # f /\ g \in ev /\ g \notin sp \cup pr ->
                    IF config.overflow THEN "overflow" ELSE "coalesced"
               [] OTHER -> status[g]]
      /\ sessions' = sessions \ (fg \cup IF config.overflow THEN {} ELSE ev)
      /\ ready' = ((ready \ ev) \cup pr) \ {f}
      /\ urgentLane' =
            ((urgentLane \ ev) \cup {g \in pr : tag[g].urgent}) \ {f}
      /\ overflow' = OverflowPool(ev) \ (sp \cup pr)
      /\ consolidation' = (consolidation \cup sp) \ fg
      /\ stamp' = StampAfterPop(ev, sp, pr)
      /\ clock' = clock + Cardinality(ev) + Cardinality(sp) + Cardinality(pr)
      /\ count' = [count EXCEPT !.coalesced = @ + Cardinality(ev),
                                !.forgotten = @ + Cardinality(fg)]
      /\ UNCHANGED <<flagVars, tag, folded, nextSeq>>
  BY DEF PopCommitCandidate
<1> HIDE DEF ev, sp, fg, pr
<1>8. ASSUME NEW g \in Frames
      PROVE  status'[g] =
                IF g = f THEN "deep_processing"
                ELSE IF g \in pr THEN "ready"
                ELSE IF g \in sp THEN "consolidation"
                ELSE IF g \in ev THEN IF config.overflow THEN "overflow"
                                                         ELSE "coalesced"
                ELSE status[g]
  BY <1>2, <1>7
<1>9. status' = [g \in Frames |->
         IF g = f THEN "deep_processing"
         ELSE IF g \in pr THEN "ready"
         ELSE IF g \in sp THEN "consolidation"
         ELSE IF g \in ev THEN IF config.overflow THEN "overflow"
                                                  ELSE "coalesced"
         ELSE status[g]]
  BY <1>7, <1>8
<1>10. count' \in Counts /\ clock' \in Nat
  <2>1. [count EXCEPT !.coalesced = @ + Cardinality(ev)] \in Counts
    BY <1>4, <1>5, CountCoalesced
  <2>2. [[count EXCEPT !.coalesced = @ + Cardinality(ev)]
           EXCEPT !.forgotten = @ + Cardinality(fg)] \in Counts
    BY <1>4, <2>1, CountForgotten
  <2> QED
    BY <1>4, <1>5, <1>7, <2>2
<1>11. PopEffect(f, ev, sp, fg, pr)
  BY <1>1, <1>2, <1>6, <1>7, <1>9, <1>10 DEF PopEffect
<1> QED
  BY <1>11

-----------------------------------------------------------------------------
LEMMA InitInv == Init => SupInv
<1> SUFFICES ASSUME Init PROVE SupInv
  OBVIOUS
<1> USE TiersAssumption, BoundsAssumption DEF Init, SupInit
<1>1. TypeOK
  BY DEF TypeOK, Statuses, Frames, NoFrame, Counts, ZeroCount, Untagged, Flags
<1>2. Placement
  BY DEF Placement, PlacementOf, Frames, NoFrame, Producing
<1>3. UrgentLaneIndexesReady
  BY DEF UrgentLaneIndexesReady
<1> QED
  BY <1>1, <1>2, <1>3 DEF SupInv

(* A pop preserves the invariant: the argument about where every frame is  *)
(* needs only where the sets of PopEffect come from.                       *)
LEMMA PopInv == SupInv /\ Pop => SupInv'
<1> SUFFICES ASSUME SupInv, Pop PROVE SupInv'
  OBVIOUS
<1>1. TypeOK /\ Placement /\ UrgentLaneIndexesReady
  BY DEF SupInv
<1>2. PICK f \in Frames : PopCommitCandidate(f) /\ inHand' = f
  BY DEF Pop
<1>3. PICK ev, sp, fg, pr : PopEffect(f, ev, sp, fg, pr)
  BY <1>1, <1>2, PopHasEffect
<1>4. inHand = NoFrame /\ UNCHANGED <<inFold, lost, clears>>
  BY DEF Pop
<1>5. /\ ready \subseteq Frames /\ overflow \subseteq Frames
      /\ OverflowPool(ev) \subseteq overflow \cup ev
      /\ overflow \subseteq OverflowPool(ev)
      /\ config.overflow => OverflowPool(ev) = overflow \cup ev
      /\ ~config.overflow => OverflowPool(ev) = overflow
  BY <1>1 DEF TypeOK, OverflowPool
<1>6. TypeOK'
  <2>1. status' \in [Frames -> Statuses]
    BY <1>1, <1>3 DEF TypeOK, PopEffect, Statuses, Producing
  <2>2. /\ sessions' \subseteq Frames /\ ready' \subseteq Frames
        /\ urgentLane' \subseteq Frames /\ overflow' \subseteq Frames
        /\ consolidation' \subseteq Frames
    BY <1>1, <1>3, <1>5 DEF TypeOK, PopEffect
  <2> QED
    BY <1>1, <1>2, <1>3, <1>4, <2>1, <2>2
    DEF TypeOK, PopEffect, flagVars
<1>7. Placement'
  <2> SUFFICES ASSUME NEW g \in Frames PROVE PlacementOf(g)'
    BY DEF Placement
  <2>1. PlacementOf(g)
    BY <1>1 DEF Placement
  <2>2. g # NoFrame
    BY TiersAssumption DEF Frames, NoFrame
  <2>3. status'[g] = IF g = f THEN "deep_processing"
                     ELSE IF g \in pr THEN "ready"
                     ELSE IF g \in sp THEN "consolidation"
                     ELSE IF g \in ev THEN IF config.overflow THEN "overflow"
                                                              ELSE "coalesced"
                     ELSE status[g]
    BY <1>3 DEF PopEffect
  <2> QED
    BY <1>2, <1>3, <1>4, <1>5, <2>1, <2>2, <2>3
    DEF PlacementOf, PopEffect, Producing
<1>8. UrgentLaneIndexesReady'
  <2>1. urgentLane = {g \in ready : tag[g].urgent}
    BY <1>1 DEF UrgentLaneIndexesReady
  <2>2. /\ ready' = ((ready \ ev) \cup pr) \ {f}
        /\ urgentLane' =
              ((urgentLane \ ev) \cup {g \in pr : tag[g].urgent}) \ {f}
        /\ tag' = tag
    BY <1>3 DEF PopEffect
  <2> QED
    BY <2>1, <2>2 DEF UrgentLaneIndexesReady
<1> QED
  BY <1>6, <1>7, <1>8 DEF SupInv

(* So does mark_failed, for a frame f found anywhere but in the hands of   *)
(* the drain; the callers' variables stay within what CallersFit allows.   *)
CallersFit(f) ==
    /\ inFold' \in {inFold, NoFrame} /\ inFold' # f
    /\ inFold # NoFrame /\ inFold' = NoFrame /\ inFold # f
          => inFold \in lost'
    /\ inHand' = inHand /\ clears' = clears
    /\ lost \subseteq lost' /\ lost' \subseteq Frames

LEMMA FailedInv ==
    ASSUME SupInv, NEW f \in Frames, status[f] # "none",
           MarkFailed(f), CallersFit(f)
    PROVE  SupInv'
<1>1. TypeOK /\ Placement /\ UrgentLaneIndexesReady
  BY DEF SupInv
<1>2. /\ flagVars' = flagVars /\ foldVars' = foldVars
      /\ consolidation' = consolidation /\ nextSeq' = nextSeq
  BY DEF MarkFailed
<1>3. CASE f \in sessions
  <2>1. /\ status' = [status EXCEPT ![f] = "failed"]
        /\ sessions' = sessions \ {f}
        /\ ready' = ready \ {f}
        /\ urgentLane' = urgentLane \ {f}
        /\ overflow' = overflow \ {f}
        /\ count' = [count EXCEPT !.failed = @ + 1, !.informationLoss = @ + 1]
    BY <1>3 DEF MarkFailed
  <2>2. count' \in Counts
    <3>1. [count EXCEPT !.failed = @ + 1] \in Counts
      BY <1>1, CountFailed DEF TypeOK
    <3>2. [[count EXCEPT !.failed = @ + 1] EXCEPT !.informationLoss = @ + 1]
             \in Counts
      BY <3>1, CountInformationLoss
    <3> QED
      BY <1>1, <2>1, <3>2
  <2>3. TypeOK'
    BY <1>1, <1>2, <2>1, <2>2
    DEF TypeOK, Statuses, flagVars, foldVars, CallersFit
  <2>4. Placement'
    <3> SUFFICES ASSUME NEW g \in Frames PROVE PlacementOf(g)'
      BY DEF Placement
    <3>1. PlacementOf(g)
      BY <1>1 DEF Placement
    <3>2. g # NoFrame
      BY TiersAssumption DEF Frames, NoFrame
    <3>3. status'[g] = IF g = f THEN "failed" ELSE status[g]
      BY <1>1, <2>1 DEF TypeOK
    <3> QED
      BY <1>2, <2>1, <3>1, <3>2, <3>3 DEF PlacementOf, Producing, CallersFit
  <2>5. UrgentLaneIndexesReady'
    BY <1>1, <1>2, <2>1 DEF UrgentLaneIndexesReady, foldVars
  <2> QED
    BY <2>3, <2>4, <2>5 DEF SupInv
<1>4. CASE f \notin sessions
  <2>1. UNCHANGED <<sessions, status, ready, urgentLane, overflow>>
        /\ count' = [count EXCEPT !.informationLoss = @ + 1]
    BY <1>4 DEF MarkFailed
  <2>2. count' \in Counts
    BY <1>1, <2>1, CountInformationLoss DEF TypeOK
  <2>3. TypeOK'
    BY <1>1, <1>2, <2>1, <2>2 DEF TypeOK, flagVars, foldVars, CallersFit
  <2>4. Placement'
    <3> SUFFICES ASSUME NEW g \in Frames PROVE PlacementOf(g)'
      BY DEF Placement
    <3>1. PlacementOf(g)
      BY <1>1 DEF Placement
    <3>2. g # NoFrame
      BY TiersAssumption DEF Frames, NoFrame
    <3>3. f # inFold
      BY <1>1, <1>4 DEF Placement, PlacementOf, Producing
    <3> QED
      BY <1>2, <2>1, <3>1, <3>2, <3>3 DEF PlacementOf, Producing, CallersFit
  <2>5. UrgentLaneIndexesReady'
    BY <1>1, <1>2, <2>1 DEF UrgentLaneIndexesReady, foldVars
  <2> QED
    BY <2>3, <2>4, <2>5 DEF SupInv
<1> QED
  BY <1>3, <1>4

(* And the actions that only move one frame along the producers' statuses. *)
LEMMA StatusInv ==
    ASSUME SupInv, NEW f \in Frames, NEW s \in Producing,
           status[f] \in {"received", "prefetching", "prefetched"},
           MarkStatus(f, s),
           s = "folding" => inFold = NoFrame /\ inFold' = f,
           s # "folding" => inFold' = inFold,
           UNCHANGED <<inHand, lost, clears>>
    PROVE  SupInv'
<1>1. TypeOK /\ Placement /\ UrgentLaneIndexesReady
  BY DEF SupInv
<1>2. PlacementOf(f)
  BY <1>1 DEF Placement
<1>3. f \in sessions /\ status' = [status EXCEPT ![f] = s]
  BY <1>2 DEF PlacementOf, Producing, MarkStatus
<1>4. UNCHANGED <<flagVars, sessions, foldVars, tierVars, nextSeq, count>>
  BY DEF MarkStatus
<1>5. TypeOK'
  BY <1>1, <1>3, <1>4 DEF TypeOK, Statuses, flagVars, foldVars, tierVars
<1>6. Placement'
  <2> SUFFICES ASSUME NEW g \in Frames PROVE PlacementOf(g)'
    BY DEF Placement
  <2>1. PlacementOf(g)
    BY <1>1 DEF Placement
  <2>2. status'[g] = IF g = f THEN s ELSE status[g]
    BY <1>1, <1>3 DEF TypeOK
  <2>3. g # NoFrame
    BY TiersAssumption DEF Frames, NoFrame
  <2> QED
    BY <1>2, <1>3, <1>4, <2>1, <2>2, <2>3
    DEF PlacementOf, Producing, flagVars, foldVars, tierVars
<1>7. UrgentLaneIndexesReady'
  BY <1>1, <1>4 DEF UrgentLaneIndexesReady, foldVars, tierVars
<1> QED
  BY <1>5, <1>6, <1>7 DEF SupInv

LEMMA FinishFoldInv ==
    ASSUME SupInv, NEW f \in Frames, FinishFold(f)
    PROVE  SupInv'
<1>1. TypeOK /\ Placement /\ UrgentLaneIndexesReady
  BY DEF SupInv
<1>2. PICK t \in Tags : MarkFolded(f, t)
  BY DEF FinishFold
<1>3. /\ inFold = f /\ inFold' = NoFrame
      /\ UNCHANGED <<inHand, lost, clears>>
  BY DEF FinishFold
<1>4. status[f] = "folding" /\ f \in sessions /\ f \notin ready
  BY <1>1, <1>3 DEF Placement, PlacementOf, Producing
<1>5. /\ status' = [status EXCEPT ![f] = "ready"]
      /\ clock' = clock + 1
      /\ tag' = [tag EXCEPT ![f] = t]
      /\ folded' = [folded EXCEPT ![f] = clock + 1]
      /\ stamp' = [stamp EXCEPT ![f] = clock + 1]
      /\ ready' = ready \cup {f}
      /\ urgentLane' = IF t.urgent THEN urgentLane \cup {f} ELSE urgentLane
      /\ UNCHANGED <<flagVars, sessions, overflow, consolidation, nextSeq,
                     count>>
  BY <1>2, <1>4 DEF MarkFolded
<1>6. TypeOK'
  BY <1>1, <1>3, <1>5 DEF TypeOK, Statuses, flagVars
<1>7. Placement'
  <2> SUFFICES ASSUME NEW g \in Frames PROVE PlacementOf(g)'
    BY DEF Placement
  <2>1. PlacementOf(g) /\ PlacementOf(f)
    BY <1>1 DEF Placement
  <2>2. status'[g] = IF g = f THEN "ready" ELSE status[g]
    BY <1>1, <1>5 DEF TypeOK
  <2>3. g # NoFrame
    BY TiersAssumption DEF Frames, NoFrame
  <2> QED
    BY <1>3, <1>4, <1>5, <2>1, <2>2, <2>3 DEF PlacementOf, Producing
<1>8. UrgentLaneIndexesReady'
  <2>1. /\ tag'[f] = t
        /\ \A g \in Frames \ {f} : tag'[g] = tag[g]
        /\ ready \subseteq Frames
    BY <1>1, <1>5 DEF TypeOK
  <2> QED
    BY <1>1, <1>4, <1>5, <2>1 DEF UrgentLaneIndexesReady
<1> QED
  BY <1>6, <1>7, <1>8 DEF SupInv

LEMMA CommitInv == SupInv /\ Commit => SupInv'
<1> SUFFICES ASSUME SupInv, Commit PROVE SupInv'
  OBVIOUS
<1>1. TypeOK /\ Placement /\ UrgentLaneIndexesReady
  BY DEF SupInv
<1>2. /\ UNCHANGED <<flagVars, foldVars, tierVars, nextSeq, inFold, lost,
                     clears>>
      /\ inHand # NoFrame /\ inHand' = NoFrame
  BY DEF Commit, MarkCommitted
<1>3. UrgentLaneIndexesReady'
  BY <1>1, <1>2 DEF UrgentLaneIndexesReady, foldVars, tierVars
<1>4. CASE inHand \in sessions
  <2>1. /\ status' = [status EXCEPT ![inHand] = "deep_processed"]
        /\ sessions' = sessions \ {inHand}
        /\ count' = [count EXCEPT !.deepProcessed = @ + 1]
    BY <1>4 DEF Commit, MarkCommitted
  <2>2. inHand \in Frames /\ count' \in Counts
    BY <1>1, <1>4, <2>1, CountDeepProcessed DEF TypeOK
  <2>3. TypeOK'
    BY <1>1, <1>2, <2>1, <2>2
    DEF TypeOK, Statuses, flagVars, foldVars, tierVars
  <2>4. Placement'
    <3> SUFFICES ASSUME NEW g \in Frames PROVE PlacementOf(g)'
      BY DEF Placement
    <3>1. PlacementOf(g) /\ PlacementOf(inHand)
      BY <1>1, <2>2 DEF Placement
    <3>2. status'[g] = IF g = inHand THEN "deep_processed" ELSE status[g]
      BY <1>1, <2>1 DEF TypeOK
    <3>3. g # NoFrame
      BY TiersAssumption DEF Frames, NoFrame
    <3> QED
      BY <1>2, <1>4, <2>1, <3>1, <3>2, <3>3
      DEF PlacementOf, Producing, flagVars, foldVars, tierVars
  <2> QED
    BY <1>3, <2>3, <2>4 DEF SupInv
<1>5. CASE inHand \notin sessions
  <2>1. UNCHANGED <<status, sessions, count>>
    BY <1>5 DEF Commit, MarkCommitted
  <2>2. TypeOK'
    BY <1>1, <1>2, <2>1 DEF TypeOK, flagVars, foldVars, tierVars
  <2>3. Placement'
    <3> SUFFICES ASSUME NEW g \in Frames PROVE PlacementOf(g)'
      BY DEF Placement
    <3>1. PlacementOf(g)
      BY <1>1 DEF Placement
    <3>2. g # NoFrame
      BY TiersAssumption DEF Frames, NoFrame
    <3> QED
      BY <1>2, <1>5, <2>1, <3>1, <3>2
      DEF PlacementOf, Producing, flagVars, foldVars, tierVars
  <2> QED
    BY <1>3, <2>2, <2>3 DEF SupInv
<1> QED
  BY <1>4, <1>5

LEMMA RestInv == SupInv /\ Rest => SupInv'
<1> SUFFICES ASSUME SupInv, Rest PROVE SupInv'
  OBVIOUS
<1>1. TypeOK /\ Placement /\ UrgentLaneIndexesReady
  BY DEF SupInv
<1>2. /\ consolidation' = consolidation \ Drained
      /\ sessions' = sessions \ Drained
      /\ count' = [count EXCEPT !.drained = @ + Cardinality(Drained)]
      /\ UNCHANGED <<flagVars, status, foldVars, ready, urgentLane, overflow,
                     nextSeq, callerVars>>
  BY DEF Rest, DrainConsolidation
<1>3. Drained \subseteq consolidation /\ Drained \subseteq Frames
  BY <1>1, DrainedFromConsolidation DEF TypeOK
<1>4. count' \in Counts
  BY <1>1, <1>2, <1>3, FramesFinite, CountDrained DEF TypeOK
<1>5. TypeOK'
  BY <1>1, <1>2, <1>4 DEF TypeOK, flagVars, foldVars, callerVars
<1>6. Placement'
  <2> SUFFICES ASSUME NEW g \in Frames PROVE PlacementOf(g)'
    BY DEF Placement
  <2>1. PlacementOf(g)
    BY <1>1 DEF Placement
  <2> QED
    BY <1>2, <1>3, <2>1 DEF PlacementOf, Producing, foldVars, callerVars
<1>7. UrgentLaneIndexesReady'
  BY <1>1, <1>2 DEF UrgentLaneIndexesReady, foldVars
<1> QED
  BY <1>5, <1>6, <1>7 DEF SupInv

LEMMA ReceiveInv == SupInv /\ Receive => SupInv'
<1> SUFFICES ASSUME SupInv, Receive PROVE SupInv'
  OBVIOUS
<1> DEFINE new == nextSeq + 1
<1>1. TypeOK /\ Placement /\ UrgentLaneIndexesReady
  BY DEF SupInv
<1>2. /\ nextSeq < MaxSeq /\ nextSeq' = new
      /\ sessions' = sessions \cup {new}
      /\ status' = [status EXCEPT ![new] = "received"]
      /\ UNCHANGED <<flagVars, foldVars, tierVars, count, callerVars>>
  BY DEF Receive, EnqueueObservation
<1>3. new \in Frames /\ nextSeq \in Nat
  BY <1>1, <1>2, TiersAssumption DEF TypeOK, Frames
<1>4. TypeOK'
  <2>1. nextSeq' \in 0..MaxSeq
    BY <1>2, <1>3, TiersAssumption
  <2>2. sessions' \subseteq Frames
    BY <1>1, <1>2, <1>3 DEF TypeOK
  <2>3. status' \in [Frames -> Statuses]
    <3> HIDE DEF new
    <3> QED
      BY <1>1, <1>2 DEF TypeOK, Statuses, Producing
  <2> QED
    BY <1>1, <1>2, <2>1, <2>2, <2>3
    DEF TypeOK, flagVars, foldVars, tierVars, callerVars
<1>5. Placement'
  <2> SUFFICES ASSUME NEW g \in Frames PROVE PlacementOf(g)'
    BY DEF Placement
  <2>1. PlacementOf(g) /\ PlacementOf(new)
    BY <1>1, <1>3 DEF Placement
  <2>2. status'[g] = IF g = new THEN "received" ELSE status[g]
    BY <1>1, <1>2 DEF TypeOK
  <2>3. g \in Nat /\ (g > new <=> g > nextSeq /\ g # new)
    BY <1>3 DEF Frames
  <2> QED
    BY <1>2, <1>3, <2>1, <2>2, <2>3
    DEF PlacementOf, Producing, foldVars, tierVars, callerVars
<1>6. UrgentLaneIndexesReady'
  BY <1>1, <1>2 DEF UrgentLaneIndexesReady, foldVars, tierVars
<1> QED
  BY <1>4, <1>5, <1>6 DEF SupInv

(* The cycle task may leave a session behind; a clear leaves none.         *)
LEMMA AbandonInv == SupInv /\ AbandonCycle => SupInv'
<1> SUFFICES ASSUME SupInv, AbandonCycle PROVE SupInv'
  OBVIOUS
<1>1. TypeOK /\ Placement /\ UrgentLaneIndexesReady
  BY DEF SupInv
<1>2. /\ inHand # NoFrame /\ inHand' = NoFrame
      /\ lost' = IF inHand \in sessions THEN lost \cup {inHand} ELSE lost
      /\ UNCHANGED <<supVars, inFold, clears>>
  BY DEF AbandonCycle
<1>3. TypeOK'
  BY <1>1, <1>2 DEF TypeOK, supVars, flagVars, foldVars, tierVars
<1>4. Placement'
  <2> SUFFICES ASSUME NEW g \in Frames PROVE PlacementOf(g)'
    BY DEF Placement
  <2>1. PlacementOf(g)
    BY <1>1 DEF Placement
  <2>2. g # NoFrame
    BY TiersAssumption DEF Frames, NoFrame
  <2> QED
    BY <1>2, <2>1, <2>2
    DEF PlacementOf, Producing, supVars, foldVars, tierVars
<1>5. UrgentLaneIndexesReady'
  BY <1>1, <1>2 DEF UrgentLaneIndexesReady, supVars, foldVars, tierVars
<1> QED
  BY <1>3, <1>4, <1>5 DEF SupInv

LEMMA ClearInv == SupInv /\ Clear => SupInv'
<1> SUFFICES ASSUME SupInv, Clear PROVE SupInv'
  OBVIOUS
<1>1. TypeOK
  BY DEF SupInv
<1>2. TypeOK'
  BY <1>1, TiersAssumption, BoundsAssumption
  DEF TypeOK, Clear, ClearSupervisor, Statuses, Counts, ZeroCount, flagVars,
      NoFrame, Stale
<1>3. Placement'
  <2> SUFFICES ASSUME NEW g \in Frames PROVE PlacementOf(g)'
    BY DEF Placement
  <2>1. g # NoFrame /\ g # Stale /\ g > 0
    BY TiersAssumption DEF Frames, NoFrame, Stale
  <2> QED
    BY <2>1 DEF PlacementOf, Producing, Clear, ClearSupervisor
<1>4. UrgentLaneIndexesReady'
  BY DEF UrgentLaneIndexesReady, Clear, ClearSupervisor
<1> QED
  BY <1>2, <1>3, <1>4 DEF SupInv

LEMMA ConfigureInv ==
    ASSUME SupInv, NEW c \in Capacities, Configure(c)
    PROVE  SupInv'
<1>1. /\ capacity' = IF c < 1 THEN 1 ELSE c
      /\ UNCHANGED <<config, sessions, status, foldVars, tierVars, nextSeq,
                     count, callerVars>>
  BY DEF Configure, SetCapacity
<1>2. TypeOK'
  <2>1. c \in Nat
    BY TiersAssumption
  <2> QED
    BY <1>1, <2>1 DEF SupInv, TypeOK, foldVars, tierVars, callerVars
<1>3. Placement'
  BY <1>1 DEF SupInv, Placement, PlacementOf, foldVars, tierVars, callerVars
<1>4. UrgentLaneIndexesReady'
  BY <1>1 DEF SupInv, UrgentLaneIndexesReady, foldVars, tierVars
<1> QED
  BY <1>2, <1>3, <1>4 DEF SupInv

LEMMA FoldRaisesInv ==
    ASSUME SupInv, NEW f \in Frames, NEW g \in Frames \cup {NoFrame},
           FoldRaises(f, g)
    PROVE  SupInv'
<1>1. TypeOK /\ Placement /\ UrgentLaneIndexesReady
  BY DEF SupInv
<1>2. /\ inFold = f /\ inFold' = NoFrame
      /\ lost' = IF g = f THEN lost ELSE lost \cup {f}
      /\ UNCHANGED <<inHand, clears>>
  BY DEF FoldRaises
<1>3. f # NoFrame
  BY TiersAssumption DEF Frames, NoFrame
<1>4. CASE g = NoFrame /\ UNCHANGED supVars
  <2>1. TypeOK'
    BY <1>1, <1>2, <1>4 DEF TypeOK, supVars, flagVars, foldVars, tierVars
  <2>2. Placement'
    <3> SUFFICES ASSUME NEW h \in Frames PROVE PlacementOf(h)'
      BY DEF Placement
    <3>1. PlacementOf(h)
      BY <1>1 DEF Placement
    <3>2. h # NoFrame
      BY TiersAssumption DEF Frames, NoFrame
    <3> QED
      BY <1>2, <1>3, <1>4, <3>1, <3>2
      DEF PlacementOf, Producing, supVars, foldVars, tierVars
  <2>3. UrgentLaneIndexesReady'
    BY <1>1, <1>4 DEF UrgentLaneIndexesReady, supVars, foldVars, tierVars
  <2> QED
    BY <2>1, <2>2, <2>3 DEF SupInv
<1>5. CASE g \in Frames /\ status[g] # "none" /\ MarkFailed(g)
  <2>1. g # NoFrame
    BY <1>5, TiersAssumption DEF Frames, NoFrame
  <2>2. CallersFit(g)
    BY <1>1, <1>2, <2>1 DEF CallersFit, TypeOK
  <2> QED
    BY <1>5, <2>2, FailedInv
<1> QED
  BY <1>4, <1>5 DEF FoldRaises

-----------------------------------------------------------------------------
(* SupInv is inductive.                                                    *)
LEMMA NextInv == SupInv /\ [Next]_vars => SupInv'
<1> SUFFICES ASSUME SupInv, [Next]_vars PROVE SupInv'
  OBVIOUS
<1>1. TypeOK /\ Placement /\ UrgentLaneIndexesReady
  BY DEF SupInv
<1>2. CASE Receive
  BY <1>2, ReceiveInv
<1>3. ASSUME NEW f \in Frames, StartPrefetch(f) PROVE SupInv'
  BY <1>3, StatusInv DEF StartPrefetch, callerVars, Producing
<1>4. ASSUME NEW f \in Frames, FinishPrefetch(f) PROVE SupInv'
  BY <1>4, StatusInv DEF FinishPrefetch, callerVars, Producing
<1>5. ASSUME NEW f \in Frames, DropOldest(f) PROVE SupInv'
  <2>1. /\ status[f] = "received" /\ MarkFailed(f)
        /\ UNCHANGED <<inFold, inHand, lost, clears>>
    BY <1>5 DEF DropOldest, callerVars
  <2>2. f # inFold
    BY <1>1, <2>1 DEF Placement, PlacementOf
  <2>3. CallersFit(f)
    BY <1>1, <2>1, <2>2 DEF CallersFit, TypeOK
  <2> QED
    BY <2>1, <2>3, FailedInv
<1>6. ASSUME NEW f \in Frames, StartFold(f) PROVE SupInv'
  BY <1>6, StatusInv DEF StartFold, Producing
<1>7. ASSUME NEW f \in Frames, FinishFold(f) PROVE SupInv'
  BY <1>7, FinishFoldInv
<1>8. ASSUME NEW f \in Frames, NEW g \in Frames \cup {NoFrame},
             FoldRaises(f, g)
      PROVE  SupInv'
  BY <1>8, FoldRaisesInv
<1>9. CASE Pop
  BY <1>9, PopInv
<1>10. CASE Commit
  BY <1>10, CommitInv
<1>11. CASE AbandonCycle
  BY <1>11, AbandonInv
<1>12. CASE Rest
  BY <1>12, RestInv
<1>13. CASE Clear
  BY <1>13, ClearInv
<1>14. ASSUME NEW c \in Capacities, Configure(c) PROVE SupInv'
  BY <1>14, ConfigureInv
<1>15. CASE UNCHANGED vars
  BY <1>1, <1>15
  DEF SupInv, TypeOK, Placement, PlacementOf, UrgentLaneIndexesReady, vars,
      supVars, callerVars, flagVars, foldVars, tierVars
<1> QED
  BY <1>2, <1>3, <1>4, <1>5, <1>6, <1>7, <1>8, <1>9, <1>10, <1>11, <1>12,
     <1>13, <1>14, <1>15 DEF Next

THEOREM SupervisorInvariant == Spec => []SupInv
<1>1. Init => SupInv
  BY InitInv
<1>2. SupInv /\ [Next]_vars => SupInv'
  BY NextInv
<1> QED
  BY <1>1, <1>2, PTL DEF Spec

(* Type correctness, for every value of the constants.                     *)
THEOREM TypeCorrect == Spec => []TypeOK
<1>1. SupInv => TypeOK
  BY DEF SupInv
<1> QED
  BY <1>1, SupervisorInvariant, PTL

(* However folds, pops, evictions, promotions, failures, rests, clears and *)
(* interruptions interleave, every session of SerialPrefetchSupervisor is  *)
(* in exactly the place its status names.                                  *)
THEOREM SessionsArePlaced == Spec => []Placement
<1>1. SupInv => Placement
  BY DEF SupInv
<1> QED
  BY <1>1, SupervisorInvariant, PTL

(* _urgent indexes exactly the urgent sessions of ready, so the O(1)       *)
(* pre-emption never misses one that waits in T1 nor takes one that does   *)
(* not.                                                                    *)
THEOREM UrgentLaneIsAnIndex == Spec => []UrgentLaneIndexesReady
<1>1. SupInv => UrgentLaneIndexesReady
  BY DEF SupInv
<1> QED
  BY <1>1, SupervisorInvariant, PTL

(* No two tiers hold the same session, and none holds the one the cycle    *)
(* deliberates: it cannot be selected twice.                               *)
TiersDisjoint ==
    /\ ready \cap overflow = {} /\ ready \cap consolidation = {}
    /\ overflow \cap consolidation = {}
    /\ inHand \notin ready \cup overflow

THEOREM NoSessionInTwoTiers == Spec => []TiersDisjoint
<1>1. SupInv => TiersDisjoint
  BY DEF SupInv, TypeOK, Placement, PlacementOf, TiersDisjoint
<1> QED
  BY <1>1, SupervisorInvariant, PTL

-----------------------------------------------------------------------------
(* A pop takes from the urgent lane if there is anything in it, and the    *)
(* lane it chooses from holds every urgent candidate.                      *)
LEMMA PopTakesUrgent ==
    ASSUME UrgentLaneIndexesReady, NEW f, PopCommitCandidate(f),
           ~tag[f].urgent
    PROVE  \A g \in ready' : ~tag[g].urgent
<1> DEFINE ev == Evicted
           sp == Spilled(ev)
           pr == Promoted(ev, sp)
           at == StampAfterPop(ev, sp, pr)
           candidates == (ready \ ev) \cup pr
           lane == (urgentLane \ ev) \cup {g \in pr : tag[g].urgent}
<1>1. /\ f \in candidates /\ ready' = candidates \ {f}
      /\ Selects(f, candidates, lane, at)
  BY DEF PopCommitCandidate
<1>2. lane = {g \in candidates : tag[g].urgent}
  BY DEF UrgentLaneIndexesReady
<1> HIDE DEF candidates, lane, at
<1>3. lane # {} => f \in lane
  BY <1>1 DEF Selects
<1> QED
  BY <1>1, <1>2, <1>3

(* Nothing but a pop puts a session into the cycle's hands.                *)
LEMMA PoppedByPop == [Next]_vars /\ Popped => Pop
<1> SUFFICES ASSUME [Next]_vars, Popped PROVE Pop
  OBVIOUS
<1>1. NoFrame \notin Frames /\ Stale \notin Frames
  BY TiersAssumption DEF Frames, NoFrame, Stale
<1>2. inHand' # inHand /\ inHand = NoFrame /\ inHand' \in Frames
  BY <1>1 DEF Popped
<1> QED
  BY <1>1, <1>2
  DEF Next, vars, callerVars, Receive, StartPrefetch, FinishPrefetch,
      DropOldest, StartFold, FinishFold, FoldRaises, Commit, AbandonCycle,
      Rest, Clear, Configure

(* While an urgent session is ready, be it one the same pop has promoted,  *)
(* the cycle takes an urgent one, under every setting of the flags.        *)
THEOREM UrgentGoesFirst == Spec => UrgentFirst
<1> DEFINE Choice == Popped /\ ~tag[inHand'].urgent
                     => \A f \in ready' : ~tag[f].urgent
<1>1. ASSUME SupInv, [Next]_vars, Popped, ~tag[inHand'].urgent
      PROVE  \A f \in ready' : ~tag[f].urgent
  <2>1. PopCommitCandidate(inHand')
    BY <1>1, PoppedByPop DEF Pop
  <2> QED
    BY <1>1, <2>1, PopTakesUrgent DEF SupInv
<1>2. SupInv /\ [Next]_vars => [Choice]_vars
  BY <1>1
<1> QED
  BY <1>2, SupervisorInvariant, PTL DEF Spec, UrgentFirst

-----------------------------------------------------------------------------
(***************************************************************************)
(* The order of T1 in the parity configuration, for every value of the     *)
(* constants: without an overflow tier the in-order fold keeps the         *)
(* insertion order of ready equal to the order of frame_seq, so the O(1)   *)
(* head is the minimum the arbiter would scan for.  The invariant relates  *)
(* T1 to the frames the producers still hold.                              *)
(***************************************************************************)
(* The frames a fold may still start with.                                 *)
Pending(f) == status[f] \in {"received", "prefetching", "prefetched"}

(* What is ready precedes the frame that is being folded, and both precede *)
(* what is still to be folded.                                             *)
ReadyPrecedes ==
    /\ \A f \in ready, g \in Frames : Pending(g) => f < g
    /\ inFold # NoFrame => /\ \A f \in ready : f < inFold
                           /\ \A g \in Frames : Pending(g) => inFold < g

(* Insertion times order T1 as the sequence numbers do.                    *)
ReadyStamped ==
    /\ \A f \in ready : stamp[f] <= clock
    /\ \A f, g \in ready : f < g => stamp[f] < stamp[g]

Order == ~config.overflow => overflow = {} /\ ReadyPrecedes /\ ReadyStamped

-----------------------------------------------------------------------------
LEMMA InitOrder == Init => Order
BY DEF Init, SupInit, Order, ReadyPrecedes, ReadyStamped

(* What a pop takes out of T1, spills and promotes without T2.             *)
LEMMA PopWithoutOverflow ==
    ASSUME TypeOK, ~config.overflow, overflow = {},
           NEW f, PopCommitCandidate(f)
    PROVE  /\ ready' = (ready \ Evicted) \ {f} /\ f \in ready \ Evicted
           /\ overflow' = {} /\ UNCHANGED <<config, tag>>
           /\ \A g \in ready \ Evicted : stamp'[g] = stamp[g]
           /\ clock' >= clock
           /\ \A g \in Frames : status'[g] \in {status[g], "deep_processing",
                                                "coalesced"}
           /\ LET lane == urgentLane \ Evicted
              IN  Selects(f, ready \ Evicted, lane, stamp')
<1> DEFINE ev == Evicted
           sp == Spilled(ev)
           fg == Forgotten(ev, sp)
           pr == Promoted(ev, sp)
           at == StampAfterPop(ev, sp, pr)
<1>1. OverflowPool(ev) = {}
  BY DEF OverflowPool
<1>2. sp = {} /\ pr = {}
  BY <1>1, SpilledFromPool, PromotedFromStaged
<1>3. ev \subseteq ready /\ ready \subseteq Frames /\ clock \in Nat
  BY EvictedFromReady DEF TypeOK
<1>4. /\ f \in (ready \ ev) \cup pr
      /\ Selects(f, (ready \ ev) \cup pr,
                 (urgentLane \ ev) \cup {g \in pr : tag[g].urgent}, at)
      /\ status' = [g \in Frames |->
             CASE g = f -> "deep_processing"
               [] g # f /\ g \in pr -> "ready"
               [] g # f /\ g \in sp -> "consolidation"
               [] g # f /\ g \in ev /\ g \notin sp \cup pr ->
                    IF config.overflow THEN "overflow" ELSE "coalesced"
               [] OTHER -> status[g]]
      /\ ready' = ((ready \ ev) \cup pr) \ {f}
      /\ overflow' = OverflowPool(ev) \ (sp \cup pr)
      /\ stamp' = at
      /\ clock' = clock + Cardinality(ev) + Cardinality(sp) + Cardinality(pr)
      /\ UNCHANGED <<flagVars, tag>>
  BY DEF PopCommitCandidate
<1>5. ASSUME NEW g \in ready \ ev PROVE at[g] = stamp[g]
  BY <1>2, <1>3
  DEF StampAfterPop, StampInConsolidation, StampInOverflow
<1>6. clock' >= clock
  <2>1. /\ Cardinality(ev) \in Nat /\ Cardinality(sp) \in Nat
        /\ Cardinality(pr) \in Nat
    BY <1>2, <1>3, FramesFinite
  <2> HIDE DEF ev, sp, pr
  <2> QED
    BY <1>3, <1>4, <2>1
<1>7. (ready \ ev) \cup pr = ready \ ev
      /\ (urgentLane \ ev) \cup {g \in pr : tag[g].urgent} = urgentLane \ ev
  BY <1>2
<1> HIDE DEF ev, sp, fg, pr, at
<1>8. ASSUME NEW g \in Frames
      PROVE  status'[g] \in {status[g], "deep_processing", "coalesced"}
  BY <1>2, <1>4
<1> QED
  BY <1>1, <1>2, <1>4, <1>5, <1>6, <1>7, <1>8 DEF ev, flagVars

LEMMA PopOrder == SupInv /\ Order /\ Pop => Order'
<1> SUFFICES ASSUME SupInv, Order, Pop, ~config.overflow
             PROVE  Order'
  BY PopHasEffect DEF SupInv, Pop, PopEffect, flagVars, Order
<1>1. PICK f \in Frames : PopCommitCandidate(f)
  BY DEF Pop
<1>2. /\ ready' \subseteq ready \ Evicted
      /\ overflow' = {} /\ config' = config /\ inFold' = inFold
      /\ \A g \in ready \ Evicted : stamp'[g] = stamp[g]
      /\ clock' >= clock
      /\ \A g \in Frames : Pending(g)' => Pending(g)
  BY <1>1, PopWithoutOverflow DEF SupInv, Order, Pop, Pending
<1>3. /\ ready \subseteq Frames /\ stamp \in [Frames -> Nat]
      /\ clock \in Nat /\ clock' \in Nat
  <2>1. clock' \in Nat
    BY <1>1, PopHasEffect DEF SupInv, PopEffect
  <2> QED
    BY <2>1 DEF SupInv, TypeOK
<1>4. ReadyPrecedes'
  BY <1>2 DEF Order, ReadyPrecedes
<1>5. ReadyStamped'
  BY <1>2, <1>3 DEF Order, ReadyStamped
<1> QED
  BY <1>2, <1>4, <1>5 DEF Order

(* A step that adds nothing to T1, makes no frame pending and begins no    *)
(* fold keeps the order.                                                   *)
LEMMA ShrinkOrder ==
    ASSUME Order, ready' \subseteq ready, overflow' \subseteq overflow,
           inFold' \in {inFold, NoFrame}, UNCHANGED <<config, stamp, clock>>,
           \A g \in Frames : Pending(g)' => Pending(g)
    PROVE  Order'
BY DEF Order, ReadyPrecedes, ReadyStamped

LEMMA StatusOrder ==
    ASSUME SupInv, Order, NEW f \in Frames, Pending(f), NEW s \in Producing,
           MarkStatus(f, s), inFold' = inFold, s # "folding"
    PROVE  Order'
<1>1. /\ UNCHANGED <<config, stamp, clock, ready, overflow>>
      /\ status' \in {status, [status EXCEPT ![f] = s]}
  BY DEF MarkStatus, flagVars, foldVars, tierVars
<1>2. status \in [Frames -> Statuses]
  BY DEF SupInv, TypeOK
<1>3. \A g \in Frames : Pending(g)' => Pending(g)
  BY <1>1, <1>2 DEF Pending
<1> QED
  BY <1>1, <1>3, ShrinkOrder

(* The fold begins with the first of the pending frames.                   *)
LEMMA StartFoldOrder ==
    ASSUME SupInv, Order, NEW f \in Frames, StartFold(f)
    PROVE  Order'
<1>1. /\ UNCHANGED <<config, stamp, clock, ready, overflow>>
      /\ status' \in {status, [status EXCEPT ![f] = "folding"]}
      /\ status[f] = "prefetched" /\ inFold' = f
      /\ \A g \in 1..(f - 1) : ~Pending(g)
  BY DEF StartFold, MarkStatus, flagVars, foldVars, tierVars, Pending
<1>2. f \in sessions
  BY <1>1 DEF SupInv, Placement, PlacementOf, Producing
<1>3. status' = [status EXCEPT ![f] = "folding"]
  BY <1>2 DEF StartFold, MarkStatus
<1>4. status \in [Frames -> Statuses] /\ Frames \subseteq Nat \ {0}
  BY DEF SupInv, TypeOK, Frames
<1>5. \A g \in Frames : Pending(g)' => Pending(g) /\ g # f
  BY <1>3, <1>4 DEF Pending
<1>6. \A g \in Frames : Pending(g)' => f < g
  BY <1>1, <1>4, <1>5
<1>7. Pending(f)
  BY <1>1 DEF Pending
<1> QED
  BY <1>1, <1>5, <1>6, <1>7 DEF Order, ReadyPrecedes, ReadyStamped

LEMMA FinishFoldOrder ==
    ASSUME SupInv, Order, NEW f \in Frames, FinishFold(f)
    PROVE  Order'
<1>1. /\ inFold = f /\ inFold' = NoFrame
  BY DEF FinishFold
<1>2. f # NoFrame /\ f \in Nat /\ Frames \subseteq Nat
  BY TiersAssumption DEF Frames, NoFrame
<1>3. status[f] = "folding" /\ f \in sessions /\ f \notin ready
  BY <1>1 DEF SupInv, Placement, PlacementOf, Producing
<1>4. /\ status' = [status EXCEPT ![f] = "ready"]
      /\ clock' = clock + 1
      /\ stamp' = [stamp EXCEPT ![f] = clock + 1]
      /\ ready' = ready \cup {f}
      /\ UNCHANGED <<config, overflow>>
  BY <1>3 DEF FinishFold, MarkFolded, flagVars
<1>5. /\ status \in [Frames -> Statuses] /\ stamp \in [Frames -> Nat]
      /\ clock \in Nat /\ ready \subseteq Frames
  BY DEF SupInv, TypeOK
<1>6. \A g \in Frames : Pending(g)' => Pending(g)
  BY <1>4, <1>5 DEF Pending
<1>7. ASSUME ~config.overflow PROVE ReadyPrecedes'
  BY <1>1, <1>2, <1>4, <1>6, <1>7 DEF Order, ReadyPrecedes
<1>8. ASSUME ~config.overflow PROVE ReadyStamped'
  <2>1. \A g \in ready : g < f /\ stamp[g] <= clock /\ g # f
    BY <1>1, <1>2, <1>3, <1>8 DEF Order, ReadyPrecedes, ReadyStamped
  <2>2. stamp'[f] = clock + 1 /\ \A g \in ready : stamp'[g] = stamp[g]
    BY <1>3, <1>4, <1>5
  <2>3. \A g \in ready' : stamp'[g] <= clock'
    BY <1>4, <1>5, <2>1, <2>2
  <2>4. ASSUME NEW g \in ready', NEW h \in ready', g < h
        PROVE  stamp'[g] < stamp'[h]
    <3>1. g \in ready
      BY <1>2, <1>4, <1>5, <2>1, <2>4
    <3>2. CASE h = f
      BY <1>5, <2>1, <2>2, <3>1, <3>2
    <3>3. CASE h \in ready
      BY <1>8, <2>2, <2>4, <3>1, <3>3 DEF Order, ReadyStamped
    <3> QED
      BY <1>4, <2>4, <3>2, <3>3
  <2> QED
    BY <2>3, <2>4 DEF ReadyStamped
<1> QED
  BY <1>4, <1>7, <1>8 DEF Order

LEMMA FailedOrder ==
    ASSUME SupInv, Order, NEW f, MarkFailed(f), inFold' \in {inFold, NoFrame}
    PROVE  Order'
<1>1. /\ UNCHANGED <<config, stamp, clock>>
      /\ ready' \subseteq ready /\ overflow' \subseteq overflow
      /\ status' \in {status, [status EXCEPT ![f] = "failed"]}
  BY DEF MarkFailed, flagVars, foldVars
<1>2. status \in [Frames -> Statuses]
  BY DEF SupInv, TypeOK
<1>3. \A g \in Frames : Pending(g)' => Pending(g)
  BY <1>1, <1>2 DEF Pending
<1> QED
  BY <1>1, <1>3, ShrinkOrder

(* A new frame comes after all there are.                                  *)
LEMMA ReceiveOrder == SupInv /\ Order /\ Receive => Order'
<1> SUFFICES ASSUME SupInv, Order, Receive PROVE Order'
  OBVIOUS
<1> DEFINE new == nextSeq + 1
<1>1. /\ status' = [status EXCEPT ![new] = "received"]
      /\ UNCHANGED <<config, stamp, clock, ready, overflow, inFold>>
  BY DEF Receive, EnqueueObservation, flagVars, foldVars, tierVars, callerVars
<1>2. /\ status \in [Frames -> Statuses] /\ nextSeq \in Nat
      /\ Frames \subseteq Nat /\ ready \subseteq Frames
      /\ inFold \in Frames \cup {NoFrame}
  BY DEF SupInv, TypeOK, Frames
<1>3. \A g \in Frames : status[g] # "none" => g < new
  BY <1>2 DEF SupInv, Placement, PlacementOf
<1>4. /\ \A g \in ready : g < new
      /\ inFold # NoFrame => inFold < new
  BY <1>2, <1>3 DEF SupInv, Placement, PlacementOf
<1>5. \A g \in Frames : Pending(g)' => Pending(g) \/ g = new
  BY <1>1, <1>2 DEF Pending
<1> HIDE DEF new
<1> QED
  BY <1>1, <1>4, <1>5 DEF Order, ReadyPrecedes, ReadyStamped

LEMMA NextOrder == SupInv /\ Order /\ [Next]_vars => Order'
<1> SUFFICES ASSUME SupInv, Order, [Next]_vars PROVE Order'
  OBVIOUS
<1>1. CASE Receive \/ Pop
  BY <1>1, ReceiveOrder, PopOrder
<1>2. ASSUME NEW f \in Frames, StartPrefetch(f) \/ FinishPrefetch(f)
      PROVE  Order'
  BY <1>2, StatusOrder
  DEF StartPrefetch, FinishPrefetch, callerVars, Pending, Producing
<1>3. ASSUME NEW f \in Frames, DropOldest(f) PROVE Order'
  BY <1>3, FailedOrder DEF DropOldest, callerVars
<1>4. ASSUME NEW f \in Frames, StartFold(f) \/ FinishFold(f) PROVE Order'
  BY <1>4, StartFoldOrder, FinishFoldOrder
<1>5. ASSUME NEW f \in Frames, NEW g \in Frames \cup {NoFrame},
             FoldRaises(f, g)
      PROVE  Order'
  <2>1. inFold' = NoFrame
    BY <1>5 DEF FoldRaises
  <2>2. CASE MarkFailed(g)
    BY <2>1, <2>2, FailedOrder
  <2>3. CASE UNCHANGED supVars
    BY <2>1, <2>3, ShrinkOrder
    DEF supVars, flagVars, foldVars, tierVars, Pending
  <2> QED
    BY <1>5, <2>2, <2>3 DEF FoldRaises
<1>6. CASE Commit
  <2>1. /\ UNCHANGED <<config, stamp, clock, ready, overflow, inFold>>
        /\ status' \in {status, [status EXCEPT ![inHand] = "deep_processed"]}
    BY <1>6 DEF Commit, MarkCommitted, flagVars, foldVars, tierVars
  <2>2. status \in [Frames -> Statuses]
    BY DEF SupInv, TypeOK
  <2>3. \A g \in Frames : Pending(g)' => Pending(g)
    BY <2>1, <2>2 DEF Pending
  <2> QED
    BY <2>1, <2>3, ShrinkOrder
<1>7. CASE AbandonCycle
  BY <1>7, ShrinkOrder
  DEF AbandonCycle, supVars, flagVars, foldVars, tierVars, Pending
<1>8. CASE Rest
  BY <1>8, ShrinkOrder
  DEF Rest, DrainConsolidation, callerVars, flagVars, foldVars, Pending
<1>9. CASE Clear
  BY <1>9 DEF Clear, ClearSupervisor, Order, ReadyPrecedes, ReadyStamped,
     flagVars
<1>10. ASSUME NEW c \in Capacities, Configure(c) PROVE Order'
  BY <1>10, ShrinkOrder
  DEF Configure, SetCapacity, callerVars, foldVars, tierVars, Pending
<1>11. CASE UNCHANGED vars
  BY <1>11, ShrinkOrder
  DEF vars, supVars, callerVars, flagVars, foldVars, tierVars, Pending
<1> QED
  BY <1>1, <1>2, <1>3, <1>4, <1>5, <1>6, <1>7, <1>8, <1>9, <1>10, <1>11
  DEF Next

(* Without an overflow tier T1 stays in the order of frame_seq, through    *)
(* evictions, failures, interrupted folds, rests and clears.               *)
THEOREM ReadyStaysInOrder == Spec => []Order
<1>1. Init => SupInv /\ Order
  BY InitInv, InitOrder
<1>2. SupInv /\ Order /\ [Next]_vars => (SupInv /\ Order)'
  BY NextInv, NextOrder
<1> QED
  BY <1>1, <1>2, PTL DEF Spec

-----------------------------------------------------------------------------
(* The O(1) selection takes what the arbiter would take.                   *)
LEMMA PopIsArbiters ==
    ASSUME SupInv, Order, ~config.overflow, ~config.priority,
           NEW f, PopCommitCandidate(f)
    PROVE  ArbiterSelects(f, ready' \cup {f})
<1> DEFINE candidates == ready \ Evicted
           lane == urgentLane \ Evicted
           urgent == {g \in candidates : tag[g].urgent}
<1>1. /\ ready' \cup {f} = candidates /\ f \in candidates /\ tag' = tag
      /\ \A g \in candidates : stamp'[g] = stamp[g]
      /\ Selects(f, candidates, lane, stamp')
  BY PopWithoutOverflow DEF SupInv, Order
<1>2. lane = urgent
  BY DEF SupInv, UrgentLaneIndexesReady
<1>3. ready \subseteq Frames /\ stamp \in [Frames -> Nat]
  BY DEF SupInv, TypeOK
<1>4. ASSUME NEW g \in candidates, stamp'[f] <= stamp'[g] PROVE f <= g
  <2>1. stamp'[f] = stamp[f] /\ stamp'[g] = stamp[g]
    BY <1>1
  <2>2. f \in ready /\ g \in ready
    BY <1>1
  <2>3. f \in Nat /\ g \in Nat /\ stamp[f] \in Nat /\ stamp[g] \in Nat
    BY <1>3, <2>2, TiersAssumption DEF Frames
  <2>4. ~(g < f)
    BY <1>4, <2>1, <2>2, <2>3 DEF Order, ReadyStamped
  <2> QED
    BY <2>3, <2>4
<1>5. urgent \subseteq candidates
  OBVIOUS
<1> HIDE DEF candidates, lane
<1>6. CASE urgent # {}
  BY <1>1, <1>2, <1>4, <1>6 DEF Selects, ArbiterSelects
<1>7. CASE urgent = {}
  BY <1>1, <1>2, <1>4, <1>7 DEF Selects, ArbiterSelects
<1> QED
  BY <1>6, <1>7

(* In the parity configuration the head of ready, or of the urgent lane,   *)
(* is the session the arbiter would scan T1 for.                           *)
THEOREM HeadIsTheMinimum == Spec => HeadIsArbitersChoice
<1> DEFINE Choice == Popped /\ ~config.priority /\ ~config.overflow
                     => ArbiterSelects(inHand', ready' \cup {inHand'})
<1>1. ASSUME SupInv, Order, [Next]_vars, Popped, ~config.priority,
             ~config.overflow
      PROVE  ArbiterSelects(inHand', ready' \cup {inHand'})
  <2>1. PopCommitCandidate(inHand')
    BY <1>1, PoppedByPop DEF Pop
  <2> QED
    BY <1>1, <2>1, PopIsArbiters
<1>2. SupInv /\ Order /\ [Next]_vars => [Choice]_vars
  BY <1>1
<1> QED
  BY <1>2, SupervisorInvariant, ReadyStaysInOrder, PTL
  DEF Spec, HeadIsArbitersChoice

-----------------------------------------------------------------------------
(***************************************************************************)
(* The books of the session manager balance, for every value of the        *)
(* constants.  Booked is inductive together with SupInv: it says outright  *)
(* that, as long as no frame has failed, none has the status "failed", so  *)
(* that every frame T3 holds is still known to sessions.                   *)
(***************************************************************************)
Booked ==
    /\ nextSeq <= Cardinality(sessions) + Departed
    /\ count.failed = 0 => /\ \A f \in Frames : status[f] # "failed"
                           /\ nextSeq = Cardinality(sessions) + Departed

-----------------------------------------------------------------------------
(* What leaves a set of frames is what its cardinality loses, and no more. *)
LEMMA Leaving ==
    ASSUME NEW S, S \subseteq Frames, NEW T, T \subseteq Frames
    PROVE  /\ Cardinality(S \ T) \in Nat /\ Cardinality(S) \in Nat
           /\ Cardinality(T) \in Nat
           /\ Cardinality(S) <= Cardinality(S \ T) + Cardinality(T)
           /\ T \subseteq S =>
                Cardinality(S) = Cardinality(S \ T) + Cardinality(T)
<1>1. /\ IsFiniteSet(S) /\ Cardinality(S) \in Nat
      /\ IsFiniteSet(T) /\ Cardinality(T) \in Nat
      /\ Cardinality(S \ T) \in Nat /\ Cardinality(S \cap T) \in Nat
  BY FramesFinite
<1>2. Cardinality(S \ T) = Cardinality(S) - Cardinality(S \cap T)
  BY <1>1, FS_Difference
<1>3. Cardinality(S \cap T) <= Cardinality(T)
  BY <1>1, FS_Subset
<1>4. T \subseteq S => Cardinality(S \cap T) = Cardinality(T)
  <2>1. T \subseteq S => S \cap T = T
    OBVIOUS
  <2> QED
    BY <2>1
<1> QED
  BY <1>1, <1>2, <1>3, <1>4

LEMMA Joining ==
    ASSUME NEW S, S \subseteq Frames, NEW T, T \subseteq Frames
    PROVE  /\ Cardinality(S \cup T) <= Cardinality(S) + Cardinality(T)
           /\ S \cap T = {} =>
                Cardinality(S \cup T) = Cardinality(S) + Cardinality(T)
<1>1. /\ IsFiniteSet(S) /\ Cardinality(S) \in Nat
      /\ IsFiniteSet(T) /\ Cardinality(T) \in Nat
      /\ Cardinality(S \cup T) \in Nat /\ Cardinality(S \cap T) \in Nat
  BY FramesFinite
<1>2. Cardinality(S \cup T) =
        Cardinality(S) + Cardinality(T) - Cardinality(S \cap T)
  BY <1>1, FS_Union
<1>3. S \cap T = {} => Cardinality(S \cap T) = 0
  BY FS_EmptySet
<1> QED
  BY <1>1, <1>2, <1>3

LEMMA OneLeaves ==
    ASSUME NEW S, S \subseteq Frames, NEW f \in S
    PROVE  Cardinality(S) = Cardinality(S \ {f}) + 1
<1>1. IsFiniteSet({f}) /\ Cardinality({f}) = 1
  BY FS_Singleton
<1> QED
  BY <1>1, Leaving

LEMMA CountFields ==
    ASSUME TypeOK
    PROVE  /\ count \in Counts
           /\ count.deepProcessed \in Nat /\ count.coalesced \in Nat
           /\ count.failed \in Nat /\ count.forgotten \in Nat
           /\ count.drained \in Nat
BY DEF TypeOK, Counts

-----------------------------------------------------------------------------
LEMMA InitBooked == Init => Booked
BY FS_EmptySet DEF Init, SupInit, Booked, Departed, ZeroCount

LEMMA ReceiveBooked == SupInv /\ Booked /\ Receive => Booked'
<1> SUFFICES ASSUME SupInv, Booked, Receive PROVE Booked'
  OBVIOUS
<1> DEFINE new == nextSeq + 1
<1>1. /\ nextSeq' = new /\ sessions' = sessions \cup {new}
      /\ status' = [status EXCEPT ![new] = "received"]
      /\ UNCHANGED <<config, count>> /\ nextSeq < MaxSeq
  BY DEF Receive, EnqueueObservation, flagVars
<1>2. /\ nextSeq \in Nat /\ sessions \subseteq Frames
      /\ status \in [Frames -> Statuses]
  BY DEF SupInv, TypeOK
<1>3. new \in Frames
  BY <1>1, <1>2, TiersAssumption DEF Frames
<1>4. new \notin sessions
  BY <1>2, <1>3 DEF SupInv, Placement, PlacementOf
<1>5. Cardinality(sessions') = Cardinality(sessions) + 1
  BY <1>1, <1>2, <1>4, FramesFinite, FS_AddElement
<1>6. Cardinality(sessions) \in Nat /\ Departed \in Nat /\ Departed' = Departed
  BY <1>1, <1>2, FramesFinite, CountFields DEF SupInv, Departed
<1>7. \A f \in Frames : status[f] # "failed" => status'[f] # "failed"
  BY <1>1, <1>2
<1> HIDE DEF new
<1> QED
  BY <1>1, <1>2, <1>5, <1>6, <1>7 DEF Booked, new

LEMMA FailedBooked ==
    ASSUME SupInv, Booked, NEW f \in Frames, MarkFailed(f)
    PROVE  Booked'
<1>1. UNCHANGED <<config, nextSeq>>
  BY DEF MarkFailed, flagVars
<1>2. sessions \subseteq Frames /\ Cardinality(sessions) \in Nat
      /\ nextSeq \in Nat
  BY FramesFinite DEF SupInv, TypeOK
<1>3. CASE f \in sessions
  <2>1. /\ sessions' = sessions \ {f}
        /\ count' = [count EXCEPT !.failed = @ + 1, !.informationLoss = @ + 1]
    BY <1>3 DEF MarkFailed
  <2>2. Departed' = Departed + 1 /\ Departed \in Nat /\ count'.failed # 0
    BY <1>1, <2>1, CountFields DEF SupInv, Departed, Counts
  <2>3. Cardinality(sessions) = Cardinality(sessions') + 1
        /\ Cardinality(sessions') \in Nat
    BY <1>2, <1>3, <2>1, OneLeaves, FramesFinite
  <2> QED
    BY <1>1, <1>2, <2>2, <2>3 DEF Booked
<1>4. CASE f \notin sessions
  <2>1. /\ UNCHANGED <<sessions, status>>
        /\ count' = [count EXCEPT !.informationLoss = @ + 1]
    BY <1>4 DEF MarkFailed
  <2>2. Departed' = Departed /\ count'.failed = count.failed
    BY <1>1, <2>1, CountFields DEF SupInv, Departed, Counts
  <2> QED
    BY <1>1, <2>1, <2>2 DEF Booked
<1> QED
  BY <1>3, <1>4

LEMMA CommitBooked == SupInv /\ Booked /\ Commit => Booked'
<1> SUFFICES ASSUME SupInv, Booked, Commit PROVE Booked'
  OBVIOUS
<1>1. UNCHANGED <<config, nextSeq>>
  BY DEF Commit, MarkCommitted, flagVars
<1>2. sessions \subseteq Frames /\ Cardinality(sessions) \in Nat
      /\ nextSeq \in Nat /\ status \in [Frames -> Statuses]
  BY FramesFinite DEF SupInv, TypeOK
<1>3. CASE inHand \in sessions
  <2>1. /\ sessions' = sessions \ {inHand}
        /\ status' = [status EXCEPT ![inHand] = "deep_processed"]
        /\ count' = [count EXCEPT !.deepProcessed = @ + 1]
    BY <1>3 DEF Commit, MarkCommitted
  <2>2. Departed' = Departed + 1 /\ Departed \in Nat
        /\ count'.failed = count.failed
    BY <1>1, <2>1, CountFields DEF SupInv, Departed, Counts
  <2>3. Cardinality(sessions) = Cardinality(sessions') + 1
        /\ Cardinality(sessions') \in Nat
    BY <1>2, <1>3, <2>1, OneLeaves, FramesFinite
  <2>4. \A f \in Frames : status[f] # "failed" => status'[f] # "failed"
    BY <1>2, <2>1
  <2> QED
    BY <1>1, <1>2, <2>2, <2>3, <2>4 DEF Booked
<1>4. CASE inHand \notin sessions
  BY <1>1, <1>4 DEF Commit, MarkCommitted, Booked, Departed
<1> QED
  BY <1>3, <1>4

(* As long as nothing has failed, T3 holds only sessions that are known.   *)
LEMMA StagedAreKnown ==
    ASSUME SupInv, \A f \in Frames : status[f] # "failed"
    PROVE  consolidation \subseteq sessions
BY DEF SupInv, TypeOK, Placement, PlacementOf

LEMMA RestBooked == SupInv /\ Booked /\ Rest => Booked'
<1> SUFFICES ASSUME SupInv, Booked, Rest PROVE Booked'
  OBVIOUS
<1>1. /\ sessions' = sessions \ Drained
      /\ count' = [count EXCEPT !.drained = @ + Cardinality(Drained)]
      /\ UNCHANGED <<config, status, nextSeq>>
  BY DEF Rest, DrainConsolidation, flagVars
<1>2. /\ sessions \subseteq Frames /\ Drained \subseteq consolidation
      /\ Drained \subseteq Frames /\ nextSeq \in Nat
  BY DrainedFromConsolidation DEF SupInv, TypeOK
<1>3. Cardinality(Drained) \in Nat
  BY <1>2, FramesFinite
<1>4. /\ Departed' = Departed + Cardinality(Drained) /\ Departed \in Nat
      /\ count'.failed = count.failed
  <2> DEFINE n == Cardinality(Drained)
  <2> HIDE DEF n
  <2>1. n \in Nat /\ count' = [count EXCEPT !.drained = @ + n]
    BY <1>1, <1>3 DEF n
  <2>2. Departed' = Departed + n /\ Departed \in Nat
        /\ count'.failed = count.failed
    BY <1>1, <2>1, CountFields DEF SupInv, Departed, Counts
  <2> QED
    BY <2>2 DEF n
<1>5. count.failed = 0 => Drained \subseteq sessions
  BY <1>2, StagedAreKnown DEF Booked
<1> QED
  BY <1>1, <1>2, <1>3, <1>4, <1>5, Leaving DEF Booked

-----------------------------------------------------------------------------
(* What a pop takes out of sessions, and what it counts.                   *)
PopBooks(ev, sp, fg) ==
    /\ ev \subseteq ready /\ sp \subseteq OverflowPool(ev)
    /\ fg \subseteq consolidation \cup sp
    /\ sessions' = sessions \ (fg \cup IF config.overflow THEN {} ELSE ev)
    /\ count' = [count EXCEPT !.coalesced = @ + Cardinality(ev),
                              !.forgotten = @ + Cardinality(fg)]
    /\ \A g \in Frames : status[g] # "failed" => status'[g] # "failed"
    /\ UNCHANGED <<config, nextSeq>>

LEMMA PopHasBooks ==
    ASSUME SupInv, NEW f, PopCommitCandidate(f)
    PROVE  \E ev, sp, fg : PopBooks(ev, sp, fg)
<1> DEFINE ev == Evicted
           sp == Spilled(ev)
           fg == Forgotten(ev, sp)
           pr == Promoted(ev, sp)
<1>1. /\ status' = [g \in Frames |->
           CASE g = f -> "deep_processing"
             [] g # f /\ g \in pr -> "ready"
             [] g # f /\ g \in sp -> "consolidation"
             [] g # f /\ g \in ev /\ g \notin sp \cup pr ->
                  IF config.overflow THEN "overflow" ELSE "coalesced"
             [] OTHER -> status[g]]
      /\ sessions' = sessions \ (fg \cup IF config.overflow THEN {} ELSE ev)
      /\ count' = [count EXCEPT !.coalesced = @ + Cardinality(ev),
                                !.forgotten = @ + Cardinality(fg)]
      /\ UNCHANGED <<flagVars, nextSeq>>
  BY DEF PopCommitCandidate
<1>2. /\ ev \subseteq ready /\ sp \subseteq OverflowPool(ev)
      /\ fg \subseteq consolidation \cup sp
      /\ pr \subseteq OverflowPool(ev) \ sp
  BY EvictedFromReady, SpilledFromPool, ForgottenFromConsolidation,
     PromotedFromStaged
<1> HIDE DEF ev, sp, fg, pr
<1>3. \A g \in Frames : status[g] # "failed" => status'[g] # "failed"
  BY <1>1, <1>2
<1>4. PopBooks(ev, sp, fg)
  BY <1>1, <1>2, <1>3 DEF PopBooks, flagVars
<1> QED
  BY <1>4

LEMMA PopBooked == SupInv /\ Booked /\ Pop => Booked'
<1> SUFFICES ASSUME SupInv, Booked, Pop PROVE Booked'
  OBVIOUS
<1>1. PICK ev, sp, fg : PopBooks(ev, sp, fg)
  BY PopHasBooks DEF Pop
<1>2. /\ sessions \subseteq Frames /\ ready \subseteq Frames
      /\ overflow \subseteq Frames /\ consolidation \subseteq Frames
      /\ nextSeq \in Nat
  BY DEF SupInv, TypeOK
<1>3. /\ ev \subseteq ready /\ sp \subseteq overflow \cup ev
      /\ fg \subseteq consolidation \cup sp
      /\ ev \subseteq Frames /\ fg \subseteq Frames
      /\ ~config.overflow => sp \subseteq overflow
  BY <1>1, <1>2 DEF PopBooks, OverflowPool
<1>4. ready \cup overflow \subseteq sessions
      /\ ready \cap (overflow \cup consolidation) = {}
  BY <1>2 DEF SupInv, Placement, PlacementOf
<1>5. count.failed = 0 => ev \subseteq sessions /\ fg \subseteq sessions
  BY <1>3, <1>4, StagedAreKnown DEF Booked
<1>6. Cardinality(ev) \in Nat /\ Cardinality(fg) \in Nat
  BY <1>3, FramesFinite
<1>7. /\ count'.failed = count.failed
      /\ Departed \in Nat
      /\ Departed' = Departed + Cardinality(fg)
                     + IF config.overflow THEN 0 ELSE Cardinality(ev)
  <2> DEFINE n == Cardinality(ev)
             m == Cardinality(fg)
  <2>1. /\ n \in Nat /\ m \in Nat /\ config' = config
        /\ count' = [count EXCEPT !.coalesced = @ + n, !.forgotten = @ + m]
    BY <1>1, <1>6 DEF PopBooks
  <2> HIDE DEF n, m
  <2>2. /\ count'.failed = count.failed /\ Departed \in Nat
        /\ Departed' = Departed + m + IF config.overflow THEN 0 ELSE n
    BY <2>1, CountFields DEF SupInv, Departed, Counts
  <2> QED
    BY <2>2 DEF n, m
<1>8. /\ nextSeq' = nextSeq
      /\ \A g \in Frames : status[g] # "failed" => status'[g] # "failed"
  BY <1>1 DEF PopBooks
<1>9. CASE config.overflow
  <2>1. sessions' = sessions \ fg
    BY <1>1, <1>9 DEF PopBooks
  <2> QED
    BY <1>2, <1>3, <1>5, <1>7, <1>8, <1>9, <2>1, Leaving DEF Booked
<1>10. CASE ~config.overflow
  <2> DEFINE out == fg \cup ev
  <2>1. sessions' = sessions \ out /\ out \subseteq Frames
    BY <1>1, <1>3, <1>10 DEF PopBooks
  <2>2. count.failed = 0 => out \subseteq sessions
    BY <1>5
  <2>3. fg \cap ev = {}
    BY <1>3, <1>4, <1>10
  <2>4. Cardinality(out) = Cardinality(fg) + Cardinality(ev)
    BY <1>3, <2>3, Joining
  <2> HIDE DEF out
  <2> QED
    BY <1>2, <1>6, <1>7, <1>8, <1>10, <2>1, <2>2, <2>4, Leaving DEF Booked
<1> QED
  BY <1>9, <1>10

(* The steps that leave the books alone.                                   *)
LEMMA SameBooks ==
    ASSUME Booked, UNCHANGED <<config, sessions, count, nextSeq>>,
           \A f \in Frames : status[f] # "failed" => status'[f] # "failed"
    PROVE  Booked'
BY DEF Booked, Departed

LEMMA StatusBooked ==
    ASSUME SupInv, Booked, NEW f \in Frames, NEW s \in Producing,
           MarkStatus(f, s)
    PROVE  Booked'
<1>1. /\ status \in [Frames -> Statuses]
      /\ status' \in {status, [status EXCEPT ![f] = s]}
      /\ UNCHANGED <<config, sessions, count, nextSeq>>
  BY DEF SupInv, TypeOK, MarkStatus, flagVars
<1>2. \A g \in Frames : status[g] # "failed" => status'[g] # "failed"
  BY <1>1 DEF Producing
<1> QED
  BY <1>1, <1>2, SameBooks

LEMMA FoldedBooked ==
    ASSUME SupInv, Booked, NEW f \in Frames, NEW t, MarkFolded(f, t)
    PROVE  Booked'
<1>1. /\ status \in [Frames -> Statuses]
      /\ status' \in {status, [status EXCEPT ![f] = "ready"]}
      /\ UNCHANGED <<config, sessions, count, nextSeq>>
  BY DEF SupInv, TypeOK, MarkFolded, supVars, flagVars
<1>2. \A g \in Frames : status[g] # "failed" => status'[g] # "failed"
  BY <1>1
<1> QED
  BY <1>1, <1>2, SameBooks

LEMMA NextBooked == SupInv /\ Booked /\ [Next]_vars => Booked'
<1> SUFFICES ASSUME SupInv, Booked, [Next]_vars PROVE Booked'
  OBVIOUS
<1>1. CASE Receive \/ Pop \/ Commit \/ Rest
  BY <1>1, ReceiveBooked, PopBooked, CommitBooked, RestBooked
<1>2. ASSUME NEW f \in Frames,
             StartPrefetch(f) \/ FinishPrefetch(f) \/ StartFold(f)
      PROVE  Booked'
  BY <1>2, StatusBooked DEF StartPrefetch, FinishPrefetch, StartFold, Producing
<1>3. ASSUME NEW f \in Frames, FinishFold(f) PROVE Booked'
  BY <1>3, FoldedBooked DEF FinishFold
<1>4. ASSUME NEW f \in Frames, DropOldest(f) PROVE Booked'
  BY <1>4, FailedBooked DEF DropOldest
<1>5. ASSUME NEW f \in Frames, NEW g \in Frames \cup {NoFrame},
             FoldRaises(f, g)
      PROVE  Booked'
  <2>1. CASE g \in Frames /\ MarkFailed(g)
    BY <2>1, FailedBooked
  <2>2. CASE UNCHANGED supVars
    BY <2>2, SameBooks DEF supVars, flagVars
  <2> QED
    BY <1>5, <2>1, <2>2 DEF FoldRaises
<1>6. CASE AbandonCycle
  BY <1>6, SameBooks DEF AbandonCycle, supVars, flagVars
<1>7. CASE Clear
  BY <1>7, FS_EmptySet
  DEF Clear, ClearSupervisor, Booked, Departed, ZeroCount
<1>8. ASSUME NEW c \in Capacities, Configure(c) PROVE Booked'
  BY <1>8, SameBooks DEF Configure, SetCapacity
<1>9. CASE UNCHANGED vars
  BY <1>9, SameBooks DEF vars, supVars, flagVars
<1> QED
  BY <1>1, <1>2, <1>3, <1>4, <1>5, <1>6, <1>7, <1>8, <1>9 DEF Next

(* No observation disappears from the books: however frames are folded,    *)
(* failed, evicted, promoted, forgotten, drained and committed, every one  *)
(* received is still a session or in one of the counters.                  *)
THEOREM BooksBalance == Spec => []Accounting
<1>1. Init => SupInv /\ Booked
  BY InitInv, InitBooked
<1>2. SupInv /\ Booked /\ [Next]_vars => (SupInv /\ Booked)'
  BY NextInv, NextBooked
<1>3. SupInv /\ Booked => Accounting
  BY DEF Booked, Accounting
<1> QED
  BY <1>1, <1>2, <1>3, PTL DEF Spec

-----------------------------------------------------------------------------
(***************************************************************************)
(* Caps and forgetting, for every value of the constants.  Each selection  *)
(* of a pop is the first n of a tier in an order by two keys, the second   *)
(* of which is the insertion time or its opposite: it has n members, no    *)
(* more if insertion times are distinct, and nothing it leaves is before   *)
(* what it takes.                                                          *)
(***************************************************************************)
(* Who precedes f in S, by k and then by a; and the first n of S.          *)
Lower(S, k, a, f) == {g \in S : k[g] < k[f] \/ (k[g] = k[f] /\ a[g] < a[f])}
FirstOf(S, k, a, n) == {f \in S : Cardinality(Lower(S, k, a, f)) < n}

Distinct(S, a) == \A f, g \in S : f # g => a[f] # a[g]

LEMMA SmallerSet ==
    ASSUME NEW S, S \subseteq Frames, NEW T, T \subseteq S
    PROVE  /\ IsFiniteSet(S) /\ IsFiniteSet(T)
           /\ Cardinality(T) \in Nat /\ Cardinality(S) \in Nat
           /\ Cardinality(T) <= Cardinality(S)
           /\ Cardinality(T) = Cardinality(S) => T = S
           /\ Cardinality(S \ T) = Cardinality(S) - Cardinality(T)
<1>1. IsFiniteSet(S) /\ Cardinality(S) \in Nat
  BY FramesFinite
<1>2. T \subseteq Frames
  OBVIOUS
<1>3. IsFiniteSet(T) /\ Cardinality(T) \in Nat
  BY <1>2, FramesFinite
<1>4. Cardinality(T) <= Cardinality(S) /\ (Cardinality(T) = Cardinality(S) => T = S)
  BY <1>1, FS_Subset
<1>5. Cardinality(S \ T) = Cardinality(S) - Cardinality(S \cap T)
  BY <1>1, FS_Difference
<1>6. S \cap T = T
  OBVIOUS
<1> QED
  BY <1>1, <1>3, <1>4, <1>5, <1>6

(* Who precedes a predecessor of f precedes f.                             *)
LEMMA LowerOrder ==
    ASSUME NEW S, S \subseteq Frames, NEW k \in [Frames -> Int], NEW a \in [Frames -> Int],
           NEW f \in S
    PROVE  /\ Lower(S, k, a, f) \subseteq S /\ f \notin Lower(S, k, a, f)
           /\ Cardinality(Lower(S, k, a, f)) \in Nat
           /\ Cardinality(Lower(S, k, a, f)) < Cardinality(S)
           /\ \A g \in Lower(S, k, a, f) :
                 /\ Lower(S, k, a, g) \subseteq Lower(S, k, a, f)
                 /\ Cardinality(Lower(S, k, a, g)) < Cardinality(Lower(S, k, a, f))
<1>1. Lower(S, k, a, f) \subseteq S
  BY DEF Lower
<1>2. f \notin Lower(S, k, a, f)
  <2>1. f \in Frames
    OBVIOUS
  <2>2. k[f] \in Int /\ a[f] \in Int
    BY <2>1
  <2> QED
    BY <2>2 DEF Lower
<1>3. Lower(S, k, a, f) # S
  BY <1>2
<1>4. /\ Cardinality(Lower(S, k, a, f)) \in Nat /\ Cardinality(S) \in Nat
      /\ Cardinality(Lower(S, k, a, f)) < Cardinality(S)
  <2>1. /\ Cardinality(Lower(S, k, a, f)) \in Nat /\ Cardinality(S) \in Nat
        /\ Cardinality(Lower(S, k, a, f)) <= Cardinality(S)
        /\ Cardinality(Lower(S, k, a, f)) = Cardinality(S) => Lower(S, k, a, f) = S
    BY <1>1, SmallerSet
  <2> QED
    BY <1>3, <2>1
<1>5. ASSUME NEW g \in Lower(S, k, a, f)
      PROVE  /\ Lower(S, k, a, g) \subseteq Lower(S, k, a, f)
             /\ Cardinality(Lower(S, k, a, g)) < Cardinality(Lower(S, k, a, f))
  <2>1. g \in S /\ g \in Frames /\ f \in Frames
    BY <1>1
  <2>2. k[g] < k[f] \/ (k[g] = k[f] /\ a[g] < a[f])
    BY DEF Lower
  <2>3. k[g] \in Int /\ a[g] \in Int /\ k[f] \in Int /\ a[f] \in Int
    BY <2>1
  <2>4. ASSUME NEW h \in Lower(S, k, a, g) PROVE h \in Lower(S, k, a, f) /\ h # g
    <3>1. h \in S /\ (k[h] < k[g] \/ (k[h] = k[g] /\ a[h] < a[g]))
      BY <2>4 DEF Lower
    <3>2. k[h] \in Int /\ a[h] \in Int
      BY <3>1
    <3>3. k[h] < k[f] \/ (k[h] = k[f] /\ a[h] < a[f])
      BY <2>2, <2>3, <3>1, <3>2
    <3>4. h # g
      BY <2>3, <3>1
    <3> QED
      BY <3>1, <3>3, <3>4 DEF Lower
  <2>5. Lower(S, k, a, g) \subseteq Lower(S, k, a, f) /\ g \notin Lower(S, k, a, g)
    BY <2>4
  <2>6. Lower(S, k, a, f) \subseteq Frames
    BY <1>1
  <2>7. Lower(S, k, a, g) # Lower(S, k, a, f)
    BY <2>5
  <2>8. /\ Cardinality(Lower(S, k, a, g)) \in Nat
        /\ Cardinality(Lower(S, k, a, g)) <= Cardinality(Lower(S, k, a, f))
        /\ Cardinality(Lower(S, k, a, g)) # Cardinality(Lower(S, k, a, f))
    BY <2>5, <2>6, <2>7, SmallerSet
  <2> QED
    BY <1>4, <2>5, <2>8
<1> QED
  BY <1>1, <1>2, <1>4, <1>5

(* Distinct members have distinct places.                                  *)
LEMMA PlacesDistinct ==
    ASSUME NEW S, S \subseteq Frames, NEW k \in [Frames -> Int], NEW a \in [Frames -> Int],
           Distinct(S, a), NEW f \in S, NEW g \in S, f # g
    PROVE  Cardinality(Lower(S, k, a, f)) # Cardinality(Lower(S, k, a, g))
<1>1. f \in Frames /\ g \in Frames /\ a[f] # a[g]
  BY DEF Distinct
<1>2. k[f] \in Int /\ k[g] \in Int /\ a[f] \in Int /\ a[g] \in Int
  BY <1>1
<1>3. f \in Lower(S, k, a, g) \/ g \in Lower(S, k, a, f)
  BY <1>1, <1>2 DEF Lower
<1>4. /\ Cardinality(Lower(S, k, a, f)) \in Nat
      /\ Cardinality(Lower(S, k, a, g)) \in Nat
  BY LowerOrder
<1>5. CASE f \in Lower(S, k, a, g)
  <2>1. Cardinality(Lower(S, k, a, f)) < Cardinality(Lower(S, k, a, g))
    BY <1>5, LowerOrder
  <2> QED
    BY <1>4, <2>1
<1>6. CASE g \in Lower(S, k, a, f)
  <2>1. Cardinality(Lower(S, k, a, g)) < Cardinality(Lower(S, k, a, f))
    BY <1>6, LowerOrder
  <2> QED
    BY <1>4, <2>1
<1> QED
  BY <1>3, <1>5, <1>6

(* The first n of S are at least n, if there are as many.                  *)
LEMMA FirstAtLeast ==
    ASSUME NEW S, S \subseteq Frames, NEW k \in [Frames -> Int], NEW a \in [Frames -> Int],
           NEW n \in Int, n <= Cardinality(S)
    PROVE  n <= Cardinality(FirstOf(S, k, a, n))
<1> DEFINE F == FirstOf(S, k, a, n)
           T == {Lower(S, k, a, f) : f \in S \ F}
<1>1. F \subseteq S
  BY DEF FirstOf
<1>2. Cardinality(F) \in Nat /\ Cardinality(S) \in Nat /\ F \subseteq Frames
  BY <1>1, SmallerSet
<1> SUFFICES ASSUME Cardinality(F) < n PROVE FALSE
  BY <1>2
<1>3. F # S
  BY <1>2
<1>4. T # {} /\ T \subseteq FiniteSubsetsOf(S)
  <2>1. T # {}
    BY <1>1, <1>3
  <2>2. \A f \in S : Lower(S, k, a, f) \subseteq S
    BY LowerOrder
  <2>3. \A f \in S : IsFiniteSet(Lower(S, k, a, f))
    BY <2>2, SmallerSet
  <2> QED
    BY <2>1, <2>2, <2>3 DEF FiniteSubsetsOf
<1>5. \A f \in S : f \notin F => Lower(S, k, a, f) \in T
  OBVIOUS
<1>6. \A A \in T : \E f \in S \ F : A = Lower(S, k, a, f)
  OBVIOUS
<1> HIDE DEF T
<1>7. PICK A \in T : \A B \in T : <<B, A>> \notin StrictSubsetOrdering(S)
  BY <1>4, FS_StrictSubsetOrderingWellFounded, WFMin
<1>8. PICK f \in S \ F : A = Lower(S, k, a, f)
  BY <1>6, <1>7
<1>9. A \subseteq F
  <2> SUFFICES ASSUME NEW g \in A, g \notin F PROVE FALSE
    OBVIOUS
  <2>1. g \in S /\ Lower(S, k, a, f) \subseteq S
    BY <1>8, LowerOrder
  <2>2. Lower(S, k, a, g) \in T
    BY <1>5, <2>1
  <2>3. Lower(S, k, a, g) \subseteq A /\ Lower(S, k, a, g) \subseteq S /\ A \subseteq S
        /\ g \notin Lower(S, k, a, g)
    BY <1>8, <2>1, LowerOrder
  <2>4. Lower(S, k, a, g) # A
    BY <2>3
  <2> QED
    BY <1>7, <2>2, <2>3, <2>4 DEF StrictSubsetOrdering
<1>10. Cardinality(A) <= Cardinality(F) /\ Cardinality(A) \in Nat
  BY <1>2, <1>9, SmallerSet
<1>11. Cardinality(Lower(S, k, a, f)) < n
  BY <1>2, <1>8, <1>10
<1>12. f \in F
  BY <1>8, <1>11 DEF FirstOf
<1> QED
  BY <1>8, <1>12

(* And no more, if the second key tells them apart.                        *)
LEMMA FirstAtMost ==
    ASSUME NEW S, S \subseteq Frames, NEW k \in [Frames -> Int], NEW a \in [Frames -> Int],
           Distinct(S, a), NEW n \in Nat
    PROVE  Cardinality(FirstOf(S, k, a, n)) <= n
<1> DEFINE F == FirstOf(S, k, a, n)
           place == [f \in F |-> Cardinality(Lower(S, k, a, f)) + 1]
<1>1. F \subseteq S /\ \A f \in F : Cardinality(Lower(S, k, a, f)) < n
  BY DEF FirstOf
<1>2. \A f \in F : Cardinality(Lower(S, k, a, f)) \in Nat
  BY <1>1, LowerOrder
<1>3. \A f \in F : place[f] \in 1..n
  BY <1>1, <1>2
<1>4. \A f, g \in F : f # g => place[f] # place[g]
  <2> SUFFICES ASSUME NEW f \in F, NEW g \in F, f # g PROVE place[f] # place[g]
    OBVIOUS
  <2>1. Cardinality(Lower(S, k, a, f)) # Cardinality(Lower(S, k, a, g))
    BY <1>1, PlacesDistinct
  <2> QED
    BY <1>2, <2>1
<1> HIDE DEF F
<1>5. place \in Injection(F, 1..n)
  BY <1>3, <1>4 DEF Injection, IsInjective
<1>6. IsFiniteSet(1..n) /\ Cardinality(1..n) = n
  BY FS_Interval
<1>7. Cardinality(F) <= Cardinality(1..n)
  BY <1>5, <1>6, FS_Injection
<1> QED
  BY <1>6, <1>7 DEF F

(* What is left is not before what was taken.                              *)
LEMMA FirstIsLowest ==
    ASSUME NEW S, S \subseteq Frames, NEW k \in [Frames -> Int], NEW a \in [Frames -> Int],
           NEW n \in Int, NEW f \in FirstOf(S, k, a, n), NEW g \in S \ FirstOf(S, k, a, n)
    PROVE  k[f] <= k[g]
<1>1. /\ f \in S /\ f \in Frames /\ g \in S /\ g \in Frames
      /\ Cardinality(Lower(S, k, a, f)) < n /\ ~(Cardinality(Lower(S, k, a, g)) < n)
  BY DEF FirstOf
<1>2. k[f] \in Int /\ k[g] \in Int
  BY <1>1
<1> SUFFICES ASSUME k[g] < k[f] PROVE FALSE
  BY <1>2
<1>3. g \in Lower(S, k, a, f)
  BY <1>1 DEF Lower
<1>4. /\ Cardinality(Lower(S, k, a, g)) < Cardinality(Lower(S, k, a, f))
      /\ Cardinality(Lower(S, k, a, g)) \in Nat /\ Cardinality(Lower(S, k, a, f)) \in Nat
  BY <1>1, <1>3, LowerOrder
<1> QED
  BY <1>1, <1>4

-----------------------------------------------------------------------------
(* The selections of a pop in this form.                                   *)
keyOf == [f \in Frames |-> Key(f)]
Neg(a) == [f \in Frames |-> -a[f]]

(* The two keys T1 is evicted by.                                          *)
evictKey == IF config.overflow \/ config.priority THEN keyOf ELSE [f \in Frames |-> 0]
evictAt == IF ~config.overflow /\ ~config.priority /\ config.policy = "oldest"
           THEN Neg(stamp) ELSE stamp

LEMMA KeysTyped ==
    ASSUME TypeOK
    PROVE  /\ keyOf \in [Frames -> Int] /\ Neg(keyOf) \in [Frames -> Int]
           /\ evictKey \in [Frames -> Int] /\ evictAt \in [Frames -> Int]
           /\ stamp \in [Frames -> Int] /\ Neg(stamp) \in [Frames -> Int]
<1>1. ASSUME NEW f \in Frames PROVE Key(f) \in Int
  <2>1. tag[f] \in Tags /\ folded[f] \in Nat
    BY DEF TypeOK
  <2>2. tag[f].salience \in Nat
    BY <2>1, TiersAssumption
  <2> QED
    BY <2>1, <2>2 DEF Key
<1>2. keyOf \in [Frames -> Int]
  BY <1>1 DEF keyOf
<1>3. stamp \in [Frames -> Int]
  BY DEF TypeOK
<1>4. Neg(keyOf) \in [Frames -> Int] /\ Neg(stamp) \in [Frames -> Int]
  BY <1>2, <1>3 DEF Neg
<1> QED
  BY <1>2, <1>3, <1>4 DEF evictKey, evictAt

LEMMA NegDistinct ==
    ASSUME NEW a \in [Frames -> Int], NEW S, S \subseteq Frames, Distinct(S, a)
    PROVE  Distinct(S, Neg(a))
<1> SUFFICES ASSUME NEW f \in S, NEW g \in S, f # g PROVE Neg(a)[f] # Neg(a)[g]
  BY DEF Distinct
<1>1. a[f] # a[g] /\ f \in Frames /\ g \in Frames
  BY DEF Distinct
<1> QED
  BY <1>1 DEF Neg

LEMMA EvictionOrder ==
    ASSUME TypeOK, NEW f \in Frames, NEW g \in Frames
    PROVE  EvictedBefore(g, f) <=> \/ evictKey[g] < evictKey[f]
                                   \/ evictKey[g] = evictKey[f] /\ evictAt[g] < evictAt[f]
<1>1. stamp[f] \in Nat /\ stamp[g] \in Nat
  BY DEF TypeOK
<1>2. CASE config.overflow \/ config.priority
  BY <1>2 DEF EvictedBefore, Weaker, evictKey, evictAt, keyOf
<1>3. CASE ~config.overflow /\ ~config.priority /\ config.policy = "oldest"
  BY <1>1, <1>3 DEF EvictedBefore, evictKey, evictAt, Neg
<1>4. CASE ~config.overflow /\ ~config.priority /\ config.policy # "oldest"
  BY <1>4 DEF EvictedBefore, evictKey, evictAt
<1> QED
  BY <1>2, <1>3, <1>4

LEMMA EvictionRank ==
    ASSUME TypeOK, NEW S, S \subseteq Frames, NEW f \in Frames
    PROVE  Rank(f, S, EvictedBefore) = Cardinality(Lower(S, evictKey, evictAt, f))
<1>1. ASSUME NEW g \in S
      PROVE  EvictedBefore(g, f) <=> g \in Lower(S, evictKey, evictAt, f)
  <2>1. g \in Frames
    OBVIOUS
  <2> QED
    BY <2>1, EvictionOrder DEF Lower
<1>2. {g \in S : EvictedBefore(g, f)} = Lower(S, evictKey, evictAt, f)
  BY <1>1 DEF Lower
<1> QED
  BY <1>2 DEF Rank

LEMMA EvictedIsFirst ==
    ASSUME TypeOK
    PROVE  Evicted = FirstOf(ready, evictKey, evictAt, Cardinality(ready) - capacity)
<1>1. ready \subseteq Frames
  BY DEF TypeOK
<1>2. Evicted = {f \in ready :
                   Rank(f, ready, EvictedBefore) < Cardinality(ready) - capacity}
  BY DEF Evicted, Take
<1>3. \A f \in ready : Rank(f, ready, EvictedBefore)
                         = Cardinality(Lower(ready, evictKey, evictAt, f))
  BY <1>1, EvictionRank
<1> QED
  BY <1>2, <1>3 DEF FirstOf

LEMMA SpilledIsFirst ==
    ASSUME TypeOK, NEW ev, OverflowPool(ev) \subseteq Frames
    PROVE  Spilled(ev) = FirstOf(OverflowPool(ev), keyOf, StampInOverflow(ev),
                                 Cardinality(OverflowPool(ev)) - OverflowCap)
<1> DEFINE at == StampInOverflow(ev)
           pool == OverflowPool(ev)
<1>1. Spilled(ev) = {f \in pool : Cardinality({g \in pool : Weaker(g, f, at)})
                                    < Cardinality(pool) - OverflowCap}
  BY DEF Spilled, Take, Rank
<1> HIDE DEF at, pool
<1>2. ASSUME NEW f \in pool
      PROVE  {g \in pool : Weaker(g, f, at)} = Lower(pool, keyOf, at, f)
  <2>1. pool \subseteq Frames
    BY DEF pool
  <2> QED
    BY <2>1 DEF Weaker, Lower, keyOf
<1> QED
  BY <1>1, <1>2 DEF FirstOf, at, pool

LEMMA ForgottenIsFirst ==
    ASSUME TypeOK, NEW ev, NEW sp, consolidation \cup sp \subseteq Frames,
           StampInConsolidation(ev, sp) \in [Frames -> Nat]
    PROVE  Forgotten(ev, sp) =
              FirstOf(consolidation \cup sp, keyOf, Neg(StampInConsolidation(ev, sp)),
                      Cardinality(consolidation \cup sp) - ConsolidationCap)
<1> DEFINE at == StampInConsolidation(ev, sp)
           pool == consolidation \cup sp
<1>1. Forgotten(ev, sp) =
         {f \in pool : Cardinality({g \in pool : \/ Key(g) < Key(f)
                                                 \/ Key(g) = Key(f) /\ at[g] > at[f]})
                         < Cardinality(pool) - ConsolidationCap}
  BY DEF Forgotten, Take, Rank
<1>0. at \in [Frames -> Nat] /\ pool \subseteq Frames
  OBVIOUS
<1> HIDE DEF at, pool
<1>2. ASSUME NEW f \in pool
      PROVE  {g \in pool : Key(g) < Key(f) \/ (Key(g) = Key(f) /\ at[g] > at[f])}
               = Lower(pool, keyOf, Neg(at), f)
  <2>1. ASSUME NEW g \in pool
        PROVE  /\ keyOf[g] = Key(g) /\ keyOf[f] = Key(f)
               /\ at[g] > at[f] <=> Neg(at)[g] < Neg(at)[f]
    BY <1>0 DEF keyOf, Neg
  <2> QED
    BY <2>1 DEF Lower
<1> QED
  BY <1>1, <1>2 DEF FirstOf, at, pool

LEMMA PromotionRank ==
    ASSUME TypeOK, NEW S, S \subseteq Frames, NEW f \in S
    PROVE  Rank(f, S, PromotedBefore) = Cardinality(Lower(S, Neg(keyOf), stamp, f))
<1>1. ASSUME NEW g \in S
      PROVE  PromotedBefore(g, f) <=> \/ Neg(keyOf)[g] < Neg(keyOf)[f]
                                      \/ Neg(keyOf)[g] = Neg(keyOf)[f] /\ stamp[g] < stamp[f]
  <2>1. /\ Neg(keyOf)[g] = -Key(g) /\ Neg(keyOf)[f] = -Key(f)
        /\ keyOf[f] = Key(f) /\ keyOf[g] = Key(g) /\ f \in Frames /\ g \in Frames
    BY DEF Neg, keyOf
  <2>2. Key(f) \in Int /\ Key(g) \in Int
    BY <2>1, KeysTyped
  <2> QED
    BY <2>1, <2>2 DEF PromotedBefore, Stronger
<1>2. {g \in S : PromotedBefore(g, f)} = Lower(S, Neg(keyOf), stamp, f)
  BY <1>1 DEF Lower
<1> QED
  BY <1>2 DEF Rank

LEMMA PromotedIsFirst ==
    ASSUME TypeOK, NEW ev, NEW sp, OverflowPool(ev) \subseteq Frames
    PROVE  Promoted(ev, sp) = IF config.overflow
              THEN FirstOf(OverflowPool(ev) \ sp, Neg(keyOf), stamp,
                           capacity - Cardinality(ready \ ev))
              ELSE {}
<1> DEFINE S == OverflowPool(ev) \ sp
<1>1. S \subseteq Frames
  OBVIOUS
<1>2. CASE config.overflow
  <2>1. Promoted(ev, sp) = {f \in S : Rank(f, S, PromotedBefore)
                                        < capacity - Cardinality(ready \ ev)}
    BY <1>2 DEF Promoted, Take
  <2> HIDE DEF S
  <2>2. \A f \in S : Rank(f, S, PromotedBefore)
                       = Cardinality(Lower(S, Neg(keyOf), stamp, f))
    BY <1>1, PromotionRank
  <2>3. Promoted(ev, sp) = FirstOf(S, Neg(keyOf), stamp, capacity - Cardinality(ready \ ev))
    BY <2>1, <2>2 DEF FirstOf
  <2> QED
    BY <1>2, <2>3 DEF S
<1>3. CASE ~config.overflow
  BY <1>3 DEF Promoted
<1> QED
  BY <1>2, <1>3

-----------------------------------------------------------------------------
(* Insertion times stay distinct in every tier, and behind the clock.      *)
StampsOK ==
    /\ \A f \in Frames : stamp[f] <= clock
    /\ Distinct(ready, stamp) /\ Distinct(overflow, stamp) /\ Distinct(consolidation, stamp)

(* Between pops T2 and T3 are within their caps.                           *)
CapsOK ==
    /\ Cardinality(overflow) <= OverflowCap
    /\ Cardinality(consolidation) <= ConsolidationCap

(* T enters a dictionary in some order: a are the times before, b after.   *)
Restamped(T, k, c, base, a, b) ==
    b = [f \in Frames |-> IF f \in T THEN base + 1 + Cardinality(Lower(T, k, c, f))
                                     ELSE a[f]]

LEMMA RestampKeeps ==
    ASSUME NEW T, T \subseteq Frames, NEW k \in [Frames -> Int], NEW c \in [Frames -> Int],
           Distinct(T, c), NEW base \in Nat, NEW a \in [Frames -> Nat],
           \A f \in Frames : a[f] <= base, NEW b, Restamped(T, k, c, base, a, b)
    PROVE  /\ b \in [Frames -> Nat] /\ base + Cardinality(T) \in Nat
           /\ \A f \in Frames : b[f] <= base + Cardinality(T)
           /\ \A S \in SUBSET Frames : Distinct(S \ T, a) => Distinct(S, b)
<1> DEFINE place(f) == Cardinality(Lower(T, k, c, f))
<1>1. \A f \in T : place(f) \in Nat /\ place(f) < Cardinality(T)
  BY LowerOrder
<1>2. Cardinality(T) \in Nat
  BY FramesFinite
<1>3. \A f, g \in T : f # g => place(f) # place(g)
  BY PlacesDistinct
<1>4. \A f \in Frames : b[f] = IF f \in T THEN base + 1 + place(f) ELSE a[f]
  BY DEF Restamped
<1>5. b = [f \in Frames |-> b[f]]
  BY DEF Restamped
<1> HIDE DEF place
<1>6. ASSUME NEW f \in Frames PROVE b[f] \in Nat /\ b[f] <= base + Cardinality(T)
  <2>1. CASE f \in T
    BY <1>1, <1>2, <1>4, <2>1
  <2>2. CASE f \notin T
    <3>1. b[f] = a[f] /\ a[f] \in Nat /\ a[f] <= base
      BY <1>4, <2>2
    <3> QED
      BY <1>2, <3>1
  <2> QED
    BY <2>1, <2>2
<1>7. ASSUME NEW S \in SUBSET Frames, Distinct(S \ T, a), NEW f \in S, NEW g \in S, f # g
      PROVE  b[f] # b[g]
  <2>1. f \in Frames /\ g \in Frames
    OBVIOUS
  <2>2. CASE f \in T /\ g \in T
    BY <1>1, <1>3, <1>4, <1>7, <2>1, <2>2
  <2>3. CASE f \in T /\ g \notin T
    <3>1. b[g] = a[g] /\ a[g] \in Nat /\ a[g] <= base
      BY <1>4, <2>1, <2>3
    <3>2. b[f] = base + 1 + place(f) /\ place(f) \in Nat
      BY <1>1, <1>4, <2>1, <2>3
    <3> QED
      BY <3>1, <3>2
  <2>4. CASE f \notin T /\ g \in T
    <3>1. b[f] = a[f] /\ a[f] \in Nat /\ a[f] <= base
      BY <1>4, <2>1, <2>4
    <3>2. b[g] = base + 1 + place(g) /\ place(g) \in Nat
      BY <1>1, <1>4, <2>1, <2>4
    <3> QED
      BY <3>1, <3>2
  <2>5. CASE f \notin T /\ g \notin T
    BY <1>4, <1>7, <2>1, <2>5 DEF Distinct
  <2> QED
    BY <2>2, <2>3, <2>4, <2>5
<1>8. ASSUME NEW S \in SUBSET Frames, Distinct(S \ T, a) PROVE Distinct(S, b)
  BY <1>7, <1>8 DEF Distinct
<1>9. b \in [Frames -> Nat]
  BY <1>5, <1>6
<1> QED
  BY <1>2, <1>6, <1>8, <1>9

(* A tier is trimmed to its cap.                                           *)
LEMMA FirstTrims ==
    ASSUME NEW S, S \subseteq Frames, NEW k \in [Frames -> Int], NEW a \in [Frames -> Int],
           Distinct(S, a), NEW cap \in Nat, NEW T, T = FirstOf(S, k, a, Cardinality(S) - cap)
    PROVE  /\ T \subseteq S /\ Cardinality(S \ T) \in Nat
           /\ Cardinality(S \ T) <= cap
           /\ T = {} \/ Cardinality(S \ T) = cap
           /\ \A f \in T, g \in S \ T : k[f] <= k[g]
<1> DEFINE n == Cardinality(S) - cap
<1>1. T \subseteq S
  BY DEF FirstOf
<1>2. /\ Cardinality(S) \in Nat /\ Cardinality(T) \in Nat
      /\ Cardinality(S \ T) = Cardinality(S) - Cardinality(T)
      /\ Cardinality(T) <= Cardinality(S)
  BY <1>1, SmallerSet
<1>3. n \in Int /\ n <= Cardinality(S)
  BY <1>2
<1>4. \A f \in T, g \in S \ T : k[f] <= k[g]
  BY <1>3, FirstIsLowest
<1>5. CASE n <= 0
  <2>1. T = {}
    <3> SUFFICES ASSUME NEW f \in T PROVE FALSE
      OBVIOUS
    <3>1. f \in S /\ Cardinality(Lower(S, k, a, f)) < n
      BY DEF FirstOf
    <3>2. Cardinality(Lower(S, k, a, f)) \in Nat
      BY <3>1, LowerOrder
    <3> QED
      BY <1>3, <1>5, <3>1, <3>2
  <2>2. S \ T = S
    BY <2>1
  <2>3. Cardinality(S) <= cap
    BY <1>2, <1>5
  <2> QED
    BY <1>1, <1>2, <1>4, <2>1, <2>2, <2>3
<1>6. CASE n > 0
  <2>1. n \in Nat
    BY <1>3, <1>6
  <2>2. n <= Cardinality(T)
    BY <1>3, FirstAtLeast
  <2>3. Cardinality(T) <= n
    BY <2>1, FirstAtMost
  <2>4. Cardinality(S \ T) = cap
    BY <1>2, <2>2, <2>3
  <2> QED
    BY <1>1, <1>2, <1>4, <2>4
<1> QED
  BY <1>3, <1>5, <1>6

LEMMA DistinctSubset ==
    ASSUME NEW a, NEW S, Distinct(S, a), NEW T, T \subseteq S
    PROVE  Distinct(T, a)
BY DEF Distinct

-----------------------------------------------------------------------------
(* Insertion times through a pop.                                          *)

LEMMA OverflowRestamps ==
    ASSUME TypeOK, NEW ev, ev \subseteq Frames
    PROVE  Restamped(ev, evictKey, evictAt, clock, stamp, StampInOverflow(ev))
<1>1. \A f \in Frames : Rank(f, ev, EvictedBefore)
                          = Cardinality(Lower(ev, evictKey, evictAt, f))
  BY EvictionRank
<1>2. StampInOverflow(ev) =
        [f \in Frames |-> IF f \in ev THEN clock + 1 + Rank(f, ev, EvictedBefore)
                                      ELSE stamp[f]]
  BY DEF StampInOverflow
<1> QED
  BY <1>1, <1>2 DEF Restamped

LEMMA ConsolidationRestamps ==
    ASSUME TypeOK, NEW ev, ev \subseteq Frames, NEW sp, sp \subseteq Frames,
           StampInOverflow(ev) \in [Frames -> Nat]
    PROVE  Restamped(sp, keyOf, StampInOverflow(ev), clock + Cardinality(ev),
                     StampInOverflow(ev), StampInConsolidation(ev, sp))
<1> DEFINE at == StampInOverflow(ev)
           rank(f) == Cardinality({g \in sp : Weaker(g, f, at)})
<1>1. StampInConsolidation(ev, sp) =
        [f \in Frames |-> IF f \in sp THEN clock + 1 + Cardinality(ev) + rank(f) ELSE at[f]]
  BY DEF StampInConsolidation, Rank
<1>2. at \in [Frames -> Int]
  OBVIOUS
<1>3. clock \in Nat /\ Cardinality(ev) \in Nat
  BY FramesFinite DEF TypeOK
<1> HIDE DEF at
<1>4. ASSUME NEW f \in sp
      PROVE  clock + 1 + Cardinality(ev) + rank(f)
               = (clock + Cardinality(ev)) + 1 + Cardinality(Lower(sp, keyOf, at, f))
  <2>1. {g \in sp : Weaker(g, f, at)} = Lower(sp, keyOf, at, f)
    BY DEF Weaker, Lower, keyOf
  <2>2. rank(f) = Cardinality(Lower(sp, keyOf, at, f))
    BY <2>1
  <2>3. Cardinality(Lower(sp, keyOf, at, f)) \in Nat
    BY <1>2, KeysTyped, LowerOrder
  <2> QED
    BY <1>3, <2>2, <2>3
<1> HIDE DEF rank
<1>5. Restamped(sp, keyOf, at, clock + Cardinality(ev), at, StampInConsolidation(ev, sp))
  BY <1>1, <1>4 DEF Restamped
<1> QED
  BY <1>5 DEF at

LEMMA PromotionRestamps ==
    ASSUME TypeOK, NEW ev, ev \subseteq Frames, NEW sp, sp \subseteq Frames,
           NEW pr, pr \subseteq Frames
    PROVE  Restamped(pr, Neg(keyOf), stamp, (clock + Cardinality(ev)) + Cardinality(sp),
                     StampInConsolidation(ev, sp), StampAfterPop(ev, sp, pr))
<1> DEFINE at == StampInConsolidation(ev, sp)
<1>1. StampAfterPop(ev, sp, pr) =
        [f \in Frames |-> IF f \in pr THEN clock + 1 + Cardinality(ev) + Cardinality(sp)
                                             + Rank(f, pr, PromotedBefore)
                          ELSE at[f]]
  BY DEF StampAfterPop
<1>2. clock \in Nat /\ Cardinality(ev) \in Nat /\ Cardinality(sp) \in Nat
  BY FramesFinite DEF TypeOK
<1> HIDE DEF at
<1>3. ASSUME NEW f \in pr
      PROVE  clock + 1 + Cardinality(ev) + Cardinality(sp) + Rank(f, pr, PromotedBefore)
               = ((clock + Cardinality(ev)) + Cardinality(sp)) + 1
                   + Cardinality(Lower(pr, Neg(keyOf), stamp, f))
  <2>1. Rank(f, pr, PromotedBefore) = Cardinality(Lower(pr, Neg(keyOf), stamp, f))
    BY PromotionRank
  <2>2. Cardinality(Lower(pr, Neg(keyOf), stamp, f)) \in Nat
    BY KeysTyped, LowerOrder
  <2> QED
    BY <1>2, <2>1, <2>2
<1> QED
  BY <1>1, <1>3 DEF Restamped, at

(* What a pop takes and leaves, with numbers and orders: each tier is      *)
(* trimmed to its cap of the weakest, and T1 refilled to its capacity at   *)
(* the most.                                                               *)
PopTrims(f, ev, sp, fg, pr) ==
    LET pool == OverflowPool(ev)
        queue == consolidation \cup sp
    IN  /\ ev \subseteq ready /\ sp \subseteq pool /\ fg \subseteq queue
        /\ pr \subseteq pool \ sp
        /\ Cardinality((ready \ ev) \cup pr) <= capacity
        /\ Cardinality(pool \ sp) <= OverflowCap
        /\ sp = {} \/ Cardinality(pool \ sp) = OverflowCap
        /\ Cardinality(queue \ fg) <= ConsolidationCap
        /\ fg = {} \/ Cardinality(queue \ fg) = ConsolidationCap
        /\ config.overflow => \A e \in ev, g \in ready \ ev : keyOf[e] <= keyOf[g]
        /\ \A s \in sp, g \in pool \ sp : keyOf[s] <= keyOf[g]
        /\ \A x \in fg, g \in queue \ fg : keyOf[x] <= keyOf[g]
        /\ f \in (ready \ ev) \cup pr
        /\ ready' = ((ready \ ev) \cup pr) \ {f}
        /\ overflow' = pool \ (sp \cup pr)
        /\ consolidation' = queue \ fg
        /\ count'.forgotten = count.forgotten + Cardinality(fg)
        /\ UNCHANGED <<config, capacity, tag, folded>>

LEMMA PopHasTrims ==
    ASSUME TypeOK, StampsOK, NEW f, PopCommitCandidate(f)
    PROVE  (\E ev, sp, fg, pr : PopTrims(f, ev, sp, fg, pr)) /\ StampsOK'
<1> DEFINE ev == Evicted
           pool == OverflowPool(ev)
           sp == Spilled(ev)
           queue == consolidation \cup sp
           fg == Forgotten(ev, sp)
           pr == Promoted(ev, sp)
           at1 == StampInOverflow(ev)
           at2 == StampInConsolidation(ev, sp)
           at3 == StampAfterPop(ev, sp, pr)
<1>0. /\ ready \subseteq Frames /\ overflow \subseteq Frames /\ consolidation \subseteq Frames
      /\ stamp \in [Frames -> Nat] /\ clock \in Nat
      /\ capacity \in Nat \ {0}
      /\ OverflowCap \in Nat /\ ConsolidationCap \in Nat
      /\ count \in Counts
  BY TiersAssumption DEF TypeOK
<1>1. /\ f \in (ready \ ev) \cup pr
      /\ ready' = ((ready \ ev) \cup pr) \ {f}
      /\ overflow' = pool \ (sp \cup pr)
      /\ consolidation' = queue \ fg
      /\ stamp' = at3
      /\ clock' = clock + Cardinality(ev) + Cardinality(sp) + Cardinality(pr)
      /\ count' = [count EXCEPT !.coalesced = @ + Cardinality(ev),
                                !.forgotten = @ + Cardinality(fg)]
      /\ UNCHANGED <<config, capacity, tag, folded>>
  BY DEF PopCommitCandidate, flagVars
<1>2. /\ keyOf \in [Frames -> Int] /\ Neg(keyOf) \in [Frames -> Int]
      /\ evictKey \in [Frames -> Int] /\ evictAt \in [Frames -> Int]
      /\ stamp \in [Frames -> Int] /\ Neg(stamp) \in [Frames -> Int]
  BY KeysTyped
<1>3. \A S \in SUBSET Frames : Distinct(S, stamp) => Distinct(S, evictAt)
  BY <1>2, NegDistinct DEF evictAt
<1>4. ev = FirstOf(ready, evictKey, evictAt, Cardinality(ready) - capacity)
  BY EvictedIsFirst
<1>5. sp = FirstOf(pool, keyOf, at1, Cardinality(pool) - OverflowCap)
  <2>1. pool \subseteq Frames
    BY <1>0, EvictedFromReady DEF OverflowPool
  <2> QED
    BY <2>1, SpilledIsFirst
<1>6. ev \subseteq ready /\ pool \subseteq overflow \cup ev /\ sp \subseteq pool
      /\ fg \subseteq queue /\ pr \subseteq pool \ sp
  BY EvictedFromReady, SpilledFromPool, ForgottenFromConsolidation, PromotedFromStaged
  DEF OverflowPool
<1>7. /\ ev \subseteq Frames /\ pool \subseteq Frames /\ sp \subseteq Frames
      /\ queue \subseteq Frames /\ fg \subseteq Frames /\ pr \subseteq Frames
  BY <1>0, <1>6
<1>8. Restamped(ev, evictKey, evictAt, clock, stamp, at1)
  BY <1>7, OverflowRestamps
<1>9. /\ \A g \in Frames : stamp[g] <= clock
      /\ Distinct(ready, stamp) /\ Distinct(overflow, stamp)
      /\ Distinct(consolidation, stamp)
  BY DEF StampsOK
<1>10. pr = IF config.overflow
            THEN FirstOf(pool \ sp, Neg(keyOf), stamp, capacity - Cardinality(ready \ ev))
            ELSE {}
  BY <1>7, PromotedIsFirst
<1>11. at1 \in [Frames -> Nat] => Restamped(sp, keyOf, at1, clock + Cardinality(ev), at1, at2)
  BY <1>7, ConsolidationRestamps
<1>12. Restamped(pr, Neg(keyOf), stamp, (clock + Cardinality(ev)) + Cardinality(sp), at2, at3)
  BY <1>7, PromotionRestamps
<1>13. at2 \in [Frames -> Nat] =>
         fg = FirstOf(queue, keyOf, Neg(at2), Cardinality(queue) - ConsolidationCap)
  BY <1>7, ForgottenIsFirst
<1>14. config.overflow => evictKey = keyOf
  BY DEF evictKey
<1>15. count'.forgotten = count.forgotten + Cardinality(fg)
  BY <1>0, <1>1 DEF Counts
<1>16. ev = {} => pool = overflow
  BY DEF OverflowPool
<1> HIDE DEF ev, pool, sp, queue, fg, pr, at1, at2, at3
<1>20. Distinct(ev, evictAt) /\ Distinct(ready, evictAt)
  BY <1>0, <1>3, <1>6, <1>7, <1>9, DistinctSubset
<1>21. /\ at1 \in [Frames -> Nat] /\ clock + Cardinality(ev) \in Nat
       /\ \A g \in Frames : at1[g] <= clock + Cardinality(ev)
       /\ \A S \in SUBSET Frames : Distinct(S \ ev, stamp) => Distinct(S, at1)
  BY <1>0, <1>2, <1>7, <1>8, <1>9, <1>20, RestampKeeps
<1>22. Distinct(pool, at1)
  <2>1. pool \ ev \subseteq overflow
    BY <1>6
  <2>2. Distinct(pool \ ev, stamp)
    BY <1>9, <2>1, DistinctSubset
  <2> QED
    BY <1>7, <1>21, <2>2
<1>23. at1 \in [Frames -> Int] /\ Distinct(sp, at1)
  BY <1>6, <1>21, <1>22, DistinctSubset
<1>24. /\ at2 \in [Frames -> Nat] /\ (clock + Cardinality(ev)) + Cardinality(sp) \in Nat
       /\ \A g \in Frames : at2[g] <= (clock + Cardinality(ev)) + Cardinality(sp)
       /\ \A S \in SUBSET Frames : Distinct(S \ sp, at1) => Distinct(S, at2)
  BY <1>2, <1>7, <1>11, <1>21, <1>23, RestampKeeps
<1>25. Distinct(consolidation, at1)
  <2>1. Distinct(consolidation \ ev, stamp)
    <3>1. consolidation \ ev \subseteq consolidation
      OBVIOUS
    <3> QED
      BY <1>9, <3>1, DistinctSubset
  <2> QED
    BY <1>0, <1>21, <2>1
<1>26. Distinct(queue, at2)
  <2>1. queue \ sp \subseteq consolidation
    BY DEF queue
  <2>2. Distinct(queue \ sp, at1)
    BY <1>25, <2>1, DistinctSubset
  <2> QED
    BY <1>7, <1>24, <2>2
<1>27. at2 \in [Frames -> Int] /\ Neg(at2) \in [Frames -> Int] /\ Distinct(queue, Neg(at2))
  <2>1. at2 \in [Frames -> Int]
    BY <1>24
  <2>2. Neg(at2) \in [Frames -> Int]
    BY <2>1 DEF Neg
  <2> QED
    BY <1>7, <1>26, <2>1, <2>2, NegDistinct
<1>30. /\ Cardinality(ready \ ev) \in Nat /\ Cardinality(ready \ ev) <= capacity
       /\ ev = {} \/ Cardinality(ready \ ev) = capacity
       /\ \A e \in ev, g \in ready \ ev : evictKey[e] <= evictKey[g]
  <2>1. /\ ready \subseteq Frames /\ capacity \in Nat /\ Distinct(ready, evictAt)
        /\ evictKey \in [Frames -> Int] /\ evictAt \in [Frames -> Int]
    BY <1>0, <1>2, <1>20
  <2> QED
    BY <2>1, <1>4, FirstTrims
<1>31. /\ Cardinality(pool \ sp) <= OverflowCap
       /\ sp = {} \/ Cardinality(pool \ sp) = OverflowCap
       /\ \A s \in sp, g \in pool \ sp : keyOf[s] <= keyOf[g]
  <2>1. /\ pool \subseteq Frames /\ OverflowCap \in Nat /\ Distinct(pool, at1)
        /\ keyOf \in [Frames -> Int] /\ at1 \in [Frames -> Int]
    BY <1>0, <1>2, <1>7, <1>22, <1>23
  <2> QED
    BY <2>1, <1>5, FirstTrims
<1>32. /\ Cardinality(queue \ fg) <= ConsolidationCap
       /\ fg = {} \/ Cardinality(queue \ fg) = ConsolidationCap
       /\ \A x \in fg, g \in queue \ fg : keyOf[x] <= keyOf[g]
  <2>1. /\ queue \subseteq Frames /\ ConsolidationCap \in Nat /\ Distinct(queue, Neg(at2))
        /\ keyOf \in [Frames -> Int] /\ Neg(at2) \in [Frames -> Int]
    BY <1>0, <1>2, <1>7, <1>27
  <2>2. fg = FirstOf(queue, keyOf, Neg(at2), Cardinality(queue) - ConsolidationCap)
    BY <1>13, <1>24
  <2> QED
    BY <2>1, <2>2, FirstTrims
(* There is room in T1 only if nothing was evicted.                        *)
<1>33. /\ Cardinality(pr) \in Nat /\ Cardinality(pr) <= capacity - Cardinality(ready \ ev)
       /\ Distinct(pr, stamp)
  <2>1. CASE pr = {}
    <3>1. Cardinality(pr) = 0
      BY <2>1, FS_EmptySet
    <3> QED
      BY <1>0, <1>30, <2>1, <3>1 DEF Distinct
  <2>2. CASE pr # {}
    <3> DEFINE n == capacity - Cardinality(ready \ ev)
    <3>1. n \in Nat
      BY <1>0, <1>30
    <3>2. pr = FirstOf(pool \ sp, Neg(keyOf), stamp, n)
      BY <1>10, <2>2
    <3>3. n # 0
      <4> SUFFICES ASSUME n = 0 PROVE FALSE
        OBVIOUS
      <4>1. PICK g \in pr : TRUE
        BY <2>2
      <4>2. g \in pool \ sp /\ Cardinality(Lower(pool \ sp, Neg(keyOf), stamp, g)) < 0
        BY <3>2, <4>1 DEF FirstOf
      <4>3. Cardinality(Lower(pool \ sp, Neg(keyOf), stamp, g)) \in Nat
        <5>1. pool \ sp \subseteq Frames
          BY <1>7
        <5> QED
          BY <1>2, <4>2, <5>1, LowerOrder
      <4> QED
        BY <4>2, <4>3
    <3>4. ev = {}
      BY <1>0, <1>30, <3>3
    <3>5. pool \ sp \subseteq overflow /\ pool \ sp \subseteq Frames
      BY <1>0, <1>16, <3>4
    <3>6. Distinct(pool \ sp, stamp)
      BY <1>9, <3>5, DistinctSubset
    <3>7. Cardinality(pr) <= n
      BY <1>2, <3>1, <3>2, <3>5, <3>6, FirstAtMost
    <3>8. Distinct(pr, stamp)
      BY <1>6, <3>6, DistinctSubset
    <3>9. Cardinality(pr) \in Nat
      BY <1>7, FramesFinite
    <3> QED
      BY <3>7, <3>8, <3>9
  <2> QED
    BY <2>1, <2>2
<1>34. Cardinality((ready \ ev) \cup pr) <= capacity
  <2>1. ready \ ev \subseteq Frames
    BY <1>0
  <2>2. IsFiniteSet(ready \ ev) /\ IsFiniteSet(pr)
    BY <1>7, <2>1, FramesFinite
  <2>3. Cardinality((ready \ ev) \cup pr) =
            Cardinality(ready \ ev) + Cardinality(pr) - Cardinality((ready \ ev) \cap pr)
    BY <2>2, FS_Union
  <2>4. (ready \ ev) \cap pr \subseteq Frames
    BY <2>1
  <2>5. Cardinality((ready \ ev) \cap pr) \in Nat
    BY <2>4, FramesFinite
  <2> QED
    BY <1>0, <1>30, <1>33, <2>3, <2>5
<1>35. PopTrims(f, ev, sp, fg, pr)
  <2>1. config.overflow => \A e \in ev, g \in ready \ ev : keyOf[e] <= keyOf[g]
    BY <1>14, <1>30
  <2> QED
    BY <1>1, <1>6, <1>15, <1>31, <1>32, <1>34, <2>1 DEF PopTrims, pool, queue
<1>36. /\ at3 \in [Frames -> Nat]
       /\ \A g \in Frames : at3[g] <= (clock + Cardinality(ev)) + Cardinality(sp)
                                        + Cardinality(pr)
       /\ \A S \in SUBSET Frames : Distinct(S \ pr, at2) => Distinct(S, at3)
  <2> DEFINE base == (clock + Cardinality(ev)) + Cardinality(sp)
  <2>1. /\ base \in Nat /\ at2 \in [Frames -> Nat] /\ \A g \in Frames : at2[g] <= base
        /\ pr \subseteq Frames /\ Distinct(pr, stamp)
        /\ Neg(keyOf) \in [Frames -> Int] /\ stamp \in [Frames -> Int]
        /\ Restamped(pr, Neg(keyOf), stamp, base, at2, at3)
    BY <1>2, <1>7, <1>12, <1>24, <1>33
  <2> HIDE DEF base
  <2>2. /\ at3 \in [Frames -> Nat]
        /\ \A g \in Frames : at3[g] <= base + Cardinality(pr)
        /\ \A S \in SUBSET Frames : Distinct(S \ pr, at2) => Distinct(S, at3)
    BY <2>1, RestampKeeps
  <2> QED
    BY <2>2 DEF base
<1>37. StampsOK'
  <2>1. \A g \in Frames : stamp'[g] <= clock'
    BY <1>1, <1>36
  <2>2. ASSUME NEW S \in SUBSET Frames, Distinct(((S \ pr) \ sp) \ ev, stamp)
        PROVE  Distinct(S, stamp')
    <3>1. Distinct((S \ pr) \ sp, at1)
      BY <1>21, <2>2
    <3>2. Distinct(S \ pr, at2)
      BY <1>24, <3>1
    <3>3. Distinct(S, at3)
      BY <1>36, <3>2
    <3> QED
      BY <1>1, <3>3
  <2>3. Distinct(ready', stamp')
    <3>1. ((ready' \ pr) \ sp) \ ev \subseteq ready /\ ready' \in SUBSET Frames
      BY <1>0, <1>1, <1>7
    <3> QED
      BY <1>9, <2>2, <3>1, DistinctSubset
  <2>4. Distinct(overflow', stamp')
    <3>1. ((overflow' \ pr) \ sp) \ ev \subseteq overflow /\ overflow' \in SUBSET Frames
      BY <1>1, <1>6, <1>7
    <3> QED
      BY <1>9, <2>2, <3>1, DistinctSubset
  <2>5. Distinct(consolidation', stamp')
    <3>1. /\ ((consolidation' \ pr) \ sp) \ ev \subseteq consolidation
          /\ consolidation' \in SUBSET Frames
      BY <1>1, <1>7 DEF queue
    <3> QED
      BY <1>9, <2>2, <3>1, DistinctSubset
  <2> QED
    BY <2>1, <2>3, <2>4, <2>5 DEF StampsOK, Distinct
<1> QED
  BY <1>35, <1>37

-----------------------------------------------------------------------------
(* The invariant                                                           *)
TierInv == StampsOK /\ CapsOK

LEMMA InitTiers == Init => TierInv
<1> SUFFICES ASSUME Init PROVE TierInv
  OBVIOUS
<1>1. /\ ready = {} /\ overflow = {} /\ consolidation = {} /\ clock = 0
      /\ stamp = [f \in Frames |-> 0]
  BY DEF Init, SupInit
<1>2. Cardinality(overflow) = 0 /\ Cardinality(consolidation) = 0
  BY <1>1, FS_EmptySet
<1> QED
  BY <1>1, <1>2, TiersAssumption DEF TierInv, StampsOK, CapsOK, Distinct

(* A step that brings nothing into a tier.                                 *)
LEMMA ShrinkTiers ==
    ASSUME TypeOK, TierInv, ready' \subseteq ready, overflow' \subseteq overflow,
           consolidation' \subseteq consolidation, UNCHANGED <<stamp, clock>>
    PROVE  TierInv'
<1>1. /\ overflow \subseteq Frames /\ consolidation \subseteq Frames
      /\ OverflowCap \in Nat /\ ConsolidationCap \in Nat
  BY TiersAssumption DEF TypeOK
<1>2. /\ Cardinality(overflow') <= Cardinality(overflow)
      /\ Cardinality(consolidation') <= Cardinality(consolidation)
      /\ Cardinality(overflow') \in Nat /\ Cardinality(consolidation') \in Nat
      /\ Cardinality(overflow) \in Nat /\ Cardinality(consolidation) \in Nat
  BY <1>1, SmallerSet
<1>3. CapsOK'
  BY <1>1, <1>2 DEF TierInv, CapsOK
<1>4. StampsOK'
  BY DEF TierInv, StampsOK, Distinct
<1> QED
  BY <1>3, <1>4 DEF TierInv

LEMMA FoldTiers ==
    ASSUME SupInv, TierInv, NEW f \in Frames, FinishFold(f)
    PROVE  TierInv'
<1>1. inFold = f
  BY DEF FinishFold
<1>2. status[f] = "folding" /\ f \in sessions /\ f \notin ready
      /\ f \notin overflow /\ f \notin consolidation
  BY <1>1 DEF SupInv, Placement, PlacementOf, Producing
<1>3. /\ clock' = clock + 1
      /\ stamp' = [stamp EXCEPT ![f] = clock + 1]
      /\ ready' = ready \cup {f}
      /\ UNCHANGED <<overflow, consolidation>>
  BY <1>2 DEF FinishFold, MarkFolded, flagVars
<1>4. /\ stamp \in [Frames -> Nat] /\ clock \in Nat
      /\ \A g \in Frames : stamp[g] <= clock
      /\ Distinct(ready, stamp) /\ Distinct(overflow, stamp)
      /\ Distinct(consolidation, stamp)
      /\ ready \subseteq Frames /\ overflow \subseteq Frames /\ consolidation \subseteq Frames
  BY DEF SupInv, TypeOK, TierInv, StampsOK
<1>5. /\ stamp'[f] = clock + 1
      /\ \A g \in Frames \ {f} : stamp'[g] = stamp[g] /\ stamp[g] <= clock
  BY <1>3, <1>4
<1>6. \A g \in Frames : stamp'[g] <= clock'
  BY <1>3, <1>4, <1>5
<1>7. Distinct(overflow', stamp') /\ Distinct(consolidation', stamp')
  BY <1>2, <1>3, <1>4, <1>5 DEF Distinct
<1>8. \A g \in ready : stamp'[g] = stamp[g] /\ stamp'[g] # stamp'[f]
  BY <1>2, <1>4, <1>5
<1>9. Distinct(ready', stamp')
  BY <1>3, <1>4, <1>8 DEF Distinct
<1>10. CapsOK'
  BY <1>3 DEF TierInv, CapsOK
<1> QED
  BY <1>6, <1>7, <1>9, <1>10 DEF TierInv, StampsOK, Distinct

(* A pop: T1 below its capacity, T2 and T3 within their caps.              *)
LEMMA PopCaps ==
    ASSUME TypeOK, NEW f, NEW ev, NEW sp, NEW fg, NEW pr, PopTrims(f, ev, sp, fg, pr)
    PROVE  /\ Cardinality(ready') < capacity
           /\ Cardinality(overflow') <= OverflowCap
           /\ Cardinality(consolidation') <= ConsolidationCap
<1> DEFINE pool == OverflowPool(ev)
           T1 == (ready \ ev) \cup pr
<1>0. /\ ready \subseteq Frames /\ overflow \subseteq Frames /\ consolidation \subseteq Frames
      /\ capacity \in Nat /\ OverflowCap \in Nat
  BY TiersAssumption DEF TypeOK
<1>1. /\ pool \subseteq Frames
      /\ pr \subseteq pool
      /\ Cardinality(T1) <= capacity /\ Cardinality(pool \ sp) <= OverflowCap
      /\ f \in T1 /\ ready' = T1 \ {f}
      /\ overflow' \subseteq pool \ sp
      /\ Cardinality(consolidation') <= ConsolidationCap
  BY <1>0 DEF PopTrims, OverflowPool
<1>2. T1 \subseteq Frames /\ pool \ sp \subseteq Frames
  BY <1>0, <1>1
<1> HIDE DEF T1, pool
<1>3. /\ Cardinality(ready') <= Cardinality(T1)
      /\ Cardinality(ready') = Cardinality(T1) => ready' = T1
      /\ Cardinality(ready') \in Nat /\ Cardinality(T1) \in Nat
  <2>1. ready' \subseteq T1
    BY <1>1
  <2> QED
    BY <1>2, <2>1, SmallerSet
<1>4. Cardinality(ready') < capacity
  BY <1>0, <1>1, <1>3
<1>5. /\ Cardinality(overflow') <= Cardinality(pool \ sp)
      /\ Cardinality(overflow') \in Nat /\ Cardinality(pool \ sp) \in Nat
  BY <1>1, <1>2, SmallerSet
<1>6. Cardinality(overflow') <= OverflowCap
  BY <1>0, <1>1, <1>5
<1> QED
  BY <1>1, <1>4, <1>6

LEMMA PopTiers ==
    ASSUME SupInv, TierInv, Pop
    PROVE  TierInv'
<1>1. PICK f \in Frames : PopCommitCandidate(f)
  BY DEF Pop
<1>2. TypeOK /\ StampsOK
  BY DEF SupInv, TierInv
<1>3. (\E ev, sp, fg, pr : PopTrims(f, ev, sp, fg, pr)) /\ StampsOK'
  BY <1>1, <1>2, PopHasTrims
<1>4. CapsOK'
  BY <1>2, <1>3, PopCaps DEF CapsOK
<1> QED
  BY <1>3, <1>4 DEF TierInv

LEMMA NextTiers == SupInv /\ TierInv /\ [Next]_vars => TierInv'
<1> SUFFICES ASSUME SupInv, TierInv, [Next]_vars PROVE TierInv'
  OBVIOUS
<1>0. TypeOK
  BY DEF SupInv
<1>1. CASE Pop
  BY <1>1, PopTiers
<1>2. ASSUME NEW f \in Frames, FinishFold(f) PROVE TierInv'
  BY <1>2, FoldTiers
<1>3. CASE Clear
  <2>1. /\ ready' = {} /\ overflow' = {} /\ consolidation' = {} /\ clock' = 0
        /\ stamp' = [f \in Frames |-> 0]
    BY <1>3 DEF Clear, ClearSupervisor
  <2>2. Cardinality(overflow') = 0 /\ Cardinality(consolidation') = 0
    BY <2>1, FS_EmptySet
  <2> QED
    BY <2>1, <2>2, TiersAssumption DEF TierInv, StampsOK, CapsOK, Distinct
<1>4. ASSUME NEW f, MarkFailed(f) PROVE TierInv'
  <2>1. /\ UNCHANGED <<stamp, clock>> /\ ready' \subseteq ready
        /\ overflow' \subseteq overflow /\ consolidation' \subseteq consolidation
    BY <1>4 DEF MarkFailed, foldVars
  <2> QED
    BY <1>0, <2>1, ShrinkTiers
<1>5. ASSUME UNCHANGED <<foldVars, tierVars>> PROVE TierInv'
  BY <1>0, <1>5, ShrinkTiers DEF foldVars, tierVars
<1>6. ASSUME NEW f \in Frames, \/ StartPrefetch(f) \/ FinishPrefetch(f)
                               \/ DropOldest(f) \/ StartFold(f)
                               \/ \E g \in Frames \cup {NoFrame} : FoldRaises(f, g)
      PROVE  TierInv'
  BY <1>4, <1>5, <1>6
  DEF StartPrefetch, FinishPrefetch, DropOldest, StartFold, FoldRaises, MarkStatus, supVars
<1>7. CASE Receive \/ Commit \/ AbandonCycle
  BY <1>5, <1>7
  DEF Receive, EnqueueObservation, Commit, MarkCommitted, AbandonCycle, supVars
<1>8. CASE Rest
  BY <1>0, <1>8, ShrinkTiers DEF Rest, DrainConsolidation, foldVars
<1>9. ASSUME NEW c \in Capacities, Configure(c) PROVE TierInv'
  BY <1>5, <1>9 DEF Configure, SetCapacity
<1>10. CASE UNCHANGED vars
  BY <1>5, <1>10 DEF vars, supVars
<1> QED
  BY <1>1, <1>2, <1>3, <1>6, <1>7, <1>8, <1>9, <1>10 DEF Next

(* Insertion times are distinct in every tier, so each order of a pop is a *)
(* total one, and between pops T2 and T3 are within their caps.            *)
THEOREM TiersStayOrdered == Spec => []TierInv
<1>1. Init => SupInv /\ TierInv
  BY InitInv, InitTiers
<1>2. SupInv /\ TierInv /\ [Next]_vars => (SupInv /\ TierInv)'
  BY NextInv, NextTiers
<1> QED
  BY <1>1, <1>2, PTL DEF Spec

(* After every pop T1 is below its capacity and T2 and T3 are within their *)
(* caps, however many sessions were folded since the last one and whatever *)
(* the flags: evictions cascade through the tiers and none is passed over. *)
THEOREM CapsAreEnforced == Spec => CapsEnforced
<1> DEFINE Capped == Popped => /\ Cardinality(ready') < capacity
                               /\ Cardinality(overflow') <= OverflowCap
                               /\ Cardinality(consolidation') <= ConsolidationCap
<1>1. ASSUME SupInv, TierInv, [Next]_vars, Popped PROVE Capped
  <2>1. PICK f \in Frames : PopCommitCandidate(f)
    BY <1>1, PoppedByPop DEF Pop
  <2>2. TypeOK /\ StampsOK
    BY <1>1 DEF SupInv, TierInv
  <2>3. PICK ev, sp, fg, pr : PopTrims(f, ev, sp, fg, pr)
    BY <2>1, <2>2, PopHasTrims
  <2> QED
    BY <2>2, <2>3, PopCaps
<1>2. SupInv /\ TierInv /\ [Next]_vars => [Capped]_vars
  BY <1>1
<1> QED
  BY <1>2, SupervisorInvariant, TiersStayOrdered, PTL DEF Spec, CapsEnforced

(* What a pop forgets is the weakest there is: by a session that T2 has    *)
(* spilled and T3 keeps, and one that T1 has evicted and T2 keeps, it      *)
(* compares with those of the other tiers.                                 *)
LEMMA PopForgets ==
    ASSUME TypeOK, CapsOK, NEW f, NEW ev, NEW sp, NEW fg, NEW pr,
           PopTrims(f, ev, sp, fg, pr), NEW x \in fg
    PROVE  /\ config.overflow
           /\ \A g \in (ready \ ev) \cup pr \cup overflow' \cup consolidation' :
                 keyOf[x] <= keyOf[g]
<1> DEFINE pool == OverflowPool(ev)
           queue == consolidation \cup sp
<1>0. /\ ready \subseteq Frames /\ overflow \subseteq Frames /\ consolidation \subseteq Frames
      /\ OverflowCap \in Nat /\ ConsolidationCap \in Nat
      /\ Cardinality(overflow) <= OverflowCap
      /\ Cardinality(consolidation) <= ConsolidationCap
      /\ keyOf \in [Frames -> Int]
  BY TiersAssumption, KeysTyped DEF TypeOK, CapsOK
<1>1. /\ ev \subseteq ready /\ sp \subseteq pool /\ fg \subseteq queue
      /\ pr \subseteq pool \ sp
      /\ sp = {} \/ Cardinality(pool \ sp) = OverflowCap
      /\ Cardinality(queue \ fg) = ConsolidationCap
      /\ config.overflow => \A e \in ev, g \in ready \ ev : keyOf[e] <= keyOf[g]
      /\ \A s \in sp, g \in pool \ sp : keyOf[s] <= keyOf[g]
      /\ \A y \in fg, g \in queue \ fg : keyOf[y] <= keyOf[g]
      /\ overflow' = pool \ (sp \cup pr)
      /\ consolidation' = queue \ fg
  BY DEF PopTrims
<1>2. pool = IF config.overflow THEN overflow \cup ev ELSE overflow
  BY DEF OverflowPool
<1> HIDE DEF pool
<1>3. pool \subseteq Frames /\ sp \subseteq Frames /\ queue \subseteq Frames
  BY <1>0, <1>1, <1>2
(* A part of a tier within its cap is smaller than the cap.                *)
<1>4. ASSUME NEW S, S \subseteq Frames, NEW cap \in Nat, Cardinality(S) <= cap,
             NEW T, T \subseteq S, NEW y \in S, y \notin T
      PROVE  Cardinality(T) # cap
  <2>1. /\ Cardinality(T) \in Nat /\ Cardinality(S) \in Nat
        /\ Cardinality(T) <= Cardinality(S)
        /\ Cardinality(T) = Cardinality(S) => T = S
    BY <1>4, SmallerSet
  <2> QED
    BY <1>4, <2>1
<1>5. PICK s \in sp : keyOf[x] <= keyOf[s]
  <2>1. CASE x \in sp
    <3>1. x \in Frames
      BY <1>3, <2>1
    <3>2. keyOf[x] \in Int
      BY <1>0, <3>1
    <3> QED
      BY <2>1, <3>2
  <2>2. CASE x \notin sp
    <3>1. x \in consolidation
      BY <1>1, <2>2
    <3>2. ~(sp \subseteq fg)
      <4> SUFFICES ASSUME sp \subseteq fg PROVE FALSE
        OBVIOUS
      <4>1. queue \ fg \subseteq consolidation /\ x \notin queue \ fg
        OBVIOUS
      <4> HIDE DEF queue
      <4>2. Cardinality(queue \ fg) # ConsolidationCap
        BY <1>0, <1>4, <3>1, <4>1
      <4> QED
        BY <1>1, <4>2
    <3>3. PICK s \in sp : s \notin fg
      BY <3>2
    <3>4. s \in queue \ fg
      BY <3>3
    <3> QED
      BY <1>1, <3>4
  <2> QED
    BY <2>1, <2>2
<1>6. Cardinality(pool \ sp) = OverflowCap
  BY <1>1, <1>5
<1>7. ~(ev \subseteq sp) \/ s \in ev
  <2> SUFFICES ASSUME ev \subseteq sp, s \notin ev PROVE FALSE
    OBVIOUS
  <2>1. s \in overflow /\ pool \ sp \subseteq overflow /\ s \notin pool \ sp
    BY <1>1, <1>2, <1>5
  <2>2. Cardinality(pool \ sp) # OverflowCap
    BY <1>0, <1>4, <2>1
  <2> QED
    BY <1>6, <2>2
<1>8. config.overflow
  <2> SUFFICES ASSUME ~config.overflow PROVE FALSE
    OBVIOUS
  <2>1. pool = overflow
    BY <1>2
  <2>2. s \in overflow /\ pool \ sp \subseteq overflow /\ s \notin pool \ sp
    BY <1>1, <1>5, <2>1
  <2>3. Cardinality(pool \ sp) # OverflowCap
    BY <1>0, <1>4, <2>2
  <2> QED
    BY <1>6, <2>3
<1>9. x \in Frames /\ s \in Frames /\ keyOf[x] \in Int /\ keyOf[s] \in Int
  <2>1. x \in Frames /\ s \in Frames
    BY <1>1, <1>3, <1>5
  <2> QED
    BY <1>0, <2>1
<1>10. ASSUME NEW g \in pool \ sp PROVE keyOf[x] <= keyOf[g]
  <2>1. keyOf[s] <= keyOf[g] /\ g \in Frames
    BY <1>1, <1>3
  <2>2. keyOf[g] \in Int
    BY <1>0, <2>1
  <2> QED
    BY <1>5, <1>9, <2>1, <2>2
<1>11. PICK e \in ev : keyOf[s] <= keyOf[e]
  <2>1. CASE s \in ev
    BY <1>9, <2>1
  <2>2. CASE s \notin ev
    <3>1. PICK e \in ev : e \notin sp
      BY <1>7, <2>2
    <3>2. e \in pool \ sp
      BY <1>2, <1>8, <3>1
    <3> QED
      BY <1>1, <3>2
  <2> QED
    BY <2>1, <2>2
<1>12. ASSUME NEW g \in ready \ ev PROVE keyOf[x] <= keyOf[g]
  <2>1. keyOf[e] <= keyOf[g]
    BY <1>1, <1>8
  <2>2. e \in Frames /\ g \in Frames
    BY <1>0, <1>1
  <2>3. keyOf[e] \in Int /\ keyOf[g] \in Int
    BY <1>0, <2>2
  <2> QED
    BY <1>5, <1>9, <1>11, <2>1, <2>3
<1>13. \A g \in consolidation' : keyOf[x] <= keyOf[g]
  BY <1>1
<1>14. pr \subseteq pool \ sp /\ overflow' \subseteq pool \ sp
  BY <1>1
<1> QED
  BY <1>8, <1>10, <1>12, <1>13, <1>14

(* What leaves every tier when something was forgotten was forgotten.      *)
LEMMA OnlyForgottenLeave ==
    ASSUME NEW f, NEW ev, NEW sp, NEW fg, NEW pr, PopTrims(f, ev, sp, fg, pr),
           config.overflow, NEW x \in Waiting, x \notin Waiting', x # f
    PROVE  x \in fg
BY DEF PopTrims, OverflowPool, Waiting

(* A session that is forgotten at the cap of T3 is no stronger than any    *)
(* that remains in a tier or is taken by the same pop, for any caps, tags  *)
(* and flags: the cascade forgets the weakest of all, not of one tier.     *)
THEOREM ForgettingIsOrdered == Spec => ForgetsWeakest
<1> DEFINE Ordered == Popped /\ count'.forgotten > count.forgotten =>
                 \A f \in Waiting \ (Waiting' \cup {inHand'}) :
                 \A g \in Waiting' \cup {inHand'} : Key(f) <= Key(g)
<1>1. ASSUME SupInv, TierInv, [Next]_vars, Popped,
             count'.forgotten > count.forgotten,
             NEW x \in Waiting \ (Waiting' \cup {inHand'}),
             NEW g \in Waiting' \cup {inHand'}
      PROVE  Key(x) <= Key(g)
  <2>0. TypeOK /\ StampsOK /\ CapsOK
    BY <1>1 DEF SupInv, TierInv
  <2>1. PICK f \in Frames : PopCommitCandidate(f) /\ inHand' = f
    BY <1>1, PoppedByPop DEF Pop
  <2>2. PICK ev, sp, fg, pr : PopTrims(f, ev, sp, fg, pr)
    BY <2>0, <2>1, PopHasTrims
  <2>3. fg # {}
    <3> SUFFICES ASSUME fg = {} PROVE FALSE
      OBVIOUS
    <3>1. Cardinality(fg) = 0
      BY FS_EmptySet
    <3>2. count'.forgotten = count.forgotten + Cardinality(fg) /\ count.forgotten \in Nat
      BY <2>0, <2>2 DEF PopTrims, TypeOK, Counts
    <3> QED
      BY <1>1, <3>1, <3>2
  <2>4. config.overflow
    BY <2>0, <2>2, <2>3, PopForgets
  <2>5. x \in fg
    BY <1>1, <2>1, <2>2, <2>4, OnlyForgottenLeave
  <2>6. g \in (ready \ ev) \cup pr \cup overflow' \cup consolidation'
    BY <1>1, <2>1, <2>2 DEF PopTrims, Waiting
  <2>7. keyOf[x] <= keyOf[g]
    BY <2>0, <2>2, <2>5, <2>6, PopForgets
  <2>8. x \in Frames /\ g \in Frames
    <3>1. /\ ready \subseteq Frames /\ overflow \subseteq Frames
          /\ consolidation \subseteq Frames
      BY <2>0 DEF TypeOK
    <3>2. x \in Frames
      BY <1>1, <3>1 DEF Waiting
    <3>3. OverflowPool(ev) \subseteq overflow \cup ev /\ ev \subseteq ready
      BY <2>2 DEF PopTrims, OverflowPool
    <3>4. g \in ready \cup overflow \cup consolidation
      BY <2>2, <2>6, <3>3 DEF PopTrims
    <3> QED
      BY <3>1, <3>2, <3>4
  <2> QED
    BY <2>7, <2>8 DEF keyOf
<1>2. SupInv /\ TierInv /\ [Next]_vars => [Ordered]_vars
  BY <1>1
<1> QED
  BY <1>2, SupervisorInvariant, TiersStayOrdered, PTL DEF Spec, ForgetsWeakest
=============================================================================
