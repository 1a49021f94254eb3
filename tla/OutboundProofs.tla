--------------------------- MODULE OutboundProofs ---------------------------
(* What Outbound keeps for any number of sockets, any size of the lanes    *)
(* and any number of commands: the types, the order of the body commands   *)
(* on each socket, that they are preferred to telemetry, and that each of  *)
(* them is accounted for.                                                  *)
EXTENDS Outbound, FiniteSetTheorems, TLAPS

(* Numbers in a lane: in order; all above m; none above n.                 *)
Increasing(q) == \A i, j \in 1..Len(q) : i < j => q[i] < q[j]
Behind(m, q) == \A j \in 1..Len(q) : m < q[j]
AtMost(q, n) == \A j \in 1..Len(q) : q[j] <= n

(* A sender holds a message only where its program has one.                *)
HandsOK ==
    \A s \in Sockets :
        /\ carry[s] # Nothing => sender[s] = "sending"
        /\ gotControl[s] # Nothing => sender[s] = "waiting"

LaneOK == Increasing(controlQueue) /\ AtMost(controlQueue, issued)

(* The commands that have left the lane on their way to socket s.          *)
Held(s) == {carry[s], gotControl[s]} \cap Controls
Delivered(s) == {received[s][i] : i \in 1..Len(received[s])} \cap Controls

(* What has left the lane is behind what is in it, and what was delivered  *)
(* is behind what is still held.                                           *)
PassedOK ==
    \A s \in Sockets :
        /\ \A m \in Held(s) \cup Delivered(s) :
              m <= issued /\ Behind(m, controlQueue)
        /\ \A m \in Delivered(s) : \A h \in Held(s) : m < h
        /\ \A i, j \in 1..Len(received[s]) :
              i < j /\ Death \notin {received[s][i], received[s][j]}
              => received[s][i] < received[s][j]

OutInv == OutTypeOK /\ HandsOK /\ LaneOK /\ PassedOK

-----------------------------------------------------------------------------
(* Lanes.                                                                  *)

LEMMA ElementsOfSequence ==
    ASSUME NEW S, NEW q \in Seq(S)
    PROVE  Len(q) \in Nat /\ \A j \in 1..Len(q) : q[j] \in S
  OBVIOUS

LEMMA HeadAndTail ==
    ASSUME NEW S, NEW q \in Seq(S), q # <<>>
    PROVE  /\ Len(q) > 0 /\ Head(q) = q[1]
           /\ Tail(q) \in Seq(S) /\ Len(Tail(q)) = Len(q) - 1
           /\ \A j \in 1..Len(q) - 1 : Tail(q)[j] = q[j + 1]
  OBVIOUS

USE DEF Controls, Nothing, Death, Cycle, Telemetry, Messages, Tracked

(* Taking the head of a lane that is in order.                             *)
LEMMA TakingKeepsOrder ==
    ASSUME NEW q \in Seq(Controls), q # <<>>, Increasing(q)
    PROVE  /\ Head(q) \in Controls /\ Tail(q) \in Seq(Controls)
           /\ Len(Tail(q)) = Len(q) - 1 /\ Len(q) > 0
           /\ Increasing(Tail(q)) /\ Behind(Head(q), Tail(q))
           /\ \A m \in Int : Behind(m, q) => m < Head(q) /\ Behind(m, Tail(q))
           /\ \A n \in Int : AtMost(q, n) => Head(q) <= n /\ AtMost(Tail(q), n)
<1>1. /\ Len(q) \in Nat /\ Len(q) > 0 /\ Len(Tail(q)) = Len(q) - 1
      /\ Head(q) = q[1] /\ Tail(q) \in Seq(Controls)
      /\ \A j \in 1..Len(q) : q[j] \in Controls
      /\ \A j \in 1..Len(q) - 1 : Tail(q)[j] = q[j + 1]
  BY ElementsOfSequence, HeadAndTail
<1> QED
  BY <1>1, OutboundAssumption
  DEF OutboundAssumption, Increasing, Behind, AtMost

(* Putting the next k commands behind a lane that has none above n.        *)
LEMMA IssuingKeepsOrder ==
    ASSUME NEW q \in Seq(Controls), NEW n \in Nat, NEW k \in Nat,
           n + k <= MaxControls, Increasing(q), AtMost(q, n)
    PROVE  LET r == q \o [i \in 1..k |-> n + i]
           IN  /\ r \in Seq(Controls) /\ Len(r) = Len(q) + k
               /\ Increasing(r) /\ AtMost(r, n + k)
               /\ \A m \in Int : m <= n /\ Behind(m, q) => Behind(m, r)
<1> DEFINE t == [i \in 1..k |-> n + i]
           r == q \o t
<1>1. t \in Seq(Controls) /\ Len(t) = k
  BY OutboundAssumption DEF OutboundAssumption
<1>2. /\ r \in Seq(Controls) /\ Len(r) = Len(q) + k /\ Len(q) \in Nat
      /\ \A j \in 1..Len(r) : r[j] = IF j <= Len(q) THEN q[j] ELSE t[j - Len(q)]
  BY <1>1
<1>3. \A j \in 1..Len(r) : r[j] = IF j <= Len(q) THEN q[j] ELSE n + j - Len(q)
  BY <1>2
<1>4. \A j \in 1..Len(q) : q[j] \in Controls
  BY ElementsOfSequence
<1> HIDE DEF t, r
<1>5. Increasing(r)
  <2> SUFFICES ASSUME NEW i \in 1..Len(r), NEW j \in 1..Len(r), i < j
               PROVE  r[i] < r[j]
    BY DEF Increasing
  <2>1. CASE j <= Len(q)
    BY <2>1, <1>2, <1>3 DEF Increasing
  <2>2. CASE i <= Len(q) /\ j > Len(q)
    BY <2>2, <1>2, <1>3, <1>4 DEF AtMost
  <2>3. CASE i > Len(q)
    BY <2>3, <1>2, <1>3
  <2> QED
    BY <2>1, <2>2, <2>3, <1>2
<1>6. AtMost(r, n + k)
  BY <1>2, <1>3, <1>4 DEF AtMost
<1>7. \A m \in Int : m <= n /\ Behind(m, q) => Behind(m, r)
  BY <1>2, <1>3, <1>4 DEF Behind
<1> QED
  BY <1>2, <1>5, <1>6, <1>7 DEF r, t

(* What is delivered by one more message.                                  *)
LEMMA DeliveryOfOne ==
    ASSUME NEW q \in Seq(Tracked), NEW m \in Tracked
    PROVE  /\ Append(q, m) \in Seq(Tracked)
           /\ Len(Append(q, m)) = Len(q) + 1 /\ Len(q) \in Nat
           /\ \A i \in 1..Len(q) : Append(q, m)[i] = q[i]
           /\ Append(q, m)[Len(q) + 1] = m
  OBVIOUS

-----------------------------------------------------------------------------
(* The types.                                                              *)

USE DEF laneVars, senderVars, ghostVars, budget

LEMMA LosesTracked ==
    ASSUME NEW ms, NEW why \in Causes, OutTypeOK, Lose(ms, why)
    PROVE  lost' \subseteq Tracked \X Causes
  BY DEF OutTypeOK, Lose

LEMMA OfferTypeOK ==
    ASSUME OutTypeOK, NEW m \in Telemetry, Offer(m)
    PROVE  /\ outQueue' \in Seq(Telemetry) /\ Len(outQueue') <= OutMax
           /\ lost' \subseteq Tracked \X Causes
<1>1. CASE Len(outQueue) < OutMax
  <2>1. /\ Append(outQueue, m) \in Seq(Telemetry)
        /\ Len(Append(outQueue, m)) = Len(outQueue) + 1
        /\ Len(outQueue) \in Nat
    BY DEF OutTypeOK
  <2>2. outQueue' = Append(outQueue, m) /\ lost' = lost
    BY <1>1 DEF Offer
  <2>3. OutMax \in Nat /\ lost \subseteq Tracked \X Causes
    BY OutboundAssumption DEF OutboundAssumption, OutTypeOK
  <2> QED
    BY <1>1, <2>1, <2>2, <2>3
<1>2. CASE ~(Len(outQueue) < OutMax)
  <2>1. "full" \in Causes
    BY DEF Causes
  <2> QED
    BY <1>2, <2>1, LosesTracked DEF OutTypeOK, Offer
<1> QED
  BY <1>1, <1>2

(* Taking the head of the telemetry lane.                                  *)
LEMMA TakingTelemetry ==
    ASSUME OutTypeOK, outQueue # <<>>
    PROVE  /\ Head(outQueue) \in Telemetry /\ Tail(outQueue) \in Seq(Telemetry)
           /\ Len(Tail(outQueue)) <= OutMax
<1>1. /\ outQueue \in Seq(Telemetry) /\ Len(outQueue) \in Nat
      /\ Len(Tail(outQueue)) = Len(outQueue) - 1
  BY DEF OutTypeOK
<1> QED
  BY <1>1, OutboundAssumption DEF OutboundAssumption, OutTypeOK

(* Taking the head of the control lane.                                    *)
LEMMA TakingControl ==
    ASSUME OutInv, controlQueue # <<>>
    PROVE  /\ Head(controlQueue) \in Controls
           /\ Head(controlQueue) <= issued
           /\ Tail(controlQueue) \in Seq(Controls)
           /\ Len(Tail(controlQueue)) <= ControlMax
           /\ Increasing(Tail(controlQueue)) /\ AtMost(Tail(controlQueue), issued)
           /\ Behind(Head(controlQueue), Tail(controlQueue))
           /\ \A m \in Int : Behind(m, controlQueue)
                  => m < Head(controlQueue) /\ Behind(m, Tail(controlQueue))
<1>1. controlQueue \in Seq(Controls) /\ Len(controlQueue) \in Nat
      /\ issued \in Int
  BY DEF OutInv, OutTypeOK
<1>2. Increasing(controlQueue) /\ AtMost(controlQueue, issued)
  BY DEF OutInv, LaneOK
<1>3. Len(controlQueue) <= ControlMax /\ ControlMax \in Nat
  BY OutboundAssumption DEF OutboundAssumption, OutInv, OutTypeOK
<1>4. Len(Tail(controlQueue)) = Len(controlQueue) - 1
  BY <1>1, <1>2, TakingKeepsOrder
<1> QED
  BY <1>1, <1>2, <1>3, <1>4, TakingKeepsOrder

-----------------------------------------------------------------------------
(* What keeps the order of the commands.                                   *)

LEMMA PassedOn ==
    ASSUME OutInv, issued' \in Int, issued <= issued', UNCHANGED received,
           \A m \in Int : m <= issued /\ Behind(m, controlQueue)
                          => Behind(m, controlQueue'),
           \A s \in Sockets : \A h \in Held(s)' \ Held(s) :
              /\ h <= issued' /\ Behind(h, controlQueue')
              /\ \A m \in Int : Behind(m, controlQueue) => m < h
    PROVE  PassedOK'
<1> SUFFICES ASSUME NEW s \in Sockets
             PROVE  PassedOK!(s)'
  BY DEF PassedOK
<1>1. PassedOK!(s)
  BY DEF OutInv, PassedOK
<1>2. Delivered(s)' = Delivered(s)
  BY DEF Delivered
<1>3. issued \in Int /\ Held(s) \subseteq Int /\ Held(s)' \subseteq Int
      /\ Delivered(s) \subseteq Int
  BY DEF OutInv, OutTypeOK, Held, Delivered
<1>4. \A m \in Held(s)' \cup Delivered(s)' :
         m <= issued' /\ Behind(m, controlQueue')
  BY <1>1, <1>2, <1>3
<1>5. \A m \in Delivered(s)' : \A h \in Held(s)' : m < h
  BY <1>1, <1>2, <1>3
<1> QED
  BY <1>1, <1>4, <1>5

LEMMA ControlUntouched ==
    ASSUME OutInv,
           UNCHANGED <<controlQueue, issued, received, carry, gotControl>>
    PROVE  LaneOK' /\ PassedOK'
<1>1. LaneOK'
  BY DEF OutInv, LaneOK
<1>2. issued \in Int /\ \A s \in Sockets : Held(s)' = Held(s)
  BY DEF OutInv, OutTypeOK, Held
<1> QED
  BY <1>1, <1>2, PassedOn

LEMMA CyclePutsInv ==
    ASSUME OutInv, CyclePuts
    PROVE  OutInv'
<1>1. OutTypeOK'
  <2>1. /\ outQueue' \in Seq(Telemetry) /\ Len(outQueue') <= OutMax
        /\ lost' \subseteq Tracked \X Causes
    BY OfferTypeOK DEF OutInv, CyclePuts
  <2> QED
    BY <2>1 DEF OutInv, OutTypeOK, CyclePuts
<1>2. HandsOK'
  BY DEF OutInv, HandsOK, CyclePuts
<1>3. LaneOK' /\ PassedOK'
  BY ControlUntouched DEF CyclePuts
<1> QED
  BY <1>1, <1>2, <1>3 DEF OutInv

LEMMA DeathPutsInv ==
    ASSUME OutInv, DeathPuts
    PROVE  OutInv'
<1>1. OutTypeOK'
  <2>1. /\ outQueue' \in Seq(Telemetry) /\ Len(outQueue') <= OutMax
        /\ lost' \subseteq Tracked \X Causes
    BY OfferTypeOK DEF OutInv, DeathPuts
  <2> QED
    BY <2>1 DEF OutInv, OutTypeOK, DeathPuts
<1>2. HandsOK'
  BY DEF OutInv, HandsOK, DeathPuts
<1>3. LaneOK' /\ PassedOK'
  BY ControlUntouched DEF DeathPuts
<1> QED
  BY <1>1, <1>2, <1>3 DEF OutInv

LEMMA ConnectInv ==
    ASSUME OutInv, NEW s \in Sockets, Connect(s)
    PROVE  OutInv'
<1>1. OutTypeOK'
  BY OutboundAssumption DEF OutInv, OutTypeOK, Connect, OutboundAssumption
<1>2. HandsOK'
  BY DEF OutInv, OutTypeOK, HandsOK, Connect
<1>3. LaneOK' /\ PassedOK'
  BY ControlUntouched DEF Connect
<1> QED
  BY <1>1, <1>2, <1>3 DEF OutInv

LEMMA TakeTelemetryInv ==
    ASSUME OutInv, NEW s \in Sockets, TakeTelemetry(s)
    PROVE  OutInv'
<1>1. OutTypeOK'
  <2>1. /\ Head(outQueue) \in Telemetry /\ Tail(outQueue) \in Seq(Telemetry)
        /\ Len(Tail(outQueue)) <= OutMax
    BY TakingTelemetry DEF OutInv, TakeTelemetry
  <2> QED
    BY <2>1 DEF OutInv, OutTypeOK, TakeTelemetry
<1>2. HandsOK'
  BY DEF OutInv, HandsOK, TakeTelemetry
<1>3. LaneOK' /\ PassedOK'
  BY ControlUntouched DEF TakeTelemetry
<1> QED
  BY <1>1, <1>2, <1>3 DEF OutInv

LEMMA OrphanTakesTelemetryInv ==
    ASSUME OutInv, OrphanTakesTelemetry
    PROVE  OutInv'
<1>1. OutTypeOK'
  <2>1. /\ Tail(outQueue) \in Seq(Telemetry) /\ Len(Tail(outQueue)) <= OutMax
    BY TakingTelemetry DEF OutInv, OrphanTakesTelemetry
  <2>2. lost' \subseteq Tracked \X Causes
    BY LosesTracked DEF OutInv, OrphanTakesTelemetry, Causes
  <2>3. orphans' \in [control : Nat, telemetry : Nat]
    <3>1. orphans.telemetry \in Nat /\ orphans.telemetry - 1 \in Nat
      BY DEF OutInv, OutTypeOK, OrphanTakesTelemetry
    <3> QED
      BY <3>1 DEF OutInv, OutTypeOK, OrphanTakesTelemetry
  <2> QED
    BY <2>1, <2>2, <2>3 DEF OutInv, OutTypeOK, OrphanTakesTelemetry
<1>2. HandsOK'
  BY DEF OutInv, HandsOK, OrphanTakesTelemetry
<1>3. LaneOK' /\ PassedOK'
  BY ControlUntouched DEF OrphanTakesTelemetry
<1> QED
  BY <1>1, <1>2, <1>3 DEF OutInv

LEMMA ResetInv ==
    ASSUME OutInv, Reset
    PROVE  OutInv'
<1>1. OutTypeOK'
  <2>1. lost' \subseteq Tracked \X Causes
    BY LosesTracked DEF OutInv, Reset, Causes
  <2>2. resets' \in 0..MaxResets
    BY OutboundAssumption DEF OutboundAssumption, OutInv, OutTypeOK, Reset
  <2>3. OutMax \in Nat /\ ControlMax \in Nat
    BY OutboundAssumption DEF OutboundAssumption
  <2> QED
    BY <2>1, <2>2, <2>3 DEF OutInv, OutTypeOK, Reset
<1>2. HandsOK'
  BY DEF OutInv, HandsOK, Reset
<1>3. LaneOK'
  BY DEF LaneOK, Increasing, AtMost, Reset
<1>4. PassedOK'
  <2>1. issued' \in Int /\ issued <= issued'
    BY DEF OutInv, OutTypeOK, Reset
  <2>2. \A m \in Int : Behind(m, controlQueue')
    BY DEF Behind, Reset
  <2>3. \A s \in Sockets : Held(s)' = Held(s)
    BY DEF Held, Reset
  <2> QED
    BY <2>1, <2>2, <2>3, PassedOn DEF Reset
<1> QED
  BY <1>1, <1>2, <1>3, <1>4 DEF OutInv

LEMMA BodyCommandsInv ==
    ASSUME OutInv, NEW n \in {1, 2}, BodyCommands(n)
    PROVE  OutInv'
<1> DEFINE room == ControlMax - Len(controlQueue)
           k == IF n <= room THEN n ELSE room
<1>1. /\ controlQueue \in Seq(Controls) /\ Len(controlQueue) \in Nat
      /\ Len(controlQueue) <= ControlMax /\ ControlMax \in Nat
      /\ issued \in Nat
  BY OutboundAssumption DEF OutboundAssumption, OutInv, OutTypeOK
<1>2. /\ k \in Nat /\ Len(controlQueue) + k <= ControlMax
      /\ issued + k <= MaxControls /\ issued' = issued + k
      /\ controlQueue' = controlQueue \o [i \in 1..k |-> issued + i]
  BY <1>1 DEF BodyCommands
<1> HIDE DEF k
<1>3. Increasing(controlQueue) /\ AtMost(controlQueue, issued)
  BY DEF OutInv, LaneOK
<1>4. /\ controlQueue' \in Seq(Controls)
      /\ Len(controlQueue') = Len(controlQueue) + k
      /\ Increasing(controlQueue') /\ AtMost(controlQueue', issued')
      /\ \A m \in Int : m <= issued /\ Behind(m, controlQueue)
                        => Behind(m, controlQueue')
  BY <1>1, <1>2, <1>3, IssuingKeepsOrder
<1>5. OutTypeOK'
  <2>1. Len(controlQueue') <= ControlMax
    BY <1>2, <1>4
  <2>2. issued' \in 0..MaxControls
    BY <1>1, <1>2, OutboundAssumption DEF OutboundAssumption
  <2> QED
    BY <1>4, <2>1, <2>2 DEF OutInv, OutTypeOK, BodyCommands
<1>6. HandsOK'
  BY DEF OutInv, HandsOK, BodyCommands
<1>7. LaneOK'
  BY <1>4 DEF LaneOK
<1>8. PassedOK'
  <2>1. issued' \in Int /\ issued <= issued'
    BY <1>1, <1>2
  <2>2. \A s \in Sockets : Held(s)' = Held(s)
    BY DEF Held, BodyCommands
  <2> QED
    BY <1>4, <2>1, <2>2, PassedOn DEF BodyCommands
<1> QED
  BY <1>5, <1>6, <1>7, <1>8 DEF OutInv

LEMMA OrphanTakesControlInv ==
    ASSUME OutInv, OrphanTakesControl
    PROVE  OutInv'
<1>1. controlQueue # <<>> /\ controlQueue' = Tail(controlQueue)
  BY DEF OrphanTakesControl
<1>2. OutTypeOK'
  <2>1. lost' \subseteq Tracked \X Causes
    BY LosesTracked DEF OutInv, OrphanTakesControl, Causes
  <2>2. orphans' \in [control : Nat, telemetry : Nat]
    BY DEF OutInv, OutTypeOK, OrphanTakesControl
  <2> QED
    BY <1>1, <2>1, <2>2, TakingControl DEF OutInv, OutTypeOK, OrphanTakesControl
<1>3. HandsOK'
  BY DEF OutInv, HandsOK, OrphanTakesControl
<1>4. LaneOK'
  BY <1>1, TakingControl DEF LaneOK, OrphanTakesControl
<1>5. PassedOK'
  <2>1. issued' = issued /\ issued \in Int
    BY DEF OutInv, OutTypeOK, OrphanTakesControl
  <2>2. \A s \in Sockets : Held(s)' = Held(s)
    BY DEF Held, OrphanTakesControl
  <2> QED
    BY <1>1, <2>1, <2>2, TakingControl, PassedOn DEF OrphanTakesControl
<1> QED
  BY <1>2, <1>3, <1>4, <1>5 DEF OutInv

LEMMA TakeControlInv ==
    ASSUME OutInv, NEW s \in Sockets, TakeControl(s)
    PROVE  OutInv'
<1>1. controlQueue # <<>> /\ controlQueue' = Tail(controlQueue)
  BY DEF TakeControl
<1>2. OutTypeOK'
  BY <1>1, TakingControl DEF OutInv, OutTypeOK, TakeControl
<1>3. HandsOK'
  BY DEF OutInv, OutTypeOK, HandsOK, TakeControl
<1>4. LaneOK'
  BY <1>1, TakingControl DEF LaneOK, TakeControl
<1>5. PassedOK'
  <2>1. issued' = issued /\ issued \in Int
    BY DEF OutInv, OutTypeOK, TakeControl
  <2>2. \A t \in Sockets : Held(t)' \subseteq Held(t) \cup {Head(controlQueue)}
    BY DEF OutInv, OutTypeOK, Held, TakeControl
  <2> QED
    BY <1>1, <2>1, <2>2, TakingControl, PassedOn DEF TakeControl
<1> QED
  BY <1>2, <1>3, <1>4, <1>5 DEF OutInv

LEMMA PollInv ==
    ASSUME OutInv, NEW s \in Sockets, Poll(s)
    PROVE  OutInv'
<1>1. CASE controlQueue # <<>>
  <2>1. Writes(s, Head(controlQueue)) /\ controlQueue' = Tail(controlQueue)
    BY <1>1 DEF Poll
  <2>2. OutTypeOK'
    BY <1>1, <2>1, TakingControl DEF OutInv, OutTypeOK, Poll, Writes
  <2>3. HandsOK'
    BY <2>1 DEF OutInv, OutTypeOK, HandsOK, Poll, Writes
  <2>4. LaneOK'
    BY <1>1, <2>1, TakingControl DEF LaneOK, Poll
  <2>5. PassedOK'
    <3>1. issued' = issued /\ issued \in Int
      BY DEF OutInv, OutTypeOK, Poll
    <3>2. \A t \in Sockets :
             Held(t)' \subseteq Held(t) \cup {Head(controlQueue)}
      BY <2>1 DEF OutInv, OutTypeOK, Held, Poll, Writes
    <3> QED
      BY <1>1, <2>1, <3>1, <3>2, TakingControl, PassedOn DEF Poll
  <2> QED
    BY <2>2, <2>3, <2>4, <2>5 DEF OutInv
<1>2. CASE controlQueue = <<>>
  <2>1. sender' = [sender EXCEPT ![s] = "waiting"]
        /\ UNCHANGED <<controlQueue, carry>>
    BY <1>2 DEF Poll
  <2>2. OutTypeOK'
    BY <2>1 DEF OutInv, OutTypeOK, Poll
  <2>3. HandsOK'
    BY <2>1 DEF OutInv, OutTypeOK, HandsOK, Poll
  <2>4. LaneOK' /\ PassedOK'
    BY <2>1, ControlUntouched DEF Poll
  <2> QED
    BY <2>2, <2>3, <2>4 DEF OutInv
<1> QED
  BY <1>1, <1>2

LEMMA ChooseInv ==
    ASSUME OutInv, NEW s \in Sockets, Choose(s)
    PROVE  OutInv'
<1>1. issued' = issued /\ issued \in Int
  BY DEF OutInv, OutTypeOK, Choose, chooseFrame
<1>2. "outrun" \in Causes
  BY DEF Causes
<1>3. CASE gotControl[s] # Nothing /\ Writes(s, gotControl[s])
           /\ Lose({gotTelemetry[s]}, "outrun") /\ UNCHANGED controlQueue
  <2>1. OutTypeOK'
    <3>1. lost' \subseteq Tracked \X Causes
      BY <1>2, <1>3, LosesTracked DEF OutInv
    <3> QED
      BY <1>3, <3>1
      DEF OutInv, OutTypeOK, Choose, chooseFrame, Writes, Forgets
  <2>2. HandsOK'
    BY <1>3 DEF OutInv, OutTypeOK, HandsOK, Choose, Writes, Forgets
  <2>3. LaneOK'
    BY <1>1, <1>3 DEF OutInv, LaneOK
  <2>4. PassedOK'
    <3>1. \A t \in Sockets : Held(t)' \subseteq Held(t)
      BY <1>3 DEF OutInv, OutTypeOK, Held, Choose, Writes, Forgets
    <3> QED
      BY <1>1, <1>3, <3>1, PassedOn DEF Choose, chooseFrame
  <2> QED
    BY <2>1, <2>2, <2>3, <2>4 DEF OutInv
<1>4. CASE controlQueue # <<>> /\ Writes(s, Head(controlQueue))
           /\ controlQueue' = Tail(controlQueue)
           /\ Lose({gotTelemetry[s]}, "outrun")
  <2>1. OutTypeOK'
    <3>1. lost' \subseteq Tracked \X Causes
      BY <1>2, <1>4, LosesTracked DEF OutInv
    <3> QED
      BY <1>4, <3>1, TakingControl
      DEF OutInv, OutTypeOK, Choose, chooseFrame, Writes, Forgets
  <2>2. HandsOK'
    BY <1>4 DEF OutInv, OutTypeOK, HandsOK, Choose, Writes, Forgets
  <2>3. LaneOK'
    BY <1>1, <1>4, TakingControl DEF LaneOK
  <2>4. PassedOK'
    <3>1. \A t \in Sockets :
             Held(t)' \subseteq Held(t) \cup {Head(controlQueue)}
      BY <1>4 DEF OutInv, OutTypeOK, Held, Choose, Writes, Forgets
    <3> QED
      BY <1>1, <1>4, <3>1, TakingControl, PassedOn DEF Choose, chooseFrame
  <2> QED
    BY <2>1, <2>2, <2>3, <2>4 DEF OutInv
<1>5. CASE Writes(s, gotTelemetry[s]) /\ UNCHANGED <<controlQueue, lost>>
  <2>1. OutTypeOK'
    BY <1>5 DEF OutInv, OutTypeOK, Choose, chooseFrame, Writes, Forgets
  <2>2. HandsOK'
    BY <1>5 DEF OutInv, OutTypeOK, HandsOK, Choose, Writes, Forgets
  <2>3. LaneOK'
    BY <1>1, <1>5 DEF OutInv, LaneOK
  <2>4. PassedOK'
    <3>1. \A t \in Sockets : Held(t)' \subseteq Held(t)
      BY <1>5 DEF OutInv, OutTypeOK, Held, Choose, Writes, Forgets
    <3> QED
      BY <1>1, <1>5, <3>1, PassedOn DEF Choose, chooseFrame
  <2> QED
    BY <2>1, <2>2, <2>3, <2>4 DEF OutInv
<1> QED
  BY <1>3, <1>4, <1>5 DEF Choose

LEMMA SentInv ==
    ASSUME OutInv, NEW s \in Sockets, Sent(s)
    PROVE  OutInv'
<1>1. gotControl[s] = Nothing
  BY DEF OutInv, HandsOK, Sent
<1>2. /\ sender' = [sender EXCEPT ![s] = "idle"]
      /\ carry' = [carry EXCEPT ![s] = Nothing]
      /\ UNCHANGED <<laneVars, gotControl, gotTelemetry, orphans, issued, died,
                     lost, budget>>
  BY DEF Sent, Written
<1>3. /\ received[s] \in Seq(Tracked)
      /\ received \in [Sockets -> Seq(Tracked)]
      /\ issued \in Int
  BY DEF OutInv, OutTypeOK
<1>4. CASE carry[s] \in Tracked
  <2>1. received' = [received EXCEPT ![s] = Append(received[s], carry[s])]
    BY <1>4 DEF Sent
  <2>2. received' \in [Sockets -> Seq(Tracked)]
    BY <1>3, <1>4, <2>1, DeliveryOfOne
  <2>3. OutTypeOK'
    BY <1>2, <2>2 DEF OutInv, OutTypeOK
  <2>4. HandsOK'
    BY <1>1, <1>2 DEF OutInv, OutTypeOK, HandsOK
  <2>5. LaneOK'
    BY <1>2 DEF OutInv, LaneOK
  <2>6. ASSUME NEW t \in Sockets
        PROVE  PassedOK!(t)'
    <3>1. PassedOK!(t)
      BY DEF OutInv, PassedOK
    <3>2. CASE t # s
      <4>1. received'[t] = received[t] /\ Held(t)' = Held(t)
            /\ Delivered(t)' = Delivered(t)
        BY <1>2, <1>3, <2>1, <3>2 DEF OutInv, OutTypeOK, Held, Delivered
      <4> QED
        BY <1>2, <3>1, <4>1
    <3>3. CASE t = s
      <4> DEFINE q == received[s]
                 r == Append(q, carry[s])
      <4>1. received'[s] = r
        BY <1>3, <2>1
      <4>2. /\ Len(r) = Len(q) + 1 /\ Len(q) \in Nat
            /\ \A i \in 1..Len(q) : r[i] = q[i] /\ q[i] \in Tracked
            /\ r[Len(q) + 1] = carry[s]
        BY <1>3, <1>4, DeliveryOfOne
      <4> HIDE DEF r
      <4>3. Held(s)' = {}
        BY <1>1, <1>2 DEF OutInv, OutTypeOK, Held
      <4>4. Delivered(s)' = Delivered(s) \cup ({carry[s]} \cap Controls)
        BY <4>1, <4>2 DEF Delivered
      <4>5. {carry[s]} \cap Controls \subseteq Held(s)
        BY DEF Held
      <4>6. \A m \in Delivered(s)' : m <= issued' /\ Behind(m, controlQueue')
        BY <1>2, <3>1, <3>3, <4>4, <4>5
      <4>7. \A i \in 1..Len(q) : q[i] # Death /\ carry[s] # Death
                                => q[i] < carry[s]
        <5>1. \A i \in 1..Len(q) : q[i] # Death => q[i] \in Delivered(s)
          BY <4>2 DEF Delivered
        <5> QED
          BY <1>4, <3>1, <3>3, <5>1 DEF Held
      <4>8. \A i, j \in 1..Len(r) :
               i < j /\ Death \notin {r[i], r[j]} => r[i] < r[j]
        <5> SUFFICES ASSUME NEW i \in 1..Len(r), NEW j \in 1..Len(r), i < j,
                            r[i] # Death, r[j] # Death
                     PROVE  r[i] < r[j]
          OBVIOUS
        <5>1. CASE j = Len(q) + 1
          BY <4>2, <4>7, <5>1
        <5>2. CASE j # Len(q) + 1
          BY <3>1, <3>3, <4>2, <5>2
        <5> QED
          BY <5>1, <5>2
      <4> QED
        BY <3>3, <4>1, <4>3, <4>6, <4>8
    <3> QED
      BY <3>2, <3>3
  <2> QED
    BY <2>3, <2>4, <2>5, <2>6 DEF OutInv, PassedOK
<1>5. CASE carry[s] \notin Tracked
  <2>1. received' = received
    BY <1>5 DEF Sent
  <2>2. OutTypeOK'
    BY <1>2, <2>1 DEF OutInv, OutTypeOK
  <2>3. HandsOK'
    BY <1>1, <1>2 DEF OutInv, OutTypeOK, HandsOK
  <2>4. LaneOK'
    BY <1>2 DEF OutInv, LaneOK
  <2>5. \A t \in Sockets : Held(t)' \subseteq Held(t)
    BY <1>2 DEF OutInv, OutTypeOK, Held
  <2>6. PassedOK'
    BY <1>2, <1>3, <2>1, <2>5, PassedOn
  <2> QED
    BY <2>2, <2>3, <2>4, <2>6 DEF OutInv
<1> QED
  BY <1>4, <1>5

LEMMA SendFailsInv ==
    ASSUME OutInv, NEW s \in Sockets, SendFails(s)
    PROVE  OutInv'
<1>1. OutTypeOK'
  <2>1. lost' \subseteq Tracked \X Causes
    BY LosesTracked DEF OutInv, SendFails, Causes
  <2> QED
    BY <2>1 DEF OutInv, OutTypeOK, SendFails, Written
<1>2. HandsOK'
  BY DEF OutInv, OutTypeOK, HandsOK, SendFails, Written
<1>3. LaneOK'
  BY DEF OutInv, LaneOK, SendFails
<1>4. PassedOK'
  <2>1. issued' = issued /\ issued \in Int
    BY DEF OutInv, OutTypeOK, SendFails
  <2>2. \A t \in Sockets : Held(t)' \subseteq Held(t)
    BY DEF OutInv, OutTypeOK, Held, SendFails, Written
  <2> QED
    BY <2>1, <2>2, PassedOn DEF SendFails
<1> QED
  BY <1>1, <1>2, <1>3, <1>4 DEF OutInv

LEMMA DisconnectInv ==
    ASSUME OutInv, NEW s \in Sockets, Disconnect(s)
    PROVE  OutInv'
<1>1. OutTypeOK'
  <2>1. lost' \subseteq Tracked \X Causes
    BY LosesTracked DEF OutInv, Disconnect, Causes
  <2>2. orphans' \in [control : Nat, telemetry : Nat]
    BY DEF OutInv, OutTypeOK, Disconnect
  <2> QED
    BY <2>1, <2>2 DEF OutInv, OutTypeOK, Disconnect, Written, Forgets
<1>2. HandsOK'
  BY DEF OutInv, OutTypeOK, HandsOK, Disconnect, Written, Forgets
<1>3. LaneOK'
  BY DEF OutInv, LaneOK, Disconnect
<1>4. PassedOK'
  <2>1. issued' = issued /\ issued \in Int
    BY DEF OutInv, OutTypeOK, Disconnect
  <2>2. \A t \in Sockets : Held(t)' \subseteq Held(t)
    BY DEF OutInv, OutTypeOK, Held, Disconnect, Written, Forgets
  <2> QED
    BY <2>1, <2>2, PassedOn DEF Disconnect
<1> QED
  BY <1>1, <1>2, <1>3, <1>4 DEF OutInv

-----------------------------------------------------------------------------
LEMMA InitInv == Init => OutInv
<1> SUFFICES ASSUME Init
             PROVE  OutInv
  OBVIOUS
<1>1. OutTypeOK
  <2>1. /\ OutMax \in Nat /\ ControlMax \in Nat /\ MaxControls \in Nat
        /\ MaxConnects \in Nat /\ MaxResets \in Nat
    BY OutboundAssumption DEF OutboundAssumption
  <2>2. /\ outQueue \in Seq(Telemetry) /\ Len(outQueue) = 0
        /\ controlQueue \in Seq(Controls) /\ Len(controlQueue) = 0
        /\ received \in [Sockets -> Seq(Tracked)]
    BY DEF Init
  <2>3. orphans \in [control : Nat, telemetry : Nat]
    BY DEF Init
  <2>4. /\ sender \in [Sockets -> {"gone", "idle", "waiting", "sending", "failed"}]
        /\ gotControl \in [Sockets -> Controls \cup {Nothing}]
        /\ gotTelemetry \in [Sockets -> Telemetry \cup {Nothing}]
        /\ carry \in [Sockets -> Messages \cup {Nothing}]
    BY DEF Init
  <2>5. /\ issued \in 0..MaxControls /\ connects \in 0..MaxConnects
        /\ resets \in 0..MaxResets
    BY <2>1 DEF Init
  <2>6. died \in BOOLEAN /\ lost \subseteq Tracked \X Causes
    BY DEF Init
  <2> QED
    BY <2>1, <2>2, <2>3, <2>4, <2>5, <2>6 DEF OutTypeOK
<1>2. HandsOK /\ LaneOK
  BY DEF Init, HandsOK, LaneOK, Increasing, AtMost
<1>3. PassedOK
  BY DEF Init, PassedOK, Held, Delivered
<1> QED
  BY <1>1, <1>2, <1>3 DEF OutInv

LEMMA NextInv == OutInv /\ [Next]_vars => OutInv'
<1> SUFFICES ASSUME OutInv, [Next]_vars
             PROVE  OutInv'
  OBVIOUS
<1>1. CASE CyclePuts \/ DeathPuts \/ Reset
  BY <1>1, CyclePutsInv, DeathPutsInv, ResetInv
<1>2. CASE \E n \in {1, 2} : BodyCommands(n)
  BY <1>2, BodyCommandsInv
<1>3. ASSUME NEW s \in Sockets,
             Connect(s) \/ SenderStep(s) \/ SendFails(s) \/ Disconnect(s)
      PROVE  OutInv'
  BY <1>3, ConnectInv, PollInv, TakeControlInv, TakeTelemetryInv, ChooseInv,
     SentInv, SendFailsInv, DisconnectInv
  DEF SenderStep
<1>4. CASE OrphanTakesControl \/ OrphanTakesTelemetry
  BY <1>4, OrphanTakesControlInv, OrphanTakesTelemetryInv
<1>5. CASE UNCHANGED vars
  <2>1. OutTypeOK'
    BY <1>5 DEF OutInv, OutTypeOK, vars
  <2>2. HandsOK'
    BY <1>5 DEF OutInv, HandsOK, vars
  <2>3. LaneOK' /\ PassedOK'
    BY <1>5, ControlUntouched DEF vars
  <2> QED
    BY <2>1, <2>2, <2>3 DEF OutInv
<1> QED
  BY <1>1, <1>2, <1>3, <1>4, <1>5 DEF Next

(* OutInv is an invariant, whatever connections come and go, sends fail    *)
(* and get() tasks stay behind.                                            *)
THEOREM OutboundInvariant == Spec => []OutInv
  BY InitInv, NextInv, PTL DEF Spec

(* Every variable keeps its type; neither lane exceeds its size.           *)
THEOREM OutTypeCorrect == Spec => []OutTypeOK
  BY OutboundInvariant, PTL DEF OutInv

(* Each socket delivers body commands in the order of their acceptance.    *)
THEOREM CommandsInOrder == Spec => []ControlInOrder
<1>1. OutInv => ControlInOrder
  <2>1. OutTypeOK => \A s \in Sockets : DOMAIN received[s] = 1..Len(received[s])
    BY DEF OutTypeOK
  <2> QED
    BY <2>1 DEF OutInv, PassedOK, ControlInOrder
<1> QED
  BY <1>1, OutboundInvariant, PTL

(* No sender chooses telemetry over a body command it could have chosen.   *)
THEOREM CommandsFirst == Spec => ControlFirst
<1> DEFINE Chooses(s) == carry[s] = Nothing /\ carry'[s] \in Telemetry
                         => controlQueue = <<>> /\ gotControl[s] = Nothing
<1>1. ASSUME OutInv, [Next]_vars, NEW s \in Sockets,
             carry[s] = Nothing, carry'[s] \in Telemetry
      PROVE  controlQueue = <<>> /\ gotControl[s] = Nothing
  <2>1. carry' # carry
    BY <1>1
  <2>2. carry \in [Sockets -> Messages \cup {Nothing}]
    BY <1>1 DEF OutInv, OutTypeOK
  <2>3. ASSUME NEW t \in Sockets,
               \/ Connect(t) \/ TakeControl(t) \/ TakeTelemetry(t)
               \/ Sent(t) \/ SendFails(t) \/ Disconnect(t)
        PROVE  FALSE
    BY <1>1, <2>2, <2>3
    DEF Connect, TakeControl, TakeTelemetry, Sent, SendFails, Disconnect,
        Written
  <2>4. ASSUME NEW t \in Sockets, Poll(t)
        PROVE  FALSE
    <3>1. CASE controlQueue # <<>>
      BY <1>1, <2>2, <2>4, <3>1, TakingControl DEF Poll, Writes
    <3>2. CASE controlQueue = <<>>
      BY <2>1, <2>4, <3>2 DEF Poll
    <3> QED
      BY <3>1, <3>2
  <2>5. ASSUME NEW t \in Sockets, Choose(t)
        PROVE  controlQueue = <<>> /\ gotControl[s] = Nothing
    <3>1. t = s
      BY <1>1, <2>2, <2>5 DEF Choose, Writes
    <3>2. gotControl[s] # Nothing => gotControl[s] \in Controls
      BY <1>1 DEF OutInv, OutTypeOK
    <3>3. controlQueue # <<>> => Head(controlQueue) \in Controls
      BY <1>1, TakingControl
    <3> QED
      BY <1>1, <2>2, <2>5, <3>1, <3>2, <3>3 DEF Choose, Writes
  <2> QED
    BY <1>1, <2>1, <2>3, <2>4, <2>5
    DEF Next, SenderStep, CyclePuts, DeathPuts, BodyCommands, Reset,
        OrphanTakesControl, OrphanTakesTelemetry, vars
<1>2. OutInv /\ [Next]_vars
      => [\A s \in Sockets : Chooses(s)]_vars
  BY <1>1
<1> QED
  BY <1>2, OutboundInvariant, PTL DEF Spec, ControlFirst

-----------------------------------------------------------------------------
(* Where a tracked message is.  Counted by sets with one element at most,  *)
(* what Accounted says is inductive, with OutInv.                          *)

Single(P) == \E x : P = {x}
Positions(q, m) == {j \in 1..Len(q) : q[j] = m}

(* Only the message of the death goes through the telemetry lane.          *)
Lane(m) == IF m = Death THEN Positions(outQueue, m) ELSE Positions(controlQueue, m)

Counted(m) == (m = Death /\ died) \/ m \in 1..issued
Never(m) == Lane(m) = {} /\ InHands(m) = {} /\ Receipts(m) = {} /\ Losses(m) = {}
Once(m) ==
    \/ Single(Lane(m)) /\ InHands(m) = {} /\ Receipts(m) = {} /\ Losses(m) = {}
    \/ Lane(m) = {} /\ Single(InHands(m)) /\ Receipts(m) = {} /\ Losses(m) = {}
    \/ Lane(m) = {} /\ InHands(m) = {} /\ Single(Receipts(m)) /\ Losses(m) = {}
    \/ Lane(m) = {} /\ InHands(m) = {} /\ Receipts(m) = {} /\ Single(Losses(m))
Tracks(m) == IF Counted(m) THEN Once(m) ELSE Never(m)

(* Only a sender that waits holds telemetry it has not chosen.             *)
TakenOK == \A s \in Sockets : gotTelemetry[s] # Nothing => sender[s] = "waiting"

AccInv == OutInv /\ TakenOK /\ \A m \in Tracked : Tracks(m)

(* Taking the head of a lane.                                              *)
LEMMA HeadTaken ==
    ASSUME NEW S, NEW q \in Seq(S), q # <<>>, NEW m
    PROVE  /\ Head(q) = m => 1 \in Positions(q, m)
           /\ Head(q) = m /\ Single(Positions(q, m)) => Positions(Tail(q), m) = {}
           /\ Head(q) # m /\ Positions(q, m) = {} => Positions(Tail(q), m) = {}
           /\ Head(q) # m /\ Single(Positions(q, m)) => Single(Positions(Tail(q), m))
<1> DEFINE r == Tail(q)
           P == Positions(q, m)
           R == Positions(r, m)
<1>1. /\ Len(q) > 0 /\ Head(q) = q[1] /\ Len(r) = Len(q) - 1 /\ Len(q) \in Nat
      /\ \A j \in 1..Len(q) - 1 : r[j] = q[j + 1]
  BY HeadAndTail, ElementsOfSequence
<1> HIDE DEF r
<1>2. \A j \in Int : j \in R <=> j + 1 \in P /\ j >= 1
  BY <1>1 DEF Positions
<1>3. \A j \in P : j \in Int /\ j >= 1
  BY DEF Positions
<1>4. \A j \in R : j \in Int
  BY <1>1 DEF Positions
<1>5. Head(q) = m <=> 1 \in P
  BY <1>1 DEF Positions
<1> HIDE DEF P, R
<1>6. 1 \in P /\ Single(P) => R = {}
  <2> SUFFICES ASSUME 1 \in P, Single(P), NEW j \in R
               PROVE  FALSE
    OBVIOUS
  <2>1. P = {1}
    BY DEF Single
  <2> QED
    BY <1>2, <1>4, <2>1
<1>7. P = {} => R = {}
  BY <1>2, <1>4
<1>8. ASSUME 1 \notin P, Single(P)
      PROVE  Single(R)
  <2>1. PICK i : P = {i}
    BY <1>8 DEF Single
  <2>2. i \in Int /\ i > 1
    BY <1>3, <1>8, <2>1
  <2>3. i - 1 \in R
    BY <1>2, <2>1, <2>2
  <2>4. \A j \in R : j = i - 1
    BY <1>2, <1>4, <2>1, <2>2
  <2>5. R = {i - 1}
    BY <2>3, <2>4
  <2> QED
    BY <2>5 DEF Single
<1> QED
  BY <1>5, <1>6, <1>7, <1>8 DEF P, R, r

LEMMA OnePut ==
    ASSUME NEW S, NEW q \in Seq(S), NEW x \in S, NEW m
    PROVE  /\ x # m => Positions(Append(q, x), m) = Positions(q, m)
           /\ Positions(q, x) = {} => Single(Positions(Append(q, x), x))
<1> DEFINE r == Append(q, x)
<1>1. /\ Len(r) = Len(q) + 1 /\ Len(q) \in Nat /\ r[Len(q) + 1] = x
      /\ \A j \in 1..Len(q) : r[j] = q[j]
  OBVIOUS
<1>2. 1..Len(r) = 1..Len(q) \cup {Len(q) + 1}
  BY <1>1
<1> HIDE DEF r
<1>3. x # m => Positions(r, m) = Positions(q, m)
  BY <1>1, <1>2 DEF Positions
<1>4. Positions(q, x) = {} => Positions(r, x) = {Len(q) + 1}
  BY <1>1, <1>2 DEF Positions
<1> QED
  BY <1>3, <1>4 DEF Single, r

(* A message that is in a lane is nowhere else.                            *)
LEMMA InLaneOnly ==
    ASSUME NEW m, Tracks(m), Lane(m) # {}
    PROVE  /\ Counted(m) /\ Single(Lane(m))
           /\ InHands(m) = {} /\ Receipts(m) = {} /\ Losses(m) = {}
  BY DEF Tracks, Once, Never

LEMMA InHandOnly ==
    ASSUME NEW m, Tracks(m), NEW s \in InHands(m)
    PROVE  /\ Counted(m) /\ InHands(m) = {s}
           /\ Lane(m) = {} /\ Receipts(m) = {} /\ Losses(m) = {}
  BY DEF Tracks, Once, Never, Single

(* A step that leaves each of the four as it is, empty or not, keeps Tracks. *)
Same(P, Q) == (P = {} => Q = {}) /\ (Single(P) => Single(Q))
LEMMA SameTracks ==
    ASSUME NEW m, Tracks(m), Counted(m)' = Counted(m), Same(Lane(m), Lane(m)'),
           Same(InHands(m), InHands(m)'), Receipts(m)' = Receipts(m),
           Losses(m)' = Losses(m)
    PROVE  Tracks(m)'
<1>1. CASE Counted(m)
  <2>1. Once(m) /\ Counted(m)'
    BY <1>1 DEF Tracks
  <2>2. Once(m)'
    BY <2>1 DEF Once, Same
  <2> QED
    BY <2>1, <2>2 DEF Tracks
<1>2. CASE ~Counted(m)
  <2>1. Never(m) /\ ~Counted(m)'
    BY <1>2 DEF Tracks
  <2>2. Never(m)'
    BY <2>1 DEF Never, Same
  <2> QED
    BY <2>1, <2>2 DEF Tracks
<1> QED
  BY <1>1, <1>2

(* What Lose does to one message.                                          *)
LEMMA LosesOne ==
    ASSUME NEW ms, NEW why, Lose(ms, why), NEW m \in Tracked
    PROVE  /\ m \notin ms => Losses(m)' = Losses(m)
           /\ m \in ms /\ Losses(m) = {} => Single(Losses(m)')
<1>1. lost' = lost \cup ((ms \cap Tracked) \X {why})
  BY DEF Lose
<1>2. m \notin ms => Losses(m)' = Losses(m)
  BY <1>1 DEF Losses
<1>3. ASSUME m \in ms, Losses(m) = {}
      PROVE  Single(Losses(m)')
  <2>1. Losses(m)' = {<<m, why>>}
    BY <1>1, <1>3 DEF Losses
  <2> QED
    BY <2>1 DEF Single
<1> QED
  BY <1>2, <1>3

LEMMA AccTypes ==
    ASSUME AccInv
    PROVE  /\ OutInv /\ TakenOK /\ HandsOK
           /\ outQueue \in Seq(Telemetry) /\ controlQueue \in Seq(Controls)
           /\ gotControl \in [Sockets -> Controls \cup {Nothing}]
           /\ gotTelemetry \in [Sockets -> Telemetry \cup {Nothing}]
           /\ carry \in [Sockets -> Messages \cup {Nothing}]
           /\ received \in [Sockets -> Seq(Tracked)]
           /\ issued \in 0..MaxControls /\ died \in BOOLEAN
           /\ sender \in [Sockets -> {"gone", "idle", "waiting", "sending", "failed"}]
           /\ \A m \in Tracked : Tracks(m)
  BY DEF AccInv, OutInv, OutTypeOK

(* The head of the control lane is taken: it was nowhere else, and the     *)
(* others stay where they are.                                             *)
LEMMA ControlTaken ==
    ASSUME AccInv, controlQueue # <<>>, controlQueue' = Tail(controlQueue),
           outQueue' = outQueue, NEW m \in Tracked
    PROVE  /\ m # Head(controlQueue) => Same(Lane(m), Lane(m)')
           /\ m = Head(controlQueue) =>
                 /\ Counted(m) /\ Lane(m)' = {} /\ InHands(m) = {}
                 /\ Receipts(m) = {} /\ Losses(m) = {}
<1>1. controlQueue \in Seq(Controls) /\ Tracks(m)
  BY AccTypes
<1>2. Head(controlQueue) \in Controls
  BY AccTypes, TakingControl
<1>3. CASE m = Death
  <2>1. Lane(m)' = Lane(m) /\ m # Head(controlQueue)
    BY <1>2, <1>3 DEF Lane
  <2> QED
    BY <2>1 DEF Same
<1>4. CASE m # Death
  <2>1. Lane(m) = Positions(controlQueue, m)
    BY <1>4 DEF Lane
  <2>2. Lane(m)' = Positions(Tail(controlQueue), m)
    BY <1>4 DEF Lane
  <2>3. CASE m = Head(controlQueue)
    <3>1. Lane(m) # {}
      BY <1>1, <2>1, <2>3, HeadTaken
    <3>2. /\ Counted(m) /\ Single(Lane(m)) /\ InHands(m) = {}
          /\ Receipts(m) = {} /\ Losses(m) = {}
      BY <1>1, <3>1, InLaneOnly
    <3>3. Lane(m)' = {}
      BY <1>1, <2>1, <2>2, <2>3, <3>2, HeadTaken
    <3> QED
      BY <2>3, <3>2, <3>3
  <2>4. CASE m # Head(controlQueue)
    BY <1>1, <2>1, <2>2, <2>4, HeadTaken DEF Same
  <2> QED
    BY <2>3, <2>4
<1> QED
  BY <1>3, <1>4

LEMMA TelemetryTaken ==
    ASSUME AccInv, outQueue # <<>>, outQueue' = Tail(outQueue),
           controlQueue' = controlQueue, NEW m \in Tracked
    PROVE  /\ m # Head(outQueue) => Same(Lane(m), Lane(m)')
           /\ m = Head(outQueue) =>
                 /\ Counted(m) /\ Lane(m)' = {} /\ InHands(m) = {}
                 /\ Receipts(m) = {} /\ Losses(m) = {}
<1>1. outQueue \in Seq(Telemetry) /\ Tracks(m)
  BY AccTypes
<1>2. Head(outQueue) \in Telemetry
  BY <1>1
<1>3. CASE m # Death
  <2>1. Lane(m)' = Lane(m) /\ m # Head(outQueue)
    BY <1>2, <1>3 DEF Lane
  <2> QED
    BY <2>1 DEF Same
<1>4. CASE m = Death
  <2>1. Lane(m) = Positions(outQueue, m)
    BY <1>4 DEF Lane
  <2>2. Lane(m)' = Positions(Tail(outQueue), m)
    BY <1>4 DEF Lane
  <2>3. CASE m = Head(outQueue)
    <3>1. Lane(m) # {}
      BY <1>1, <2>1, <2>3, HeadTaken
    <3>2. /\ Counted(m) /\ Single(Lane(m)) /\ InHands(m) = {}
          /\ Receipts(m) = {} /\ Losses(m) = {}
      BY <1>1, <3>1, InLaneOnly
    <3>3. Lane(m)' = {}
      <4>1. Single(Positions(outQueue, m))
        BY <2>1, <3>2
      <4>2. Positions(Tail(outQueue), m) = {}
        BY <1>1, <2>3, <4>1, HeadTaken
      <4> QED
        BY <2>2, <4>2
    <3> QED
      BY <2>3, <3>2, <3>3
  <2>4. CASE m # Head(outQueue)
    BY <1>1, <2>1, <2>2, <2>4, HeadTaken DEF Same
  <2> QED
    BY <2>3, <2>4
<1> QED
  BY <1>3, <1>4

(* A message that a socket comes to hold, that is delivered, that is lost. *)
LEMMA Arrives ==
    ASSUME NEW m, Counted(m)', Lane(m)' = {},
           \/ /\ Single(InHands(m)') /\ Receipts(m)' = {} /\ Losses(m)' = {}
           \/ /\ InHands(m)' = {} /\ Single(Receipts(m)') /\ Losses(m)' = {}
           \/ /\ InHands(m)' = {} /\ Receipts(m)' = {} /\ Single(Losses(m)')
    PROVE  Tracks(m)'
  BY DEF Tracks, Once

-----------------------------------------------------------------------------
(* The producers, and the connection.                                      *)

(* A step that moves nothing of m, but may lose what is not m.             *)
LEMMA Untouched ==
    ASSUME AccInv, NEW m \in Tracked, Same(Lane(m), Lane(m)'),
           UNCHANGED <<gotControl, gotTelemetry, carry, received, issued, died>>,
           Losses(m)' = Losses(m)
    PROVE  Tracks(m)'
<1>1. Counted(m)' = Counted(m) /\ InHands(m)' = InHands(m) /\ Receipts(m)' = Receipts(m)
  BY DEF Counted, InHands, Receipts
<1>2. Same(InHands(m), InHands(m)')
  BY <1>1 DEF Same
<1> QED
  BY <1>1, <1>2, AccTypes, SameTracks

LEMMA CyclePutsTracks ==
    ASSUME AccInv, CyclePuts, NEW m \in Tracked
    PROVE  Tracks(m)'
<1>1. outQueue \in Seq(Telemetry) /\ controlQueue' = controlQueue
  BY AccTypes DEF CyclePuts
<1>2. Lane(m)' = Lane(m)
  <2>1. CASE outQueue' = Append(outQueue, Cycle)
    <3>1. m = Death => Positions(Append(outQueue, Cycle), m) = Positions(outQueue, m)
      BY <1>1, OnePut
    <3> QED
      BY <1>1, <2>1, <3>1 DEF Lane
  <2>2. CASE outQueue' = outQueue
    BY <1>1, <2>2 DEF Lane
  <2> QED
    BY <2>1, <2>2 DEF CyclePuts, Offer
<1>3. Losses(m)' = Losses(m)
  <2>1. CASE lost' = lost
    BY <2>1 DEF Losses
  <2>2. CASE Lose({Cycle}, "full")
    BY <2>2, LosesOne
  <2> QED
    BY <2>1, <2>2 DEF CyclePuts, Offer
<1> QED
  BY <1>2, <1>3, Untouched DEF CyclePuts, Same

LEMMA DeathPutsTracks ==
    ASSUME AccInv, DeathPuts, NEW m \in Tracked
    PROVE  Tracks(m)'
<1>1. /\ outQueue \in Seq(Telemetry) /\ controlQueue' = controlQueue
      /\ ~died /\ died' = TRUE /\ issued' = issued /\ Tracks(m)
      /\ UNCHANGED <<gotControl, gotTelemetry, carry, received>>
  BY AccTypes DEF DeathPuts
<1>2. InHands(m)' = InHands(m) /\ Receipts(m)' = Receipts(m)
  BY <1>1 DEF InHands, Receipts
<1>3. CASE m = Death
  <2>1. Never(m) /\ Counted(m)'
    BY <1>1, <1>3 DEF Tracks, Counted
  <2>2. CASE outQueue' = Append(outQueue, Death) /\ lost' = lost
    <3>1. Single(Lane(m)')
      <4>1. Positions(outQueue, Death) = {}
        BY <1>3, <2>1 DEF Never, Lane
      <4>2. Single(Positions(Append(outQueue, Death), Death))
        BY <1>1, <4>1, OnePut
      <4> QED
        BY <1>3, <2>2, <4>2 DEF Lane
    <3>2. Losses(m)' = Losses(m)
      BY <2>2 DEF Losses
    <3>3. Once(m)'
      BY <1>2, <2>1, <3>1, <3>2 DEF Once, Never
    <3> QED
      BY <2>1, <3>3 DEF Tracks
  <2>3. CASE outQueue' = outQueue /\ Lose({Death}, "full")
    <3>1. Lane(m)' = Lane(m)
      BY <1>3, <2>3 DEF Lane
    <3>2. Single(Losses(m)')
      BY <1>3, <2>1, <2>3, LosesOne DEF Never
    <3> QED
      BY <1>2, <2>1, <3>1, <3>2, Arrives DEF Never
  <2> QED
    BY <2>2, <2>3 DEF DeathPuts, Offer
<1>4. CASE m # Death
  <2>1. Losses(m)' = Losses(m)
    <3>1. CASE lost' = lost
      BY <3>1 DEF Losses
    <3>2. CASE Lose({Death}, "full")
      BY <1>4, <3>2, LosesOne
    <3> QED
      BY <3>1, <3>2 DEF DeathPuts, Offer
  <2>2. Lane(m)' = Lane(m) /\ Counted(m)' = Counted(m)
    BY <1>1, <1>4 DEF Lane, Counted
  <2> QED
    BY <1>1, <1>2, <2>1, <2>2, SameTracks DEF Same
<1> QED
  BY <1>3, <1>4

LEMMA ResetTracks ==
    ASSUME AccInv, Reset, NEW m \in Tracked
    PROVE  Tracks(m)'
<1> DEFINE queued == Items(outQueue) \cup Items(controlQueue)
<1>1. /\ outQueue \in Seq(Telemetry) /\ controlQueue \in Seq(Controls)
      /\ outQueue' = <<>> /\ controlQueue' = <<>> /\ Tracks(m)
      /\ Lose(queued, "reset")
      /\ UNCHANGED <<gotControl, gotTelemetry, carry, received, issued, died>>
  BY AccTypes DEF Reset
<1>2. Lane(m)' = {}
  BY <1>1 DEF Lane, Positions
<1>3. m \in queued <=> Lane(m) # {}
  <2>1. /\ Len(outQueue) \in Nat /\ \A j \in 1..Len(outQueue) : outQueue[j] \in Telemetry
        /\ Len(controlQueue) \in Nat
        /\ \A j \in 1..Len(controlQueue) : controlQueue[j] \in Controls
    BY <1>1, ElementsOfSequence
  <2>2. /\ DOMAIN outQueue = 1..Len(outQueue)
        /\ DOMAIN controlQueue = 1..Len(controlQueue)
    BY <1>1
  <2>3. m \in queued <=> \/ \E j \in 1..Len(outQueue) : outQueue[j] = m
                         \/ \E j \in 1..Len(controlQueue) : controlQueue[j] = m
    BY <2>2 DEF Items
  <2> HIDE DEF queued
  <2>4. CASE m = Death
    BY <2>1, <2>3, <2>4 DEF Lane, Positions
  <2>5. CASE m # Death
    BY <2>1, <2>3, <2>5 DEF Lane, Positions
  <2> QED
    BY <2>4, <2>5
<1> HIDE DEF queued
<1>4. CASE Lane(m) = {}
  <2>1. Losses(m)' = Losses(m)
    BY <1>1, <1>3, <1>4, LosesOne
  <2>2. Same(Lane(m), Lane(m)')
    BY <1>2, <1>4 DEF Same, Single
  <2> QED
    BY <1>1, <2>1, <2>2, Untouched
<1>5. CASE Lane(m) # {}
  <2>1. Counted(m) /\ InHands(m) = {} /\ Receipts(m) = {} /\ Losses(m) = {}
    BY <1>1, <1>5, InLaneOnly
  <2>2. Single(Losses(m)')
    BY <1>1, <1>3, <1>5, <2>1, LosesOne
  <2>3. Counted(m)' /\ InHands(m)' = {} /\ Receipts(m)' = {}
    BY <1>1, <2>1 DEF Counted, InHands, Receipts
  <2> QED
    BY <1>2, <2>2, <2>3, Arrives
<1> QED
  BY <1>4, <1>5

LEMMA BodyCommandsTracks ==
    ASSUME AccInv, NEW n \in {1, 2}, BodyCommands(n), NEW m \in Tracked
    PROVE  Tracks(m)'
<1> DEFINE room == ControlMax - Len(controlQueue)
           k == IF n <= room THEN n ELSE room
           t == [i \in 1..k |-> issued + i]
<1>1. /\ controlQueue \in Seq(Controls) /\ Len(controlQueue) \in Nat
      /\ Len(controlQueue) <= ControlMax /\ issued \in 0..MaxControls
      /\ \A j \in 1..Len(controlQueue) : controlQueue[j] \in Controls
      /\ Tracks(m)
  BY AccTypes, ElementsOfSequence DEF OutInv, OutTypeOK
<1>2. k \in Nat
  BY <1>1, OutboundAssumption
<1>3. /\ issued + k <= MaxControls /\ issued' = issued + k
      /\ controlQueue' = controlQueue \o t
      /\ UNCHANGED <<outQueue, gotControl, gotTelemetry, carry, received, lost, died>>
  BY DEF BodyCommands
<1> HIDE DEF k
<1>4. t \in Seq(Controls) /\ Len(t) = k
  BY <1>1, <1>2, <1>3, OutboundAssumption
<1>5. /\ Len(controlQueue') = Len(controlQueue) + k
      /\ \A j \in 1..Len(controlQueue') :
            controlQueue'[j] = IF j <= Len(controlQueue) THEN controlQueue[j]
                               ELSE issued + (j - Len(controlQueue))
  BY <1>1, <1>2, <1>3, <1>4
<1> HIDE DEF t
<1>6. /\ InHands(m)' = InHands(m) /\ Receipts(m)' = Receipts(m)
      /\ Losses(m)' = Losses(m)
  BY <1>3 DEF InHands, Receipts, Losses
<1>7. CASE m = Death \/ m \notin (issued + 1)..(issued + k)
  <2>1. Lane(m)' = Lane(m)
    <3>1. CASE m = Death
      BY <1>3, <3>1 DEF Lane
    <3>2. CASE m # Death
      <4>1. m \notin (issued + 1)..(issued + k) /\ m \in Int
        BY <1>7, <3>2
      <4>2. Positions(controlQueue', m) = Positions(controlQueue, m)
        BY <1>1, <1>2, <1>5, <4>1 DEF Positions
      <4> QED
        BY <3>2, <4>2 DEF Lane
    <3> QED
      BY <3>1, <3>2
  <2>2. Counted(m)' = Counted(m)
    <3>1. CASE m = Death
      BY <1>1, <1>2, <1>3, <3>1 DEF Counted
    <3>2. CASE m # Death
      BY <1>1, <1>2, <1>3, <1>7, <3>2 DEF Counted
    <3> QED
      BY <3>1, <3>2
  <2> QED
    BY <1>1, <1>6, <2>1, <2>2, SameTracks DEF Same
<1>8. CASE m # Death /\ m \in (issued + 1)..(issued + k)
  <2>1. Never(m) /\ Counted(m)'
    BY <1>1, <1>2, <1>3, <1>8 DEF Tracks, Counted
  <2>2. Positions(controlQueue, m) = {}
    BY <1>8, <2>1 DEF Never, Lane
  <2>3. Positions(controlQueue', m) = {Len(controlQueue) + (m - issued)}
    BY <1>1, <1>2, <1>5, <1>8, <2>2 DEF Positions
  <2>4. Single(Lane(m)')
    BY <1>8, <2>3 DEF Lane, Single
  <2>5. Once(m)'
    BY <1>6, <2>1, <2>4 DEF Once, Never
  <2> QED
    BY <2>1, <2>5 DEF Tracks
<1> QED
  BY <1>7, <1>8

-----------------------------------------------------------------------------
(* The senders.                                                            *)

(* Hands: those of the socket s are replaced, of the others kept.          *)
LEMMA HandsChange ==
    ASSUME NEW s \in Sockets, NEW m,
           \A t \in Sockets \ {s} : /\ gotControl'[t] = gotControl[t]
                                    /\ gotTelemetry'[t] = gotTelemetry[t]
                                    /\ carry'[t] = carry[t]
    PROVE  /\ m \in {gotControl'[s], gotTelemetry'[s], carry'[s]} =>
                 InHands(m)' = InHands(m) \cup {s}
           /\ m \notin {gotControl'[s], gotTelemetry'[s], carry'[s]} =>
                 InHands(m)' = InHands(m) \ {s}
<1>1. \A t \in Sockets \ {s} : t \in InHands(m)' <=> t \in InHands(m)
  BY DEF InHands
<1>2. s \in InHands(m)' <=> m \in {gotControl'[s], gotTelemetry'[s], carry'[s]}
  BY DEF InHands
<1>3. InHands(m)' \subseteq Sockets /\ InHands(m) \subseteq Sockets
  BY DEF InHands
<1> QED
  BY <1>1, <1>2, <1>3

(* A socket takes the head of the control lane.                            *)
LEMMA ControlToHand ==
    ASSUME AccInv, NEW s \in Sockets, controlQueue # <<>>,
           controlQueue' = Tail(controlQueue),
           \A t \in Sockets \ {s} : /\ gotControl'[t] = gotControl[t]
                                    /\ gotTelemetry'[t] = gotTelemetry[t]
                                    /\ carry'[t] = carry[t],
           NEW m \in Tracked,
           Head(controlQueue) \in {gotControl'[s], gotTelemetry'[s], carry'[s]},
           m # Head(controlQueue) =>
               Same(InHands(m), InHands(m)') /\ Losses(m)' = Losses(m),
           m = Head(controlQueue) => Losses(m)' = Losses(m),
           UNCHANGED <<outQueue, received, issued, died>>
    PROVE  Tracks(m)'
<1>1. Counted(m)' = Counted(m) /\ Receipts(m)' = Receipts(m) /\ Tracks(m)
  BY AccTypes DEF Counted, Receipts
<1>2. CASE m # Head(controlQueue)
  BY <1>1, <1>2, ControlTaken, SameTracks
<1>3. CASE m = Head(controlQueue)
  <2>1. /\ Counted(m) /\ Lane(m)' = {} /\ InHands(m) = {}
        /\ Receipts(m) = {} /\ Losses(m) = {}
    BY <1>3, ControlTaken
  <2>2. InHands(m)' = {s}
    BY <1>3, <2>1, HandsChange
  <2>3. Single(InHands(m)')
    BY <2>2 DEF Single
  <2> QED
    BY <1>1, <1>3, <2>1, <2>3, Arrives
<1> QED
  BY <1>2, <1>3

LEMMA ConnectTracks ==
    ASSUME AccInv, NEW s \in Sockets, Connect(s), NEW m \in Tracked
    PROVE  Tracks(m)'
<1>1. Same(Lane(m), Lane(m)') /\ Losses(m)' = Losses(m)
  BY DEF Connect, Lane, Losses, Same
<1> QED
  BY <1>1, Untouched DEF Connect

LEMMA PollTracks ==
    ASSUME AccInv, NEW s \in Sockets, Poll(s), NEW m \in Tracked
    PROVE  Tracks(m)'
<1>1. /\ sender[s] = "idle" /\ carry[s] = Nothing
      /\ UNCHANGED <<outQueue, gotControl, gotTelemetry, received, issued, died, lost>>
      /\ carry \in [Sockets -> Messages \cup {Nothing}]
  BY AccTypes DEF Poll, HandsOK
<1>2. Losses(m)' = Losses(m)
  BY <1>1 DEF Losses
<1>3. CASE /\ controlQueue # <<>> /\ Writes(s, Head(controlQueue))
           /\ controlQueue' = Tail(controlQueue)
  <2>1. carry' = [carry EXCEPT ![s] = Head(controlQueue)]
    BY <1>3 DEF Writes
  <2>2. m # Head(controlQueue) => InHands(m)' = InHands(m)
    BY <1>1, <2>1 DEF InHands
  <2> QED
    BY <1>1, <1>2, <1>3, <2>1, <2>2, ControlToHand DEF Same
<1>4. CASE UNCHANGED <<controlQueue, carry>>
  <2>1. Same(Lane(m), Lane(m)')
    BY <1>1, <1>4 DEF Lane, Same
  <2> QED
    BY <1>1, <1>2, <1>4, <2>1, Untouched
<1> QED
  BY <1>3, <1>4 DEF Poll

LEMMA TakeControlTracks ==
    ASSUME AccInv, NEW s \in Sockets, TakeControl(s), NEW m \in Tracked
    PROVE  Tracks(m)'
<1>1. /\ gotControl[s] = Nothing /\ controlQueue # <<>>
      /\ gotControl' = [gotControl EXCEPT ![s] = Head(controlQueue)]
      /\ controlQueue' = Tail(controlQueue)
      /\ UNCHANGED <<outQueue, gotTelemetry, carry, received, issued, died, lost>>
      /\ gotControl \in [Sockets -> Controls \cup {Nothing}]
  BY AccTypes DEF TakeControl
<1>2. m # Head(controlQueue) => InHands(m)' = InHands(m)
  BY <1>1 DEF InHands
<1>3. Losses(m)' = Losses(m)
  BY <1>1 DEF Losses
<1> QED
  BY <1>1, <1>2, <1>3, ControlToHand DEF Same

LEMMA TakeTelemetryTracks ==
    ASSUME AccInv, NEW s \in Sockets, TakeTelemetry(s), NEW m \in Tracked
    PROVE  Tracks(m)'
<1>1. /\ gotTelemetry[s] = Nothing /\ outQueue # <<>>
      /\ gotTelemetry' = [gotTelemetry EXCEPT ![s] = Head(outQueue)]
      /\ outQueue' = Tail(outQueue)
      /\ UNCHANGED <<controlQueue, gotControl, carry, received, issued, died, lost>>
      /\ gotTelemetry \in [Sockets -> Telemetry \cup {Nothing}]
  BY AccTypes DEF TakeTelemetry
<1>2. /\ Losses(m)' = Losses(m) /\ Counted(m)' = Counted(m)
      /\ Receipts(m)' = Receipts(m) /\ Tracks(m)
  BY <1>1, AccTypes DEF Losses, Counted, Receipts
<1>3. CASE m # Head(outQueue)
  <2>1. InHands(m)' = InHands(m)
    BY <1>1, <1>3 DEF InHands
  <2> QED
    BY <1>1, <1>2, <1>3, <2>1, TelemetryTaken, SameTracks DEF Same
<1>4. CASE m = Head(outQueue)
  <2>1. /\ Counted(m) /\ Lane(m)' = {} /\ InHands(m) = {}
        /\ Receipts(m) = {} /\ Losses(m) = {}
    BY <1>1, <1>4, TelemetryTaken
  <2>2. InHands(m)' = {s}
    BY <1>1, <1>4, <2>1, HandsChange
  <2>3. Single(InHands(m)')
    BY <2>2 DEF Single
  <2> QED
    BY <1>2, <2>1, <2>3, Arrives
<1> QED
  BY <1>3, <1>4

LEMMA OrphanTakesControlTracks ==
    ASSUME AccInv, OrphanTakesControl, NEW m \in Tracked
    PROVE  Tracks(m)'
<1>1. /\ controlQueue # <<>> /\ controlQueue' = Tail(controlQueue)
      /\ Lose({Head(controlQueue)}, "orphan") /\ outQueue' = outQueue
      /\ UNCHANGED <<gotControl, gotTelemetry, carry, received, issued, died>>
  BY DEF OrphanTakesControl
<1>2. /\ Counted(m)' = Counted(m) /\ Receipts(m)' = Receipts(m)
      /\ InHands(m)' = InHands(m)
  BY <1>1 DEF Counted, Receipts, InHands
<1>3. CASE m # Head(controlQueue)
  <2>1. Losses(m)' = Losses(m)
    BY <1>1, <1>3, LosesOne
  <2> QED
    BY <1>1, <1>3, <2>1, ControlTaken, Untouched
<1>4. CASE m = Head(controlQueue)
  <2>1. /\ Counted(m) /\ Lane(m)' = {} /\ InHands(m) = {}
        /\ Receipts(m) = {} /\ Losses(m) = {}
    BY <1>1, <1>4, ControlTaken
  <2>2. Single(Losses(m)')
    BY <1>1, <1>4, <2>1, LosesOne
  <2> QED
    BY <1>2, <2>1, <2>2, Arrives
<1> QED
  BY <1>3, <1>4

LEMMA OrphanTakesTelemetryTracks ==
    ASSUME AccInv, OrphanTakesTelemetry, NEW m \in Tracked
    PROVE  Tracks(m)'
<1>1. /\ outQueue # <<>> /\ outQueue' = Tail(outQueue)
      /\ Lose({Head(outQueue)}, "orphan") /\ controlQueue' = controlQueue
      /\ UNCHANGED <<gotControl, gotTelemetry, carry, received, issued, died>>
  BY DEF OrphanTakesTelemetry
<1>2. /\ Counted(m)' = Counted(m) /\ Receipts(m)' = Receipts(m)
      /\ InHands(m)' = InHands(m)
  BY <1>1 DEF Counted, Receipts, InHands
<1>3. CASE m # Head(outQueue)
  <2>1. Losses(m)' = Losses(m)
    BY <1>1, <1>3, LosesOne
  <2> QED
    BY <1>1, <1>3, <2>1, TelemetryTaken, Untouched
<1>4. CASE m = Head(outQueue)
  <2>1. /\ Counted(m) /\ Lane(m)' = {} /\ InHands(m) = {}
        /\ Receipts(m) = {} /\ Losses(m) = {}
    BY <1>1, <1>4, TelemetryTaken
  <2>2. Single(Losses(m)')
    BY <1>1, <1>4, <2>1, LosesOne
  <2> QED
    BY <1>2, <2>1, <2>2, Arrives
<1> QED
  BY <1>3, <1>4

(* A message in the hands of s is lost with them.                          *)
LEMMA HandLost ==
    ASSUME AccInv, NEW s \in Sockets, NEW m \in Tracked, s \in InHands(m),
           InHands(m)' = InHands(m) \ {s}, Same(Lane(m), Lane(m)'),
           NEW ms, NEW why, Lose(ms, why), m \in ms,
           UNCHANGED <<received, issued, died>>
    PROVE  Tracks(m)'
<1>1. /\ Counted(m) /\ InHands(m) = {s}
      /\ Lane(m) = {} /\ Receipts(m) = {} /\ Losses(m) = {}
  BY AccTypes, InHandOnly
<1>2. /\ Counted(m)' = Counted(m) /\ Receipts(m)' = Receipts(m)
      /\ InHands(m)' = {} /\ Lane(m)' = {}
  BY <1>1 DEF Counted, Receipts, Same
<1>3. Single(Losses(m)')
  BY <1>1, LosesOne
<1> QED
  BY <1>1, <1>2, <1>3, Arrives

LEMMA ChooseTracks ==
    ASSUME AccInv, NEW s \in Sockets, Choose(s), NEW m \in Tracked
    PROVE  Tracks(m)'
<1>1. /\ sender[s] = "waiting" /\ carry[s] = Nothing
      /\ gotControl' = [gotControl EXCEPT ![s] = Nothing]
      /\ gotTelemetry' = [gotTelemetry EXCEPT ![s] = Nothing]
      /\ UNCHANGED <<outQueue, received, issued, died>>
      /\ gotControl \in [Sockets -> Controls \cup {Nothing}]
      /\ gotTelemetry \in [Sockets -> Telemetry \cup {Nothing}]
      /\ carry \in [Sockets -> Messages \cup {Nothing}]
  BY AccTypes DEF Choose, Forgets, chooseFrame, HandsOK
<1>2. /\ Counted(m)' = Counted(m) /\ Receipts(m)' = Receipts(m) /\ Tracks(m)
  BY <1>1, AccTypes DEF Counted, Receipts
<1>3. ASSUME NEW x, Writes(s, x)
      PROVE  /\ carry' = [carry EXCEPT ![s] = x]
             /\ x = m => InHands(m)' = InHands(m) \cup {s}
             /\ x # m => InHands(m)' = InHands(m) \ {s}
  <2>1. carry' = [carry EXCEPT ![s] = x]
    BY <1>3 DEF Writes
  <2>2. {gotControl'[s], gotTelemetry'[s], carry'[s]} = {Nothing, x} /\ m # Nothing
    BY <1>1, <2>1
  <2>3. \A t \in Sockets \ {s} : /\ gotControl'[t] = gotControl[t]
                                 /\ gotTelemetry'[t] = gotTelemetry[t]
                                 /\ carry'[t] = carry[t]
    BY <1>1, <2>1
  <2> QED
    BY <2>1, <2>2, <2>3, HandsChange
<1>4. s \in InHands(m) <=> m \in {gotControl[s], gotTelemetry[s]}
  BY <1>1 DEF InHands
<1>5. CASE /\ gotControl[s] # Nothing /\ Writes(s, gotControl[s])
           /\ Lose({gotTelemetry[s]}, "outrun") /\ controlQueue' = controlQueue
  <2>1. Same(Lane(m), Lane(m)')
    BY <1>1, <1>5 DEF Lane, Same
  <2>2. gotControl[s] # gotTelemetry[s]
    BY <1>1, <1>5
  <2>3. CASE m = gotTelemetry[s]
    <3>1. InHands(m)' = InHands(m) \ {s} /\ s \in InHands(m)
      BY <1>3, <1>4, <1>5, <2>2, <2>3
    <3> QED
      BY <1>1, <1>5, <2>1, <2>3, <3>1, HandLost
  <2>4. CASE m # gotTelemetry[s]
    <3>1. InHands(m)' = InHands(m)
      BY <1>3, <1>4, <1>5, <2>4
    <3>2. Losses(m)' = Losses(m)
      BY <1>5, <2>4, LosesOne
    <3> QED
      BY <1>2, <2>1, <3>1, <3>2, SameTracks DEF Same
  <2> QED
    BY <2>3, <2>4
<1>6. CASE /\ gotControl[s] = Nothing /\ gotTelemetry[s] # Nothing
           /\ controlQueue # <<>> /\ Writes(s, Head(controlQueue))
           /\ controlQueue' = Tail(controlQueue)
           /\ Lose({gotTelemetry[s]}, "outrun")
  <2>1. Head(controlQueue) # gotTelemetry[s]
    <3>1. Head(controlQueue) \in Controls
      BY <1>6, AccTypes, TakingControl
    <3>2. gotTelemetry[s] \in Telemetry
      BY <1>1, <1>6
    <3> QED
      BY <3>1, <3>2
  <2>2. CASE m = gotTelemetry[s]
    <3>1. InHands(m)' = InHands(m) \ {s} /\ s \in InHands(m)
      BY <1>3, <1>4, <1>6, <2>1, <2>2
    <3>2. Same(Lane(m), Lane(m)')
      BY <1>1, <1>6, <2>1, <2>2, ControlTaken
    <3> QED
      BY <1>1, <1>6, <2>2, <3>1, <3>2, HandLost
  <2>3. CASE m # gotTelemetry[s]
    <3>1. Losses(m)' = Losses(m)
      BY <1>6, <2>3, LosesOne
    <3>2. m # Head(controlQueue) => InHands(m)' = InHands(m)
      <4>1. m # Nothing
        OBVIOUS
      <4> QED
        BY <1>3, <1>4, <1>6, <2>3, <4>1
    <3>3. /\ carry' = [carry EXCEPT ![s] = Head(controlQueue)]
          /\ carry'[s] = Head(controlQueue)
      BY <1>1, <1>3, <1>6
    <3>4. \A t \in Sockets \ {s} : /\ gotControl'[t] = gotControl[t]
                                   /\ gotTelemetry'[t] = gotTelemetry[t]
                                   /\ carry'[t] = carry[t]
      BY <1>1, <3>3
    <3> QED
      BY <1>1, <1>6, <3>1, <3>2, <3>3, <3>4, ControlToHand DEF Same
  <2> QED
    BY <2>2, <2>3
<1>7. CASE /\ gotControl[s] = Nothing /\ gotTelemetry[s] # Nothing
           /\ Writes(s, gotTelemetry[s])
           /\ UNCHANGED <<controlQueue, lost>>
  <2>1. Same(Lane(m), Lane(m)') /\ Losses(m)' = Losses(m)
    BY <1>1, <1>7 DEF Lane, Losses, Same
  <2>2. InHands(m)' = InHands(m)
    <3>1. m # Nothing
      OBVIOUS
    <3> QED
      BY <1>3, <1>4, <1>7, <3>1
  <2> QED
    BY <1>2, <2>1, <2>2, SameTracks DEF Same
<1> QED
  BY <1>5, <1>6, <1>7 DEF Choose

LEMMA ReceiptsAre ==
    ASSUME NEW m
    PROVE  \A x : x \in Receipts(m) <=>
               \E t \in Sockets : \E i \in 1..Len(received[t]) :
                   received[t][i] = m /\ x = <<t, i>>
  BY DEF Receipts

LEMMA SentTracks ==
    ASSUME AccInv, NEW s \in Sockets, Sent(s), NEW m \in Tracked
    PROVE  Tracks(m)'
<1>1. /\ sender[s] = "sending"
      /\ carry' = [carry EXCEPT ![s] = Nothing]
      /\ UNCHANGED <<outQueue, controlQueue, gotControl, gotTelemetry, issued,
                     died, lost>>
      /\ gotControl[s] = Nothing /\ gotTelemetry[s] = Nothing
      /\ carry \in [Sockets -> Messages \cup {Nothing}]
      /\ received \in [Sockets -> Seq(Tracked)] /\ Tracks(m)
  BY AccTypes DEF Sent, Written, HandsOK, TakenOK
<1>2. /\ Counted(m)' = Counted(m) /\ Same(Lane(m), Lane(m)') /\ Lane(m)' = Lane(m)
      /\ Losses(m)' = Losses(m)
  BY <1>1 DEF Counted, Lane, Losses, Same
<1>3. InHands(m)' = InHands(m) \ {s} /\ (s \in InHands(m) <=> m = carry[s])
  <2>1. m \notin {gotControl'[s], gotTelemetry'[s], carry'[s]}
    BY <1>1
  <2>2. \A t \in Sockets \ {s} : /\ gotControl'[t] = gotControl[t]
                                 /\ gotTelemetry'[t] = gotTelemetry[t]
                                 /\ carry'[t] = carry[t]
    BY <1>1
  <2>3. s \in InHands(m) <=> m = carry[s]
    BY <1>1 DEF InHands
  <2> QED
    BY <2>1, <2>2, <2>3, HandsChange
<1>4. CASE carry[s] \notin Tracked
  <2>1. received' = received /\ m # carry[s]
    BY <1>4 DEF Sent
  <2>2. Receipts(m)' = Receipts(m) /\ InHands(m)' = InHands(m)
    BY <1>3, <2>1 DEF Receipts
  <2> QED
    BY <1>1, <1>2, <2>2, SameTracks DEF Same
<1>5. CASE carry[s] \in Tracked
  <2> DEFINE q == received[s]
             r == Append(q, carry[s])
  <2>1. received' = [received EXCEPT ![s] = r]
    BY <1>5 DEF Sent
  <2>2. /\ Len(r) = Len(q) + 1 /\ Len(q) \in Nat
        /\ \A i \in 1..Len(q) : r[i] = q[i]
        /\ r[Len(q) + 1] = carry[s]
    BY <1>1, <1>5, DeliveryOfOne
  <2>3. 1..Len(r) = 1..Len(q) \cup {Len(q) + 1}
    BY <2>2
  <2>4. received'[s] = r /\ \A t \in Sockets \ {s} : received'[t] = received[t]
    BY <1>1, <2>1
  <2> HIDE DEF r
  <2>5. \A x : x \in Receipts(m)' <=>
               \E t \in Sockets : \E i \in 1..Len(received'[t]) :
                   received'[t][i] = m /\ x = <<t, i>>
    BY DEF Receipts
  <2>6. CASE m # carry[s]
    <3>1. Receipts(m)' = Receipts(m)
      <4>1. \A t \in Sockets : \A i : 
                (i \in 1..Len(received'[t]) /\ received'[t][i] = m)
                <=> (i \in 1..Len(received[t]) /\ received[t][i] = m)
        BY <2>2, <2>3, <2>4, <2>6
      <4>2. \A x : x \in Receipts(m) <=>
                  \E t \in Sockets : \E i \in 1..Len(received[t]) :
                      received[t][i] = m /\ x = <<t, i>>
        BY ReceiptsAre
      <4>3. \A x : x \in Receipts(m)' <=> x \in Receipts(m)
        <5> SUFFICES ASSUME NEW x
                     PROVE  x \in Receipts(m)' <=> x \in Receipts(m)
          OBVIOUS
        <5>1. ASSUME x \in Receipts(m)'
              PROVE  x \in Receipts(m)
          BY <2>5, <4>1, <4>2, <5>1
        <5>2. ASSUME x \in Receipts(m)
              PROVE  x \in Receipts(m)'
          BY <2>5, <4>1, <4>2, <5>2
        <5> QED
          BY <5>1, <5>2
      <4> QED
        BY <4>3
    <3>2. InHands(m)' = InHands(m)
      BY <1>3, <2>6
    <3> QED
      BY <1>1, <1>2, <3>1, <3>2, SameTracks DEF Same
  <2>7. CASE m = carry[s]
    <3>1. /\ Counted(m) /\ InHands(m) = {s}
          /\ Lane(m) = {} /\ Receipts(m) = {} /\ Losses(m) = {}
      BY <1>1, <1>3, <2>7, InHandOnly
    <3>2. \A t \in Sockets : \A i \in 1..Len(received[t]) : received[t][i] # m
      <4> SUFFICES ASSUME NEW t \in Sockets, NEW i \in 1..Len(received[t]),
                          received[t][i] = m
                   PROVE  FALSE
        OBVIOUS
      <4>1. <<t, i>> \in Receipts(m)
        BY DEF Receipts
      <4> QED
        BY <3>1, <4>1
    <3>3. \A x : x \in Receipts(m)' <=> x = <<s, Len(q) + 1>>
      <4>1. \A t \in Sockets : \A i :
                (i \in 1..Len(received'[t]) /\ received'[t][i] = m)
                <=> (t = s /\ i = Len(q) + 1)
        BY <2>2, <2>3, <2>4, <2>7, <3>2
      <4> QED
        BY <2>5, <4>1
    <3>4. Single(Receipts(m)')
      <4>1. Receipts(m)' = {<<s, Len(q) + 1>>}
        BY <3>3
      <4> QED
        BY <4>1 DEF Single
    <3> QED
      BY <1>2, <1>3, <3>1, <3>4, Arrives
  <2> QED
    BY <2>6, <2>7
<1> QED
  BY <1>4, <1>5

LEMMA SendFailsTracks ==
    ASSUME AccInv, NEW s \in Sockets, SendFails(s), NEW m \in Tracked
    PROVE  Tracks(m)'
<1>1. /\ sender[s] = "sending"
      /\ carry' = [carry EXCEPT ![s] = Nothing]
      /\ Lose({carry[s]}, "connection")
      /\ UNCHANGED <<outQueue, controlQueue, gotControl, gotTelemetry, issued,
                     died, received>>
      /\ gotControl[s] = Nothing /\ gotTelemetry[s] = Nothing
      /\ carry \in [Sockets -> Messages \cup {Nothing}] /\ Tracks(m)
  BY AccTypes DEF SendFails, Written, HandsOK, TakenOK
<1>2. /\ Counted(m)' = Counted(m) /\ Same(Lane(m), Lane(m)')
      /\ Receipts(m)' = Receipts(m)
  BY <1>1 DEF Counted, Lane, Receipts, Same
<1>3. InHands(m)' = InHands(m) \ {s} /\ (s \in InHands(m) <=> m = carry[s])
  <2>1. m \notin {gotControl'[s], gotTelemetry'[s], carry'[s]}
    BY <1>1
  <2>2. \A t \in Sockets \ {s} : /\ gotControl'[t] = gotControl[t]
                                 /\ gotTelemetry'[t] = gotTelemetry[t]
                                 /\ carry'[t] = carry[t]
    BY <1>1
  <2>3. s \in InHands(m) <=> m = carry[s]
    BY <1>1 DEF InHands
  <2> QED
    BY <2>1, <2>2, <2>3, HandsChange
<1>4. CASE m = carry[s]
  BY <1>1, <1>2, <1>3, <1>4, HandLost
<1>5. CASE m # carry[s]
  <2>1. InHands(m)' = InHands(m) /\ Losses(m)' = Losses(m)
    BY <1>1, <1>3, <1>5, LosesOne
  <2> QED
    BY <1>1, <1>2, <2>1, SameTracks DEF Same
<1> QED
  BY <1>4, <1>5

LEMMA DisconnectTracks ==
    ASSUME AccInv, NEW s \in Sockets, Disconnect(s), NEW m \in Tracked
    PROVE  Tracks(m)'
<1> DEFINE held == {gotControl[s], gotTelemetry[s], carry[s]}
<1>1. /\ carry' = [carry EXCEPT ![s] = Nothing]
      /\ gotControl' = [gotControl EXCEPT ![s] = Nothing]
      /\ gotTelemetry' = [gotTelemetry EXCEPT ![s] = Nothing]
      /\ Lose(held, "connection")
      /\ UNCHANGED <<outQueue, controlQueue, issued, died, received>>
      /\ gotControl \in [Sockets -> Controls \cup {Nothing}]
      /\ gotTelemetry \in [Sockets -> Telemetry \cup {Nothing}]
      /\ carry \in [Sockets -> Messages \cup {Nothing}] /\ Tracks(m)
  BY AccTypes DEF Disconnect, Written, Forgets
<1>2. /\ Counted(m)' = Counted(m) /\ Same(Lane(m), Lane(m)')
      /\ Receipts(m)' = Receipts(m)
  BY <1>1 DEF Counted, Lane, Receipts, Same
<1>3. InHands(m)' = InHands(m) \ {s} /\ (s \in InHands(m) <=> m \in held)
  <2>1. m \notin {gotControl'[s], gotTelemetry'[s], carry'[s]}
    BY <1>1
  <2>2. \A t \in Sockets \ {s} : /\ gotControl'[t] = gotControl[t]
                                 /\ gotTelemetry'[t] = gotTelemetry[t]
                                 /\ carry'[t] = carry[t]
    BY <1>1
  <2>3. s \in InHands(m) <=> m \in held
    BY DEF InHands
  <2> QED
    BY <2>1, <2>2, <2>3, HandsChange
<1> HIDE DEF held
<1>4. CASE m \in held
  BY <1>1, <1>2, <1>3, <1>4, HandLost
<1>5. CASE m \notin held
  <2>1. InHands(m)' = InHands(m) /\ Losses(m)' = Losses(m)
    BY <1>1, <1>3, <1>5, LosesOne
  <2> QED
    BY <1>1, <1>2, <2>1, SameTracks DEF Same
<1> QED
  BY <1>4, <1>5

-----------------------------------------------------------------------------
LEMMA TakenStep == OutInv /\ TakenOK /\ [Next]_vars => TakenOK'
<1> SUFFICES ASSUME OutInv, TakenOK, [Next]_vars
             PROVE  TakenOK'
  OBVIOUS
<1>1. /\ gotTelemetry \in [Sockets -> Telemetry \cup {Nothing}]
      /\ sender \in [Sockets -> {"gone", "idle", "waiting", "sending", "failed"}]
  BY DEF OutInv, OutTypeOK
<1>2. CASE UNCHANGED <<gotTelemetry, sender>>
  BY <1>2 DEF TakenOK
<1>3. ASSUME NEW s \in Sockets,
             Connect(s) \/ Poll(s) \/ Sent(s) \/ SendFails(s)
      PROVE  TakenOK'
  BY <1>1, <1>3 DEF TakenOK, Connect, Poll, Sent, SendFails, Written, Writes
<1>4. ASSUME NEW s \in Sockets, TakeTelemetry(s)
      PROVE  TakenOK'
  BY <1>1, <1>4 DEF TakenOK, TakeTelemetry
<1>5. ASSUME NEW s \in Sockets, Choose(s) \/ Disconnect(s)
      PROVE  TakenOK'
  BY <1>1, <1>5 DEF TakenOK, Choose, Disconnect, Written, Writes, Forgets
<1> QED
  BY <1>2, <1>3, <1>4, <1>5
  DEF Next, SenderStep, vars, CyclePuts, DeathPuts, Reset, BodyCommands,
      TakeControl, OrphanTakesControl, OrphanTakesTelemetry

LEMMA AccNext == AccInv /\ [Next]_vars => AccInv'
<1> SUFFICES ASSUME AccInv, [Next]_vars
             PROVE  AccInv'
  OBVIOUS
<1>1. OutInv' /\ TakenOK'
  BY NextInv, TakenStep DEF AccInv
<1>2. ASSUME NEW m \in Tracked
      PROVE  Tracks(m)'
  <2>1. CASE CyclePuts \/ DeathPuts \/ Reset
    BY <2>1, CyclePutsTracks, DeathPutsTracks, ResetTracks
  <2>2. CASE \E n \in {1, 2} : BodyCommands(n)
    BY <2>2, BodyCommandsTracks
  <2>3. ASSUME NEW s \in Sockets,
               Connect(s) \/ SenderStep(s) \/ SendFails(s) \/ Disconnect(s)
        PROVE  Tracks(m)'
    BY <2>3, ConnectTracks, PollTracks, TakeControlTracks, TakeTelemetryTracks,
       ChooseTracks, SentTracks, SendFailsTracks, DisconnectTracks
    DEF SenderStep
  <2>4. CASE OrphanTakesControl \/ OrphanTakesTelemetry
    BY <2>4, OrphanTakesControlTracks, OrphanTakesTelemetryTracks
  <2>5. CASE UNCHANGED vars
    <3>1. Same(Lane(m), Lane(m)') /\ Losses(m)' = Losses(m)
      BY <2>5 DEF vars, Lane, Losses, Same
    <3> QED
      BY <2>5, <3>1, Untouched DEF vars
  <2> QED
    BY <2>1, <2>2, <2>3, <2>4, <2>5 DEF Next
<1> QED
  BY <1>1, <1>2 DEF AccInv

LEMMA AccInit == Init => AccInv
<1> SUFFICES ASSUME Init
             PROVE  AccInv
  OBVIOUS
<1>1. OutInv /\ TakenOK
  BY InitInv DEF Init, TakenOK
<1>2. ASSUME NEW m \in Tracked
      PROVE  Tracks(m)
  <2>1. Lane(m) = {}
    BY DEF Init, Lane, Positions
  <2>2. InHands(m) = {}
    BY DEF Init, InHands
  <2>3. Receipts(m) = {}
    BY DEF Init, Receipts
  <2>4. Losses(m) = {} /\ ~Counted(m)
    BY DEF Init, Losses, Counted
  <2> QED
    BY <2>1, <2>2, <2>3, <2>4 DEF Tracks, Never
<1> QED
  BY <1>1, <1>2 DEF AccInv

LEMMA OneOrNone ==
    /\ Cardinality({}) = 0
    /\ \A P : Single(P) => Cardinality(P) = 1
  BY FS_EmptySet, FS_Singleton DEF Single

(* The positions in both lanes together.                                   *)
LEMMA LanesOf ==
    ASSUME OutInv, NEW m \in Tracked
    PROVE  /\ Lane(m) = {} => InLanes(m) = {}
           /\ Single(Lane(m)) => Single(InLanes(m))
<1>1. /\ \A j \in 1..Len(outQueue) : outQueue[j] \in Telemetry
      /\ \A j \in 1..Len(controlQueue) : controlQueue[j] \in Controls
  BY ElementsOfSequence DEF OutInv, OutTypeOK
<1>2. CASE m = Death
  <2>1. InLanes(m) = {<<0, i>> : i \in Lane(m)}
    BY <1>1, <1>2 DEF InLanes, Lane, Positions
  <2>2. ASSUME Single(Lane(m))
        PROVE  Single(InLanes(m))
    <3>1. PICK j : Lane(m) = {j}
      BY <2>2 DEF Single
    <3>2. InLanes(m) = {<<0, j>>}
      BY <2>1, <3>1
    <3> QED
      BY <3>2 DEF Single
  <2> QED
    BY <2>1, <2>2
<1>3. CASE m # Death
  <2>1. InLanes(m) = {<<1, i>> : i \in Lane(m)}
    BY <1>1, <1>3 DEF InLanes, Lane, Positions
  <2>2. ASSUME Single(Lane(m))
        PROVE  Single(InLanes(m))
    <3>1. PICK j : Lane(m) = {j}
      BY <2>2 DEF Single
    <3>2. InLanes(m) = {<<1, j>>}
      BY <2>1, <3>1
    <3> QED
      BY <3>2 DEF Single
  <2> QED
    BY <2>1, <2>2
<1> QED
  BY <1>2, <1>3

(* Every body command that was accepted, and the message of the death, is  *)
(* in one place, was delivered once, or was lost once: with any number of  *)
(* sockets that come and go, sends that fail and get() tasks that stay     *)
(* behind, nothing is duplicated and nothing vanishes without a cause.     *)
THEOREM MessagesAreAccounted == Spec => []Accounted
<1>1. AccInv => Accounted
  <2> SUFFICES ASSUME AccInv, NEW m \in Tracked
               PROVE  Cardinality(InLanes(m)) + Cardinality(InHands(m))
                        + Cardinality(Receipts(m)) + Cardinality(Losses(m))
                      = IF (m = Death /\ died) \/ m \in 1..issued THEN 1 ELSE 0
    BY DEF Accounted
  <2>1. /\ Lane(m) = {} => InLanes(m) = {}
        /\ Single(Lane(m)) => Single(InLanes(m))
    BY LanesOf DEF AccInv
  <2>2. Tracks(m)
    BY DEF AccInv
  <2>3. CASE Counted(m)
    <3>1. Once(m)
      BY <2>2, <2>3 DEF Tracks
    <3>2. Cardinality(InLanes(m)) + Cardinality(InHands(m))
            + Cardinality(Receipts(m)) + Cardinality(Losses(m)) = 1
      BY <2>1, <3>1, OneOrNone DEF Once
    <3> QED
      BY <2>3, <3>2 DEF Counted
  <2>4. CASE ~Counted(m)
    <3>1. Never(m)
      BY <2>2, <2>4 DEF Tracks
    <3>2. Cardinality(InLanes(m)) + Cardinality(InHands(m))
            + Cardinality(Receipts(m)) + Cardinality(Losses(m)) = 0
      <4>1. /\ InLanes(m) = {} /\ InHands(m) = {} /\ Receipts(m) = {}
            /\ Losses(m) = {}
        BY <2>1, <3>1 DEF Never
      <4>2. Cardinality({}) = 0
        BY OneOrNone
      <4> QED
        BY <4>1, <4>2
    <3> QED
      BY <2>4, <3>2 DEF Counted
  <2> QED
    BY <2>3, <2>4
<1> QED
  BY <1>1, AccInit, AccNext, PTL DEF Spec
=============================================================================
