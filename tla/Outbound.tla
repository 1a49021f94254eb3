------------------------------ MODULE Outbound ------------------------------
(***************************************************************************)
(* What an agent sends to its body: the telemetry lane out_queue, the      *)
(* control lane control_queue (decadic/agents/runtime.py), and the sender  *)
(* task of each websocket (decadic/api/app.py).                            *)
(*                                                                         *)
(* A sender polls the control lane, and when that is empty starts one      *)
(* get() task on each lane and waits for the first to finish.  These get() *)
(* tasks are tasks of their own: a sender that is cancelled while it waits *)
(* leaves them behind, still in line for the next message.                 *)
(*                                                                         *)
(* A sender is gone, idle (about to poll), waiting (in asyncio.wait),      *)
(* sending (in send_json), or failed (its socket is still open).           *)
(***************************************************************************)
EXTENDS Integers, Sequences, FiniteSets

CONSTANTS
    Sockets,      \* websockets of one agent
    OutMax,       \* maxsize of out_queue
    ControlMax,   \* maxsize of control_queue
    MaxControls,  \* bound: body commands accepted
    MaxConnects,  \* bound: connections
    MaxResets     \* bound: resets

ASSUME OutboundAssumption ==
    /\ IsFiniteSet(Sockets)
    /\ OutMax \in Nat \ {0} /\ ControlMax \in Nat \ {0}
    /\ MaxControls \in Nat /\ MaxConnects \in Nat /\ MaxResets \in Nat

(* A message is the output of a cycle, the message of the death, or a body *)
(* command, which is its number in the order of acceptance.                *)
Controls == 1..MaxControls
Cycle == -1
Death == 0
Telemetry == {Cycle, Death}
Messages == Controls \cup Telemetry
Nothing == -2

VARIABLES
    outQueue, controlQueue,  \* the two lanes
    sender,                  \* where the sender of each socket is
    gotControl,              \* what the get() tasks of a waiting sender took
    gotTelemetry,
    carry,                   \* the message a sender is writing
    orphans,                 \* get() tasks left behind, per lane
    issued,                  \* body commands accepted so far
    died,                    \* the agent has died
    received,                \* ghost: what each socket delivered of Tracked
    lost,                    \* ghost: what was lost of them, with the cause
    connects, resets         \* spent of MaxConnects and MaxResets

laneVars == <<outQueue, controlQueue>>
senderVars == <<sender, gotControl, gotTelemetry, carry, orphans>>
ghostVars == <<received, lost>>
budget == <<connects, resets>>
vars == <<laneVars, senderVars, issued, died, ghostVars, budget>>

Tracked == Controls \cup {Death}
Causes == {"full", "outrun", "orphan", "connection", "reset"}
Lose(ms, why) == lost' = lost \cup ((ms \cap Tracked) \X {why})

Items(q) == {q[i] : i \in DOMAIN q}

Init ==
    /\ outQueue = <<>> /\ controlQueue = <<>>
    /\ sender = [s \in Sockets |-> "gone"]
    /\ gotControl = [s \in Sockets |-> Nothing]
    /\ gotTelemetry = [s \in Sockets |-> Nothing]
    /\ carry = [s \in Sockets |-> Nothing]
    /\ orphans = [control |-> 0, telemetry |-> 0]
    /\ issued = 0 /\ died = FALSE
    /\ received = [s \in Sockets |-> <<>>]
    /\ lost = {}
    /\ connects = 0 /\ resets = 0

-----------------------------------------------------------------------------
(* The producers.                                                          *)

(* put_nowait on the telemetry lane: a full lane drops the message.        *)
Offer(m) ==
    IF Len(outQueue) < OutMax
    THEN outQueue' = Append(outQueue, m) /\ UNCHANGED lost
    ELSE UNCHANGED outQueue /\ Lose({m}, "full")

(* The output of a cycle.                                                  *)
CyclePuts ==
    /\ Offer(Cycle)
    /\ UNCHANGED <<controlQueue, senderVars, issued, died, received, budget>>

(* die() tells of the death, if there is room.                             *)
DeathPuts ==
    /\ ~died /\ died' = TRUE
    /\ Offer(Death)
    /\ UNCHANGED <<controlQueue, senderVars, issued, received, budget>>

(* queue_body_command n times, as a route (once) or revive() (twice) does: *)
(* what does not fit is refused.                                           *)
BodyCommands(n) ==
    LET room == ControlMax - Len(controlQueue)
        k == IF n <= room THEN n ELSE room
    IN  /\ issued + k <= MaxControls
        /\ issued' = issued + k
        /\ controlQueue' = controlQueue \o [i \in 1..k |-> issued + i]
        /\ UNCHANGED <<outQueue, senderVars, died, ghostVars, budget>>

(* reset() empties both lanes and leaves the senders alone.                *)
Reset ==
    /\ resets < MaxResets /\ resets' = resets + 1
    /\ outQueue' = <<>> /\ controlQueue' = <<>>
    /\ Lose(Items(outQueue) \cup Items(controlQueue), "reset")
    /\ UNCHANGED <<senderVars, issued, died, received, connects>>

-----------------------------------------------------------------------------
(* The sender task.                                                        *)

Writes(s, m) ==
    /\ sender' = [sender EXCEPT ![s] = "sending"]
    /\ carry' = [carry EXCEPT ![s] = m]

(* The handler of a connection starts it.                                  *)
Connect(s) ==
    /\ sender[s] = "gone"
    /\ connects < MaxConnects /\ connects' = connects + 1
    /\ sender' = [sender EXCEPT ![s] = "idle"]
    /\ UNCHANGED <<laneVars, gotControl, gotTelemetry, carry, orphans, issued,
                   died, ghostVars, resets>>

(* Seeded fault: the telemetry lane is polled first.                       *)
FaultyPoll(s) ==
    /\ sender[s] = "idle"
    /\ \/ /\ outQueue # <<>>
          /\ Writes(s, Head(outQueue))
          /\ outQueue' = Tail(outQueue)
       \/ /\ outQueue = <<>>
          /\ sender' = [sender EXCEPT ![s] = "waiting"]
          /\ UNCHANGED <<outQueue, carry>>
    /\ UNCHANGED <<controlQueue, gotControl, gotTelemetry, orphans, issued,
                   died, ghostVars, budget>>

(* control_queue.get_nowait(), or else two get() tasks and asyncio.wait.   *)
Poll(s) ==
    /\ sender[s] = "idle"
    /\ \/ /\ controlQueue # <<>>
          /\ Writes(s, Head(controlQueue))
          /\ controlQueue' = Tail(controlQueue)
       \/ /\ controlQueue = <<>>
          /\ sender' = [sender EXCEPT ![s] = "waiting"]
          /\ UNCHANGED <<controlQueue, carry>>
    /\ UNCHANGED <<outQueue, gotControl, gotTelemetry, orphans, issued, died,
                   ghostVars, budget>>

(* A get() task takes the head of its lane.  Tasks that wait on one lane   *)
(* are served in turn, but one that was just created may get there before  *)
(* one that was woken: any of them may be the next.                        *)
TakeControl(s) ==
    /\ sender[s] = "waiting" /\ gotControl[s] = Nothing
    /\ controlQueue # <<>>
    /\ gotControl' = [gotControl EXCEPT ![s] = Head(controlQueue)]
    /\ controlQueue' = Tail(controlQueue)
    /\ UNCHANGED <<outQueue, sender, gotTelemetry, carry, orphans, issued,
                   died, ghostVars, budget>>

TakeTelemetry(s) ==
    /\ sender[s] = "waiting" /\ gotTelemetry[s] = Nothing
    /\ outQueue # <<>>
    /\ gotTelemetry' = [gotTelemetry EXCEPT ![s] = Head(outQueue)]
    /\ outQueue' = Tail(outQueue)
    /\ UNCHANGED <<controlQueue, sender, gotControl, carry, orphans, issued,
                   died, ghostVars, budget>>

(* A get() task that no sender waits for any more takes a message.         *)
OrphanTakesControl ==
    /\ orphans.control > 0 /\ controlQueue # <<>>
    /\ orphans' = [orphans EXCEPT !.control = @ - 1]
    /\ Lose({Head(controlQueue)}, "orphan")
    /\ controlQueue' = Tail(controlQueue)
    /\ UNCHANGED <<outQueue, sender, gotControl, gotTelemetry, carry, issued,
                   died, received, budget>>

OrphanTakesTelemetry ==
    /\ orphans.telemetry > 0 /\ outQueue # <<>>
    /\ orphans' = [orphans EXCEPT !.telemetry = @ - 1]
    /\ Lose({Head(outQueue)}, "orphan")
    /\ outQueue' = Tail(outQueue)
    /\ UNCHANGED <<controlQueue, sender, gotControl, gotTelemetry, carry,
                   issued, died, received, budget>>

(* Both get() tasks are done with, whatever they took.                     *)
Forgets(s) ==
    /\ gotControl' = [gotControl EXCEPT ![s] = Nothing]
    /\ gotTelemetry' = [gotTelemetry EXCEPT ![s] = Nothing]

chooseFrame == <<outQueue, orphans, issued, died, received, budget>>

(* asyncio.wait returns: the get() that has not finished is cancelled,     *)
(* which loses nothing, and a control message is preferred to telemetry,   *)
(* which is dropped, be it the message of the death.                       *)
Choose(s) ==
    /\ sender[s] = "waiting"
    /\ \/ /\ gotControl[s] # Nothing
          /\ Writes(s, gotControl[s])
          /\ Lose({gotTelemetry[s]}, "outrun")
          /\ UNCHANGED controlQueue
       \/ /\ gotControl[s] = Nothing /\ gotTelemetry[s] # Nothing
          /\ controlQueue # <<>>
          /\ Writes(s, Head(controlQueue))
          /\ controlQueue' = Tail(controlQueue)
          /\ Lose({gotTelemetry[s]}, "outrun")
       \/ /\ gotControl[s] = Nothing /\ gotTelemetry[s] # Nothing
          /\ controlQueue = <<>>
          /\ Writes(s, gotTelemetry[s])
          /\ UNCHANGED <<controlQueue, lost>>
    /\ Forgets(s)
    /\ UNCHANGED chooseFrame

Written(s, state) ==
    /\ sender' = [sender EXCEPT ![s] = state]
    /\ carry' = [carry EXCEPT ![s] = Nothing]

Sent(s) ==
    /\ sender[s] = "sending"
    /\ Written(s, "idle")
    /\ received' = IF carry[s] \in Tracked
                   THEN [received EXCEPT ![s] = Append(@, carry[s])]
                   ELSE received
    /\ UNCHANGED <<laneVars, gotControl, gotTelemetry, orphans, issued, died,
                   lost, budget>>

(* Seeded fault: a message that could not be written is put back.          *)
FaultySendFails(s) ==
    /\ sender[s] = "sending"
    /\ Written(s, "idle")
    /\ controlQueue' = IF carry[s] \in Controls
                       THEN Append(controlQueue, carry[s]) ELSE controlQueue
    /\ Lose({carry[s]} \ Controls, "connection")
    /\ UNCHANGED <<outQueue, gotControl, gotTelemetry, orphans, issued, died,
                   received, budget>>

(* send_json raises: the sender task ends, and the receive loop goes on    *)
(* until it notices.                                                       *)
SendFails(s) ==
    /\ sender[s] = "sending"
    /\ Written(s, "failed")
    /\ Lose({carry[s]}, "connection")
    /\ UNCHANGED <<laneVars, gotControl, gotTelemetry, orphans, issued, died,
                   received, budget>>

(* Seeded fault: a get() left behind puts back what it takes.              *)
FaultyDisconnect(s) ==
    /\ sender[s] # "gone"
    /\ Written(s, "gone")
    /\ controlQueue' = IF gotControl[s] = Nothing THEN controlQueue
                       ELSE Append(controlQueue, gotControl[s])
    /\ Lose({gotControl[s], gotTelemetry[s], carry[s]}, "connection")
    /\ Forgets(s)
    /\ UNCHANGED <<outQueue, orphans, issued, died, received, budget>>

(* The receive loop ends and cancels the sender.  Of one that waits, what  *)
(* its get() tasks took is lost with them, and those still in line remain. *)
Disconnect(s) ==
    /\ sender[s] # "gone"
    /\ Written(s, "gone")
    /\ Lose({gotControl[s], gotTelemetry[s], carry[s]}, "connection")
    /\ LET Left(got, n) == IF sender[s] = "waiting" /\ got = Nothing
                           THEN n + 1 ELSE n
       IN  orphans' = [control |-> Left(gotControl[s], orphans.control),
                       telemetry |-> Left(gotTelemetry[s], orphans.telemetry)]
    /\ Forgets(s)
    /\ UNCHANGED <<laneVars, issued, died, received, budget>>

(* What the event loop runs of a sender.                                   *)
SenderStep(s) ==
    Poll(s) \/ TakeControl(s) \/ TakeTelemetry(s) \/ Choose(s) \/ Sent(s)

Next ==
    \/ CyclePuts \/ DeathPuts \/ Reset
    \/ \E n \in {1, 2} : BodyCommands(n)
    \/ \E s \in Sockets : \/ Connect(s) \/ SenderStep(s)
                          \/ SendFails(s) \/ Disconnect(s)
    \/ OrphanTakesControl \/ OrphanTakesTelemetry

(* The event loop runs the tasks that are ready, and writes end.  Nothing  *)
(* is assumed of the producers and of the connections.                     *)
Spec ==
    /\ Init /\ [][Next]_vars
    /\ \A s \in Sockets : WF_vars(SenderStep(s))

-----------------------------------------------------------------------------
OutTypeOK ==
    /\ outQueue \in Seq(Telemetry) /\ Len(outQueue) <= OutMax
    /\ controlQueue \in Seq(Controls) /\ Len(controlQueue) <= ControlMax
    /\ sender \in [Sockets -> {"gone", "idle", "waiting", "sending", "failed"}]
    /\ gotControl \in [Sockets -> Controls \cup {Nothing}]
    /\ gotTelemetry \in [Sockets -> Telemetry \cup {Nothing}]
    /\ carry \in [Sockets -> Messages \cup {Nothing}]
    /\ orphans \in [control : Nat, telemetry : Nat]
    /\ issued \in 0..MaxControls /\ died \in BOOLEAN
    /\ received \in [Sockets -> Seq(Tracked)]
    /\ lost \subseteq Tracked \X Causes
    /\ connects \in 0..MaxConnects /\ resets \in 0..MaxResets

(* Where the message m is.                                                 *)
InLanes(m) ==
    {<<0, i>> : i \in {j \in 1..Len(outQueue) : outQueue[j] = m}}
    \cup {<<1, i>> : i \in {j \in 1..Len(controlQueue) : controlQueue[j] = m}}
InHands(m) == {s \in Sockets : m \in {gotControl[s], gotTelemetry[s], carry[s]}}
Receipts(m) ==
    UNION {{<<s, i>> : i \in {j \in 1..Len(received[s]) : received[s][j] = m}} :
           s \in Sockets}
Losses(m) == {l \in lost : l[1] = m}

(* A body command that was accepted, and the message of the death, is in   *)
(* one place, or was delivered once, or was lost once: the polls, the      *)
(* get() tasks, those cancelled and those left behind duplicate nothing.   *)
Accounted ==
    \A m \in Tracked :
        Cardinality(InLanes(m)) + Cardinality(InHands(m))
          + Cardinality(Receipts(m)) + Cardinality(Losses(m))
        = IF (m = Death /\ died) \/ m \in 1..issued THEN 1 ELSE 0

(* One socket delivers body commands in the order they were accepted,      *)
(* although they reach its sender by three ways: the poll, the get() task  *)
(* and the second look after telemetry.                                    *)
ControlInOrder ==
    \A s \in Sockets : \A i, j \in DOMAIN received[s] :
        i < j /\ Death \notin {received[s][i], received[s][j]}
        => received[s][i] < received[s][j]

(* Telemetry is never chosen while a body command is in the sender's hands *)
(* or waits in the lane.                                                   *)
ControlFirst ==
    [][\A s \in Sockets :
          carry[s] = Nothing /\ carry'[s] \in Telemetry
          => controlQueue = <<>> /\ gotControl[s] = Nothing]_vars

(* However many cycles put their output next to it, a body command that    *)
(* was accepted leaves the lane, if from some time on a sender is there.   *)
Attended == \E s \in Sockets : sender[s] \notin {"gone", "failed"}
ControlLeavesLane ==
    <>[]Attended =>
        \A m \in Controls :
            m \in Items(controlQueue) ~> m \notin Items(controlQueue)
=============================================================================
