--------------------------- MODULE AgentLifecycle ---------------------------
(***************************************************************************)
(* The life of one agent in decadic/agents/runtime.py: its reservoirs, its *)
(* death and revival, the tasks that run it (cycle loop, metabolic loop,   *)
(* consolidator) and the requests that act on it, over its lock.           *)
(*                                                                         *)
(* A step is what a task does from one await that suspends to the next.    *)
(* An uncontended lock does not suspend: a task that finds it free runs    *)
(* its critical section in the same step.  It is held across an await only *)
(* by the consolidator's soft sync (in a thread) and by a cycle that waits *)
(* 1 ms for the first observation after a reset.                           *)
(*   cycle loop: wait (asleep, or about to test running), lock, observing  *)
(*            (holds the lock), ended                                      *)
(*   metabolic:  wait, lock, ended                                         *)
(*   consolidator: burst (and its sleep), lock, syncing (holds it), ended  *)
(*   request: idle, cancelling (awaits the cycle task it cancelled),       *)
(*            forgetting (a reset awaits the refresh of the memory context *)
(*            it cancelled), lock                                          *)
(*   socket:  gone, accepting (the handler has the agent, not yet the      *)
(*            connection), open, lock (handle_observation_dict)            *)
(* What is sent to the body is in module Outbound; it has no effect here.  *)
(***************************************************************************)
EXTENDS Integers, Sequences, FiniteSets

CONSTANTS
    Sockets,       \* websockets of the agent, numbered
    Full,          \* max_value of a reservoir; min_value is 0
    HealReserve,   \* heal_min_reserve
    ReviveLevel,   \* what revive() restores, DEFAULT_REVIVE_VIABILITY
    CycleIds,      \* 1..n: bound on cycle tasks at one time
    Clients,       \* 1..n: concurrent requests
    Operations,    \* requests the clients make
    Soaks,         \* settings of DECADIC_SOAK_REVIVE
    Modes,         \* settings of DECADIC_VIABILITY_MODE
    MaxAdmin,      \* bound: requests
    MaxBody        \* bound: connections and observations

ASSUME LifecycleAssumption ==
    /\ IsFiniteSet(Sockets)
    /\ Full \in Nat \ {0} /\ HealReserve \in 0..Full
    /\ ReviveLevel \in 1..Full
    /\ IsFiniteSet(CycleIds) /\ CycleIds \subseteq Nat \ {0} /\ 1 \in CycleIds
    /\ Clients \subseteq Nat
    /\ Operations \subseteq {"reset", "checkpoint", "restore", "give"}
    /\ Soaks \subseteq BOOLEAN /\ Soaks # {}
    /\ Modes \subseteq {"metabolic", "immortal"} /\ Modes # {}
    /\ MaxAdmin \in Nat /\ MaxBody \in Nat

VARIABLES
    status, paused, running, registered, mode, soak,
    food, integrity,   \* Homeostasis; food is the lesser of hydration, energy
    clocked,           \* _last_metab_monotonic is not None
    holder, waiters,   \* the agent's lock
    cycleTask,         \* _cycle_task, or NoTask
    cycle,             \* where each cycle task is
    cancelled,         \* cycle tasks cancel() was called on
    session,           \* mind of the session a cycle task popped, or NoMind
    metabolic, sync, socket, client,
    request,           \* what each client asks for
    awaited,           \* the task a client cancelled
    restart,           \* what suspend_cycle_worker returned to a client
    payload,           \* the checkpoint a restore has read
    stopping,          \* no, or what stop() is at, or closed
    stopped,           \* the cycle task stop() cancelled
    mind,              \* number of the mind; reset() makes a new one
    pool,              \* sessions: none, active (prefetching), ready
    observed,          \* _last_observation is not None
    mustObserve,       \* _wait_for_observation_after_reset
    saved,             \* the agent's checkpoint file
    lateCycles, lateCharges,  \* ghost: steps on a frozen mind
    staleCycles,       \* ghost: a session of a former mind was deliberated
    breached,          \* ghost: a cycle task may have started in a barrier
    restored,          \* ghost: the reservoirs are those of a checkpoint
    admin, body        \* spent of MaxAdmin and MaxBody

NoTask == 0
NoMind == 0

reservoirs == <<food, integrity>>
vitals == <<status, mode, reservoirs, clocked>>
lockVars == <<holder, waiters>>
cycleVars == <<cycleTask, cycle, cancelled, session>>
loopVars == <<metabolic, sync>>
clientVars == <<client, request, awaited, restart, payload>>
serverVars == <<running, registered, paused, soak, stopping, stopped>>
mindVars == <<mind, pool, observed, mustObserve>>
lateVars == <<lateCycles, lateCharges, staleCycles>>
ghostVars == <<lateVars, breached, restored>>
budget == <<admin, body>>
vars == <<vitals, lockVars, cycleVars, loopVars, socket, clientVars, serverVars,
          mindVars, saved, ghostVars, budget>>

Min2(a, b) == IF a <= b THEN a ELSE b
(* Seeded fault: a meal or a cure may overfill a reservoir.                *)
FaultyCapped(n) == n
(* A reservoir is clamped at its bounds.                                   *)
Capped(n) == Min2(n, Full)
Lowered(n) == IF n = 0 THEN 0 ELSE n - 1

Viability == Min2(food, integrity)
Frozen == paused \/ status = "dead"

(* Seeded fault: the loops look for a death and not for a pause.           *)
FaultyAwake == status # "dead"
(* What the loops test before they act on the mind.                        *)
Awake == ~Frozen

(* Tasks in line for the lock.                                             *)
CycleOf(c) == <<"cycle", c>>
ClientOf(k) == <<"client", k>>
SocketOf(s) == <<"socket", s>>
Metabolism == <<"metabolic", 0>>
Consolidator == <<"sync", 0>>
Free == <<"free", 0>>

(* asyncio.Lock is fair: acquire() waits in line behind whoever waits,     *)
(* although the lock be free for the moment.                               *)
Uncontended == holder = Free /\ waiters = <<>>
Granted(t) == holder = Free /\ waiters # <<>> /\ Head(waiters) = t
Joins(t) == ~Uncontended /\ waiters' = Append(waiters, t)
LeavesLine == waiters' = Tail(waiters)

(* A waiter that is cancelled leaves from wherever it is in line.          *)
Without(q, t) ==
    IF \E i \in DOMAIN q : q[i] = t
    THEN LET p == CHOOSE i \in DOMAIN q : q[i] = t
         IN  [i \in 1..(Len(q) - 1) |-> IF i < p THEN q[i] ELSE q[i + 1]]
    ELSE q

-----------------------------------------------------------------------------
(* Starting tasks.                                                         *)

Unused == {c \in CycleIds :
              cycle[c] = "ended" /\ \A k \in Clients : awaited[k] # c}
Fresh == CHOOSE c \in Unused : TRUE

LoopEnded == cycleTask \notin {c \in CycleIds : cycle[c] # "ended"}

(* Where a cycle task is when its loop has tested running.                 *)
AfterTest == IF running THEN "wait" ELSE "ended"

(* ensure_cycle_worker for the cycle task; gone: _cycle_task was set to    *)
(* None in the same step; places: where the cycle tasks are otherwise.     *)
StartCycle(gone, places) ==
    IF gone \/ LoopEnded
    THEN /\ Unused # {}
         /\ cycleTask' = Fresh
         /\ cycle' = [places EXCEPT ![Fresh] = AfterTest]
         /\ cancelled' = cancelled \ {Fresh}
         /\ session' = [session EXCEPT ![Fresh] = NoMind]
    ELSE /\ cycle' = places
         /\ UNCHANGED <<cycleTask, cancelled, session>>

(* ensure_cycle_worker for the other loops: each only if it has ended.     *)
StartLoops ==
    /\ metabolic' = IF metabolic = "ended" THEN "wait" ELSE metabolic
    /\ sync' = IF sync = "ended" THEN "burst" ELSE sync

(* A request is between suspend_cycle_worker and resume_cycle_worker.      *)
InBarrier(k) == client[k] # "idle" /\ request[k] # "give"
Barrier == \E k \in Clients : InBarrier(k)

EnsureFrom(places) ==
    /\ StartCycle(FALSE, places)
    /\ StartLoops
    /\ breached' = (breached \/ Barrier)

Ensure == EnsureFrom(cycle)

Init ==
    /\ status = "alive" /\ paused = FALSE /\ running = TRUE
    /\ registered = TRUE
    /\ mode \in Modes
    /\ soak \in Soaks
    /\ food = Full /\ integrity = Full /\ clocked = FALSE
    /\ holder = Free /\ waiters = <<>>
    /\ cycleTask = 1
    /\ cycle = [c \in CycleIds |-> IF c = 1 THEN "wait" ELSE "ended"]
    /\ cancelled = {}
    /\ session = [c \in CycleIds |-> NoMind]
    /\ metabolic = "wait" /\ sync = "burst"
    /\ socket \in [Sockets -> {"gone", "open"}]
    /\ client = [k \in Clients |-> "idle"]
    /\ request = [k \in Clients |-> "give"]
    /\ awaited = [k \in Clients |-> NoTask]
    /\ restart = [k \in Clients |-> FALSE]
    /\ payload = [k \in Clients |-> <<>>]
    /\ stopping = "no" /\ stopped = NoTask
    /\ mind = 1
    /\ pool = "none" /\ observed = FALSE /\ mustObserve = FALSE
    /\ saved = <<>>
    /\ lateCycles = 0 /\ lateCharges = 0 /\ staleCycles = 0
    /\ breached = FALSE /\ restored = FALSE
    /\ admin = 0 /\ body = 0

-----------------------------------------------------------------------------
(* Mortality.                                                              *)

(* _check_death with the reservoirs f and i, at the end of a critical      *)
(* section.  The message of the death is Outbound's.                       *)
Dies(f, i) == mode = "metabolic" /\ status = "alive" /\ Min2(f, i) = 0

CheckDeath(f, i) ==
    /\ food' = f /\ integrity' = i
    /\ status' = IF Dies(f, i) THEN "dead" ELSE status
    /\ restored' = (restored /\ mode = "immortal")

(* The late steps are counted from the last time the mind was not frozen.  *)
LateAfter(cycles, charges) ==
    LET frozen == paused \/ status' = "dead"
    IN  /\ lateCycles' = IF frozen THEN cycles ELSE 0
        /\ lateCharges' = IF frozen THEN charges ELSE 0

(* revive(): the reservoirs are those of a new life.                       *)
Revives(level, places) ==
    /\ status = "dead"
    /\ status' = "alive"
    /\ food' = level /\ integrity' = level
    /\ clocked' = TRUE
    /\ EnsureFrom(places)
    /\ LateAfter(lateCycles, lateCharges)
    /\ restored' = FALSE
    /\ UNCHANGED <<mode, lockVars, socket, clientVars,
                   serverVars, mindVars, saved, staleCycles, body>>

-----------------------------------------------------------------------------
(* The metabolic loop.                                                     *)

(* passive_metabolism: food always falls, integrity heals on reserves.     *)
Charged == Lowered(food)
Healed == IF food > HealReserve THEN Capped(integrity + 1) ELSE integrity

(* Seeded fault: nobody looks whether the drain was fatal.                 *)
FaultyCharge ==
    /\ food' = Charged /\ integrity' = Healed
    /\ UNCHANGED status
    /\ restored' = (restored /\ mode = "immortal")
    /\ LateAfter(lateCycles, Min2(lateCharges + 1, 2))
    /\ metabolic' = "wait"

(* Under the lock.  Status and mode were looked at before it was asked for.*)
Charge ==
    /\ CheckDeath(Charged, Healed)
    /\ LateAfter(lateCycles,
                 IF Frozen THEN Min2(lateCharges + 1, 2) ELSE lateCharges)
    /\ metabolic' = "wait"

(* A tick.  A frozen or immortal agent's clock is set and nothing is       *)
(* charged; nor is anything when the clock was not set.                    *)
MetabolicTick ==
    /\ metabolic = "wait" /\ running
    /\ clocked' = TRUE
    /\ \/ /\ ~Awake \/ mode = "immortal" \/ ~clocked
          /\ UNCHANGED <<status, reservoirs, metabolic, waiters,
                         restored, lateVars>>
       \/ /\ Awake /\ mode = "metabolic" /\ clocked
          /\ \/ /\ Uncontended /\ Charge /\ UNCHANGED waiters
             \/ /\ Joins(Metabolism) /\ metabolic' = "lock"
                /\ UNCHANGED <<status, reservoirs, restored, lateVars>>
          /\ UNCHANGED staleCycles
    /\ UNCHANGED <<mode, holder,
                   cycleVars, sync, socket, clientVars, serverVars,
                   mindVars, saved, breached, budget>>

MetabolicCharges ==
    /\ metabolic = "lock" /\ Granted(Metabolism)
    /\ stopping # "metabolic"
    /\ Charge
    /\ LeavesLine
    /\ UNCHANGED <<mode, clocked,
                   holder, cycleVars, sync, socket, clientVars,
                   serverVars, mindVars, saved, staleCycles, breached,
                   budget>>

MetabolicEnds ==
    /\ metabolic = "wait" /\ ~running
    /\ metabolic' = "ended"
    /\ UNCHANGED <<vitals, lockVars, cycleVars, sync,
                   socket, clientVars, serverVars, mindVars, saved, ghostVars,
                   budget>>

-----------------------------------------------------------------------------
(* The consolidator: it holds the lock while a thread nudges the weights.  *)

SyncBegins ==
    /\ sync = "burst" /\ running
    /\ \/ /\ Uncontended
          /\ holder' = Consolidator /\ sync' = "syncing"
          /\ UNCHANGED waiters
       \/ /\ Joins(Consolidator) /\ sync' = "lock"
          /\ UNCHANGED holder
    /\ UNCHANGED <<vitals, cycleVars, metabolic, socket,
                   clientVars, serverVars, mindVars, saved, ghostVars, budget>>

SyncGranted ==
    /\ sync = "lock" /\ Granted(Consolidator) /\ stopping # "sync"
    /\ holder' = Consolidator /\ sync' = "syncing"
    /\ LeavesLine
    /\ UNCHANGED <<vitals, cycleVars, metabolic, socket,
                   clientVars, serverVars, mindVars, saved, ghostVars, budget>>

(* Seeded fault: the lock is not given back.                               *)
FaultySyncDone ==
    /\ sync = "syncing" /\ stopping # "sync"
    /\ sync' = "burst"
    /\ UNCHANGED <<vitals, lockVars, cycleVars, metabolic,
                   socket, clientVars, serverVars, mindVars, saved, ghostVars,
                   budget>>

SyncDone ==
    /\ sync = "syncing" /\ stopping # "sync"
    /\ holder' = Free /\ sync' = "burst"
    /\ UNCHANGED <<vitals, waiters, cycleVars, metabolic,
                   socket, clientVars, serverVars, mindVars, saved, ghostVars,
                   budget>>

SyncEnds ==
    /\ sync = "burst" /\ ~running
    /\ sync' = "ended"
    /\ UNCHANGED <<vitals, lockVars, cycleVars, metabolic,
                   socket, clientVars, serverVars, mindVars, saved, ghostVars,
                   budget>>

-----------------------------------------------------------------------------
(* The cycle loop.                                                         *)

At(c, place) == cycle[c] = place /\ c \notin cancelled
Goes(c, place) == cycle' = [cycle EXCEPT ![c] = place]

CycleEnds(c) ==
    /\ At(c, "wait") /\ ~running
    /\ Goes(c, "ended")
    /\ UNCHANGED <<vitals, lockVars, cycleTask, cancelled, session, loopVars,
                   socket, clientVars, serverVars, mindVars, saved, ghostVars,
                   budget>>

(* The mind is frozen, or its sessions are still prefetching: nothing to   *)
(* do this time.                                                           *)
CycleSkips(c) ==
    /\ At(c, "wait")
    /\ \/ ~Awake /\ ~(status = "dead" /\ ~paused /\ soak)
       \/ Awake /\ pool # "ready" /\ (pool = "active" \/ observed)
    /\ Goes(c, AfterTest)
    /\ UNCHANGED <<vitals, lockVars, cycleTask, cancelled, session,
                   loopVars, socket, clientVars, serverVars, mindVars, saved,
                   ghostVars, budget>>

(* One cognitive cycle with session m under the lock: the mind moves, pays *)
(* for it, may die of it, and sends its action.                            *)
Deliberates(c, m) ==
    /\ \E cost \in {0, 1} :
          /\ cost > 0 => mode = "metabolic" /\ status = "alive"
          /\ CheckDeath(IF cost = 1 THEN Lowered(food) ELSE food, integrity)
    /\ LateAfter(IF Frozen THEN Min2(lateCycles + 1, 2) ELSE lateCycles,
                 lateCharges)
    /\ staleCycles' = IF m \in {NoMind, mind} THEN staleCycles ELSE 1
    /\ mustObserve' = FALSE
    /\ session' = [session EXCEPT ![c] = NoMind]
    /\ Goes(c, AfterTest)
    /\ UNCHANGED holder

(* Or, after a reset, there is nothing to deliberate: it sleeps 1 ms with  *)
(* the lock.                                                               *)
Observes(c) ==
    /\ holder' = CycleOf(c)
    /\ Goes(c, "observing")
    /\ session' = [session EXCEPT ![c] = NoMind]
    /\ UNCHANGED <<status, reservoirs, mustObserve, restored,
                   lateVars>>

UnderLock(c, m) ==
    IF m = NoMind /\ mustObserve THEN Observes(c) ELSE Deliberates(c, m)

(* pop_commit_candidate, then the lock.                                    *)
CycleDeliberates(c) ==
    /\ At(c, "wait") /\ Awake
    /\ pool = "ready" \/ (pool = "none" /\ ~observed)
    /\ LET m == IF pool = "ready" THEN mind ELSE NoMind
       IN  \/ /\ Uncontended /\ UnderLock(c, m) /\ UNCHANGED waiters
           \/ /\ Joins(CycleOf(c))
              /\ Goes(c, "lock")
              /\ session' = [session EXCEPT ![c] = m]
              /\ UNCHANGED <<status, reservoirs, holder,
                             mustObserve, restored, lateVars>>
    /\ pool' = IF pool = "ready" THEN "none" ELSE pool
    /\ UNCHANGED <<mode, clocked,
                   cycleTask, cancelled, loopVars, socket, clientVars,
                   serverVars, mind, observed, saved, breached, budget>>

CycleGranted(c) ==
    /\ At(c, "lock") /\ Granted(CycleOf(c))
    /\ UnderLock(c, session[c])
    /\ LeavesLine
    /\ UNCHANGED <<mode, clocked,
                   cycleTask, cancelled, loopVars, socket, clientVars,
                   serverVars, mind, pool, observed, saved, breached,
                   budget>>

CycleObserved(c) ==
    /\ At(c, "observing")
    /\ holder' = Free
    /\ Goes(c, AfterTest)
    /\ UNCHANGED <<vitals, waiters, cycleTask, cancelled, session,
                   loopVars, socket, clientVars, serverVars, mindVars, saved,
                   ghostVars, budget>>

(* Seeded fault: a task cancelled in line for the lock stays in line.      *)
FaultyCycleCancelled(c) ==
    /\ c \in cancelled /\ cycle[c] # "ended"
    /\ Goes(c, "ended")
    /\ cancelled' = cancelled \ {c}
    /\ session' = [session EXCEPT ![c] = NoMind]
    /\ holder' = IF holder = CycleOf(c) THEN Free ELSE holder
    /\ UNCHANGED <<vitals, waiters, cycleTask, loopVars, socket, clientVars,
                   serverVars, mindVars, saved, ghostVars, budget>>

(* CancelledError at whatever the task awaits.                             *)
CycleCancelled(c) ==
    /\ c \in cancelled /\ cycle[c] # "ended"
    /\ Goes(c, "ended")
    /\ cancelled' = cancelled \ {c}
    /\ session' = [session EXCEPT ![c] = NoMind]
    /\ holder' = IF holder = CycleOf(c) THEN Free ELSE holder
    /\ waiters' = Without(waiters, CycleOf(c))
    /\ UNCHANGED <<vitals, cycleTask, loopVars, socket, clientVars,
                   serverVars, mindVars, saved, ghostVars, budget>>

(* In a soak test the loop revives a dead agent by itself.                 *)
SoakRevive(c) ==
    /\ At(c, "wait") /\ ~paused /\ soak
    /\ Revives(ReviveLevel, [cycle EXCEPT ![c] = AfterTest])
    /\ UNCHANGED admin

CycleStep(c) ==
    \/ CycleEnds(c) \/ CycleSkips(c) \/ CycleDeliberates(c) \/ CycleGranted(c)
    \/ CycleObserved(c) \/ CycleCancelled(c) \/ SoakRevive(c)

-----------------------------------------------------------------------------
(* Requests that take effect at once: pause, resume, revive, configure.    *)

Asks == registered /\ admin < MaxAdmin /\ admin' = admin + 1

Pause ==
    /\ Asks /\ ~paused
    /\ paused' = TRUE
    /\ UNCHANGED <<vitals, lockVars, cycleVars, loopVars, socket,
                   clientVars, running, registered, soak, stopping, stopped, mindVars,
                   saved, ghostVars, body>>

Resume ==
    /\ Asks
    /\ paused' = FALSE
    /\ Ensure
    /\ lateCycles' = IF status = "dead" THEN lateCycles ELSE 0
    /\ lateCharges' = IF status = "dead" THEN lateCharges ELSE 0
    /\ UNCHANGED <<vitals, lockVars, socket, clientVars, running,
                   registered, soak, stopping, stopped, mindVars, saved, staleCycles,
                   restored, body>>

Revive == Asks /\ Revives(ReviveLevel, cycle)

(* All reservoirs full.                                                    *)
Pinned == food' = Full /\ integrity' = Full

(* configure(viability_mode="immortal"): it takes no lock.                 *)
Immortalise ==
    /\ Asks
    /\ mode' = "immortal" /\ Pinned
    /\ status' = "alive"
    /\ IF status = "dead"
       THEN clocked' = TRUE /\ Ensure
       ELSE UNCHANGED <<clocked, cycleVars, loopVars, breached>>
    /\ LateAfter(lateCycles, lateCharges)
    /\ restored' = FALSE
    /\ UNCHANGED <<lockVars, socket, clientVars, serverVars,
                   mindVars, saved, staleCycles, body>>

(* configure(viability_mode="metabolic"): no charge for the time before.   *)
Mortalise ==
    /\ Asks
    /\ mode' = "metabolic" /\ clocked' = TRUE
    /\ UNCHANGED <<status, reservoirs, lockVars, cycleVars, loopVars,
                   socket, clientVars, serverVars, mindVars, saved, ghostVars,
                   body>>

-----------------------------------------------------------------------------
(* Requests that wait for the lock: give_resource, and the barriers reset, *)
(* checkpoint and restore, which first suspend the cycle loop.             *)

(* resume_cycle_worker, which ends a barrier; gone as in StartCycle.       *)
ResumeWorker(k, again, gone) ==
    /\ IF again /\ running
       THEN StartCycle(gone, cycle) /\ StartLoops
       ELSE /\ cycleTask' = IF gone THEN NoTask ELSE cycleTask
            /\ UNCHANGED <<cycle, cancelled, session, loopVars>>
    /\ breached' = (breached \/ \E j \in Clients \ {k} : InBarrier(j))

(* The new mind starts full and alive; the mode and the pause stay.        *)
ResetBody ==
    /\ mind' = mind + 1
    /\ food' = Full /\ integrity' = Full /\ status' = "alive"
    /\ clocked' = FALSE
    /\ restored' = FALSE
    /\ LateAfter(lateCycles, lateCharges)
    /\ UNCHANGED <<mode, saved>>

CheckpointBody ==
    /\ saved' = <<[food |-> food, integrity |-> integrity, mode |-> mode]>>
    /\ UNCHANGED <<vitals, mind, restored, lateCycles,
                   lateCharges>>

(* The reservoirs and the mode are those of the file; the status stays.    *)
RestoreBody(k) ==
    LET file == payload'[k][1]
    IN  /\ food' = file.food /\ integrity' = file.integrity
        /\ mode' = file.mode
        /\ restored' = TRUE
        /\ UNCHANGED <<status, clocked, mind, saved,
                       lateCycles, lateCharges>>

(* Each of them forgets the observation and clears the pipelines.          *)
BarrierBody(k, op, again, gone) ==
    /\ \/ op = "reset" /\ ResetBody
       \/ op = "checkpoint" /\ CheckpointBody
       \/ op = "restore" /\ RestoreBody(k)
    /\ observed' = FALSE /\ mustObserve' = TRUE /\ pool' = "none"
    /\ ResumeWorker(k, again, gone)

(* Water or food; or a medical kit.  Nothing is given to an immortal.      *)
GiveBody ==
    /\ \/ mode = "metabolic" /\ food' = Capped(food + 1) /\ UNCHANGED integrity
       \/ mode = "metabolic" /\ integrity' = Capped(integrity + 1)
          /\ UNCHANGED food
       \/ mode = "immortal" /\ UNCHANGED reservoirs
    /\ UNCHANGED <<status, mode, clocked, mindVars,
                   saved, lateCycles, lateCharges, cycleVars, loopVars,
                   breached, restored>>

RequestBody(k, op, again, gone) ==
    IF op = "give" THEN GiveBody ELSE BarrierBody(k, op, again, gone)

(* The lock is free, and the request is done; or it waits in line.         *)
Locks(k, op, again, gone) ==
    \/ /\ Uncontended
       /\ RequestBody(k, op, again, gone)
       /\ client' = [client EXCEPT ![k] = "idle"]
       /\ UNCHANGED waiters
    \/ /\ Joins(ClientOf(k))
       /\ client' = [client EXCEPT ![k] = "lock"]
       /\ cycleTask' = IF gone THEN NoTask ELSE cycleTask
       /\ UNCHANGED <<vitals, mindVars, saved,
                      lateCycles, lateCharges, cycle, cancelled, session,
                      loopVars, breached, restored>>

(* A reset that finds the memory context being refreshed cancels that task *)
(* too and waits for it to end.  A cycle starts one now and then; whether  *)
(* one is in flight is not kept.                                           *)
Forgets(k, op) ==
    /\ op = "reset"
    /\ client' = [client EXCEPT ![k] = "forgetting"]
    /\ cycleTask' = NoTask
    /\ UNCHANGED <<vitals, waiters, mindVars, saved,
                   lateCycles, lateCharges, cycle, cancelled, session,
                   loopVars, breached, restored>>

(* What follows suspend_cycle_worker.                                      *)
Proceeds(k, op, again) == Forgets(k, op) \/ Locks(k, op, again, TRUE)

requestFrame == <<holder, socket, serverVars, staleCycles, body>>

Give(k) ==
    /\ Asks /\ client[k] = "idle" /\ "give" \in Operations
    /\ request' = [request EXCEPT ![k] = "give"]
    /\ Locks(k, "give", FALSE, FALSE)
    /\ UNCHANGED <<requestFrame, awaited, restart, payload>>

(* A restore reads its file first.                                         *)
AsksBarrier(k, op) ==
    /\ Asks /\ client[k] = "idle" /\ op \in Operations \ {"give"}
    /\ op = "restore" => saved # <<>>
    /\ request' = [request EXCEPT ![k] = op]
    /\ payload' = [payload EXCEPT ![k] = IF op = "restore" THEN saved ELSE <<>>]

(* suspend_cycle_worker cancels the cycle task and waits for it to end.    *)
Suspend(k, op) ==
    /\ AsksBarrier(k, op)
    /\ ~LoopEnded
    /\ restart' = [restart EXCEPT ![k] = TRUE]
    /\ client' = [client EXCEPT ![k] = "cancelling"]
    /\ awaited' = [awaited EXCEPT ![k] = cycleTask]
    /\ cancelled' = cancelled \cup {cycleTask}
    /\ breached' = (breached \/ Barrier)
    /\ UNCHANGED <<vitals, lockVars, cycleTask, cycle, session,
                   loopVars, socket, serverVars, mindVars, saved, lateVars,
                   restored, body>>

(* There is no cycle task to wait for: another barrier took it away.       *)
SuspendNone(k, op) ==
    /\ AsksBarrier(k, op)
    /\ LoopEnded
    /\ restart' = [restart EXCEPT ![k] = cycleTask # NoTask]
    /\ Proceeds(k, op, cycleTask # NoTask)
    /\ UNCHANGED <<requestFrame, awaited>>

(* Seeded fault: the cancelled task is not awaited.                        *)
FaultyCancelDone(k) == TRUE
(* The cancelled task has ended.                                           *)
CancelDone(k) == cycle[awaited[k]] = "ended"

(* Then _cycle_task is set to None.                                        *)
Suspended(k) ==
    /\ client[k] = "cancelling" /\ CancelDone(k)
    /\ awaited' = [awaited EXCEPT ![k] = NoTask]
    /\ UNCHANGED <<requestFrame, request, restart, payload, admin>>
    /\ Proceeds(k, request[k], restart[k])

(* The cancelled refresh has ended.                                        *)
Forgotten(k) ==
    /\ client[k] = "forgetting"
    /\ Locks(k, "reset", restart[k], FALSE)
    /\ UNCHANGED <<requestFrame, request, awaited, restart, payload, admin>>

RequestGranted(k) ==
    /\ client[k] = "lock" /\ Granted(ClientOf(k))
    /\ client' = [client EXCEPT ![k] = "idle"]
    /\ LeavesLine
    /\ UNCHANGED <<requestFrame, request, awaited, restart, payload, admin>>
    /\ RequestBody(k, request[k], restart[k], FALSE)

-----------------------------------------------------------------------------
(* The body: connections and observations.                                 *)

Handshake(s) ==
    /\ registered /\ socket[s] = "gone"
    /\ body < MaxBody /\ body' = body + 1
    /\ socket' = [socket EXCEPT ![s] = "accepting"]
    /\ UNCHANGED <<vitals, lockVars, cycleVars, loopVars, clientVars,
                   serverVars, mindVars, saved, ghostVars, admin>>

(* After websocket.accept(), which suspends: ensure_cycle_worker.          *)
Accepted(s) ==
    /\ socket[s] = "accepting"
    /\ socket' = [socket EXCEPT ![s] = "open"]
    /\ Ensure
    /\ UNCHANGED <<vitals, lockVars, clientVars, serverVars, mindVars, saved,
                   lateVars, restored, budget>>

(* The receive loop notices that the client is gone.                       *)
Disconnect(s) ==
    /\ socket[s] = "open"
    /\ socket' = [socket EXCEPT ![s] = "gone"]
    /\ UNCHANGED <<vitals, lockVars, cycleVars, loopVars, clientVars,
                   serverVars, mindVars, saved, ghostVars, budget>>

(* A reservoir after the wounds, the meals and cures and the effort of one *)
(* observation.                                                            *)
Sensed(n) == {n, Lowered(n), Capped(n + 1)}

(* handle_observation_dict under the lock.  It looks neither at the status *)
(* nor at the pause.                                                       *)
Senses(s) ==
    /\ \E f \in Sensed(food), i \in Sensed(integrity) :
          /\ mode = "immortal" => f = food /\ i = integrity
          /\ CheckDeath(f, i)
    /\ LateAfter(lateCycles, lateCharges)
    /\ observed' = TRUE /\ mustObserve' = FALSE
    /\ pool' = IF pool = "none" THEN "active" ELSE pool
    /\ socket' = [socket EXCEPT ![s] = "open"]

sensesFrame == <<mode, clocked,
                 holder, cycleVars, loopVars, clientVars, serverVars, mind,
                 saved, staleCycles, breached, admin>>

Observe(s) ==
    /\ socket[s] = "open"
    /\ body < MaxBody /\ body' = body + 1
    /\ \/ Uncontended /\ Senses(s) /\ UNCHANGED waiters
       \/ /\ Joins(SocketOf(s))
          /\ socket' = [socket EXCEPT ![s] = "lock"]
          /\ UNCHANGED <<status, reservoirs, lateCycles,
                         lateCharges, observed, mustObserve, pool, restored>>
    /\ UNCHANGED sensesFrame

ObserveGranted(s) ==
    /\ socket[s] = "lock" /\ Granted(SocketOf(s))
    /\ Senses(s)
    /\ LeavesLine
    /\ UNCHANGED <<sensesFrame, body>>

(* A session is prefetched and folded, which takes the lock for a moment.  *)
SessionReady ==
    /\ pool = "active" /\ Uncontended
    /\ pool' = "ready"
    /\ UNCHANGED <<vitals, lockVars, cycleVars, loopVars, socket,
                   clientVars, serverVars, mind, observed, mustObserve, saved,
                   ghostVars, budget>>

-----------------------------------------------------------------------------
(* delete_agent: the agent leaves the registry, and stop() cancels its     *)
(* loops one after the other.                                              *)

stopFrame == <<vitals, socket, clientVars, registered, paused, soak,
               mindVars, saved, ghostVars, body>>

(* Seeded fault: running is cleared by nobody.                             *)
FaultyStop ==
    /\ Asks
    /\ registered' = FALSE /\ stopping' = "sync"
    /\ UNCHANGED <<vitals, lockVars, cycleVars, loopVars, socket,
                   clientVars, running, paused, soak, stopped, mindVars, saved,
                   ghostVars, body>>

Stop ==
    /\ Asks
    /\ registered' = FALSE /\ running' = FALSE /\ stopping' = "sync"
    /\ UNCHANGED <<vitals, lockVars, cycleVars, loopVars, socket,
                   clientVars, paused, soak, stopped, mindVars, saved,
                   ghostVars, body>>

StopSync ==
    /\ stopping = "sync"
    /\ stopping' = "metabolic" /\ sync' = "ended"
    /\ holder' = IF holder = Consolidator THEN Free ELSE holder
    /\ waiters' = Without(waiters, Consolidator)
    /\ UNCHANGED <<stopFrame, running, stopped, cycleVars, metabolic,
                   admin>>

(* When the metabolic loop has ended, the cycle task of that moment is     *)
(* cancelled.                                                              *)
StopMetabolic ==
    /\ stopping = "metabolic"
    /\ metabolic' = "ended"
    /\ waiters' = Without(waiters, Metabolism)
    /\ IF LoopEnded
       THEN stopping' = "closed" /\ UNCHANGED <<cancelled, stopped>>
       ELSE /\ stopping' = "cycle" /\ stopped' = cycleTask
            /\ cancelled' = cancelled \cup {cycleTask}
    /\ UNCHANGED <<stopFrame, running, holder, cycleTask, cycle, session,
                   sync, admin>>

(* The stores are closed when the cycle task has ended.                    *)
StopCycle ==
    /\ stopping = "cycle" /\ cycle[stopped] = "ended"
    /\ stopping' = "closed"
    /\ UNCHANGED <<stopFrame, running, stopped, lockVars, cycleVars, loopVars,
                   admin>>

-----------------------------------------------------------------------------
RequestStep(k) ==
    \/ Give(k) \/ Suspended(k) \/ Forgotten(k) \/ RequestGranted(k)
    \/ \E op \in Operations : Suspend(k, op) \/ SuspendNone(k, op)

Next ==
    \/ MetabolicTick \/ MetabolicCharges \/ MetabolicEnds
    \/ SyncBegins \/ SyncGranted \/ SyncDone \/ SyncEnds
    \/ \E c \in CycleIds : CycleStep(c)
    \/ Pause \/ Resume \/ Revive \/ Immortalise \/ Mortalise
    \/ \E k \in Clients : RequestStep(k)
    \/ \E s \in Sockets : Handshake(s) \/ Accepted(s) \/ Disconnect(s)
                          \/ Observe(s) \/ ObserveGranted(s)
    \/ SessionReady
    \/ Stop \/ StopSync \/ StopMetabolic \/ StopCycle

(* The event loop runs what is ready, a thread ends, and a cancelled task  *)
(* ends.  Nothing is assumed of the clients or of the body.                *)
Fairness ==
    /\ WF_vars(MetabolicTick) /\ WF_vars(MetabolicCharges)
    /\ WF_vars(MetabolicEnds)
    /\ WF_vars(SyncGranted) /\ WF_vars(SyncDone) /\ WF_vars(SyncEnds)
    /\ \A c \in CycleIds : WF_vars(CycleStep(c))
    /\ \A k \in Clients : /\ WF_vars(Suspended(k)) /\ WF_vars(Forgotten(k))
                          /\ WF_vars(RequestGranted(k))
    /\ \A s \in Sockets : WF_vars(ObserveGranted(s))
    /\ WF_vars(StopSync) /\ WF_vars(StopMetabolic) /\ WF_vars(StopCycle)

Spec == Init /\ [][Next]_vars /\ Fairness

-----------------------------------------------------------------------------
TaskNames == {Metabolism, Consolidator}
             \cup {CycleOf(c) : c \in CycleIds}
             \cup {ClientOf(k) : k \in Clients}
             \cup {SocketOf(s) : s \in Sockets}

Files == [food : 0..Full, integrity : 0..Full, mode : {"metabolic", "immortal"}]

FlagsOK ==
    /\ paused \in BOOLEAN /\ running \in BOOLEAN /\ registered \in BOOLEAN
    /\ soak \in BOOLEAN /\ clocked \in BOOLEAN
    /\ observed \in BOOLEAN /\ mustObserve \in BOOLEAN
    /\ breached \in BOOLEAN /\ restored \in BOOLEAN
    /\ restart \in [Clients -> BOOLEAN]

LifeTypeOK ==
    /\ FlagsOK
    /\ status \in {"alive", "dead"} /\ mode \in {"metabolic", "immortal"}
    /\ food \in 0..Full /\ integrity \in 0..Full
    /\ holder \in TaskNames \cup {Free} /\ waiters \in Seq(TaskNames)
    /\ cycleTask \in CycleIds \cup {NoTask}
    /\ cycle \in [CycleIds -> {"wait", "lock", "observing", "ended"}]
    /\ cancelled \subseteq CycleIds
    /\ session \in [CycleIds -> Nat]
    /\ metabolic \in {"wait", "lock", "ended"}
    /\ sync \in {"burst", "lock", "syncing", "ended"}
    /\ socket \in [Sockets -> {"gone", "accepting", "open", "lock"}]
    /\ client \in [Clients -> {"idle", "cancelling", "forgetting", "lock"}]
    /\ request \in [Clients -> Operations \cup {"give"}]
    /\ awaited \in [Clients -> CycleIds \cup {NoTask}]
    /\ payload \in [Clients -> Seq(Files)] /\ saved \in Seq(Files)
    /\ stopping \in {"no", "sync", "metabolic", "cycle", "closed"}
    /\ stopped \in CycleIds \cup {NoTask}
    /\ mind \in Nat \ {NoMind}
    /\ pool \in {"none", "active", "ready"}
    /\ lateCycles \in 0..2 /\ lateCharges \in 0..2 /\ staleCycles \in 0..1
    /\ admin \in 0..MaxAdmin /\ body \in 0..MaxBody

(* The lock has one line: who holds it does not wait for it, nobody waits  *)
(* twice, and a task is in line exactly when its program says so; a        *)
(* cancelled waiter does not stay behind and block the agent for ever.     *)
LockLine ==
    LET line == {waiters[i] : i \in 1..Len(waiters)}
    IN  /\ Cardinality(line) = Len(waiters)
        /\ holder \notin line
        /\ line = {CycleOf(c) : c \in {x \in CycleIds : cycle[x] = "lock"}}
                  \cup {ClientOf(k) : k \in {x \in Clients : client[x] = "lock"}}
                  \cup {SocketOf(s) : s \in {x \in Sockets : socket[x] = "lock"}}
                  \cup (IF metabolic = "lock" THEN {Metabolism} ELSE {})
                  \cup (IF sync = "lock" THEN {Consolidator} ELSE {})

(* A dead or paused mind is frozen, but for what was already waiting for   *)
(* the lock when it froze: one cognitive cycle and one metabolic charge at *)
(* the most, however often it is paused, killed, reset or reconnected.     *)
FreezeIsTight == (lateCycles <= 1 \/ breached) /\ lateCharges <= 1

(* No mortal agent lives on with an empty reservoir: every section that    *)
(* can empty one notices.  Only the file of a dead or dying agent can make *)
(* one, until the next charge.                                             *)
MortalityHonest ==
    status = "alive" /\ mode = "metabolic" => Viability > 0 \/ restored

Loops == {c \in CycleIds : cycle[c] # "ended" /\ c \notin cancelled}

(* Unless a connection, a resume or a revive falls into the middle of a    *)
(* reset, checkpoint or restore: no cycle task is left between its suspend *)
(* and its resume, so that no session of a former mind is deliberated by   *)
(* the next; there is one cycle loop at the most; and none that could      *)
(* still deliberate when the stores have been closed.                      *)
BarrierHolds ==
    ~breached =>
        /\ staleCycles = 0
        /\ Cardinality(Loops) <= 1
        /\ \A k \in Clients :
              client[k] \in {"forgetting", "lock"} /\ InBarrier(k) =>
                 \A c \in CycleIds : cycle[c] = "ended"
        /\ stopping = "closed" =>
              \A c \in CycleIds : cycle[c] = "ended"

(* Starvation kills: no agent stays alive, mortal, running and awake for   *)
(* ever without being fed, whatever the line for the lock.                 *)
Mortal == running /\ ~paused /\ status = "alive" /\ mode = "metabolic"
StarvationKills == []<>~Mortal

(* A deleted agent comes to rest: stop() ends, and so does every loop,     *)
(* those started after it by a late connection included.                   *)
AtRest ==
    /\ stopping = "closed"
    /\ metabolic = "ended" /\ sync = "ended"
    /\ \A c \in CycleIds : cycle[c] = "ended"
StopEnds == ~registered ~> []AtRest
=============================================================================
