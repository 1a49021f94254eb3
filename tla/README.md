# Specification of project-deca

TLA+ models of the concurrent core of *decadic*, the agent server in
`src/decadic`, with TLC configurations and TLAPS proofs.  `PROJECT.json` lists
components, runs, seeded faults, the lines each definition models, hazards,
findings and theorems; this file explains them.

1. [The system](#1-the-system)
2. [Modules](#2-modules)
3. [Runs](#3-runs)
4. [Disagreements with the documentation](#4-disagreements-with-the-documentation)
5. [Proofs](#5-proofs)
6. [What is not modelled](#6-what-is-not-modelled)
7. [Plan](#7-plan)

## 1. The system

decadic is one FastAPI process.  A simulator sends observations over a
websocket, each agent (`AgentRuntime`) thinks in a loop and sends actions back.
All agents run in one asyncio loop; threads are used for `to_thread` work
(predecoding, slot evidence, consolidation, saving) and for a few daemons (the
write-behind stores, the Kuzu flusher, the JSONL writer, the watchdog).

```
 websocket handlers --observation--> session manager: a session per frame_seq
        |  \_ drop oldest: tombstone           ^  ^  ^
        v                                      |  |  |
 _perception_queue (bounded)                   |  |  | mark_*
        |                                      |  |  |
        v                                      |  |  |
 perception workers (1..parallel_sessions) ----+  |  |
        |  _perception_ready[frame_seq]           |  |
        v                                         |  |
 in-order drain, under the commit lock -----------+  |
        fold into PerceptualState under the agent's lock
                                                     |
 cycle loop: pop_commit_candidate -> neural cycle -> mark_committed
        |                        \-> rest: drain_consolidation
        v
 action, telemetry, control queues; replay buffer; episodic store; LTM graph
```

| component | state | operations | what makes it hard | what makes it correct |
|---|---|---|---|---|
| session manager `cycle/stage_pipeline.py` | sessions by id and by frame, T1 `ready` with an index of urgent sessions, T2 `_overflow`, T3 `_consolidation_q`, counters | enqueue, mark_prefetching/prefetched/folding/folded/failed, pop_commit_candidate, mark_committed, drain_consolidation, set_capacity, clear | one pop cascades through three tiers in priority order; five containers and an index kept by hand; sessions that outlive a clear | every session in one place; caps; the weakest forgotten; nothing lost from the books |
| perception pipeline `agents/runtime.py` 862-1147 | bounded queue, `_perception_ready`, `_perception_next_commit`, worker tasks, commit lock | enqueue with two overload policies, prefetch, slot evidence, in-order drain, configure, clear | every await is a point where a reset, a cancellation or another task may come in; a missing frame blocks all later ones | no frame is missing; no wakeup lost; every observation settles |
| agent lifecycle `agents/runtime.py` | status, died_at_cycle, viability, paused, out and control queues, cycle/metabolic/autosave tasks | cycle, metabolic tick, observation damage, death, revive, reset, stop, checkpoint, restore, tombstones | state read before the agent's lock and used after it | a death is noticed where the body runs out; a frozen mind neither acts nor burns; a barrier sees no cycle; one fair line for the lock |
| episodic write-behind `memory/write_behind.py` over `episodic_store.py` or `lancedb_store.py` | RAM cache, bounded queue, worker thread, rows | append, flush, clear, set_async, backup, restore | an inline write overtakes the queue; a batch that fails | rows are the appended records, each once |
| LTM write-behind `memory/ltm_write_behind.py` | bounded queue of jobs, worker thread | enqueue job, flush, clear, close | apply inline when full, without reordering | jobs applied in order |
| semantic graph and Kuzu flusher `memory/semantic_graph.py`, `kuzu_graph.py` | nodes and edges in memory, pending and deferred rows, batch queue, flusher thread | upsert, flush, merge, shed, drain, quiesce, clear, restore | three locks, timeouts on every wait, a thread that may end | the store converges to memory; nothing lands after a clear |
| JSONL writer `io/jsonl_writer.py` | queue, thread | append, flush, close | restart after close | no line lost |
| consolidation `consolidation/*` | replay buffer, consolidation task, rest controller, episode accumulator | push, sample, burst, soft sync, note_cycle, advance | bursts run in a thread next to the cycle | rest alternates with wake, T3 is drained |
| cycle `cycle/*` | attention and integration state | `run_neural_cycle` | one synchronous call under the lock | numeric |
| state `state/*` | viability, goals, working memory, maps | per cycle | sequential | goal lifecycle, slot eviction |
| API `api/app.py` | registry, sockets | routes, receive loop, sender | checkpoint and restore while sockets are open | control messages delivered |
| environment, dojo, evaluation `api/environment.py`, `training/*`, `evaluation/*` | subprocess, curriculum phase | start, stop, pause, resume | pause outside the lock | no control of a body that is gone |
| Vast controller `api/vast/controller.py` | phase, instance id, tunnel, task | deploy, stop, destroy, shutdown | a provisioning task against the routes | no rented instance forgotten |
| audio, perception organ, embodiment, networks, logging | | | numeric or input and output | |

The hazards, each at its line, with the properties aimed at it, are in
`PROJECT.json`.

Two more parts hang on the agent: its outbound lanes, which a sender task per
websocket empties, and its memory, where the cycle leaves episodes (a store
behind a queue or a buffer) and beliefs (a graph in memory, written to Kuzu by a
thread of its own).  The Vast controller is separate: it rents a machine and
proxies a remote agent.

The diagram is split where the parts touch only through calls whose effect is
small: `PerceptionPipeline` sees of the cycle the pop and the commit,
`AgentLifecycle` sees of perception one pool that is empty, prefetching or
ready, and `Outbound` sees of both that they put messages.

## 2. Modules

| module | models |
|---|---|
| `SessionTiers` | every method of `SerialPrefetchSupervisor`, one action each, and the order in which a pop moves sessions through the tiers |
| `PrefetchSupervisor` | extends `SessionTiers` with its callers as far as the supervisor sees them: the contract |
| `PerceptionPipeline` | extends `SessionTiers` with the queue, the tasks, the locks and the cycle; implements `PrefetchSupervisor` |
| `AgentLifecycle` | one agent: reservoirs, death and revival, its tasks, the requests of the API, over the agent's lock |
| `Outbound` | telemetry and control lane, the senders of the sockets |
| `EpisodeLog` | what an episodic store promises, whatever its backend |
| `EpisodeRows` | rows, ids and the retention both backends share |
| `WriteBehind`, `LanceStore` | extend `EpisodeRows`: SQLite behind a queue and a worker; LanceDB with its write buffer and RAM mirror |
| `EpisodicMemory` | extends both, with the choice of a backend; implements `EpisodeLog` |
| `KuzuGraph` | the long-term graph as data: staging, the write throttle, merging, shedding, what a statement does to the database |
| `KuzuFlusher` | extends `KuzuGraph` with the job queue of the cycles, the flusher threads and the calls that drain or quiesce them |
| `VastController` | the provisioning task, the routes, shutdown and restart, the machines Vast bills |
| `MC...` | values of the constants for TLC |
| `PrefetchSupervisorProofs`, `PerceptionPipelineProofs`, `AgentLifecycleProofs`, `OutboundProofs`, `EpisodicMemoryProofs`, `KuzuGraphProofs`, `KuzuFlusherProofs`, `VastControllerProofs` | theorems, see section 5 |

In all of them a step is what a task does between two awaits that may suspend:
an asyncio task is interrupted nowhere else.  A lock that is free is taken
without suspending, so a critical section that follows at once is part of the
step.  Ghost variables, marked in each module, are read by no guard of the code's
behaviour; `Max...` constants and the variables that count against them bound
the environment.

### SessionTiers

| variable | code |
|---|---|
| `config` | DECADIC_PIPELINE_PRIORITY_SELECT, _OVERFLOW, _O1_SELECT and the coalesce policy; constant in a run, any value of `Configs` |
| `capacity` | `capacity` |
| `sessions` | the keys of `sessions` and `by_seq`, which are always changed together |
| `status`, `tag`, `folded` | `status`, (`salience`, `urgent`), `folded_s` of the session object of each frame |
| `stamp` | place in the insertion order of the dictionary the session is in |
| `ready`, `urgentLane`, `overflow`, `consolidation` | `ready`, `_urgent`, `_overflow`, `_consolidation_q` |
| `nextSeq`, `count` | `next_frame_seq`, the counters |

A method is one action because nothing in the class awaits but its own
`asyncio.Lock`, and no method calls another that takes it.  Time: the priority
`salience * exp(-age / tau)` orders two sessions the same way at every instant,
so a session has a fixed key, salience plus fold time (its logarithm up to a
common factor); salience 0 gives priority 0 at any age, as in the code.  Ties
are broken as `min`, `max` and the stable `sort` break them: by insertion
order.  The status "folded" of SESSION_STATUSES is never assigned in the code
and has no place in the model.

### PerceptionPipeline

`pc` says where a task is; in `fold` it holds the commit lock and waits for the
agent's lock.  Locks: the commit lock is held by the one task in `loop` or
`fold`; the agent's lock is not a variable here, because what is done under it
is one step.

A cleared pipeline numbers its frames from 1 again, so an item carries the
generation (`gen`, the number of clears) it was observed in; the code has no
such field.  `lost`, `abandoned`, `crashes` and `gen` are ghosts.

Three abstractions make the model a superset of the code: a drain may be
interrupted between two frames (pc `loop`), a handler between enqueuing and
putting (pc `admit`), and the order in which tasks get the commit lock is
free, where asyncio's is first come, first served.  The drain's pass over
tombstones is one step, as it awaits nothing.  A worker that is cancelled while
it waits for a thread does not wait for the thread; neither does the model.

The refinement mapping of `KeepsSupervisorContract`:

| PrefetchSupervisor | PerceptionPipeline |
|---|---|
| `inFold` | the frame before `nextCommit` while a task is in `fold` |
| `clears` | `gen` |
| `inHand`, `lost`, the variables of `SessionTiers` | the same |

### AgentLifecycle

| variable | code |
|---|---|
| `status`, `paused`, `running`, `mode`, `clocked` | `status`, `paused`, `running`, `config.viability_mode`, whether `_last_metab_monotonic` is set |
| `food`, `integrity` | `Homeostasis`: the lesser of hydration and energy, and the body; a unit is what one tick can drain |
| `holder`, `waiters` | the agent's `asyncio.Lock`, whose line is first come, first served; `acquire()` queues behind whoever waits, even if the lock is free for the moment |
| `cycleTask`, `cycle`, `cancelled`, `session` | `_cycle_task`, where each cycle task is (there may be two), the tasks `cancel()` was called on, the session each has popped |
| `metabolic`, `sync`, `socket` | where the metabolic loop, the consolidator and the handler of each websocket are |
| `client`, `request`, `awaited`, `restart`, `payload` | a request of the API: what it asks for, the task `suspend_cycle_worker` waits for, what that returned, the checkpoint read |
| `stopping`, `stopped` | how far `stop()` has come |
| `mind`, `pool`, `observed`, `mustObserve`, `saved` | number of the mind, state of its sessions, `_last_observation`, `_wait_for_observation_after_reset`, the checkpoint file |

The actions are the loops (`CycleSkips`, `CycleDeliberates`, `CycleObserved`,
`MetabolicTick`, `SyncBegins`, ...), each with its wait for the lock
(`...Granted`) and its cancellation; the requests pause, resume, revive,
immortalise, mortalise, give, and the three barriers reset, checkpoint and
restore (`Suspend`, `Suspended`, `RequestGranted`); a connection and its
observations; and `stop()` in its three awaits.  What a cycle thinks is a
choice, of which only its cost is kept.  So is what an observation does to the
reservoirs (wounds, meals, cures and the effort it reports, `Sensed`).

A barrier goes through its awaits one by one.  It suspends the cycle; if no task
is left to wait for it goes on at once (`SuspendNone`), for a restore as for the
others.  A reset may then find a refresh of the memory context in flight, which
it cancels and waits for (`Forgets`, the place `forgetting`, `Forgotten`);
whether there is one is a choice.  Then it asks for the lock.

Ghosts: `lateCycles` and `lateCharges` count the steps on a frozen mind since
it was last awake; `staleCycles` says that a session of a former mind was
deliberated; `breached`, that a cycle loop may have been started between the
suspend and the resume of a barrier; `restored`, that the reservoirs are those
of a checkpoint.

### Outbound

A body command is its number in the order of acceptance; telemetry is the output
of a cycle or the message of a death.  A sender polls the control lane, then
starts a `get()` on each lane and waits for the first.  The `get()` tasks are
tasks of their own: a sender that is cancelled while it waits leaves them in
line (`orphans`), where each swallows the next message of its lane.  `lost`
names what is lost with its cause.

### The episodic memory

`EpisodeLog` has the episodes that wait, those that are stored and the last
snapshot; nothing leaves but by a write that fails or by retention above a
minimum.  `EpisodicMemory` implements it:

| EpisodeLog | EpisodicMemory |
|---|---|
| `waiting` | episodes in the queue, in the worker's batch, in the write buffer |
| `stored` | `rows` |
| `snapshot` | `backup` |
| `MinKept` | `RecentCap` |

An episode is its number.  Row ids are kept because retention and recall sort
by them: an inline write at a full queue overtakes the queued ones, and a table
that has just been made numbers its rows from 0 again (`disordered`).  A write
that raises in SQLite leaves what it had inserted in the open transaction,
which the next commit keeps; one that raises in LanceDB loses the buffer.

### KuzuGraph and KuzuFlusher

`g` is what memory holds: the payload of each node and edge, the pending window,
what the throttle has parked and what was staged last.  `known` are the keys
said to have a row, by which a flush chooses between CREATE and SET.  What a loop
of the code does to a list of statements (`_merge_batches`, `_maybe_shed`, the
execution of a batch) is a fold of what it does to one.  The graph is finite, as
the names an agent ever gives are.  Batches go
through `_flush_queue` to a flusher thread, which merges and under pressure
sheds them, connects, executes in one transaction, and replays one by one what
failed.  `clear`, `backup_to`, `restore_from` and `close` hold the graph's lock
throughout, so that only flushers act between their steps (`at`).  A join that
times out leaves a thread behind, next to its successor: hence two `Flushers`.
`late`, `orphaned` and `tainted` name what timed out, died or failed.

### VastController

`at` is the call the provisioning task awaits, `route` the route that holds the
controller's lock.  The n-th deployment rents at most machine n; `cloud` is what
Vast has of it, and a call that times out may have had its effect.  `forgotten`
names each machine that is billed and no longer known, with the cause;
`overtaken` has the deployments that a `stop()` met under way.  A step
that awaits the vastai tool or ssh through `asyncio.wait_for` may swallow a
cancellation (`WaitsFor`), the shipping of a checkpoint to a restored agent in
the step `agent` included.

## 3. Runs

| run | shows | distinct states |
|---|---|---|
| `PrefetchSupervisor` | `TypeOK`, `Placement`, `UrgentLaneIndexesReady`, `Accounting`, `HeadIsArbitersChoice`, `CapsEnforced`, `ForgetsWeakest`, `UrgentFirst` | 0.9 million |
| `PerceptionPipeline` | `PipeTypeOK`, `OnlyAbandonedMissing`, `NoLostWakeup`, `InterruptedFoldsStick` | 2.7 million, symmetric workers |
| `PerceptionContract` | `KeepsSupervisorContract`, `EveryFrameSettles` | 58 thousand |
| `AgentLifecycle` | `LifeTypeOK`, `LockLine`, `FreezeIsTight`, `MortalityHonest`, `BarrierHolds` | 6.2 million |
| `AgentLiveness` | `StarvationKills`, `StopEnds` | 0.4 million |
| `Outbound` | `OutTypeOK`, `Accounted`, `ControlInOrder`, `ControlLeavesLane` | 0.2 million |
| `EpisodicMemory` | `EpTypeOK`, `RecallHonest`, `ImplementsLog`, `NewestKept`, `CallsReturn` | 0.3 million |
| `KuzuFlusher` | `KuzuTypeOK`, `MemoryReachesDisk`, `BarrierCounts`, `BackupIsExact`, `JobsInOrder` | 5.8 million |
| `VastController` | `VastTypeOK`, `BilledIsKnown`, `ActiveHonest`, `IdleIsQuiet`, `Settles` | 0.4 million |
| `StaleFold`, `CancelledWorker`, `KuzuClose` | see section 4 | violations |

Each property is stated, with what it is about, at the end of its module.  What
it would catch is seen from its seeded fault: the `Faulty...` operators, each a
plausible slip in the definition they stand next to.

### Bounds

* `PrefetchSupervisor`: four frames, three tags (nothing; salience 3, not
  urgent; salience 1, urgent), capacities 0 to 2, caps of T2 and T3 one, one
  interruption, one clear, four settings of the flags (default; priorities
  without overflow; parity; oldest first without the O(1) index).  Tiers of one
  or two places are the smallest in which eviction, spill, promotion and
  forgetting happen in one pop; four frames fill all of them and overflow the
  last, and the three tags are the least in which the salient and the urgent
  session differ and ties occur.
* `PerceptionPipeline`: two workers, one socket, a queue of one, both overload
  policies, three frames, one clear, one reconfiguration, one fold that raises.
  A queue of one stands for the code's 32 to 128: what matters is that it is
  full, and with one place it often is.  Two workers are the least that prepare
  out of order; one clear separates two generations; one reconfiguration both
  adds and cancels workers.
* `PerceptionContract`: the same with two tags and both settings of the flags,
  two faults (the second lets a worker end: its second drain has to raise as
  well), no clear and no reconfiguration, because after a clear an old frame may
  be folded under a new number (`StaleFold`) and a cancelled worker blocks the
  drain (`CancelledWorker`); no symmetry, as there is a liveness property.
* `AgentLifecycle`: reservoirs of two units, full after a revive, three cycle tasks at a time, two
  concurrent requests, one socket, two requests in all and one connection or
  observation.  Two requests are the least of which one can come into the middle
  of the other's barrier, and three cycle tasks the least that let a cancelled
  one, its successor and a second loop exist at once.  A restore that finds no
  cycle task takes three requests (a file must be saved and the task be gone): it
  is outside these bounds, and inside the theorems.  `AgentLiveness` has one
  request and two events of the body, with fairness.  Both start mortal;
  `Immortalise` and `Mortalise` are among the requests.
* `Outbound`: two sockets, a telemetry lane of one, a control lane of two, three
  commands, two connections, one reset.  Both lanes overflow, both senders
  compete for a lane, one may be left behind with both of its `get()` tasks.
* `EpisodicMemory`: both backends, four episodes of two saliences, caps of one,
  pruning every second write, one write that fails, one clear or restore, a queue,
  a batch and a buffer of two, a mirror of three.  The queue overflows with a
  batch in the worker's hands, pruning happens twice, the mirror gets too large.
* `KuzuFlusher`: a node and an edge on it, two payloads, three jobs behind a
  queue of one, batches of at most two operations, a queue of two batches,
  merges of two, two threads, two calls, two faults.  Two payloads tell a stale
  write from a fresh one; a node and its edge are enough for the order of
  CREATEs and for the DETACH of a delete; the queue reaches its cap, where
  batches are merged into its last and shed.
* `VastController`: three deployments, two stops, one restart: a machine may be
  forgotten by a deployment and its successor be provisioned while a stop of
  either is under way.

CHECK_DEADLOCK is off where the bounds let the system come to rest: with every
observation, request or episode used up it waits for input.  `Outbound` and
`VastController` have no such state and check it: a cycle may always put its
output, a deployment may always be destroyed.

### Fairness

Weak fairness of a step says that the event loop runs a task that is ready, that
`to_thread` calls and awaited tools return, and that threads run.

* `PerceptionPipeline`: every step of a task, the pop and the commit.  Arrivals,
  faults, clears and reconfigurations have none.  The drain's `MayDrain` is not
  continuously enabled while other tasks take the lock; weak fairness is enough
  because the number of frames is finite.  `EveryFrameSettles` leaves out what a
  task that ended may leave behind (`crashes`), and counts a session in T3 as
  settled, because when rest comes is not modelled.
* `AgentLifecycle`: the metabolic loop, the consolidator's thread and its end,
  each cycle task, the handlers that wait for the lock, the refresh a reset has
  cancelled, the steps of `stop()`.
  Nothing is assumed of clients and of the body, nor that a burst ends.
* `Outbound`: each sender.  `ControlLeavesLane` supposes that from some time on
  a sender is there.
* `EpisodicMemory`: the worker, and the call that waits for it.
* `VastController`: the provisioning task and the routes, since every call of
  theirs has a timeout.
* `PrefetchSupervisor` and `KuzuFlusher` have safety properties only.

## 4. Disagreements with the documentation

Three runs end in a violation of what a comment or docstring says.

* `CancelledWorker`: `configure(parallel_sessions=k)` cancels workers that are
  preparing a frame; no observation and no tombstone is left for it, and the
  in-order drain waits forever.  The comment in
  `_enqueue_perception_observation` explains why this must not happen.
  `OnlyAbandonedMissing` shows that this and an interrupted websocket handler
  are the only ways.
* `StaleFold`: reset, checkpoint, restore and a mode switch clear the pipeline
  and stop no worker; an observation in a worker's hands is stored under its
  old number, which the new life uses again, and is folded into the fresh mind.
* `KuzuClose`: `close()` drains only if something is pending or a flusher
  exists.  After a backup there is none, and what the throttle has parked is on
  no disk, although no write failed: "drain/close/backup promote all deferred
  first, so barriers stay exact" (`kuzu_graph.py:570`).

Met while modelling, and left to the exceptions the properties name:

* With the overflow tier on and priorities off, promoted sessions sit behind
  newer ones in T1, and the head is not the oldest: `HeadIsArbitersChoice` is
  about the parity configuration.
* An urgent session evicted to T2 (its salience may be as low as 0.05) has no
  lane there, and ordinary sessions go first: `UrgentFirst` is about T1.
* Only the queue is bounded.  While one worker is slow the others move
  everything that arrives to `_perception_ready` (`config.py:111`).
* A connection, a resume or a revival between the suspend and the resume of a
  barrier starts the cycle again: `breached` in `BarrierHolds`.
* `restore` brings back the reservoirs of a file and leaves the status: a live
  agent may be restored into an empty reservoir, until its next charge
  (`restored` in `MortalityHonest`).
* The death message is telemetry, and is dropped when the lane is full or when a
  command arrives at the moment a sender has taken it.
* `destroy()` sets the phase before it asks for `proxy_base()`, which needs the
  phase `ready`: the checkpoint of the remote agent is never made
  (`controller.py:195`).
* A machine is forgotten while it is billed in five ways (`Causes`), a failed
  create among them, although `cli.py` says that "a failed create can never
  orphan a billable instance"; `BilledIsKnown` shows there is no sixth.
* `stop()` while the task opens its tunnel: the tunnel opens afterwards, and the
  next deployment's takes its place, with the ssh process left running.
  `ActiveHonest` and `IdleIsQuiet` show that no forward is left but those of the
  deployments a `stop()` so met (`overtaken`), so that one bad stop excuses
  nothing of the deployments after it.
* A worker whose drain raises marks its own frame failed, not the one that
  raised (`runtime.py:1095`), which stays in folding until the next clear:
  `InterruptedFoldsStick` says that this is all that sticks, and counts it.

## 5. Proofs

Each theorem holds for every value of the constants that satisfies the
`...Assumption`s of its module: any number of frames, workers, sockets, commands
or deployments, any size of the queues.  In each module the invariant is
inductive, one lemma per action shows that the action preserves it, `InitInv`
and `NextInv` put them together, and the theorems follow by PTL.

`PrefetchSupervisorProofs`

* `SupervisorInvariant`: `SupInv == TypeOK /\ Placement /\
  UrgentLaneIndexesReady`.  `Placement` is not inductive by itself: that what a
  pop evicts was `ready` needs the correspondence of status and tier in both
  directions, that a selected session leaves the lane needs the lane to be an
  index of T1, and both need the types.  `PopInv` rests on lemmas that say where
  what a pop moves comes from (`EvictedFromReady`, `SpilledFromPool`,
  `ForgottenFromConsolidation`, `PromotedFromStaged`) and on `PopEffect`, which
  says what it does to one session.
* `TypeCorrect`, `SessionsArePlaced`, `UrgentLaneIsAnIndex`, the invariants of
  the run; `NoSessionInTwoTiers`, a corollary a reader will look for.
* `UrgentGoesFirst`: an action property; a lane that is an index of T1 is empty
  exactly when there is nothing urgent in T1.
* `ReadyStaysInOrder`: without the overflow tier T1 lists its sessions in the
  order of `frame_seq`.  Inductive with `SupInv`: what is folded is newer than
  all that is in T1, because the only frame in a fold is the newest one.
* `HeadIsTheMinimum`: hence the O(1) selection of the parity configuration is
  the scan of the arbiter, the argument the code's comment gives in words.
* `BooksBalance`: `Accounting` as an equation between the counters and the
  cardinality of `sessions`.  `Leaving` and `Joining` do the sums; `PopHasBooks`
  says that what a pop forgets are sessions it removes.
* `CapsAreEnforced` and `ForgettingIsOrdered`, on `TiersStayOrdered`: no two
  sessions of a tier have one insertion time, all are behind the clock, and T2
  and T3 are within their caps.  Every selection of a pop (what T1 evicts, what
  T2 spills, what T3 forgets, what T2 hands back) is brought to one form,
  `FirstOf`: the members that fewer than n precede, by one key and then by the
  insertion time or its opposite.  Distinct times make it exactly n members
  (`FirstAtLeast`, by a least one that is left; `FirstAtMost`), and nothing it
  leaves precedes what it takes (`FirstIsLowest`); that a spill or a promotion
  stamps what it moves anew, in the order of the keys, keeps the times distinct
  (`RestampKeeps`).  Distinct times are needed: with two equal ones a cut at the
  cap would take one session too few or too many.

`PerceptionPipelineProofs`

* `PipelineInvariant`: `PipeInv == PipeTypeOK /\ CountersOK /\ HandsOK /\
  OnlyAbandonedMissing /\ NoLostWakeup`.  The two properties are not inductive
  by themselves: a task that stores, drops or loses an item must be known
  to hold one of the right kind (`HandsOK`), and a frame between `nextCommit`
  and `nextSeq` must be one the pipeline can index (`CountersOK`, which also
  says that nothing is abandoned before a task has ended).
  `AwaitedSuffices` and `CarriedSuffices` reduce `OnlyAbandonedMissing'` to
  "whatever was awaited is awaited or abandoned"; `WakeupSuffices` does the same
  for `NoLostWakeup'`.
* `PipelineTypeCorrect`, `DrainMissesOnlyAbandoned`, `WakeupsAreKept`, the
  invariants of the run.
* `InterruptionsAreCounted`: `InterruptedFoldsStick`, from `StuckInv`.  Two parts
  hold at any time: who folds is alone, and a session in folding is the one in
  the fold or lost (`FoldsOK`).  That a lost one is not moved on needs, until
  the first clear, all of `ContractInv`: every call the pipeline makes then finds
  a frame in a status of its own, and a lost frame is in folding (`LostOK`).
  After a clear old items are marked under new numbers, and only the first part
  is left.
* `DrainIsNeverStuck`: put together.  Until a task is ended or the number of
  workers changed, the frame the drain waits for is in the queue, in the hands
  of a task, or a task is on its way to fold it.
* `PipelineImplementsSupervisor`: `SafeSpec => KeepsSupervisorContract` under
  MaxClears = 0 and MaxConfigures = 0; with either the refinement does not hold
  (section 4).  `ContractInv == PipeInv /\ TiersOK /\ PlacesOK`: the tiers are
  typed, and a frame of each status is in the one place of the pipeline its
  status allows, so that a call of the session manager finds its session in the
  state `PrefetchSupervisor` expects.  The `Same...` lemmas say that the
  operators of `SessionTiers` and their instances agree, the `...Contract`
  lemmas preserve the invariant, and the `...Maps` lemmas map each action to a
  step of `PrefetchSupervisor` or to a stutter.

`AgentLifecycleProofs`

* `LifecycleInvariant`: `LifeInv` is `LifeTypeOK`, `RequestsOK` (what a request
  and a `stop()` hold between two awaits), `QueueOK` and `HolderOK` (who is in
  line and who holds the lock, name by name), `ChargesOK` and, until a barrier
  was breached, `CyclesOK` and `SessionsOK`.  None of the properties is
  inductive by itself.  That a reset finds the cycle ended rests on two facts of
  the steps before: only `cycleTask` can be alive, and the task a client waits
  for is the one that is alive and has been cancelled.  That no session of a
  former mind is deliberated rests on the same, with the mind of a session that
  waits in line.  A second late cycle is excluded because whoever joins the line
  does so awake, when the count is zero.
* `LifeTypeCorrect`, `LineIsExact`, `FreezeIsBounded`, `BarriersHold`: the
  invariants of the run.  For the line, `JoiningLine`, `LeavingLine` and
  `CancellingInLine` say what joining, being granted and being cancelled do to a
  sequence without repetition; each action then shows whose place it changes
  (`Adds`, `Drops`, `KeepsPlaces`).
* `DeathIsHonest`: `MortalityHonest`, if a revived agent has more than what one
  charge drains (`ReviveLevel > 1`).  The code revives at 100 of 100 unless a
  client gives a `restore_to`, which may be anything above zero.  The premise is
  needed: with `ReviveLevel = 1` TLC finds, in 18 states, a wound, a restore of
  the file of an immortal and a charge in line in this order.  The wound kills;
  the agent, restored and revived at no more than the charge, is emptied by it
  and does not die, because immortals do not; a change to `metabolic` then
  leaves it alive on nothing until its next charge.

`OutboundProofs`

* `OutboundInvariant`: `OutInv == OutTypeOK /\ HandsOK /\ LaneOK /\ PassedOK`.
  The order of what a socket delivered is inductive only together with the
  order of the lane, and with what is on its way: whatever has left the lane is
  behind what is in it, and what was delivered behind what is held.
* `OutTypeCorrect`, `CommandsInOrder`.
* `CommandsFirst`: a sender chooses no telemetry while a body command is in its
  hands or in the lane (`ControlFirst`, which no run repeats).
* `MessagesAreAccounted`: `Accounted`, from `AccInv`: for each command and for
  the message of the death four sets (its positions in the lane, the hands that
  hold it, its receipts, its losses), of which exactly one is not empty and has
  one element, or none if it was never accepted.  In this form nothing is summed.

`EpisodicMemoryProofs`

* `EpisodicInvariant`: `EpInv == EpTypeOK /\ Due /\ OneBackend /\ Lived /\ Apart
  /\ InOrder /\ Recalled`.  An episode that waits to be written is in one place
  and in no row, be it of the store or of a backup; queue and batch follow the
  order of append; as long as row ids do too (`~disordered`), every row's id is
  below the next one, for a restore as well; the recall caches have rows and
  buffer, up to failures.
* `EpisodicTypes`, `RecallIsHonest`: the invariants of the run.
* `NewestAreKept`: an action property that counts.  A pruning spares the ids that
  fewer than `RecentCap` exceed; as long as ids follow the appends (`InOrder`), an
  episode it deletes has `RecentCap` newer ones that stay
  (`VictimsSpareTheNewest`, `EnoughSelected`).
* `StoreImplementsLog`: `ImplementsLog`, the refinement of `EpisodeLog` by either
  backend, one lemma per action of each.

`KuzuGraphProofs`

What the operators of `KuzuGraph` compute, for any finite graph and any batches.

* Folds.  `Executed`, `Merged`, `Kept`, `Promoted` and `FlattenSeq` are folds
  over sequences, which the library defines by recursion on sets of indices.
  `InductionOnNat` is taken from the well-foundedness of the naturals, without
  an operator parameter; from it come the existence and uniqueness of such a
  function, so that each fold is the base on the empty sequence and one step more
  on a longer one (`ExecutedSteps`, `MergedSteps`, `KeptSteps`), and an induction
  over sequences in which what is proved is a set of them (`InductionOnSeq`).
* `After(st, s)` adds to the rows what a batch demands: the edges that a deleted
  node took along and that are still to be deleted (`doomed`), and the keys an
  upsert of which did not find what it needs (`bad`).  Without `doomed` the
  comparison is not inductive: merging two upserts of an edge across the delete
  of a node of it, which takes the row along, would lose the second.  `Better(T, L, b, a)` compares two
  such outcomes key by key, except near bad keys and near T.  Statements preserve
  it (`BetterFollows`), and it chains (`BetterChains`).
* `MergingIsSafe`, `SheddingIsSafe`, `ReplayingIsSafe`: what `_merge_batches`,
  `_maybe_shed` and the replay of a failed batch do to a batch changes the row
  of no key unless an upsert of the key, or of an end of the edge, does not
  find what it needs; for shedding, unless all statements of one of them were
  shed.  The premise is about the batch as it was resolved: that it holds is
  part of `DataInv`.
* The window: `Window` (one write a key, nodes before the edges that need them,
  with a node its edges) and `Matches` (what is due of each key is what memory
  holds) are kept by staging, parking, pruning and promoting, and a resolved
  window lands as it is due (`Landed`).

`KuzuFlusherProofs`

* `KuzuInvariant`: `KuzuInv == JobsOK /\ FlowOK /\ ScalarsOK /\ Barrier /\
  Quiet`.  The queue of jobs is exactly the numbers from the last one applied to
  the last one issued, which makes `JobsAreInOrder` inductive.  `Barrier` counts
  batches with the pairs of a thread and an index that its hand covers, so that
  what a thread takes and gives back is a finite set that grows and shrinks
  (`HandsFill`, `HandsEmpty`).  `Quiet`: a drain that was in time leaves nothing
  (`DrainedIsQuiet`: a sum of naturals that is zero), and nothing can be queued
  until the call is over, because it holds the graph's lock.
* `ControlTypes` (`ControlOK`, the part of the type invariant that is not rows
  and statements), `BarrierIsExact`, `JobsAreInOrder`.
* `SwapsAreQuiet`: unless a drain or a join timed out, a backup, a restore or a
  close works on the files only when no batch is queued and no thread has one.
* `DataInvariant`: `DataInv == DataTyped /\ Sole /\ CallOK /\ LandInv`.
  `LandInv` is about an outcome no state shows: what the database will have when
  the batch in hand and those in the queue have been executed (`OnItsWay`).  It
  says that no sound key (`Counted`: neither it nor an end of it was lost, shed or
  failed) will be bad or doomed there, that `known` is exactly what will have a
  row, and that the window then brings it to memory.  `MemoryReachesDisk` alone
  is not inductive: a CREATE that finds no node, or a SET that finds no row,
  would break it one step later.  `Sole` is why one outcome is enough: until a
  join times out, only the current thread has a batch.  A step of a thread either
  leaves the outcome alone, makes it `Better`, or taints what it worsens.
* `KuzuTypes`, `MemoryIsDurable`, `BackupsAreExact`: with these the three
  properties of the rows that the run checks hold for any finite graph, any
  payloads, sizes of queues and batches, threads, calls and faults.

`VastControllerProofs`

* `ControllerInvariant`: `VastInv` adds to the properties where the task and the
  routes may be at the same time (`RouteOK`), that the machine known is the one
  this deployment rents and those of later ones are untouched (`MachineOK`),
  whose the port is (`PortOK`), and which forwards may run (`ForwardsOK`).
* `VastTypeCorrect`, `RentedMachinesAreKnown`, `ProxyIsHonest`, `IdleMeansIdle`.

Every invariant and every action property of the passing runs is a theorem;
`KeepsSupervisorContract` and `MortalityHonest` under the premises named above.
Only model-checked: `EveryFrameSettles`, `StarvationKills`, `StopEnds`,
`ControlLeavesLane`, `CallsReturn` and `Settles`, because liveness under fairness
is beyond the prover, and so is ENABLED.

## 6. What is not modelled

* Most of the 53,000 lines are numeric (networks, gradients, salience
  arithmetic, affect, geometry), scripts that drive a simulator, configuration
  with its defaults and its parsing, formats and logging.  The map names about
  4,400 lines: those in which an order of steps decides.
* External: the simulator, SQLite, LanceDB, Kuzu and the vastai tool, which are
  modelled by what the code calls and expects of them.
* Perception: the modes `batching` and `persistent_perception`, resizing of the
  queue (its size changes only with `parallel_sessions` above ten), `stop()`, and
  T3's draining by rest, which `PrefetchSupervisor` has as an action that may
  always happen.  A cycle that is cancelled is in `PrefetchSupervisor` only.
* Agent: the autosave task, tombstone files and their pruning (the order of
  modification times decides), the control of a rig and of motor training, the
  configuration of anything but pause, mode and parallel sessions.
* Rest: the hysteresis of wake and rest is a threshold on drives.
* Memory: similarity search, index building, migration of old files, recovery of
  a corrupt Kuzu directory, the belief arithmetic of the semantic graph,
  `close()` of the job worker by itself.
* The JSONL writer has the shape of the episodic write-behind, one line a time.
* The freeze watchdog only reads.  The environment supervisor, the dojo and the
  evaluation harness keep their state in a process of the simulator or in one
  sequential loop.
* Vast: the search for offers, keys, what the remote install prints.

## 7. Plan

Done, in this order: `SessionTiers`, `PrefetchSupervisor`, `PerceptionPipeline`
with their proofs; `AgentLifecycle` and `Outbound`, with theirs; the episodic memory; the Kuzu
graph; `VastController`; the refinement of the pipeline step by step; the
proofs about caps, the episodic memory, the control of the flusher and what it
leaves on disk.

What would add most to it:

1. `Rest`, the wake and rest hysteresis over the tiers, for the liveness of T3.
2. The environment supervisor, with the simulator's process as its environment.
3. Beliefs as keys of their own in `KuzuGraph`: their refreshes are shed too, at
   twice the pressure.
