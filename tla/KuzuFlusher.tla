---------------------------- MODULE KuzuFlusher ----------------------------
(***************************************************************************)
(* The write path of the long-term graph: jobs of the cycles, which a      *)
(* worker applies in memory (decadic/memory/ltm_write_behind.py), and the  *)
(* flusher thread that executes their statements on a Kuzu database        *)
(* (decadic/memory/kuzu_graph.py).                                         *)
(*                                                                         *)
(* clear, backup_to, restore_from, close and the drain of an index build   *)
(* hold the graph's lock from their first step to their last, so only      *)
(* flushers act between them.                                              *)
(***************************************************************************)
EXTENDS KuzuGraph

CONSTANTS
    QueueMax,   \* max_queue of the jobs
    QueueCap,   \* _flush_queue_cap: batches
    MergeMax,   \* _flush_merge_max
    FlushOps,   \* _flush_max_ops
    Flushers,   \* threads
    MaxJobs,    \* bound: jobs
    MaxCalls,   \* bound: calls that drain
    MaxFaults   \* bound: transactions and replays that fail, threads that die

ASSUME FlusherAssumption ==
    /\ QueueMax \in Nat \ {0} /\ QueueCap \in Nat \ {0}
    /\ MergeMax \in Nat \ {0} /\ FlushOps \in Nat \ {0}
    /\ MaxJobs \in Nat /\ MaxCalls \in Nat /\ MaxFaults \in Nat
    /\ IsFiniteSet(Flushers) /\ "none" \notin Flushers

VARIABLES
    jobs,      \* queued jobs: an upsert each; n is their order
    issued, applied,  \* number of jobs issued; the last one applied
    async,     \* jobs are deferred
    g,         \* see Fresh
    known,     \* the keys said to have a row
    batches,   \* _flush_queue
    enqueued, done,  \* _batches_enqueued, _batches_done
    current,   \* _flush_thread
    stop,      \* _flush_stop
    flusher,   \* of each thread: where it is, its batch, the batches in that
    db,        \* the rows on disk
    open,      \* the handles of the database are
    backup,    \* the last backup, as a set in a set; or {}
    call, at,  \* the call in progress, and where it is
    calls,     \* calls so far
    late,      \* ghost: a drain or a join has timed out
    orphaned,  \* ghost: batches lost by a thread that died
    tainted,   \* ghost: keys of statements that failed, or were shed or lost
    faults

jobVars == <<jobs, issued, applied, async>>
queueVars == <<batches, enqueued, current, stop>>
callVars == <<call, at, calls>>
vars == <<jobVars, g, known, queueVars, done, flusher, db, open, backup,
          callVars, late, orphaned, tainted, faults>>

None == "none"
Absent == [at |-> "absent", batch |-> <<>>, n |-> 0]
Waiting == [Absent EXCEPT !.at = "waiting"]

Init ==
    /\ jobs = <<>> /\ issued = 0 /\ applied = 0 /\ async \in BOOLEAN
    /\ g = Fresh /\ known = {}
    /\ batches = <<>> /\ enqueued = 0 /\ done = 0
    /\ current = None /\ stop = FALSE /\ flusher = [f \in Flushers |-> Absent]
    /\ db = NoRows /\ open = TRUE /\ backup = {}
    /\ call = None /\ at = None /\ calls = 0
    /\ late = FALSE /\ orphaned = 0 /\ tainted = {} /\ faults = 0

Alive(f) == f # None /\ flusher[f].at # "absent"

-----------------------------------------------------------------------------
(* Seeded fault: one batch too many.                                       *)
FaultyAtCap == Len(batches) > QueueCap
AtCap == Len(batches) >= QueueCap

(* _flush_pending_locked: h is what memory holds; its window is resolved   *)
(* and queued, or merged into the last batch of a full queue, and there is *)
(* a flusher.                                                              *)
Flush(h) ==
    LET s == Resolved(h.pending, known)
    IN  /\ g' = [h EXCEPT !.pending = <<>>]
        /\ known' = KnownAfter(h.pending, known)
        /\ batches' = IF AtCap
                      THEN [batches EXCEPT ![Len(batches)] = Merged(@ \o s)]
                      ELSE Append(batches, s)
        /\ enqueued' = IF AtCap THEN enqueued ELSE enqueued + 1
        /\ IF Alive(current) THEN UNCHANGED <<current, stop, flusher>>
           ELSE \E f \in {x \in Flushers : ~Alive(x)} :
                   /\ current' = f /\ stop' = FALSE
                   /\ flusher' = [flusher EXCEPT ![f] = Waiting]

NoFlush(h) ==
    /\ g' = h
    /\ UNCHANGED <<known, batches, enqueued, current, stop, flusher>>

(* _commit_locked: the window is flushed when it is full, or old.          *)
Commit(h) ==
    \/ h.pending # <<>> /\ Flush(h)
    \/ Len(h.pending) < FlushOps /\ NoFlush(h)

(* A job in one write_batch: the upsert, then retention, which may drop    *)
(* a key.  An edge is drawn between nodes that are there.                  *)
Apply(job) ==
    /\ call = None
    /\ applied' = job.n
    /\ \E age \in Ages :
          LET there == job.key \in Edges => \A n \in Ends[job.key] : g.mem[n] # 0
              h == IF there THEN Upserted(g, job.key, job.val, age) ELSE g
          IN  Commit(h) \/ \E k \in Prunable(h) : Commit(Pruned(h, k))
    /\ UNCHANGED <<done, db, open, backup, callVars, late, orphaned, tainted, faults>>

Jobs == [n : {issued + 1}, key : Keys, val : Values]
Issue == call = None /\ issued < MaxJobs /\ issued' = issued + 1

EnqueueJob ==
    /\ Issue /\ async /\ Len(jobs) < QueueMax
    /\ \E job \in Jobs : jobs' = Append(jobs, job)
    /\ UNCHANGED <<applied, async, g, known, queueVars, done, flusher, db, open,
                   backup, callVars, late, orphaned, tainted, faults>>

(* Seeded fault: the job overtakes those in the full queue.                *)
FaultyMayApplyHere == ~async \/ Len(jobs) = QueueMax
(* Not deferred; or the queue was full, and is flushed first: the event    *)
(* loop waits for that in the call of the cycle, and only the worker acts. *)
MayApplyHere == jobs = <<>>

ApplyHere ==
    /\ Issue /\ MayApplyHere
    /\ \E job \in Jobs : Apply(job)
    /\ UNCHANGED <<jobs, async>>

WorkerApplies ==
    /\ jobs # <<>> /\ jobs' = Tail(jobs)
    /\ Apply(Head(jobs))
    /\ UNCHANGED <<issued, async>>

(* The job raises before it has changed anything.                          *)
JobRaises ==
    /\ call = None /\ jobs # <<>> /\ jobs' = Tail(jobs)
    /\ applied' = Head(jobs).n
    /\ faults < MaxFaults /\ faults' = faults + 1
    /\ UNCHANGED <<issued, async, g, known, queueVars, done, flusher, db, open,
                   backup, callVars, late, orphaned, tainted>>

(* set_async; off waits for the queue.                                     *)
SetAsync ==
    /\ call = None /\ jobs = <<>>
    /\ async' = ~async
    /\ UNCHANGED <<jobs, issued, applied, g, known, queueVars, done, flusher, db,
                   open, backup, callVars, late, orphaned, tainted, faults>>

-----------------------------------------------------------------------------
(* The flusher threads, which never take the graph's lock.                 *)
flusherFrame == <<jobVars, g, known, enqueued, current, stop, open, backup,
                  callVars, late>>

(* A thread takes some batches and merges them; if the queue was at its    *)
(* cap and the pressure is high it sheds refreshes.                        *)
Takes(f) ==
    /\ flusher[f].at = "waiting" /\ batches # <<>>
    /\ LET n == IF Len(batches) < MergeMax THEN Len(batches) ELSE MergeMax
           s == Merged(FlattenSeq(SubSeq(batches, 1, n)))
           hand(b) == [at |-> "ready", batch |-> b, n |-> n]
       IN  /\ batches' = SubSeq(batches, n + 1, Len(batches))
           /\ \/ flusher' = [flusher EXCEPT ![f] = hand(s)] /\ UNCHANGED tainted
              \/ /\ AtCap
                 /\ flusher' = [flusher EXCEPT ![f] = hand(Kept(s))]
                 /\ tainted' = tainted \cup Shed(s)
    /\ UNCHANGED <<flusherFrame, done, db, orphaned, faults>>

(* An exception in merge or shed ends the thread, and its batches are      *)
(* neither executed nor counted as done.                                   *)
Dies(f) ==
    /\ flusher[f].at = "ready"
    /\ faults < MaxFaults /\ faults' = faults + 1
    /\ flusher' = [flusher EXCEPT ![f] = Absent]
    /\ orphaned' = orphaned + flusher[f].n
    /\ tainted' = tainted \cup {x.key : x \in ToSet(flusher[f].batch)}
    /\ UNCHANGED <<flusherFrame, batches, done, db>>

(* _acquire_write_channel: the connection the batch will be executed on.   *)
Connects(f) ==
    /\ flusher[f].at = "ready"
    /\ flusher' = [flusher EXCEPT ![f].at = IF open THEN "connected" ELSE "gone"]
    /\ UNCHANGED <<flusherFrame, batches, done, db, orphaned, tainted, faults>>

(* _execute_batch, in one transaction; if that fails it is replayed one op *)
(* at a time, which can fail too.  On a connection that was closed, all    *)
(* fails.  In any case the batches are counted as done.                    *)
Executes(f) ==
    LET s == flusher[f].batch
    IN  /\ \/ /\ flusher[f].at = "connected"
              /\ \/ db' = Executed(db, s) /\ UNCHANGED <<tainted, faults>>
                 \/ /\ faults < MaxFaults /\ s # <<>>
                    /\ \/ /\ db' = Replayed(db, s)
                          /\ faults' = faults + 1 /\ UNCHANGED tainted
                       \/ \E i \in DOMAIN s :
                             /\ faults + 1 < MaxFaults /\ faults' = faults + 2
                             /\ db' = Replayed(db, RemoveAt(s, i))
                             /\ tainted' = tainted \cup {s[i].key}
           \/ /\ flusher[f].at = "gone"
              /\ tainted' = tainted \cup {x.key : x \in ToSet(s)}
              /\ UNCHANGED <<db, faults>>
        /\ flusher' = [flusher EXCEPT ![f] = Waiting]
        /\ done' = done + flusher[f].n
        /\ UNCHANGED <<flusherFrame, batches, orphaned>>

(* Told to stop, with nothing left.                                         *)
Stops(f) ==
    /\ flusher[f].at = "waiting" /\ stop /\ batches = <<>>
    /\ flusher' = [flusher EXCEPT ![f] = Absent]
    /\ UNCHANGED <<flusherFrame, batches, done, db, orphaned, tainted, faults>>

-----------------------------------------------------------------------------
(* The calls that hold the lock and wait for the flusher.                  *)

(* flush(): the call of the write-behind layer first waits for its worker. *)
JobsFlushed == jobs = <<>>

Calls == {"index", "clear", "backup", "restore", "close"}

Enters(c) == call = None /\ JobsFlushed /\ calls < MaxCalls
             /\ calls' = calls + 1 /\ call' = c

(* Seeded fault: what the throttle has parked is forgotten.                *)
FaultyDrains == IF g.pending = <<>> THEN NoFlush(g) ELSE Flush(g)

(* What a drain starts with: what is parked and pending is flushed.        *)
Drains == LET h == Promoted(g)
          IN  IF h.pending = <<>> THEN NoFlush(h) ELSE Flush(h)

callFrame == <<jobVars, done, db, late, orphaned, tainted, faults>>

(* The index build, and backup_to.                                         *)
DrainCall(c) ==
    /\ c \in {"index", "backup"} /\ Enters(c) /\ at' = "draining"
    /\ Drains
    /\ UNCHANGED <<callFrame, open, backup>>

(* clear(): memory is wiped, and what is not yet queued.                   *)
ClearCall ==
    /\ Enters("clear") /\ at' = "draining"
    /\ NoFlush(Fresh)
    /\ UNCHANGED <<callFrame, open, backup>>

(* Seeded fault: the dropped batches are still waited for.                 *)
FaultyDropped(n) == 0
Dropped(n) == n

(* restore_from(): what is not yet executed is dropped.                    *)
RestoreCall ==
    /\ Enters("restore") /\ backup # {} /\ at' = "draining"
    /\ g' = [Fresh EXCEPT !.mem = g.mem]
    /\ batches' = <<>> /\ enqueued' = enqueued - Dropped(Len(batches))
    /\ UNCHANGED <<callFrame, known, current, stop, flusher, open, backup>>

(* The handles are closed, under whatever a thread has connected to.       *)
Closed(fl) == [f \in Flushers |-> IF fl[f].at = "connected"
                                  THEN [fl[f] EXCEPT !.at = "gone"] ELSE fl[f]]

(* close(): it drains if the window is not empty or there is a thread.     *)
CloseCall ==
    /\ Enters("close")
    /\ IF g.pending = <<>> /\ current = None
       THEN /\ at' = "swapping" /\ open' = FALSE /\ flusher' = Closed(flusher)
            /\ UNCHANGED <<g, known, queueVars>>
       ELSE at' = "draining" /\ Drains /\ UNCHANGED open
    /\ UNCHANGED <<callFrame, backup>>

-----------------------------------------------------------------------------
(* The drain ends when all batches are done, or when its time is up.       *)
DrainEnds(c) ==
    /\ call = c /\ at = "draining"
    /\ late' = (late \/ done < enqueued)
    /\ UNCHANGED <<jobVars, batches, enqueued, done, backup, calls, orphaned>>

Leaves == call' = None /\ at' = None
threadFrame == <<current, stop, flusher, open>>

IndexEnds ==
    /\ DrainEnds("index") /\ Leaves
    /\ UNCHANGED <<g, known, threadFrame, db, tainted, faults>>

(* The DELETEs, which may fail: that is logged.                            *)
ClearEnds ==
    /\ DrainEnds("clear") /\ Leaves
    /\ \/ db' = NoRows /\ tainted' = {} /\ UNCHANGED faults
       \/ /\ faults < MaxFaults /\ faults' = faults + 1
          /\ tainted' = Keys /\ UNCHANGED db
    /\ known' = {}
    /\ UNCHANGED <<g, threadFrame>>

(* _quiesce_flusher_locked: the thread is told to stop, and joined.        *)
TellsToStop ==
    /\ \E c \in {"backup", "restore", "close"} : DrainEnds(c)
    /\ at' = "joining" /\ stop' = Alive(current)
    /\ UNCHANGED <<call, g, known, current, flusher, open, db, tainted, faults>>

(* The join ends with the thread, or after 5 s (bound: as long as there is *)
(* a thread left to start); then the handles are closed.                   *)
JoinEnds ==
    /\ at = "joining" /\ at' = "swapping"
    /\ \/ ~Alive(current) /\ UNCHANGED late
       \/ /\ Alive(current) /\ late' = TRUE
          /\ \E f \in Flushers : ~Alive(f)
    /\ current' = None /\ stop' = FALSE
    /\ open' = FALSE /\ flusher' = Closed(flusher)
    /\ UNCHANGED <<jobVars, g, known, batches, enqueued, done, db, backup, call,
                   calls, orphaned, tainted, faults>>

Swaps(c) ==
    /\ call = c /\ at = "swapping"
    /\ UNCHANGED <<jobVars, queueVars, flusher, calls, late, orphaned, faults>>

BackupEnds ==
    /\ Swaps("backup") /\ Leaves
    /\ backup' = {db} /\ open' = TRUE
    /\ UNCHANGED <<g, known, done, db, tainted>>

RestoreEnds ==
    /\ Swaps("restore") /\ Leaves
    /\ \E d \in backup :
          /\ db' = d /\ g' = [Fresh EXCEPT !.mem = d]
          /\ known' = {k \in Keys : d[k] # 0}
    /\ open' = TRUE /\ tainted' = {}
    /\ UNCHANGED <<done, backup>>

CloseEnds ==
    /\ Swaps("close") /\ at' = "closed"
    /\ UNCHANGED <<call, g, known, done, open, db, backup, tainted>>

-----------------------------------------------------------------------------
FlusherStep(f) == Takes(f) \/ Connects(f) \/ Executes(f) \/ Stops(f)
CallStep ==
    \/ IndexEnds \/ ClearEnds \/ TellsToStop \/ JoinEnds
    \/ BackupEnds \/ RestoreEnds \/ CloseEnds

Next ==
    \/ EnqueueJob \/ ApplyHere \/ WorkerApplies \/ JobRaises \/ SetAsync
    \/ \E f \in Flushers : FlusherStep(f) \/ Dies(f)
    \/ \E c \in Calls : DrainCall(c)
    \/ ClearCall \/ RestoreCall \/ CloseCall \/ CallStep

Spec == Init /\ [][Next]_vars

-----------------------------------------------------------------------------
ControlOK ==
    /\ jobs \in Seq([n : 1..MaxJobs, key : Keys, val : Values])
    /\ Len(jobs) <= QueueMax /\ async \in BOOLEAN
    /\ issued \in 0..MaxJobs /\ applied \in 0..issued
    /\ Len(batches) <= QueueCap
    /\ enqueued \in Nat /\ done \in Nat /\ orphaned \in Nat
    /\ current \in Flushers \cup {None} /\ stop \in BOOLEAN
    /\ \A f \in Flushers :
          /\ flusher[f].at \in {"absent", "waiting", "ready", "connected", "gone"}
          /\ flusher[f].n \in 0..MergeMax
    /\ open \in BOOLEAN /\ late \in BOOLEAN
    /\ call \in Calls \cup {None} /\ calls \in 0..MaxCalls
    /\ at \in {None, "draining", "joining", "swapping", "closed"}
    /\ faults \in 0..MaxFaults

DataOK ==
    /\ \A m \in {g.mem, g.deferred, g.staged, db} \cup backup : m \in [Keys -> Payload]
    /\ g.pending \in Seq([key : Keys, val : Payload])
    /\ Len(g.pending) <= Cardinality(Keys)
    /\ known \subseteq Keys /\ tainted \subseteq Keys

KuzuTypeOK == ControlOK /\ DataOK

(* No statement on the way to this key, or to the ends of this edge, has   *)
(* failed, was shed or was lost.                                           *)
Sound(k) == tainted \cap ({k} \cup (IF k \in Edges THEN Ends[k] ELSE {})) = {}

(* What the database will hold once all that is under way has landed: the  *)
(* batch in hand, the queue, the window and what is parked, in this order. *)
InHand ==
    LET busy == {f \in Flushers : flusher[f].batch # <<>>}
    IN  IF busy = {} THEN <<>> ELSE flusher[CHOOSE f \in busy : TRUE].batch
Landing ==
    LET h == Promoted(g)
    IN  Executed(db, InHand \o FlattenSeq(batches) \o Resolved(h.pending, known))

(* Skipping, parking, resolving, merging, queueing and replaying lose no   *)
(* write and reorder none that matter: until a drain has timed out, all    *)
(* that is under way brings the database to what memory holds, and nothing *)
(* of before a clear or a restore comes after it.                          *)
MemoryReachesDisk ==
    ~late /\ call \notin {"clear", "restore"} =>
        \A k \in Keys : Sound(k) => Landing[k] = g.mem[k]

(* The barrier counts exactly the batches that are queued, in hand or      *)
(* lost, whatever was merged or dropped: if none is lost, a drain waits    *)
(* neither too short nor for ever.                                         *)
BarrierCounts ==
    enqueued - done = orphaned + Len(batches)
        + Cardinality({p \in Flushers \X (1..MergeMax) : p[2] <= flusher[p[1]].n})

(* A backup has exactly what memory holds, unless a drain has timed out.   *)
BackupIsExact ==
    [][backup' # backup /\ ~late =>
          \A d \in backup' : \A k \in Keys : Sound(k) => d[k] = g.mem[k]]_vars

(* Jobs are applied in the order they were issued in, those applied inline *)
(* because the queue was full included.                                    *)
JobsInOrder == [][applied' >= applied]_vars

(* kuzu_graph.py:570 says that close leaves nothing parked: a graph that   *)
(* was closed has on disk what it held in memory.                          *)
CloseIsDurable ==
    at = "closed" /\ ~late => \A k \in Keys : Sound(k) => db[k] = g.mem[k]
=============================================================================
