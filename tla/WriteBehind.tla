---------------------------- MODULE WriteBehind ----------------------------
(***************************************************************************)
(* The sqlite backend of episodic memory: the store and its recall cache   *)
(* (decadic/memory/episodic_store.py) behind the write-behind queue and    *)
(* its worker thread (decadic/memory/write_behind.py).                     *)
(*                                                                         *)
(* All calls come from the event loop, one after the other; flush() holds  *)
(* it up until the worker has done everything (joining names the call).    *)
(***************************************************************************)
EXTENDS EpisodeRows

CONSTANTS
    QueueMax,      \* max_queue
    BatchMax,      \* episodic_write_batch_size
    RecallRecent,  \* DECADIC_EPISODIC_RECALL_RECENT_CAP
    RecallSalient  \* DECADIC_EPISODIC_RECALL_SALIENT_CAP

ASSUME WriteBehindAssumption ==
    /\ QueueMax \in Nat \ {0} /\ BatchMax \in Nat \ {0}
    /\ RecallRecent \in Nat \ {0} /\ RecallSalient \in Nat \ {0}

VARIABLES
    queue,    \* episodes on their way to the worker
    batch,    \* those in the worker's hands
    joining,  \* no, or the call that waits for the worker
    cache     \* _recall_items

sqliteVars == <<queue, batch, joining, cache>>

SqliteInit == queue = <<>> /\ batch = <<>> /\ joining = "no" /\ cache = {}

Items(q) == {q[i] : i \in DOMAIN q}
Idle == joining = "no"
Drained == queue = <<>> /\ batch = <<>>

-----------------------------------------------------------------------------
(* The k first of S in the order that Before says.                         *)
Firsts(S, k, Before(_, _)) ==
    {n \in S : Cardinality({m \in S : Before(m, n)}) < k}

Later(m, n) == m > n
LaterRow(m, n) == idOf[m] > idOf[n]

(* The recall cache keeps the newest and, of the others, the most salient. *)
PrunedCache(items) ==
    IF Cardinality(items) <= RecallRecent + RecallSalient THEN items
    ELSE LET recent == Firsts(items, RecallRecent, Later)
         IN  recent \cup Firsts(items \ recent, RecallSalient, Outranks)

(* ORDER BY salience DESC, which SQLite's sorter leaves by id if equal.    *)
MoreSalient(m, n) ==
    salience[m] > salience[n] \/ (salience[m] = salience[n] /\ idOf[m] < idOf[n])

(* After a restore the cache is read from the database.                    *)
LoadedCache(S) ==
    Firsts(S, RecallRecent, LaterRow) \cup Firsts(S, RecallSalient, MoreSalient)

-----------------------------------------------------------------------------
(* INSERT of the sequence s, the pruning that may follow, and the commit.  *)
Inserts(s) ==
    LET ids == [n \in Episodes |->
                  IF \E i \in DOMAIN s : s[i] = n
                  THEN nextId + (CHOOSE i \in DOMAIN s : s[i] = n)
                  ELSE idOf[n]]
        all == rows \cup Items(s)
        due == sinceWrites + Len(s) >= PruneInterval
    IN  /\ idOf' = ids /\ nextId' = nextId + Len(s)
        /\ rows' = IF due THEN all \ Victims(all, ids) ELSE all
        /\ sinceWrites' = IF due THEN 0 ELSE sinceWrites + Len(s)

(* An INSERT raises: the k rows before it are in the transaction, which    *)
(* stays open and is committed with the next write.                        *)
InsertRaises(s) ==
    /\ \E k \in 0..(Len(s) - 1) :
          /\ idOf' = [n \in Episodes |->
                        IF \E i \in 1..k : s[i] = n
                        THEN nextId + (CHOOSE i \in 1..k : s[i] = n)
                        ELSE idOf[n]]
          /\ rows' = rows \cup {s[i] : i \in 1..k}
          /\ nextId' = nextId + k
    /\ UNCHANGED sinceWrites

(* A write that raises; Inserts: it is the commit that raised.             *)
Raises(s) ==
    /\ faults < MaxFaults /\ faults' = faults + 1
    /\ InsertRaises(s) \/ Inserts(s)

Persists(s) == (Inserts(s) /\ UNCHANGED faults) \/ Raises(s)

(* append(): the cache has it at once; the row is written by the worker,   *)
(* or here when writes are not deferred or the queue is full.              *)
Append_ ==
    /\ Idle /\ Remember
    /\ cache' = PrunedCache(cache \cup {New})
    /\ \/ /\ async /\ Len(queue) < QueueMax
          /\ queue' = Append(queue, New)
          /\ UNCHANGED <<rows, idOf, nextId, sinceWrites, disordered, faults>>
       \/ /\ ~async \/ Len(queue) = QueueMax
          /\ Persists(<<New>>)
          /\ disordered' = (disordered \/ ~Drained)
          /\ UNCHANGED queue
    /\ UNCHANGED <<batch, joining>>

-----------------------------------------------------------------------------
(* The worker: it takes one episode, then more until the batch is full or  *)
(* its time is up, and writes them in one transaction.                     *)
workerFrame == <<appended, salience, life, backup, async, disordered, wipes,
                 joining, cache>>

(* Seeded fault: the worker ends as soon as writes are not deferred.       *)
FaultyWorkerTakes ==
    /\ async /\ queue # <<>> /\ Len(batch) < BatchMax
    /\ batch' = Append(batch, Head(queue)) /\ queue' = Tail(queue)
    /\ UNCHANGED <<workerFrame, rows, idOf, nextId, sinceWrites, faults>>
WorkerTakes ==
    /\ queue # <<>> /\ Len(batch) < BatchMax
    /\ batch' = Append(batch, Head(queue)) /\ queue' = Tail(queue)
    /\ UNCHANGED <<workerFrame, rows, idOf, nextId, sinceWrites, faults>>

(* Seeded fault: a write that failed is tried again after the next.        *)
FaultyWorkerPersists ==
    /\ batch # <<>>
    /\ \/ Inserts(batch) /\ UNCHANGED <<faults, queue>>
       \/ Raises(batch) /\ queue' = queue \o batch
    /\ batch' = <<>>
    /\ UNCHANGED workerFrame

WorkerPersists ==
    /\ batch # <<>>
    /\ Persists(batch)
    /\ batch' = <<>>
    /\ UNCHANGED <<workerFrame, queue>>

-----------------------------------------------------------------------------
(* The calls that flush first.                                             *)

(* set_async(False) and close() first stop deferring.                      *)
Joins(call) ==
    /\ Idle
    /\ call \in {"clear", "restore"} => wipes < MaxWipes
    /\ call = "restore" => backup # {}
    /\ call = "sync" => async
    /\ joining' = call
    /\ async' = (async /\ call # "sync")
    /\ UNCHANGED <<appended, salience, life, rows, idOf, nextId, sinceWrites,
                   backup, disordered, faults, wipes, queue, batch, cache>>

(* Seeded fault: the queue is empty, but the worker may hold a batch.      *)
FaultyFlushed == queue = <<>>
(* queue.join() returns.                                                   *)
Flushed == Drained

joinFrame == <<idOf, nextId, sinceWrites, async, queue, batch>>

Clears ==
    /\ joining = "clear" /\ Flushed /\ Forgets
    /\ rows' = {} /\ life' = {} /\ cache' = {} /\ joining' = "no"
    /\ UNCHANGED <<joinFrame, disordered>>

BacksUp ==
    /\ joining = "backup" /\ Flushed
    /\ backup' = {rows} /\ joining' = "no"
    /\ UNCHANGED <<appended, salience, life, rows, disordered, faults, wipes,
                   joinFrame, cache>>

Restores ==
    /\ joining = "restore" /\ Flushed /\ Forgets
    /\ \E S \in backup : rows' = S /\ life' = S /\ cache' = LoadedCache(S)
    /\ joining' = "no"
    /\ UNCHANGED <<joinFrame, disordered>>

GoesSync ==
    /\ joining = "sync" /\ Flushed
    /\ joining' = "no"
    /\ UNCHANGED <<rowVars, queue, batch, cache>>

(* set_async(True): a new queue and a new worker.                          *)
GoesAsync ==
    /\ Idle /\ ~async /\ async' = TRUE
    /\ UNCHANGED <<appended, salience, life, rows, idOf, nextId, sinceWrites,
                   backup, disordered, faults, wipes, sqliteVars>>

Calls == {"clear", "backup", "restore", "sync"}

WorkerStep == WorkerTakes \/ WorkerPersists
JoinEnds == Clears \/ BacksUp \/ Restores \/ GoesSync

SqliteNext ==
    \/ Append_ \/ GoesAsync \/ WorkerStep \/ JoinEnds
    \/ \E call \in Calls : Joins(call)
=============================================================================
