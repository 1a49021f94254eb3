--------------------------- MODULE EpisodicMemory ---------------------------
(***************************************************************************)
(* The episodic memory of an agent: one of two backends, chosen when the   *)
(* agent is made (decadic/memory/factory.py), and what both promise.       *)
(***************************************************************************)
EXTENDS WriteBehind, LanceStore

CONSTANT Backends  \* settings of DECADIC_MEMORY_BACKEND

ASSUME BackendsAssumption == Backends \subseteq {"lancedb", "sqlite"}

VARIABLE backend

vars == <<rowVars, sqliteVars, lanceVars, backend>>

(* make_runtime_episodic_store                                             *)
Init == backend \in Backends /\ RowsInit /\ SqliteInit /\ LanceInit

Sqlite == backend = "sqlite" /\ SqliteNext /\ UNCHANGED <<lanceVars, backend>>
Lance == backend = "lancedb" /\ LanceNext /\ UNCHANGED <<sqliteVars, backend>>

Next == Sqlite \/ Lance

(* The worker thread runs; a call that waits for it then goes on.          *)
Spec ==
    /\ Init /\ [][Next]_vars
    /\ WF_vars(Sqlite /\ WorkerStep) /\ WF_vars(Sqlite /\ JoinEnds)

-----------------------------------------------------------------------------
EpTypeOK ==
    /\ appended \in 0..MaxEpisodes /\ salience \in [Episodes -> Saliences]
    /\ life \subseteq Episodes /\ rows \subseteq Episodes
    /\ idOf \in [Episodes -> Nat] /\ nextId \in Nat
    /\ sinceWrites \in 0..(PruneInterval + MaxFaults)
    /\ \A S \in backup : S \subseteq Episodes
    /\ async \in BOOLEAN /\ disordered \in BOOLEAN
    /\ faults \in 0..MaxFaults /\ wipes \in 0..MaxWipes
    /\ queue \in Seq(Episodes) /\ Len(queue) <= QueueMax
    /\ batch \in Seq(Episodes) /\ Len(batch) <= BatchMax
    /\ joining \in Calls \cup {"no"} /\ cache \subseteq Episodes
    /\ pending \subseteq Episodes /\ Cardinality(pending) < BufferMax
    /\ mirror \subseteq Episodes /\ made \in BOOLEAN
    /\ recall \in {"unloaded", "loaded", "disabled"}

Waiting == Items(queue) \cup Items(batch) \cup pending

(* Whatever the backend, the store implements EpisodeLog: an episode that  *)
(* was appended is stored unless its write fails; a backup has all that    *)
(* was appended before it; a clear leaves nothing that lands after it.     *)
Log == INSTANCE EpisodeLog WITH
         waiting <- Waiting, stored <- rows, snapshot <- backup,
         MinKept <- RecentCap
ImplementsLog == Log!Spec

(* Retention deletes no episode while it is one of the newest, as long as  *)
(* row ids follow the order of append: they do not after a queue was full  *)
(* (an inline write overtakes it) nor after the first table was made (its  *)
(* ids start from 0 again, those of the buffer notwithstanding).           *)
NewestKept ==
    [][\A n \in (rows \cup Waiting \cup ((appended + 1)..appended'))
                  \ (rows' \cup Waiting') :
          wipes' > wipes \/ faults' > faults \/ disordered'
          \/ Cardinality({m \in rows' : m > n}) >= RecentCap]_vars

(* Recall has what the agent has lived through, at once and no more: the   *)
(* mirror of the default backend is its table, its buffer and what failed  *)
(* to be written; the cache of the other has the newest episode, unless    *)
(* its row has not the highest id and the cache was read from the rows.    *)
RecallHonest ==
    /\ cache \cup mirror \cup rows \cup Waiting \subseteq life
    /\ recall = "loaded" =>
          /\ rows \cup pending \subseteq mirror
          /\ faults = 0 => mirror = rows \cup pending
    /\ backend = "sqlite" /\ appended \in life /\ ~disordered
          => appended \in cache

(* A call that waits for the worker (clear, backup, restore, set_async,    *)
(* and the event loop with it) returns in the end, writes that fail        *)
(* included.                                                               *)
CallsReturn == joining # "no" ~> joining = "no"
=============================================================================
