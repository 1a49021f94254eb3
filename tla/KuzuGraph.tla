----------------------------- MODULE KuzuGraph -----------------------------
(***************************************************************************)
(* The long-term graph in memory and on its way to disk:                   *)
(* decadic/memory/kuzu_graph.py.  What a mutation leaves to be written     *)
(* (pending, deferred), how a flush turns that into statements, how        *)
(* batches of statements are merged, and what they do to the database.     *)
(*                                                                         *)
(* A key is a node or an edge; beliefs and semantic records have the life  *)
(* of a node without edges.  A payload is one of Values, 0 stands for no   *)
(* row.  Volatile fields (counts, last_cycle) are left out of it.          *)
(***************************************************************************)
EXTENDS Integers, Sequences, SequencesExt, FiniteSets

CONSTANTS
    Nodes, Edges,
    Ends,      \* the nodes of each edge
    Values     \* payloads

ASSUME GraphAssumption ==
    /\ Nodes \cap Edges = {} /\ Values \subseteq Nat \ {0}
    /\ IsFiniteSet(Nodes) /\ IsFiniteSet(Edges)
    /\ Ends \in [Edges -> SUBSET Nodes]

Keys == Nodes \cup Edges
Payload == Values \cup {0}
NoRows == [k \in Keys |-> 0]
EdgesOf(n) == {e \in Edges : n \in Ends[e]}

(* What memory holds: the graph, the pending window (a sequence of writes  *)
(* with distinct keys, val = 0 for a delete), the payloads that the        *)
(* throttle has parked, and the payload last staged of each key (also the  *)
(* keys of _kz_key_last_write).                                            *)
Fresh == [mem |-> NoRows, pending |-> <<>>, deferred |-> NoRows, staged |-> NoRows]

(* _pending[k] = v: a key that is there keeps its place.                   *)
Put(pending, k, v) ==
    IF \E i \in DOMAIN pending : pending[i].key = k
    THEN [i \in DOMAIN pending |->
            IF pending[i].key = k THEN [key |-> k, val |-> v] ELSE pending[i]]
    ELSE Append(pending, [key |-> k, val |-> v])

(* How long ago the key was staged: within _write_min_cycles, within       *)
(* _refresh_max_cycles, or longer.                                         *)
Ages == {"young", "middle", "old"}

Skips(g, k, v, age) == g.staged[k] = v /\ age # "old"
Parks(g, k, v, age) == g.staged[k] # 0 /\ g.staged[k] # v /\ age = "young"

(* _stage_upsert_locked                                                    *)
Staged(g, k, v, age) ==
    IF Skips(g, k, v, age) THEN [g EXCEPT !.deferred[k] = 0]
    ELSE IF Parks(g, k, v, age) THEN [g EXCEPT !.deferred[k] = v]
    ELSE [g EXCEPT !.staged[k] = v, !.deferred[k] = 0,
                   !.pending = Put(g.pending, k, v)]

Upserted(g, k, v, age) == Staged([g EXCEPT !.mem[k] = v], k, v, age)

(* Retention may drop an edge, or a node that has none.                    *)
Prunable(g) ==
    {k \in Keys : /\ g.mem[k] # 0
                  /\ k \in Nodes => \A e \in EdgesOf(k) : g.mem[e] = 0}

Pruned(g, k) ==
    [mem |-> [g.mem EXCEPT ![k] = 0], pending |-> Put(g.pending, k, 0),
     deferred |-> [g.deferred EXCEPT ![k] = 0],
     staged |-> [g.staged EXCEPT ![k] = 0]]

(* The start of every drain: what is parked becomes pending, unless a      *)
(* delete is.                                                              *)
Promoted(g) ==
    LET deletes == {g.pending[i].key : i \in {j \in DOMAIN g.pending :
                                                g.pending[j].val = 0}}
        parked == SetToSeq({k \in Keys : g.deferred[k] # 0} \ deletes)
        p == FoldLeft(LAMBDA q, k : Put(q, k, g.deferred[k]), g.pending, parked)
    IN  [g EXCEPT !.pending = p, !.deferred = NoRows,
                  !.staged = [k \in Keys |-> IF k \in ToSet(parked)
                                             THEN g.deferred[k] ELSE g.staged[k]]]

-----------------------------------------------------------------------------
(* _resolve_ops_locked: known are the keys said to have a row.             *)
Resolved(pending, known) ==
    [i \in DOMAIN pending |->
        [key |-> pending[i].key, val |-> pending[i].val,
         stmt |-> IF pending[i].val = 0 THEN "delete"
                  ELSE IF pending[i].key \in known THEN "set" ELSE "create"]]

KnownAfter(pending, known) ==
    LET keys(on) == {pending[i].key : i \in {j \in DOMAIN pending :
                                               (pending[j].val # 0) = on}}
    IN  (known \ keys(FALSE)) \cup keys(TRUE)

(* Seeded fault: a delete is no barrier, an upsert merges across it.       *)
FaultySlots(t, x) == {i \in DOMAIN t : t[i].key = x.key /\ t[i].stmt # "delete"}
(* Where the upsert x may merge: the upsert of its key in t that no delete *)
(* of that key follows.                                                    *)
Slots(t, x) ==
    {i \in DOMAIN t : /\ t[i].key = x.key
                      /\ \A m \in i..Len(t) : t[m].key = x.key => t[m].stmt # "delete"}

(* _merge_batches, of batches one after the other: an upsert leaves its    *)
(* payload in its slot, which keeps its place and its statement; deletes   *)
(* and upserts without a slot are appended.                                *)
MergedWith(t, x) ==
    IF x.stmt = "delete" \/ Slots(t, x) = {} THEN Append(t, x)
    ELSE [i \in DOMAIN t |-> IF i \in Slots(t, x)
                            THEN [t[i] EXCEPT !.val = x.val] ELSE t[i]]
Merged(s) == FoldLeft(MergedWith, <<>>, s)

(* _maybe_shed: refreshes of edges, and of nothing else.                   *)
KeptWith(t, x) == IF x.stmt = "set" /\ x.key \in Edges THEN t ELSE Append(t, x)
Kept(s) == FoldLeft(KeptWith, <<>>, s)
Shed(s) == {s[i].key : i \in DOMAIN s} \ {Kept(s)[i].key : i \in DOMAIN Kept(s)}

-----------------------------------------------------------------------------
(* What one statement does; a CREATE of a node that has a row raises, and  *)
(* the replay of its batch then sets it.                                   *)
Done(d, x) ==
    LET there == d[x.key] # 0
        linked == x.key \in Edges => \A n \in Ends[x.key] : d[n] # 0
    IN  IF x.stmt = "delete"
        THEN [k \in Keys |-> IF k = x.key \/ (x.key \in Nodes /\ k \in EdgesOf(x.key))
                             THEN 0 ELSE d[k]]
        ELSE IF there \/ (x.stmt = "create" /\ linked)
        THEN [d EXCEPT ![x.key] = x.val]
        ELSE d

Executed(d, s) == FoldLeft(Done, d, s)

(* _replay_op: an upsert looks whether the row is there.                   *)
Replayed(d, s) ==
    Executed(d, [i \in DOMAIN s |->
        IF s[i].stmt = "set" THEN [s[i] EXCEPT !.stmt = "create"] ELSE s[i]])
=============================================================================
