----------------------------- MODULE LanceStore -----------------------------
(***************************************************************************)
(* The LanceDB backend of episodic memory, which is the default:           *)
(* decadic/memory/lancedb_store.py.  Rows are buffered in RAM and added in *)
(* batches; every search reads a mirror of the table and of the buffer.    *)
(* Each method is one step: it holds the store's lock from end to end.     *)
(***************************************************************************)
EXTENDS EpisodeRows

CONSTANTS
    BufferMax,  \* _WRITE_BUFFER_MAX
    MirrorCap   \* DECADIC_LANCE_CACHE_MAX_ROWS

ASSUME LanceAssumption == BufferMax \in Nat \ {0} /\ MirrorCap \in Nat

VARIABLES
    pending,  \* episodes with a numbered row that is not yet added
    made,     \* the table exists, and is open
    mirror,   \* episodes of the mirror
    recall    \* the mirror is: unloaded, loaded, or disabled (too large)

lanceVars == <<pending, made, mirror, recall>>

LanceInit == pending = {} /\ made = FALSE /\ mirror = {} /\ recall = "unloaded"

(* _ensure_table_locked: the number after next rows.  A table that has to  *)
(* be made numbers its rows from 0, whatever the buffer's were.            *)
Opens(next) ==
    /\ made' = TRUE
    /\ nextId' = IF made THEN next ELSE 0
    /\ disordered' = (disordered \/ (~made /\ next > 0))

(* Seeded fault: what a pruning deletes stays in the mirror.               *)
FaultyMasked(m, gone, ids) == m
(* The mirror drops every row that has the id of one deleted.              *)
Masked(m, gone, ids) == {n \in m : \A g \in gone : ids[n] # ids[g]}

(* _flush_pending_locked adds the rows p; m: the mirror.                   *)
Adds(p, prunes, m, ids) ==
    LET all == rows \cup p
        gone == IF prunes THEN Victims(all, ids) ELSE {}
    IN  /\ rows' = all \ gone
        /\ mirror' = Masked(m, gone, ids)
        /\ UNCHANGED faults

(* tbl.add raises: the buffer was emptied before, and the rows are lost.   *)
AddRaises(p, m) ==
    /\ p # {}
    /\ faults < MaxFaults /\ faults' = faults + 1
    /\ mirror' = m
    /\ UNCHANGED rows

(* A flush outside append.                                                 *)
Flushes ==
    IF pending = {}
    THEN UNCHANGED <<rows, nextId, disordered, faults, pending, made, mirror>>
    ELSE /\ Opens(nextId) /\ pending' = {}
         /\ Adds(pending, FALSE, mirror, idOf) \/ AddRaises(pending, mirror)

-----------------------------------------------------------------------------
(* append(): the row is numbered and buffered, and the mirror has it at    *)
(* once; it is added now when writes are not deferred or the buffer is     *)
(* full, and when retention is due, which stays due if that add fails.     *)
LanceAppend ==
    /\ Remember
    /\ idOf' = [idOf EXCEPT ![New] = nextId]
    /\ LET p == pending \cup {New}
           since == sinceWrites + 1
           due == since >= PruneInterval
           flushes == ~async \/ Cardinality(p) >= BufferMax
           full == recall = "loaded" /\ Cardinality(mirror) >= MirrorCap
           m == IF recall = "loaded" /\ ~full THEN mirror \cup {New} ELSE {}
       IN  /\ recall' = IF full THEN "disabled" ELSE recall
           /\ IF flushes \/ due
              THEN /\ Opens(nextId + 1) /\ pending' = {}
                   /\ \/ /\ Adds(p, due, m, idOf')
                         /\ sinceWrites' = IF due THEN 0 ELSE since
                      \/ /\ AddRaises(p, m)
                         /\ sinceWrites' = IF flushes THEN since ELSE 0
              ELSE /\ pending' = p /\ nextId' = nextId + 1 /\ mirror' = m
                   /\ sinceWrites' = since
                   /\ UNCHANGED <<rows, made, disordered, faults>>

(* The first search loads the mirror, unless it would be too large.        *)
LanceSearch ==
    /\ recall = "unloaded"
    /\ LET all == rows \cup pending
       IN  IF Cardinality(all) > MirrorCap
           THEN recall' = "disabled" /\ mirror' = {}
           ELSE recall' = "loaded" /\ mirror' = all
    /\ UNCHANGED <<rowVars, pending, made>>

LanceSetAsync(on) ==
    /\ on # async /\ async' = on
    /\ IF on THEN UNCHANGED <<rows, nextId, disordered, faults, pending, made,
                             mirror>>
       ELSE Flushes
    /\ UNCHANGED <<appended, salience, life, idOf, sinceWrites, backup, wipes,
                   recall>>

LanceClear ==
    /\ Forgets
    /\ rows' = {} /\ life' = {} /\ pending' = {}
    /\ mirror' = {} /\ recall' = "loaded"
    /\ UNCHANGED <<idOf, nextId, sinceWrites, async, disordered, made>>

(* backup_to: the table is made if need be, the buffer is added, and the   *)
(* directory copied; no copy is made if the rows cannot be added.          *)
LanceBackup ==
    /\ Opens(nextId) /\ pending' = {}
    /\ \/ Adds(pending, FALSE, mirror, idOf) /\ backup' = {rows'}
       \/ AddRaises(pending, mirror) /\ UNCHANGED backup
    /\ UNCHANGED <<appended, salience, life, idOf, sinceWrites, async, wipes,
                   recall>>

(* restore_from: the table is opened again, and _next_id follows its rows. *)
LanceRestore ==
    /\ Forgets
    /\ \E S \in backup :
          /\ rows' = S /\ life' = S
          /\ nextId' = IF S = {} THEN 0
                       ELSE 1 + CHOOSE i \in {idOf[n] : n \in S} :
                                   \A n \in S : idOf[n] <= i
    /\ pending' = {} /\ made' = TRUE
    /\ mirror' = {} /\ recall' = "unloaded"
    /\ UNCHANGED <<idOf, sinceWrites, async, disordered>>

LanceNext ==
    \/ LanceAppend \/ LanceSearch \/ LanceClear \/ LanceBackup
    \/ LanceRestore
    \/ \E on \in BOOLEAN : LanceSetAsync(on)
=============================================================================
