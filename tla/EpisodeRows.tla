---------------------------- MODULE EpisodeRows ----------------------------
(***************************************************************************)
(* What the two episodic backends share: the episodes, their rows in the   *)
(* database, and the retention policy, which both have in the same form    *)
(* (decadic/memory/episodic_store.py, lancedb_store.py).                   *)
(*                                                                         *)
(* An episode is its number in the order of append, which is also the      *)
(* order of its cycle.                                                     *)
(***************************************************************************)
EXTENDS Integers, Sequences, FiniteSets

CONSTANTS
    MaxEpisodes,    \* bound: episodes appended
    Saliences,
    RecentCap,      \* DECADIC_EPISODIC_DB_RECENT_CAP
    SalientCap,     \* DECADIC_EPISODIC_DB_SALIENT_CAP
    PruneInterval,  \* writes between two prunings
    PruneBatch,     \* rows deleted by one pruning at the most
    MaxFaults,      \* bound: writes that fail
    MaxWipes        \* bound: clears and restores

ASSUME RowsAssumption ==
    /\ MaxEpisodes \in Nat /\ Saliences \subseteq Nat 
    /\ RecentCap \in Nat /\ SalientCap \in Nat
    /\ PruneInterval \in Nat \ {0} /\ PruneBatch \in Nat \ {0}
    /\ MaxFaults \in Nat /\ MaxWipes \in Nat

VARIABLES
    appended,    \* episodes appended so far
    salience,    \* of each episode; constant in a run
    life,        \* ghost: episodes of this life, or restored into it
    rows,        \* episodes that have a row
    idOf,        \* the row id of each episode that had one
    nextId,
    sinceWrites, \* writes since the last pruning
    backup,      \* the last backup, as a set in a set; or {}
    async,       \* writes are deferred
    disordered,  \* ghost: ids may not follow the order of append
    faults, wipes

rowVars == <<appended, salience, life, rows, idOf, nextId, sinceWrites, backup,
             async, disordered, faults, wipes>>

Episodes == 1..MaxEpisodes

RowsInit ==
    /\ appended = 0 /\ salience \in [Episodes -> Saliences] /\ life = {}
    /\ rows = {} /\ idOf = [n \in Episodes |-> 0] /\ nextId = 0
    /\ sinceWrites = 0 /\ backup = {} /\ async \in BOOLEAN
    /\ disordered = FALSE /\ faults = 0 /\ wipes = 0

(* The episode n is more salient than m, or as salient and of later.       *)
Outranks(n, m) ==
    salience[n] > salience[m] \/ (salience[n] = salience[m] /\ n > m)

(* Seeded fault: the oldest ids are kept.                                  *)
FaultyRecentIds(S, ids) ==
    {ids[n] : n \in {x \in S : Cardinality({y \in S : ids[y] < ids[x]}) < RecentCap}}
(* Newest by id.                                                           *)
RecentIds(S, ids) ==
    {ids[n] : n \in {x \in S : Cardinality({y \in S : ids[y] > ids[x]}) < RecentCap}}
SalientIds(S, ids) ==
    {ids[n] : n \in {x \in S : Cardinality({y \in S : Outranks(y, x)}) < SalientCap}}

(* Of the rows S, those a pruning deletes: the weakest of what is neither  *)
(* recent nor salient, by their ids.                                       *)
Victims(S, ids) ==
    LET keep == RecentIds(S, ids) \cup SalientIds(S, ids)
        losers == {n \in S : ids[n] \notin keep}
        weakest == {n \in losers :
                       Cardinality({m \in losers : Outranks(n, m)}) < PruneBatch}
        doomed == {ids[n] : n \in weakest}
    IN  IF Cardinality(S) <= RecentCap + SalientCap THEN {}
        ELSE {n \in S : ids[n] \in doomed}

(* append() is called with one more episode.                               *)
New == appended + 1
Remember ==
    /\ appended < MaxEpisodes /\ appended' = New
    /\ life' = life \cup {New}
    /\ UNCHANGED <<salience, backup, async, wipes>>

Forgets ==
    /\ wipes < MaxWipes /\ wipes' = wipes + 1
    /\ UNCHANGED <<appended, salience, backup, faults>>
=============================================================================
