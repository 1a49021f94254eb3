----------------------------- MODULE EpisodeLog -----------------------------
(***************************************************************************)
(* What an episodic store promises, whatever its backend: episodes wait    *)
(* until they are stored; none is lost but by a write that fails or by     *)
(* retention, which leaves a minimum; a snapshot has all that was appended *)
(* before it; and nothing of before survives a clear or a restore.         *)
(***************************************************************************)
EXTENDS Integers, FiniteSets

CONSTANTS MaxEpisodes, MinKept

VARIABLES
    appended,  \* number of episodes appended
    waiting,   \* episodes accepted and not yet stored
    stored,    \* episodes in the database
    snapshot,  \* the last backup, as a set in a set; or {}
    faults     \* writes that have failed

vars == <<appended, waiting, stored, snapshot, faults>>

Init == appended = 0 /\ waiting = {} /\ stored = {} /\ snapshot = {} /\ faults = 0

(* An episode is appended, or some that waited are stored, or both; what   *)
(* is gone after that was pruned, or its write has failed.                 *)
Work ==
    /\ appended' \in {appended, appended + 1}
    /\ LET known == waiting \cup stored \cup ((appended + 1)..appended')
           gone == known \ (waiting' \cup stored')
       IN  /\ waiting' \subseteq known \ stored
           /\ stored' \subseteq known /\ waiting' \cap stored' = {}
           /\ gone # {} => faults' > faults \/ Cardinality(stored') >= MinKept
    /\ faults' >= faults
    /\ UNCHANGED snapshot

(* A backup waits for what waits.                                          *)
Snapshot ==
    /\ waiting' = {} /\ stored' = stored \cup waiting
    /\ snapshot' = {stored'}
    /\ UNCHANGED <<appended, faults>>

Clear ==
    /\ waiting' = {} /\ stored' = {}
    /\ UNCHANGED <<appended, snapshot, faults>>

Restore ==
    /\ waiting' = {} /\ stored' \in snapshot
    /\ UNCHANGED <<appended, snapshot, faults>>

Next == Work \/ Snapshot \/ Clear \/ Restore

Spec == Init /\ [][Next]_vars
=============================================================================
