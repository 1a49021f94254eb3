------------------------ MODULE MCPrefetchSupervisor ------------------------
(* Instances of PrefetchSupervisor for TLC.                                *)
EXTENDS PrefetchSupervisor

Flag(p, o, c) == [priority |-> p, overflow |-> o, o1 |-> TRUE, policy |-> c]

(* The default, priorities without overflow, and parity with each policy   *)
(* and each way to select.                                                 *)
MCConfigs == {Flag(TRUE, TRUE, "freshest"), Flag(TRUE, FALSE, "freshest"),
              Flag(FALSE, FALSE, "freshest"),
              [Flag(FALSE, FALSE, "oldest") EXCEPT !.o1 = FALSE]}

(* Nothing of note, a salient motion, and a weaker urgent event.           *)
MCTags == {Untagged, [salience |-> 3, urgent |-> FALSE],
           [salience |-> 1, urgent |-> TRUE]}
=============================================================================
