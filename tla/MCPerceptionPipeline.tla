------------------------ MODULE MCPerceptionPipeline ------------------------
(* Instances of PerceptionPipeline for TLC.                                *)
EXTENDS PerceptionPipeline, TLC

CONSTANTS w1, w2, s1, s2

OneWorker == {w1}
TwoWorkers == {w1, w2}
OneSocket == {s1}
TwoSockets == {s1, s2}

OneTag == {Untagged}
TwoTags == {Untagged, [salience |-> 1, urgent |-> TRUE]}

Flag(p, o) == [priority |-> p, overflow |-> o, o1 |-> TRUE,
               policy |-> "freshest"]
DefaultConfig == {Flag(TRUE, TRUE)}
DefaultAndParity == {Flag(TRUE, TRUE), Flag(FALSE, FALSE)}

(* Workers are alike, and so are sockets: sound for safety only.           *)
Alike == Permutations({w1, w2}) \cup Permutations({s1, s2})
=============================================================================
