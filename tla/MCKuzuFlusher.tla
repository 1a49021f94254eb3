--------------------------- MODULE MCKuzuFlusher ---------------------------
(* Instances of KuzuFlusher for TLC.                                       *)
EXTENDS KuzuFlusher

CONSTANTS aNode, anEdge

OneNode == {aNode}
OneEdge == {anEdge}
EdgeEnds == [x \in {anEdge} |-> {aNode}]
TwoValues == 1..2
=============================================================================
