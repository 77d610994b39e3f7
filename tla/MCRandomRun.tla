---------------------------- MODULE MCRandomRun ----------------------------
(* RandomRun on two nodes with one component.                              *)
EXTENDS RandomRun

MCNode == {"node0", "node1"}
MCIndex == [n \in MCNode |-> IF n = "node0" THEN 0 ELSE 1]
MCComp == {"net"}

F(n, c, s) == [node |-> n, component |-> c, severity |-> s]

\* What random can return: no, one or both nodes fail.  In addition a recovery
\* next to a failure, a fault of a component next to a recovery, and a failure
\* and a recovery of one node.
MCBatches == {
    <<>>,
    <<F("node0", NULL, 100)>>,
    <<F("node1", NULL, 100)>>,
    <<F("node0", NULL, 100), F("node1", NULL, 100)>>,
    <<F("node1", NULL, 100), F("node0", NULL, 0)>>,
    <<F("node1", "net", 100), F("node0", NULL, 0)>>,
    <<F("node0", NULL, 100), F("node0", NULL, 0)>> }
=============================================================================
