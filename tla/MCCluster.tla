----------------------------- MODULE MCCluster ------------------------------
EXTENDS Cluster, TLC

CONSTANTS v, w

\* Node 2 is brought both commands, node 1 one of them.
SharedRequests == [n \in Node |-> IF n = 1 THEN {v} ELSE IF n = 2 THEN {v, w} ELSE {}]

\* The detectors publish one leader, after the initial one.
First == [n \in Node |-> {1}]

\* Nodes 1 and 2 hear the proposers.
LastTwo == [p \in Node |-> {1, 2}]
=============================================================================
