---------------------------- MODULE MCMultiPaxos ----------------------------
EXTENDS MultiPaxos, TLC

CONSTANTS v, w, x

\* Node 0 is brought v, node 1 is brought w, node 2 nothing.
LowRequests == [n \in Node |-> IF n = 0 THEN {v} ELSE IF n = 1 THEN {w} ELSE {}]

\* Node 1 is brought everything.
FirstRequests == [n \in Node |-> IF n = 1 THEN Value ELSE {}]

\* And one command is brought to node 2 too.
SharedRequests == [n \in Node |-> IF n = 1 THEN Value ELSE IF n = 2 THEN {v} ELSE {}]

\* Node 2 is brought both.
BothRequests == [n \in Node |-> IF n = 2 THEN {v, w} ELSE {}]

\* The leaders that the detectors publish.
FirstAndSecond == [n \in Node |-> {1, 2}]
First == [n \in Node |-> {1}]

\* Every node takes itself for the leader, for good.
Themselves == [n \in Node |-> {n}]

\* So do nodes 1 and 2, while node 0 may leave the lead to 2 and take it back.
Wavering == [n \in Node |-> IF n = 0 THEN {0, 2} ELSE {n}]

\* Which acceptors hear a proposer: all, the two last ones, or a majority with
\* one acceptor in common with that of every other proposer.
Everybody == [p \in Node |-> Node]
LastTwo == [p \in Node |-> {1, 2}]
Ring == [p \in Node |-> {p, (p + 1) % N}]

\* The same as UnheardSpec, with servers that count a slot only when it is decided.
OrderlySpec ==
    Init /\ [][Steps /\ \A n \in Node : adu'[n] # adu[n] => Decided(adu'[n])]_vars

\* v is brought to two nodes, the other commands to one.
Symmetry == Permutations(Value \ {v})
=============================================================================
