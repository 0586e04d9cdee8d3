----------------------------- MODULE MCReplica ------------------------------
(***************************************************************************)
(* Votes for the instances of Replica with three nodes.                    *)
(***************************************************************************)
EXTENDS Replica

CONSTANTS v, w

Command(s) == IF s % 2 = 1 THEN v ELSE w

Vote(a, s, r) ==
    [type |-> "LEARN", From |-> a, Slot |-> s, Rnd |-> r, Val |-> Command(s)]

\* All three nodes voted for the slots 1, 2, 3 in round 5.
OneRound == {Vote(a, s, 5) : a \in Node, s \in 1 .. 3}

\* Slot 1 was decided in round 5; then node 1, that had not learnt it, became
\* leader and proposed it again in round 7, and slot 2 after it.
TwoRounds == {Vote(a, 1, r) : a \in Node, r \in {5, 7}} \cup {Vote(a, 2, 7) : a \in Node}

\* In slot 1 node 0 voted for the command of node 1 in round 4 and heard
\* nothing of the command the others voted for in round 5, but voted in slot 2.
Contended ==
    {[Vote(0, 1, 4) EXCEPT !.Val = w]} \cup {Vote(a, 1, 5) : a \in {1, 2}}
    \cup {Vote(a, 2, 5) : a \in Node}

AllHistories == {OneRound, TwoRounds, Contended}

JustTwoRounds == {TwoRounds}
=============================================================================
