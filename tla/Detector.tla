------------------------------ MODULE Detector ------------------------------
(***************************************************************************)
(* The failure detector and the leader detector of one node                *)
(* (lab3/detector/fd.go, ld.go).  Both run in the failure detector's       *)
(* goroutine: it calls Suspect and Restore, and they publish a new leader. *)
(* Nothing but that goroutine sees what a timeout writes before the next   *)
(* message it sends, so a timeout writes everything at once and leaves in  *)
(* fdSends the messages to send, in order, each of which may block.        *)
(***************************************************************************)
EXTENDS Integers, Sequences, FiniteSets, SequencesExt

CONSTANTS
    N,          \* nodes 0 .. N - 1
    Self,       \* the node
    Latency,    \* the delay, in deltas, that every answer comes within
    HbInCap,    \* places of hbIn (8 in the code)
    HbOutCap,   \* places of HbOut (16 in the code)
    SubCap      \* places of a subscription (8 in the code)

ASSUME DetectorAssumption ==
    /\ N \in Nat \ {0} /\ Self \in 0 .. N - 1
    /\ {Latency, HbInCap, HbOutCap, SubCap} \subseteq Nat \ {0}

VARIABLES
    alive, suspected, delay,    \* the failure detector's
    ld,                         \* the leader detector: suspected, leaderID
    fdSends,                    \* what the timeout or the reply has left to send
    hbIn, hbOut,                \* channels of heartbeats
    trustMsgs                   \* the proposer's subscription

fdVars == <<alive, suspected, delay, ld, fdSends>>
detectorVars == <<fdVars, hbIn, hbOut, trustMsgs>>

Node == 0 .. N - 1
ClusterOfThree == [i \in 1 .. N |-> i - 1]
UnknownID == -1

\* A heartbeat, of which the node that is not this one and the kind matter.
Heartbeat == [node : Node, Request : BOOLEAN]

Highest(S) == IF S = {} THEN UnknownID ELSE CHOOSE p \in S : \A q \in S : q <= p

\* What the goroutine sends: a heartbeat to HbOut, a leader to its subscribers.
\* The application's loop does no more than store a leader, so that the other
\* subscription never holds the detector up and is left out.
ToHbOut(p, request) == [to |-> "HbOut", msg |-> [node |-> p, Request |-> request]]
Publication(leader) == <<[to |-> "proposer", msg |-> leader]>>

DetectorInit ==
    /\ alive = Node /\ suspected = {} /\ delay = 1
    /\ ld = [suspected |-> {}, leaderID |-> Highest(Node)]
    /\ fdSends = <<>> /\ hbIn = <<>> /\ hbOut = <<>> /\ trustMsgs = <<>>

-----------------------------------------------------------------------------
\* The leader detector: m is its state and what the caller has to send.

leaderElection(m) ==
    LET highestRank == Highest({p \in Node : p \notin m.suspected}) IN
    IF m.leaderID = highestRank THEN m
    ELSE [m EXCEPT !.leaderID = highestRank, !.sends = @ \o Publication(highestRank)]

Suspect(m, id) == leaderElection([m EXCEPT !.suspected = @ \cup {id}])

\* Mutant: no leader is elected when a node is heard again.
Restore_only(m, id) == [m EXCEPT !.suspected = @ \ {id}]

Restore(m, id) == leaderElection([m EXCEPT !.suspected = @ \ {id}])

\* One turn of the loop of timeout.
CheckNode(s, p) ==
    LET heard == CASE p \notin alive /\ p \notin s.fd ->
                        [s EXCEPT !.fd = @ \cup {p}, !.ld = Suspect(@, p)]
                   [] p \in alive /\ p \in s.fd ->
                        [s EXCEPT !.fd = @ \ {p}, !.ld = Restore(@, p)]
                   [] OTHER -> s
    IN [heard EXCEPT !.ld.sends = Append(@, ToHbOut(p, TRUE))]

\* Latency bounds the delay: beyond it the delay makes no difference.
nextDelay == IF alive \cap suspected # {} /\ delay < Latency THEN delay + 1 ELSE delay

\* How far the loop has come after the first i nodes.
checked[i \in 0 .. N] ==
    IF i = 0 THEN [fd |-> suspected, ld |-> [suspected |-> ld.suspected,
                                             leaderID |-> ld.leaderID, sends |-> <<>>]]
    ELSE CheckNode(checked[i - 1], ClusterOfThree[i])

timeout ==
    /\ fdSends = <<>>
    /\ delay' = nextDelay
    /\ suspected' = checked[N].fd
    /\ ld' = [suspected |-> checked[N].ld.suspected, leaderID |-> checked[N].ld.leaderID]
    /\ fdSends' = checked[N].ld.sends
    /\ alive' = {}
    /\ UNCHANGED <<hbIn, hbOut, trustMsgs>>

\* case hbRequest := <-e.hbIn
HandleHeartbeat ==
    /\ fdSends = <<>> /\ hbIn # <<>>
    /\ hbIn' = Tail(hbIn)
    /\ LET hb == Head(hbIn) IN
       \/ hb.Request /\ fdSends' = <<ToHbOut(hb.node, FALSE)>> /\ UNCHANGED alive
       \/ ~ hb.Request /\ alive' = alive \cup {hb.node} /\ UNCHANGED fdSends
    /\ UNCHANGED <<suspected, delay, ld, hbOut, trustMsgs>>

\* The next send goes through.
SendNext ==
    /\ fdSends # <<>>
    /\ fdSends' = Tail(fdSends)
    /\ LET s == Head(fdSends) IN
       \/ /\ s.to = "HbOut" /\ Len(hbOut) < HbOutCap
          /\ hbOut' = Append(hbOut, s.msg) /\ UNCHANGED trustMsgs
       \/ /\ s.to = "proposer" /\ Len(trustMsgs) < SubCap
          /\ trustMsgs' = Append(trustMsgs, s.msg) /\ UNCHANGED hbOut
    /\ UNCHANGED <<alive, suspected, delay, ld, hbIn>>

\* The goroutine waits for a place in a channel.
fdWaitsFor(to, room) == fdSends # <<>> /\ Head(fdSends).to = to /\ ~ room
=============================================================================
