------------------------------ MODULE NodeLoop ------------------------------
(***************************************************************************)
(* The goroutines of one node and the channels between them: the failure   *)
(* detector, the loop of the server that hands out everything the node     *)
(* produces (lab6/network/server.go, srvHandleThisNodeOutMsg), the         *)
(* proposer, the acceptor and the learner.  What the protocol decides with *)
(* a message is left open here: who waits for whom is the subject.  The    *)
(* peers may crash; a message from a peer is brought by a goroutine of its *)
(* own, which may wait without holding up anything.                        *)
(* A write to the connection of a peer returns.                            *)
(***************************************************************************)
EXTENDS Detector

CONSTANTS
    Running,    \* the peers that run at the start
    Burst,      \* how many requests, promises and votes there are at most
    PromiseCap, \* places of promiseIn (8 in the code)
    LdrCap,     \* places of SrvLdrIn (1 in the code)
    ChosenCap   \* places of ChosenValOut (1 in the code)

ASSUME NodeAssumption ==
    /\ Running \subseteq Node \ {Self}
    /\ Burst \in Nat
    /\ {PromiseCap, LdrCap, ChosenCap} \subseteq Nat \ {0}

VARIABLES
    up,             \* the peers that run
    asked,          \* peers with a request of this node to answer
    brought,        \* how many requests, promises and votes there were
    pLeader, pPc,   \* p.leader; "select", or "tell" while it sends to SrvLdrIn
    promiseIn,      \* how many promises wait for the proposer
    srvLdrIn,       \* leaders on their way from the proposer to the server
    curLeader,      \* srv.curLeader
    srvPc,          \* "select", or what the server loop waits for
    lnPc,           \* "select", or "send" while the learner sends a decision
    chosenValOut    \* how many decisions wait for the server loop

proposerVars == <<pLeader, pPc, promiseIn>>
learnerVars == <<lnPc>>
envVars == <<up, asked, brought>>
serverVars == <<curLeader, srvPc>>
channels == <<srvLdrIn, chosenValOut>>
vars == <<detectorVars, envVars, proposerVars, learnerVars, serverVars, channels>>

Init ==
    /\ DetectorInit
    /\ up = Running /\ asked = {} /\ brought = 0
    /\ pLeader = ld.leaderID /\ pPc = "select" /\ promiseIn = 0
    /\ lnPc = "select"
    /\ curLeader = Self /\ srvPc = "select"
    /\ srvLdrIn = <<>> /\ chosenValOut = 0

\* The protocol makes something for this node to do.
Brings == brought < Burst /\ brought' = brought + 1

-----------------------------------------------------------------------------
\* The server loop.

\* case hbFD := <-srv.srvCh.HbOut.  What happens to a reply, or to a request to a
\* peer that has crashed, is of no more concern to this node.
TakeHeartbeat ==
    /\ srvPc = "select" /\ hbOut # <<>>
    /\ hbOut' = Tail(hbOut)
    /\ LET hb == Head(hbOut) IN
       IF hb = [node |-> Self, Request |-> TRUE]
       THEN srvPc' = "hbIn" /\ UNCHANGED asked
       ELSE /\ asked' = IF hb.Request THEN asked \cup ({hb.node} \cap up) ELSE asked
            /\ UNCHANGED srvPc
    /\ UNCHANGED <<fdVars, hbIn, trustMsgs, up, brought, proposerVars, learnerVars, curLeader, channels>>

\* Mutant: the detector's channel has no bound.
DeliverHeartbeat_unbounded ==
    /\ srvPc = "hbIn"
    /\ hbIn' = Append(hbIn, [node |-> Self, Request |-> FALSE])
    /\ srvPc' = "select"
    /\ UNCHANGED <<fdVars, hbOut, trustMsgs, envVars, proposerVars, learnerVars, curLeader, channels>>

DeliverHeartbeat ==
    /\ srvPc = "hbIn" /\ Len(hbIn) < HbInCap
    /\ hbIn' = Append(hbIn, [node |-> Self, Request |-> FALSE])
    /\ srvPc' = "select"
    /\ UNCHANGED <<fdVars, hbOut, trustMsgs, envVars, proposerVars, learnerVars, curLeader, channels>>

\* cases promiseOut and learnOut, channels of 1,000,000 places that may hold
\* anything.  (The acceptor never waits: it takes what prepareOut and acceptOut
\* hold at once.)
TakeMessage ==
    /\ srvPc = "select" /\ srvPc' \in {"promise", "learn"} /\ Brings
    /\ UNCHANGED <<detectorVars, up, asked, proposerVars, learnerVars, curLeader, channels>>

DeliverPromise ==
    /\ srvPc = "promise" /\ srvPc' = "select"
    /\ promiseIn < PromiseCap /\ promiseIn' = promiseIn + 1
    /\ UNCHANGED <<detectorVars, envVars, pLeader, pPc, learnerVars, curLeader, channels>>

\* The learner takes a vote, which may decide: its channel has no places.
handleLearn == lnPc = "select" /\ lnPc' \in {"select", "send"}

DeliverLearn ==
    /\ srvPc = "learn" /\ handleLearn /\ srvPc' = "select"
    /\ UNCHANGED <<detectorVars, envVars, proposerVars, curLeader, channels>>

\* case dcdVal := <-srv.srvCh.ChosenValOut: listed, or applied and to count.
TakeDecided ==
    /\ srvPc = "select" /\ chosenValOut > 0
    /\ chosenValOut' = chosenValOut - 1
    /\ srvPc' \in {"select", "inc"}
    /\ UNCHANGED <<detectorVars, envVars, proposerVars, learnerVars, curLeader, srvLdrIn>>

\* Mutant: a proposer that does not lead leaves the increments alone.
IncrementAllDecidedUpTo_leading ==
    /\ srvPc = "inc" /\ pPc = "select" /\ pLeader = Self
    /\ srvPc' \in {"select", "inc"}
    /\ UNCHANGED <<detectorVars, envVars, proposerVars, learnerVars, curLeader, channels>>

\* Mutant: incDcd is a channel with places, and the server goes on at once.
IncrementAllDecidedUpTo_buffered ==
    /\ srvPc = "inc"
    /\ srvPc' \in {"select", "inc"}
    /\ UNCHANGED <<detectorVars, envVars, proposerVars, learnerVars, curLeader, channels>>

\* The rendezvous with the proposer; then the server may find a value of its
\* list to apply and count.
IncrementAllDecidedUpTo ==
    /\ srvPc = "inc" /\ pPc = "select"
    /\ srvPc' \in {"select", "inc"}
    /\ UNCHANGED <<detectorVars, envVars, proposerVars, learnerVars, curLeader, channels>>

\* case gotLeader = <-srv.srvCh.SrvLdrIn
TakeLeader ==
    /\ srvPc = "select" /\ srvLdrIn # <<>>
    /\ curLeader' = Head(srvLdrIn) /\ srvLdrIn' = Tail(srvLdrIn)
    /\ UNCHANGED <<detectorVars, envVars, proposerVars, learnerVars, srvPc, chosenValOut>>

-----------------------------------------------------------------------------
\* The proposer and the learner.

\* case prm := <-p.promiseIn
TakePromise ==
    /\ pPc = "select" /\ promiseIn > 0 /\ promiseIn' = promiseIn - 1
    /\ UNCHANGED <<detectorVars, envVars, pLeader, pPc, learnerVars, serverVars, channels>>

\* case leader := <-trustMsgs, up to the send to the server
Trust ==
    /\ pPc = "select" /\ trustMsgs # <<>>
    /\ pLeader' = Head(trustMsgs) /\ trustMsgs' = Tail(trustMsgs) /\ pPc' = "tell"
    /\ UNCHANGED <<fdVars, hbIn, hbOut, envVars, promiseIn, learnerVars, serverVars, channels>>

\* Mutant: the server is told only when this node is to lead.
TellServer_leading ==
    /\ pPc = "tell" /\ Len(srvLdrIn) < LdrCap
    /\ srvLdrIn' = IF pLeader = Self THEN Append(srvLdrIn, pLeader) ELSE srvLdrIn
    /\ pPc' = "select"
    /\ UNCHANGED <<detectorVars, envVars, pLeader, promiseIn, learnerVars, serverVars, chosenValOut>>

\* p.Server_Leader <- p.leader, and what follows
TellServer ==
    /\ pPc = "tell" /\ Len(srvLdrIn) < LdrCap
    /\ srvLdrIn' = Append(srvLdrIn, pLeader) /\ pPc' = "select"
    /\ UNCHANGED <<detectorVars, envVars, pLeader, promiseIn, learnerVars, serverVars, chosenValOut>>

SendDecision ==
    /\ lnPc = "send" /\ lnPc' = "select"
    /\ chosenValOut < ChosenCap /\ chosenValOut' = chosenValOut + 1
    /\ UNCHANGED <<detectorVars, envVars, proposerVars, serverVars, srvLdrIn>>

-----------------------------------------------------------------------------
\* Who waits for whom.

ProposerWaits == pPc = "tell" /\ Len(srvLdrIn) = LdrCap
LearnerWaits == lnPc = "send" /\ chosenValOut = ChosenCap
DetectorWaits ==
    \/ fdWaitsFor("HbOut", Len(hbOut) < HbOutCap)
    \/ fdWaitsFor("proposer", Len(trustMsgs) < SubCap) /\ ProposerWaits

\* The server loop waits for a goroutine that waits for the server loop.
Stuck ==
    \/ srvPc = "inc" /\ ProposerWaits
    \/ srvPc = "promise" /\ promiseIn = PromiseCap /\ ProposerWaits
    \/ srvPc = "learn" /\ LearnerWaits
    \/ srvPc = "hbIn" /\ Len(hbIn) = HbInCap /\ DetectorWaits

-----------------------------------------------------------------------------
\* The peers and the time.

\* A goroutine of srvHandlePeerInMsg gets its heartbeat into hbIn.
PeerBrings(q, request) ==
    /\ q \in up /\ Len(hbIn) < HbInCap
    /\ hbIn' = Append(hbIn, [node |-> q, Request |-> request])
    /\ UNCHANGED <<fdVars, hbOut, trustMsgs, up, proposerVars, learnerVars, serverVars, channels>>

PeerRequests == Brings /\ UNCHANGED asked /\ \E q \in Node : PeerBrings(q, TRUE)

PeerReplies(q) == UNCHANGED brought /\ q \in asked /\ asked' = asked \ {q} /\ PeerBrings(q, FALSE)

PeerPromise ==
    /\ Brings /\ promiseIn < PromiseCap /\ promiseIn' = promiseIn + 1
    /\ UNCHANGED <<detectorVars, up, asked, pLeader, pPc, learnerVars, serverVars, channels>>

PeerVote ==
    /\ Brings /\ handleLearn
    /\ UNCHANGED <<detectorVars, up, asked, proposerVars, serverVars, channels>>

Crash ==
    /\ \E q \in up : up' = up \ {q} /\ asked' = asked \ {q}
    /\ UNCHANGED <<detectorVars, brought, proposerVars, learnerVars, serverVars, channels>>

\* case <-e.timeoutSignal.C.  With the delay at Latency every node that runs has
\* answered the last round of requests by then, unless this node is stuck.
Timeout ==
    /\ delay < Latency \/ up \cup {Self} \subseteq alive \/ Stuck
    /\ timeout
    /\ UNCHANGED <<envVars, proposerVars, learnerVars, serverVars, channels>>

\* Nothing but the detectors' state and the channel they use changes.
FdStep(step) == step /\ UNCHANGED <<envVars, proposerVars, learnerVars, serverVars, channels>>

Next ==
    \/ TakeHeartbeat \/ DeliverHeartbeat \/ TakeMessage \/ DeliverPromise \/ DeliverLearn
    \/ TakeDecided \/ IncrementAllDecidedUpTo \/ TakeLeader
    \/ TakePromise \/ Trust \/ TellServer \/ SendDecision
    \/ PeerRequests \/ (\E q \in Node : PeerReplies(q)) \/ PeerPromise \/ PeerVote
    \/ Crash \/ Timeout
    \/ FdStep(HandleHeartbeat) \/ FdStep(SendNext)

Spec == Init /\ [][Next]_vars

\* A goroutine goes on when it can.  A select takes a case that is ready time and
\* again in the end, and the senders blocked on a channel are served in turn:
\* strong fairness.  A peer that runs answers.
Fairness ==
    /\ WF_vars(TakeHeartbeat \/ DeliverPromise \/ DeliverLearn \/ IncrementAllDecidedUpTo)
    /\ SF_vars(DeliverHeartbeat) /\ SF_vars(TakeDecided \/ TakeLeader)
    /\ WF_vars(TakePromise \/ Trust \/ TellServer) /\ WF_vars(SendDecision)
    /\ WF_vars(FdStep(SendNext) \/ Timeout) /\ SF_vars(FdStep(HandleHeartbeat))
    /\ \A q \in Running : SF_vars(PeerReplies(q))

FairSpec == Spec /\ Fairness

-----------------------------------------------------------------------------
TypeOK ==
    /\ alive \subseteq Node /\ suspected \subseteq Node /\ delay \in 1 .. Latency
    /\ ld \in [suspected : SUBSET Node, leaderID : Node \cup {UnknownID}]
    /\ hbIn \in Seq(Heartbeat) /\ Len(hbIn) <= HbInCap
    /\ hbOut \in Seq(Heartbeat) /\ Len(hbOut) <= HbOutCap
    /\ trustMsgs \in Seq(Node \cup {UnknownID}) /\ Len(trustMsgs) <= SubCap
    /\ up \subseteq Node /\ asked \subseteq up
    /\ {pLeader, curLeader} \subseteq Node \cup {UnknownID}
    /\ pPc \in {"select", "tell"} /\ lnPc \in {"select", "send"}
    /\ srvPc \in {"select", "hbIn", "promise", "learn", "inc"}
    /\ promiseIn \in 0 .. PromiseCap
    /\ chosenValOut \in 0 .. ChosenCap
    /\ srvLdrIn \in Seq(Node \cup {UnknownID}) /\ Len(srvLdrIn) <= LdrCap

\* The last leader on its way to the server is the proposer's.  But a server that
\* was told of none believes in itself, whoever leads (server.go:54).
LeaderReachesServer ==
    LET told == <<curLeader>> \o srvLdrIn \o IF pPc = "tell" THEN <<pLeader>> ELSE <<>> IN
    \/ Last(told) = pLeader
    \/ told = <<Self>> /\ pLeader = Highest(Node)

\* Once the server loop waits for a goroutine that waits for it, the node never
\* gets out of it (server.go:216, 270, 293, 303; proposer.go:145; ld.go:154).
StuckForGood == [][Stuck => Stuck']_vars

\* But for these four waits, what the loop hands to the detector, the proposer or the
\* learner is taken in the end.
ServerLoopReturns == srvPc # "select" ~> (srvPc = "select" \/ Stuck)

\* When no more nodes crash, in the end the detector suspects those that did and
\* no other, and the proposer follows the highest node that runs: the delay grows
\* until no reply comes late (fd.go:121-127, ld.go:134-160).
LeaderElected ==
    \/ <>[](suspected = Node \ (up \cup {Self}) /\ pLeader = Highest(up \cup {Self}))
    \/ <>Stuck
=============================================================================
