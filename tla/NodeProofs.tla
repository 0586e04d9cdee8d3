----------------------------- MODULE NodeProofs -----------------------------
(***************************************************************************)
(* What holds of the loop of a node for channels of any size and any       *)
(* number of nodes: types and capacities, that the leader reaches the      *)
(* server, and that nothing gets a node out of a circular wait.            *)
(***************************************************************************)
EXTENDS NodeLoop, InductionProofs

-----------------------------------------------------------------------------
\* The types of what the detectors handle.
Leader == Node \cup {UnknownID}
Sendable == [to : {"HbOut"}, msg : Heartbeat] \cup [to : {"proposer"}, msg : Leader]
LdState == [suspected : SUBSET Node, leaderID : Leader, sends : Seq(Sendable)]
FdState == [fd : SUBSET Node, ld : LdState]

LEMMA HighestIsNode ==
    ASSUME NEW S \in SUBSET Node
    PROVE  Highest(S) \in Leader
<1>1. CASE S = {}
  BY <1>1 DEF Highest, Leader
<1>2. CASE S # {}
  <2>1. PICK T : T = {N - p : p \in S}
    OBVIOUS
  <2>2. T \in SUBSET Nat /\ T # {}
    <3>1. \A p \in S : N - p \in Nat
      BY DetectorAssumption DEF Node
    <3> QED BY <1>2, <2>1, <3>1
  <2>3. PICK m \in T : \A k \in T : m <= k
    BY <2>2, LeastOne
  <2>4. PICK p \in S : m = N - p
    BY <2>1, <2>3
  <2>5. ASSUME NEW q \in S PROVE q <= p
    <3>1. N - q \in T /\ q \in Int /\ p \in Int /\ N \in Int
      BY <2>1, DetectorAssumption DEF Node
    <3> QED BY <2>3, <2>4, <3>1
  <2>6. Highest(S) \in S
    BY <1>2, <2>5 DEF Highest
  <2> QED BY <2>6 DEF Leader
<1> QED BY <1>1, <1>2

LEMMA ElectionTypes ==
    ASSUME NEW m \in LdState, NEW S \in SUBSET Node, NEW r, r = [m EXCEPT !.suspected = S]
    PROVE  leaderElection(r) \in LdState
<1>1. r \in LdState
  BY DEF LdState
<1>2. PICK h \in Leader : h = Highest({p \in Node : p \notin r.suspected})
  BY HighestIsNode
<1>3. PICK s : s = r.sends \o Publication(h)
  OBVIOUS
<1>4. s \in Seq(Sendable)
  <2>1. Publication(h) \in Seq(Sendable)
    BY DEF Publication, Sendable
  <2> QED BY <1>1, <1>3, <2>1 DEF LdState
<1>5. [r EXCEPT !.leaderID = h, !.sends = s] \in LdState
  BY <1>1, <1>4 DEF LdState
<1>6. leaderElection(r) \in {r, [r EXCEPT !.leaderID = h, !.sends = s]}
  BY <1>2, <1>3 DEF leaderElection
<1> QED BY <1>1, <1>5, <1>6

LEMMA CheckTypes ==
    ASSUME NEW s \in FdState, NEW p \in Node
    PROVE  CheckNode(s, p) \in FdState
<1>1. Suspect(s.ld, p) \in LdState /\ Restore(s.ld, p) \in LdState
  BY ElectionTypes DEF Suspect, Restore, FdState, LdState
<1> DEFINE heard == CASE p \notin alive /\ p \notin s.fd ->
                        [s EXCEPT !.fd = @ \cup {p}, !.ld = Suspect(@, p)]
                   [] p \in alive /\ p \in s.fd ->
                        [s EXCEPT !.fd = @ \ {p}, !.ld = Restore(@, p)]
                   [] OTHER -> s
<1>2. heard \in FdState
  BY <1>1 DEF FdState
<1>3. ToHbOut(p, TRUE) \in Sendable
  BY DEF ToHbOut, Sendable, Heartbeat
<1>4. CheckNode(s, p) = [heard EXCEPT !.ld.sends = Append(@, ToHbOut(p, TRUE))]
  BY DEF CheckNode
<1> HIDE DEF heard
<1>5. PICK sends \in Seq(Sendable) : sends = Append(heard.ld.sends, ToHbOut(p, TRUE))
  <2>1. PICK x \in Seq(Sendable) : x = heard.ld.sends
    BY <1>2 DEF FdState, LdState
  <2>2. PICK y \in Sendable : y = ToHbOut(p, TRUE)
    BY <1>3
  <2>3. Append(x, y) \in Seq(Sendable)
    OBVIOUS
  <2> QED BY <2>1, <2>2, <2>3
<1>6. CheckNode(s, p) = [heard EXCEPT !.ld.sends = sends]
  BY <1>2, <1>4, <1>5 DEF FdState, LdState
<1> QED BY <1>2, <1>6 DEF FdState, LdState

-----------------------------------------------------------------------------

DetectorTypes ==
    /\ alive \subseteq Node /\ suspected \subseteq Node /\ delay \in 1 .. Latency
    /\ ld \in [suspected : SUBSET Node, leaderID : Leader]
    /\ fdSends \in Seq(Sendable)
    /\ hbIn \in Seq(Heartbeat) /\ Len(hbIn) <= HbInCap
    /\ hbOut \in Seq(Heartbeat) /\ Len(hbOut) <= HbOutCap
    /\ trustMsgs \in Seq(Leader) /\ Len(trustMsgs) <= SubCap

\* The loop of the timeout over the nodes.
LEMMA CheckedTypes ==
    ASSUME DetectorTypes
    PROVE  checked[N] \in FdState
<1> DEFINE start == [fd |-> suspected, ld |-> [suspected |-> ld.suspected,
                                               leaderID |-> ld.leaderID, sends |-> <<>>]]
           step == [i \in 1 .. N |-> [s \in FdState |-> CheckNode(s, ClusterOfThree[i])]]
           Loop(t) == t = [i \in 0 .. N |-> IF i = 0 THEN start
                                            ELSE CheckNode(t[i - 1], ClusterOfThree[i])]
<1>1. start \in FdState
  BY DEF DetectorTypes, FdState, LdState
<1>2. N \in Nat
  BY DetectorAssumption
<1>3. \A i \in 1 .. N : ClusterOfThree[i] \in Node
  BY <1>2 DEF ClusterOfThree, Node
<1>4. step \in [1 .. N -> [FdState -> FdState]]
  BY <1>3, CheckTypes
<1>5. \A i \in 1 .. N, s \in FdState : step[i][s] = CheckNode(s, ClusterOfThree[i])
  OBVIOUS
<1>6. checked = CHOOSE t : Loop(t)
  BY DEF checked
<1> HIDE DEF start, step
<1>7. PICK t : Iterates(t, N, start, step)
  BY <1>1, <1>2, <1>4, IterationExists
<1>8. t \in [0 .. N -> FdState]
  BY <1>1, <1>2, <1>4, <1>7, IterationStays
<1>9. Loop(t)
  <2>1. ASSUME NEW i \in 0 .. N
        PROVE  t[i] = IF i = 0 THEN start ELSE CheckNode(t[i - 1], ClusterOfThree[i])
    <3>1. t[i] = IF i = 0 THEN start ELSE step[i][t[i - 1]]
      BY <1>7 DEF Iterates
    <3>2. i # 0 => i \in 1 .. N /\ t[i - 1] \in FdState
      BY <1>2, <1>8
    <3> QED BY <1>5, <3>1, <3>2
  <2> QED BY <1>8, <2>1
<1>10. Loop(checked)
  BY <1>6, <1>9
<1>11. checked \in [0 .. N -> FdState]
  <2> DEFINE Bad == {i \in 0 .. N : checked[i] \notin FdState}
  <2>1. SUFFICES ASSUME Bad # {} PROVE FALSE
    BY <1>10
  <2>2. PICK m \in Bad : \A k \in Bad : m <= k
    <3>1. Bad \in SUBSET Nat
      BY <1>2
    <3> HIDE DEF Bad
    <3> QED BY <2>1, <3>1, LeastOne
  <2>3. m # 0
    BY <1>1, <1>2, <1>10, <2>2
  <2>4. m - 1 \in 0 .. N /\ m \in 1 .. N /\ m - 1 \notin Bad
    BY <1>2, <2>2, <2>3
  <2>5. checked[m] = CheckNode(checked[m - 1], ClusterOfThree[m])
    BY <1>10, <2>2, <2>3
  <2> QED BY <1>3, <2>2, <2>4, <2>5, CheckTypes
<1> QED BY <1>2, <1>11

-----------------------------------------------------------------------------
LoopTypes ==
    /\ up \subseteq Node /\ asked \subseteq up
    /\ pLeader \in Leader /\ pPc \in {"select", "tell"}
    /\ lnPc \in {"select", "send"}
    /\ curLeader \in Leader
    /\ srvPc \in {"select", "hbIn", "promise", "learn", "inc"}
    /\ promiseIn \in 0 .. PromiseCap
    /\ chosenValOut \in 0 .. ChosenCap
    /\ srvLdrIn \in Seq(Leader) /\ Len(srvLdrIn) <= LdrCap

LEMMA InitTypes == Init => DetectorTypes /\ LoopTypes
<1> SUFFICES ASSUME Init PROVE DetectorTypes /\ LoopTypes
  OBVIOUS
<1>1. {Latency, HbInCap, HbOutCap, SubCap, PromiseCap, LdrCap, ChosenCap} \subseteq Nat \ {0}
  BY DetectorAssumption, NodeAssumption
<1>2. Highest(Node) \in Leader /\ Self \in Leader
  BY HighestIsNode, DetectorAssumption DEF Leader, Node
<1>3. DetectorTypes
  BY <1>1, <1>2 DEF Init, DetectorInit, DetectorTypes
<1>4. LoopTypes
  BY <1>1, <1>2, NodeAssumption DEF Init, DetectorInit, LoopTypes
<1> QED BY <1>3, <1>4

LEMMA NextTypes ==
    DetectorTypes /\ LoopTypes /\ [Next]_vars => DetectorTypes' /\ LoopTypes'
<1> SUFFICES ASSUME DetectorTypes, LoopTypes, [Next]_vars PROVE DetectorTypes' /\ LoopTypes'
  OBVIOUS
<1>0. {Latency, HbInCap, HbOutCap, SubCap, PromiseCap, LdrCap, ChosenCap} \subseteq Nat
  BY DetectorAssumption, NodeAssumption
<1> USE <1>0 DEF DetectorTypes, LoopTypes
<1>1. CASE TakeHeartbeat
  BY <1>1 DEF TakeHeartbeat, Heartbeat, fdVars, proposerVars, learnerVars, channels
<1>2. CASE DeliverHeartbeat
  <2>1. PICK hb \in Heartbeat : hb = [node |-> Self, Request |-> FALSE]
    BY DetectorAssumption DEF Heartbeat, Node
  <2>2. hbIn' \in Seq(Heartbeat) /\ Len(hbIn') <= HbInCap
    BY <1>2, <2>1 DEF DeliverHeartbeat
  <2> QED
    BY <1>2, <2>2 DEF DeliverHeartbeat, fdVars, envVars, proposerVars, learnerVars, channels
<1>3. CASE TakeMessage
  BY <1>3 DEF TakeMessage, detectorVars, fdVars, proposerVars, learnerVars, channels
<1>4. CASE DeliverLearn
  BY <1>4 DEF DeliverLearn, handleLearn, detectorVars, fdVars, envVars, proposerVars, channels
<1>19. CASE DeliverPromise
  BY <1>19 DEF DeliverPromise, detectorVars, fdVars, envVars, learnerVars, channels
<1>20. CASE TakePromise
  BY <1>20 DEF TakePromise, detectorVars, fdVars, envVars, learnerVars, serverVars, channels
<1>21. CASE PeerPromise
  <2>1. promiseIn' \in 0 .. PromiseCap
    BY <1>0, <1>21 DEF PeerPromise
  <2>2. DetectorTypes'
    BY <1>21 DEF PeerPromise, detectorVars, fdVars
  <2>3. LoopTypes'
    BY <1>21, <2>1 DEF PeerPromise, learnerVars, serverVars, channels
  <2> QED BY <2>2, <2>3
<1>5. CASE TakeDecided
  BY <1>5 DEF TakeDecided, detectorVars, fdVars, envVars, proposerVars, learnerVars
<1>6. CASE IncrementAllDecidedUpTo
  BY <1>6 DEF IncrementAllDecidedUpTo, detectorVars, fdVars, envVars, proposerVars, learnerVars, channels
<1>7. CASE TakeLeader
  BY <1>7 DEF TakeLeader, detectorVars, fdVars, envVars, proposerVars, learnerVars
<1>8. CASE Trust
  <2>1. pLeader' \in Leader /\ trustMsgs' \in Seq(Leader) /\ Len(trustMsgs') <= SubCap
    BY <1>8 DEF Trust
  <2>2. DetectorTypes'
    BY <1>8, <2>1 DEF Trust, fdVars
  <2>3. LoopTypes'
    BY <1>8, <2>1 DEF Trust, envVars, learnerVars, serverVars, channels
  <2> QED BY <2>2, <2>3
<1>9. CASE TellServer
  <2>1. srvLdrIn' \in Seq(Leader) /\ Len(srvLdrIn') <= LdrCap
    BY <1>9 DEF TellServer
  <2>2. DetectorTypes'
    BY <1>9 DEF TellServer, detectorVars, fdVars
  <2>3. LoopTypes'
    BY <1>9, <2>1 DEF TellServer, envVars, learnerVars, serverVars
  <2> QED BY <2>2, <2>3
<1>10. CASE SendDecision
  BY <1>10 DEF SendDecision, detectorVars, fdVars, envVars, proposerVars, serverVars
<1>11. ASSUME NEW q, NEW r \in BOOLEAN, PeerBrings(q, r), asked' \subseteq asked
       PROVE  DetectorTypes' /\ LoopTypes'
  BY <1>11 DEF PeerBrings, Heartbeat, fdVars, proposerVars, learnerVars, serverVars, channels
<1>12. CASE PeerRequests \/ \E q \in Node : PeerReplies(q)
  BY <1>11, <1>12 DEF PeerRequests, PeerReplies
<1>13. CASE PeerVote
  BY <1>13 DEF PeerVote, handleLearn, detectorVars, fdVars, proposerVars, serverVars, channels
<1>14. CASE Crash
  BY <1>14 DEF Crash, detectorVars, fdVars, proposerVars, learnerVars, serverVars, channels
<1>15. CASE Timeout
  <2>1. LoopTypes'
    BY <1>15 DEF Timeout, envVars, proposerVars, learnerVars, serverVars, channels
  <2>2. PICK s \in FdState : s = checked[N]
    BY CheckedTypes
  <2>3. /\ suspected' = s.fd /\ fdSends' = s.ld.sends /\ alive' = {}
        /\ ld' = [suspected |-> s.ld.suspected, leaderID |-> s.ld.leaderID]
        /\ UNCHANGED <<hbIn, hbOut, trustMsgs>>
    BY <1>15, <2>2 DEF Timeout, timeout
  <2>4. delay' \in 1 .. Latency
    BY <1>15 DEF Timeout, timeout, nextDelay
  <2>5. s.fd \in SUBSET Node /\ s.ld.suspected \in SUBSET Node /\ s.ld.leaderID \in Leader
        /\ s.ld.sends \in Seq(Sendable)
    BY DEF FdState, LdState
  <2>6. DetectorTypes'
    BY <2>3, <2>4, <2>5
  <2> QED BY <2>1, <2>6
<1>16. CASE FdStep(HandleHeartbeat)
  <2>1. LoopTypes'
    BY <1>16 DEF FdStep, envVars, proposerVars, learnerVars, serverVars, channels
  <2>2. Head(hbIn) \in Heartbeat /\ hbIn' \in Seq(Heartbeat) /\ Len(hbIn') <= HbInCap
    BY <1>16 DEF FdStep, HandleHeartbeat
  <2>3. <<ToHbOut(Head(hbIn).node, FALSE)>> \in Seq(Sendable)
    BY <2>2 DEF ToHbOut, Sendable, Heartbeat
  <2>4. alive' \subseteq Node /\ fdSends' \in Seq(Sendable)
    BY <1>16, <2>2, <2>3 DEF FdStep, HandleHeartbeat, Heartbeat
  <2>5. DetectorTypes'
    BY <1>16, <2>2, <2>4 DEF FdStep, HandleHeartbeat
  <2> QED BY <2>1, <2>5
<1>17. CASE FdStep(SendNext)
  <2>1. LoopTypes'
    BY <1>17 DEF FdStep, envVars, proposerVars, learnerVars, serverVars, channels
  <2>2. Head(fdSends) \in Sendable /\ fdSends' \in Seq(Sendable)
    BY <1>17 DEF FdStep, SendNext
  <2>3. /\ Head(fdSends).to = "HbOut" => Head(fdSends).msg \in Heartbeat
        /\ Head(fdSends).to = "proposer" => Head(fdSends).msg \in Leader
    BY <2>2 DEF Sendable
  <2>4. PICK m : m = Head(fdSends).msg
    OBVIOUS
  <2>5. CASE m \in Heartbeat /\ Len(hbOut) < HbOutCap /\ hbOut' = Append(hbOut, m) /\ UNCHANGED trustMsgs
    <3>1. hbOut' \in Seq(Heartbeat) /\ Len(hbOut') <= HbOutCap
      BY <2>5
    <3> QED BY <1>17, <2>1, <2>2, <2>5, <3>1 DEF FdStep, SendNext
  <2>6. CASE m \in Leader /\ Len(trustMsgs) < SubCap /\ trustMsgs' = Append(trustMsgs, m) /\ UNCHANGED hbOut
    <3>1. trustMsgs' \in Seq(Leader) /\ Len(trustMsgs') <= SubCap
      BY <2>6
    <3> QED BY <1>17, <2>1, <2>2, <2>6, <3>1 DEF FdStep, SendNext
  <2> QED BY <1>17, <2>1, <2>3, <2>4, <2>5, <2>6 DEF FdStep, SendNext
<1>18. CASE UNCHANGED vars
  BY <1>18 DEF vars, detectorVars, fdVars, envVars, proposerVars, learnerVars, serverVars, channels
<1> QED
  BY <1>1, <1>2, <1>3, <1>4, <1>5, <1>6, <1>7, <1>8, <1>9, <1>10, <1>12, <1>13, <1>14, <1>15,
     <1>16, <1>17, <1>18, <1>19, <1>20, <1>21 DEF Next

\* No channel ever holds more than its places, and a leader or a node that is sent or
\* kept is one, for any number of nodes and any capacities.
THEOREM NodeTypes == Spec => []TypeOK
<1>1. DetectorTypes /\ LoopTypes => TypeOK
  BY DEF DetectorTypes, LoopTypes, TypeOK, Leader
<1> QED BY <1>1, InitTypes, NextTypes, PTL DEF Spec

-----------------------------------------------------------------------------
\* The last of the leaders that the server knows, is sent and is to be sent.
LEMMA NewestLeader ==
    ASSUME NEW c \in Leader, NEW q \in Seq(Leader), NEW p \in Leader
    PROVE  /\ Last(<<c>> \o q \o <<p>>) = p
           /\ Last(<<c>> \o q \o <<>>) = IF q = <<>> THEN c ELSE q[Len(q)]
           /\ q = <<>> => <<c>> \o q \o <<>> = <<c>>
<1>1. PICK u \in Seq(Leader) : u = <<c>> \o q
  <2>1. <<c>> \in Seq(Leader)
    OBVIOUS
  <2> QED BY <2>1, ConcatProperties
<1>2. /\ Len(u) = Len(q) + 1 /\ u[1] = c
      /\ q # <<>> => u[Len(u)] = q[Len(q)]
  BY <1>1
<1>3. u \o <<>> = u
  BY ConcatEmptySeq
<1>4. Last(u \o <<p>>) = p
  BY DEF Last
<1>5. q = <<>> => Len(u) = 1
  BY <1>2
<1>6. Len(u) = 1 /\ u[1] = c => u = <<c>>
  OBVIOUS
<1> QED BY <1>1, <1>2, <1>3, <1>4, <1>5, <1>6 DEF Last

\* LeaderReachesServer by cases.
Reaches(pc, l, q, c) ==
    \/ pc = "tell"
    \/ pc = "select" /\ q = <<>> /\ (c = l \/ (c = Self /\ l = Highest(Node)))
    \/ pc = "select" /\ q # <<>> /\ q[Len(q)] = l

\* The server comes to know of the leader that its proposer follows: what it knows, or
\* the last leader on its way to it, is the proposer's - unless it was told of none
\* (proposer.go:141-146, server.go:54, 167).
THEOREM ReachesServer == Spec => []LeaderReachesServer
<1> DEFINE Inv == Reaches(pPc, pLeader, srvLdrIn, curLeader)
<1>1. Init => Inv
  BY DEF Init, DetectorInit, Reaches
<1>2. LoopTypes /\ Inv /\ [Next]_vars => Inv'
  <2> SUFFICES ASSUME LoopTypes, Inv, [Next]_vars PROVE Inv'
    OBVIOUS
  <2>1. CASE UNCHANGED <<pPc, pLeader, srvLdrIn, curLeader>>
    BY <2>1
  <2>2. CASE Trust
    BY <2>2 DEF Trust, Reaches
  <2>3. CASE TellServer
    <3>1. /\ srvLdrIn' # <<>> /\ srvLdrIn'[Len(srvLdrIn')] = pLeader
      BY <2>3 DEF TellServer, LoopTypes
    <3> QED BY <2>3, <3>1 DEF TellServer, Reaches
  <2>4. CASE TakeLeader
    <3>1. srvLdrIn # <<>> /\ srvLdrIn' = Tail(srvLdrIn) /\ curLeader' = Head(srvLdrIn)
          /\ UNCHANGED <<pPc, pLeader>>
      BY <2>4 DEF TakeLeader, proposerVars
    <3>2. CASE Len(srvLdrIn) = 1
      <4>1. srvLdrIn' = <<>> /\ curLeader' = srvLdrIn[Len(srvLdrIn)]
        BY <3>1, <3>2 DEF LoopTypes
      <4>2. pPc = "tell" \/ srvLdrIn[Len(srvLdrIn)] = pLeader
        BY <3>1 DEF Reaches
      <4>3. pPc' = "tell" \/ (pPc' = "select" /\ curLeader' = pLeader')
        BY <3>1, <4>1, <4>2 DEF LoopTypes
      <4> QED BY <4>1, <4>3 DEF Reaches
    <3>3. CASE Len(srvLdrIn) # 1
      <4>1. srvLdrIn' # <<>> /\ srvLdrIn'[Len(srvLdrIn')] = srvLdrIn[Len(srvLdrIn)]
        <5>1. PICK q \in Seq(Leader) : q = srvLdrIn
          BY DEF LoopTypes
        <5>2. Len(q) \in Nat /\ Len(q) > 1
          BY <3>1, <3>3, <5>1, EmptySeq
        <5>3. PICK t \in Seq(Leader) : t = Tail(q)
          BY <3>1, <5>1
        <5>4. Len(t) = Len(q) - 1 /\ \A i \in 1 .. Len(q) - 1 : t[i] = q[i + 1]
          BY <5>2, <5>3
        <5>5. t # <<>> /\ t[Len(t)] = q[Len(q)]
          BY <5>2, <5>4
        <5> QED BY <3>1, <5>1, <5>3, <5>5
      <4> QED BY <3>1, <4>1 DEF Reaches
    <3> QED BY <3>2, <3>3
  <2>5. CASE TakeHeartbeat \/ DeliverHeartbeat \/ TakeMessage \/ DeliverLearn \/ TakeDecided
    BY <2>1, <2>5 DEF TakeHeartbeat, DeliverHeartbeat, TakeMessage, DeliverLearn, TakeDecided, proposerVars, channels
  <2>6. CASE IncrementAllDecidedUpTo \/ SendDecision \/ PeerVote \/ Crash \/ Timeout
    BY <2>1, <2>6 DEF IncrementAllDecidedUpTo, SendDecision, PeerVote, Crash, Timeout, proposerVars, channels, serverVars
  <2>7. CASE PeerRequests \/ \E q \in Node : PeerReplies(q)
    BY <2>1, <2>7 DEF PeerRequests, PeerReplies, PeerBrings, proposerVars, channels, serverVars
  <2>8. CASE FdStep(HandleHeartbeat) \/ FdStep(SendNext)
    BY <2>1, <2>8 DEF FdStep, proposerVars, channels, serverVars
  <2>10. CASE DeliverPromise \/ TakePromise \/ PeerPromise
    BY <2>1, <2>10 DEF DeliverPromise, TakePromise, PeerPromise, channels, serverVars
  <2>9. CASE UNCHANGED vars
    BY <2>1, <2>9 DEF vars, proposerVars, channels, serverVars
  <2> QED BY <2>2, <2>3, <2>4, <2>5, <2>6, <2>7, <2>8, <2>9, <2>10 DEF Next
<1>3. LoopTypes /\ Inv => LeaderReachesServer
  <2> SUFFICES ASSUME LoopTypes, Inv PROVE LeaderReachesServer
    OBVIOUS
  <2>1. PICK c \in Leader, q \in Seq(Leader), p \in Leader :
           c = curLeader /\ q = srvLdrIn /\ p = pLeader
    BY DEF LoopTypes
  <2>2. CASE pPc = "tell"
    <3>1. Last(<<c>> \o q \o <<p>>) = p
      BY NewestLeader
    <3> QED BY <2>1, <2>2, <3>1 DEF LeaderReachesServer
  <2>3. CASE pPc = "select"
    <3>1. /\ Last(<<c>> \o q \o <<>>) = IF q = <<>> THEN c ELSE q[Len(q)]
          /\ q = <<>> => <<c>> \o q \o <<>> = <<c>>
      BY NewestLeader
    <3>2. \/ Last(<<c>> \o q \o <<>>) = p
          \/ <<c>> \o q \o <<>> = <<Self>> /\ p = Highest(Node)
      BY <2>1, <2>3, <3>1 DEF Reaches
    <3> QED BY <2>1, <2>3, <3>2 DEF LeaderReachesServer
  <2> QED BY <2>2, <2>3 DEF LoopTypes
<1> QED BY <1>1, <1>2, <1>3, InitTypes, NextTypes, PTL DEF Spec

-----------------------------------------------------------------------------
\* Nothing gets the loop of the server out of a circular wait: each goroutine of the
\* circle is blocked on a channel that only another one of it would serve, and no
\* other step makes room (server.go:216, 270, 293, 303; proposer.go:145; ld.go:154).
THEOREM StaysStuck == Spec => StuckForGood
<1>1. ASSUME Stuck, [Next]_vars
      PROVE  Stuck'
  <2>0. {PromiseCap, LdrCap, ChosenCap, HbInCap, HbOutCap, SubCap} \subseteq Nat
    BY NodeAssumption, DetectorAssumption
  <2> USE DEF Stuck, ProposerWaits, LearnerWaits, DetectorWaits, fdWaitsFor
  <2>1. CASE TakeHeartbeat \/ DeliverHeartbeat \/ TakeMessage \/ DeliverLearn
    BY <1>1, <2>0, <2>1 DEF TakeHeartbeat, DeliverHeartbeat, TakeMessage, DeliverLearn, handleLearn
  <2>2. CASE TakeDecided \/ IncrementAllDecidedUpTo \/ TakeLeader
    BY <1>1, <2>0, <2>2 DEF TakeDecided, IncrementAllDecidedUpTo, TakeLeader
  <2>3. CASE Trust \/ TellServer
    BY <1>1, <2>0, <2>3 DEF Trust, TellServer, detectorVars, fdVars, learnerVars, serverVars, channels
  <2>4. CASE SendDecision
    BY <1>1, <2>0, <2>4 DEF SendDecision, detectorVars, fdVars, proposerVars, serverVars
  <2>5. ASSUME NEW q, NEW r, PeerBrings(q, r)
        PROVE  Stuck'
    BY <1>1, <2>0, <2>5 DEF PeerBrings, fdVars, proposerVars, serverVars, channels, learnerVars
  <2>6. CASE PeerRequests \/ \E q \in Node : PeerReplies(q)
    BY <2>5, <2>6 DEF PeerRequests, PeerReplies
  <2>7. CASE PeerVote \/ Crash \/ UNCHANGED vars
    BY <1>1, <2>0, <2>7 DEF PeerVote, handleLearn, Crash, vars, detectorVars, fdVars, proposerVars,
       serverVars, channels, learnerVars
  <2>8. CASE Timeout
    BY <1>1, <2>0, <2>8 DEF Timeout, timeout, proposerVars, serverVars, channels, learnerVars
  <2>9. CASE FdStep(HandleHeartbeat)
    BY <1>1, <2>0, <2>9 DEF FdStep, HandleHeartbeat, proposerVars, serverVars, channels, learnerVars
  <2>10. CASE FdStep(SendNext)
    BY <1>1, <2>0, <2>10 DEF FdStep, SendNext, proposerVars, serverVars, channels, learnerVars
  <2>11. CASE DeliverPromise \/ TakePromise
    BY <1>1, <2>0, <2>11 DEF DeliverPromise, TakePromise, detectorVars, fdVars, learnerVars, serverVars, channels
  <2>12. CASE PeerPromise
    BY <1>1, <2>0, <2>12 DEF PeerPromise, detectorVars, fdVars, serverVars, channels, learnerVars
  <2> QED
    BY <1>1, <2>1, <2>2, <2>3, <2>4, <2>6, <2>7, <2>8, <2>9, <2>10, <2>11, <2>12 DEF Next
<1> QED BY <1>1, PTL DEF Spec, StuckForGood
=============================================================================
