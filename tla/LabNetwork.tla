----------------------------- MODULE LabNetwork -----------------------------
(***************************************************************************)
(* The network layer of one node of the lab 3 program (lab3/network/TCP.go *)
(* and the loop in lab3/main/main.go).  Every node dials every other and   *)
(* accepts what the others dial; a goroutine reads each connection, one    *)
(* sends, one redials every five seconds.  Of a message it matters whether *)
(* it arrives whole: a read may bring several at once, and Clean takes a   *)
(* byte of whatever comes; json.Unmarshal then leaves the message zero.    *)
(* Of the detector, which is Detector's subject, its channels matter: whom *)
(* it suspects is left open, and whom it sends to until that is sent.      *)
(***************************************************************************)
EXTENDS Naturals, SequencesExt, FiniteSets

CONSTANTS
    Self, Peers,    \* this node and the others
    Conn,           \* the connections there may be at once, 1 .. n
    Ports,          \* ClientPortMin .. ClientPortMax (200 ports)
    Cap,            \* places of SChan, RChan, UnmodRChan and hbChan (16)
    HbCap,          \* places of hbIn (8)
    Budget          \* bounds the heartbeats the detector sends and the writes that wait,
                    \* which take one of it each, and the messages of the peers, which
                    \* take two

ASSUME LabAssumption ==
    /\ Self \notin Peers /\ IsFiniteSet(Peers)
    /\ Conn \subseteq Nat \ {0} /\ {Cap, HbCap} \subseteq Nat \ {0} /\ Ports \subseteq Nat \ {0}
    /\ Budget \in Nat

VARIABLES
    conns,          \* the connections, and the goroutine reading each
    Connections,    \* the connection to use for each peer
    UsedPorts,
    listening,      \* "no" before InitServer, then "yes", or "failed"
    dialler,        \* where ConnectTCP, or later CleanAndAttemptReconnect, is
    SChan,          \* how many heartbeats wait to be sent
    RChan,          \* messages: "hb", a heartbeat, or "zero"
    unmod,          \* how many messages UnmodRChan holds
    mainPc, sendPc, \* what the main loop and the sending goroutine wait for
    sendConn,       \* the connection the sending goroutine waits to write to
    hbChan, hbIn,   \* how many heartbeats the detector sent, and how many it is to take
    fdSends,        \* the detector waits to send one
    budget,         \* what is left of it
    raced,          \* RemovePort removed another port than it looked for, or
                    \* getClientAddr took one that was in use
    crashed         \* this node ended with a panic

portVars == <<UsedPorts, raced>>
connVars == <<conns, Connections, portVars, listening, dialler>>
sendVars == <<SChan, sendPc, sendConn>>
fdVars == <<hbChan, hbIn, fdSends>>
loopVars == <<sendVars, RChan, unmod, mainPc, fdVars>>
vars == <<connVars, loopVars, budget, crashed>>

NoConn == 0
NoPort == 0


\* A connection: `far' and `near' tell which ends are open; what came and was not
\* read; the goroutine in ListenMsg, and what it has to put into RChan.
NewConn(p, port) ==
    [peer |-> p, port |-> port, far |-> TRUE, near |-> TRUE, in |-> <<>>, reader |-> "read"]
Done ==
    [peer |-> Self, port |-> NoPort, far |-> FALSE, near |-> FALSE, in |-> <<>>, reader |-> "done"]

\* A connection that is made takes the place of one that is done with.
Unused == {c \in Conn : conns[c] = Done /\ c \notin {dialler.conn, sendConn}}
Makes(p, port) ==
    \E c \in Unused :
       /\ \A d \in Unused : c <= d
       /\ conns' = [conns EXCEPT ![c] = NewConn(p, port)]
       /\ Connections' = [Connections EXCEPT ![p] = c]

\* The dialler in one of its two loops over the peers, which take turns.
At(pc, todo) ==
    [pc |-> pc, todo |-> todo, key |-> Self, conn |-> NoConn, port |-> NoPort, index |-> 0, seen |-> <<>>]

\* InitServer comes after the first round.
ConnectOn(todo) ==
    IF todo # {} THEN At("connect", todo)
    ELSE IF listening = "no" THEN At("init", {}) ELSE At("clean", Peers)

\* Mutant: lost connections are cleaned up and not dialled again.
CleanOn_only(todo) == At("clean", IF todo = {} THEN Peers ELSE todo)

CleanOn(todo) == IF todo = {} THEN At("connect", Peers) ELSE At("clean", todo)

Init ==
    /\ conns = [c \in Conn |-> Done] /\ Connections = [p \in Peers |-> NoConn]
    /\ UsedPorts = <<>> /\ listening = "no"
    /\ dialler = At("connect", Peers)
    /\ SChan = 0 /\ RChan = <<>> /\ unmod = 0
    /\ mainPc = "select" /\ sendPc = "take" /\ sendConn = NoConn
    /\ hbChan = 0 /\ hbIn = 0 /\ fdSends = FALSE
    /\ budget = Budget
    /\ raced = FALSE /\ crashed = FALSE

-----------------------------------------------------------------------------
\* Dialling: ConnectTCP once, and CleanAndAttemptReconnect for ever.

\* Nothing is done about a peer with a connection.
ConnectToNode(p) ==
    /\ dialler.pc = "connect" /\ p \in dialler.todo
    /\ LET rest == dialler.todo \ {p} IN
       dialler' = IF Connections[p] # NoConn THEN ConnectOn(rest)
                  ELSE [At("scan", rest) EXCEPT !.key = p, !.seen = UsedPorts]
    /\ UNCHANGED <<conns, Connections, portVars, listening, loopVars, budget, crashed>>

FreePorts == {port \in Ports : ~ Contains(UsedPorts, port)}

\* The ports in use that a look through UsedPorts, begun when it was `seen', is sure to
\* find: those that did not move, and the last, of which a copy stays in its place.
SurelyFound(seen) ==
    {seen[i] : i \in {j \in DOMAIN seen :
                         \/ j \in DOMAIN UsedPorts /\ UsedPorts[j] = seen[j]
                         \/ j = Len(seen) /\ Contains(UsedPorts, seen[j])}}

\* getClientAddr looks for the first free port from ClientPortMin on without the lock:
\* of the ports that were removed or moved meanwhile it may find any.
getClientAddr ==
    /\ dialler.pc = "scan"
    /\ \E found \in SUBSET ToSet(dialler.seen) :
          /\ SurelyFound(dialler.seen) \subseteq found
          /\ LET free == Ports \ found
                 port == CHOOSE q \in free : \A r \in free : q <= r
             IN IF free = {}
                THEN dialler' = ConnectOn(dialler.todo) /\ UNCHANGED portVars
                ELSE /\ UsedPorts' = Append(UsedPorts, port)
                     /\ raced' = (raced \/ Contains(UsedPorts, port))
                     /\ dialler' = [At("dial", dialler.todo) EXCEPT !.key = dialler.key, !.port = port]
    /\ UNCHANGED <<conns, Connections, listening, loopVars, budget, crashed>>

\* The address may be in use: ConnectTCP returns then before it starts the goroutines
\* that send and redial, and the program goes on without them.
InitServer ==
    /\ dialler.pc = "init"
    /\ \/ listening' = "yes" /\ dialler' = At("clean", Peers)
       \/ listening' = "failed" /\ dialler' = At("ended", {})
    /\ UNCHANGED <<conns, Connections, portVars, loopVars, budget, crashed>>

\* RemovePort looks for a port without the lock ...
LookFor(port) == IF Contains(UsedPorts, port) THEN CHOOSE i \in DOMAIN UsedPorts : UsedPorts[i] = port
                 ELSE 0

PortsWithout(i) == IF i \in DOMAIN UsedPorts THEN RemoveAt(UsedPorts, i) ELSE UsedPorts

\* Its loop goes on over a slice that has shrunk.  A port that is there twice is removed
\* once or twice, or the program panics, which depends on its places.
Removes(port, i) ==
    IF Cardinality({j \in DOMAIN UsedPorts : UsedPorts[j] = port}) <= 1
    THEN UsedPorts' = PortsWithout(i) /\ crashed' = (i > Len(UsedPorts))
    ELSE /\ UsedPorts' \in {PortsWithout(i), SelectSeq(UsedPorts, LAMBDA q : q # port)}
         /\ crashed' \in BOOLEAN

\* ... and removes what is at its place when it has it: another port, or the program
\* panics, when cleanupConn was faster.
RemovePort(port, i) ==
    /\ Removes(port, i)
    /\ raced' = (raced \/ (i \in DOMAIN UsedPorts /\ UsedPorts[i] # port))

\* DialTCP and the rest of ConnectToNode: no other connection has the port.  If the peer
\* dialled meanwhile, the entry of its connection is overwritten.
Dialled ==
    /\ dialler.pc = "dial"
    /\ \A c \in Conn : conns[c].near => conns[c].port # dialler.port
    /\ Makes(dialler.key, dialler.port)
    /\ dialler' = ConnectOn(dialler.todo)
    /\ UNCHANGED <<portVars, listening, loopVars, budget, crashed>>

\* Mutant: the port of a failed dial stays used.
DialFails_keeping ==
    /\ dialler.pc = "dial"
    /\ dialler' = ConnectOn(dialler.todo)
    /\ UNCHANGED <<conns, Connections, portVars, listening, loopVars, budget, crashed>>

\* A peer may be down at any time.
DialFails ==
    /\ dialler.pc = "dial"
    /\ dialler' = [dialler EXCEPT !.pc = "unport", !.index = LookFor(dialler.port)]
    /\ UNCHANGED <<conns, Connections, portVars, listening, loopVars, budget, crashed>>

DialFailed ==
    /\ dialler.pc = "unport" /\ dialler.conn = NoConn
    /\ RemovePort(dialler.port, dialler.index)
    /\ dialler' = ConnectOn(dialler.todo)
    /\ UNCHANGED <<conns, Connections, listening, loopVars, budget>>

-----------------------------------------------------------------------------
\* Clean.

\* Clean comes to the entry of a peer in its loop over the map.
CleanEntry(p) ==
    /\ dialler.pc = "clean" /\ p \in dialler.todo
    /\ LET rest == dialler.todo \ {p} IN
       dialler' = IF Connections[p] = NoConn THEN CleanOn(rest)
                  ELSE [At("one", rest) EXCEPT !.key = p, !.conn = Connections[p]]
    /\ UNCHANGED <<conns, Connections, portVars, listening, loopVars, budget, crashed>>

\* ConnTerminated reads a byte, and waits until one comes or the connection ends.  Only
\* io.EOF says so: a reset, or a connection closed here, is taken for a live one.
ConnTerminated ==
    /\ dialler.pc = "one"
    /\ LET c == dialler.conn
           port == conns[c].port
       IN \/ /\ conns[c].near /\ conns[c].in # <<>>
             /\ conns' = [conns EXCEPT ![c].in[1] = "torn"]
             /\ dialler' = CleanOn(dialler.todo)
          \/ /\ ~ conns[c].near \/ (~ conns[c].far /\ conns[c].in = <<>>)
             /\ dialler' = CleanOn(dialler.todo) /\ UNCHANGED conns
          \/ /\ conns[c].near /\ ~ conns[c].far /\ conns[c].in = <<>>
             /\ dialler' = [dialler EXCEPT !.pc = "unport", !.port = port, !.index = LookFor(port)]
             /\ UNCHANGED conns
    /\ UNCHANGED <<Connections, portVars, listening, loopVars, budget, crashed>>

\* A connection that ended is closed, and the entry removed that the peer has by then.
CleanEnded ==
    /\ dialler.pc = "unport" /\ dialler.conn # NoConn
    /\ RemovePort(dialler.port, dialler.index)
    /\ conns' = [conns EXCEPT ![dialler.conn].near = FALSE, ![dialler.conn].in = <<>>]
    /\ Connections' = [Connections EXCEPT ![dialler.key] = NoConn]
    /\ dialler' = CleanOn(dialler.todo)
    /\ UNCHANGED <<listening, loopVars, budget>>

-----------------------------------------------------------------------------
\* Accepting and reading.

Accept(p) ==
    /\ listening = "yes" /\ Makes(p, NoPort)
    /\ UNCHANGED <<portVars, listening, dialler, loopVars, budget, crashed>>

\* A message for RChan, from one that has to wait with it when there is no room.
Into(msg) == Len(RChan) < Cap /\ RChan' = Append(RChan, msg)

\* ListenMsg reads all that came.  Only a single whole message can be decoded.
Read(c) ==
    /\ conns[c].reader = "read" /\ conns[c].near /\ conns[c].in # <<>>
    /\ LET msg == IF conns[c].in = <<"whole">> THEN "hb" ELSE "zero" IN
       \/ /\ Into(msg)
          /\ conns' = [conns EXCEPT ![c].in = <<>>]
       \/ /\ Len(RChan) = Cap /\ UNCHANGED RChan
          /\ conns' = [conns EXCEPT ![c].in = <<>>, ![c].reader = msg]
    /\ UNCHANGED <<Connections, portVars, listening, dialler, sendVars, unmod, mainPc, fdVars,
                   budget, crashed>>

PushMsg(c) ==
    /\ conns[c].reader \in {"hb", "zero"} /\ Into(conns[c].reader)
    /\ conns' = [conns EXCEPT ![c].reader = "read"]
    /\ UNCHANGED <<Connections, portVars, listening, dialler, sendVars, unmod, mainPc, fdVars,
                   budget, crashed>>

Ended(c) ==
    /\ conns[c].reader = "read"
    /\ ~ conns[c].near \/ (~ conns[c].far /\ conns[c].in = <<>>)

\* Mutant: only the port is given back.
cleanupConn_keeping(c) ==
    /\ Ended(c)
    /\ conns' = [conns EXCEPT ![c] = Done]
    /\ UsedPorts' = PortsWithout(LookFor(conns[c].port))
    /\ UNCHANGED <<Connections, raced, listening, dialler, loopVars, budget, crashed>>

\* The entry is removed that the peer has by then, which may be a later connection.
\* Here the look for the port and its removal are one step, under the lock.
cleanupConn(c) ==
    /\ Ended(c)
    /\ Connections' = [Connections EXCEPT ![conns[c].peer] = NoConn]
    /\ conns' = [conns EXCEPT ![c] = Done]
    /\ Removes(conns[c].port, LookFor(conns[c].port))
    /\ UNCHANGED <<raced, listening, dialler, loopVars, budget>>

-----------------------------------------------------------------------------
\* The main loop and the detector, which start when ConnectTCP has returned.

\* case hb := <-hbChan, and n.SChan <- netMsg, when there is room and when there is not.
TakeHeartbeat ==
    /\ mainPc = "select" /\ listening # "no" /\ hbChan > 0
    /\ hbChan' = hbChan - 1
    /\ \/ SChan < Cap /\ SChan' = SChan + 1 /\ UNCHANGED mainPc
       \/ SChan = Cap /\ mainPc' = "SChan" /\ UNCHANGED SChan
    /\ UNCHANGED <<connVars, RChan, unmod, sendPc, sendConn, hbIn, fdSends, budget, crashed>>

PassOn ==
    /\ mainPc = "SChan" /\ mainPc' = "select"
    /\ SChan < Cap /\ SChan' = SChan + 1
    /\ UNCHANGED <<connVars, RChan, unmod, sendPc, sendConn, fdVars, budget, crashed>>

\* case msg := <-n.RChan.  Nobody takes from UnmodRChan.
TakeMsg ==
    /\ mainPc = "select" /\ listening # "no" /\ RChan # <<>>
    /\ RChan' = Tail(RChan)
    /\ \/ Head(RChan) = "hb" /\ hbIn < HbCap /\ hbIn' = hbIn + 1 /\ UNCHANGED <<unmod, mainPc>>
       \/ Head(RChan) = "hb" /\ hbIn = HbCap /\ mainPc' = "hbIn" /\ UNCHANGED <<unmod, hbIn>>
       \/ Head(RChan) = "zero" /\ unmod < Cap /\ unmod' = unmod + 1 /\ UNCHANGED <<hbIn, mainPc>>
       \/ Head(RChan) = "zero" /\ unmod = Cap /\ mainPc' = "unmod" /\ UNCHANGED <<unmod, hbIn>>
    /\ UNCHANGED <<connVars, sendVars, hbChan, fdSends, budget, crashed>>

\* The rest of fd.DeliverHeartbeat when it had to wait.
DeliverHeartbeat ==
    /\ mainPc = "hbIn" /\ mainPc' = "select"
    /\ hbIn < HbCap /\ hbIn' = hbIn + 1
    /\ UNCHANGED <<connVars, sendVars, RChan, unmod, hbChan, fdSends, budget, crashed>>

\* e.hbSend <- ..., when there is room and when there is not.
Sends ==
    /\ \/ hbChan < Cap /\ hbChan' = hbChan + 1 /\ UNCHANGED fdSends
       \/ hbChan = Cap /\ fdSends' = TRUE /\ UNCHANGED hbChan
    /\ budget > 0 /\ budget' = budget - 1

\* A timeout sends requests to all nodes in turn, of which a step makes one: between two
\* of them the detector may do something else here, but need not.
Timeout ==
    /\ listening # "no" /\ ~ fdSends /\ Sends
    /\ UNCHANGED <<connVars, sendVars, RChan, unmod, mainPc, hbIn, crashed>>

\* case hbRequest := <-e.hbIn: a reply, or a request, which is answered.
HandleHeartbeat ==
    /\ ~ fdSends /\ hbIn > 0 /\ hbIn' = hbIn - 1
    /\ UNCHANGED <<hbChan, fdSends, budget>> \/ Sends
    /\ UNCHANGED <<connVars, sendVars, RChan, unmod, mainPc, crashed>>

\* The rest of a send that had to wait.
SendHeartbeat ==
    /\ fdSends /\ fdSends' = FALSE
    /\ hbChan < Cap /\ hbChan' = hbChan + 1
    /\ UNCHANGED <<connVars, sendVars, RChan, unmod, mainPc, hbIn, budget, crashed>>

-----------------------------------------------------------------------------
\* The sending goroutine.  It is there when InitServer did not fail.

Writable(c) == c # NoConn /\ conns[c].near /\ conns[c].far

\* Mutant: the goroutine ends when there is no connection.
Send_ending ==
    /\ sendPc = "take" /\ listening = "yes" /\ SChan > 0 /\ SChan' = SChan - 1
    /\ \/ Into("hb") /\ UNCHANGED <<sendPc, sendConn>>
       \/ Len(RChan) = Cap /\ sendPc' = "self" /\ UNCHANGED <<RChan, sendConn>>
       \/ \E p \in Peers :
             /\ sendPc' = IF Connections[p] = NoConn THEN "ended" ELSE "take"
             /\ UNCHANGED <<RChan, sendConn>>
    /\ UNCHANGED <<connVars, unmod, mainPc, fdVars, budget, crashed>>

\* Send: a message to this node goes to RChan; one to a peer is written to its
\* connection, or lost without one.
Send ==
    /\ sendPc = "take" /\ listening = "yes" /\ SChan > 0 /\ SChan' = SChan - 1
    /\ \/ Into("hb") /\ UNCHANGED <<sendPc, sendConn>>
       \/ Len(RChan) = Cap /\ sendPc' = "self" /\ UNCHANGED <<RChan, sendConn>>
       \/ UNCHANGED <<RChan, sendPc, sendConn>>
    /\ UNCHANGED <<connVars, unmod, mainPc, fdVars, budget, crashed>>

\* A write to a peer may have to wait when the peer does not read.
SendWaits(p) ==
    /\ sendPc = "take" /\ listening = "yes" /\ SChan > 0 /\ SChan' = SChan - 1
    /\ Writable(Connections[p]) /\ sendPc' = "write" /\ sendConn' = Connections[p]
    /\ budget > 0 /\ budget' = budget - 1
    /\ UNCHANGED <<connVars, RChan, unmod, mainPc, fdVars, crashed>>

SendToSelf ==
    /\ sendPc = "self" /\ Into("hb") /\ sendPc' = "take"
    /\ UNCHANGED <<connVars, SChan, sendConn, unmod, mainPc, fdVars, budget, crashed>>

WriteEnds ==
    /\ sendPc = "write" /\ sendPc' = "take" /\ sendConn' = NoConn
    /\ UNCHANGED <<connVars, SChan, RChan, unmod, mainPc, fdVars, budget, crashed>>

\* A write to a connection that is lost or closed meanwhile fails.
WriteFails == ~ Writable(sendConn) /\ WriteEnds

-----------------------------------------------------------------------------
\* The peers.

PeerSends(c) ==
    /\ conns[c].near /\ conns[c].far
    /\ budget >= 2 /\ budget' = budget - 2
    /\ conns' = [conns EXCEPT ![c].in = Append(@, "whole")]
    /\ UNCHANGED <<Connections, portVars, listening, dialler, loopVars, crashed>>

PeerReads == Writable(sendConn) /\ WriteEnds

PeerCloses(c) ==
    /\ conns[c].far
    /\ conns' = [conns EXCEPT ![c].far = FALSE]
    /\ UNCHANGED <<Connections, portVars, listening, dialler, loopVars, budget, crashed>>

-----------------------------------------------------------------------------
Dialler ==
    \/ \E p \in Peers : ConnectToNode(p) \/ CleanEntry(p)
    \/ getClientAddr \/ InitServer \/ Dialled \/ DialFails \/ DialFailed \/ ConnTerminated \/ CleanEnded

Reader(c) == Read(c) \/ PushMsg(c) \/ cleanupConn(c)
Main == TakeHeartbeat \/ PassOn \/ TakeMsg \/ DeliverHeartbeat
Detector == HandleHeartbeat \/ SendHeartbeat
Sender == Send \/ SendToSelf \/ WriteFails

Next ==
    /\ ~ crashed
    /\ \/ Dialler \/ Main \/ Detector \/ Timeout \/ Sender \/ PeerReads
       \/ \E c \in Conn : Reader(c) \/ PeerSends(c) \/ PeerCloses(c)
       \/ \E p \in Peers : Accept(p) \/ SendWaits(p)

\* Every goroutine goes on when it can, and a peer that is dialled time and again is up
\* in the end.
FairSpec ==
    /\ Init /\ [][Next]_vars
    /\ WF_vars(~ crashed /\ Dialler) /\ SF_vars(~ crashed /\ Dialled)
    /\ WF_vars(~ crashed /\ Main) /\ WF_vars(~ crashed /\ Detector) /\ WF_vars(~ crashed /\ Sender)
    /\ \A c \in Conn : WF_vars(~ crashed /\ Reader(c))

-----------------------------------------------------------------------------
\* The entry of a peer is a connection that is read, whatever order connections are
\* made, lost and cleaned up in (TCP.go:184, 218, 344, 419): otherwise a peer that
\* answers on it would not be heard.
EntriesAreRead ==
    \A p \in Peers : Connections[p] # NoConn =>
        /\ conns[Connections[p]].peer = p /\ conns[Connections[p]].reader # "done"

\* No port stays in UsedPorts that no connection, nor an attempt to make one, has
\* (TCP.go:345, 366, 429), unless the goroutines raced for them.  The converse does not hold: a
\* goroutine that cleans up late gives back the port of a later connection.
PortsAreReturned ==
    ~ raced /\ ~ crashed =>
        \A i \in DOMAIN UsedPorts :
            \/ \E c \in Conn : conns[c].port = UsedPorts[i] /\ conns[c].reader # "done"
            \/ dialler.conn = NoConn /\ dialler.port = UsedPorts[i]

\* What the sending goroutine waits for: a place in RChan, or a peer that does not read;
\* without InitServer there is no such goroutine.
SenderWaits ==
    \/ sendPc = "self" /\ Len(RChan) = Cap
    \/ sendPc = "write" /\ Writable(sendConn)
    \/ listening = "failed"

DetectorWaits == fdSends /\ hbChan = Cap

\* The main loop waits for a place that no goroutine of this node makes.
Stuck ==
    \/ mainPc = "unmod"
    \/ mainPc = "SChan" /\ SChan = Cap /\ SenderWaits
    \/ mainPc = "hbIn" /\ hbIn = HbCap /\ DetectorWaits

\* Whatever was sent or read goes through the channels in the end, unless the main loop
\* is stuck, there is no sending goroutine or a peer does not read what is sent to it
\* (main.go:129, 139, 141, fd.go:90, 147, TCP.go:141, 276, 284, 298).
NothingIsHeldUp ==
    <>[](\/ Stuck \/ crashed
         \/ /\ (SChan = 0 /\ sendPc = "take") \/ SenderWaits
            /\ RChan = <<>> /\ mainPc = "select" /\ hbChan = 0 /\ hbIn = 0 /\ ~ fdSends
            /\ \A c \in Conn : conns[c].reader \in {"read", "done"})

\* Clean waits for a byte of a peer that sends none.
CleanWaits ==
    /\ dialler.pc = "one"
    /\ conns[dialler.conn].near /\ conns[dialler.conn].far /\ conns[dialler.conn].in = <<>>

\* Every dial fails: the port it is given is that of a connection, which a goroutine that
\* cleaned up late gave back.
PortTaken ==
    \E c \in Conn : /\ conns[c].near /\ conns[c].port \in FreePorts
                    /\ \A port \in FreePorts : conns[c].port <= port

\* A peer is connected again in the end (TCP.go:156) - unless there is no goroutine that
\* redials, Clean waits for ever for a byte of a peer that is silent, the main loop is
\* stuck and lost connections are not noticed, no port can be dialled from, or no more
\* connections are left in this model.
Reconnects ==
    \A p \in Peers :
            []<>(\/ Connections[p] # NoConn /\ conns[Connections[p]].far
                 \/ listening = "failed" \/ CleanWaits \/ Stuck
                 \/ FreePorts = {} \/ PortTaken \/ Unused = {} \/ crashed)
=============================================================================
