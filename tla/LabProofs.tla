------------------------------ MODULE LabProofs ------------------------------
(***************************************************************************)
(* The entry of a peer in the map of connections is always a connection to *)
(* that peer that is read, and a port in use that of a connection or of an *)
(* attempt to make one, for any number of peers, connections and ports and *)
(* channels of any size.                                                   *)
(***************************************************************************)
EXTENDS LabNetwork, InductionProofs

\* A record with the fields of a connection.
IsConn(r) ==
    r = [peer |-> r.peer, port |-> r.port, far |-> r.far, near |-> r.near,
         in |-> r.in, reader |-> r.reader]

ConnTypes ==
    /\ conns = [c \in Conn |-> conns[c]]
    /\ \A c \in Conn : IsConn(conns[c])
    /\ Connections \in [Peers -> Conn \cup {NoConn}]

EntryInv == ConnTypes /\ EntriesAreRead

LEMMA InitEntries == Init => EntryInv
<1> SUFFICES ASSUME Init PROVE EntryInv
  OBVIOUS
<1>1. IsConn(Done)
  BY DEF IsConn, Done
<1>2. ConnTypes
  BY <1>1 DEF Init, ConnTypes
<1>3. EntriesAreRead
  BY DEF Init, EntriesAreRead
<1> QED BY <1>2, <1>3 DEF EntryInv

\* A new connection takes the place of one that no entry names: that of a connection
\* that is done with is removed when it ends.
LEMMA MakesEntry ==
    ASSUME EntryInv, NEW p, NEW port, Makes(p, port)
    PROVE  EntryInv'
<1> USE DEF EntryInv
<1>1. PICK c \in Conn : /\ conns[c] = Done
                        /\ conns' = [conns EXCEPT ![c] = NewConn(p, port)]
                        /\ Connections' = [Connections EXCEPT ![p] = c]
  BY DEF Makes, Unused
<1>2. IsConn(NewConn(p, port))
  BY DEF NewConn, IsConn
<1>3. ConnTypes'
  <2>1. conns' = [d \in Conn |-> conns'[d]] /\ \A d \in Conn : IsConn(conns'[d])
    BY <1>1, <1>2 DEF ConnTypes
  <2>2. Connections' \in [Peers -> Conn \cup {NoConn}]
    BY <1>1 DEF ConnTypes
  <2> QED BY <2>1, <2>2 DEF ConnTypes
<1>4. ASSUME NEW q \in Peers, Connections'[q] # NoConn
      PROVE  conns'[Connections'[q]].peer = q /\ conns'[Connections'[q]].reader # "done"
  <2>1. CASE q = p
    <3>1. Connections'[q] = c /\ conns'[c] = NewConn(p, port)
      BY <1>1, <2>1 DEF ConnTypes
    <3> QED BY <2>1, <3>1 DEF NewConn
  <2>2. CASE q # p
    <3>1. Connections'[q] = Connections[q] /\ Connections[q] \in Conn
      BY <1>1, <1>4, <2>2 DEF ConnTypes
    <3>2. conns[Connections[q]].peer = q /\ conns[Connections[q]].reader # "done"
      BY <1>4, <3>1 DEF EntriesAreRead
    <3>3. Connections[q] # c
      BY <1>1, <3>2 DEF Done
    <3>4. conns'[Connections[q]] = conns[Connections[q]]
      BY <1>1, <3>1, <3>3 DEF ConnTypes
    <3> QED BY <3>1, <3>2, <3>4
  <2> QED BY <2>1, <2>2
<1> QED BY <1>3, <1>4 DEF EntriesAreRead

\* A connection does what it likes as long as it is read on, or the entry of its peer
\* goes; that an entry goes never harms.
LEMMA ChangesConn ==
    ASSUME EntryInv, NEW c, NEW r, IsConn(r), NEW p,
           conns' = [conns EXCEPT ![c] = r],
           UNCHANGED Connections \/ Connections' = [Connections EXCEPT ![p] = NoConn],
           \/ r.peer = conns[c].peer /\ (conns[c].reader # "done" => r.reader # "done")
           \/ p = conns[c].peer /\ Connections' = [Connections EXCEPT ![p] = NoConn]
    PROVE  EntryInv'
<1> USE DEF EntryInv
<1>1. ConnTypes'
  <2>1. conns' = [d \in Conn |-> conns'[d]] /\ \A d \in Conn : IsConn(conns'[d])
    BY DEF ConnTypes
  <2>2. Connections' \in [Peers -> Conn \cup {NoConn}]
    BY DEF ConnTypes
  <2> QED BY <2>1, <2>2 DEF ConnTypes
<1>2. ASSUME NEW q \in Peers, Connections'[q] # NoConn
      PROVE  conns'[Connections'[q]].peer = q /\ conns'[Connections'[q]].reader # "done"
  <2>1. Connections'[q] = Connections[q] /\ Connections[q] \in Conn
    BY <1>2 DEF ConnTypes
  <2>2. conns[Connections[q]].peer = q /\ conns[Connections[q]].reader # "done"
    BY <1>2, <2>1 DEF EntriesAreRead
  <2>3. CASE Connections[q] = c
    <3>1. conns'[c] = r
      BY <2>1, <2>3 DEF ConnTypes
    <3>2. r.peer = q /\ r.reader # "done"
      BY <1>2, <2>1, <2>2, <2>3 DEF ConnTypes
    <3> QED BY <2>1, <2>3, <3>1, <3>2
  <2>4. CASE Connections[q] # c
    BY <2>1, <2>2, <2>4 DEF ConnTypes
  <2> QED BY <2>3, <2>4
<1> QED BY <1>1, <1>2 DEF EntriesAreRead

\* What Clean does to a connection.
LEMMA ClosedConn ==
    ASSUME NEW x, IsConn(x), NEW r, r = [x EXCEPT !.near = FALSE, !.in = <<>>]
    PROVE  IsConn(r) /\ r.peer = x.peer /\ r.reader = x.reader
BY DEF IsConn

LEMMA NextEntries == EntryInv /\ [Next]_vars => EntryInv'
<1> SUFFICES ASSUME EntryInv, [Next]_vars PROVE EntryInv'
  OBVIOUS
<1>1. CASE UNCHANGED <<conns, Connections>>
  BY <1>1 DEF EntryInv, ConnTypes, EntriesAreRead
<1>2. ASSUME NEW p \in Peers, ConnectToNode(p) \/ CleanEntry(p) \/ SendWaits(p)
      PROVE  EntryInv'
  BY <1>1, <1>2 DEF ConnectToNode, CleanEntry, SendWaits, connVars
<1>3. ASSUME getClientAddr \/ InitServer \/ DialFails \/ DialFailed
      PROVE  EntryInv'
  BY <1>1, <1>3 DEF getClientAddr, InitServer, DialFails, DialFailed
<1>4. ASSUME Dialled
      PROVE  EntryInv'
  BY <1>4, MakesEntry DEF Dialled
<1>5. ASSUME NEW p \in Peers, Accept(p)
      PROVE  EntryInv'
  BY <1>5, MakesEntry DEF Accept
<1>6. ASSUME ConnTerminated
      PROVE  EntryInv'
  <2> DEFINE c == dialler.conn
             in == [conns[c].in EXCEPT ![1] = "torn"]
             r == [conns[c] EXCEPT !.in = in]
  <2>1. CASE conns' = [conns EXCEPT ![c].in[1] = "torn"] /\ c \in Conn
    <3>1. conns' = [conns EXCEPT ![c] = r]
      BY <2>1
    <3>2. IsConn(r) /\ r.peer = conns[c].peer /\ r.reader = conns[c].reader
      BY <2>1 DEF EntryInv, ConnTypes, IsConn
    <3> HIDE DEF r
    <3> QED BY <1>6, <3>1, <3>2, ChangesConn DEF ConnTerminated
  <2>2. CASE conns' = [conns EXCEPT ![c].in[1] = "torn"] /\ c \notin Conn
    BY <1>1, <1>6, <2>2 DEF ConnTerminated, EntryInv, ConnTypes
  <2> QED BY <1>1, <1>6, <2>1, <2>2 DEF ConnTerminated
<1>7. ASSUME CleanEnded
      PROVE  EntryInv'
  <2> DEFINE c == dialler.conn
             r == [conns[c] EXCEPT !.near = FALSE, !.in = <<>>]
  <2>1. CASE c \in Conn
    <3>1. conns' = [conns EXCEPT ![c] = r]
      BY <1>7, <2>1 DEF CleanEnded, EntryInv, ConnTypes
    <3>2. IsConn(conns[c])
      BY <2>1 DEF EntryInv, ConnTypes
    <3>3. IsConn(r) /\ r.peer = conns[c].peer /\ r.reader = conns[c].reader
      BY <3>2, ClosedConn
    <3>4. Connections' = [Connections EXCEPT ![dialler.key] = NoConn]
      BY <1>7 DEF CleanEnded
    <3> HIDE DEF r, c
    <3> QED BY <3>1, <3>3, <3>4, ChangesConn
  <2>2. CASE c \notin Conn
    <3>1. UNCHANGED conns
      BY <1>7, <2>2 DEF CleanEnded, EntryInv, ConnTypes
    <3> QED BY <1>7, <3>1 DEF CleanEnded, EntryInv, ConnTypes, EntriesAreRead
  <2> QED BY <2>1, <2>2
<1>8. ASSUME NEW c \in Conn, Read(c)
      PROVE  EntryInv'
  <2>1. PICK r : /\ r = [conns[c] EXCEPT !.in = <<>>]
                    \/ \E msg \in {"hb", "zero"} : r = [conns[c] EXCEPT !.in = <<>>, !.reader = msg]
                 /\ conns' = [conns EXCEPT ![c] = r]
    BY <1>8 DEF Read, EntryInv, ConnTypes
  <2>2. /\ IsConn(r) /\ r.peer = conns[c].peer
        /\ conns[c].reader # "done" => r.reader # "done"
    BY <2>1 DEF EntryInv, ConnTypes, IsConn
  <2> QED BY <1>8, <2>1, <2>2, ChangesConn DEF Read
<1>9. ASSUME NEW c \in Conn, PushMsg(c) \/ PeerSends(c) \/ PeerCloses(c)
      PROVE  EntryInv'
  <2>1. PICK r : /\ \/ r = [conns[c] EXCEPT !.reader = "read"]
                    \/ \E s : r = [conns[c] EXCEPT !.in = s]
                    \/ r = [conns[c] EXCEPT !.far = FALSE]
                 /\ conns' = [conns EXCEPT ![c] = r]
    BY <1>9 DEF PushMsg, PeerSends, PeerCloses
  <2>2. /\ IsConn(r) /\ r.peer = conns[c].peer
        /\ conns[c].reader # "done" => r.reader # "done"
    BY <2>1 DEF EntryInv, ConnTypes, IsConn
  <2> QED BY <1>9, <2>1, <2>2, ChangesConn DEF PushMsg, PeerSends, PeerCloses
<1>10. ASSUME NEW c \in Conn, cleanupConn(c)
       PROVE  EntryInv'
  <2>1. IsConn(Done)
    BY DEF Done, IsConn
  <2> QED BY <1>10, <2>1, ChangesConn DEF cleanupConn
<1>11. ASSUME Main \/ Detector \/ Timeout \/ Sender \/ PeerReads \/ UNCHANGED vars
       PROVE  EntryInv'
  <2>1. UNCHANGED <<conns, Connections>>
    BY <1>11 DEF Main, TakeHeartbeat, PassOn, TakeMsg, DeliverHeartbeat, Detector, HandleHeartbeat, SendHeartbeat,
       Timeout, Sender, Send, SendToSelf, WriteFails, PeerReads, WriteEnds, vars, connVars
  <2> QED BY <1>1, <2>1
<1> QED
  BY <1>2, <1>3, <1>4, <1>5, <1>6, <1>7, <1>8, <1>9, <1>10, <1>11 DEF Next, Dialler, Reader

\* However connections are dialled, accepted, lost and cleaned up from both ends, the
\* entry of a peer is a connection to it that a goroutine reads (TCP.go:184, 218, 344,
\* 419).
THEOREM EntriesRead == FairSpec => []EntriesAreRead
BY InitEntries, NextEntries, PTL DEF FairSpec, EntryInv

-----------------------------------------------------------------------------
\* The ports in use: no port twice, and a removal that found no port is of one
\* that still is not there, as only the dialler adds ports.
PortsAreUsedOnce ==
    /\ UsedPorts \in Seq(Ports)
    /\ \A i, j \in DOMAIN UsedPorts : UsedPorts[i] = UsedPorts[j] => i = j

IsDialler(r) ==
    r = [pc |-> r.pc, todo |-> r.todo, key |-> r.key, conn |-> r.conn, port |-> r.port,
         index |-> r.index, seen |-> r.seen]

DiallerTypes ==
    /\ IsDialler(dialler)
    /\ dialler.pc \in {"connect", "scan", "dial", "init", "ended", "clean", "one", "unport"}
    /\ dialler.pc = "one" => dialler.conn # NoConn
    /\ dialler.pc \in {"connect", "scan", "init", "ended", "clean"} => dialler.port = NoPort
    /\ dialler.pc = "dial" => dialler.conn = NoConn
    /\ dialler.pc = "unport" => dialler.index \in Nat
    /\ dialler.pc = "unport" /\ dialler.index = 0 =>
          \A i \in DOMAIN UsedPorts : UsedPorts[i] # dialler.port

\* A goroutine has the port: it reads a connection of it, or dials with it.
Held(port) ==
    \/ \E c \in Conn : conns[c].port = port /\ conns[c].reader # "done"
    \/ dialler.conn = NoConn /\ dialler.port = port

PortInv == EntryInv /\ PortsAreUsedOnce /\ DiallerTypes /\ PortsAreReturned

\* What is left of a sequence without its element at place i.
LEMMA WithoutPlace ==
    ASSUME NEW S, NEW s \in Seq(S), NEW i \in DOMAIN s
    PROVE  /\ RemoveAt(s, i) \in Seq(S)
           /\ Len(RemoveAt(s, i)) = Len(s) - 1
           /\ \A j \in 1 .. Len(s) - 1 : RemoveAt(s, i)[j] = s[IF j < i THEN j ELSE j + 1]
<1>1. i \in 1 .. Len(s) /\ Len(s) \in Nat
  OBVIOUS
<1>2. PICK a : a = SubSeq(s, 1, i - 1)
  OBVIOUS
<1>3. PICK b : b = SubSeq(s, i + 1, Len(s))
  OBVIOUS
<1>4. a \in Seq(S) /\ Len(a) = i - 1 /\ \A j \in 1 .. i - 1 : a[j] = s[j]
  BY <1>1, <1>2
<1>5. b \in Seq(S) /\ Len(b) = Len(s) - i /\ \A j \in 1 .. Len(s) - i : b[j] = s[j + i]
  BY <1>1, <1>3
<1>6. PICK t : t = a \o b
  OBVIOUS
<1>7. RemoveAt(s, i) = t
  BY <1>2, <1>3, <1>6 DEF RemoveAt
<1>8. t \in Seq(S) /\ Len(t) = Len(s) - 1
  BY <1>1, <1>4, <1>5, <1>6
<1>9. ASSUME NEW j \in 1 .. Len(s) - 1
      PROVE  t[j] = s[IF j < i THEN j ELSE j + 1]
  <2>1. CASE j < i
    <3>1. j \in 1 .. i - 1
      BY <1>1, <2>1
    <3>2. t[j] = a[j]
      BY <1>4, <1>5, <1>6, <3>1
    <3> QED BY <1>4, <2>1, <3>1, <3>2
  <2>2. CASE ~ j < i
    <3>1. j - (i - 1) \in 1 .. Len(s) - i /\ j \in 1 .. Len(a) + Len(b) /\ j > Len(a)
      BY <1>1, <1>4, <1>5, <2>2
    <3>2. \A k \in 1 .. Len(a) + Len(b) : t[k] = IF k <= Len(a) THEN a[k] ELSE b[k - Len(a)]
      BY <1>4, <1>5, <1>6, ConcatProperties
    <3>3. t[j] = b[j - (i - 1)]
      BY <1>1, <1>4, <3>1, <3>2
    <3>4. (j - (i - 1)) + i = j + 1
      BY <1>1
    <3>5. t[j] = s[j + 1]
      BY <1>5, <3>1, <3>3, <3>4
    <3> QED BY <2>2, <3>5
  <2> QED BY <2>1, <2>2
<1> QED BY <1>7, <1>8, <1>9

\* What is left when the port at place i is removed.
LEMMA WithoutPort ==
    ASSUME PortsAreUsedOnce, NEW i, UsedPorts' = PortsWithout(i)
    PROVE  /\ PortsAreUsedOnce'
           /\ \A j \in DOMAIN UsedPorts' : \E k \in DOMAIN UsedPorts :
                 k # i /\ UsedPorts'[j] = UsedPorts[k]
<1> USE DEF PortsAreUsedOnce
<1>1. CASE i \in DOMAIN UsedPorts
  <2>1. PICK s \in Seq(Ports) : s = UsedPorts
    OBVIOUS
  <2>2. PICK t : t = RemoveAt(s, i)
    OBVIOUS
  <2>3. UsedPorts' = t /\ i \in 1 .. Len(s) /\ Len(s) \in Nat
    BY <1>1, <2>1, <2>2 DEF PortsWithout
  <2>4. /\ t \in Seq(Ports) /\ Len(t) = Len(s) - 1
        /\ \A j \in 1 .. Len(s) - 1 : t[j] = s[IF j < i THEN j ELSE j + 1]
    BY <1>1, <2>1, <2>2, WithoutPlace
  <2>5. ASSUME NEW j \in DOMAIN t
        PROVE  \E k \in DOMAIN s : k # i /\ t[j] = s[k]
    <3>1. j \in 1 .. Len(s) - 1
      BY <2>4
    <3>2. CASE j < i
      <4>1. j \in DOMAIN s /\ j # i
        BY <2>1, <2>3, <3>1, <3>2
      <4>2. t[j] = s[j]
        BY <2>4, <3>1, <3>2
      <4> QED BY <4>1, <4>2
    <3>3. CASE ~ j < i
      <4>1. j + 1 \in DOMAIN s /\ j + 1 # i
        BY <2>1, <2>3, <3>1, <3>3
      <4>2. t[j] = s[j + 1]
        BY <2>4, <3>1, <3>3
      <4> QED BY <4>1, <4>2
    <3> QED BY <3>2, <3>3
  <2>6. ASSUME NEW j \in DOMAIN t, NEW k \in DOMAIN t, t[j] = t[k]
        PROVE  j = k
    <3>1. j \in 1 .. Len(s) - 1 /\ k \in 1 .. Len(s) - 1
      BY <2>4, <2>6
    <3>2. PICK x : x = IF j < i THEN j ELSE j + 1
      OBVIOUS
    <3>3. PICK y : y = IF k < i THEN k ELSE k + 1
      OBVIOUS
    <3>4. x \in DOMAIN s /\ y \in DOMAIN s
      BY <2>1, <2>3, <3>1, <3>2, <3>3
    <3>5. s[x] = s[y]
      BY <2>4, <2>6, <3>1, <3>2, <3>3
    <3>6. x = y
      BY <2>1, <3>4, <3>5
    <3> QED BY <2>3, <3>1, <3>2, <3>3, <3>6
  <2> QED BY <2>1, <2>3, <2>4, <2>5, <2>6
<1>2. CASE i \notin DOMAIN UsedPorts
  <2>1. UsedPorts' = UsedPorts
    BY <1>2 DEF PortsWithout
  <2> QED BY <1>2, <2>1
<1> QED BY <1>1, <1>2

LEMMA FindsPort ==
    ASSUME PortsAreUsedOnce, NEW port
    PROVE  IF \E i \in DOMAIN UsedPorts : UsedPorts[i] = port
           THEN LookFor(port) \in DOMAIN UsedPorts /\ UsedPorts[LookFor(port)] = port
           ELSE LookFor(port) = 0
<1>1. Contains(UsedPorts, port) <=> \E i \in DOMAIN UsedPorts : UsedPorts[i] = port
  BY DEF Contains, PortsAreUsedOnce
<1> QED BY <1>1 DEF LookFor

\* Removing what a look for the port has found leaves it nowhere.
LEMMA PortIsGone ==
    ASSUME PortsAreUsedOnce, NEW port, UsedPorts' = PortsWithout(LookFor(port))
    PROVE  \A j \in DOMAIN UsedPorts' : UsedPorts'[j] # port
<1>1. ASSUME NEW k \in DOMAIN UsedPorts, UsedPorts[k] = port
      PROVE  k = LookFor(port)
  BY <1>1, FindsPort DEF PortsAreUsedOnce
<1> QED BY <1>1, WithoutPort

\* A port that is in use once is removed once.
LEMMA RemovedOnce ==
    ASSUME PortsAreUsedOnce, NEW port, NEW i, Removes(port, i)
    PROVE  UsedPorts' = PortsWithout(i) /\ crashed' = (i > Len(UsedPorts))
<1> DEFINE P == {j \in DOMAIN UsedPorts : UsedPorts[j] = port}
<1>1. Cardinality(P) <= 1
  <2>1. CASE P = {}
    BY <2>1, FS_EmptySet
  <2>2. CASE P # {}
    <3>1. PICK k : P = {k}
      BY <2>2 DEF PortsAreUsedOnce
    <3> QED BY <3>1, FS_Singleton
  <2> QED BY <2>1, <2>2
<1> QED BY <1>1 DEF Removes

LEMMA InitPorts == Init => PortInv
<1> SUFFICES ASSUME Init PROVE PortInv
  OBVIOUS
<1>1. UsedPorts = <<>> /\ dialler = At("connect", Peers)
  BY DEF Init
<1>2. PortsAreUsedOnce /\ PortsAreReturned
  BY <1>1 DEF PortsAreUsedOnce, PortsAreReturned
<1>3. DiallerTypes
  BY <1>1 DEF DiallerTypes, At, IsDialler
<1> QED BY <1>2, <1>3, InitEntries DEF PortInv

\* The connections of this step have what they had.
KeepsConns ==
    \A c \in Conn : conns[c].reader # "done" =>
        conns'[c].port = conns[c].port /\ conns'[c].reader # "done"

LEMMA KeepsPorts ==
    ASSUME PortInv, KeepsConns, UNCHANGED <<portVars, crashed>>,
           \/ dialler'.conn = NoConn /\ dialler'.port = dialler.port
           \/ dialler.conn # NoConn
           \/ dialler.port = NoPort
    PROVE  PortsAreUsedOnce' /\ PortsAreReturned'
<1>1. PortsAreUsedOnce'
  BY DEF PortInv, PortsAreUsedOnce, portVars
<1>2. ASSUME ~ raced', ~ crashed', NEW i \in DOMAIN UsedPorts'
      PROVE  Held(UsedPorts[i])'
  <2>1. ~ raced /\ ~ crashed /\ i \in DOMAIN UsedPorts /\ UsedPorts' = UsedPorts
    BY <1>2 DEF portVars
  <2>2. Held(UsedPorts[i])
    BY <2>1 DEF PortInv, PortsAreReturned, Held
  <2>3. UsedPorts[i] # NoPort
    BY <2>1, LabAssumption DEF PortInv, PortsAreUsedOnce, NoPort
  <2>4. CASE \E c \in Conn : conns[c].port = UsedPorts[i] /\ conns[c].reader # "done"
    BY <2>1, <2>4 DEF KeepsConns, Held
  <2>5. CASE dialler.conn = NoConn /\ dialler.port = UsedPorts[i]
    BY <2>1, <2>3, <2>5 DEF Held
  <2> QED BY <2>2, <2>4, <2>5 DEF Held
<1>3. PortsAreReturned'
  BY <1>2 DEF PortsAreReturned, Held
<1> QED BY <1>1, <1>3

\* The dialler when it goes on with the next peer.
LEMMA DiallerGoesOn ==
    ASSUME NEW todo, NEW d, d \in {ConnectOn(todo), CleanOn(todo)}
    PROVE  IsDialler(d) /\ d.pc \in {"connect", "init", "clean"} /\ d.conn = NoConn /\ d.port = NoPort
BY DEF ConnectOn, CleanOn, At, IsDialler

\* A port is removed that nobody needs, or another one, which is a race.
LEMMA RemovesPort ==
    ASSUME PortInv, ~ crashed, dialler.pc = "unport", RemovePort(dialler.port, dialler.index),
           KeepsConns, IsDialler(dialler'), dialler'.pc \in {"connect", "init", "clean"}, dialler'.port = NoPort
    PROVE  PortsAreUsedOnce' /\ DiallerTypes' /\ PortsAreReturned'
<1> DEFINE p == dialler.port  k == dialler.index
<1>1. UsedPorts' = PortsWithout(k) /\ crashed' = (k > Len(UsedPorts))
  BY RemovedOnce DEF RemovePort, PortInv
<1>2. /\ PortsAreUsedOnce'
      /\ \A j \in DOMAIN UsedPorts' : \E i \in DOMAIN UsedPorts : i # k /\ UsedPorts'[j] = UsedPorts[i]
  BY <1>1, WithoutPort DEF PortInv
<1>3. DiallerTypes'
  BY DEF DiallerTypes
<1>4. ASSUME ~ raced', ~ crashed', NEW j \in DOMAIN UsedPorts'
      PROVE  \E c \in Conn : conns'[c].port = UsedPorts'[j] /\ conns'[c].reader # "done"
  <2>1. PICK i \in DOMAIN UsedPorts : i # k /\ UsedPorts'[j] = UsedPorts[i]
    BY <1>2
  <2>2. ~ raced /\ ~ (k \in DOMAIN UsedPorts /\ UsedPorts[k] # p) /\ ~ k > Len(UsedPorts)
    BY <1>1, <1>4 DEF RemovePort
  <2>3. Held(UsedPorts[i])
    BY <2>1, <2>2 DEF PortInv, PortsAreReturned, Held
  <2>4. UsedPorts[i] # p
    <3>1. CASE k = 0
      BY <2>1, <3>1 DEF PortInv, DiallerTypes
    <3>2. CASE k # 0
      <4>1. k \in DOMAIN UsedPorts
        BY <2>2, <3>2 DEF PortInv, PortsAreUsedOnce, DiallerTypes
      <4> QED BY <2>1, <2>2, <4>1 DEF PortInv, PortsAreUsedOnce
    <3> QED BY <3>1, <3>2
  <2> QED BY <2>1, <2>3, <2>4 DEF Held, KeepsConns
<1>5. PortsAreReturned'
  BY <1>4 DEF PortsAreReturned
<1> QED BY <1>2, <1>3, <1>5

\* The dialler does nothing about ports.
LEMMA DiallerTurns ==
    ASSUME PortInv, KeepsConns, UNCHANGED <<portVars, crashed>>, dialler.port = NoPort,
           IsDialler(dialler'), dialler'.port = NoPort,
           dialler'.pc \in {"connect", "scan", "init", "ended", "clean"}
    PROVE  PortsAreUsedOnce' /\ DiallerTypes' /\ PortsAreReturned'
<1>1. DiallerTypes'
  BY DEF DiallerTypes
<1> QED BY <1>1, KeepsPorts

\* The dialler takes a port, which is then its own, and was free if nothing raced.
LEMMA TakesPort ==
    ASSUME PortInv, getClientAddr, ~ raced'
    PROVE  PortsAreUsedOnce' /\ DiallerTypes' /\ PortsAreReturned'
<1>1. KeepsConns /\ dialler.port = NoPort
  BY DEF getClientAddr, KeepsConns, PortInv, DiallerTypes
<1> DEFINE free(found) == Ports \ found
           first(found) == CHOOSE q \in free(found) : \A r \in free(found) : q <= r
<1>2. PICK found :
         IF free(found) = {}
         THEN dialler' = ConnectOn(dialler.todo) /\ UNCHANGED portVars
         ELSE /\ UsedPorts' = Append(UsedPorts, first(found))
              /\ raced' = (raced \/ Contains(UsedPorts, first(found)))
              /\ dialler' = [At("dial", dialler.todo) EXCEPT !.key = dialler.key, !.port = first(found)]
  BY DEF getClientAddr
<1>3. CASE free(found) = {}
  BY <1>1, <1>2, <1>3, DiallerGoesOn, DiallerTurns DEF getClientAddr
<1>4. CASE free(found) # {}
  <2>1. PICK q : q = first(found)
    OBVIOUS
  <2>2. q \in Ports
    <3>1. free(found) \in SUBSET Nat
      BY LabAssumption
    <3>2. \E m \in free(found) : \A r \in free(found) : m <= r
      BY <1>4, <3>1, LeastOne
    <3> QED BY <2>1, <3>2
  <2>3. /\ UsedPorts' = Append(UsedPorts, q)
        /\ dialler' = [At("dial", dialler.todo) EXCEPT !.key = dialler.key, !.port = q]
        /\ raced' = (raced \/ Contains(UsedPorts, q))
        /\ UNCHANGED crashed
    BY <1>2, <1>4, <2>1 DEF getClientAddr
  <2>4. /\ IsDialler(dialler')
        /\ dialler'.pc = "dial" /\ dialler'.conn = NoConn /\ dialler'.port = q
    BY <2>3 DEF At, IsDialler
  <2> HIDE DEF first, free
  <2>5. ~ raced /\ \A i \in DOMAIN UsedPorts : UsedPorts[i] # q
    <3>1. ~ raced /\ ~ Contains(UsedPorts, q)
      BY <2>3
    <3>2. Contains(UsedPorts, q) <=> \E i \in DOMAIN UsedPorts : UsedPorts[i] = q
      BY DEF Contains, PortInv, PortsAreUsedOnce
    <3> QED BY <3>1, <3>2
  <2>6. /\ UsedPorts' \in Seq(Ports) /\ Len(UsedPorts') = Len(UsedPorts) + 1
        /\ \A i \in DOMAIN UsedPorts' :
              \/ i \in DOMAIN UsedPorts /\ UsedPorts'[i] = UsedPorts[i]
              \/ i = Len(UsedPorts) + 1 /\ UsedPorts'[i] = q
    BY <2>2, <2>3 DEF PortInv, PortsAreUsedOnce
  <2>7. PortsAreUsedOnce'
    BY <2>5, <2>6 DEF PortInv, PortsAreUsedOnce
  <2>8. DiallerTypes'
    BY <2>4 DEF DiallerTypes
  <2>9. ASSUME ~ crashed', NEW i \in DOMAIN UsedPorts'
        PROVE  Held(UsedPorts[i])'
    <3>1. CASE i \in DOMAIN UsedPorts /\ UsedPorts'[i] = UsedPorts[i]
      <4>1. Held(UsedPorts[i]) /\ UsedPorts[i] # NoPort
        BY <2>3, <2>5, <2>9, <3>1, LabAssumption DEF PortInv, PortsAreReturned, PortsAreUsedOnce, Held, NoPort
      <4> QED BY <1>1, <3>1, <4>1 DEF Held, KeepsConns
    <3>2. CASE UsedPorts'[i] = q
      BY <2>4, <3>2 DEF Held
    <3> QED BY <2>6, <3>1, <3>2
  <2>10. PortsAreReturned'
    BY <2>9 DEF PortsAreReturned, Held
  <2> QED BY <2>7, <2>8, <2>10
<1> QED BY <1>3, <1>4

\* A new connection takes the place of one that is done with.
LEMMA MadeConn ==
    ASSUME ConnTypes, NEW p, NEW port, Makes(p, port)
    PROVE  KeepsConns /\ \E c \in Conn : conns'[c].port = port /\ conns'[c].reader # "done"
<1>1. PICK c \in Conn : conns[c] = Done /\ conns' = [conns EXCEPT ![c] = NewConn(p, port)]
  BY DEF Makes, Unused
<1>2. conns'[c] = NewConn(p, port) /\ \A d \in Conn \ {c} : conns'[d] = conns[d]
  BY <1>1 DEF ConnTypes
<1>3. conns[c].reader = "done"
  BY <1>1 DEF Done
<1>4. conns'[c].port = port /\ conns'[c].reader # "done"
  BY <1>2 DEF NewConn
<1> QED BY <1>2, <1>3, <1>4 DEF KeepsConns

\* One that is dialled has the port of the dial.
LEMMA DialsPort ==
    ASSUME PortInv, Dialled
    PROVE  PortsAreUsedOnce' /\ DiallerTypes' /\ PortsAreReturned'
<1>1. KeepsConns /\ \E c \in Conn : conns'[c].port = dialler.port /\ conns'[c].reader # "done"
  BY MadeConn DEF Dialled, PortInv, EntryInv
<1>2. IsDialler(dialler') /\ dialler'.pc \in {"connect", "init", "clean"} /\ dialler'.port = NoPort
  BY DiallerGoesOn DEF Dialled
<1>3. DiallerTypes'
  BY <1>2 DEF DiallerTypes
<1>4. UNCHANGED <<UsedPorts, raced, crashed>>
  BY DEF Dialled, portVars
<1>5. PortsAreUsedOnce'
  BY <1>4 DEF PortInv, PortsAreUsedOnce
<1>6. ASSUME ~ raced', ~ crashed', NEW i \in DOMAIN UsedPorts'
      PROVE  \E c \in Conn : conns'[c].port = UsedPorts'[i] /\ conns'[c].reader # "done"
  <2>1. Held(UsedPorts[i])
    BY <1>4, <1>6 DEF PortInv, PortsAreReturned, Held
  <2> QED BY <1>1, <1>4, <2>1 DEF Held, KeepsConns
<1>7. PortsAreReturned'
  BY <1>6 DEF PortsAreReturned
<1> QED BY <1>3, <1>5, <1>7

\* A reader that ends gives back the port of its connection, and no other does.
LEMMA ReturnsPort ==
    ASSUME PortInv, ~ crashed, NEW c \in Conn, cleanupConn(c)
    PROVE  PortsAreUsedOnce' /\ DiallerTypes' /\ PortsAreReturned'
<1> DEFINE p == conns[c].port
<1>1. /\ UsedPorts' = PortsWithout(LookFor(p)) /\ conns' = [conns EXCEPT ![c] = Done]
      /\ UNCHANGED <<raced, dialler>>
  BY RemovedOnce DEF cleanupConn, PortInv
<1>2. /\ PortsAreUsedOnce'
      /\ \A j \in DOMAIN UsedPorts' : \E i \in DOMAIN UsedPorts : UsedPorts'[j] = UsedPorts[i]
  BY <1>1, WithoutPort DEF PortInv
<1>3. \A j \in DOMAIN UsedPorts' : UsedPorts'[j] # p
  BY <1>1, PortIsGone DEF PortInv
<1>4. DiallerTypes'
  BY <1>1, <1>2 DEF PortInv, DiallerTypes
<1>5. ASSUME ~ raced', ~ crashed', NEW j \in DOMAIN UsedPorts'
      PROVE  Held(UsedPorts[j])'
  <2>1. PICK i \in DOMAIN UsedPorts : UsedPorts'[j] = UsedPorts[i]
    BY <1>2
  <2>2. Held(UsedPorts[i])
    BY <1>1, <1>5, <2>1 DEF PortInv, PortsAreReturned, Held
  <2>3. UsedPorts[i] # p
    BY <1>3, <2>1
  <2>4. \A d \in Conn \ {c} : conns'[d] = conns[d]
    BY <1>1 DEF PortInv, EntryInv, ConnTypes
  <2> QED BY <1>1, <2>1, <2>2, <2>3, <2>4 DEF Held
<1>6. PortsAreReturned'
  BY <1>5 DEF PortsAreReturned, Held
<1> QED BY <1>2, <1>4, <1>6

\* The dialler has looked for a port.
LEMMA DiallerLooked ==
    ASSUME PortInv, NEW port, UNCHANGED UsedPorts,
           dialler' = [dialler EXCEPT !.pc = "unport", !.port = port, !.index = LookFor(port)]
    PROVE  DiallerTypes' /\ dialler'.conn = dialler.conn /\ dialler'.port = port
<1>1. PICK i : i = LookFor(port)
  OBVIOUS
<1>2. i \in Nat /\ (i = 0 => \A j \in DOMAIN UsedPorts : UsedPorts[j] # port)
  BY <1>1, FindsPort DEF PortInv, PortsAreUsedOnce
<1>3. dialler' = [dialler EXCEPT !.pc = "unport", !.port = port, !.index = i]
  BY <1>1
<1>4. /\ IsDialler(dialler') /\ dialler'.pc = "unport" /\ dialler'.conn = dialler.conn
      /\ dialler'.port = port /\ dialler'.index = i
  BY <1>3 DEF PortInv, DiallerTypes, IsDialler
<1> QED BY <1>2, <1>4 DEF DiallerTypes

\* What ConnTerminated finds out.
LEMMA TerminatedPort ==
    ASSUME PortInv, ConnTerminated
    PROVE  PortsAreUsedOnce' /\ DiallerTypes' /\ PortsAreReturned'
<1> DEFINE c == dialler.conn
<1>1. dialler.pc = "one" /\ c # NoConn /\ UNCHANGED <<portVars, crashed>>
  BY DEF ConnTerminated, PortInv, DiallerTypes
<1>2. KeepsConns
  <2>1. CASE conns' = [conns EXCEPT ![c].in[1] = "torn"]
    BY <2>1 DEF KeepsConns, PortInv, EntryInv, ConnTypes, IsConn
  <2> QED BY <2>1 DEF ConnTerminated, KeepsConns
<1>3. PortsAreUsedOnce' /\ PortsAreReturned'
  BY <1>1, <1>2, KeepsPorts
<1>4. DiallerTypes'
  <2>1. CASE dialler' = CleanOn(dialler.todo)
    BY <2>1, DiallerGoesOn DEF DiallerTypes
  <2>2. CASE dialler' = [dialler EXCEPT !.pc = "unport", !.port = conns[c].port,
                                        !.index = LookFor(conns[c].port)]
    BY <1>1, <2>2, DiallerLooked DEF portVars
  <2> QED BY <2>1, <2>2 DEF ConnTerminated
<1> QED BY <1>3, <1>4

LEMMA NextPorts == PortInv /\ [Next]_vars /\ ~ raced' => PortInv'
<1> SUFFICES ASSUME PortInv, [Next]_vars, ~ raced' PROVE PortsAreUsedOnce' /\ DiallerTypes' /\ PortsAreReturned'
  BY NextEntries DEF PortInv
<1>1. ASSUME UNCHANGED portVars, UNCHANGED <<dialler, crashed>>, KeepsConns
      PROVE  PortsAreUsedOnce' /\ DiallerTypes' /\ PortsAreReturned'
  BY <1>1, KeepsPorts DEF PortInv, DiallerTypes, portVars
<1>2. CASE UNCHANGED vars
  BY <1>1, <1>2 DEF KeepsConns, vars, connVars
<1>3. ASSUME NEW p \in Peers, CleanEntry(p)
      PROVE  PortsAreUsedOnce' /\ DiallerTypes' /\ PortsAreReturned'
  <2>1. KeepsConns /\ dialler.port = NoPort
    BY <1>3 DEF CleanEntry, KeepsConns, PortInv, DiallerTypes
  <2>2. PortsAreUsedOnce' /\ PortsAreReturned'
    BY <1>3, <2>1, KeepsPorts DEF CleanEntry
  <2>3. DiallerTypes'
    <3>1. CASE Connections[p] = NoConn
      BY <1>3, <3>1, DiallerGoesOn DEF CleanEntry, DiallerTypes
    <3>2. CASE Connections[p] # NoConn
      <4>1. IsDialler(dialler') /\ dialler'.pc = "one" /\ dialler'.conn = Connections[p]
        BY <1>3, <3>2 DEF CleanEntry, At, IsDialler
      <4> QED BY <3>2, <4>1 DEF DiallerTypes
    <3> QED BY <3>1, <3>2
  <2> QED BY <2>2, <2>3
<1>4. ASSUME DialFails
      PROVE  PortsAreUsedOnce' /\ DiallerTypes' /\ PortsAreReturned'
  <2>1. KeepsConns /\ dialler.pc = "dial" /\ dialler.conn = NoConn
    BY <1>4 DEF DialFails, KeepsConns, PortInv, DiallerTypes
  <2>2. dialler' = [dialler EXCEPT !.pc = "unport", !.port = dialler.port, !.index = LookFor(dialler.port)]
    BY <1>4 DEF DialFails, PortInv, DiallerTypes, IsDialler
  <2>3. DiallerTypes' /\ dialler'.conn = NoConn /\ dialler'.port = dialler.port
    BY <1>4, <2>1, <2>2, DiallerLooked DEF DialFails, portVars
  <2> QED BY <1>4, <2>1, <2>3, KeepsPorts DEF DialFails
<1>5. ASSUME DialFailed, ~ crashed
      PROVE  PortsAreUsedOnce' /\ DiallerTypes' /\ PortsAreReturned'
  <2>1. KeepsConns
    BY <1>5 DEF DialFailed, KeepsConns
  <2> QED BY <1>5, <2>1, RemovesPort, DiallerGoesOn DEF DialFailed
<1>6. ASSUME CleanEnded, ~ crashed
      PROVE  PortsAreUsedOnce' /\ DiallerTypes' /\ PortsAreReturned'
  <2>1. KeepsConns
    BY <1>6 DEF CleanEnded, KeepsConns, PortInv, EntryInv, ConnTypes, IsConn
  <2> QED BY <1>6, <2>1, RemovesPort, DiallerGoesOn DEF CleanEnded
<1>7. ASSUME NEW p \in Peers, Accept(p)
      PROVE  PortsAreUsedOnce' /\ DiallerTypes' /\ PortsAreReturned'
  BY <1>1, <1>7, MadeConn DEF Accept, PortInv, EntryInv
<1>8. ASSUME NEW c \in Conn, Read(c) \/ PushMsg(c) \/ PeerSends(c) \/ PeerCloses(c)
       PROVE  PortsAreUsedOnce' /\ DiallerTypes' /\ PortsAreReturned'
  <2>1. PICK r : /\ r.port = conns[c].port /\ (conns[c].reader # "done" => r.reader # "done")
                 /\ conns' = [conns EXCEPT ![c] = r]
    <3>1. IsConn(conns[c])
      BY DEF PortInv, EntryInv, ConnTypes
    <3>2. CASE Read(c)
      <4>1. PICK msg \in {"hb", "zero"} :
               \/ conns' = [conns EXCEPT ![c].in = <<>>]
               \/ conns' = [conns EXCEPT ![c].in = <<>>, ![c].reader = msg]
        BY <3>2 DEF Read
      <4> QED BY <3>1, <4>1 DEF IsConn, PortInv, EntryInv, ConnTypes
    <3>3. CASE PushMsg(c)
      BY <3>1, <3>3 DEF PushMsg, IsConn
    <3>4. CASE PeerSends(c)
      BY <3>1, <3>4 DEF PeerSends, IsConn
    <3>5. CASE PeerCloses(c)
      BY <3>1, <3>5 DEF PeerCloses, IsConn
    <3> QED BY <1>8, <3>2, <3>3, <3>4, <3>5
  <2>2. KeepsConns
    BY <2>1 DEF KeepsConns, PortInv, EntryInv, ConnTypes
  <2> QED BY <1>1, <1>8, <2>2 DEF Read, PushMsg, PeerSends, PeerCloses
<1>10. ASSUME NEW p \in Peers, ConnectToNode(p)
       PROVE  PortsAreUsedOnce' /\ DiallerTypes' /\ PortsAreReturned'
  <2>1. KeepsConns /\ dialler.port = NoPort /\ UNCHANGED <<portVars, crashed>>
    BY <1>10 DEF ConnectToNode, KeepsConns, PortInv, DiallerTypes
  <2>2. CASE Connections[p] # NoConn
    <3>1. dialler' = ConnectOn(dialler.todo \ {p})
      BY <1>10, <2>2 DEF ConnectToNode
    <3> QED BY <2>1, <3>1, DiallerGoesOn, DiallerTurns
  <2>3. CASE Connections[p] = NoConn
    <3>1. IsDialler(dialler') /\ dialler'.pc = "scan" /\ dialler'.port = NoPort
      BY <1>10, <2>3 DEF ConnectToNode, At, IsDialler
    <3> QED BY <2>1, <3>1, DiallerTurns
  <2> QED BY <2>2, <2>3
<1>11. ASSUME InitServer
       PROVE  PortsAreUsedOnce' /\ DiallerTypes' /\ PortsAreReturned'
  <2>1. KeepsConns /\ dialler.port = NoPort /\ UNCHANGED <<portVars, crashed>>
    BY <1>11 DEF InitServer, KeepsConns, PortInv, DiallerTypes
  <2>2. /\ IsDialler(dialler') /\ dialler'.pc \in {"clean", "ended"} /\ dialler'.port = NoPort
    BY <1>11 DEF InitServer, At, IsDialler
  <2> QED BY <2>1, <2>2, DiallerTurns
<1>9. ASSUME Main \/ Detector \/ Timeout \/ Sender \/ PeerReads \/ \E p \in Peers : SendWaits(p)
       PROVE  PortsAreUsedOnce' /\ DiallerTypes' /\ PortsAreReturned'
  <2>1. UNCHANGED <<portVars, dialler, crashed>> /\ KeepsConns
    BY <1>9 DEF Main, TakeHeartbeat, PassOn, TakeMsg, DeliverHeartbeat, Detector, HandleHeartbeat,
       SendHeartbeat, Timeout, Sender, Send, SendToSelf, WriteFails, PeerReads, WriteEnds, SendWaits,
       connVars, KeepsConns
  <2> QED BY <1>1, <2>1
<1> QED
  BY <1>2, <1>3, <1>4, <1>5, <1>6, <1>7, <1>8, <1>9, <1>10, <1>11, TakesPort, DialsPort, TerminatedPort,
     ReturnsPort DEF Next, Dialler, Reader

LEMMA RacesStay == raced /\ [Next]_vars => raced'
<1> SUFFICES ASSUME raced, [Next]_vars PROVE raced'
  OBVIOUS
<1>1. CASE UNCHANGED raced
  BY <1>1
<1>2. CASE Dialler
  BY <1>2 DEF Dialler, ConnectToNode, CleanEntry, getClientAddr, InitServer, Dialled, DialFails,
     DialFailed, ConnTerminated, CleanEnded, RemovePort, portVars
<1>3. CASE \E c \in Conn : Reader(c) \/ PeerSends(c) \/ PeerCloses(c)
  BY <1>3 DEF Reader, Read, PushMsg, cleanupConn, PeerSends, PeerCloses, portVars
<1>4. CASE \E p \in Peers : Accept(p) \/ SendWaits(p)
  BY <1>4 DEF Accept, SendWaits, connVars, portVars
<1>5. CASE Main \/ Detector \/ Timeout \/ Sender \/ PeerReads \/ UNCHANGED vars
  BY <1>5 DEF Main, TakeHeartbeat, PassOn, TakeMsg, DeliverHeartbeat, Detector, HandleHeartbeat,
     SendHeartbeat, Timeout, Sender, Send, SendToSelf, WriteFails, PeerReads, WriteEnds, vars, connVars,
     portVars
<1> QED BY <1>2, <1>3, <1>4, <1>5 DEF Next

\* Every port in use is that of a connection that is read or of an attempt to make one,
\* as long as the goroutines did not race for ports, for any number of ports, peers and
\* connections (TCP.go:345, 366, 429).
THEOREM PortsReturned == FairSpec => []PortsAreReturned
<1> DEFINE Inv == EntryInv /\ (raced \/ PortInv)
<1>1. Init => Inv
  BY InitPorts DEF PortInv
<1>2. Inv /\ [Next]_vars => Inv'
  BY NextEntries, NextPorts, RacesStay
<1>3. Inv => PortsAreReturned
  BY DEF PortInv, PortsAreReturned
<1> QED BY <1>1, <1>2, <1>3, PTL DEF FairSpec
=============================================================================
