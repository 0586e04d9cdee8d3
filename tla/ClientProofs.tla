---------------------------- MODULE ClientProofs ----------------------------
(***************************************************************************)
(* The external client with the nodes: types, that no command is taken     *)
(* twice, that results are told apart, and that deposits cover what they   *)
(* say, for any number of nodes, commands, connections, crashes and        *)
(* elections.                                                              *)
(***************************************************************************)
EXTENDS ExtClient, InductionProofs

\* What is on its way belongs to a command that was typed; with the console and the
\* GUI it also has that command's sequence number.
Typed(v) ==
    /\ v.cmd \in 1 .. asked
    /\ kind \in {"console", "gui"} /\ ~overrun => v.cmd = v.ClientSeq + 1

Command ==
    {v \in [cmd : Nat, ClientSeq : Nat, Txn : Transaction, by : Node \cup {NoNode}] :
        Typed(v) /\ Pays(v.Txn) <= Pays(Script[kind][v.cmd])}

NoRepeat(s) == \A i, j \in DOMAIN s : s[i].cmd = s[j].cmd => i = j

\* A balance after s was paid in: all of it is there at most, and a debt means that an
\* integer did not hold it.
Sound(b, s) == b \in -(MaxInt + 1) .. MaxInt /\ b <= s /\ (b < 0 => s > MaxInt)

\* What was paid in explains a result as long as no command is decided twice.
Covered(v) == NoRepeat(log) => Sound(v.Balance, PaidIn(kind, asked))

Balances == {Process(BalanceAfter(t), x).Balance : t \in Seq(Transaction), x \in Transaction}

Result ==
    {v \in [MsgType : {"TRANSACTION_RESULT"}, cmd : Nat, ClientSeq : Nat, Balance : Balances,
            Failed : BOOLEAN] : Typed(v) /\ Covered(v)}

Answer == Result \cup [MsgType : {"REDIRECT"}, host : Node]

\* Only what is written to an end that is closed breaks a connection.
Connection ==
    {r \in [node : Node, open : BOOLEAN, srvPc : {"recv", "redirected", "done"},
            broken : BOOLEAN, toSrv : Seq(Command), toCl : Seq(Answer)] :
        r.broken => r.srvPc = "done"}

ServiceTypes ==
    /\ up \subseteq Node
    /\ pLeader \in [Node -> Node] /\ curLeader \in [Node -> Node]
    /\ srvLdrIn \in [Node -> Node \cup {NoNode}]
    /\ conns \in Seq(Connection) /\ Len(conns) <= MaxConns
    /\ extClAddrConn \in [Node -> 0 .. Len(conns)]
    /\ requestsIn \in [Node -> Seq(Command)] /\ log \in Seq(Command)
    /\ adu \in [Node -> Nat]
    /\ lost \subseteq 1 .. asked

Dials(d) == IF dial[d].pc = "dial" THEN 1 ELSE 0

\* Dials fail LDR_CONN_NUM_RETRY times and a last time, and with them those started before.
DialTypes ==
    /\ dial \in [Dialer -> [pc : {"idle", "type", "blank", "loop", "dial", "stop"}, with : Node \cup {NoNode}]]
    /\ \A d \in Dialer : dial[d].pc = "dial" => dial[d].with \in Node
    /\ host \in Node \cup {NoNode} /\ retries \in Nat
    /\ retries + Dials("input") + Dials("redirect") + Dials("eof") <= LDR_CONN_NUM_RETRY + 3

ReadTypes ==
    /\ conn \in 0 .. Len(conns)
    /\ reads \in Seq(1 .. Returned) /\ Len(reads) = Len(conns)

MainTypes ==
    /\ kind \in Kinds
    /\ main \in {"start", "take", "signal", "count", "exited"}
    /\ asked \in 0 .. MaxCmds /\ seqNum \in Nat /\ sending \in Nat
    /\ msgClIn \in Seq(Result)
    /\ answered \subseteq 1 .. asked
    /\ overrun \in BOOLEAN
    /\ kind = "benchmark" /\ main \in {"signal", "count"} => msgClIn # <<>>

\* Nothing happens before the user typed something, and the console and the GUI count
\* the results.
Counting ==
    /\ asked = 0 => sending = 0 /\ Len(conns) = 0 /\ \A d \in Dialer : dial[d].pc \in {"idle", "blank"}
    /\ kind \in {"console", "gui"} =>
          /\ main = "start" => asked = 0 /\ seqNum = 0
          /\ main = "take" => asked = seqNum + 1
          /\ main = "signal" => asked = seqNum
          /\ main # "count"

Types == ServiceTypes /\ DialTypes /\ ReadTypes /\ MainTypes /\ Counting

-----------------------------------------------------------------------------
\* A message read from connection c has a reader.
Open(c) == conns[c].open /\ ~conns[c].broken

Redirected(c) == \E i \in DOMAIN conns[c].toCl : conns[c].toCl[i].MsgType = "REDIRECT"

Asker == {"input", "redirect"}
Asks(d) == dial[d].pc \in {"type", "loop", "dial"}

\* The last command is to be sent, or sent again.
Waiting ==
    \/ sending > 0
    \/ \E d \in Asker : Asks(d)
    \/ \E c \in 1 .. Len(conns) : Open(c) /\ Redirected(c)

\* The right to send the last command is in one place at most: with one goroutine, or
\* on one connection, with the command or with the redirect.
OneSender ==
    /\ sending <= 1
    /\ \A d, e \in Asker : Asks(d) /\ Asks(e) => d = e
    /\ \A b, c \in 1 .. Len(conns) : MayReturn(b) /\ MayReturn(c) => b = c
    /\ sending > 0 => \A d \in Asker : ~Asks(d)
    /\ sending > 0 \/ (\E d \in Asker : Asks(d)) => \A c \in 1 .. Len(conns) : ~MayReturn(c)
    /\ main \in {"start", "signal"} => ~StillToSend
    /\ \A c \in 1 .. Len(conns) :
          /\ Len(conns[c].toSrv) <= 1
          /\ Open(c) /\ conns[c].toSrv # <<>> =>
                ~Redirected(c) /\ Cmds(conns[c].toSrv) = {asked}

\* No command is in two places, and the last one in none while it is to be sent.
Apart ==
    /\ NoRepeat(log) /\ \A n \in Node : NoRepeat(requestsIn[n])
    /\ \A n \in Node : \A x \in Cmds(requestsIn[n]) :
          x \notin Cmds(log) /\ \A m \in Node : x \in Cmds(requestsIn[m]) => m = n
    /\ \A c \in 1 .. Len(conns) : \A x \in Cmds(conns[c].toSrv) :
          /\ x \notin Cmds(log) /\ \A n \in Node : x \notin Cmds(requestsIn[n])
          /\ \A b \in 1 .. Len(conns) : x \in Cmds(conns[b].toSrv) => b = c

Nowhere(x) ==
    /\ x \notin Cmds(log)
    /\ \A n \in Node : x \notin Cmds(requestsIn[n])
    /\ \A c \in 1 .. Len(conns) : x \notin Cmds(conns[c].toSrv)

OnePlace == Apart /\ (Waiting => Nowhere(asked))

-----------------------------------------------------------------------------
\* Streams and queues.

\* A stream after a message was read from it.
LEMMA ReadStream ==
    ASSUME NEW S, NEW s \in Seq(S), s # <<>>, NEW rest \in AfterDecode(s)
    PROVE  /\ Head(s) \in S /\ Head(s) = s[1] /\ 1 \in DOMAIN s
           /\ rest \in Seq(S) /\ Tail(s) \in Seq(S)
           /\ \A i \in DOMAIN rest : i + 1 \in DOMAIN s /\ rest[i] = s[i + 1]
           /\ Len(s) <= 1 => rest = <<>> /\ Tail(s) = <<>>
<1>1. /\ Head(s) \in S /\ Tail(s) \in Seq(S) /\ Len(Tail(s)) = Len(s) - 1
      /\ \A i \in 1 .. Len(Tail(s)) : Tail(s)[i] = s[i + 1]
  BY HeadTailProperties
<1>2. /\ Len(s) \in Nat \ {0} /\ DOMAIN s = 1 .. Len(s) /\ Head(s) = s[1]
      /\ DOMAIN Tail(s) = 1 .. (Len(s) - 1)
  BY <1>1, LenProperties, EmptySeq
<1>3. \A i \in DOMAIN Tail(s) : i + 1 \in DOMAIN s /\ Tail(s)[i] = s[i + 1]
  BY <1>1, <1>2
<1>4. Len(s) <= 1 => Tail(s) = <<>>
  BY <1>1, <1>2, EmptySeq
<1>5. 1 \in DOMAIN s
  BY <1>2
<1>6. CASE rest = Tail(s)
  BY <1>1, <1>2, <1>3, <1>4, <1>5, <1>6
<1>7. CASE rest = <<>>
  <2>1. rest \in Seq(S) /\ DOMAIN rest = {}
    BY <1>7, EmptySeq
  <2> QED BY <1>1, <1>2, <1>4, <1>5, <1>7, <2>1
<1> QED BY <1>6, <1>7 DEF AfterDecode

LEMMA AppendedCmds ==
    ASSUME NEW S, NEW s \in Seq(S), NEW e \in S
    PROVE  /\ Append(s, e) \in Seq(S) /\ Append(s, e) # <<>>
           /\ Len(Append(s, e)) = Len(s) + 1
           /\ Cmds(Append(s, e)) = Cmds(s) \cup {e.cmd}
           /\ NoRepeat(s) /\ e.cmd \notin Cmds(s) => NoRepeat(Append(s, e))
<1>1. /\ Append(s, e) \in Seq(S) /\ Append(s, e) # <<>> /\ Len(Append(s, e)) = Len(s) + 1
      /\ \A i \in 1 .. Len(s) : Append(s, e)[i] = s[i]
      /\ Append(s, e)[Len(s) + 1] = e
  BY AppendProperties
<1>2. /\ Len(s) \in Nat /\ DOMAIN s = 1 .. Len(s)
      /\ DOMAIN Append(s, e) = 1 .. (Len(s) + 1)
  BY <1>1, LenProperties
<1>3. \A i \in 1 .. (Len(s) + 1) : i \in 1 .. Len(s) \/ i = Len(s) + 1
  BY <1>2
<1>4. Cmds(Append(s, e)) \subseteq Cmds(s) \cup {e.cmd}
  BY <1>1, <1>2, <1>3 DEF Cmds
<1>5. \A i \in 1 .. Len(s) : i \in 1 .. (Len(s) + 1)
  BY <1>2
<1>6. Len(s) + 1 \in 1 .. (Len(s) + 1)
  BY <1>2
<1>7. Cmds(s) \cup {e.cmd} \subseteq Cmds(Append(s, e))
  BY <1>1, <1>2, <1>5, <1>6 DEF Cmds
<1>8. NoRepeat(s) /\ e.cmd \notin Cmds(s) => NoRepeat(Append(s, e))
  BY <1>1, <1>2, <1>3 DEF NoRepeat, Cmds
<1> QED BY <1>1, <1>4, <1>7, <1>8

LEMMA TailCmds ==
    ASSUME NEW S, NEW s \in Seq(S), s # <<>>
    PROVE  /\ Head(s) \in S /\ Tail(s) \in Seq(S) /\ Len(Tail(s)) = Len(s) - 1
           /\ Cmds(Tail(s)) \subseteq Cmds(s) /\ Head(s).cmd \in Cmds(s)
           /\ NoRepeat(s) => NoRepeat(Tail(s)) /\ Head(s).cmd \notin Cmds(Tail(s))
<1>1. /\ Head(s) \in S /\ Tail(s) \in Seq(S) /\ Len(Tail(s)) = Len(s) - 1
      /\ \A i \in 1 .. Len(Tail(s)) : Tail(s)[i] = s[i + 1]
  BY HeadTailProperties
<1>2. /\ Len(s) \in Nat /\ Len(s) > 0 /\ DOMAIN s = 1 .. Len(s)
      /\ DOMAIN Tail(s) = 1 .. (Len(s) - 1) /\ Head(s) = s[1]
  BY <1>1, LenProperties, EmptySeq
<1>3. \A i \in 1 .. (Len(s) - 1) : i + 1 \in 1 .. Len(s) /\ i + 1 # 1 /\ Tail(s)[i] = s[i + 1]
  BY <1>1, <1>2
<1>4. 1 \in 1 .. Len(s)
  BY <1>2
<1>5. Cmds(Tail(s)) \subseteq Cmds(s) /\ Head(s).cmd \in Cmds(s)
  BY <1>2, <1>3, <1>4 DEF Cmds
<1>6. NoRepeat(s) => Head(s).cmd \notin Cmds(Tail(s))
  BY <1>2, <1>3, <1>4 DEF Cmds, NoRepeat
<1>7. ASSUME NoRepeat(s), NEW i \in 1 .. (Len(s) - 1), NEW j \in 1 .. (Len(s) - 1),
             Tail(s)[i].cmd = Tail(s)[j].cmd
      PROVE  i = j
  <2>1. i + 1 = j + 1
    BY <1>2, <1>3, <1>7 DEF NoRepeat
  <2> QED BY <1>2, <2>1
<1> QED BY <1>1, <1>2, <1>5, <1>6, <1>7 DEF NoRepeat

LEMMA EmptyCmds == Cmds(<<>>) = {} /\ Len(<<>>) = 0
BY EmptySeq DEF Cmds

\* The commands of a queue were typed.
LEMMA CmdsWereTyped ==
    ASSUME NEW s \in Seq(Command)
    PROVE  Cmds(s) \subseteq 1 .. asked
<1>1. \A i \in DOMAIN s : s[i] \in Command
  BY LenProperties, ElementOfSeq
<1> QED BY <1>1 DEF Cmds, Command, Typed

-----------------------------------------------------------------------------
\* What results come to.

LEMMA BoundTypes == LDR_CONN_NUM_RETRY \in Nat /\ MaxConns \in Nat
BY ClientAssumption, ServiceAssumption

LEMMA MaxCmdsType == kind \in Kinds => MaxCmds \in Nat /\ MaxCmds = Len(Script[kind])
BY ClientAssumption, LenProperties DEF MaxCmds

Limit(d) == Len(Script[d])
Pay(d, k) == Pays(Script[d][k])

LEMMA LimitType ==
    ASSUME NEW d \in Kinds
    PROVE  Limit(d) \in Nat /\ Script[d] \in Seq(Transaction)
BY ClientAssumption, LenProperties DEF Limit

LEMMA PaysType == \A x \in Transaction : Pays(x) \in Nat
BY IntAssumption DEF Transaction, Pays

LEMMA PayType ==
    ASSUME NEW d \in Kinds, NEW k \in 1 .. Limit(d)
    PROVE  Script[d][k] \in Transaction /\ Pay(d, k) \in Nat
BY LimitType, PaysType, ElementOfSeq DEF Limit, Pay

\* What the commands of K among the first k pay into the account.
Part(d, K, k) == IF k \in K THEN Pay(d, k) ELSE 0
Parts(d, K) ==
    CHOOSE t : Iterates(t, Limit(d), 0, [k \in 1 .. Limit(d) |-> [x \in Nat |-> x + Part(d, K, k)]])

LEMMA PartsAre ==
    ASSUME NEW d \in Kinds, NEW K
    PROVE  /\ Parts(d, K) \in [0 .. Limit(d) -> Nat] /\ Parts(d, K)[0] = 0
           /\ \A k \in 1 .. Limit(d) : Parts(d, K)[k] = Parts(d, K)[k - 1] + Part(d, K, k)
<1> DEFINE step == [k \in 1 .. Limit(d) |-> [x \in Nat |-> x + Part(d, K, k)]]
<1>1. Limit(d) \in Nat /\ 0 \in Nat
  BY LimitType
<1>2. step \in [1 .. Limit(d) -> [Nat -> Nat]]
  BY PayType DEF Part
<1>3. \A k \in 1 .. Limit(d), x \in Nat : step[k][x] = x + Part(d, K, k)
  OBVIOUS
<1>4. Parts(d, K) = CHOOSE t : Iterates(t, Limit(d), 0, step)
  BY DEF Parts
<1> HIDE DEF step
<1>5. Iterates(Parts(d, K), Limit(d), 0, step)
  BY <1>1, <1>2, <1>4, IterationExists
<1>6. Parts(d, K) \in [0 .. Limit(d) -> Nat]
  BY <1>1, <1>2, <1>5, IterationStays
<1>7. Parts(d, K)[0] = 0
  BY <1>1, <1>5 DEF Iterates
<1>8. ASSUME NEW k \in 1 .. Limit(d)
      PROVE  Parts(d, K)[k] = Parts(d, K)[k - 1] + Part(d, K, k)
  <2>1. k \in 0 .. Limit(d) /\ k # 0 /\ k - 1 \in 0 .. Limit(d)
    BY <1>1
  <2>2. Parts(d, K)[k] = step[k][Parts(d, K)[k - 1]]
    BY <1>5, <2>1 DEF Iterates
  <2> QED BY <1>3, <1>6, <2>1, <2>2
<1> QED BY <1>6, <1>7, <1>8

LEMMA PaidInIs ==
    ASSUME NEW d \in Kinds
    PROVE  /\ \A k \in 0 .. Limit(d) : PaidIn(d, k) \in Nat
           /\ PaidIn(d, 0) = 0
           /\ \A k \in 1 .. Limit(d) : PaidIn(d, k) = PaidIn(d, k - 1) + Pay(d, k)
<1> DEFINE Loop(t) == t = [k \in 0 .. Limit(d) |-> IF k = 0 THEN 0 ELSE t[k - 1] + Pay(d, k)]
           All == Parts(d, 1 .. Limit(d))
<1>1. Limit(d) \in Nat
  BY LimitType
<1>2. /\ All \in [0 .. Limit(d) -> Nat] /\ All[0] = 0
      /\ \A k \in 1 .. Limit(d) : All[k] = All[k - 1] + Pay(d, k)
  BY PartsAre DEF Part
<1> HIDE DEF All
<1>3. ASSUME NEW k \in 0 .. Limit(d)
      PROVE  All[k] = IF k = 0 THEN 0 ELSE All[k - 1] + Pay(d, k)
  BY <1>1, <1>2
<1>4. Loop(All)
  BY <1>2, <1>3
<1>5. \A n : PaidIn(d, n) = (CHOOSE t : Loop(t))[n]
  BY DEF PaidIn, Limit, Pay
<1>9. PICK paid : paid = CHOOSE t : Loop(t)
  OBVIOUS
<1>6. Loop(paid)
  BY <1>4, <1>9
<1>7. /\ paid[0] = 0
      /\ \A k \in 1 .. Limit(d) : paid[k] = paid[k - 1] + Pay(d, k)
  <2>1. \A k \in 0 .. Limit(d) : paid[k] = IF k = 0 THEN 0 ELSE paid[k - 1] + Pay(d, k)
    BY <1>6
  <2> QED BY <1>1, <2>1
<1>8. 0 .. Limit(d) \subseteq {k \in 0 .. Limit(d) : paid[k] \in Nat}
  <2> DEFINE S == {k \in 0 .. Limit(d) : paid[k] \in Nat}
  <2>1. 0 \in S
    BY <1>1, <1>7
  <2>2. ASSUME NEW k \in 1 .. Limit(d), k - 1 \in S
        PROVE  k \in S
    <3>1. paid[k - 1] \in Nat /\ Pay(d, k) \in Nat /\ k \in 0 .. Limit(d)
      BY <1>1, <2>2, PayType
    <3> QED BY <1>7, <3>1
  <2> HIDE DEF S
  <2>3. 0 .. Limit(d) \subseteq S
    BY <1>1, <2>1, <2>2, UpTo
  <2> QED BY <2>3 DEF S
<1> HIDE DEF Loop
<1>10. \A n : PaidIn(d, n) = paid[n]
  BY <1>5, <1>9
<1> QED BY <1>7, <1>8, <1>10

\* More commands pay in no less.
LEMMA PaidInGrows ==
    ASSUME NEW d \in Kinds, NEW a \in 0 .. Limit(d), NEW b \in 0 .. Limit(d), a <= b
    PROVE  PaidIn(d, a) \in Nat /\ PaidIn(d, b) \in Nat /\ PaidIn(d, a) <= PaidIn(d, b)
<1> DEFINE S == {k \in 0 .. Limit(d) : a <= k => PaidIn(d, a) <= PaidIn(d, k)}
<1>1. Limit(d) \in Nat /\ (\A k \in 0 .. Limit(d) : PaidIn(d, k) \in Nat)
  BY LimitType, PaidInIs
<1>2. 0 \in S
  BY <1>1
<1>3. ASSUME NEW k \in 1 .. Limit(d), k - 1 \in S
      PROVE  k \in S
  <2>1. /\ k \in 0 .. Limit(d) /\ k - 1 \in 0 .. Limit(d)
        /\ a <= k - 1 => PaidIn(d, a) <= PaidIn(d, k - 1)
    BY <1>1, <1>3
  <2>2. PaidIn(d, k) = PaidIn(d, k - 1) + Pay(d, k) /\ Pay(d, k) \in Nat
    BY PaidInIs, PayType
  <2>3. PaidIn(d, k) \in Nat /\ PaidIn(d, k - 1) \in Nat /\ PaidIn(d, a) \in Nat
    BY <1>1, <2>1
  <2>4. a <= k => PaidIn(d, a) <= PaidIn(d, k)
    BY <1>1, <2>1, <2>2, <2>3
  <2> QED BY <2>1, <2>4
<1> HIDE DEF S
<1>4. 0 .. Limit(d) \subseteq S
  BY <1>1, <1>2, <1>3, UpTo
<1> QED BY <1>1, <1>4 DEF S

\* Some of the commands pay in no more than all.
LEMMA PartsAreBelow ==
    ASSUME NEW d \in Kinds, NEW K, NEW a \in 0 .. Limit(d)
    PROVE  Parts(d, K)[a] \in Nat /\ Parts(d, K)[a] <= PaidIn(d, a)
<1> DEFINE S == {k \in 0 .. Limit(d) : Parts(d, K)[k] <= PaidIn(d, k)}
<1>1. /\ Limit(d) \in Nat /\ (\A k \in 0 .. Limit(d) : PaidIn(d, k) \in Nat)
      /\ Parts(d, K) \in [0 .. Limit(d) -> Nat]
  BY LimitType, PaidInIs, PartsAre
<1>2. 0 \in S
  BY <1>1, PaidInIs, PartsAre
<1>3. ASSUME NEW k \in 1 .. Limit(d), k - 1 \in S
      PROVE  k \in S
  <2>1. /\ k \in 0 .. Limit(d) /\ k - 1 \in 0 .. Limit(d)
        /\ Parts(d, K)[k - 1] <= PaidIn(d, k - 1)
    BY <1>1, <1>3
  <2>2. /\ PaidIn(d, k) = PaidIn(d, k - 1) + Pay(d, k)
        /\ Parts(d, K)[k] = Parts(d, K)[k - 1] + Part(d, K, k)
    BY PaidInIs, PartsAre
  <2>3. Part(d, K, k) \in Nat /\ Pay(d, k) \in Nat /\ Part(d, K, k) <= Pay(d, k)
    BY PayType DEF Part
  <2>4. PaidIn(d, k - 1) \in Nat /\ Parts(d, K)[k - 1] \in Nat
    BY <1>1, <2>1
  <2>5. Parts(d, K)[k] <= PaidIn(d, k)
    BY <2>1, <2>2, <2>3, <2>4
  <2> QED BY <2>1, <2>5
<1> HIDE DEF S
<1>4. 0 .. Limit(d) \subseteq S
  BY <1>1, <1>2, <1>3, UpTo
<1> QED BY <1>1, <1>4 DEF S

\* Another command adds what it pays in.
LEMMA PartsWithOneMore ==
    ASSUME NEW d \in Kinds, NEW K, NEW x \in 1 .. Limit(d), x \notin K, NEW a \in x .. Limit(d)
    PROVE  Parts(d, K \cup {x})[a] = Parts(d, K)[a] + Pay(d, x)
<1> DEFINE L == K \cup {x}
           S == {k \in 0 .. Limit(d) : Parts(d, L)[k] = Parts(d, K)[k] + IF x <= k THEN Pay(d, x) ELSE 0}
<1>1. /\ Limit(d) \in Nat /\ Pay(d, x) \in Nat
      /\ Parts(d, K) \in [0 .. Limit(d) -> Nat] /\ Parts(d, L) \in [0 .. Limit(d) -> Nat]
  BY LimitType, PayType, PartsAre
<1>2. \A k \in 1 .. Limit(d) : Part(d, L, k) = IF k = x THEN Pay(d, x) ELSE Part(d, K, k)
  BY DEF Part
<1>3. Part(d, K, x) = 0
  BY DEF Part
<1>4. Parts(d, L)[0] = 0 /\ \A k \in 1 .. Limit(d) : Parts(d, L)[k] = Parts(d, L)[k - 1] + Part(d, L, k)
  BY PartsAre
<1> HIDE DEF L
<1>5. 0 \in S
  BY <1>1, <1>4, PartsAre
<1>6. ASSUME NEW k \in 1 .. Limit(d), k - 1 \in S
      PROVE  k \in S
  <2>1. /\ k \in 0 .. Limit(d) /\ k - 1 \in 0 .. Limit(d) /\ x \in Nat /\ k \in Nat
        /\ Parts(d, L)[k - 1] = Parts(d, K)[k - 1] + IF x <= k - 1 THEN Pay(d, x) ELSE 0
    BY <1>1, <1>6
  <2>2. /\ Parts(d, L)[k] = Parts(d, L)[k - 1] + Part(d, L, k)
        /\ Parts(d, K)[k] = Parts(d, K)[k - 1] + Part(d, K, k)
    BY <1>4, PartsAre
  <2>3. Part(d, K, k) \in Nat /\ Parts(d, K)[k - 1] \in Nat
    BY <1>1, <2>1, PayType DEF Part
  <2>4. CASE k = x
    <3>1. Part(d, L, k) = Pay(d, x) /\ Part(d, K, k) = 0
      BY <1>2, <1>3, <2>4
    <3>2. Parts(d, L)[k] = Parts(d, K)[k] + Pay(d, x)
      BY <1>1, <2>1, <2>2, <2>3, <2>4, <3>1
    <3> QED BY <2>1, <2>4, <3>2
  <2>5. CASE k # x
    <3>1. Part(d, L, k) = Part(d, K, k)
      BY <1>2, <2>5
    <3>2. CASE x <= k
      <4>1. Parts(d, L)[k - 1] = Parts(d, K)[k - 1] + Pay(d, x)
        BY <2>1, <2>5, <3>2
      <4>2. Parts(d, L)[k] = Parts(d, K)[k] + Pay(d, x)
        BY <1>1, <2>2, <2>3, <3>1, <4>1
      <4> QED BY <2>1, <3>2, <4>2
    <3>3. CASE ~ x <= k
      <4>1. Parts(d, L)[k - 1] = Parts(d, K)[k - 1]
        BY <2>1, <2>3, <3>3
      <4>2. Parts(d, L)[k] = Parts(d, K)[k] + 0
        BY <2>2, <2>3, <3>1, <4>1
      <4> QED BY <2>1, <3>3, <4>2
    <3> QED BY <3>2, <3>3
  <2> QED BY <2>4, <2>5
<1> HIDE DEF S
<1>7. 0 .. Limit(d) \subseteq S
  BY <1>1, <1>5, <1>6, UpTo
<1>8. a \in 0 .. Limit(d) /\ x <= a
  BY <1>1
<1>9. a \in S
  BY <1>7, <1>8
<1> QED BY <1>8, <1>9 DEF S, L

LEMMA WrapIs ==
    /\ \A i \in Int : Wrap(i) \in -(MaxInt + 1) .. MaxInt
    /\ \A i \in -(MaxInt + 1) .. MaxInt : Wrap(i) = i
    /\ \A i \in (MaxInt + 1) .. (2 * MaxInt + 1) : Wrap(i) = i - 2 * (MaxInt + 1)
    /\ \A i \in -(2 * MaxInt + 2) .. -(MaxInt + 2) : Wrap(i) = i + 2 * (MaxInt + 1)
<1>1. MaxInt \in Nat
  BY IntAssumption
<1>2. PICK m \in Nat \ {0} : m = 2 * (MaxInt + 1)
  BY <1>1
<1>3. \A a \in Int : a % m \in 0 .. (m - 1)
  OBVIOUS
<1>4. ASSUME NEW q \in -1 .. 1, NEW a \in Int, a - q * m \in 0 .. (m - 1)
      PROVE  a % m = a - q * m
  <2>1. PICK r \in 0 .. (m - 1) : r = a - q * m
    BY <1>4
  <2>2. a = q * m + r
    BY <2>1
  <2>3. q = -1 \/ q = 0 \/ q = 1
    OBVIOUS
  <2>4. (r % m = r) /\ ((m + r) % m = r) /\ ((r - m) % m = r)
    OBVIOUS
  <2> QED BY <2>1, <2>2, <2>3, <2>4
<1>5. ASSUME NEW i \in Int
      PROVE  Wrap(i) \in -(MaxInt + 1) .. MaxInt
  <2>1. (i + MaxInt + 1) % m \in 0 .. (m - 1)
    BY <1>1, <1>3
  <2> QED BY <1>1, <1>2, <2>1 DEF Wrap
<1>6. ASSUME NEW i \in -(MaxInt + 1) .. MaxInt
      PROVE  Wrap(i) = i
  <2>1. (i + MaxInt + 1) % m = i + MaxInt + 1 - 0 * m
    BY <1>1, <1>2, <1>4
  <2> QED BY <1>1, <1>2, <2>1 DEF Wrap
<1>7. ASSUME NEW i \in (MaxInt + 1) .. (2 * MaxInt + 1)
      PROVE  Wrap(i) = i - 2 * (MaxInt + 1)
  <2>1. (i + MaxInt + 1) % m = i + MaxInt + 1 - 1 * m
    BY <1>1, <1>2, <1>4
  <2> QED BY <1>1, <1>2, <2>1 DEF Wrap
<1>8. ASSUME NEW i \in -(2 * MaxInt + 2) .. -(MaxInt + 2)
      PROVE  Wrap(i) = i + 2 * (MaxInt + 1)
  <2>0. PICK q \in -1 .. 1 : q = -1
    OBVIOUS
  <2>2. PICK a \in Int : a = i + MaxInt + 1
    BY <1>1
  <2>3. a - q * m \in 0 .. (m - 1)
    BY <1>1, <1>2, <2>0, <2>2
  <2>4. a % m = a - q * m
    BY <1>4, <2>3
  <2>1. (i + MaxInt + 1) % m = i + MaxInt + 1 + m
    BY <1>1, <1>2, <2>0, <2>2, <2>4
  <2> QED BY <1>1, <1>2, <2>1 DEF Wrap
<1> QED BY <1>5, <1>6, <1>7, <1>8

\* A transaction leaves a balance that what was paid in explains.
LEMMA ProcessSound ==
    ASSUME NEW s \in Nat, NEW b, Sound(b, s), NEW x \in Transaction, NEW d \in Nat,
           Pays(x) <= d
    PROVE  Sound(Process(b, x).Balance, s + d)
<1>1. /\ MaxInt \in Nat /\ x.Amount \in -(MaxInt + 1) .. MaxInt
      /\ x.Op \in {"Balance", "Deposit", "Withdrawal", "Unknown"}
      /\ b \in -(MaxInt + 1) .. MaxInt /\ b <= s /\ (b < 0 => s > MaxInt)
  BY IntAssumption DEF Transaction, Sound
<1>2. Sound(b, s + d)
  BY <1>1 DEF Sound
<1>3. CASE x.Op = "Deposit" /\ x.Amount >= 0
  <2>1. PICK i \in Int : i = b + x.Amount
    BY <1>1
  <2>2. x.Amount <= d
    BY <1>3 DEF Pays
  <2>3. Process(b, x).Balance = Wrap(i)
    BY <1>1, <1>3, <2>1 DEF Process, Booked
  <2>4. CASE i <= MaxInt
    <3>1. i \in -(MaxInt + 1) .. MaxInt /\ i <= s + d /\ (i < 0 => b < 0)
      BY <1>1, <1>3, <2>1, <2>2, <2>4
    <3> QED BY <1>1, <2>3, <3>1, WrapIs DEF Sound
  <2>5. CASE i > MaxInt
    <3>1. i \in (MaxInt + 1) .. (2 * MaxInt + 1) /\ i <= s + d
      BY <1>1, <1>3, <2>1, <2>2, <2>5
    <3>2. Wrap(i) = i - 2 * (MaxInt + 1)
      BY <3>1, WrapIs
    <3> QED BY <1>1, <2>3, <2>5, <3>1, <3>2 DEF Sound
  <2> QED BY <1>1, <2>4, <2>5
<1>4. CASE x.Op = "Withdrawal" /\ Wrap(b - x.Amount) >= 0
  <2>1. PICK i \in Int : i = b - x.Amount
    BY <1>1
  <2>2. x.Amount < 0 => -x.Amount <= d
    BY <1>4 DEF Pays
  <2>3. Process(b, x).Balance = Wrap(i)
    <3>1. ~ Wrap(i) < 0
      BY <1>1, <1>4, <2>1, WrapIs
    <3> QED BY <1>4, <2>1, <3>1 DEF Process, Booked
  <2>4. CASE i \in -(MaxInt + 1) .. MaxInt
    <3>1. Wrap(i) = i /\ i >= 0 /\ i <= s + d
      BY <1>1, <1>4, <2>1, <2>2, <2>4, WrapIs
    <3> QED BY <1>1, <2>3, <2>4, <3>1 DEF Sound
  <2>5. CASE i > MaxInt
    <3>1. i \in (MaxInt + 1) .. (2 * MaxInt + 1)
      BY <1>1, <2>1, <2>5
    <3>2. Wrap(i) = i - 2 * (MaxInt + 1)
      BY <3>1, WrapIs
    <3> QED BY <1>1, <1>4, <2>1, <3>1, <3>2
  <2>6. CASE i < -(MaxInt + 1)
    <3>1. i \in -(2 * MaxInt + 2) .. -(MaxInt + 2) /\ b < 0
      BY <1>1, <2>1, <2>6
    <3>2. Wrap(i) = i + 2 * (MaxInt + 1)
      BY <3>1, WrapIs
    <3>3. s > MaxInt /\ Wrap(i) <= MaxInt
      BY <1>1, <3>1, <3>2
    <3>4. Wrap(i) \in -(MaxInt + 1) .. MaxInt /\ Wrap(i) <= s + d /\ ~ Wrap(i) < 0
      BY <1>1, <1>4, <2>1, <3>3, WrapIs
    <3> QED BY <2>3, <3>4 DEF Sound
  <2> QED BY <1>1, <2>4, <2>5, <2>6
<1>5. CASE ~ (x.Op = "Deposit" /\ x.Amount >= 0) /\ ~ (x.Op = "Withdrawal" /\ Wrap(b - x.Amount) >= 0)
  <2>1. Wrap(b - x.Amount) \in Int
    <3>1. b - x.Amount \in Int
      BY <1>1
    <3> QED BY <1>1, <3>1, WrapIs
  <2>2. Process(b, x).Balance = b
    BY <1>1, <1>5, <2>1 DEF Process, Booked
  <2> QED BY <1>2, <2>2
<1> QED BY <1>3, <1>4, <1>5

\* The balances of an account, one after another.
LEMMA BalancesAre ==
    ASSUME NEW txns \in Seq(Transaction)
    PROVE  \E t : /\ t[0] = 0 /\ t[Len(txns)] = BalanceAfter(txns)
                  /\ \A i \in 1 .. Len(txns) : t[i] = Process(t[i - 1], txns[i]).Balance
<1> DEFINE n == Len(txns)
           step == [i \in 1 .. n |-> [b \in Int |-> Process(b, txns[i]).Balance]]
           Loop(t) == t = [i \in 0 .. n |-> IF i = 0 THEN 0 ELSE Process(t[i - 1], txns[i]).Balance]
<1>1. n \in Nat /\ \A i \in 1 .. n : txns[i] \in Transaction
  BY LenProperties, ElementOfSeq
<1>2. ASSUME NEW b \in Int, NEW x \in Transaction
      PROVE  Process(b, x).Balance \in Int
  <2>1. x.Amount \in Int
    BY IntAssumption DEF Transaction
  <2>3. Process(b, x).Balance \in {b, Wrap(b + x.Amount), Wrap(b - x.Amount)}
    BY DEF Process, Booked
  <2>4. \A i \in Int : Wrap(i) \in Int
    BY WrapIs, IntAssumption
  <2> QED BY <2>1, <2>3, <2>4
<1>3. step \in [1 .. n -> [Int -> Int]]
  BY <1>1, <1>2
<1>4. \A i \in 1 .. n, b \in Int : step[i][b] = Process(b, txns[i]).Balance
  OBVIOUS
<1>5. BalanceAfter(txns) = (CHOOSE t : Loop(t))[n]
  BY DEF BalanceAfter
<1>0. 0 \in Int /\ n \in Nat
  BY <1>1
<1> HIDE DEF n, step
<1>6. PICK t : Iterates(t, n, 0, step)
  BY <1>0, <1>3, IterationExists
<1>7. t \in [0 .. n -> Int]
  BY <1>0, <1>3, <1>6, IterationStays
<1>8. Loop(t)
  <2>1. ASSUME NEW i \in 0 .. n
        PROVE  t[i] = IF i = 0 THEN 0 ELSE Process(t[i - 1], txns[i]).Balance
    <3>1. t[i] = IF i = 0 THEN 0 ELSE step[i][t[i - 1]]
      BY <1>6 DEF Iterates
    <3>2. i # 0 => i \in 1 .. n /\ t[i - 1] \in Int
      BY <1>1, <1>7
    <3> QED BY <1>4, <3>1, <3>2
  <2> QED BY <1>7, <2>1
<1>9. PICK u : u = CHOOSE v : Loop(v)
  OBVIOUS
<1>10. u = [i \in 0 .. n |-> IF i = 0 THEN 0 ELSE Process(u[i - 1], txns[i]).Balance]
  <2> HIDE DEF Loop
  <2>1. Loop(u)
    BY <1>8, <1>9
  <2> QED BY <2>1 DEF Loop
<1>11. u[0] = 0 /\ u[n] = BalanceAfter(txns)
  <2>1. u[0] = 0
    <3>1. 0 \in 0 .. n
      BY <1>0
    <3> QED BY <1>10, <3>1
  <2> HIDE DEF Loop
  <2>2. u[n] = BalanceAfter(txns)
    BY <1>5, <1>9
  <2> QED BY <2>1, <2>2
<1>12. ASSUME NEW i \in 1 .. n
       PROVE  u[i] = Process(u[i - 1], txns[i]).Balance
  <2>1. i \in 0 .. n /\ i # 0
    BY <1>1
  <2> QED BY <1>10, <2>1
<1> QED BY <1>11, <1>12 DEF n

\* The result of a decision is explained by what the decisions up to it paid in, and so
\* by all that was typed.
LEMMA ResponseCovered ==
    ASSUME kind \in Kinds, log \in Seq(Command), NoRepeat(log), asked \in 0 .. Limit(kind),
           NEW i \in 1 .. Len(log)
    PROVE  Sound(TxnResponse(i).Balance, PaidIn(kind, asked))
<1> DEFINE C(j) == {log[k].cmd : k \in 1 .. j}
           Sum(j) == Parts(kind, C(j))[asked]
           txns == [j \in 1 .. (i - 1) |-> log[j].Txn]
<1>1. /\ Len(log) \in Nat /\ DOMAIN log = 1 .. Len(log) /\ Limit(kind) \in Nat
      /\ asked \in Nat /\ MaxInt \in Nat /\ PaidIn(kind, asked) \in Nat
  BY LenProperties, LimitType, IntAssumption, PaidInIs
<1>2. \A j \in 1 .. Len(log) : /\ log[j] \in Command /\ log[j].cmd \in 1 .. asked
                               /\ log[j].cmd \in 1 .. Limit(kind)
                               /\ log[j].Txn \in Transaction
                               /\ Pays(log[j].Txn) <= Pay(kind, log[j].cmd)
  <2>1. \A j \in 1 .. Len(log) : log[j] \in Command
    BY ElementOfSeq
  <2> QED BY <1>1, <2>1 DEF Command, Typed, Pay
<1>3. \A j \in 0 .. Len(log) : Sum(j) \in Nat /\ Sum(j) <= PaidIn(kind, asked)
  BY PartsAreBelow
<1>4. ASSUME NEW j \in 1 .. Len(log), NEW b, Sound(b, Sum(j - 1))
      PROVE  Sound(Process(b, log[j].Txn).Balance, Sum(j))
  <2>1. PICK x : x = log[j].cmd
    OBVIOUS
  <2>2. PICK d : d = Pay(kind, x)
    OBVIOUS
  <2>3. x \in 1 .. Limit(kind) /\ x \in 1 .. asked /\ asked \in x .. Limit(kind)
    BY <1>1, <1>2, <2>1
  <2>4. x \notin C(j - 1)
    <3>1. SUFFICES ASSUME NEW k \in 1 .. (j - 1), x = log[k].cmd
                   PROVE  FALSE
      OBVIOUS
    <3>2. k \in 1 .. Len(log) /\ k # j
      BY <1>1
    <3> QED BY <1>1, <2>1, <3>1, <3>2 DEF NoRepeat
  <2>5. C(j) = C(j - 1) \cup {x}
    <3>1. \A k \in 1 .. j : k \in 1 .. (j - 1) \/ k = j
      BY <1>1
    <3>2. \A k \in 1 .. (j - 1) : k \in 1 .. j
      BY <1>1
    <3>3. j \in 1 .. j
      BY <1>1
    <3> QED BY <2>1, <3>1, <3>2, <3>3
  <2>6. j \in 0 .. Len(log) /\ j - 1 \in 0 .. Len(log)
    BY <1>1
  <2> HIDE DEF C
  <2>7. Sum(j) = Sum(j - 1) + d
    BY <2>2, <2>3, <2>4, <2>5, PartsWithOneMore
  <2>8. Sum(j - 1) \in Nat
    BY <1>3, <2>6
  <2> HIDE DEF Sum
  <2>9. PICK y \in Transaction : y = log[j].Txn /\ Pays(y) <= d
    BY <1>2, <2>1, <2>2
  <2>10. d \in Nat
    BY <2>2, <2>3, PayType
  <2>11. Sound(Process(b, y).Balance, Sum(j - 1) + d)
    BY <1>4, <2>8, <2>9, <2>10, ProcessSound
  <2> QED BY <2>7, <2>9, <2>11
<1>5. i - 1 \in Nat /\ i - 1 <= Len(log)
  BY <1>1
<1>6. txns \in Seq(Transaction) /\ Len(txns) = i - 1 /\ \A j \in 1 .. (i - 1) : txns[j] = log[j].Txn
  <2>1. \A j \in 1 .. (i - 1) : j \in 1 .. Len(log)
    BY <1>1
  <2>2. txns \in [1 .. (i - 1) -> Transaction]
    BY <1>2, <2>1
  <2>3. txns \in Seq(Transaction)
    BY <1>5, <2>2, SeqDef
  <2> HIDE DEF txns
  <2>4. Len(txns) = i - 1
    BY <1>5, <2>2, <2>3, LenProperties
  <2> QED BY <2>3, <2>4 DEF txns
<1>7. TxnResponse(i).Balance = Process(BalanceAfter(txns), log[i].Txn).Balance
  BY DEF TxnResponse
<1> HIDE DEF txns, C, Sum
<1>8. PICK t : /\ t[0] = 0 /\ t[i - 1] = BalanceAfter(txns)
               /\ \A j \in 1 .. (i - 1) : t[j] = Process(t[j - 1], txns[j]).Balance
  <2>1. PICK t : /\ t[0] = 0 /\ t[Len(txns)] = BalanceAfter(txns)
                 /\ \A j \in 1 .. Len(txns) : t[j] = Process(t[j - 1], txns[j]).Balance
    BY <1>6, BalancesAre
  <2> QED BY <1>6, <2>1
<1>9. Sound(t[i - 1], Sum(i - 1))
  <2> DEFINE S == {j \in 0 .. (i - 1) : Sound(t[j], Sum(j))}
  <2>1. 0 \in S
    <3>1. Sum(0) \in Nat /\ 0 \in 0 .. (i - 1)
      BY <1>1, <1>3, <1>5
    <3> QED BY <1>1, <1>8, <3>1 DEF Sound
  <2>2. ASSUME NEW j \in 1 .. (i - 1), j - 1 \in S
        PROVE  j \in S
    <3>1. j \in 1 .. Len(log) /\ j \in 0 .. (i - 1)
      BY <1>1
    <3>2. Sound(t[j - 1], Sum(j - 1))
      BY <2>2
    <3>3. Sound(Process(t[j - 1], log[j].Txn).Balance, Sum(j))
      BY <1>4, <3>1, <3>2
    <3>4. t[j] = Process(t[j - 1], log[j].Txn).Balance
      BY <1>6, <1>8
    <3> QED BY <3>1, <3>3, <3>4
  <2> HIDE DEF S
  <2>3. 0 .. (i - 1) \subseteq S
    BY <1>5, <2>1, <2>2, UpTo
  <2>4. i - 1 \in S
    BY <1>5, <2>3
  <2> QED BY <2>4 DEF S
<1>10. Sound(TxnResponse(i).Balance, Sum(i))
  BY <1>4, <1>7, <1>8, <1>9
<1>11. Sum(i) \in Nat /\ Sum(i) <= PaidIn(kind, asked) /\ PaidIn(kind, asked) \in Nat
  BY <1>1, <1>3
<1> QED BY <1>1, <1>10, <1>11 DEF Sound

\* The log only grows, and a repeated command stays in it.
LogGrows == log' = log \/ \E e \in Command : log' = Append(log, e)

LEMMA LogKeepsRepeats ==
    ASSUME log \in Seq(Command), LogGrows
    PROVE  NoRepeat(log) \/ ~NoRepeat(log')
<1>1. CASE log' = log
  BY <1>1
<1>2. ASSUME NEW e \in Command, log' = Append(log, e)
      PROVE  NoRepeat(log) \/ ~NoRepeat(log')
  <2>1. /\ DOMAIN log = 1 .. Len(log) /\ Len(log) \in Nat
        /\ DOMAIN log' = 1 .. (Len(log) + 1)
        /\ \A i \in 1 .. Len(log) : log'[i] = log[i]
    BY <1>2, AppendProperties, LenProperties
  <2>2. \A i \in 1 .. Len(log) : i \in 1 .. (Len(log) + 1)
    BY <2>1
  <2> QED BY <2>1, <2>2 DEF NoRepeat
<1> QED BY <1>1, <1>2 DEF LogGrows

-----------------------------------------------------------------------------
\* What was typed stays so.
LEMMA TypedStays ==
    ASSUME kind \in Kinds, kind' = kind,
           asked \in 0 .. MaxCmds, asked' \in 0 .. MaxCmds, asked <= asked',
           overrun => overrun', log \in Seq(Command), LogGrows
    PROVE  /\ Seq(Command) \subseteq Seq(Command') /\ Seq(Result) \subseteq Seq(Result')
           /\ Seq(Connection) \subseteq Seq(Connection')
           /\ 1 .. asked \subseteq 1 .. asked'
<1>0. asked \in Nat /\ asked' \in Nat
  BY MaxCmdsType
<1>1. 1 .. asked \subseteq 1 .. asked'
  BY <1>0
<1>2. ASSUME NEW v, Typed(v)
      PROVE  Typed(v)'
  BY <1>1, <1>2 DEF Typed
<1>3. Command \subseteq Command' /\ Result \subseteq Result'
  <2>1. /\ PaidIn(kind, asked) \in Nat /\ PaidIn(kind, asked') \in Nat
        /\ PaidIn(kind, asked) <= PaidIn(kind, asked')
    BY PaidInGrows DEF MaxCmds, Limit
  <2>2. NoRepeat(log) \/ ~NoRepeat(log')
    BY LogKeepsRepeats
  <2>3. ASSUME NEW v, Covered(v)
        PROVE  Covered(v)'
    <3>1. SUFFICES ASSUME NoRepeat(log')
                   PROVE  Sound(v.Balance, PaidIn(kind, asked'))
      BY DEF Covered
    <3>2. Sound(v.Balance, PaidIn(kind, asked))
      BY <2>2, <2>3, <3>1 DEF Covered
    <3> QED BY <2>1, <3>2, IntAssumption DEF Sound
  <2> QED BY <1>2, <2>3 DEF Command, Result
<1>4. Answer \subseteq Answer'
  BY <1>3 DEF Answer
<1>5. /\ Seq(Command) \subseteq Seq(Command') /\ Seq(Answer) \subseteq Seq(Answer')
      /\ Seq(Result) \subseteq Seq(Result')
  BY <1>3, <1>4, SeqMonotonic
<1>6. Connection \subseteq Connection'
  BY <1>5 DEF Connection
<1>7. Seq(Connection) \subseteq Seq(Connection')
  BY <1>6, SeqMonotonic
<1> QED BY <1>1, <1>5, <1>7

\* No connection comes to carry what it did not carry, and a new one carries nothing.
Fade ==
    /\ Len(conns) <= Len(conns')
    /\ \A c \in 1 .. Len(conns) :
          /\ Open(c)' => Open(c)
          /\ conns'[c].toSrv \in {conns[c].toSrv, <<>>}
          /\ Redirected(c)' => Redirected(c)
    /\ \A c \in 1 .. Len(conns') : c > Len(conns) => conns'[c].toSrv = <<>> /\ ~Redirected(c)'

\* Every connection fades in place.
LEMMA FadedConns ==
    ASSUME conns \in Seq(Connection), conns' \in [1 .. Len(conns) -> Connection],
           \A c \in 1 .. Len(conns) :
              /\ Open(c)' => Open(c)
              /\ conns'[c].toSrv \in {conns[c].toSrv, <<>>}
              /\ Redirected(c)' => Redirected(c)
    PROVE  conns' \in Seq(Connection) /\ Len(conns') = Len(conns) /\ Fade
<1>1. Len(conns) \in Nat
  BY LenProperties
<1>2. conns' \in Seq(Connection)
  BY <1>1, SeqDef
<1>3. Len(conns') = Len(conns)
  BY <1>1, <1>2, LenProperties
<1> QED BY <1>1, <1>2, <1>3 DEF Fade

\* One connection fades.
LEMMA FadedConn ==
    ASSUME conns \in Seq(Connection), NEW c \in 1 .. Len(conns), NEW r \in Connection,
           conns' = [conns EXCEPT ![c] = r],
           r.open /\ ~r.broken => Open(c),
           r.toSrv \in {conns[c].toSrv, <<>>},
           \A i \in DOMAIN r.toCl : r.toCl[i].MsgType = "REDIRECT" => Redirected(c)
    PROVE  conns' \in Seq(Connection) /\ Len(conns') = Len(conns) /\ Fade
<1>1. conns \in [1 .. Len(conns) -> Connection]
  BY LenProperties
<1>2. conns' \in [1 .. Len(conns) -> Connection] /\ conns'[c] = r
      /\ \A b \in 1 .. Len(conns) : b # c => conns'[b] = conns[b]
  BY <1>1
<1>3. ASSUME NEW b \in 1 .. Len(conns)
      PROVE  /\ Open(b)' => Open(b)
             /\ conns'[b].toSrv \in {conns[b].toSrv, <<>>}
             /\ Redirected(b)' => Redirected(b)
  BY <1>2, <1>3 DEF Open, Redirected
<1> QED BY <1>2, <1>3, FadedConns

\* One is made.
LEMMA AddedConn ==
    ASSUME conns \in Seq(Connection), NEW n \in Node, NEW c, Accept(c, n)
    PROVE  conns' \in Seq(Connection) /\ Len(conns') = Len(conns) + 1 /\ Fade
<1>1. PICK r : r = [node |-> n, open |-> TRUE, srvPc |-> "recv", broken |-> FALSE,
                    toSrv |-> <<>>, toCl |-> <<>>]
  OBVIOUS
<1>2. r \in Connection /\ r.toSrv = <<>> /\ r.toCl = <<>>
  <2>1. <<>> \in Seq(Command) /\ <<>> \in Seq(Answer)
    BY EmptySeq
  <2> QED BY <1>1, <2>1 DEF Connection
<1>3. conns' = Append(conns, r)
  BY <1>1 DEF Accept
<1>4. /\ conns' \in Seq(Connection) /\ Len(conns') = Len(conns) + 1
      /\ conns'[Len(conns) + 1] = r
      /\ \A b \in 1 .. Len(conns) : conns'[b] = conns[b]
  BY <1>2, <1>3, AppendProperties
<1>5. Len(conns) \in Nat
  BY LenProperties
<1>6. \A b \in 1 .. Len(conns') : b > Len(conns) => conns'[b] = r
  BY <1>4, <1>5
<1>7. \A b \in 1 .. Len(conns) : (Open(b)' => Open(b)) /\ (Redirected(b)' => Redirected(b))
  BY <1>4 DEF Open, Redirected
<1>8. \A b \in 1 .. Len(conns') : b > Len(conns) => ~Redirected(b)'
  BY <1>2, <1>6, EmptySeq DEF Redirected
<1> QED BY <1>2, <1>4, <1>5, <1>6, <1>7, <1>8 DEF Fade

LEMMA Unchanged ==
    ASSUME conns \in Seq(Connection), UNCHANGED conns
    PROVE  conns' \in Seq(Connection) /\ Len(conns') = Len(conns) /\ Fade
BY LenProperties DEF Fade, Open, Redirected

\* The system closes all of them.
LEMMA ExitedConns ==
    ASSUME conns \in Seq(Connection), Exit
    PROVE  /\ conns' \in Seq(Connection) /\ Len(conns') = Len(conns) /\ Fade
           /\ \A c \in 1 .. Len(conns) : ~Open(c)'
<1>1. DOMAIN conns = 1 .. Len(conns) /\ \A c \in 1 .. Len(conns) : conns[c] \in Connection
  BY LenProperties, ElementOfSeq
<1>2. conns' = [c \in 1 .. Len(conns) |-> [conns[c] EXCEPT !.open = FALSE]]
  BY <1>1 DEF Exit
<1>3. ASSUME NEW c \in 1 .. Len(conns)
      PROVE  /\ conns'[c] \in Connection /\ ~conns'[c].open
             /\ conns'[c].toSrv = conns[c].toSrv /\ conns'[c].toCl = conns[c].toCl
  <2>1. conns[c] \in Connection /\ conns'[c] = [conns[c] EXCEPT !.open = FALSE]
    BY <1>1, <1>2
  <2> QED BY <2>1 DEF Connection
<1>4. \A c \in 1 .. Len(conns) : ~Open(c)' /\ (Redirected(c)' => Redirected(c))
  BY <1>3 DEF Open, Redirected
<1>5. conns' \in [1 .. Len(conns) -> Connection]
  BY <1>2, <1>3
<1> QED BY <1>3, <1>4, <1>5, FadedConns

\* One changes.
LEMMA ChangedConn ==
    ASSUME conns \in Seq(Connection), NEW c \in 1 .. Len(conns), NEW r \in Connection,
           conns' = [conns EXCEPT ![c] = r]
    PROVE  /\ conns' \in Seq(Connection) /\ Len(conns') = Len(conns)
           /\ conns'[c] = r
           /\ \A b \in 1 .. Len(conns) : b # c => conns'[b] = conns[b]
BY ExceptSeq

-----------------------------------------------------------------------------
\* The steps of the nodes.

\* The types of the nodes' state after a step, with what was typed before it.
ServiceAfter ==
    /\ up' \subseteq Node
    /\ pLeader' \in [Node -> Node] /\ curLeader' \in [Node -> Node]
    /\ srvLdrIn' \in [Node -> Node \cup {NoNode}]
    /\ conns' \in Seq(Connection) /\ Len(conns') = Len(conns)
    /\ extClAddrConn' \in [Node -> 0 .. Len(conns)]
    /\ requestsIn' \in [Node -> Seq(Command)] /\ log' \in Seq(Command) /\ LogGrows
    /\ adu' \in [Node -> Nat]
    /\ lost' \subseteq 1 .. asked

LEMMA ElectTypes ==
    ASSUME ServiceTypes, NEW n \in Node, Elect(n)
    PROVE  ServiceAfter /\ Fade
<1>1. Cmds(requestsIn[n]) \subseteq 1 .. asked
  BY CmdsWereTyped DEF ServiceTypes
<1>2. conns' \in Seq(Connection) /\ Len(conns') = Len(conns) /\ Fade
  BY Unchanged DEF ServiceTypes, Elect
<1>3. lost' \subseteq 1 .. asked
  BY <1>1 DEF ServiceTypes, Elect
<1>4. pLeader' \in [Node -> Node] /\ srvLdrIn' \in [Node -> Node \cup {NoNode}]
  BY DEF ServiceTypes, Elect
<1> QED BY <1>2, <1>3, <1>4 DEF ServiceTypes, ServiceAfter, LogGrows, Elect, logVars

LEMMA TakeLeaderTypes ==
    ASSUME ServiceTypes, NEW n \in Node, TakeLeader(n)
    PROVE  ServiceAfter /\ Fade
<1>1. conns' \in Seq(Connection) /\ Len(conns') = Len(conns) /\ Fade
  BY Unchanged DEF ServiceTypes, TakeLeader
<1> QED BY <1>1 DEF ServiceTypes, ServiceAfter, LogGrows, TakeLeader, logVars

LEMMA CloseConnTypes ==
    ASSUME ServiceTypes, NEW c \in 1 .. Len(conns), CloseConn(c)
    PROVE  ServiceAfter /\ Fade
<1>1. conns[c] \in Connection
  BY ElementOfSeq DEF ServiceTypes
<1>2. PICK r : r = [conns[c] EXCEPT !.srvPc = "done", !.toSrv = <<>>]
  OBVIOUS
<1>3. <<>> \in Seq(Command)
  BY EmptySeq
<1>4. /\ r \in Connection /\ r.open = conns[c].open /\ r.broken = conns[c].broken
      /\ r.toSrv = <<>> /\ r.toCl = conns[c].toCl
  BY <1>1, <1>2, <1>3 DEF Connection
<1>5. conns' = [conns EXCEPT ![c] = r]
  BY <1>2 DEF CloseConn
<1>6. conns' \in Seq(Connection) /\ Len(conns') = Len(conns) /\ Fade
  BY <1>4, <1>5, FadedConn DEF ServiceTypes, Open, Redirected
<1>7. Len(conns) \in Nat
  BY LenProperties DEF ServiceTypes
<1>8. PICK m : m = conns[c].node
  OBVIOUS
<1>9. extClAddrConn' = [extClAddrConn EXCEPT ![m] = 0] /\ 0 \in 0 .. Len(conns)
  BY <1>7, <1>8 DEF CloseConn, NoConn
<1>10. extClAddrConn' \in [Node -> 0 .. Len(conns)]
  BY <1>9 DEF ServiceTypes
<1> QED BY <1>6, <1>10 DEF ServiceTypes, ServiceAfter, LogGrows, CloseConn, nodeVars, logVars

LEMMA CrashTypes ==
    ASSUME ServiceTypes, NEW n \in Node, Crash(n)
    PROVE  ServiceAfter /\ Fade
<1>1. /\ DOMAIN conns = 1 .. Len(conns) /\ \A c \in 1 .. Len(conns) : conns[c] \in Connection
      /\ conns \in Seq(Connection)
  BY LenProperties, ElementOfSeq DEF ServiceTypes
<1>2. conns' = [c \in 1 .. Len(conns) |->
                  IF conns[c].node = n THEN [conns[c] EXCEPT !.srvPc = "done", !.toSrv = <<>>]
                                       ELSE conns[c]]
  BY <1>1 DEF Crash
<1>3. <<>> \in Seq(Command)
  BY EmptySeq
<1>4. ASSUME NEW c \in 1 .. Len(conns)
      PROVE  /\ conns'[c] \in Connection /\ conns'[c].open = conns[c].open
             /\ conns'[c].broken = conns[c].broken
             /\ conns'[c].toSrv \in {conns[c].toSrv, <<>>} /\ conns'[c].toCl = conns[c].toCl
  <2>1. /\ conns[c] \in Connection
        /\ \/ conns'[c] = [conns[c] EXCEPT !.srvPc = "done", !.toSrv = <<>>]
           \/ conns'[c] = conns[c]
    BY <1>1, <1>2
  <2> QED BY <1>3, <2>1 DEF Connection
<1>5. \A c \in 1 .. Len(conns) : (Open(c)' => Open(c)) /\ (Redirected(c)' => Redirected(c))
  BY <1>4 DEF Open, Redirected
<1>6. conns' \in [1 .. Len(conns) -> Connection]
  BY <1>2, <1>4
<1>7. conns' \in Seq(Connection) /\ Len(conns') = Len(conns) /\ Fade
  BY <1>1, <1>4, <1>5, <1>6, FadedConns
<1> QED BY <1>7 DEF ServiceTypes, ServiceAfter, LogGrows, Crash, logVars

LEMMA DecideTypes ==
    ASSUME ServiceTypes, NEW n \in Node, Decide(n)
    PROVE  /\ ServiceAfter /\ Fade
           /\ \E e \in Command :
                 e.cmd = Head(requestsIn[n]).cmd /\ log' = Append(log, e)
<1>1. requestsIn[n] \in Seq(Command) /\ requestsIn[n] # <<>>
  BY DEF ServiceTypes, Decide
<1>2. Head(requestsIn[n]) \in Command /\ Tail(requestsIn[n]) \in Seq(Command)
  BY <1>1, TailCmds
<1>3. PICK h : h = Head(requestsIn[n])
  OBVIOUS
<1>4. PICK e : e = [h EXCEPT !.by = n]
  OBVIOUS
<1>5. e \in Command /\ e.cmd = h.cmd
  BY <1>2, <1>3, <1>4 DEF Command, Typed
<1>6. log' = Append(log, e)
  BY <1>3, <1>4 DEF Decide
<1>7. log' \in Seq(Command)
  BY <1>5, <1>6, AppendedCmds DEF ServiceTypes
<1>8. requestsIn' \in [Node -> Seq(Command)]
  BY <1>2 DEF Decide, ServiceTypes
<1>9. conns' \in Seq(Connection) /\ Len(conns') = Len(conns) /\ Fade
  BY Unchanged DEF ServiceTypes, Decide
<1>10. LogGrows
  BY <1>5, <1>6 DEF LogGrows
<1>11. ServiceAfter
  BY <1>7, <1>8, <1>9, <1>10 DEF ServiceTypes, ServiceAfter, Decide, nodeVars
<1> QED BY <1>3, <1>5, <1>6, <1>9, <1>11

\* A server that leads takes the command of connection c.
LEMMA PassOnTypes ==
    ASSUME ServiceTypes, NEW c \in 1 .. Len(conns), NEW s, s = conns[c].toSrv, s # <<>>,
           NEW n, n = conns[c].node,
           NEW rest \in AfterDecode(s), conns' = [conns EXCEPT ![c].toSrv = rest],
           DeliverClientValue(n, Head(s), Cmds(Tail(s)) \ Cmds(rest)),
           UNCHANGED <<nodeVars, extClAddrConn, log, adu>>
    PROVE  /\ ServiceAfter /\ n \in Node /\ s \in Seq(Command)
           /\ Len(s) <= 1 => Fade /\ conns'[c].toSrv = <<>>
<1>1. conns[c] \in Connection
  BY ElementOfSeq DEF ServiceTypes
<1>2. n \in Node /\ s \in Seq(Command)
  BY <1>1 DEF Connection
<1>3. /\ Head(s) \in Command /\ rest \in Seq(Command) /\ Tail(s) \in Seq(Command)
      /\ Len(s) <= 1 => rest = <<>>
  BY <1>2, ReadStream
<1>4. PICK r : r = [conns[c] EXCEPT !.toSrv = rest]
  OBVIOUS
<1>5. /\ r \in Connection /\ r.open = conns[c].open /\ r.broken = conns[c].broken
      /\ r.toSrv = rest /\ r.toCl = conns[c].toCl
  BY <1>1, <1>3, <1>4 DEF Connection
<1>6. conns' = [conns EXCEPT ![c] = r]
  BY <1>4
<1>7. conns' \in Seq(Connection) /\ Len(conns') = Len(conns) /\ conns'[c] = r
  BY <1>5, <1>6, ChangedConn DEF ServiceTypes
<1>8. ASSUME Len(s) <= 1
      PROVE  Fade /\ conns'[c].toSrv = <<>>
  <2>1. r.toSrv = <<>>
    BY <1>3, <1>5, <1>8
  <2>2. r.open /\ ~r.broken => Open(c)
    BY <1>5 DEF Open
  <2>3. \A i \in DOMAIN r.toCl : r.toCl[i].MsgType = "REDIRECT" => Redirected(c)
    BY <1>5 DEF Redirected
  <2>4. conns \in Seq(Connection)
    BY DEF ServiceTypes
  <2>5. Fade
    BY <1>5, <1>6, <2>1, <2>2, <2>3, <2>4, FadedConn
  <2> QED BY <1>7, <2>1, <2>5
<1>9. requestsIn' \in [Node -> Seq(Command)]
  <2>1. Append(requestsIn[n], Head(s)) \in Seq(Command)
    BY <1>2, <1>3, AppendedCmds DEF ServiceTypes
  <2> QED BY <2>1 DEF ServiceTypes, DeliverClientValue
<1>10. lost' \subseteq 1 .. asked
  <2>1. Cmds(Tail(s)) \subseteq 1 .. asked /\ Head(s).cmd \in 1 .. asked
    BY <1>3, CmdsWereTyped DEF Command, Typed
  <2> QED BY <2>1 DEF ServiceTypes, DeliverClientValue
<1> QED BY <1>2, <1>7, <1>8, <1>9, <1>10 DEF ServiceTypes, ServiceAfter, LogGrows, nodeVars

\* Any other one answers with a redirect.
LEMMA RedirectTypes ==
    ASSUME ServiceTypes, NEW c \in 1 .. Len(conns), conns[c].srvPc = "recv",
           conns[c].toSrv # <<>>, NEW l \in Node, Redirect(c, l),
           UNCHANGED <<nodeVars, extClAddrConn, logVars, lost>>
    PROVE  /\ ServiceAfter
           /\ conns'[c].open = conns[c].open /\ conns'[c].broken = conns[c].broken
           /\ conns'[c].toSrv = Tail(conns[c].toSrv) /\ conns[c].toSrv \in Seq(Command)
           /\ \A b \in 1 .. Len(conns) : b # c => conns'[b] = conns[b]
<1>1. conns[c] \in Connection /\ conns \in Seq(Connection)
  BY ElementOfSeq DEF ServiceTypes
<1>2. PICK m : m = [MsgType |-> "REDIRECT", host |-> l]
  OBVIOUS
<1>3. m \in Answer
  BY <1>2 DEF Answer
<1>4. Append(conns[c].toCl, m) \in Seq(Answer)
  BY <1>1, <1>3, AppendProperties DEF Connection
<1>5. Tail(conns[c].toSrv) \in Seq(Command)
  BY <1>1, TailCmds DEF Connection
<1>6. PICK r : r = [conns[c] EXCEPT !.toSrv = Tail(@), !.srvPc = "redirected",
                                    !.toCl = Append(@, m)]
  OBVIOUS
<1>7. /\ r \in Connection /\ r.open = conns[c].open /\ r.broken = conns[c].broken
      /\ r.toSrv = Tail(conns[c].toSrv)
  BY <1>1, <1>4, <1>5, <1>6 DEF Connection
<1>8. conns' = [conns EXCEPT ![c] = r]
  BY <1>1, <1>2, <1>6 DEF Redirect
<1>9. /\ conns' \in Seq(Connection) /\ Len(conns') = Len(conns) /\ conns'[c] = r
      /\ \A b \in 1 .. Len(conns) : b # c => conns'[b] = conns[b]
  BY <1>1, <1>7, <1>8, ChangedConn
<1>10. ServiceAfter
  BY <1>9 DEF ServiceTypes, ServiceAfter, LogGrows, nodeVars, logVars
<1> QED BY <1>1, <1>7, <1>9, <1>10 DEF Connection

\* The result of the i-th decision is one of that command.
LEMMA ResponseType ==
    ASSUME ServiceTypes, kind \in Kinds, asked \in 0 .. MaxCmds, NEW i \in 1 .. Len(log)
    PROVE  TxnResponse(i) \in Result
<1>1. PICK t : t = [j \in 1 .. (i - 1) |-> log[j].Txn]
  OBVIOUS
<1>2. t \in Seq(Transaction)
  <2>1. log \in Seq(Command) /\ Len(log) \in Nat
    BY LenProperties DEF ServiceTypes
  <2>2. \A j \in 1 .. (i - 1) : j \in 1 .. Len(log)
    BY <2>1
  <2>3. \A j \in 1 .. Len(log) : log[j] \in Command
    BY <2>1, ElementOfSeq
  <2>4. \A j \in 1 .. (i - 1) : log[j].Txn \in Transaction
    BY <2>2, <2>3 DEF Command
  <2>5. t \in [1 .. (i - 1) -> Transaction] /\ i - 1 \in Nat
    BY <1>1, <2>1, <2>4
  <2> QED BY <2>5, SeqDef
<1>3. PICK x : x = log[i]
  OBVIOUS
<1>4. x \in Command
  BY <1>3, ElementOfSeq DEF ServiceTypes
<1>5. PICK res : res = Process(BalanceAfter(t), x.Txn)
  OBVIOUS
<1>6. res.Balance \in Balances
  BY <1>2, <1>4, <1>5 DEF Balances, Command
<1>7. res.Failed \in BOOLEAN
  BY <1>5 DEF Process, Booked
<1>8. TxnResponse(i) = [MsgType |-> "TRANSACTION_RESULT", cmd |-> x.cmd, ClientSeq |-> x.ClientSeq,
                        Balance |-> res.Balance, Failed |-> res.Failed]
  BY <1>1, <1>3, <1>5 DEF TxnResponse
<1>9. Covered(TxnResponse(i))
  BY ResponseCovered DEF ServiceTypes, Covered, MaxCmds, Limit
<1> QED BY <1>4, <1>6, <1>7, <1>8, <1>9 DEF Result, Command, Typed

LEMMA AppliedTypes ==
    ASSUME ServiceTypes, kind \in Kinds, asked \in 0 .. MaxCmds, NEW n \in Node, srvHandleDecidedValue(n)
    PROVE  ServiceAfter /\ Fade
<1>1. PICK i : i = adu[n] + 1
  OBVIOUS
<1>2. PICK c : c = extClAddrConn[n]
  OBVIOUS
<1>3. /\ i \in 1 .. Len(log) /\ c \in 0 .. Len(conns)
      /\ conns \in Seq(Connection) /\ Len(conns) \in Nat
  <2>1. log \in Seq(Command) /\ conns \in Seq(Connection)
    BY DEF ServiceTypes
  <2>2. Len(log) \in Nat /\ Len(conns) \in Nat
    BY <2>1, LenProperties
  <2> QED BY <1>1, <1>2, <2>1, <2>2 DEF ServiceTypes, srvHandleDecidedValue
<1>4. log[i].cmd \in 1 .. asked
  BY <1>3, ElementOfSeq DEF ServiceTypes, Command, Typed
<1>5. lost' \subseteq 1 .. asked
  BY <1>1, <1>4 DEF ServiceTypes, srvHandleDecidedValue
<1>6. conns' \in Seq(Connection) /\ Len(conns') = Len(conns) /\ Fade
  <2>1. CASE curLeader[n] = n /\ c # NoConn
    <3>1. c \in 1 .. Len(conns)
      BY <1>3, <2>1 DEF NoConn
    <3>2. conns[c] \in Connection
      BY <1>3, <3>1, ElementOfSeq
    <3>3. PICK m : m = TxnResponse(i)
      OBVIOUS
    <3>4. m \in Answer /\ m.MsgType = "TRANSACTION_RESULT"
      BY <1>3, <3>3, ResponseType DEF Answer, Result
    <3>5. PICK t : t = conns[c].toCl
      OBVIOUS
    <3>6. t \in Seq(Answer)
      BY <3>2, <3>5 DEF Connection
    <3>7. /\ Append(t, m) \in Seq(Answer) /\ Len(Append(t, m)) = Len(t) + 1
          /\ \A k \in 1 .. Len(t) : Append(t, m)[k] = t[k]
          /\ Append(t, m)[Len(t) + 1] = m
          /\ Len(t) \in Nat
      BY <3>4, <3>6, AppendProperties, LenProperties
    <3>8. PICK r : r = [conns[c] EXCEPT !.toCl = Append(t, m)]
      OBVIOUS
    <3>9. /\ r \in Connection /\ r.open = conns[c].open /\ r.broken = conns[c].broken
          /\ r.toSrv = conns[c].toSrv /\ r.toCl = Append(t, m)
      BY <3>2, <3>7, <3>8 DEF Connection
    <3>10. conns' = [conns EXCEPT ![c] = r]
      BY <1>1, <1>2, <2>1, <3>3, <3>5, <3>8 DEF srvHandleDecidedValue
    <3>11. ASSUME NEW k \in DOMAIN Append(t, m), Append(t, m)[k].MsgType = "REDIRECT"
           PROVE  Redirected(c)
      <4>1. k \in 1 .. (Len(t) + 1)
        BY <3>7, <3>11, LenProperties
      <4>2. k # Len(t) + 1
        BY <3>4, <3>7, <3>11
      <4>3. k \in 1 .. Len(t)
        BY <3>7, <4>1, <4>2
      <4>4. k \in DOMAIN t
        BY <3>6, <4>3, LenProperties
      <4> QED BY <3>5, <3>7, <3>11, <4>3, <4>4 DEF Redirected
    <3> QED BY <1>3, <3>1, <3>9, <3>10, <3>11, FadedConn DEF Open
  <2>2. CASE ~(curLeader[n] = n /\ c # NoConn)
    <3>1. UNCHANGED conns
      BY <1>2, <2>2 DEF srvHandleDecidedValue
    <3> QED BY <1>3, <3>1, Unchanged
  <2> QED BY <2>1, <2>2
<1> QED BY <1>5, <1>6 DEF ServiceTypes, ServiceAfter, LogGrows, srvHandleDecidedValue, nodeVars

-----------------------------------------------------------------------------
\* What the client does to its connections.

LEMMA BrokenConn ==
    ASSUME conns \in Seq(Connection), NEW c \in 1 .. Len(conns), conns[c].srvPc = "done",
           conns' = [conns EXCEPT ![c].broken = TRUE]
    PROVE  conns' \in Seq(Connection) /\ Len(conns') = Len(conns) /\ Fade
<1>1. conns[c] \in Connection
  BY ElementOfSeq
<1>2. PICK r : r = [conns[c] EXCEPT !.broken = TRUE]
  OBVIOUS
<1>3. /\ r \in Connection /\ r.broken /\ r.toSrv = conns[c].toSrv /\ r.toCl = conns[c].toCl
  BY <1>1, <1>2 DEF Connection
<1>4. conns' = [conns EXCEPT ![c] = r]
  BY <1>2
<1>5. \A i \in DOMAIN r.toCl : r.toCl[i].MsgType = "REDIRECT" => Redirected(c)
  BY <1>3 DEF Redirected
<1> QED BY <1>3, <1>4, <1>5, FadedConn

LEMMA SentConn ==
    ASSUME conns \in Seq(Connection), NEW c \in 1 .. Len(conns), NEW val \in Command,
           conns' = [conns EXCEPT ![c].toSrv = Append(@, val)]
    PROVE  /\ conns' \in Seq(Connection) /\ Len(conns') = Len(conns)
           /\ conns[c].toSrv \in Seq(Command)
           /\ conns'[c].toSrv = Append(conns[c].toSrv, val) /\ conns'[c].toCl = conns[c].toCl
           /\ conns'[c].open = conns[c].open /\ conns'[c].broken = conns[c].broken
           /\ \A b \in 1 .. Len(conns) : b # c => conns'[b] = conns[b]
<1>1. conns[c] \in Connection
  BY ElementOfSeq
<1>2. conns[c].toSrv \in Seq(Command)
  BY <1>1 DEF Connection
<1>3. Append(conns[c].toSrv, val) \in Seq(Command)
  BY <1>2, AppendedCmds
<1>4. PICK r : r = [conns[c] EXCEPT !.toSrv = Append(@, val)]
  OBVIOUS
<1>5. /\ r \in Connection /\ r.toSrv = Append(conns[c].toSrv, val) /\ r.toCl = conns[c].toCl
      /\ r.open = conns[c].open /\ r.broken = conns[c].broken
  BY <1>1, <1>3, <1>4 DEF Connection
<1>6. conns' = [conns EXCEPT ![c] = r]
  BY <1>4
<1>7. /\ conns' \in Seq(Connection) /\ Len(conns') = Len(conns) /\ conns'[c] = r
      /\ \A b \in 1 .. Len(conns) : b # c => conns'[b] = conns[b]
  BY <1>5, <1>6, ChangedConn
<1> QED BY <1>2, <1>5, <1>7

\* A result is read.
LEMMA ReadConn ==
    ASSUME conns \in Seq(Connection), NEW c \in 1 .. Len(conns), conns[c].toCl # <<>>,
           NEW rest \in AfterDecode(conns[c].toCl), conns' = [conns EXCEPT ![c].toCl = rest]
    PROVE  /\ conns' \in Seq(Connection) /\ Len(conns') = Len(conns) /\ Fade
           /\ Head(conns[c].toCl) \in Answer
<1>1. conns[c] \in Connection
  BY ElementOfSeq
<1>2. PICK t : t = conns[c].toCl
  OBVIOUS
<1>3. t \in Seq(Answer) /\ t # <<>> /\ rest \in AfterDecode(t)
  BY <1>1, <1>2 DEF Connection
<1>4. /\ Head(t) \in Answer /\ rest \in Seq(Answer)
      /\ \A i \in DOMAIN rest : i + 1 \in DOMAIN t /\ rest[i] = t[i + 1]
  BY <1>3, ReadStream
<1>5. PICK r : r = [conns[c] EXCEPT !.toCl = rest]
  OBVIOUS
<1>6. /\ r \in Connection /\ r.toSrv = conns[c].toSrv /\ r.toCl = rest
      /\ r.open = conns[c].open /\ r.broken = conns[c].broken
  BY <1>1, <1>4, <1>5 DEF Connection
<1>7. conns' = [conns EXCEPT ![c] = r]
  BY <1>5
<1>8. \A i \in DOMAIN r.toCl : r.toCl[i].MsgType = "REDIRECT" => Redirected(c)
  BY <1>2, <1>4, <1>6 DEF Redirected
<1>9. r.open /\ ~r.broken => Open(c)
  BY <1>6 DEF Open
<1> QED BY <1>2, <1>4, <1>6, <1>7, <1>8, <1>9, FadedConn

\* Connection a is closed, and b is read no more.
LEMMA ClosedConn ==
    ASSUME conns \in Seq(Connection), NEW a \in 1 .. Len(conns), NEW b \in 1 .. Len(conns),
           conns' = [conns EXCEPT ![a].open = FALSE, ![b].toCl = <<>>]
    PROVE  /\ conns' \in Seq(Connection) /\ Len(conns') = Len(conns) /\ Fade
           /\ ~Redirected(b)' /\ conns'[b].toSrv = conns[b].toSrv
<1>1. conns \in [1 .. Len(conns) -> Connection]
  BY LenProperties
<1>2. <<>> \in Seq(Answer) /\ DOMAIN <<>> = {}
  BY EmptySeq
<1>3. PICK f : f = [conns EXCEPT ![a] = [conns[a] EXCEPT !.open = FALSE]]
  OBVIOUS
<1>4. conns[a] \in Connection
  BY <1>1
<1>5. PICK r : r = [conns[a] EXCEPT !.open = FALSE]
  OBVIOUS
<1>6. r \in Connection /\ ~r.open /\ r.toSrv = conns[a].toSrv /\ r.toCl = conns[a].toCl
  BY <1>4, <1>5 DEF Connection
<1>7. /\ f \in [1 .. Len(conns) -> Connection] /\ f[a] = r
      /\ \A c \in 1 .. Len(conns) : c # a => f[c] = conns[c]
  BY <1>1, <1>3, <1>5, <1>6
<1>8. PICK q : q = [f[b] EXCEPT !.toCl = <<>>]
  OBVIOUS
<1>9. f[b] \in Connection
  BY <1>7
<1>10. /\ q \in Connection /\ q.open = f[b].open /\ q.broken = f[b].broken
       /\ q.toSrv = f[b].toSrv /\ q.toCl = <<>>
  BY <1>2, <1>8, <1>9 DEF Connection
<1>11. conns' = [f EXCEPT ![b] = q]
  BY <1>3, <1>8
<1>12. /\ conns' \in [1 .. Len(conns) -> Connection] /\ conns'[b] = q
       /\ \A c \in 1 .. Len(conns) : c # b => conns'[c] = f[c]
  BY <1>7, <1>10, <1>11
<1>13. ASSUME NEW c \in 1 .. Len(conns)
       PROVE  /\ Open(c)' => Open(c)
              /\ conns'[c].toSrv = conns[c].toSrv
              /\ Redirected(c)' => Redirected(c)
  <2>1. CASE c = b
    <3>1. ~Redirected(c)'
      BY <1>2, <1>10, <1>12, <2>1 DEF Redirected
    <3>2. conns'[c].toSrv = conns[c].toSrv
      BY <1>6, <1>7, <1>10, <1>12, <2>1
    <3>3. Open(c)' => Open(c)
      BY <1>6, <1>7, <1>10, <1>12, <2>1 DEF Open
    <3> QED BY <3>1, <3>2, <3>3
  <2>2. CASE c # b
    <3>1. conns'[c] = f[c] /\ (f[c] = conns[c] \/ (c = a /\ f[c] = r))
      BY <1>7, <1>12, <2>2
    <3> QED BY <1>6, <3>1 DEF Open, Redirected
  <2> QED BY <2>1, <2>2
<1>14. ~Redirected(b)'
  BY <1>2, <1>10, <1>12 DEF Redirected
<1> QED BY <1>12, <1>13, <1>14, FadedConns
-----------------------------------------------------------------------------
\* The client's steps: types.

MainAfter ==
    /\ kind' = kind /\ asked <= asked'
    /\ main' \in {"start", "take", "signal", "count", "exited"}
    /\ asked' \in 0 .. MaxCmds /\ seqNum' \in Nat /\ sending' \in Nat
    /\ msgClIn' \in Seq(Result)
    /\ answered' \subseteq 1 .. asked
    /\ kind = "benchmark" /\ main' \in {"signal", "count"} => msgClIn' # <<>>

\* A call of clConnToServer moves on.
LEMMA DialMoved ==
    ASSUME DialTypes, NEW d \in Dialer, NEW p \in {"idle", "type", "blank", "loop", "dial", "stop"},
           NEW w \in Node \cup {NoNode}, p = "dial" => w \in Node,
           dial' = [dial EXCEPT ![d] = [pc |-> p, with |-> w]],
           host' \in Node \cup {NoNode}, retries' \in Nat,
           \/ retries' <= LDR_CONN_NUM_RETRY
           \/ p # "dial" /\ retries' <= LDR_CONN_NUM_RETRY + 1
           \/ p # "dial" /\ retries' <= retries + Dials(d)
    PROVE  DialTypes'
<1> USE BoundTypes
<1>1. /\ dial' \in [Dialer -> [pc : {"idle", "type", "blank", "loop", "dial", "stop"}, with : Node \cup {NoNode}]]
      /\ dial'[d].pc = p /\ dial'[d].with = w
      /\ \A e \in Dialer : e # d => dial'[e] = dial[e]
  BY DEF DialTypes
<1>2. \A e \in Dialer : dial'[e].pc = "dial" => dial'[e].with \in Node
  BY <1>1 DEF DialTypes
<1>3. /\ \A e \in Dialer : Dials(e) \in {0, 1} /\ Dials(e)' \in {0, 1}
      /\ \A e \in Dialer : e # d => Dials(e)' = Dials(e)
      /\ p # "dial" => Dials(d)' = 0
  BY <1>1 DEF Dials
<1>4. retries \in Nat /\ retries + Dials("input") + Dials("redirect") + Dials("eof") <= LDR_CONN_NUM_RETRY + 3
  BY DEF DialTypes
<1>5. retries' + Dials("input")' + Dials("redirect")' + Dials("eof")' <= LDR_CONN_NUM_RETRY + 3
  <2>1. PICK i, r, e, i1, r1, e1 :
              /\ i = Dials("input") /\ r = Dials("redirect") /\ e = Dials("eof")
              /\ i1 = Dials("input")' /\ r1 = Dials("redirect")' /\ e1 = Dials("eof")'
    OBVIOUS
  <2>2. {i, r, e, i1, r1, e1} \subseteq {0, 1}
    BY <1>3, <2>1 DEF Dialer
  <2>3. \/ d = "input" /\ r1 = r /\ e1 = e /\ (p # "dial" => i1 = 0 /\ Dials(d) = i)
        \/ d = "redirect" /\ i1 = i /\ e1 = e /\ (p # "dial" => r1 = 0 /\ Dials(d) = r)
        \/ d = "eof" /\ i1 = i /\ r1 = r /\ (p # "dial" => e1 = 0 /\ Dials(d) = e)
    BY <1>3, <2>1 DEF Dialer
  <2>4. retries' + i1 + r1 + e1 <= LDR_CONN_NUM_RETRY + 3
    <3>1. /\ {i, r, e, i1, r1, e1} \subseteq Nat /\ i1 <= 1 /\ r1 <= 1 /\ e1 <= 1
          /\ retries + i + r + e <= LDR_CONN_NUM_RETRY + 3
      BY <1>4, <2>1, <2>2
    <3>2. CASE p # "dial" /\ retries' <= retries + Dials(d)
      <4>1. i1 + r1 + e1 + Dials(d) <= i + r + e
        BY <1>3, <2>2, <2>3, <3>2
      <4>2. Dials(d) \in {0, 1}
        BY <1>3
      <4> QED BY <1>4, <3>1, <3>2, <4>1, <4>2
    <3>3. CASE p # "dial" /\ retries' <= LDR_CONN_NUM_RETRY + 1
      <4>1. i1 + r1 + e1 <= 2
        BY <2>2, <2>3, <3>3
      <4> QED BY <3>1, <3>3, <4>1
    <3>4. CASE retries' <= LDR_CONN_NUM_RETRY
      BY <3>1, <3>4
    <3> QED BY <3>2, <3>3, <3>4
  <2> QED BY <2>1, <2>4
<1> QED BY <1>1, <1>2, <1>5 DEF DialTypes

LEMMA DialsSame ==
    ASSUME DialTypes, UNCHANGED <<dial, host, retries>>
    PROVE  DialTypes'
BY DEF DialTypes, Dials

LEMMA ReadsSame ==
    ASSUME ReadTypes, UNCHANGED <<conn, reads>>, Len(conns') = Len(conns)
    PROVE  ReadTypes'
BY DEF ReadTypes

LEMMA MainSame ==
    ASSUME MainTypes, UNCHANGED <<kind, main, seqNum, asked, msgClIn, answered>>, sending' \in Nat
    PROVE  MainAfter
BY DEF MainTypes, MainAfter

\* Dials, commands to send and readers are there only when something was typed.
LEMMA SomethingTyped ==
    ASSUME Types, \/ \E d \in Dialer : dial[d].pc \notin {"idle", "blank"}
                  \/ sending > 0
                  \/ \E k : k \in DOMAIN reads
    PROVE  asked > 0
<1>1. asked \in Nat /\ sending \in Nat /\ reads \in Seq(1 .. Returned) /\ Len(reads) = Len(conns)
  BY MaxCmdsType DEF Types, MainTypes, ReadTypes
<1>2. DOMAIN reads = 1 .. Len(reads)
  BY <1>1, LenProperties
<1>4. SUFFICES ASSUME asked = 0
               PROVE  FALSE
  BY <1>1
<1>5. sending = 0 /\ Len(reads) = 0 /\ \A d \in Dialer : dial[d].pc \in {"idle", "blank"}
  BY <1>1, <1>4 DEF Types, Counting
<1> QED BY <1>2, <1>5

LEMMA CountingSame ==
    ASSUME Types, asked > 0, UNCHANGED <<kind, asked, seqNum>>, main' \in {main, "exited"}
    PROVE  Counting'
BY DEF Types, Counting

LEMMA ServiceSame ==
    ASSUME ServiceTypes, UNCHANGED <<nodeVars, extClAddrConn, logVars>>,
           conns' \in Seq(Connection), Len(conns') = Len(conns), lost' \subseteq 1 .. asked
    PROVE  ServiceAfter
BY DEF ServiceTypes, ServiceAfter, LogGrows, nodeVars, logVars

ClientAfter == ServiceAfter /\ DialTypes' /\ ReadTypes' /\ MainAfter /\ Counting'

LEMMA DialFailsTypes ==
    ASSUME Types, NEW d \in Dialer, NEW n \in Node, DialFails(d, n),
           \/ dial[d].pc = "loop" /\ retries <= LDR_CONN_NUM_RETRY
           \/ dial[d].pc = "dial",
           UNCHANGED <<kind, main, seqNum, asked, msgClIn, answered>>
    PROVE  ClientAfter /\ Fade
<1> USE BoundTypes, MaxCmdsType
<1>1. asked > 0
  BY SomethingTyped
<1>2. retries \in Nat /\ retries' = retries + 1 /\ (dial[d].pc = "dial" => Dials(d) = 1)
  BY DEF Types, DialTypes, DialFails, Dials
<1>3. DialTypes'
  <2>1. host' \in Node \cup {NoNode} /\ dial' = [dial EXCEPT ![d] = [pc |-> "loop", with |-> NoNode]]
    BY DEF DialFails
  <2>2. retries' \in Nat /\ (retries' <= LDR_CONN_NUM_RETRY + 1 \/ retries' <= retries + Dials(d))
    BY <1>2
  <2> QED BY <2>1, <2>2, DialMoved DEF Types
<1>4. conns' \in Seq(Connection) /\ Len(conns') = Len(conns) /\ Fade
  BY Unchanged DEF Types, ServiceTypes, DialFails, serviceVars
<1>5. ServiceAfter
  BY <1>4, ServiceSame DEF Types, ServiceTypes, DialFails, serviceVars
<1>6. ReadTypes'
  BY <1>4, ReadsSame DEF Types, DialFails
<1>7. MainAfter
  BY MainSame DEF Types, MainTypes, DialFails
<1>8. Counting'
  BY <1>1, CountingSame
<1> QED BY <1>3, <1>4, <1>5, <1>6, <1>7, <1>8 DEF ClientAfter

LEMMA DialHeadTypes ==
    ASSUME Types, NEW d \in Dialer, DialHead(d),
           UNCHANGED <<kind, main, seqNum, asked, msgClIn, answered>>
    PROVE  ClientAfter /\ Fade
<1> USE BoundTypes, MaxCmdsType
<1>1. asked > 0
  BY SomethingTyped DEF DialHead
<1>2. PICK n \in Target :
          \/ DialFails(d, n)
          \/ /\ n \in up /\ Len(conns) < MaxConns
             /\ host' = n
             /\ dial' = [dial EXCEPT ![d] = [pc |-> "dial", with |-> n]]
             /\ UNCHANGED <<serviceVars, conn, retries, reads, sending>>
  BY DEF DialHead
<1>3. n \in Node
  BY DEF Target, Types, DialTypes
<1>4. CASE DialFails(d, n)
  BY <1>3, <1>4, DialFailsTypes DEF DialHead
<1>5. CASE /\ host' = n
           /\ dial' = [dial EXCEPT ![d] = [pc |-> "dial", with |-> n]]
           /\ UNCHANGED <<serviceVars, conn, retries, reads, sending>>
  <2>1. DialTypes'
    <3>1. retries' \in Nat /\ retries' <= LDR_CONN_NUM_RETRY
      BY <1>5 DEF DialHead, Types, DialTypes
    <3> QED BY <1>3, <1>5, <3>1, DialMoved DEF Types
  <2>2. conns' \in Seq(Connection) /\ Len(conns') = Len(conns) /\ Fade
    BY <1>5, Unchanged DEF Types, ServiceTypes, serviceVars
  <2>3. ServiceAfter
    BY <1>5, <2>2, ServiceSame DEF Types, ServiceTypes, serviceVars
  <2>4. ReadTypes' /\ MainAfter /\ Counting'
    BY <1>1, <1>5, <2>2, ReadsSame, MainSame, CountingSame DEF Types, MainTypes
  <2> QED BY <2>1, <2>2, <2>3, <2>4 DEF ClientAfter
<1> QED BY <1>2, <1>4, <1>5

\* The types of a step are those of the next state.
LEMMA NextTypes ==
    ASSUME Types, ClientAfter, overrun' \in BOOLEAN, overrun => overrun'
    PROVE  Types'
<1>1. /\ asked \in 0 .. MaxCmds /\ asked' \in 0 .. MaxCmds /\ asked <= asked'
      /\ kind' = kind /\ kind \in Kinds /\ log \in Seq(Command) /\ LogGrows
  BY MaxCmdsType DEF Types, MainTypes, ClientAfter, MainAfter, ServiceTypes, ServiceAfter
<1>2. /\ Seq(Command) \subseteq Seq(Command') /\ Seq(Result) \subseteq Seq(Result')
      /\ Seq(Connection) \subseteq Seq(Connection')
      /\ 1 .. asked \subseteq 1 .. asked'
  BY <1>1, TypedStays
<1>3. Len(conns') = Len(conns) /\ Len(conns) <= MaxConns
  BY DEF ClientAfter, ServiceAfter, Types, ServiceTypes
<1>4. requestsIn' \in [Node -> Seq(Command')]
  BY <1>2 DEF ClientAfter, ServiceAfter
<1>5. ServiceTypes'
  BY <1>2, <1>3, <1>4 DEF ClientAfter, ServiceAfter, ServiceTypes
<1>6. MainTypes'
  BY <1>1, <1>2 DEF ClientAfter, MainAfter, MainTypes, MaxCmds
<1> QED BY <1>5, <1>6 DEF Types, ClientAfter

LEMMA DialSucceedsTypes ==
    ASSUME Types, NEW d \in Dialer, dial[d].pc = "dial", DialSucceeds(d),
           UNCHANGED <<kind, main, seqNum, asked, msgClIn, answered>>,
           overrun' \in BOOLEAN, overrun => overrun'
    PROVE  Types' /\ Fade
<1> USE BoundTypes, MaxCmdsType
<1>1. asked > 0
  BY SomethingTyped
<1>2. /\ Seq(Command) \subseteq Seq(Command') /\ Seq(Result) \subseteq Seq(Result')
      /\ Seq(Connection) \subseteq Seq(Connection')
  <2>1. /\ asked \in 0 .. MaxCmds /\ asked' \in 0 .. MaxCmds /\ asked <= asked'
        /\ log \in Seq(Command) /\ LogGrows /\ kind \in Kinds
    BY DEF Types, MainTypes, ServiceTypes, DialSucceeds, logVars, LogGrows
  <2> QED BY <2>1, TypedStays
<1>3. conns' \in Seq(Connection) /\ Len(conns') = Len(conns) + 1 /\ Fade
  BY AddedConn DEF Types, ServiceTypes, DialTypes, DialSucceeds
<1>4. Len(conns) \in Nat /\ Len(conns) < MaxConns
  BY LenProperties DEF Types, ServiceTypes, DialSucceeds
<1>5. DialTypes'
  <2>1. retries' \in Nat /\ retries' <= retries + Dials(d) /\ host' \in Node \cup {NoNode}
    BY DEF Types, DialTypes, Dials, DialSucceeds
  <2>2. dial' = [dial EXCEPT ![d] = [pc |-> "loop", with |-> NoNode]]
    BY DEF DialSucceeds
  <2> QED BY <2>1, <2>2, DialMoved DEF Types
<1>6. ReadTypes'
  <2>1. reads' = Append(reads, Spinning) /\ conn' = Len(conns) + 1 /\ Len(reads) = Len(conns)
        /\ reads \in Seq(1 .. Returned)
    BY DEF DialSucceeds, Types, ReadTypes
  <2>2. Spinning \in 1 .. Returned
    BY DEF Spinning, Returned
  <2>3. reads' \in Seq(1 .. Returned) /\ Len(reads') = Len(reads) + 1
    BY <2>1, <2>2, AppendProperties
  <2> QED BY <1>3, <1>4, <2>1, <2>3 DEF ReadTypes
<1>7. MainTypes'
  BY <1>2 DEF Types, MainTypes, DialSucceeds, MaxCmds
<1>8. Counting'
  BY <1>1, CountingSame
<1>9. ServiceTypes'
  <2>1. PICK n : n = dial[d].with
    OBVIOUS
  <2>2. extClAddrConn' = [extClAddrConn EXCEPT ![n] = Len(conns) + 1]
    BY <2>1 DEF DialSucceeds, Accept
  <2>3. \A i \in 0 .. Len(conns) : i \in 0 .. (Len(conns) + 1)
    BY <1>4
  <2>4. Len(conns) + 1 \in 0 .. (Len(conns) + 1)
    BY <1>4
  <2>5. extClAddrConn' \in [Node -> 0 .. Len(conns')]
    BY <1>3, <2>2, <2>3, <2>4 DEF Types, ServiceTypes
  <2>6. requestsIn' \in [Node -> Seq(Command')] /\ log' \in Seq(Command')
    BY <1>2 DEF Types, ServiceTypes, DialSucceeds, logVars
  <2> QED BY <1>2, <1>3, <1>4, <2>5, <2>6 DEF Types, ServiceTypes, DialSucceeds, nodeVars, logVars
<1> QED BY <1>3, <1>5, <1>6, <1>7, <1>8, <1>9 DEF Types

LEMMA DialEndsTypes ==
    ASSUME Types, NEW d \in Dialer, DialEnds(d),
           UNCHANGED <<kind, main, seqNum, asked, msgClIn, answered>>
    PROVE  ClientAfter /\ Fade
<1> USE BoundTypes, MaxCmdsType
<1>1. asked > 0
  BY SomethingTyped DEF DialEnds
<1>2. conns' \in Seq(Connection) /\ Len(conns') = Len(conns) /\ Fade
  BY Unchanged DEF Types, ServiceTypes, DialEnds, serviceVars
<1>3. ServiceAfter
  BY <1>2, ServiceSame DEF Types, ServiceTypes, DialEnds, serviceVars
<1>4. DialTypes'
  <2>1. retries' \in Nat /\ retries' <= retries + Dials(d) /\ host' \in Node \cup {NoNode}
    BY DEF Types, DialTypes, Dials, DialEnds
  <2>2. \/ dial' = [dial EXCEPT ![d] = [pc |-> "stop", with |-> NoNode]]
        \/ dial' = [dial EXCEPT ![d] = [pc |-> "idle", with |-> NoNode]]
    BY DEF DialEnds, Idle
  <2> QED BY <2>1, <2>2, DialMoved DEF Types
<1>5. sending' \in Nat
  BY DEF Types, MainTypes, DialEnds
<1>6. MainAfter
  BY <1>5, MainSame DEF Types
<1>7. ReadTypes'
  BY <1>2, ReadsSame DEF Types, DialEnds
<1>8. Counting'
  BY <1>1, CountingSame
<1> QED BY <1>2, <1>3, <1>4, <1>6, <1>7, <1>8 DEF ClientAfter

LEMMA GiveUpTypes ==
    ASSUME Types, NEW d \in Dialer, GiveUp(d)
    PROVE  ClientAfter /\ Fade /\ \A c \in 1 .. Len(conns) : ~Open(c)'
<1>1. asked > 0
  BY SomethingTyped DEF GiveUp
<1>2. /\ conns' \in Seq(Connection) /\ Len(conns') = Len(conns) /\ Fade
      /\ \A c \in 1 .. Len(conns) : ~Open(c)'
  BY ExitedConns DEF Types, ServiceTypes, GiveUp
<1>3. ServiceAfter
  BY <1>2, ServiceSame DEF Types, ServiceTypes, GiveUp
<1>4. DialTypes'
  BY DialsSame DEF GiveUp, connVars, Types
<1>5. ReadTypes'
  BY <1>2, ReadsSame DEF GiveUp, connVars, Types
<1>6. MainAfter
  BY DEF Types, MainTypes, MainAfter, GiveUp, Exit
<1>7. Counting'
  BY <1>1, CountingSame DEF GiveUp, Exit
<1> QED BY <1>2, <1>3, <1>4, <1>5, <1>6, <1>7 DEF ClientAfter

\* A goroutine sends the last command: nowhere, or on an open end of connection conn.
LEMMA FieldsType ==
    ASSUME kind \in Kinds, asked \in 1 .. MaxCmds, NEW t \in UsrFields
    PROVE  t \in Transaction /\ Pays(t) <= Pays(Script[kind][asked])
<1>1. PICK x \in Transaction : x = Script[kind][asked]
  BY PayType DEF MaxCmds, Limit
<1>2. t \in {Blank, [x EXCEPT !.Amount = 0], x}
  BY <1>1 DEF UsrFields
<1>3. Pays(x) \in Nat /\ 0 \in -(MaxInt + 1) .. MaxInt
  BY PaysType, IntAssumption
<1>4. CASE t = Blank
  BY <1>1, <1>3, <1>4 DEF Blank, Pays, Transaction
<1>5. CASE t = [x EXCEPT !.Amount = 0]
  <2>1. t \in Transaction /\ t.Amount = 0
    BY <1>3, <1>5 DEF Transaction
  <2>2. Pays(t) = 0
    BY <2>1 DEF Pays
  <2> QED BY <1>1, <1>3, <2>1, <2>2
<1>6. CASE t = x
  BY <1>1, <1>3, <1>6
<1> QED BY <1>2, <1>4, <1>5, <1>6

LEMMA SendTypes ==
    ASSUME Types, main # "exited", Send,
           kind \in {"console", "gui"} /\ ~overrun => main # "signal"
    PROVE  /\ ClientAfter
           /\ \/ Fade
              \/ \E c \in 1 .. Len(conns), val \in Command :
                    /\ val.cmd = asked /\ c = conn /\ ~conns[c].broken
                    /\ conns[c].toSrv \in Seq(Command)
                    /\ conns'[c].toSrv = Append(conns[c].toSrv, val)
                    /\ conns'[c].toCl = conns[c].toCl
                    /\ conns'[c].open = conns[c].open /\ conns'[c].broken = conns[c].broken
                    /\ \A b \in 1 .. Len(conns) : b # c => conns'[b] = conns[b]
<1> USE BoundTypes, MaxCmdsType
<1>1. asked > 0 /\ sending > 0 /\ asked \in 1 .. asked /\ asked \in 1 .. MaxCmds
  BY SomethingTyped DEF Send, Types, MainTypes
<1>2. conns \in Seq(Connection) /\ lost \subseteq 1 .. asked /\ Pending \subseteq 1 .. asked
  BY DEF Types, ServiceTypes, Pending
<1>3. lost' \subseteq 1 .. asked
  BY <1>1, <1>2 DEF Send
<1>4. DialTypes' /\ sending' \in Nat
  BY <1>1, DialsSame DEF Types, MainTypes, Send, connVars
<1>5. Counting'
  BY <1>1, CountingSame DEF Send
<1>6. MainAfter
  BY <1>4, MainSame DEF Types, Send
<1>7. ASSUME conns' \in Seq(Connection), Len(conns') = Len(conns)
      PROVE  ClientAfter
  <2>1. ServiceAfter
    BY <1>3, <1>7, ServiceSame DEF Types, Send
  <2>2. ReadTypes'
    BY <1>7, ReadsSame DEF Types, Send, connVars
  <2> QED BY <1>4, <1>5, <1>6, <2>1, <2>2 DEF ClientAfter
<1>8. CASE UNCHANGED conns
  BY <1>2, <1>7, <1>8, Unchanged
<1>9. CASE conn # NoConn /\ conns[conn].srvPc = "done" /\ conns' = [conns EXCEPT ![conn].broken = TRUE]
  <2>1. conn \in 1 .. Len(conns)
    <3>1. Len(conns) \in Nat
      BY <1>2, LenProperties
    <3> QED BY <1>9, <3>1 DEF Types, ReadTypes, NoConn
  <2> QED BY <1>2, <1>7, <1>9, <2>1, BrokenConn
<1>10. ASSUME NEW val,
              NEW t \in UsrFields,
              val = [cmd |-> asked, ClientSeq |-> seqNum, Txn |-> t, by |-> NoNode],
              conn # NoConn, conns[conn].srvPc # "done",
              conns' = [conns EXCEPT ![conn].toSrv = Append(@, val)]
       PROVE  /\ ClientAfter
              /\ \E c \in 1 .. Len(conns), v \in Command :
                    /\ v.cmd = asked /\ c = conn /\ ~conns[c].broken
                    /\ conns[c].toSrv \in Seq(Command)
                    /\ conns'[c].toSrv = Append(conns[c].toSrv, v)
                    /\ conns'[c].toCl = conns[c].toCl
                    /\ conns'[c].open = conns[c].open /\ conns'[c].broken = conns[c].broken
                    /\ \A b \in 1 .. Len(conns) : b # c => conns'[b] = conns[b]
  <2>1. conn \in 1 .. Len(conns)
    <3>1. Len(conns) \in Nat
      BY <1>2, LenProperties
    <3> QED BY <1>10, <3>1 DEF Types, ReadTypes, NoConn
  <2>2. t \in Transaction /\ Pays(t) <= Pays(Script[kind][asked])
    BY <1>1, FieldsType DEF Types, MainTypes
  <2>3. seqNum \in Nat /\ asked \in Nat
    BY DEF Types, MainTypes
  <2>4. kind \in {"console", "gui"} /\ ~overrun => asked = seqNum + 1
    BY <1>1 DEF Types, MainTypes, Counting
  <2>5. val \in Command /\ val.cmd = asked
    BY <1>1, <1>10, <2>2, <2>3, <2>4 DEF Command, Typed
  <2>6. /\ conns' \in Seq(Connection) /\ Len(conns') = Len(conns)
        /\ conns[conn].toSrv \in Seq(Command)
        /\ conns'[conn].toSrv = Append(conns[conn].toSrv, val)
        /\ conns'[conn].toCl = conns[conn].toCl
        /\ conns'[conn].open = conns[conn].open /\ conns'[conn].broken = conns[conn].broken
        /\ \A b \in 1 .. Len(conns) : b # conn => conns'[b] = conns[b]
    BY <1>2, <1>10, <2>1, <2>5, SentConn
  <2>7. ~conns[conn].broken
    <3>1. conns[conn] \in Connection
      BY <1>2, <2>1, ElementOfSeq
    <3> QED BY <1>10, <3>1 DEF Connection
  <2> QED BY <1>7, <2>1, <2>5, <2>6, <2>7
<1> QED BY <1>8, <1>9, <1>10 DEF Send

\* The goroutine that asks the user moves on.
InputAt(p) == dial' = [dial EXCEPT !["input"] = [pc |-> p, with |-> NoNode]]

LEMMA TypingTypes ==
    ASSUME Types,
           \/ SendTyped
           \/ (InputAt("type") \/ InputAt("blank")) /\ UNCHANGED <<retries, sending>>,
           UNCHANGED <<nodeVars, conns, extClAddrConn, logVars, host, conn, reads>>,
           lost' \subseteq 1 .. asked
    PROVE  /\ ServiceAfter /\ DialTypes' /\ ReadTypes' /\ Fade /\ sending' \in Nat
<1> USE BoundTypes
<1>1. conns' \in Seq(Connection) /\ Len(conns') = Len(conns) /\ Fade
  BY Unchanged DEF Types, ServiceTypes
<1>2. ServiceAfter
  BY <1>1, ServiceSame DEF Types, ServiceTypes
<1>3. ReadTypes'
  BY <1>1, ReadsSame DEF Types
<1>4. /\ "input" \in Dialer /\ host' \in Node \cup {NoNode} /\ retries \in Nat
      /\ Dials("input") \in {0, 1} /\ sending \in Nat
  BY DEF Dialer, Types, DialTypes, MainTypes, Dials
<1>5. CASE SendTyped /\ conn = NoConn
  <2>1. InputAt("loop") /\ retries' = 0 /\ sending' = sending
    BY <1>5 DEF SendTyped, Connect, InputAt
  <2>2. retries' <= LDR_CONN_NUM_RETRY
    BY <2>1
  <2>3. DialTypes'
    BY <1>4, <2>1, <2>2, DialMoved DEF Types, InputAt
  <2> QED BY <1>1, <1>2, <1>3, <1>4, <2>1, <2>3
<1>6. CASE SendTyped /\ conn # NoConn
  <2>1. InputAt("idle") /\ retries' = retries /\ sending' = sending + 1
        /\ retries' <= retries + Dials("input")
    BY <1>4, <1>6 DEF SendTyped, Idle, InputAt
  <2>2. DialTypes'
    BY <1>4, <2>1, DialMoved DEF Types, InputAt
  <2> QED BY <1>1, <1>2, <1>3, <1>4, <2>1, <2>2
<1>7. CASE (InputAt("type") \/ InputAt("blank")) /\ UNCHANGED <<retries, sending>>
  <2>0. retries' <= retries + Dials("input")
    BY <1>4, <1>7
  <2>1. DialTypes'
    BY <1>4, <1>7, <2>0, DialMoved DEF Types, InputAt
  <2> QED BY <1>1, <1>2, <1>3, <1>4, <1>7, <2>1
<1> QED BY <1>5, <1>6, <1>7

\* The three ways in which a user's goroutine moves, and the one of the web server.
LEMMA InputTypes ==
    ASSUME Types,
           \/ kind \in {"console", "gui"} /\ GetUsrInput
           \/ kind = "benchmark" /\ GetUsrInputBenchmark
           \/ kind = "web" /\ ReadPump
    PROVE  /\ ClientAfter /\ Fade
           /\ \/ /\ asked' = asked + 1 /\ InputAt("type") /\ sending' = sending
                 /\ main \in {"start", "signal"} /\ main' \in {"take", "count"}
              \/ EndTyping
              \/ InputAt("blank") /\ main' \in {"take", "count"} /\ UNCHANGED <<asked, sending>>
              \/ kind = "web"
<1> USE BoundTypes, MaxCmdsType
<1>0. kind \in Kinds /\ asked \in Nat /\ MaxCmds \in Nat
  BY DEF Types, MainTypes
<1>1. ASSUME NEW next \in {"take", "count"}, Ask(next), kind # "web",
             next = IF kind = "benchmark" /\ main # "start" THEN "count" ELSE "take",
             UNCHANGED <<serviceVars, kind, seqNum, host, conn, reads, msgClIn, answered>>
      PROVE  /\ ClientAfter /\ Fade
             /\ asked' = asked + 1 /\ InputAt("type") /\ sending' = sending
             /\ main \in {"start", "signal"} /\ main' \in {"take", "count"}
  <2>1. /\ asked' = asked + 1 /\ InputAt("type") /\ UNCHANGED <<retries, sending>>
        /\ main \in {"start", "signal"} /\ main' = next /\ asked < MaxCmds
    BY <1>1 DEF Ask, InputAt
  <2>2. ServiceAfter /\ DialTypes' /\ ReadTypes' /\ Fade /\ sending' \in Nat
    BY <1>1, <2>1, TypingTypes DEF serviceVars, Types, ServiceTypes
  <2>3. MainAfter
    BY <1>0, <1>1, <2>1, <2>2 DEF Types, MainTypes, MainAfter
  <2>4. Counting'
    BY <1>0, <1>1, <2>1, <2>2 DEF Types, MainTypes, Counting
  <2> QED BY <2>1, <2>2, <2>3, <2>4 DEF ClientAfter
<1>2. ASSUME EndTyping, kind # "web",
             UNCHANGED <<serviceVars, kind, seqNum, host, conn, reads, msgClIn, answered>>
      PROVE  ClientAfter /\ Fade
  <2>1. SendTyped /\ UNCHANGED <<main, asked>> /\ dial["input"].pc = "type" /\ "input" \in Dialer
    BY <1>2 DEF EndTyping, Dialer
  <2>2. ServiceAfter /\ DialTypes' /\ ReadTypes' /\ Fade /\ sending' \in Nat
    BY <1>2, <2>1, TypingTypes DEF serviceVars, Types, ServiceTypes
  <2>3. MainAfter
    BY <1>0, <1>2, <2>1, <2>2 DEF Types, MainTypes, MainAfter
  <2>4. asked > 0
    BY <2>1, SomethingTyped
  <2>5. Counting'
    BY <1>2, <2>1, <2>4, CountingSame
  <2> QED BY <2>2, <2>3, <2>5 DEF ClientAfter
<1>3. CASE kind \in {"console", "gui"} /\ GetUsrInput
  <2>1. CASE Ask("take")
    <3>1. PICK next : next = "take"
      OBVIOUS
    <3>2. /\ next \in {"take", "count"} /\ Ask(next) /\ kind # "web"
          /\ next = IF kind = "benchmark" /\ main # "start" THEN "count" ELSE "take"
          /\ UNCHANGED <<serviceVars, kind, seqNum, host, conn, reads, msgClIn, answered>>
      BY <1>3, <2>1, <3>1 DEF GetUsrInput
    <3> QED BY <1>1, <3>1, <3>2
  <2>2. CASE EndTyping
    BY <1>2, <1>3, <2>2 DEF GetUsrInput
  <2> QED BY <1>3, <2>1, <2>2 DEF GetUsrInput
<1>4. ASSUME kind = "benchmark", GetUsrInputBenchmark, InputAt("blank"),
             UNCHANGED <<asked, retries, sending>>,
             main' = IF main = "start" THEN "take" ELSE "count", main \in {"start", "signal"}
      PROVE  ClientAfter /\ Fade
  <2>1. UNCHANGED <<serviceVars, kind, seqNum, host, conn, reads, msgClIn, answered>>
    BY <1>4 DEF GetUsrInputBenchmark
  <2>2. ServiceAfter /\ DialTypes' /\ ReadTypes' /\ Fade /\ sending' \in Nat
    BY <1>4, <2>1, TypingTypes DEF serviceVars, Types, ServiceTypes
  <2>3. MainAfter
    BY <1>0, <1>4, <2>1, <2>2 DEF Types, MainTypes, MainAfter
  <2>4. \A d \in Dialer : dial'[d].pc \in {dial[d].pc, "blank"}
    BY <1>4 DEF InputAt, Types, DialTypes, Dialer
  <2>5. Counting'
    BY <1>4, <2>1, <2>2, <2>4 DEF Types, Counting, serviceVars
  <2> QED BY <2>2, <2>3, <2>5 DEF ClientAfter
<1>5. CASE kind = "benchmark" /\ GetUsrInputBenchmark
  <2>1. PICK next : next = IF main = "start" THEN "take" ELSE "count"
    OBVIOUS
  <2>2. UNCHANGED <<serviceVars, kind, seqNum, host, conn, reads, msgClIn, answered>>
    BY <1>5 DEF GetUsrInputBenchmark
  <2>3. CASE EndTyping
    BY <1>2, <1>5, <2>2, <2>3
  <2>4. CASE Ask(next)
    <3>1. main \in {"start", "signal"}
      BY <2>4 DEF Ask
    <3>2. /\ next \in {"take", "count"} /\ kind # "web"
          /\ next = IF kind = "benchmark" /\ main # "start" THEN "count" ELSE "take"
      BY <1>5, <2>1, <3>1
    <3> QED BY <1>1, <2>2, <2>4, <3>2
  <2>5. CASE /\ main \in {"start", "signal"} /\ main' = next
             /\ InputAt("blank") /\ UNCHANGED <<asked, retries, sending>>
    BY <1>4, <1>5, <2>1, <2>5
  <2> QED BY <1>5, <2>1, <2>3, <2>4, <2>5 DEF GetUsrInputBenchmark, AskBenchmark, InputAt
<1>6. CASE kind = "web" /\ ReadPump
  <2>1. lost' \subseteq 1 .. asked
    BY <1>6 DEF ReadPump, Types, ServiceTypes, Pending
  <2>2. SendTyped /\ asked' = asked + 1 /\ asked < MaxCmds
    BY <1>6 DEF ReadPump
  <2>3. ServiceAfter /\ DialTypes' /\ ReadTypes' /\ Fade /\ sending' \in Nat
    BY <1>6, <2>1, <2>2, TypingTypes DEF ReadPump
  <2>4. MainAfter
    BY <1>0, <1>6, <2>2, <2>3 DEF ReadPump, Types, MainTypes, MainAfter
  <2>5. Counting'
    BY <1>0, <1>6, <2>2, <2>3 DEF ReadPump, Types, MainTypes, Counting
  <2> QED BY <1>6, <2>3, <2>4, <2>5 DEF ClientAfter
<1> QED BY <1>3, <1>5, <1>6

\* The goroutine of a connection is there, and so is the connection it reads.
LEMMA Reader ==
    ASSUME Types, NEW k \in DOMAIN reads
    PROVE  /\ asked > 0 /\ k \in 1 .. Len(reads)
           /\ DOMAIN conns = 1 .. Len(conns)
           /\ Spinning \in 1 .. Returned /\ Returned \in 1 .. Returned
           /\ \A r \in 1 .. Returned : [reads EXCEPT ![k] = r] \in Seq(1 .. Returned)
           /\ \A r \in 1 .. Returned : Len([reads EXCEPT ![k] = r]) = Len(reads)
<1>1. reads \in Seq(1 .. Returned) /\ conns \in Seq(Connection)
  BY DEF Types, ReadTypes, ServiceTypes
<1>2. k \in 1 .. Len(reads) /\ DOMAIN conns = 1 .. Len(conns)
  BY <1>1, LenProperties
<1>3. Spinning \in 1 .. Returned /\ Returned \in 1 .. Returned
  BY BoundTypes DEF Spinning, Returned
<1>4. asked > 0
  BY SomethingTyped
<1> QED BY <1>1, <1>2, <1>3, <1>4, ExceptSeq

LEMMA PickUpTypes ==
    ASSUME Types, NEW k \in DOMAIN reads, PickUp(k) \/ HandleClosed(k)
    PROVE  ClientAfter /\ Fade
<1>1. conns' \in Seq(Connection) /\ Len(conns') = Len(conns) /\ Fade
  BY Unchanged DEF Types, ServiceTypes, serviceVars, PickUp, HandleClosed
<1>2. ServiceAfter
  BY <1>1, ServiceSame DEF Types, ServiceTypes, serviceVars, PickUp, HandleClosed
<1>3. DialTypes'
  BY DialsSame DEF Types, PickUp, HandleClosed
<1>4. \E r \in 1 .. Returned : reads' = [reads EXCEPT ![k] = r]
  <2>1. CASE PickUp(k)
    <3>1. conn \in 1 .. Returned
      <4>1. Len(conns) \in Nat /\ Len(conns) <= MaxConns /\ conn \in 0 .. Len(conns) /\ conn # 0
        BY <2>1, LenProperties DEF Types, ServiceTypes, ReadTypes, PickUp, NoConn
      <4> QED BY <4>1, BoundTypes DEF Returned
    <3> QED BY <2>1, <3>1 DEF PickUp
  <2>2. CASE HandleClosed(k)
    BY <2>2, Reader DEF HandleClosed
  <2> QED BY <2>1, <2>2
<1>5. ReadTypes'
  <2>1. UNCHANGED conn
    BY DEF PickUp, HandleClosed
  <2> QED BY <1>1, <1>4, <2>1, Reader DEF Types, ReadTypes
<1>6. MainAfter
  BY MainSame DEF Types, MainTypes, PickUp, HandleClosed
<1>7. Counting'
  BY Reader, CountingSame DEF PickUp, HandleClosed
<1> QED BY <1>1, <1>2, <1>3, <1>5, <1>6, <1>7 DEF ClientAfter

LEMMA HandleResultTypes ==
    ASSUME Types, NEW k \in DOMAIN reads, HandleResult(k)
    PROVE  ClientAfter /\ Fade
<1>1. PICK c : c = reads[k]
  OBVIOUS
<1>2. c \in 1 .. Len(conns) /\ conns[c].toCl # <<>> /\ conns \in Seq(Connection)
  BY <1>1, Reader DEF HandleResult, Live, Types, ServiceTypes
<1>3. PICK stream : stream = conns[c].toCl
  OBVIOUS
<1>4. PICK rest \in AfterDecode(stream) :
          /\ conns' = [conns EXCEPT ![c].toCl = rest]
          /\ lost' = IF rest = Tail(stream) THEN lost ELSE lost \cup Pending
  BY <1>1, <1>3 DEF HandleResult
<1>5. /\ conns' \in Seq(Connection) /\ Len(conns') = Len(conns) /\ Fade
      /\ Head(stream) \in Answer
  BY <1>2, <1>3, <1>4, ReadConn
<1>6. lost' \subseteq 1 .. asked
  BY <1>4 DEF Types, ServiceTypes, Pending
<1>7. ServiceAfter
  BY <1>5, <1>6, ServiceSame DEF Types, HandleResult
<1>8. DialTypes'
  BY DialsSame DEF Types, HandleResult
<1>9. ReadTypes'
  BY <1>5, Reader DEF Types, ReadTypes, HandleResult
<1>10. /\ Head(stream).MsgType = "TRANSACTION_RESULT"
       /\ msgClIn' = Append(msgClIn, Head(stream))
  BY <1>1, <1>3 DEF HandleResult
<1>11. Head(stream) \in Result
  BY <1>5, <1>10 DEF Answer
<1>12. msgClIn' \in Seq(Result) /\ msgClIn' # <<>>
  BY <1>10, <1>11, AppendProperties DEF Types, MainTypes
<1>13. MainAfter
  BY <1>12 DEF Types, MainTypes, MainAfter, HandleResult
<1>14. Counting'
  BY Reader, CountingSame DEF HandleResult
<1> QED BY <1>5, <1>7, <1>8, <1>9, <1>13, <1>14 DEF ClientAfter

\* The connection of the client is closed, or there is none and the program ends.
LEMMA DisconnectTypes ==
    ASSUME Types, NEW k \in DOMAIN reads, Live(k), NEW h \in Node \cup {NoNode},
           NEW d \in Dialer, Disconnect(k, h, d), lost' \subseteq 1 .. asked,
           UNCHANGED <<nodeVars, extClAddrConn, logVars, kind, seqNum, asked, sending, msgClIn,
                       answered>>
    PROVE  /\ ClientAfter /\ Fade /\ main' \in {main, "exited"}
           /\ \/ (\A c \in 1 .. Len(conns) : ~Open(c)') /\ UNCHANGED dial
              \/ \E b \in 1 .. Len(conns) :
                    /\ b = reads[k] /\ ~Redirected(b)'
                    /\ conns'[b].toSrv = conns[b].toSrv
                    /\ dial' = [dial EXCEPT ![d] = [pc |-> "loop", with |-> NoNode]]
<1> USE BoundTypes, MaxCmdsType
<1>1. conns \in Seq(Connection) /\ reads[k] \in 1 .. Len(conns)
  BY Reader DEF Types, ServiceTypes, Live
<1>2. main' \in {main, "exited"}
  BY DEF Disconnect, Exit
<1>3. MainAfter
  BY <1>2 DEF Types, MainTypes, MainAfter
<1>4. Counting'
  BY <1>2, Reader, CountingSame
<1>5. CASE conn = NoConn
  <2>1. Exit /\ UNCHANGED <<reads, host, conn, dial, retries>>
    BY <1>5 DEF Disconnect
  <2>2. /\ conns' \in Seq(Connection) /\ Len(conns') = Len(conns) /\ Fade
        /\ \A c \in 1 .. Len(conns) : ~Open(c)'
    BY <1>1, <2>1, ExitedConns
  <2>3. ServiceAfter
    BY <2>2, ServiceSame DEF Types
  <2>4. DialTypes' /\ ReadTypes'
    BY <2>1, <2>2, DialsSame, ReadsSame DEF Types
  <2> QED BY <1>2, <1>3, <1>4, <2>1, <2>2, <2>3, <2>4 DEF ClientAfter
<1>6. CASE conn # NoConn
  <2>1. /\ conns' = [conns EXCEPT ![conn].open = FALSE, ![reads[k]].toCl = <<>>]
        /\ conn' = NoConn /\ host' = h
        /\ reads' = [reads EXCEPT ![k] = Returned]
        /\ dial' = [dial EXCEPT ![d] = [pc |-> "loop", with |-> NoNode]] /\ retries' = 0
    BY <1>6 DEF Disconnect, Connect
  <2>2. conn \in 1 .. Len(conns) /\ 0 \in 0 .. Len(conns)
    <3>1. Len(conns) \in Nat
      BY <1>1, LenProperties
    <3> QED BY <1>6, <3>1 DEF Types, ReadTypes, NoConn
  <2>3. PICK a, b : a = conn /\ b = reads[k]
    OBVIOUS
  <2>4. /\ conns' \in Seq(Connection) /\ Len(conns') = Len(conns) /\ Fade
        /\ ~Redirected(b)' /\ conns'[b].toSrv = conns[b].toSrv
    <3>1. a \in 1 .. Len(conns) /\ b \in 1 .. Len(conns)
      BY <1>1, <2>2, <2>3
    <3>2. conns' = [conns EXCEPT ![a].open = FALSE, ![b].toCl = <<>>]
      BY <2>1, <2>3
    <3> QED BY <1>1, <3>1, <3>2, ClosedConn
  <2>5. ServiceAfter
    BY <2>4, ServiceSame DEF Types
  <2>6. DialTypes'
    <3>1. retries' \in Nat /\ retries' <= LDR_CONN_NUM_RETRY /\ host' \in Node \cup {NoNode}
      BY <2>1
    <3> QED BY <2>1, <3>1, DialMoved DEF Types
  <2>7. ReadTypes'
    BY <2>1, <2>2, <2>4, Reader DEF Types, ReadTypes, NoConn
  <2> QED BY <1>1, <1>2, <1>3, <1>4, <2>1, <2>3, <2>4, <2>5, <2>6, <2>7 DEF ClientAfter
<1> QED BY <1>5, <1>6

LEMMA HandleRedirectTypes ==
    ASSUME Types, NEW k \in DOMAIN reads, HandleRedirect(k)
    PROVE  /\ ClientAfter /\ Fade /\ main' \in {main, "exited"}
           /\ \/ (\A c \in 1 .. Len(conns) : ~Open(c)') /\ UNCHANGED dial
              \/ \E b \in 1 .. Len(conns) :
                    /\ Open(b) /\ Redirected(b)
                    /\ ~Redirected(b)' /\ conns'[b].toSrv = conns[b].toSrv
                    /\ dial' = [dial EXCEPT !["redirect"] = [pc |-> "loop", with |-> NoNode]]
<1>1. PICK b : b = reads[k]
  OBVIOUS
<1>2. b \in 1 .. Len(conns) /\ Open(b) /\ conns[b].toCl # <<>> /\ Live(k)
  BY <1>1, Reader DEF HandleRedirect, Live, Open
<1>3. PICK t : t = conns[b].toCl
  OBVIOUS
<1>4. t \in Seq(Answer) /\ t # <<>>
  <2>1. conns[b] \in Connection
    BY <1>2, ElementOfSeq DEF Types, ServiceTypes
  <2> QED BY <1>2, <1>3, <2>1 DEF Connection
<1>5. Head(t) \in Answer /\ Head(t) = t[1] /\ 1 \in DOMAIN t
  BY <1>4, ReadStream DEF AfterDecode
<1>6. PICK h : h = Head(t).host
  OBVIOUS
<1>7. Head(t).MsgType = "REDIRECT" /\ Disconnect(k, h, "redirect")
  BY <1>1, <1>3, <1>6 DEF HandleRedirect
<1>8. h \in Node
  BY <1>5, <1>6, <1>7 DEF Answer, Result
<1>9. Redirected(b)
  BY <1>3, <1>5, <1>7 DEF Redirected
<1>10. lost' \subseteq 1 .. asked
  BY DEF HandleRedirect, Types, ServiceTypes, Pending
<1>11. "redirect" \in Dialer
  BY DEF Dialer
<1>12. UNCHANGED <<nodeVars, extClAddrConn, logVars, kind, seqNum, asked, sending, msgClIn, answered>>
  BY DEF HandleRedirect
<1>13. /\ ClientAfter /\ Fade /\ main' \in {main, "exited"}
       /\ \/ (\A c \in 1 .. Len(conns) : ~Open(c)') /\ UNCHANGED dial
          \/ \E c \in 1 .. Len(conns) :
                /\ c = reads[k] /\ ~Redirected(c)'
                /\ conns'[c].toSrv = conns[c].toSrv
                /\ dial' = [dial EXCEPT !["redirect"] = [pc |-> "loop", with |-> NoNode]]
  BY <1>2, <1>7, <1>8, <1>10, <1>11, <1>12, DisconnectTypes
<1> QED BY <1>1, <1>2, <1>9, <1>13

LEMMA HandleEOFTypes ==
    ASSUME Types, NEW k \in DOMAIN reads, HandleEOF(k)
    PROVE  /\ ClientAfter /\ Fade /\ main' \in {main, "exited"}
           /\ UNCHANGED dial \/ dial' = [dial EXCEPT !["eof"] = [pc |-> "loop", with |-> NoNode]]
<1>1. lost' \subseteq 1 .. asked
  BY DEF HandleEOF, Types, ServiceTypes, Pending
<1>2. "eof" \in Dialer /\ Live(k) /\ Disconnect(k, NoNode, "eof")
  BY DEF Dialer, HandleEOF
<1>3. UNCHANGED <<nodeVars, extClAddrConn, logVars, kind, seqNum, asked, sending, msgClIn, answered>>
  BY DEF HandleEOF
<1> QED BY <1>1, <1>2, <1>3, DisconnectTypes

LEMMA CountTypes ==
    ASSUME Types, msgClIn # <<>>, Count(Head(msgClIn))
    PROVE  /\ ServiceAfter /\ DialTypes' /\ ReadTypes' /\ Fade
           /\ msgClIn' \in Seq(Result) /\ answered' \subseteq 1 .. asked
           /\ seqNum' = seqNum + 1 /\ seqNum' \in Nat
<1>1. msgClIn \in Seq(Result)
  BY DEF Types, MainTypes
<1>2. Head(msgClIn) \in Result /\ Tail(msgClIn) \in Seq(Result)
  BY <1>1, ReadStream DEF AfterDecode
<1>3. Head(msgClIn).cmd \in 1 .. asked
  BY <1>2 DEF Result, Typed
<1>4. conns' \in Seq(Connection) /\ Len(conns') = Len(conns) /\ Fade
  BY Unchanged DEF Types, ServiceTypes, Count
<1>5. lost' \subseteq 1 .. asked /\ answered' \subseteq 1 .. asked
  BY <1>3 DEF Count, Types, ServiceTypes, MainTypes
<1>6. ServiceAfter
  BY <1>4, <1>5, ServiceSame DEF Types, Count
<1>7. DialTypes' /\ ReadTypes'
  BY <1>4, DialsSame, ReadsSame DEF Types, Count, connVars
<1>8. seqNum' = seqNum + 1 /\ seqNum' \in Nat
  BY DEF Types, MainTypes, Count
<1> QED BY <1>2, <1>4, <1>5, <1>6, <1>7, <1>8 DEF Count

LEMMA TakeTypes ==
    ASSUME Types,
           \/ kind \in {"console", "gui"} /\ TakeResult
           \/ kind = "benchmark" /\ TakeResultBenchmark
           \/ kind = "web" /\ WritePumpResult
    PROVE  ClientAfter /\ Fade /\ (main' \in {"start", "signal"} => main' = main \/
                                      (main = "take" /\ main' = "signal"))
<1> USE BoundTypes, MaxCmdsType
<1>1. CASE kind \in {"console", "gui"} /\ TakeResult
  <2>1. main = "take" /\ main' = "signal" /\ Count(Head(msgClIn)) /\ msgClIn # <<>>
    BY <1>1 DEF TakeResult
  <2>2. /\ ServiceAfter /\ DialTypes' /\ ReadTypes' /\ Fade
        /\ msgClIn' \in Seq(Result) /\ answered' \subseteq 1 .. asked
        /\ seqNum' = seqNum + 1 /\ seqNum' \in Nat
    BY <2>1, CountTypes
  <2>3. MainAfter
    BY <1>1, <2>1, <2>2 DEF Types, MainTypes, MainAfter, Count
  <2>4. Counting'
    <3>1. asked = seqNum + 1 /\ asked' = asked /\ seqNum \in Nat
      BY <1>1, <2>1 DEF Types, MainTypes, Counting, Count
    <3> QED BY <1>1, <2>1, <2>2, <3>1 DEF Counting, Count
  <2> QED BY <2>1, <2>2, <2>3, <2>4 DEF ClientAfter
<1>2. CASE kind = "benchmark" /\ TakeResultBenchmark
  <2>1. CASE main = "count" /\ Count(Head(msgClIn)) /\ main' = "take"
    <3>1. msgClIn # <<>>
      BY <1>2, <2>1 DEF Types, MainTypes
    <3>2. /\ ServiceAfter /\ DialTypes' /\ ReadTypes' /\ Fade
          /\ msgClIn' \in Seq(Result) /\ answered' \subseteq 1 .. asked
          /\ seqNum' = seqNum + 1 /\ seqNum' \in Nat
      BY <2>1, <3>1, CountTypes
    <3>3. MainAfter
      BY <1>2, <2>1, <3>2 DEF Types, MainTypes, MainAfter, Count
    <3>4. Len(conns') = Len(conns) /\ kind' = "benchmark"
      BY <1>2, <2>1, <3>2 DEF ServiceAfter, Count
    <3>5. Counting'
      BY <1>2, <2>1, <3>4 DEF Types, Counting, Count, connVars
    <3> QED BY <2>1, <3>2, <3>3, <3>5 DEF ClientAfter
  <2>2. CASE /\ main = "take" /\ msgClIn # <<>> /\ main' = "signal"
             /\ UNCHANGED <<serviceVars, kind, seqNum, asked, connVars, sending, msgClIn, answered>>
    <3>1. conns' \in Seq(Connection) /\ Len(conns') = Len(conns) /\ Fade
      BY <2>2, Unchanged DEF Types, ServiceTypes, serviceVars
    <3>2. ServiceAfter
      BY <2>2, <3>1, ServiceSame DEF Types, ServiceTypes, serviceVars
    <3>3. DialTypes' /\ ReadTypes'
      BY <2>2, <3>1, DialsSame, ReadsSame DEF Types, connVars
    <3>4. MainAfter
      BY <1>2, <2>2 DEF Types, MainTypes, MainAfter
    <3>5. Counting'
      BY <1>2, <2>2, <3>1 DEF Types, Counting, connVars
    <3> QED BY <2>2, <3>1, <3>2, <3>3, <3>4, <3>5 DEF ClientAfter
  <2> QED BY <1>2, <2>1, <2>2 DEF TakeResultBenchmark
<1>3. CASE kind = "web" /\ WritePumpResult
  <2>1. main = "take" /\ main' = main /\ Count(Head(msgClIn)) /\ msgClIn # <<>>
    BY <1>3 DEF WritePumpResult
  <2>2. /\ ServiceAfter /\ DialTypes' /\ ReadTypes' /\ Fade
        /\ msgClIn' \in Seq(Result) /\ answered' \subseteq 1 .. asked
        /\ seqNum' = seqNum + 1 /\ seqNum' \in Nat
    BY <2>1, CountTypes
  <2>3. MainAfter
    BY <1>3, <2>1, <2>2 DEF Types, MainTypes, MainAfter, Count
  <2>4. Len(conns') = Len(conns) /\ kind' = "web"
    BY <1>3, <2>1, <2>2 DEF ServiceAfter, Count
  <2>5. Counting'
    BY <1>3, <2>1, <2>4 DEF Types, Counting, Count, connVars
  <2> QED BY <2>1, <2>2, <2>3, <2>5 DEF ClientAfter
<1> QED BY <1>1, <1>2, <1>3

\* The nodes leave the client alone.
LEMMA ServerSteps ==
    ASSUME Types, ServiceAfter, UNCHANGED clientVars
    PROVE  ClientAfter
<1>1. Len(conns') = Len(conns)
  BY DEF ServiceAfter
<1>2. DialTypes' /\ ReadTypes'
  BY <1>1, DialsSame, ReadsSame DEF Types, clientVars, connVars
<1>3. MainAfter
  BY MainSame DEF Types, MainTypes, clientVars
<1>4. Counting'
  BY <1>1 DEF Types, Counting, clientVars, connVars
<1> QED BY <1>2, <1>3, <1>4 DEF ClientAfter

-----------------------------------------------------------------------------
\* Who may send.

LEMMA MayReturnIs ==
    ASSUME NEW c
    PROVE  /\ MayReturn(c) <=> Open(c) /\ (conns[c].toSrv # <<>> \/ Redirected(c))
           /\ MayReturn(c)' <=> Open(c)' /\ (conns'[c].toSrv # <<>> \/ Redirected(c)')
BY DEF MayReturn, Open, Redirected

LEMMA StillToSendIs ==
    ASSUME conns \in Seq(Connection)
    PROVE  StillToSend <=> \/ sending > 0
                           \/ \E d \in Asker : Asks(d)
                           \/ \E c \in 1 .. Len(conns) : MayReturn(c)
BY LenProperties DEF StillToSend, Asker, Asks

LEMMA NextStillToSendIs ==
    ASSUME Types'
    PROVE  StillToSend' <=> \/ sending' > 0
                            \/ \E d \in Asker : Asks(d)'
                            \/ \E c \in 1 .. Len(conns') : MayReturn(c)'
<1>1. DOMAIN conns' = 1 .. Len(conns')
  BY LenProperties DEF Types, ServiceTypes
<1> QED BY <1>1 DEF StillToSend, Asker, Asks

\* On connections that fade there is nothing new.
LEMMA FadeFacts ==
    ASSUME Types, Types', Fade
    PROVE  \A c \in 1 .. Len(conns') :
              /\ MayReturn(c)' => c \in 1 .. Len(conns) /\ MayReturn(c)
              /\ Open(c)' /\ Redirected(c)' => c \in 1 .. Len(conns) /\ Open(c) /\ Redirected(c)
              /\ Open(c)' /\ conns'[c].toSrv # <<>> => c \in 1 .. Len(conns) /\ Open(c)
              /\ \/ conns'[c].toSrv = <<>>
                 \/ c \in 1 .. Len(conns) /\ conns'[c].toSrv = conns[c].toSrv
<1>1. Len(conns) \in Nat /\ Len(conns') \in Nat
  BY LenProperties DEF Types, ServiceTypes
<1>2. TAKE c \in 1 .. Len(conns')
<1>3. c \in 1 .. Len(conns) \/ c > Len(conns)
  BY <1>1
<1>4. CASE c > Len(conns)
  BY <1>4, MayReturnIs DEF Fade
<1>5. CASE c \in 1 .. Len(conns)
  BY <1>5, MayReturnIs DEF Fade
<1> QED BY <1>3, <1>4, <1>5

\* A step that gives nobody the right to send.
LEMMA QuietSender ==
    ASSUME Types, Types', OneSender, Fade, sending' <= sending,
           \A d \in Asker : Asks(d)' => Asks(d), asked' = asked,
           \/ main' \in {"start", "signal"} => main' = main
           \/ ~StillToSend
    PROVE  OneSender' /\ (Waiting' => Waiting)
<1>1. /\ sending \in Nat /\ sending' \in Nat /\ conns \in Seq(Connection)
      /\ Len(conns) \in Nat /\ Len(conns') \in Nat
  BY LenProperties DEF Types, MainTypes, ServiceTypes
<1>2. \A c \in 1 .. Len(conns') :
         /\ MayReturn(c)' => c \in 1 .. Len(conns) /\ MayReturn(c)
         /\ Open(c)' /\ Redirected(c)' => c \in 1 .. Len(conns) /\ Open(c) /\ Redirected(c)
         /\ Open(c)' /\ conns'[c].toSrv # <<>> => c \in 1 .. Len(conns) /\ Open(c)
         /\ \/ conns'[c].toSrv = <<>>
            \/ c \in 1 .. Len(conns) /\ conns'[c].toSrv = conns[c].toSrv
  BY FadeFacts
<1>3. StillToSend' => StillToSend
  BY <1>1, <1>2, StillToSendIs, NextStillToSendIs
<1>4. main' \in {"start", "signal"} => ~StillToSend'
  BY <1>3 DEF OneSender
<1>5. \A c \in 1 .. Len(conns') :
         /\ Len(conns'[c].toSrv) <= 1
         /\ Open(c)' /\ conns'[c].toSrv # <<>> =>
               ~Redirected(c)' /\ Cmds(conns'[c].toSrv) = {asked'}
  <2> TAKE c \in 1 .. Len(conns')
  <2>1. Len(conns'[c].toSrv) <= 1
    BY <1>2, EmptySeq DEF OneSender
  <2>2. ASSUME Open(c)', conns'[c].toSrv # <<>>
        PROVE  ~Redirected(c)' /\ Cmds(conns'[c].toSrv) = {asked'}
    <3>1. /\ c \in 1 .. Len(conns) /\ Open(c) /\ conns'[c].toSrv = conns[c].toSrv
          /\ Redirected(c)' => Redirected(c)
      BY <1>2, <2>2
    <3> QED BY <2>2, <3>1 DEF OneSender
  <2> QED BY <2>1, <2>2
<1>6. Waiting' => Waiting
  BY <1>1, <1>2 DEF Waiting
<1>7. /\ sending' <= 1
      /\ \A d, e \in Asker : Asks(d)' /\ Asks(e)' => d = e
      /\ \A b, c \in 1 .. Len(conns') : MayReturn(b)' /\ MayReturn(c)' => b = c
  BY <1>1, <1>2 DEF OneSender
<1>8. sending' > 0 => sending > 0
  BY <1>1
<1>9. /\ sending' > 0 => \A d \in Asker : ~Asks(d)'
      /\ sending' > 0 \/ (\E d \in Asker : Asks(d)') => \A c \in 1 .. Len(conns') : ~MayReturn(c)'
  BY <1>2, <1>8 DEF OneSender
<1> QED BY <1>4, <1>5, <1>6, <1>7, <1>9 DEF OneSender

\* A dial has succeeded, and a goroutine is started that sends.
LEMMA DialSender ==
    ASSUME Types, Types', OneSender, Fade, NEW d \in Asker, Asks(d), sending' = sending + 1,
           dial' = [dial EXCEPT ![d] = Idle], asked' = asked, main' = main
    PROVE  OneSender' /\ (Waiting' => Waiting)
<1>1. /\ sending = 0 /\ sending' = 1 /\ conns \in Seq(Connection)
      /\ \A c \in 1 .. Len(conns) : ~MayReturn(c)
  BY DEF Types, MainTypes, ServiceTypes, OneSender
<1>2. \A c \in 1 .. Len(conns') :
         /\ ~MayReturn(c)'
         /\ Open(c)' /\ conns'[c].toSrv # <<>> => c \in 1 .. Len(conns) /\ Open(c)
         /\ \/ conns'[c].toSrv = <<>>
            \/ c \in 1 .. Len(conns) /\ conns'[c].toSrv = conns[c].toSrv
  BY <1>1, FadeFacts
<1>3. main' \notin {"start", "signal"}
  BY <1>1, StillToSendIs DEF OneSender
<1>4. \A e \in Asker : ~Asks(e)'
  <2>1. TAKE e \in Asker
  <2>2. CASE e = d
    <3>1. dial'[e] = Idle
      BY <2>2 DEF Types, DialTypes, Asker, Dialer
    <3> QED BY <3>1 DEF Asks, Idle
  <2>3. CASE e # d
    <3>1. dial'[e] = dial[e] /\ ~Asks(e)
      BY <2>3 DEF Types, DialTypes, Asker, Dialer, OneSender
    <3> QED BY <3>1 DEF Asks
  <2> QED BY <2>2, <2>3
<1>5. \A c \in 1 .. Len(conns') :
         /\ Len(conns'[c].toSrv) <= 1
         /\ ~(Open(c)' /\ conns'[c].toSrv # <<>>)
  BY <1>2, EmptySeq, MayReturnIs DEF OneSender
<1>6. Waiting
  BY DEF Waiting
<1> QED BY <1>1, <1>2, <1>3, <1>4, <1>5, <1>6 DEF OneSender

\* It has sent.
LEMMA SentSender ==
    ASSUME Types, Types', OneSender, sending > 0, sending' = sending - 1,
           UNCHANGED <<dial, asked, main>>, Len(conns') = Len(conns),
           NEW c \in 1 .. Len(conns), NEW val \in Command, val.cmd = asked,
           conns[c].toSrv \in Seq(Command), conns'[c].toSrv = Append(conns[c].toSrv, val),
           conns'[c].toCl = conns[c].toCl,
           conns'[c].open = conns[c].open, conns'[c].broken = conns[c].broken,
           \A b \in 1 .. Len(conns) : b # c => conns'[b] = conns[b],
           Open(c)
    PROVE  OneSender' /\ ~Waiting'
<1>1. /\ sending' = 0 /\ conns \in Seq(Connection)
      /\ \A b \in 1 .. Len(conns) : ~MayReturn(b)
      /\ \A d \in Asker : ~Asks(d)
  BY DEF Types, MainTypes, ServiceTypes, OneSender
<1>2. \A d \in Asker : ~Asks(d)'
  BY <1>1 DEF Asks
<1>3. main' \notin {"start", "signal"}
  BY <1>1, StillToSendIs DEF OneSender
<1>4. /\ Cmds(conns'[c].toSrv) = {asked'} /\ Len(conns'[c].toSrv) <= 1
  <2>1. conns[c].toSrv = <<>>
    BY <1>1, MayReturnIs
  <2>2. PICK s : s = conns[c].toSrv
    OBVIOUS
  <2>3. Cmds(s) = {} /\ Len(s) = 0
    BY <2>1, <2>2, EmptyCmds
  <2>4. Len(Append(s, val)) = Len(s) + 1 /\ Cmds(Append(s, val)) = Cmds(s) \cup {val.cmd}
    BY <2>2, AppendedCmds
  <2>5. Len(Append(s, val)) <= 1 /\ Cmds(Append(s, val)) = {asked'}
    BY <2>3, <2>4
  <2> QED BY <2>2, <2>5
<1>5. /\ Open(c)' <=> Open(c)
      /\ Redirected(c)' <=> Redirected(c)
  BY DEF Open, Redirected
<1>6. \A b \in 1 .. Len(conns) : b # c => /\ MayReturn(b)' <=> MayReturn(b)
                                          /\ Open(b)' <=> Open(b)
                                          /\ Redirected(b)' <=> Redirected(b)
  BY DEF Open, Redirected, MayReturn
<1>7. \A b \in 1 .. Len(conns') : ~(Open(b)' /\ Redirected(b)')
  BY <1>1, <1>5, <1>6, MayReturnIs
<1>8. \A b, e \in 1 .. Len(conns') : MayReturn(b)' /\ MayReturn(e)' => b = e
  BY <1>1, <1>6
<1>9. \A b \in 1 .. Len(conns') :
         /\ Len(conns'[b].toSrv) <= 1
         /\ Open(b)' /\ conns'[b].toSrv # <<>> =>
               ~Redirected(b)' /\ Cmds(conns'[b].toSrv) = {asked'}
  <2>1. TAKE b \in 1 .. Len(conns')
  <2>2. CASE b = c
    <3>1. Len(conns'[b].toSrv) <= 1 /\ Cmds(conns'[b].toSrv) = {asked'}
      BY <1>4, <2>2, Zenon
    <3>2. Open(b)' => ~Redirected(b)'
      BY <1>7
    <3> QED BY <3>1, <3>2
  <2>3. CASE b # c
    BY <1>6, <2>3 DEF OneSender
  <2> QED BY <2>2, <2>3
<1>10. ~Waiting'
  BY <1>1, <1>2, <1>7 DEF Waiting
<1>11. sending' <= 1
  BY <1>1
<1>12. ~(sending' > 0)
  BY <1>1
<1>13. OneSender'
  BY <1>2, <1>3, <1>8, <1>9, <1>11, <1>12 DEF OneSender
<1> QED BY <1>10, <1>13

\* The redirect on connection b was taken, and the client connects again.
LEMMA RedirectedSender ==
    ASSUME Types, Types', OneSender, Fade, NEW b \in 1 .. Len(conns), Open(b), Redirected(b),
           ~Redirected(b)', conns'[b].toSrv = conns[b].toSrv,
           dial' = [dial EXCEPT !["redirect"] = [pc |-> "loop", with |-> NoNode]],
           UNCHANGED <<asked, sending>>, main' \in {main, "exited"}
    PROVE  OneSender' /\ (Waiting' => Waiting)
<1>1. MayReturn(b) /\ conns \in Seq(Connection) /\ conns[b].toSrv = <<>>
  BY MayReturnIs DEF Types, ServiceTypes, OneSender
<1>2. /\ sending = 0 /\ \A d \in Asker : ~Asks(d)
      /\ \A c \in 1 .. Len(conns) : MayReturn(c) => c = b
  BY <1>1 DEF OneSender, Types, MainTypes
<1>3. \A c \in 1 .. Len(conns') :
         /\ MayReturn(c)' => c \in 1 .. Len(conns) /\ MayReturn(c)
         /\ Open(c)' /\ conns'[c].toSrv # <<>> => c \in 1 .. Len(conns) /\ Open(c)
         /\ \/ conns'[c].toSrv = <<>>
            \/ c \in 1 .. Len(conns) /\ conns'[c].toSrv = conns[c].toSrv
  BY FadeFacts
<1>4. ~MayReturn(b)'
  BY <1>1, MayReturnIs
<1>5. \A c \in 1 .. Len(conns') : ~MayReturn(c)'
  BY <1>2, <1>3, <1>4
<1>6. main' \notin {"start", "signal"}
  BY <1>1, StillToSendIs DEF OneSender
<1>7. \A d \in Asker : Asks(d)' => d = "redirect"
  <2>1. TAKE d \in Asker
  <2>2. CASE d # "redirect"
    <3>1. dial'[d] = dial[d]
      BY <2>2 DEF Types, DialTypes, Asker, Dialer
    <3> QED BY <1>2, <3>1 DEF Asks
  <2> QED BY <2>2
<1>8. \A c \in 1 .. Len(conns') :
         /\ Len(conns'[c].toSrv) <= 1
         /\ ~(Open(c)' /\ conns'[c].toSrv # <<>>)
  BY <1>3, <1>5, EmptySeq, MayReturnIs DEF OneSender
<1>9. Waiting
  BY DEF Waiting
<1> QED BY <1>2, <1>5, <1>6, <1>7, <1>8, <1>9 DEF OneSender

\* The user is asked for the next command.
LEMMA AskedSender ==
    ASSUME Types, Types', OneSender, Fade, main \in {"start", "signal"},
           main' \in {"take", "count"},
           sending' = sending, InputAt("type")
    PROVE  OneSender'
<1>1. conns \in Seq(Connection) /\ sending \in Nat
  BY DEF Types, ServiceTypes, MainTypes
<1>2. /\ sending = 0 /\ \A d \in Asker : ~Asks(d)
      /\ \A c \in 1 .. Len(conns) : ~MayReturn(c)
  BY <1>1, StillToSendIs DEF OneSender
<1>3. \A c \in 1 .. Len(conns') :
         /\ ~MayReturn(c)'
         /\ Open(c)' /\ conns'[c].toSrv # <<>> => c \in 1 .. Len(conns) /\ Open(c)
         /\ \/ conns'[c].toSrv = <<>>
            \/ c \in 1 .. Len(conns) /\ conns'[c].toSrv = conns[c].toSrv
  BY <1>2, FadeFacts
<1>4. \A c \in 1 .. Len(conns') :
         /\ Len(conns'[c].toSrv) <= 1
         /\ ~(Open(c)' /\ conns'[c].toSrv # <<>>)
  BY <1>3, EmptySeq, MayReturnIs DEF OneSender
<1>5. \A d \in Asker : Asks(d)' => d = "input"
  <2>1. TAKE d \in Asker
  <2>2. CASE d # "input"
    <3>1. dial'[d] = dial[d]
      BY <2>2 DEF InputAt, Types, DialTypes, Asker, Dialer
    <3> QED BY <1>2, <3>1 DEF Asks
  <2> QED BY <2>2
<1> QED BY <1>2, <1>3, <1>4, <1>5 DEF OneSender

\* A server answers the command of connection c with a redirect.
LEMMA AnsweredSender ==
    ASSUME Types, Types', OneSender, NEW c \in 1 .. Len(conns), conns[c].toSrv # <<>>,
           conns[c].toSrv \in Seq(Command), Len(conns') = Len(conns),
           conns'[c].open = conns[c].open, conns'[c].broken = conns[c].broken,
           conns'[c].toSrv = Tail(conns[c].toSrv),
           \A b \in 1 .. Len(conns) : b # c => conns'[b] = conns[b],
           UNCHANGED <<asked, sending, dial, main>>
    PROVE  /\ OneSender' /\ conns'[c].toSrv = <<>>
           /\ Waiting' => Waiting \/ Cmds(conns[c].toSrv) = {asked}
<1>1. conns \in Seq(Connection)
  BY DEF Types, ServiceTypes
<1>2. conns'[c].toSrv = <<>> /\ Len(conns'[c].toSrv) = 0
  BY ReadStream, EmptySeq DEF AfterDecode, OneSender
<1>3. \A b \in 1 .. Len(conns) : b # c => /\ MayReturn(b)' <=> MayReturn(b)
                                          /\ Open(b)' <=> Open(b)
                                          /\ Redirected(b)' <=> Redirected(b)
  BY DEF Open, Redirected, MayReturn
<1>4. (Open(c)' <=> Open(c)) /\ (MayReturn(c)' => MayReturn(c))
  BY MayReturnIs DEF Open
<1>5. \A b \in 1 .. Len(conns') : MayReturn(b)' => MayReturn(b)
  BY <1>3, <1>4
<1>6. \A d \in Asker : Asks(d)' <=> Asks(d)
  BY DEF Asks
<1>7. main' \in {"start", "signal"} => ~StillToSend'
  BY <1>1, <1>5, <1>6, StillToSendIs, NextStillToSendIs DEF OneSender
<1>8. \A b \in 1 .. Len(conns') :
         /\ Len(conns'[b].toSrv) <= 1
         /\ Open(b)' /\ conns'[b].toSrv # <<>> =>
               ~Redirected(b)' /\ Cmds(conns'[b].toSrv) = {asked'}
  <2>1. TAKE b \in 1 .. Len(conns')
  <2>2. CASE b = c
    BY <1>2, <2>2
  <2>3. CASE b # c
    BY <1>3, <2>3 DEF OneSender
  <2> QED BY <2>2, <2>3
<1>9. OneSender'
  BY <1>5, <1>6, <1>7, <1>8 DEF OneSender
<1>10. Waiting' => Waiting \/ Cmds(conns[c].toSrv) = {asked}
  <2>1. CASE Open(c)
    BY <2>1 DEF OneSender
  <2>2. CASE ~Open(c)
    BY <1>3, <1>4, <1>6, <2>2 DEF Waiting
  <2> QED BY <2>1, <2>2
<1> QED BY <1>2, <1>9, <1>10

-----------------------------------------------------------------------------
\* The connection of the client is open: who closes it forgets it.

ConnOpen == main # "exited" /\ conn # NoConn => conns[conn].open

LEMMA ChangedOpen ==
    ASSUME conns \in Seq(Connection), NEW c \in 1 .. Len(conns), NEW r,
           r.open = conns[c].open, conns' = [conns EXCEPT ![c] = r]
    PROVE  \A b \in 1 .. Len(conns) : conns'[b].open = conns[b].open
<1>1. DOMAIN conns = 1 .. Len(conns)
  BY LenProperties
<1> QED BY <1>1

LEMMA ServerOpen ==
    ASSUME Types, \/ ServerStep
                  \/ \E n \in Node : Elect(n) \/ Crash(n)
    PROVE  \A b \in 1 .. Len(conns) : conns'[b].open = conns[b].open
<1>1. /\ conns \in Seq(Connection) /\ DOMAIN conns = 1 .. Len(conns)
      /\ \A b \in 1 .. Len(conns) : conns[b] \in Connection
  BY LenProperties, ElementOfSeq DEF Types, ServiceTypes
<1>2. ASSUME NEW n \in Node, TakeLeader(n) \/ Decide(n) \/ Elect(n)
      PROVE  UNCHANGED conns
  BY <1>2 DEF TakeLeader, Decide, Elect
<1>3. ASSUME NEW n \in Node, Crash(n), NEW b \in 1 .. Len(conns)
      PROVE  conns'[b].open = conns[b].open
  <2>1. \/ conns'[b] = [conns[b] EXCEPT !.srvPc = "done", !.toSrv = <<>>]
        \/ conns'[b] = conns[b]
    BY <1>1, <1>3 DEF Crash
  <2> QED BY <1>1, <2>1 DEF Connection
<1>4. ASSUME NEW n \in Node, srvHandleDecidedValue(n)
      PROVE  \A b \in 1 .. Len(conns) : conns'[b].open = conns[b].open
  <2>1. PICK c : c = extClAddrConn[n]
    OBVIOUS
  <2>2. PICK m : m = TxnResponse(adu[n] + 1)
    OBVIOUS
  <2>3. \/ UNCHANGED conns
        \/ c # NoConn /\ conns' = [conns EXCEPT ![c].toCl = Append(@, m)]
    BY <1>4, <2>1, <2>2 DEF srvHandleDecidedValue
  <2>4. CASE c # NoConn /\ conns' = [conns EXCEPT ![c].toCl = Append(@, m)]
    <3>1. c \in 1 .. Len(conns)
      BY <1>1, <2>1, <2>4, LenProperties DEF NoConn, Types, ServiceTypes
    <3>2. PICK r : r = [conns[c] EXCEPT !.toCl = Append(@, m)]
      OBVIOUS
    <3>3. r.open = conns[c].open
      BY <1>1, <3>1, <3>2 DEF Connection
    <3>4. conns' = [conns EXCEPT ![c] = r]
      BY <2>4, <3>2
    <3> QED BY <1>1, <3>1, <3>3, <3>4, ChangedOpen
  <2> QED BY <2>3, <2>4
<1>5. ASSUME NEW c \in Conn, srvRecvExtClMsg(c)
      PROVE  \A b \in 1 .. Len(conns) : conns'[b].open = conns[b].open
  <2>1. c \in 1 .. Len(conns)
    BY <1>1, <1>5 DEF srvRecvExtClMsg
  <2>2. PICK s, p, t : \/ conns' = [conns EXCEPT ![c].toSrv = s]
                       \/ conns' = [conns EXCEPT ![c].toSrv = s, ![c].srvPc = p, ![c].toCl = t]
    <3>1. ASSUME NEW l, Redirect(c, l)
          PROVE  \E s, p, t : conns' = [conns EXCEPT ![c].toSrv = s, ![c].srvPc = p, ![c].toCl = t]
      <4>1. PICK s, m : s = Tail(conns[c].toSrv) /\ m = [MsgType |-> "REDIRECT", host |-> l]
        OBVIOUS
      <4>2. PICK t : t = Append(conns[c].toCl, m)
        OBVIOUS
      <4>3. conns' = [conns EXCEPT ![c].toSrv = s, ![c].srvPc = "redirected", ![c].toCl = t]
        BY <1>1, <2>1, <3>1, <4>1, <4>2 DEF Redirect, Connection
      <4> QED BY <4>3
    <3>2. \/ \E l : Redirect(c, l)
          \/ \E s : conns' = [conns EXCEPT ![c].toSrv = s]
      BY <1>5 DEF srvRecvExtClMsg
    <3> QED BY <3>1, <3>2
  <2>3. PICK r : /\ conns' = [conns EXCEPT ![c] = r]
                 /\ \/ r = [conns[c] EXCEPT !.toSrv = s]
                    \/ r = [conns[c] EXCEPT !.toSrv = s, !.srvPc = p, !.toCl = t]
    BY <1>1, <2>1, <2>2
  <2>4. r.open = conns[c].open
    BY <1>1, <2>1, <2>3 DEF Connection
  <2> QED BY <1>1, <2>1, <2>3, <2>4, ChangedOpen
<1>6. ASSUME NEW c \in Conn, CloseRedirected(c) \/ RecvEOF(c)
      PROVE  \A b \in 1 .. Len(conns) : conns'[b].open = conns[b].open
  <2>1. c \in 1 .. Len(conns) /\ CloseConn(c)
    BY <1>1, <1>6 DEF CloseRedirected, RecvEOF
  <2>2. PICK r : r = [conns[c] EXCEPT !.srvPc = "done", !.toSrv = <<>>]
    OBVIOUS
  <2>3. r.open = conns[c].open
    BY <1>1, <2>1, <2>2 DEF Connection
  <2>4. conns' = [conns EXCEPT ![c] = r]
    BY <2>1, <2>2 DEF CloseConn
  <2> QED BY <1>1, <2>1, <2>3, <2>4, ChangedOpen
<1> QED BY <1>2, <1>3, <1>4, <1>5, <1>6 DEF ServerStep

LEMMA ClientOpen ==
    ASSUME Types, ConnOpen, ClientStep
    PROVE  ConnOpen'
<1> USE BoundTypes, MaxCmdsType
<1>1. /\ conns \in Seq(Connection) /\ DOMAIN conns = 1 .. Len(conns) /\ Len(conns) \in Nat
      /\ \A b \in 1 .. Len(conns) : conns[b] \in Connection
      /\ conn \in 0 .. Len(conns) /\ main # "exited"
  BY LenProperties, ElementOfSeq DEF Types, ServiceTypes, ReadTypes, ClientStep
<1>2. CASE main' = "exited"
  BY <1>2 DEF ConnOpen
<1>3. CASE UNCHANGED <<conn, conns>>
  BY <1>1, <1>3 DEF ConnOpen
<1>4. ASSUME NEW d \in Dialer, DialSucceeds(d)
      PROVE  ConnOpen'
  <2>1. PICK r : /\ r = [node |-> dial[d].with, open |-> TRUE, srvPc |-> "recv", broken |-> FALSE,
                         toSrv |-> <<>>, toCl |-> <<>>]
                 /\ conns' = Append(conns, r) /\ conn' = Len(conns) + 1
    BY <1>4 DEF DialSucceeds, Accept
  <2>2. conns'[Len(conns) + 1] = r
    BY <1>1, <2>1
  <2> QED BY <2>1, <2>2 DEF ConnOpen
<1>5. ASSUME Send
      PROVE  ConnOpen'
  <2>1. PICK s : \/ UNCHANGED conns
                 \/ conn # NoConn /\ conns' = [conns EXCEPT ![conn].broken = TRUE]
                 \/ conn # NoConn /\ conns' = [conns EXCEPT ![conn].toSrv = s]
    BY <1>5 DEF Send
  <2>2. UNCHANGED conn
    BY <1>5 DEF Send, connVars
  <2>3. CASE conn # NoConn /\ ~ UNCHANGED conns
    <3>1. conn \in 1 .. Len(conns)
      BY <1>1, <2>3 DEF NoConn
    <3>2. PICK r : /\ conns' = [conns EXCEPT ![conn] = r]
                   /\ \/ r = [conns[conn] EXCEPT !.broken = TRUE]
                      \/ r = [conns[conn] EXCEPT !.toSrv = s]
      BY <2>1, <2>3
    <3>3. r.open = conns[conn].open
      BY <1>1, <3>1, <3>2 DEF Connection
    <3>4. conns'[conn].open = conns[conn].open
      BY <1>1, <3>1, <3>2, <3>3
    <3> QED BY <1>1, <2>2, <2>3, <3>4 DEF ConnOpen
  <2> QED BY <1>3, <2>1, <2>2, <2>3
<1>6. ASSUME NEW k \in DOMAIN reads, HandleResult(k)
      PROVE  ConnOpen'
  <2>1. PICK c, rest : c = reads[k] /\ c \in DOMAIN conns /\ conns' = [conns EXCEPT ![c].toCl = rest]
    BY <1>6 DEF HandleResult, Live
  <2>2. PICK r : r = [conns[c] EXCEPT !.toCl = rest]
    OBVIOUS
  <2>3. r.open = conns[c].open
    BY <1>1, <2>1, <2>2 DEF Connection
  <2>4. conns' = [conns EXCEPT ![c] = r]
    BY <2>1, <2>2
  <2>5. \A b \in 1 .. Len(conns) : conns'[b].open = conns[b].open
    BY <1>1, <2>1, <2>3, <2>4, ChangedOpen
  <2>6. UNCHANGED conn
    BY <1>6 DEF HandleResult
  <2> QED BY <1>1, <2>5, <2>6 DEF ConnOpen, NoConn
<1>7. ASSUME NEW k \in DOMAIN reads, NEW h, NEW d, Disconnect(k, h, d)
      PROVE  ConnOpen'
  BY <1>7 DEF Disconnect, Exit, ConnOpen
<1>8. ASSUME NEW d \in Dialer, clConnToServer(d)
      PROVE  ConnOpen'
  <2>1. CASE GiveUp(d)
    BY <2>1 DEF GiveUp, Exit, ConnOpen
  <2>2. ASSUME NEW n, DialFails(d, n)
        PROVE  UNCHANGED <<conn, conns>>
    BY <2>2 DEF DialFails, serviceVars
  <2>3. CASE DialHead(d)
    <3>1. UNCHANGED <<conn, conns>>
      BY <2>2, <2>3 DEF DialHead, serviceVars
    <3> QED BY <1>3, <3>1
  <2>4. CASE DialReturns(d)
    BY <1>3, <1>4, <2>2, <2>4 DEF DialReturns
  <2>5. CASE DialEnds(d)
    BY <1>3, <2>5 DEF DialEnds, serviceVars
  <2> QED BY <1>8, <2>1, <2>3, <2>4, <2>5 DEF clConnToServer
<1>9. ASSUME Reading
      PROVE  ConnOpen'
  <2>1. PICK k \in DOMAIN reads : clHandleIncomingMsg(k)
    BY <1>9 DEF Reading
  <2>2. CASE PickUp(k) \/ HandleClosed(k)
    BY <1>3, <2>2 DEF PickUp, HandleClosed, serviceVars
  <2>3. CASE HandleRedirect(k)
    BY <1>7, <2>3 DEF HandleRedirect
  <2>4. CASE HandleEOF(k)
    BY <1>7, <2>4 DEF HandleEOF
  <2> QED BY <1>6, <2>1, <2>2, <2>3, <2>4 DEF clHandleIncomingMsg
<1>10. ASSUME GetUsrInput \/ GetUsrInputBenchmark \/ ReadPump
       PROVE  UNCHANGED <<conn, conns>>
  BY <1>10 DEF GetUsrInput, GetUsrInputBenchmark, ReadPump, serviceVars
<1>11. ASSUME TakeResult \/ TakeResultBenchmark \/ WritePumpResult
       PROVE  UNCHANGED <<conn, conns>>
  BY <1>11 DEF TakeResult, TakeResultBenchmark, WritePumpResult, Count, serviceVars, connVars
<1> QED BY <1>3, <1>5, <1>8, <1>9, <1>10, <1>11
        DEF ClientStep, Console, Gui, GuiStart, GuiConnection, GuiInput, GuiIncoming, Benchmark,
            BenchmarkStart, BenchmarkConnection, BenchmarkInput, BenchmarkIncoming, Web,
            WebStart, WebConnection, WebInput, WebIncoming, Connecting

-----------------------------------------------------------------------------
\* Where commands are.

LEMMA ApartStays ==
    ASSUME Apart, UNCHANGED <<requestsIn, log>>,
           \A c \in 1 .. Len(conns') :
              \/ conns'[c].toSrv = <<>>
              \/ c \in 1 .. Len(conns) /\ conns'[c].toSrv = conns[c].toSrv
    PROVE  Apart' /\ \A x : Nowhere(x) => Nowhere(x)'
<1>1. \A c \in 1 .. Len(conns') :
         \/ Cmds(conns'[c].toSrv) = {}
         \/ c \in 1 .. Len(conns) /\ Cmds(conns'[c].toSrv) = Cmds(conns[c].toSrv)
  BY EmptyCmds
<1>2. Apart'
  BY <1>1 DEF Apart
<1>3. \A x : Nowhere(x) => Nowhere(x)'
  BY <1>1 DEF Nowhere
<1> QED BY <1>2, <1>3

\* What was sent was nowhere.
LEMMA ApartSent ==
    ASSUME Apart, UNCHANGED <<requestsIn, log>>, Len(conns') = Len(conns),
           NEW c \in 1 .. Len(conns), NEW x, Nowhere(x), Cmds(conns'[c].toSrv) \subseteq {x},
           \A b \in 1 .. Len(conns) : b # c => conns'[b] = conns[b]
    PROVE  Apart'
<1>1. \A b \in 1 .. Len(conns') : \A y \in Cmds(conns'[b].toSrv) :
         (y = x /\ b = c) \/ (y \in Cmds(conns[b].toSrv) /\ b # c)
  <2>1. TAKE b \in 1 .. Len(conns')
  <2>2. CASE b = c
    BY <2>2
  <2>3. CASE b # c
    BY <2>3
  <2> QED BY <2>2, <2>3
<1>2. \A d \in 1 .. Len(conns') : \A y \in Cmds(conns'[d].toSrv) :
         /\ y \notin Cmds(log) /\ \A n \in Node : y \notin Cmds(requestsIn[n])
         /\ \A b \in 1 .. Len(conns') : y \in Cmds(conns'[b].toSrv) => b = d
  <2>1. TAKE d \in 1 .. Len(conns')
  <2>2. TAKE y \in Cmds(conns'[d].toSrv)
  <2>3. CASE y = x
    BY <1>1, <2>3 DEF Nowhere
  <2>4. CASE y # x
    BY <1>1, <2>4 DEF Apart
  <2> QED BY <2>3, <2>4
<1> QED BY <1>2 DEF Apart

\* What is taken from connection c goes to the proposer of n.
LEMMA ApartTaken ==
    ASSUME Types, Apart, NEW c \in 1 .. Len(conns), NEW n \in Node, NEW v \in Command,
           v.cmd \in Cmds(conns[c].toSrv), conns'[c].toSrv = <<>>,
           requestsIn' = [requestsIn EXCEPT ![n] = Append(@, v)], UNCHANGED log,
           \A b \in 1 .. Len(conns') :
              \/ conns'[b].toSrv = <<>>
              \/ b \in 1 .. Len(conns) /\ conns'[b].toSrv = conns[b].toSrv
    PROVE  Apart' /\ (Nowhere(asked) /\ asked' = asked => Nowhere(asked)')
<1>1. requestsIn \in [Node -> Seq(Command)] /\ requestsIn[n] \in Seq(Command)
  BY DEF Types, ServiceTypes
<1>2. PICK q : q = requestsIn[n]
  OBVIOUS
<1>3. v.cmd \notin Cmds(q) /\ v.cmd \notin Cmds(log) /\ NoRepeat(q) /\ q \in Seq(Command)
  BY <1>1, <1>2 DEF Apart
<1>4. NoRepeat(Append(q, v)) /\ Cmds(Append(q, v)) = Cmds(q) \cup {v.cmd}
  BY <1>3, AppendedCmds
<1>5. /\ requestsIn'[n] = Append(q, v)
      /\ \A m \in Node : m # n => requestsIn'[m] = requestsIn[m]
  BY <1>1, <1>2
<1>6. \A m \in Node : m = n \/ (v.cmd \notin Cmds(requestsIn[m]))
  BY DEF Apart
<1>7. \A b \in 1 .. Len(conns) : b = c \/ v.cmd \notin Cmds(conns[b].toSrv)
  BY DEF Apart
<1>8. \A b \in 1 .. Len(conns') :
         \/ Cmds(conns'[b].toSrv) = {}
         \/ /\ b \in 1 .. Len(conns) /\ b # c
            /\ Cmds(conns'[b].toSrv) = Cmds(conns[b].toSrv)
  BY EmptyCmds
<1>9. \A m \in Node : /\ NoRepeat(requestsIn'[m])
                      /\ \A y \in Cmds(requestsIn'[m]) :
                            (m = n /\ y = v.cmd) \/ y \in Cmds(requestsIn[m])
  <2>1. TAKE m \in Node
  <2>2. CASE m = n
    BY <1>2, <1>4, <1>5, <2>2
  <2>3. CASE m # n
    BY <1>5, <2>3 DEF Apart
  <2> QED BY <2>2, <2>3
<1>10. Apart'
  <2>1. \A m \in Node : \A y \in Cmds(requestsIn'[m]) :
           y \notin Cmds(log) /\ \A k \in Node : y \in Cmds(requestsIn'[k]) => k = m
    <3>1. TAKE m \in Node
    <3>2. TAKE y \in Cmds(requestsIn'[m])
    <3>3. CASE y = v.cmd
      <4>1. \A k \in Node : y \in Cmds(requestsIn'[k]) => k = n
        BY <1>6, <1>9, <3>3
      <4> QED BY <1>3, <3>3, <4>1
    <3>4. CASE y # v.cmd
      <4>1. \A k \in Node : y \in Cmds(requestsIn'[k]) => y \in Cmds(requestsIn[k])
        BY <1>9, <3>4
      <4> QED BY <4>1 DEF Apart
    <3> QED BY <3>3, <3>4
  <2>2. \A d \in 1 .. Len(conns') : \A y \in Cmds(conns'[d].toSrv) :
           /\ y \notin Cmds(log)
           /\ \A b \in 1 .. Len(conns') : y \in Cmds(conns'[b].toSrv) => b = d
    BY <1>8 DEF Apart
  <2>3. \A d \in 1 .. Len(conns') : \A y \in Cmds(conns'[d].toSrv) :
           \A m \in Node : y \notin Cmds(requestsIn'[m])
    <3>1. TAKE d \in 1 .. Len(conns')
    <3>2. TAKE y \in Cmds(conns'[d].toSrv)
    <3>3. d \in 1 .. Len(conns) /\ d # c /\ y \in Cmds(conns[d].toSrv)
      BY <1>8
    <3>4. y # v.cmd /\ \A m \in Node : y \notin Cmds(requestsIn[m])
      BY <1>7, <3>3 DEF Apart
    <3> QED BY <1>9, <3>4
  <2>4. log' = log /\ NoRepeat(log)
    BY DEF Apart
  <2> QED BY <1>9, <2>1, <2>2, <2>3, <2>4 DEF Apart
<1>11. ASSUME Nowhere(asked), asked' = asked
       PROVE  Nowhere(asked)'
  <2>1. v.cmd # asked
    BY <1>11 DEF Nowhere
  <2> QED BY <1>8, <1>9, <1>11, <2>1 DEF Nowhere
<1> QED BY <1>10, <1>11

\* The oldest command of n is decided.
LEMMA ApartDecided ==
    ASSUME Types, Apart, NEW n \in Node, requestsIn[n] # <<>>, NEW e \in Command,
           e.cmd = Head(requestsIn[n]).cmd, log' = Append(log, e),
           requestsIn' = [requestsIn EXCEPT ![n] = Tail(@)], UNCHANGED <<conns, asked>>
    PROVE  Apart' /\ (Nowhere(asked) /\ asked' = asked => Nowhere(asked)')
<1>1. requestsIn \in [Node -> Seq(Command)] /\ requestsIn[n] \in Seq(Command) /\ log \in Seq(Command)
  BY DEF Types, ServiceTypes
<1>2. PICK q : q = requestsIn[n]
  OBVIOUS
<1>3. /\ NoRepeat(Tail(q)) /\ Cmds(Tail(q)) \subseteq Cmds(q)
      /\ e.cmd \in Cmds(q) /\ e.cmd \notin Cmds(Tail(q))
  BY <1>1, <1>2, TailCmds DEF Apart
<1>4. e.cmd \notin Cmds(log)
  BY <1>2, <1>3 DEF Apart
<1>5. NoRepeat(log') /\ Cmds(log') = Cmds(log) \cup {e.cmd}
  BY <1>1, <1>4, AppendedCmds DEF Apart
<1>6. /\ requestsIn'[n] = Tail(q)
      /\ \A m \in Node : m # n => requestsIn'[m] = requestsIn[m]
  BY <1>1, <1>2
<1>7. \A m \in Node : /\ NoRepeat(requestsIn'[m])
                      /\ Cmds(requestsIn'[m]) \subseteq Cmds(requestsIn[m])
                      /\ e.cmd \notin Cmds(requestsIn'[m])
  <2>1. TAKE m \in Node
  <2>2. CASE m = n
    BY <1>2, <1>3, <1>6, <2>2
  <2>3. CASE m # n
    BY <1>2, <1>3, <1>6, <2>3 DEF Apart
  <2> QED BY <2>2, <2>3
<1>8. \A c \in 1 .. Len(conns) : e.cmd \notin Cmds(conns[c].toSrv)
  BY <1>2, <1>3 DEF Apart
<1>9. Apart'
  <2>1. \A m \in Node : \A y \in Cmds(requestsIn'[m]) :
           y \notin Cmds(log') /\ \A k \in Node : y \in Cmds(requestsIn'[k]) => k = m
    BY <1>5, <1>7 DEF Apart
  <2>2. \A c \in 1 .. Len(conns') : \A y \in Cmds(conns'[c].toSrv) :
           /\ y \notin Cmds(log') /\ \A m \in Node : y \notin Cmds(requestsIn'[m])
           /\ \A b \in 1 .. Len(conns') : y \in Cmds(conns'[b].toSrv) => b = c
    <3>1. TAKE c \in 1 .. Len(conns')
    <3>2. TAKE y \in Cmds(conns'[c].toSrv)
    <3>3. c \in 1 .. Len(conns) /\ y \in Cmds(conns[c].toSrv) /\ conns' = conns
      OBVIOUS
    <3>4. /\ y \notin Cmds(log) /\ \A m \in Node : y \notin Cmds(requestsIn[m])
          /\ \A b \in 1 .. Len(conns) : y \in Cmds(conns[b].toSrv) => b = c
      BY <3>3 DEF Apart
    <3>5. y # e.cmd
      BY <1>8, <3>3
    <3> QED BY <1>5, <1>7, <3>3, <3>4, <3>5
  <2> QED BY <1>5, <1>7, <2>1, <2>2 DEF Apart
<1>10. Nowhere(asked) => Nowhere(asked)'
  <2>1. ASSUME Nowhere(asked)
        PROVE  asked # e.cmd
    BY <1>2, <1>3, <2>1 DEF Nowhere
  <2> QED BY <1>5, <1>7, <2>1 DEF Nowhere
<1> QED BY <1>9, <1>10

\* A command that is typed next is nowhere yet.
LEMMA NextIsNowhere ==
    ASSUME Types
    PROVE  Nowhere(asked + 1)
<1>1. asked \in Nat /\ log \in Seq(Command) /\ requestsIn \in [Node -> Seq(Command)]
  BY MaxCmdsType DEF Types, MainTypes, ServiceTypes
<1>2. \A c \in 1 .. Len(conns) : conns[c].toSrv \in Seq(Command)
  <2>1. conns \in Seq(Connection)
    BY DEF Types, ServiceTypes
  <2>2. \A c \in 1 .. Len(conns) : conns[c] \in Connection
    BY <2>1, ElementOfSeq
  <2> QED BY <2>2 DEF Connection
<1>3. \A s \in Seq(Command) : asked + 1 \notin Cmds(s)
  BY <1>1, CmdsWereTyped
<1> QED BY <1>1, <1>2, <1>3 DEF Nowhere

-----------------------------------------------------------------------------
\* The steps together.

Sole == kind # "web" /\ ~overrun => OneSender /\ OnePlace

Inv == Types /\ ConnOpen /\ Sole

\* Nobody gets the right to send, and no command moves.
LEMMA QuietSole ==
    ASSUME Types, Types', Sole, Fade, sending' <= sending, UNCHANGED <<asked, requestsIn, log>>,
           kind' = kind, overrun' = (overrun \/ (main = "take" /\ main' = "signal" /\ StillToSend)),
           \A d \in Asker : Asks(d)' => Asks(d),
           main' \in {"start", "signal"} => main' = main \/ (main = "take" /\ main' = "signal")
    PROVE  Sole'
<1>1. SUFFICES ASSUME kind' # "web", ~overrun'
               PROVE  OneSender' /\ OnePlace'
  BY DEF Sole
<1>2. OneSender /\ OnePlace
  BY <1>1 DEF Sole
<1>3. (main' \in {"start", "signal"} => main' = main) \/ ~StillToSend
  BY <1>1
<1>4. OneSender' /\ (Waiting' => Waiting)
  BY <1>2, <1>3, QuietSender
<1>5. Apart' /\ \A x : Nowhere(x) => Nowhere(x)'
  BY <1>2, FadeFacts, ApartStays DEF OnePlace
<1>6. Nowhere(asked) => Nowhere(asked)'
  <2>1. PICK x : x = asked
    OBVIOUS
  <2>2. Nowhere(x) => Nowhere(x)'
    BY <1>5
  <2> QED BY <2>1, <2>2 DEF Nowhere
<1> QED BY <1>2, <1>4, <1>5, <1>6 DEF OnePlace

\* The same, as far as commands are concerned.
LEMMA FadePlace ==
    ASSUME Types, Types', OnePlace, Fade, UNCHANGED <<asked, requestsIn, log>>,
           Waiting' => Waiting
    PROVE  OnePlace'
<1>1. Apart' /\ \A x : Nowhere(x) => Nowhere(x)'
  BY FadeFacts, ApartStays DEF OnePlace
<1>2. Nowhere(asked) => Nowhere(asked)'
  <2>1. PICK x : x = asked
    OBVIOUS
  <2>2. Nowhere(x) => Nowhere(x)'
    BY <1>1
  <2> QED BY <2>1, <2>2 DEF Nowhere
<1> QED BY <1>1, <1>2 DEF OnePlace

LEMMA ServerInv ==
    ASSUME Inv, UNCHANGED clientVars,
           \/ ServerStep
           \/ \E n \in Node : Elect(n) \/ Crash(n)
    PROVE  Inv'
<1>1. Types /\ ServiceTypes /\ Sole /\ conns \in Seq(Connection) /\ Conn \cap DOMAIN conns \subseteq 1 .. Len(conns)
  BY LenProperties DEF Inv, Types, ServiceTypes
<1>2. /\ UNCHANGED <<kind, main, asked, sending, dial, conn, overrun>>
      /\ overrun \in BOOLEAN
  BY <1>1 DEF clientVars, connVars, Types, MainTypes
<1>3. ConnOpen'
  <2>1. \A b \in 1 .. Len(conns) : conns'[b].open = conns[b].open
    BY <1>1, ServerOpen
  <2>2. conn \in 0 .. Len(conns) /\ Len(conns) \in Nat
    BY <1>1, LenProperties DEF Types, ReadTypes
  <2> QED BY <1>2, <2>1, <2>2 DEF ConnOpen, NoConn, Inv
<1>4. ASSUME ServiceAfter
      PROVE  Types'
  BY <1>1, <1>2, <1>4, ServerSteps, NextTypes
<1>5. \A d \in Asker : Asks(d)' <=> Asks(d)
  BY <1>2 DEF Asks
<1>6. /\ overrun' = (overrun \/ (main = "take" /\ main' = "signal" /\ StillToSend))
      /\ sending' <= sending
      /\ main' \in {"start", "signal"} => main' = main
  BY <1>1, <1>2 DEF Types, MainTypes
<1>7. ASSUME ServiceAfter, Fade, UNCHANGED <<requestsIn, log>>
      PROVE  Inv'
  BY <1>1, <1>2, <1>3, <1>4, <1>5, <1>6, <1>7, QuietSole DEF Inv
<1>8. ASSUME ServiceAfter, kind # "web" /\ ~overrun => OneSender' /\ OnePlace'
      PROVE  Inv'
  BY <1>2, <1>3, <1>4, <1>8 DEF Inv, Sole
<1>9. ASSUME OneSender, OnePlace, ServiceAfter, Fade
      PROVE  OneSender' /\ (Waiting' => Waiting)
  BY <1>1, <1>2, <1>4, <1>5, <1>6, <1>9, QuietSender
<1>10. ASSUME NEW n \in Node, Elect(n)
       PROVE  Inv'
  BY <1>1, <1>7, <1>10, ElectTypes DEF Elect, logVars
<1>11. ASSUME NEW n \in Node, Crash(n)
       PROVE  Inv'
  BY <1>1, <1>7, <1>11, CrashTypes DEF Crash, logVars
<1>12. ASSUME NEW n \in Node, TakeLeader(n)
       PROVE  Inv'
  BY <1>1, <1>7, <1>12, TakeLeaderTypes DEF TakeLeader, logVars
<1>13. ASSUME NEW n \in Node, srvHandleDecidedValue(n)
       PROVE  Inv'
  BY <1>1, <1>7, <1>13, AppliedTypes DEF srvHandleDecidedValue, Types, MainTypes
<1>14. ASSUME NEW c \in Conn, CloseRedirected(c) \/ RecvEOF(c)
       PROVE  Inv'
  <2>1. c \in 1 .. Len(conns) /\ CloseConn(c)
    BY <1>1, <1>14 DEF CloseRedirected, RecvEOF
  <2> QED BY <1>1, <1>7, <2>1, CloseConnTypes DEF CloseConn, logVars
<1>15. ASSUME NEW n \in Node, Decide(n)
       PROVE  Inv'
  <2>1. ServiceAfter /\ Fade
    BY <1>1, <1>15, DecideTypes
  <2>2. PICK e \in Command : e.cmd = Head(requestsIn[n]).cmd /\ log' = Append(log, e)
    BY <1>1, <1>15, DecideTypes
  <2>3. ASSUME OneSender, OnePlace
        PROVE  OneSender' /\ OnePlace'
    <3>1. OneSender' /\ (Waiting' => Waiting)
      BY <1>9, <2>1, <2>3
    <3>2. Apart' /\ (Nowhere(asked) /\ asked' = asked => Nowhere(asked)')
      BY <1>1, <1>2, <1>15, <2>2, <2>3, ApartDecided DEF Decide, OnePlace
    <3> QED BY <1>2, <2>3, <3>1, <3>2 DEF OnePlace
  <2> QED BY <1>1, <1>8, <2>1, <2>3 DEF Sole
<1>16. ASSUME NEW c \in Conn, srvRecvExtClMsg(c)
       PROVE  Inv'
  <2>1. c \in 1 .. Len(conns) /\ conns[c].srvPc = "recv" /\ conns[c].toSrv # <<>>
        /\ UNCHANGED <<nodeVars, extClAddrConn, log, adu>>
    BY <1>1, <1>16 DEF srvRecvExtClMsg
  <2>2. PICK n, s : n = conns[c].node /\ s = conns[c].toSrv
    OBVIOUS
  <2>3. ASSUME NEW rest \in AfterDecode(s), conns' = [conns EXCEPT ![c].toSrv = rest],
               DeliverClientValue(n, Head(s), Cmds(Tail(s)) \ Cmds(rest))
        PROVE  Inv'
    <3>1. /\ ServiceAfter /\ n \in Node /\ s \in Seq(Command)
          /\ Len(s) <= 1 => Fade /\ conns'[c].toSrv = <<>>
      BY <1>1, <2>1, <2>2, <2>3, PassOnTypes
    <3>2. Head(s) \in Command /\ Head(s).cmd \in Cmds(s)
      BY <2>1, <2>2, <3>1, TailCmds
    <3>3. ASSUME OneSender, OnePlace
          PROVE  OneSender' /\ OnePlace'
      <4>1. Fade /\ conns'[c].toSrv = <<>>
        BY <2>1, <2>2, <3>1, <3>3 DEF OneSender
      <4>2. OneSender' /\ (Waiting' => Waiting)
        BY <1>9, <3>1, <3>3, <4>1
      <4>3. CASE UNCHANGED requestsIn
        BY <1>1, <1>2, <1>4, <2>1, <3>1, <3>3, <4>1, <4>2, <4>3, FadePlace
      <4>4. CASE requestsIn' = [requestsIn EXCEPT ![n] = Append(@, Head(s))]
        <5>1. \A b \in 1 .. Len(conns') :
                 \/ conns'[b].toSrv = <<>>
                 \/ b \in 1 .. Len(conns) /\ conns'[b].toSrv = conns[b].toSrv
          BY <1>1, <1>4, <3>1, <4>1, FadeFacts
        <5>2. Apart' /\ (Nowhere(asked) /\ asked' = asked => Nowhere(asked)')
          BY <1>1, <2>1, <2>2, <3>1, <3>2, <3>3, <4>1, <4>4, <5>1, ApartTaken DEF OnePlace
        <5> QED BY <1>2, <3>3, <4>2, <5>2 DEF OnePlace
      <4> QED BY <2>3, <4>3, <4>4 DEF DeliverClientValue
    <3> QED BY <1>1, <1>8, <3>1, <3>3 DEF Sole
  <2>4. ASSUME NEW l \in Node, Redirect(c, l), UNCHANGED <<requestsIn, lost>>
        PROVE  Inv'
    <3>1. /\ ServiceAfter
          /\ conns'[c].open = conns[c].open /\ conns'[c].broken = conns[c].broken
          /\ conns'[c].toSrv = Tail(conns[c].toSrv) /\ conns[c].toSrv \in Seq(Command)
          /\ \A b \in 1 .. Len(conns) : b # c => conns'[b] = conns[b]
      BY <1>1, <2>1, <2>4, RedirectTypes DEF logVars
    <3>2. Len(conns') = Len(conns) /\ Types'
      BY <1>4, <3>1 DEF ServiceAfter
    <3>3. ASSUME OneSender, OnePlace
          PROVE  OneSender' /\ OnePlace'
      <4>1. /\ OneSender' /\ conns'[c].toSrv = <<>>
            /\ Waiting' => Waiting \/ Cmds(conns[c].toSrv) = {asked}
        BY <1>1, <1>2, <2>1, <3>1, <3>2, <3>3, AnsweredSender
      <4>2. \A b \in 1 .. Len(conns') :
               \/ conns'[b].toSrv = <<>>
               \/ b \in 1 .. Len(conns) /\ b # c /\ conns'[b].toSrv = conns[b].toSrv
        BY <3>1, <3>2, <4>1
      <4>3. Apart' /\ \A x : Nowhere(x) => Nowhere(x)'
        BY <2>1, <2>4, <3>3, <4>2, ApartStays DEF OnePlace
      <4>4. PICK x : x = asked
        OBVIOUS
      <4>5. CASE Waiting
        <5>1. Nowhere(x)'
          BY <3>3, <4>3, <4>4, <4>5 DEF OnePlace
        <5> QED BY <1>2, <4>1, <4>3, <4>4, <5>1 DEF OnePlace, Nowhere
      <4>6. CASE Cmds(conns[c].toSrv) = {asked}
        <5>1. /\ asked \notin Cmds(log) /\ \A m \in Node : asked \notin Cmds(requestsIn[m])
              /\ \A b \in 1 .. Len(conns) : b # c => asked \notin Cmds(conns[b].toSrv)
          BY <2>1, <3>3, <4>6 DEF OnePlace, Apart
        <5>2. \A b \in 1 .. Len(conns') : asked \notin Cmds(conns'[b].toSrv)
          BY <4>2, <5>1, EmptyCmds
        <5> QED BY <1>2, <2>1, <2>4, <4>1, <4>3, <5>1, <5>2 DEF OnePlace, Nowhere
      <4>7. CASE ~Waiting'
        BY <4>1, <4>3, <4>7 DEF OnePlace
      <4> QED BY <4>1, <4>5, <4>6, <4>7
    <3> QED BY <1>1, <1>8, <3>1, <3>3 DEF Sole
  <2> QED BY <1>16, <2>2, <2>3, <2>4 DEF srvRecvExtClMsg
<1> QED BY <1>10, <1>11, <1>12, <1>13, <1>14, <1>15, <1>16 DEF ServerStep

LEMMA DialerInv ==
    ASSUME Inv, NEW d \in Dialer, clConnToServer(d), ConnOpen',
           overrun' = (overrun \/ (main = "take" /\ main' = "signal" /\ StillToSend))
    PROVE  Inv'
<1>1. Types /\ Sole /\ overrun \in BOOLEAN
  BY DEF Inv, Types, MainTypes
<1>2. /\ kind' = kind /\ asked' = asked
      /\ main' \in {main, "exited"} /\ UNCHANGED <<requestsIn, log>>
  BY DEF clConnToServer, GiveUp, Exit, DialHead, DialReturns, DialFails, DialSucceeds, DialEnds,
         serviceVars, logVars
<1>3. overrun' = overrun
  BY <1>1, <1>2
<1>4. ASSUME Types', Fade, sending' <= sending, \A e \in Asker : Asks(e)' => Asks(e)
      PROVE  Inv'
  <2>1. main' \in {"start", "signal"} => main' = main \/ (main = "take" /\ main' = "signal")
    BY <1>2
  <2>2. Sole'
    BY <1>1, <1>2, <1>4, <2>1, QuietSole
  <2> QED BY <1>4, <2>2 DEF Inv
<1>5. ASSUME ClientAfter
      PROVE  Types'
  BY <1>1, <1>3, <1>5, NextTypes
<1>6. sending \in Nat /\ sending <= sending
  BY <1>1 DEF Types, MainTypes
<1>7. ASSUME NEW p, NEW w, dial' = [dial EXCEPT ![d] = [pc |-> p, with |-> w]],
             p \notin {"type", "loop", "dial"} \/ dial[d].pc \in {"loop", "dial"}
      PROVE  \A e \in Asker : Asks(e)' => Asks(e)
  <2>1. TAKE e \in Asker
  <2>2. DOMAIN dial = Dialer /\ e \in Dialer
    BY <1>1 DEF Types, DialTypes, Asker, Dialer
  <2>3. CASE e = d
    <3>1. dial'[e].pc = p
      BY <1>7, <2>2, <2>3
    <3> QED BY <1>7, <2>3, <3>1 DEF Asks
  <2>4. CASE e # d
    <3>1. dial'[e] = dial[e]
      BY <1>7, <2>2, <2>4
    <3> QED BY <3>1 DEF Asks
  <2> QED BY <2>3, <2>4
<1>8. CASE GiveUp(d)
  <2>1. ClientAfter /\ Fade
    BY <1>1, <1>8, GiveUpTypes
  <2>2. UNCHANGED <<sending, dial>>
    BY <1>8 DEF GiveUp, connVars
  <2> QED BY <1>4, <1>5, <1>6, <2>1, <2>2 DEF Asks
<1>9. CASE ~GiveUp(d)
  <2>1. UNCHANGED <<kind, main, seqNum, asked, msgClIn, answered>>
    BY <1>9 DEF clConnToServer
  <2>2. CASE DialHead(d)
    <3>1. ClientAfter /\ Fade
      BY <1>1, <2>1, <2>2, DialHeadTypes
    <3>2. sending' = sending /\ \E p, w : dial' = [dial EXCEPT ![d] = [pc |-> p, with |-> w]]
      BY <2>2 DEF DialHead, DialFails
    <3>3. dial[d].pc = "loop"
      BY <2>2 DEF DialHead
    <3> QED BY <1>4, <1>5, <1>6, <1>7, <3>1, <3>2, <3>3
  <2>3. CASE DialReturns(d)
    <3>1. dial[d].pc = "dial" /\ dial[d].with \in Node
      BY <1>1, <2>3 DEF DialReturns, Types, DialTypes
    <3>2. sending' = sending /\ dial' = [dial EXCEPT ![d] = [pc |-> "loop", with |-> NoNode]]
      BY <2>3 DEF DialReturns, DialFails, DialSucceeds
    <3>3. \A e \in Asker : Asks(e)' => Asks(e)
      BY <1>7, <3>1, <3>2
    <3>4. Types' /\ Fade
      <4>1. CASE DialSucceeds(d)
        BY <1>1, <1>3, <2>1, <3>1, <4>1, DialSucceedsTypes
      <4>2. CASE DialFails(d, dial[d].with)
        BY <1>1, <1>5, <2>1, <3>1, <4>2, DialFailsTypes
      <4> QED BY <2>3, <4>1, <4>2 DEF DialReturns
    <3> QED BY <1>4, <1>6, <3>2, <3>3, <3>4
  <2>4. CASE DialEnds(d)
    <3>1. Types' /\ Fade
      BY <1>1, <1>5, <2>1, <2>4, DialEndsTypes
    <3>2. dial[d].pc = "loop"
      BY <2>4 DEF DialEnds
    <3>3. CASE sending' = sending
      <4>1. \/ dial' = [dial EXCEPT ![d] = [pc |-> "stop", with |-> NoNode]]
            \/ dial' = [dial EXCEPT ![d] = [pc |-> "idle", with |-> NoNode]]
        BY <2>4 DEF DialEnds, Idle
      <4> QED BY <1>4, <1>6, <1>7, <3>1, <3>2, <3>3, <4>1
    <3>4. CASE sending' # sending
      <4>1. d \in Asker /\ sending' = sending + 1 /\ dial' = [dial EXCEPT ![d] = Idle]
        BY <2>4, <3>4 DEF DialEnds, Asker, Dialer
      <4>2. Asks(d)
        BY <3>2 DEF Asks
      <4>3. ASSUME OneSender, OnePlace
            PROVE  OneSender' /\ OnePlace'
        <5>1. OneSender' /\ (Waiting' => Waiting)
          BY <1>1, <1>2, <2>1, <3>1, <4>1, <4>2, <4>3, DialSender
        <5> QED BY <1>1, <1>2, <3>1, <4>3, <5>1, FadePlace
      <4> QED BY <1>1, <1>2, <1>3, <3>1, <4>3 DEF Inv, Sole
    <3> QED BY <3>3, <3>4
  <2> QED BY <1>9, <2>2, <2>3, <2>4 DEF clConnToServer
<1> QED BY <1>8, <1>9

LEMMA SendInv ==
    ASSUME Inv, Send, main # "exited", ConnOpen',
           overrun' = (overrun \/ (main = "take" /\ main' = "signal" /\ StillToSend))
    PROVE  Inv'
<1>1. Types /\ Sole /\ overrun \in BOOLEAN /\ sending \in Nat /\ conns \in Seq(Connection)
  BY DEF Inv, Types, MainTypes, ServiceTypes
<1>2. /\ UNCHANGED <<kind, asked, main, requestsIn, log, dial, conn>>
      /\ sending > 0 /\ sending' = sending - 1
  BY DEF Send, logVars, connVars
<1>3. overrun' = overrun
  BY <1>1, <1>2
<1>4. kind \in {"console", "gui"} /\ ~overrun => main # "signal"
  BY <1>1, <1>2, StillToSendIs DEF Sole, OneSender
<1>5. ClientAfter
  BY <1>1, <1>4, SendTypes
<1>6. Types'
  BY <1>1, <1>3, <1>5, NextTypes
<1>7. CASE Fade
  <2>1. \A d \in Asker : Asks(d)' => Asks(d)
    BY <1>2 DEF Asks
  <2>2. sending' <= sending
    BY <1>1, <1>2
  <2>3. Sole'
    BY <1>1, <1>2, <1>6, <1>7, <2>1, <2>2, QuietSole
  <2> QED BY <1>6, <2>3 DEF Inv
<1>8. CASE ~Fade
  <2>1. PICK c \in 1 .. Len(conns), val \in Command :
           /\ val.cmd = asked /\ c = conn /\ ~conns[c].broken
           /\ conns[c].toSrv \in Seq(Command)
           /\ conns'[c].toSrv = Append(conns[c].toSrv, val)
           /\ conns'[c].toCl = conns[c].toCl
           /\ conns'[c].open = conns[c].open /\ conns'[c].broken = conns[c].broken
           /\ \A b \in 1 .. Len(conns) : b # c => conns'[b] = conns[b]
    BY <1>1, <1>4, <1>8, SendTypes
  <2>2. Open(c)
    <3>1. Len(conns) \in Nat
      BY <1>1, LenProperties
    <3>2. conn # NoConn
      BY <2>1, <3>1 DEF NoConn
    <3>3. conns[conn].open
      BY <3>2 DEF Inv, ConnOpen
    <3> QED BY <2>1, <3>3 DEF Open
  <2>3. Len(conns') = Len(conns)
    BY <1>5 DEF ClientAfter, ServiceAfter
  <2>4. ASSUME OneSender, OnePlace
        PROVE  OneSender' /\ OnePlace'
    <3>1. OneSender' /\ ~Waiting'
      BY <1>1, <1>2, <1>6, <2>1, <2>2, <2>3, <2>4, SentSender
    <3>2. Nowhere(asked)
      BY <1>2, <2>4 DEF OnePlace, Waiting
    <3>3. Cmds(conns'[c].toSrv) \subseteq {asked}
      <4>1. conns[c].toSrv = <<>>
        BY <1>2, <2>1, <2>2, <2>4, MayReturnIs DEF OneSender
      <4>2. PICK s : s = conns[c].toSrv
        OBVIOUS
      <4>3. Cmds(s) = {} /\ Cmds(Append(s, val)) = Cmds(s) \cup {val.cmd}
        <5>1. s \in Seq(Command)
          BY <2>1, <4>2
        <5>2. Cmds(s) = {}
          BY <4>1, <4>2, EmptyCmds
        <5>3. Cmds(Append(s, val)) = Cmds(s) \cup {val.cmd}
          BY <5>1, AppendedCmds
        <5> QED BY <5>2, <5>3
      <4>4. Cmds(Append(s, val)) = {asked}
        BY <2>1, <4>3
      <4> QED BY <2>1, <4>2, <4>4
    <3>4. PICK x : x = asked
      OBVIOUS
    <3>5. Nowhere(x) /\ Cmds(conns'[c].toSrv) \subseteq {x}
      BY <3>2, <3>3, <3>4
    <3>6. Apart'
      BY <1>2, <2>1, <2>3, <2>4, <3>5, ApartSent DEF OnePlace
    <3> QED BY <3>1, <3>6 DEF OnePlace
  <2> QED BY <1>1, <1>2, <1>3, <1>6, <2>4 DEF Inv, Sole
<1> QED BY <1>7, <1>8

LEMMA InputInv ==
    ASSUME Inv, ConnOpen',
           \/ kind \in {"console", "gui"} /\ GetUsrInput
           \/ kind = "benchmark" /\ GetUsrInputBenchmark
           \/ kind = "web" /\ ReadPump,
           overrun' = (overrun \/ (main = "take" /\ main' = "signal" /\ StillToSend))
    PROVE  Inv'
<1>1. Types /\ Sole /\ overrun \in BOOLEAN /\ sending \in Nat
  BY DEF Inv, Types, MainTypes
<1>2. ClientAfter /\ Fade
  BY <1>1, InputTypes
<1>3. Types'
  BY <1>1, <1>2, NextTypes
<1>4. /\ kind' = kind /\ UNCHANGED <<requestsIn, log>> /\ (overrun => overrun')
      /\ overrun' \in BOOLEAN
  BY <1>1 DEF GetUsrInput, GetUsrInputBenchmark, ReadPump, serviceVars, logVars
<1>5. CASE /\ asked' = asked + 1 /\ InputAt("type") /\ sending' = sending
           /\ main \in {"start", "signal"} /\ main' \in {"take", "count"}
  <2>1. ASSUME kind # "web", ~overrun
        PROVE  OneSender' /\ OnePlace'
    <3>1. OneSender /\ OnePlace
      BY <1>1, <2>1 DEF Sole
    <3>2. OneSender'
      BY <1>1, <1>2, <1>3, <1>5, <3>1, AskedSender
    <3>4. Apart' /\ \A x : Nowhere(x) => Nowhere(x)'
      BY <1>1, <1>2, <1>3, <1>4, <3>1, FadeFacts, ApartStays DEF OnePlace
    <3>5. PICK x : x = asked + 1
      OBVIOUS
    <3>6. Nowhere(x)'
      BY <1>1, <3>4, <3>5, NextIsNowhere
    <3>7. Nowhere(asked)'
      BY <1>5, <3>5, <3>6 DEF Nowhere
    <3> QED BY <3>2, <3>4, <3>7 DEF OnePlace
  <2> QED BY <1>1, <1>3, <1>4, <2>1 DEF Inv, Sole
<1>6. ASSUME UNCHANGED <<asked, sending>>, \A d \in Asker : Asks(d)' => Asks(d),
             main' \notin {"start", "signal"} \/ main' = main
      PROVE  Inv'
  <2>1. sending' <= sending
    BY <1>1, <1>6
  <2>2. Sole'
    BY <1>1, <1>2, <1>3, <1>4, <1>6, <2>1, QuietSole
  <2> QED BY <1>3, <2>2 DEF Inv
<1>7. ASSUME NEW p, InputAt(p), p \in {"blank", "loop"}, p = "loop" => Asks("input")
      PROVE  \A d \in Asker : Asks(d)' => Asks(d)
  <2>1. TAKE d \in Asker
  <2>2. CASE d = "input"
    <3>1. dial'[d].pc = p
      BY <1>1, <1>7, <2>2 DEF InputAt, Types, DialTypes, Dialer
    <3> QED BY <1>7, <2>2, <3>1 DEF Asks
  <2>3. CASE d # "input"
    <3>1. dial'[d] = dial[d]
      BY <1>1, <2>3, <1>7 DEF InputAt, Types, DialTypes, Asker, Dialer
    <3> QED BY <3>1 DEF Asks
  <2> QED BY <2>2, <2>3
<1>8. CASE InputAt("blank") /\ main' \in {"take", "count"} /\ UNCHANGED <<asked, sending>>
  BY <1>6, <1>7, <1>8
<1>9. CASE EndTyping
  <2>1. SendTyped /\ UNCHANGED <<main, asked>> /\ Asks("input")
    BY <1>9 DEF EndTyping, Asks
  <2>2. CASE conn = NoConn
    <3>1. InputAt("loop") /\ sending' = sending
      BY <2>1, <2>2 DEF SendTyped, Connect, InputAt
    <3> QED BY <1>6, <1>7, <2>1, <3>1
  <2>3. CASE conn # NoConn
    <3>1. dial' = [dial EXCEPT !["input"] = Idle] /\ sending' = sending + 1 /\ "input" \in Asker
      BY <2>1, <2>3 DEF SendTyped, Asker
    <3>2. ASSUME OneSender, OnePlace
          PROVE  OneSender' /\ OnePlace'
      <4>1. OneSender' /\ (Waiting' => Waiting)
        BY <1>1, <1>2, <1>3, <2>1, <3>1, <3>2, DialSender
      <4> QED BY <1>1, <1>2, <1>3, <1>4, <2>1, <3>2, <4>1, FadePlace
    <3> QED BY <1>1, <1>3, <1>4, <3>2 DEF Inv, Sole
  <2> QED BY <2>2, <2>3
<1>10. CASE kind = "web"
  BY <1>1, <1>3, <1>4, <1>10 DEF Inv, Sole
<1> QED BY <1>1, <1>5, <1>8, <1>9, <1>10, InputTypes

LEMMA TakeInv ==
    ASSUME Inv, ConnOpen',
           \/ kind \in {"console", "gui"} /\ TakeResult
           \/ kind = "benchmark" /\ TakeResultBenchmark
           \/ kind = "web" /\ WritePumpResult,
           overrun' = (overrun \/ (main = "take" /\ main' = "signal" /\ StillToSend))
    PROVE  Inv'
<1>1. Types /\ Sole /\ overrun \in BOOLEAN /\ sending \in Nat
  BY DEF Inv, Types, MainTypes
<1>2. ClientAfter /\ Fade /\ (main' \in {"start", "signal"} => main' = main \/
                                 (main = "take" /\ main' = "signal"))
  BY <1>1, TakeTypes
<1>3. overrun' \in BOOLEAN /\ (overrun => overrun')
  BY <1>1
<1>4. Types'
  BY <1>1, <1>2, <1>3, NextTypes
<1>5. UNCHANGED <<kind, asked, requestsIn, log, dial, sending>>
  BY DEF TakeResult, TakeResultBenchmark, WritePumpResult, Count, serviceVars, logVars, connVars
<1>6. \A d \in Asker : Asks(d)' => Asks(d)
  BY <1>5 DEF Asks
<1>7. sending' <= sending
  BY <1>1, <1>5
<1>8. Sole'
  BY <1>1, <1>2, <1>4, <1>5, <1>6, <1>7, QuietSole
<1> QED BY <1>4, <1>8 DEF Inv

LEMMA ReadingInv ==
    ASSUME Inv, ConnOpen', NEW k \in DOMAIN reads, clHandleIncomingMsg(k),
           overrun' = (overrun \/ (main = "take" /\ main' = "signal" /\ StillToSend))
    PROVE  Inv'
<1>1. Types /\ Sole /\ overrun \in BOOLEAN /\ sending \in Nat /\ DOMAIN dial = Dialer
  BY DEF Inv, Types, MainTypes, DialTypes
<1>2. /\ UNCHANGED <<kind, asked, requestsIn, log, sending>>
      /\ main' \in {main, "exited"}
  BY DEF clHandleIncomingMsg, PickUp, HandleResult, HandleRedirect, HandleEOF, HandleClosed,
         Disconnect, Exit, serviceVars, logVars
<1>3. overrun' = overrun /\ sending' <= sending
  BY <1>1, <1>2
<1>4. ASSUME ClientAfter
      PROVE  Types'
  BY <1>1, <1>3, <1>4, NextTypes
<1>5. ASSUME ClientAfter, Fade, \A d \in Asker : Asks(d)' => Asks(d)
      PROVE  Inv'
  <2>1. main' \in {"start", "signal"} => main' = main \/ (main = "take" /\ main' = "signal")
    BY <1>2
  <2>2. Sole'
    BY <1>1, <1>2, <1>3, <1>4, <1>5, <2>1, QuietSole
  <2> QED BY <1>4, <1>5, <2>2 DEF Inv
<1>6. CASE PickUp(k) \/ HandleClosed(k)
  <2>1. ClientAfter /\ Fade
    BY <1>1, <1>6, PickUpTypes
  <2>2. UNCHANGED dial
    BY <1>6 DEF PickUp, HandleClosed
  <2> QED BY <1>5, <2>1, <2>2 DEF Asks
<1>7. CASE HandleResult(k)
  <2>1. ClientAfter /\ Fade
    BY <1>1, <1>7, HandleResultTypes
  <2>2. UNCHANGED dial
    BY <1>7 DEF HandleResult
  <2> QED BY <1>5, <2>1, <2>2 DEF Asks
<1>8. CASE HandleEOF(k)
  <2>1. /\ ClientAfter /\ Fade
        /\ UNCHANGED dial \/ dial' = [dial EXCEPT !["eof"] = [pc |-> "loop", with |-> NoNode]]
    BY <1>1, <1>8, HandleEOFTypes
  <2>2. \A d \in Asker : dial'[d] = dial[d]
    BY <1>1, <2>1 DEF Asker, Dialer
  <2>3. \A d \in Asker : Asks(d)' => Asks(d)
    BY <2>2 DEF Asks
  <2> QED BY <1>5, <2>1, <2>3
<1>9. CASE HandleRedirect(k)
  <2>1. /\ ClientAfter /\ Fade
        /\ \/ UNCHANGED dial
           \/ \E b \in 1 .. Len(conns) :
                 /\ Open(b) /\ Redirected(b)
                 /\ ~Redirected(b)' /\ conns'[b].toSrv = conns[b].toSrv
                 /\ dial' = [dial EXCEPT !["redirect"] = [pc |-> "loop", with |-> NoNode]]
    BY <1>1, <1>9, HandleRedirectTypes
  <2>2. CASE UNCHANGED dial
    BY <1>5, <2>1, <2>2 DEF Asks
  <2>3. ASSUME NEW b \in 1 .. Len(conns), Open(b), Redirected(b),
               ~Redirected(b)', conns'[b].toSrv = conns[b].toSrv,
               dial' = [dial EXCEPT !["redirect"] = [pc |-> "loop", with |-> NoNode]]
        PROVE  Inv'
    <3>1. ASSUME OneSender, OnePlace
          PROVE  OneSender' /\ OnePlace'
      <4>1. OneSender' /\ (Waiting' => Waiting)
        BY <1>1, <1>2, <1>4, <2>1, <2>3, <3>1, RedirectedSender
      <4> QED BY <1>1, <1>2, <1>4, <2>1, <3>1, <4>1, FadePlace
    <3> QED BY <1>1, <1>2, <1>3, <1>4, <2>1, <3>1 DEF Inv, Sole
  <2> QED BY <2>1, <2>2, <2>3
<1> QED BY <1>6, <1>7, <1>8, <1>9 DEF clHandleIncomingMsg

LEMMA ClientInv ==
    ASSUME Inv, ClientStep
    PROVE  Inv'
<1>1. /\ main # "exited" /\ ConnOpen'
      /\ overrun' = (overrun \/ (main = "take" /\ main' = "signal" /\ StillToSend))
  BY ClientOpen DEF ClientStep, Inv
<1>2. kind \in {"console", "gui", "benchmark", "web"}
  BY ClientAssumption DEF Inv, Types, MainTypes
<1>3. ASSUME Connecting \/ Send \/ Reading
      PROVE  Inv'
  BY <1>1, <1>3, DialerInv, SendInv, ReadingInv DEF Connecting, Reading
<1>4. ASSUME \/ kind \in {"console", "gui"} /\ (GetUsrInput \/ TakeResult)
             \/ kind = "benchmark" /\ (GetUsrInputBenchmark \/ TakeResultBenchmark)
             \/ kind = "web" /\ (ReadPump \/ WritePumpResult)
      PROVE  Inv'
  BY <1>1, <1>4, InputInv, TakeInv
<1> QED BY <1>3, <1>4
        DEF ClientStep, Console, Gui, GuiStart, GuiConnection, GuiInput, GuiIncoming, Benchmark,
            BenchmarkStart, BenchmarkConnection, BenchmarkInput, BenchmarkIncoming, Web,
            WebStart, WebConnection, WebInput, WebIncoming

-----------------------------------------------------------------------------
\* The theorems.

LEMMA InitInv == Init => Inv
<1> SUFFICES ASSUME Init
             PROVE  Inv
  OBVIOUS
<1> USE BoundTypes, MaxCmdsType DEF Init, ServiceInit
<1>1. N - 1 \in Node /\ 0 \in Node
  BY ServiceAssumption DEF Node
<1>2. \A S : <<>> \in Seq(S) /\ Len(<<>>) = 0
  BY EmptySeq
<1>3. log = <<>> /\ conns = <<>> /\ msgClIn = <<>> /\ reads = <<>> /\ Len(conns) = 0 /\ Len(reads) = 0
  BY <1>2
<1>4. conns \in Seq(Connection) /\ log \in Seq(Command) /\ msgClIn \in Seq(Result)
      /\ reads \in Seq(1 .. Returned) /\ requestsIn \in [Node -> Seq(Command)]
  BY <1>2, <1>3
<1>5. ServiceTypes
  BY <1>1, <1>3, <1>4 DEF ServiceTypes, NoConn
<1>6. \A d \in Dialer : dial[d] = Idle /\ dial[d].pc = "idle"
  BY DEF Idle
<1>7. DialTypes
  <2>1. Dials("input") = 0 /\ Dials("redirect") = 0 /\ Dials("eof") = 0
    BY <1>6 DEF Dials, Dialer
  <2>2. dial \in [Dialer -> [pc : {"idle", "type", "blank", "loop", "dial", "stop"}, with : Node \cup {NoNode}]]
    BY DEF Idle
  <2> QED BY <1>6, <2>1, <2>2 DEF DialTypes
<1>8. ReadTypes
  BY <1>3, <1>4 DEF ReadTypes, NoConn
<1>9. main = IF kind = "web" THEN "take" ELSE "start"
  OBVIOUS
<1>10. MainTypes /\ Counting
  <2>1. /\ kind \in Kinds /\ asked = 0 /\ seqNum = 0 /\ sending = 0 /\ answered = {} /\ overrun = FALSE
        /\ main = IF kind = "web" THEN "take" ELSE "start"
    OBVIOUS
  <2>2. main \in {"start", "take"} /\ (kind # "web" => main = "start")
    BY <2>1
  <2>3. MainTypes
    <3>1. asked \in 0 .. MaxCmds /\ seqNum \in Nat /\ sending \in Nat /\ answered \subseteq 1 .. asked
      BY <2>1
    <3>2. /\ main \in {"start", "take", "signal", "count", "exited"}
          /\ ~(kind = "benchmark" /\ main \in {"signal", "count"})
      BY <2>2
    <3>3. overrun \in BOOLEAN
      BY <2>1
    <3> QED BY <1>4, <2>1, <3>1, <3>2, <3>3 DEF MainTypes
  <2>4. Counting
    BY <1>3, <1>6, <2>1, <2>2 DEF Counting
  <2> QED BY <2>3, <2>4
<1>11. ConnOpen
  BY DEF ConnOpen
<1>12. \A c : c \notin 1 .. Len(conns) /\ c \notin DOMAIN conns
  BY <1>3
<1>13. \A d \in Asker : ~Asks(d)
  BY <1>6 DEF Asks, Asker, Dialer
<1>14. ~StillToSend /\ ~Waiting
  BY <1>12, <1>13 DEF StillToSend, Waiting, Asks, Asker
<1>15. OneSender
  BY <1>12, <1>13, <1>14 DEF OneSender
<1>16. Cmds(<<>>) = {} /\ NoRepeat(<<>>)
  BY EmptyCmds, EmptySeq DEF NoRepeat
<1>17. Apart
  BY <1>3, <1>12, <1>16 DEF Apart
<1> QED BY <1>5, <1>7, <1>8, <1>10, <1>11, <1>14, <1>15, <1>17 DEF Inv, Types, Sole, OnePlace

LEMMA NextInv == Inv /\ [Next]_vars => Inv'
<1> SUFFICES ASSUME Inv, [Next]_vars
             PROVE  Inv'
  OBVIOUS
<1>1. CASE ClientStep
  BY <1>1, ClientInv
<1>2. CASE ServerStep /\ UNCHANGED clientVars
  BY <1>2, ServerInv
<1>3. CASE Environment /\ UNCHANGED clientVars
  BY <1>3, ServerInv DEF Environment
<1>4. CASE UNCHANGED vars
  <2>1. UNCHANGED serviceVars /\ UNCHANGED clientVars
    BY <1>4 DEF vars
  <2>2. Types /\ ServiceTypes /\ Sole /\ ConnOpen
    BY DEF Inv, Types
  <2>3. /\ UNCHANGED <<nodeVars, extClAddrConn, logVars, conns, lost, requestsIn, log>>
        /\ UNCHANGED <<kind, main, asked, sending, dial, conn, overrun>>
    BY <2>1 DEF serviceVars, logVars, clientVars, connVars
  <2>4. conns' \in Seq(Connection) /\ Len(conns') = Len(conns) /\ Fade
    BY <2>2, <2>3, Unchanged DEF ServiceTypes
  <2>5. ServiceAfter
    BY <2>2, <2>3, <2>4, ServiceSame DEF ServiceTypes
  <2>6. overrun \in BOOLEAN /\ sending \in Nat
    BY <2>2 DEF Types, MainTypes
  <2>7. Types'
    BY <2>1, <2>2, <2>3, <2>5, <2>6, ServerSteps, NextTypes
  <2>8. ConnOpen'
    BY <2>2, <2>3, <2>4 DEF ConnOpen
  <2>9. Sole'
    <3>1. overrun' = (overrun \/ (main = "take" /\ main' = "signal" /\ StillToSend))
      BY <2>3, <2>6
    <3>2. \A d \in Asker : Asks(d)' => Asks(d)
      BY <2>3 DEF Asks
    <3> QED BY <2>2, <2>3, <2>4, <2>6, <2>7, <3>1, <3>2, QuietSole
  <2> QED BY <2>7, <2>8, <2>9 DEF Inv
<1> QED BY <1>1, <1>2, <1>3, <1>4 DEF Next, Scheduled

THEOREM Invariant == Spec => []Inv
BY InitInv, NextInv, PTL DEF Spec

\* Every variable of the client and of the nodes as it sees them has its type; the retry
\* counter, which three calls of clConnToServer share without a lock, passes
\* LDR_CONN_NUM_RETRY by their number at most (extClient.go:196).
THEOREM TypesCorrect == Spec => []TypeOK
<1>1. ASSUME Inv
      PROVE  TypeOK
  <2> USE BoundTypes
  <2>1. /\ ServiceTypes /\ DialTypes /\ ReadTypes /\ MainTypes
        /\ conns \in Seq(Connection) /\ Len(conns) <= MaxConns /\ reads \in Seq(1 .. Returned)
    BY <1>1 DEF Inv, Types, ServiceTypes, ReadTypes
  <2>2. /\ DOMAIN reads = 1 .. Len(reads) /\ DOMAIN conns = 1 .. Len(conns) /\ Len(conns) \in Nat
        /\ \A k \in 1 .. Len(reads) : reads[k] \in 1 .. Returned
    BY <2>1, LenProperties, ElementOfSeq
  <2>3. DOMAIN reads = DOMAIN conns /\ \A k \in DOMAIN reads : reads[k] \in 1 .. Returned
    BY <2>1, <2>2 DEF ReadTypes
  <2>4. conn \in Conn \cup {NoConn}
    BY <2>1, <2>2 DEF ReadTypes, Conn, NoConn
  <2>5. Cardinality(Dialer) = 3
    <3>1. /\ IsFiniteSet({}) /\ Cardinality({}) = 0
      BY FS_EmptySet
    <3>2. /\ IsFiniteSet({"input"}) /\ Cardinality({"input"}) = 1
      BY FS_Singleton
    <3>3. /\ {"input", "redirect"} = {"input"} \cup {"redirect"}
          /\ Dialer = {"input", "redirect"} \cup {"eof"}
          /\ "redirect" \notin {"input"} /\ "eof" \notin {"input", "redirect"}
      BY DEF Dialer
    <3>4. /\ IsFiniteSet({"input", "redirect"}) /\ Cardinality({"input", "redirect"}) = 2
      BY <3>2, <3>3, FS_AddElement
    <3> QED BY <3>3, <3>4, FS_AddElement
  <2>6. retries \in 0 .. (LDR_CONN_NUM_RETRY + Cardinality(Dialer))
    <3>1. \A d \in Dialer : Dials(d) \in {0, 1}
      BY DEF Dials
    <3>2. /\ Dials("input") \in {0, 1} /\ Dials("redirect") \in {0, 1} /\ Dials("eof") \in {0, 1}
          /\ retries \in Nat
          /\ retries + Dials("input") + Dials("redirect") + Dials("eof") <= LDR_CONN_NUM_RETRY + 3
      BY <2>1, <3>1 DEF Dialer, DialTypes
    <3> QED BY <2>5, <3>2
  <2>7. /\ main \in {"start", "take", "signal", "count", "exited"}
        /\ asked \in 0 .. MaxCmds /\ {seqNum, sending} \subseteq Nat
        /\ answered \cup lost \subseteq 1 .. asked /\ host \in Node \cup {NoNode}
    BY <2>1 DEF MainTypes, DialTypes, ServiceTypes
  <2> QED BY <2>3, <2>4, <2>6, <2>7 DEF TypeOK
<1> QED BY <1>1, Invariant, PTL

\* No proposer gets a command twice and no two get the same one, nor one that is decided
\* already, whatever the nodes redirect and the client sends again, until it takes a
\* result while a command is still to be sent (extClient.go:42).
THEOREM NeverTakenTwice == Spec => []TakenOnce
<1>1. ASSUME Inv
      PROVE  TakenOnce
  <2>1. SUFFICES ASSUME kind # "web", ~overrun
                 PROVE  /\ \A i, j \in DOMAIN log : log[i].cmd = log[j].cmd => i = j
                        /\ \A n \in Node : Cmds(requestsIn[n]) \cap Cmds(log) = {}
                        /\ \A n, m \in Node : \A i \in DOMAIN requestsIn[n], j \in DOMAIN requestsIn[m] :
                              requestsIn[n][i].cmd = requestsIn[m][j].cmd => n = m /\ i = j
    BY DEF TakenOnce
  <2>2. Apart
    BY <1>1, <2>1 DEF Inv, Sole, OnePlace
  <2>3. \A n \in Node : Cmds(requestsIn[n]) \cap Cmds(log) = {}
    BY <2>2 DEF Apart
  <2>4. ASSUME NEW n \in Node, NEW m \in Node, NEW i \in DOMAIN requestsIn[n],
               NEW j \in DOMAIN requestsIn[m], requestsIn[n][i].cmd = requestsIn[m][j].cmd
        PROVE  n = m /\ i = j
    <3>1. requestsIn[n][i].cmd \in Cmds(requestsIn[n]) /\ requestsIn[n][i].cmd \in Cmds(requestsIn[m])
      BY <2>4 DEF Cmds
    <3>2. n = m
      BY <2>2, <3>1 DEF Apart
    <3> QED BY <2>2, <2>4, <3>2 DEF Apart, NoRepeat
  <2> QED BY <2>2, <2>3, <2>4 DEF Apart, NoRepeat
<1> QED BY <1>1, Invariant, PTL

\* A result that the console and the GUI take for that of the command typed last, by its
\* sequence number, is the result of that command.
THEOREM ResultsAreTold == Spec => []AnswersOwnCommand
<1>1. ASSUME Inv
      PROVE  AnswersOwnCommand
  <2>1. SUFFICES ASSUME kind \in {"console", "gui"}, ~overrun,
                        main = "take", msgClIn # <<>>, Head(msgClIn).ClientSeq = seqNum
                 PROVE  Head(msgClIn).cmd = asked
    BY DEF AnswersOwnCommand
  <2>2. msgClIn \in Seq(Result) /\ asked = seqNum + 1
    BY <1>1, <2>1 DEF Inv, Types, MainTypes, Counting
  <2>3. Head(msgClIn) \in Result
    BY <2>1, <2>2, HeadTailProperties
  <2> QED BY <2>1, <2>2, <2>3 DEF Result, Typed
<1> QED BY <1>1, Invariant, PTL

\* No result tells of more money than was paid in by the commands typed before, nor of
\* a debt unless that is more than an int holds, however the decisions of several nodes
\* and clients' connections interleave and whatever amounts a browser sends, as long as
\* no command is decided twice (bank.go:73-106, server.go:196-212).
THEOREM DepositsCoverBalances == Spec => []BalancesAreCovered
<1>1. ASSUME Inv
      PROVE  BalancesAreCovered
  <2>1. conns \in Seq(Connection) /\ msgClIn \in Seq(Result)
    BY <1>1 DEF Inv, Types, ServiceTypes, MainTypes
  <2>2. SUFFICES ASSUME NoRepeat(log), NEW r \in Results, r.MsgType = "TRANSACTION_RESULT"
                 PROVE  Sound(r.Balance, PaidIn(kind, asked))
    BY DEF BalancesAreCovered, NoRepeat, Sound
  <2>3. r \in Result
    <3>1. CASE r \in Range(msgClIn)
      <4>1. PICK i \in DOMAIN msgClIn : r = msgClIn[i]
        BY <3>1 DEF Range
      <4> QED BY <2>1, <4>1, LenProperties, ElementOfSeq
    <3>2. ASSUME NEW c \in DOMAIN conns, NEW i \in DOMAIN conns[c].toCl, r = conns[c].toCl[i]
          PROVE  r \in Result
      <4>1. conns[c] \in Connection
        BY <2>1, LenProperties, ElementOfSeq
      <4>2. PICK s \in Seq(Answer) : s = conns[c].toCl
        BY <4>1 DEF Connection
      <4>3. r \in Answer
        BY <3>2, <4>2, LenProperties, ElementOfSeq
      <4> QED BY <2>2, <4>3 DEF Answer
    <3>3. ASSUME NEW T \in {{conns[c].toCl[i] : i \in DOMAIN conns[c].toCl} : c \in DOMAIN conns},
                 r \in T
          PROVE  r \in Result
      <4>1. PICK c \in DOMAIN conns : T = {conns[c].toCl[i] : i \in DOMAIN conns[c].toCl}
        BY <3>3
      <4>2. PICK i \in DOMAIN conns[c].toCl : r = conns[c].toCl[i]
        BY <3>3, <4>1
      <4> QED BY <3>2, <4>2
    <3>4. r \in Range(msgClIn) \/
          r \in UNION {{conns[c].toCl[i] : i \in DOMAIN conns[c].toCl} : c \in DOMAIN conns}
      BY <2>2 DEF Results
    <3>5. r \in Range(msgClIn) \/
          \E T \in {{conns[c].toCl[i] : i \in DOMAIN conns[c].toCl} : c \in DOMAIN conns} : r \in T
      BY <3>4, Zenon
    <3> QED BY <3>1, <3>3, <3>5, Zenon
  <2> QED BY <2>2, <2>3 DEF Result, Covered
<1> QED BY <1>1, Invariant, PTL
=============================================================================
