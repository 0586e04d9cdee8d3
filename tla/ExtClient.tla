------------------------------ MODULE ExtClient ------------------------------
(***************************************************************************)
(* The external client (lab6/external_client_application/extClient.go) and *)
(* its three copies: the one of the GUI, the benchmark and the web server  *)
(* (one browser).  The goroutines share the connection, the host and the   *)
(* retry counter without a lock: the loop that takes results, the one that *)
(* reads the user's input, one that reads each connection, those that send *)
(* and, after an end of file, one that connects again.  A command is named *)
(* by its number; its transaction is what the user typed, who answers      *)
(* every question within its range at once.  The web server stores the     *)
(* three numbers of a message in one step.                                 *)
(***************************************************************************)
EXTENDS BankService

CONSTANTS
    Kinds,      \* which of the four programs may be the client
    MaxFaults,  \* how many crashes and elections each of them meets
    Script,     \* the transactions the user of each asks for, in this order (500
                \* in the benchmark)
    LDR_CONN_NUM_RETRY

ASSUME ClientAssumption ==
    /\ Kinds \subseteq {"console", "gui", "benchmark", "web"}
    /\ MaxFaults \in [Kinds -> Nat]
    /\ Script \in [Kinds -> Seq(Transaction)]
    /\ \A k \in Kinds \ {"web"} : Script[k] \in Seq(Entered)
    /\ LDR_CONN_NUM_RETRY \in Nat

VARIABLES
    kind,       \* which program this is
    faults,     \* how many crashes and elections there were
    main,       \* the loop that takes results: "start", "take", "signal" while it
                \* asks for input, "count" (benchmark), "exited"
    seqNum,     \* c.seqNum
    asked,      \* how many transactions the user was asked for; c.usr... is the last
    host,       \* c.ldrNodeHost, NoNode when empty
    conn,       \* c.ldrNodeConn
    retries,    \* c.ldrConnRetryCnt
    dial,       \* the calls of clConnToServer: where each is, and with what
    reads,      \* the goroutine reading for each connection made: the connection
                \* it reads from, Spinning, or Returned
    sending,    \* goroutines of clSendDataToServer that did not send yet
    msgClIn,    \* results on their way to the loop
    answered,   \* the commands whose result the user got
    overrun     \* history: a result was taken while the last command was still to be sent

connVars == <<host, conn, retries, dial, reads>>
clientVars == <<kind, main, seqNum, asked, connVars, sending, msgClIn, answered, overrun>>
vars == <<serviceVars, clientVars, faults>>

Dialer == {"input", "redirect", "eof"}
Idle == [pc |-> "idle", with |-> NoNode]
Spinning == MaxConns + 1
Returned == MaxConns + 2
MaxCmds == Len(Script[kind])
Pending == (1..asked) \ answered

Init ==
    /\ ServiceInit
    /\ kind \in Kinds /\ faults = 0
    /\ main = IF kind = "web" THEN "take" ELSE "start"
    /\ seqNum = 0 /\ asked = 0
    /\ host = NoNode /\ conn = NoConn /\ retries = 0
    /\ dial = [d \in Dialer |-> Idle]
    /\ reads = <<>> /\ sending = 0 /\ msgClIn = <<>> /\ answered = {}
    /\ overrun = FALSE

-----------------------------------------------------------------------------
\* Connecting.

\* clConnToServer is called: c.ldrConnRetryCnt = 0.
Connect(d) ==
    /\ dial' = [dial EXCEPT ![d] = [pc |-> "loop", with |-> NoNode]]
    /\ retries' = 0

\* The node a dial goes to: a random one when none is known.
Target == IF host = NoNode THEN Node ELSE {host}

\* A dial fails when the node is down; so does one beyond MaxConns connections.
DialFails(d, n) ==
    /\ n \notin up \/ Len(conns) = MaxConns
    /\ host' = NoNode /\ retries' = retries + 1
    /\ dial' = [dial EXCEPT ![d] = [pc |-> "loop", with |-> NoNode]]
    /\ UNCHANGED <<serviceVars, conn, reads, sending>>

\* Mutant: the failures are not limited.
DialHead_forever(d) ==
    /\ dial[d].pc = "loop" /\ conn = NoConn
    /\ \E n \in Target :
          \/ DialFails(d, n)
          \/ /\ n \in up /\ Len(conns) < MaxConns
             /\ host' = n
             /\ dial' = [dial EXCEPT ![d] = [pc |-> "dial", with |-> n]]
             /\ UNCHANGED <<serviceVars, conn, retries, reads, sending>>

\* The loop's condition and the start of a dial.
DialHead(d) ==
    /\ dial[d].pc = "loop"
    /\ conn = NoConn /\ retries <= LDR_CONN_NUM_RETRY
    /\ \E n \in Target :
          \/ DialFails(d, n)
          \/ /\ n \in up /\ Len(conns) < MaxConns
             /\ host' = n
             /\ dial' = [dial EXCEPT ![d] = [pc |-> "dial", with |-> n]]
             /\ UNCHANGED <<serviceVars, conn, retries, reads, sending>>

\* The connection is made and the goroutine that reads it started: it becomes the
\* connection of the client, whatever that was.
DialSucceeds(d) ==
    /\ dial[d].with \in up /\ Len(conns) < MaxConns
    /\ Accept(Len(conns) + 1, dial[d].with)
    /\ reads' = Append(reads, Spinning)
    /\ conn' = Len(conns) + 1
    /\ dial' = [dial EXCEPT ![d] = [pc |-> "loop", with |-> NoNode]]
    /\ UNCHANGED <<nodeVars, logVars, lost, host, retries, sending>>

DialReturns(d) ==
    /\ dial[d].pc = "dial"
    /\ DialSucceeds(d) \/ DialFails(d, dial[d].with)

\* After the loop the number of failures decides, not the connection.
DialEnds(d) ==
    /\ dial[d].pc = "loop"
    /\ conn # NoConn \/ retries > LDR_CONN_NUM_RETRY
    /\ \/ /\ retries >= LDR_CONN_NUM_RETRY
          /\ dial' = [dial EXCEPT ![d] = [pc |-> "stop", with |-> NoNode]]
          /\ UNCHANGED sending
       \/ /\ retries < LDR_CONN_NUM_RETRY
          /\ dial' = [dial EXCEPT ![d] = Idle]
          /\ sending' = IF d = "eof" THEN sending ELSE sending + 1
    /\ UNCHANGED <<serviceVars, host, conn, retries, reads>>

\* The program ends, and the system closes its connections.
Exit ==
    /\ main' = "exited"
    /\ conns' = [c \in DOMAIN conns |-> [conns[c] EXCEPT !.open = FALSE]]

\* c.stop <- struct{}{}: taken by the loop when it waits, and only then.
GiveUp(d) ==
    /\ dial[d].pc = "stop" /\ main = "take"
    /\ Exit
    /\ UNCHANGED <<nodeVars, extClAddrConn, logVars, lost, kind, seqNum, asked, connVars, sending,
                   msgClIn, answered>>

clConnToServer(d) ==
    \/ /\ DialHead(d) \/ DialReturns(d) \/ DialEnds(d)
       /\ UNCHANGED <<kind, main, seqNum, asked, msgClIn, answered>>
    \/ GiveUp(d)

-----------------------------------------------------------------------------
\* Sending and asking for input.

\* The user's fields: zero since he was asked, then what he typed so far.
Blank == [Op |-> "Balance", Amount |-> 0]
UsrFields ==
    CASE dial["input"].pc = "type" -> {Blank, [Script[kind][asked] EXCEPT !.Amount = 0]}
      [] dial["input"].pc = "blank" -> {Blank}
      [] OTHER -> {Script[kind][asked]}

\* clSendDataToServer takes the user's fields and the sequence number as they are
\* now.  What is written to an end the server has closed breaks the connection:
\* from then on reading it fails, with another error than the end of file.
Send ==
    /\ sending > 0 /\ sending' = sending - 1
    /\ IF conn = NoConn
       THEN lost' = lost \cup {asked} /\ UNCHANGED conns
       ELSE IF conns[conn].srvPc = "done"
            THEN conns' = [conns EXCEPT ![conn].broken = TRUE] /\ lost' = lost \cup Pending
            ELSE /\ \E t \in UsrFields :
                      conns' = [conns EXCEPT ![conn].toSrv =
                          Append(@, [cmd |-> asked, ClientSeq |-> seqNum, Txn |-> t, by |-> NoNode])]
                 /\ UNCHANGED lost
    /\ UNCHANGED <<nodeVars, extClAddrConn, logVars, kind, main, seqNum, asked, connVars, msgClIn,
                   answered>>

\* What was typed is sent, once connected.
SendTyped ==
    IF conn = NoConn
    THEN Connect("input") /\ UNCHANGED sending
    ELSE /\ dial' = [dial EXCEPT !["input"] = Idle]
         /\ sending' = sending + 1 /\ UNCHANGED retries

\* case <-c.getUsrInput: the loop goes on at once, to `next', while the user types.
Ask(next) ==
    /\ main \in {"start", "signal"} /\ main' = next
    /\ dial["input"].pc \in {"idle", "blank"}
    /\ asked < MaxCmds /\ asked' = asked + 1
    /\ dial' = [dial EXCEPT !["input"] = [pc |-> "type", with |-> NoNode]]
    /\ UNCHANGED <<retries, sending>>

\* The user has typed everything.
EndTyping ==
    /\ dial["input"].pc = "type" /\ SendTyped
    /\ UNCHANGED <<main, asked>>

GetUsrInput ==
    /\ Ask("take") \/ EndTyping
    /\ UNCHANGED <<serviceVars, kind, seqNum, host, conn, reads, msgClIn, answered>>

\* The benchmark asks for the next command before it looks at the result; after
\* its last one nothing more is sent.
AskBenchmark ==
    LET next == IF main = "start" THEN "take" ELSE "count"
    IN \/ Ask(next)
       \/ /\ main \in {"start", "signal"} /\ main' = next
          /\ dial["input"].pc \in {"idle", "blank"}
          /\ asked = MaxCmds
          /\ dial' = [dial EXCEPT !["input"] = [pc |-> "blank", with |-> NoNode]]
          /\ UNCHANGED <<asked, retries, sending>>

GetUsrInputBenchmark ==
    /\ AskBenchmark \/ EndTyping
    /\ UNCHANGED <<serviceVars, kind, seqNum, host, conn, reads, msgClIn, answered>>

\* readPump takes a command from the browser whenever one comes: the fields of the
\* previous one are overwritten even when it is still to be sent.
ReadPump ==
    /\ main # "exited" /\ dial["input"] = Idle
    /\ asked < MaxCmds /\ asked' = asked + 1
    /\ SendTyped
    /\ lost' = IF sending > 0 \/ dial["redirect"] # Idle THEN lost \cup Pending ELSE lost
    /\ UNCHANGED <<nodeVars, conns, extClAddrConn, logVars, kind, main, seqNum, host, conn, reads, msgClIn,
                   answered>>

-----------------------------------------------------------------------------
\* Reading a connection.

\* The goroutine waits for c.ldrNodeConn, and reads from the one it finds.
PickUp(k) ==
    /\ reads[k] = Spinning /\ conn # NoConn
    /\ reads' = [reads EXCEPT ![k] = conn]
    /\ UNCHANGED <<serviceVars, kind, main, seqNum, asked, host, conn, retries, dial, sending,
                   msgClIn, answered>>

Live(k) == reads[k] \in DOMAIN conns /\ conns[reads[k]].open /\ ~conns[reads[k]].broken

\* c.ldrNodeConn.Close() and what follows in both cases: the program panics when
\* another goroutine has set the connection to nil.
Disconnect(k, h, d) ==
    IF conn = NoConn
    THEN Exit /\ UNCHANGED <<reads, host, conn, dial, retries>>
    ELSE /\ conns' = [conns EXCEPT ![conn].open = FALSE, ![reads[k]].toCl = <<>>]
         /\ conn' = NoConn /\ host' = h
         /\ reads' = [reads EXCEPT ![k] = Returned]
         /\ Connect(d)
         /\ UNCHANGED main

\* case "TRANSACTION_RESULT"
HandleResult(k) ==
    /\ Live(k)
    /\ conns[reads[k]].toCl # <<>>
    /\ LET stream == conns[reads[k]].toCl IN
       /\ Head(stream).MsgType = "TRANSACTION_RESULT"
       /\ msgClIn' = Append(msgClIn, Head(stream))
       /\ \E rest \in AfterDecode(stream) :
             /\ conns' = [conns EXCEPT ![reads[k]].toCl = rest]
             /\ lost' = IF rest = Tail(stream) THEN lost ELSE lost \cup Pending
    /\ reads' = [reads EXCEPT ![k] = Spinning]
    /\ UNCHANGED <<nodeVars, extClAddrConn, logVars, kind, main, seqNum, asked, host, conn, retries, dial,
                   sending, answered>>

\* Mutant: after a redirect the command is not sent again.
HandleRedirect_silent(k) ==
    /\ Live(k) /\ dial["eof"] = Idle
    /\ conns[reads[k]].toCl # <<>>
    /\ LET msg == Head(conns[reads[k]].toCl) IN
       msg.MsgType = "REDIRECT" /\ Disconnect(k, msg.host, "eof")
    /\ lost' = lost \cup (Pending \ {asked})
    /\ UNCHANGED <<nodeVars, extClAddrConn, logVars, kind, seqNum, asked, sending, msgClIn, answered>>

\* case "REDIRECT" and clHandleRedirect: the last command is sent again, to the
\* node named.  (One such call at a time.)
HandleRedirect(k) ==
    /\ Live(k) /\ dial["redirect"] = Idle
    /\ conns[reads[k]].toCl # <<>>
    /\ LET msg == Head(conns[reads[k]].toCl) IN
       msg.MsgType = "REDIRECT" /\ Disconnect(k, msg.host, "redirect")
    /\ lost' = lost \cup (Pending \ {asked})
    /\ UNCHANGED <<nodeVars, extClAddrConn, logVars, kind, seqNum, asked, sending, msgClIn, answered>>

\* Mutant: after the end of file the command is sent again.
HandleEOF_resending(k) ==
    /\ Live(k) /\ dial["redirect"] = Idle
    /\ conns[reads[k]].toCl = <<>> /\ conns[reads[k]].srvPc = "done"
    /\ Disconnect(k, NoNode, "redirect")
    /\ lost' = lost \cup Pending
    /\ UNCHANGED <<nodeVars, extClAddrConn, logVars, kind, seqNum, asked, sending, msgClIn, answered>>

\* err == io.EOF: after eight seconds the client connects again.  The command it
\* waits for is not sent again.  (One such call at a time.)
HandleEOF(k) ==
    /\ Live(k) /\ dial["eof"] = Idle
    /\ conns[reads[k]].toCl = <<>> /\ conns[reads[k]].srvPc = "done"
    /\ Disconnect(k, NoNode, "eof")
    /\ lost' = lost \cup Pending
    /\ UNCHANGED <<nodeVars, extClAddrConn, logVars, kind, seqNum, asked, sending, msgClIn, answered>>

\* Reading fails as another goroutine closed the connection: back to the loop.
HandleClosed(k) ==
    /\ reads[k] \in DOMAIN conns /\ ~conns[reads[k]].open
    /\ reads' = [reads EXCEPT ![k] = Spinning]
    /\ UNCHANGED <<serviceVars, kind, main, seqNum, asked, host, conn, retries, dial, sending,
                   msgClIn, answered>>

clHandleIncomingMsg(k) ==
    PickUp(k) \/ HandleResult(k) \/ HandleRedirect(k) \/ HandleEOF(k) \/ HandleClosed(k)

-----------------------------------------------------------------------------
\* Taking results.

\* Mutant: the sequence number stays as it is.
Count_same(res) ==
    /\ msgClIn' = Tail(msgClIn)
    /\ IF res.ClientSeq = seqNum
       THEN answered' = answered \cup {res.cmd} /\ UNCHANGED lost
       ELSE lost' = lost \cup {res.cmd} /\ UNCHANGED answered
    /\ UNCHANGED <<nodeVars, conns, extClAddrConn, logVars, kind, seqNum, asked, connVars, sending>>

Count(res) ==
    /\ msgClIn' = Tail(msgClIn)
    /\ IF res.ClientSeq = seqNum
       THEN answered' = answered \cup {res.cmd} /\ UNCHANGED lost
       ELSE lost' = lost \cup {res.cmd} /\ UNCHANGED answered
    /\ seqNum' = seqNum + 1
    /\ UNCHANGED <<nodeVars, conns, extClAddrConn, logVars, kind, asked, connVars, sending>>

\* case msgIn := <-c.msgClIn of the console.
TakeResult ==
    /\ main = "take" /\ msgClIn # <<>>
    /\ Count(Head(msgClIn))
    /\ main' = "signal"

\* The same of the benchmark, in two steps.
TakeResultBenchmark ==
    \/ /\ main = "take" /\ msgClIn # <<>>
       /\ main' = "signal"
       /\ UNCHANGED <<serviceVars, kind, seqNum, asked, connVars, sending, msgClIn, answered>>
    \/ main = "count" /\ Count(Head(msgClIn)) /\ main' = "take"

\* The same of writePump.
WritePumpResult ==
    main = "take" /\ msgClIn # <<>> /\ Count(Head(msgClIn)) /\ UNCHANGED main

-----------------------------------------------------------------------------
\* The four programs.

Connecting == \E d \in Dialer : clConnToServer(d)
Reading == \E k \in DOMAIN reads : clHandleIncomingMsg(k)

GuiStart == kind = "gui" /\ TakeResult
GuiConnection == kind = "gui" /\ (Connecting \/ Send)
GuiInput == kind = "gui" /\ GetUsrInput
GuiIncoming == kind = "gui" /\ Reading

BenchmarkStart == kind = "benchmark" /\ TakeResultBenchmark
BenchmarkConnection == kind = "benchmark" /\ (Connecting \/ Send)
BenchmarkInput == kind = "benchmark" /\ GetUsrInputBenchmark
BenchmarkIncoming == kind = "benchmark" /\ Reading

WebConnection == kind = "web" /\ (Connecting \/ Send)
WebInput == kind = "web" /\ ReadPump
WebIncoming == kind = "web" /\ Reading
WebStart == kind = "web" /\ WritePumpResult

Console == kind = "console" /\ (TakeResult \/ Connecting \/ Send \/ GetUsrInput \/ Reading)
Gui == GuiStart \/ GuiConnection \/ GuiInput \/ GuiIncoming
Benchmark == BenchmarkStart \/ BenchmarkConnection \/ BenchmarkInput \/ BenchmarkIncoming
Web == WebStart \/ WebConnection \/ WebInput \/ WebIncoming

\* A message on connection c may have the client send its command again.
MayReturn(c) ==
    /\ conns[c].open /\ ~conns[c].broken
    /\ \/ conns[c].toSrv # <<>>
       \/ \E i \in DOMAIN conns[c].toCl : conns[c].toCl[i].MsgType = "REDIRECT"

\* A goroutine is to send what the user typed last, or may yet be told to.
StillToSend ==
    \/ sending > 0
    \/ \E d \in {"input", "redirect"} : dial[d].pc \in {"type", "loop", "dial"}
    \/ \E c \in DOMAIN conns : MayReturn(c)

\* The loop takes any result and has the user asked for the next command, which is
\* then what the goroutines send that were started for the one before.
ClientStep ==
    /\ main # "exited"
    /\ Console \/ Gui \/ Benchmark \/ Web
    /\ overrun' = (overrun \/ (main = "take" /\ main' = "signal" /\ StillToSend))

\* A node crashes, or the proposer of one is told of another leader.
Environment ==
    /\ faults < MaxFaults[kind] /\ faults' = faults + 1
    /\ \E n \in Node : Elect(n) \/ Crash(n)

Scheduled == (ClientStep \/ (ServerStep /\ UNCHANGED clientVars)) /\ UNCHANGED faults

Next == Scheduled \/ (Environment /\ UNCHANGED clientVars)

Spec == Init /\ [][Next]_vars

\* The goroutines of the client and of the nodes go on; the protocol decides what a
\* leader with a majority proposes.  Every step uses something up.
FairSpec == Spec /\ WF_vars(Scheduled)

-----------------------------------------------------------------------------
TypeOK ==
    /\ main \in {"start", "take", "signal", "count", "exited"}
    /\ asked \in 0..MaxCmds
    /\ host \in Node \cup {NoNode} /\ conn \in Conn \cup {NoConn}
    /\ retries \in 0..(LDR_CONN_NUM_RETRY + Cardinality(Dialer))
    /\ DOMAIN reads = DOMAIN conns /\ \A k \in DOMAIN reads : reads[k] \in 1..Returned
    /\ {seqNum, sending} \subseteq Nat
    /\ answered \cup lost \subseteq 1..asked

\* All results on their way, and those the user has not seen yet.
Results ==
    (UNION {{conns[c].toCl[i] : i \in DOMAIN conns[c].toCl} : c \in DOMAIN conns}) \cup Range(msgClIn)

\* A result whose sequence number the console finds equal to its own is the result
\* of the command the user waits for, even when results are lost or repeated, unless
\* one was taken while a command was still to be sent (extClient.go:42).
AnswersOwnCommand ==
    /\ kind \in {"console", "gui"} /\ ~overrun
    /\ main = "take" /\ msgClIn # <<>> /\ Head(msgClIn).ClientSeq = seqNum
    => Head(msgClIn).cmd = asked

\* A client that waits for results never has two proposers take one command, nor
\* one proposer take it twice, whatever is redirected and sent again - unless it took
\* a result while a command was still to be sent.
TakenOnce ==
    kind # "web" /\ ~overrun =>
        /\ \A i, j \in DOMAIN log : log[i].cmd = log[j].cmd => i = j
        /\ \A n \in Node : Cmds(requestsIn[n]) \cap Cmds(log) = {}
        /\ \A n, m \in Node : \A i \in DOMAIN requestsIn[n], j \in DOMAIN requestsIn[m] :
              requestsIn[n][i].cmd = requestsIn[m][j].cmd => n = m /\ i = j

\* No command is decided twice (lab6/README.md:672, "no command has been decided
\* twice").
DecidedOnce ==
    kind # "web" => \A i, j \in DOMAIN log : log[i].cmd = log[j].cmd => i = j

\* What a transaction pays into the account, and the first n commands of a client.
Pays(txn) ==
    CASE txn.Op = "Deposit" /\ txn.Amount >= 0 -> txn.Amount
      [] txn.Op = "Withdrawal" /\ txn.Amount < 0 -> -txn.Amount
      [] OTHER -> 0
PaidIn(d, n) ==
    LET paid[k \in 0..Len(Script[d])] ==
            IF k = 0 THEN 0 ELSE paid[k - 1] + Pays(Script[d][k])
    IN paid[n]

\* As long as no command is in the log twice, no result tells of more money than was
\* paid in by the commands typed before it, and of debts only where these are more
\* than an integer holds - whatever is refused, lost, reordered or overflows
\* (bank.go:73-106).
BalancesAreCovered ==
    LET once == \A i, j \in DOMAIN log : log[i].cmd = log[j].cmd => i = j
    IN once => \A r \in Results : r.MsgType = "TRANSACTION_RESULT" =>
                  /\ r.Balance <= PaidIn(kind, asked)
                  /\ r.Balance < 0 => PaidIn(kind, asked) > MaxInt

\* Every command typed is answered, unless it was lost in one of the ways modelled,
\* or the client has ended or asks for the next one, having counted a late or a
\* second result.  (Then it may wait for ever: its reader may have given up, and
\* cannot say so as nobody takes the signal to stop.)
EveryCommandEnds ==
    \A k \in UNION {DOMAIN Script[d] : d \in Kinds} :
        asked >= k ~> k \in answered \cup lost \/ main \in {"signal", "exited"}
=============================================================================
