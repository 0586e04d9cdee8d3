--------------------------------- MODULE Hub ---------------------------------
(***************************************************************************)
(* The web chat program (lab6/gorilla/websocket/examples/chat): the hub    *)
(* (hub.go) and the two goroutines of every browser (readPump, writePump   *)
(* in extClient.go) on their connection.  Of the bank client in them,      *)
(* which ExtClient models, only that readPump may wait for it remains, and *)
(* that writePump writes its results.                                      *)
(***************************************************************************)
EXTENDS WebSocket, FiniteSets

CONSTANTS
    Leaving,    \* the browsers that may leave
    SendCap,    \* places of a send channel (256 in the program)
    MaxFrames,  \* how many frames each browser sends
    MaxUnits,   \* units of the largest of them
    MaxPings    \* how often the ticker of each writePump fires

ASSUME HubAssumption ==
    /\ Leaving \subseteq Client
    /\ SendCap \in Nat \ {0}
    /\ MaxUnits \in Nat \ {0}
    /\ {MaxFrames, MaxPings} \subseteq [Client -> Nat]

VARIABLES
    clients,    \* h.clients
    hubLog,     \* the messages the hub took from its broadcast channel
    since,      \* how many there were when each browser was registered
    send,       \* the send channels
    sendClosed, \* those that are closed
    rp, wp,     \* where readPump and writePump of each browser are
    todo,       \* what writePump has still to put into the writer
    queued,     \* writePump added the queued messages to the current one
    results,    \* results of the bank that wait in msgClIn
    pings,
    exited      \* os.Exit was called

hubVars == <<clients, hubLog, since, send, sendClosed>>
pumpVars == <<rp, wp, todo, queued, results, pings>>
vars == <<connVars, hubVars, pumpVars, exited>>

Init ==
    /\ newConn
    /\ clients = {} /\ hubLog = <<>> /\ sendClosed = {}
    /\ since = [c \in Client |-> 0]
    /\ send = [c \in Client |-> <<>>]
    /\ rp = [c \in Client |-> "none"] /\ wp = [c \in Client |-> "none"]
    /\ todo = [c \in Client |-> <<>>] /\ queued = [c \in Client |-> FALSE]
    /\ results = [c \in Client |-> 0] /\ pings = [c \in Client |-> 0]
    /\ exited = FALSE

BankResult == <<"BANK_RESULT", 0>>

\* What a sequence of frames carries.
DataOf(fs) == FlattenSeq([i \in DOMAIN fs |-> IF fs[i].op \in Data THEN fs[i].data ELSE <<>>])

-----------------------------------------------------------------------------
\* The hub.  It takes from one channel at a time and never waits in between.

\* serveWs and case client := <-h.register.
Register(c) ==
    /\ net[c] = "none" /\ net' = [net EXCEPT ![c] = "open"]
    /\ clients' = clients \cup {c}
    /\ since' = [since EXCEPT ![c] = Len(hubLog)]
    /\ rp' = [rp EXCEPT ![c] = "read"] /\ wp' = [wp EXCEPT ![c] = "select"]
    /\ UNCHANGED <<writeVars, readVars, hubLog, send, sendClosed, todo, queued, results,
                   pings, exited>>

\* case client := <-h.unregister.
Unregister(c) ==
    /\ clients' = clients \ {c}
    /\ sendClosed' = IF c \in clients THEN sendClosed \cup {c} ELSE sendClosed
    /\ UNCHANGED <<hubLog, since, send>>

Full == {c \in clients : Len(send[c]) >= SendCap}

\* Mutant: a client that does not keep up stays registered.
Broadcast_keeping(msg) ==
    /\ hubLog' = Append(hubLog, msg)
    /\ send' = [c \in Client |-> IF c \in clients \ Full THEN Append(send[c], msg) ELSE send[c]]
    /\ sendClosed' = sendClosed \cup Full
    /\ UNCHANGED <<since, clients>>

\* case message := <-h.broadcast: a client whose channel is full is dropped.
Broadcast(msg) ==
    /\ hubLog' = Append(hubLog, msg)
    /\ send' = [c \in Client |-> IF c \in clients \ Full THEN Append(send[c], msg) ELSE send[c]]
    /\ sendClosed' = sendClosed \cup Full
    /\ clients' = clients \ Full
    /\ UNCHANGED since

-----------------------------------------------------------------------------
\* readPump.

\* A frame of the browser: one of a message, with the next of its units, or a control
\* frame, in any order.  (A pong only moves the deadline of the next read.)
NextUnits(c) ==
    LET sent == Len(DataOf(frames[c]))
    IN {[i \in 1..n |-> <<c, sent + i>>] : n \in 1..MaxUnits}
NextFrame(c) ==
    [op : Data, fin : BOOLEAN, data : NextUnits(c)]
        \cup [op : {"ping", "close"}, fin : {TRUE}, data : {<<>>}]

\* ReadMessage reads a frame, which the browser sent at some time before.
\* A data frame that ends a message returns it.
ReadFrame(c) ==
    /\ rp[c] = "read" /\ net[c] = "open"
    /\ Len(frames[c]) < MaxFrames[c]
    /\ \E f \in NextFrame(c), ok \in BOOLEAN :
          /\ advanceFrame(c, f, ok)
          /\ rp' = [rp EXCEPT ![c] = IF ~ok THEN "leave"
                                     ELSE IF f.op \in Data /\ f.fin THEN "broadcast" ELSE "read"]
    /\ UNCHANGED <<net, hubVars, wp, todo, queued, results, pings, exited>>

\* The read fails: the connection is closed or was left.
ReadFails(c) ==
    /\ rp[c] = "read" /\ net[c] \in {"closed", "left"}
    /\ rp' = [rp EXCEPT ![c] = "leave"]
    /\ UNCHANGED <<connVars, hubVars, wp, todo, queued, results, pings, exited>>

\* The read fails as no pong came in time.
ReadTimesOut(c) ==
    /\ rp[c] = "read" /\ net[c] = "open" /\ c \in Slow
    /\ rp' = [rp EXCEPT ![c] = "leave"]
    /\ UNCHANGED <<connVars, hubVars, wp, todo, queued, results, pings, exited>>

\* c.hub.broadcast <- message, and the command goes to the bank: its result comes
\* at any time later, or no node can be reached.  A message with too few parts, which
\* a browser may send, ends the program instead: index out of range.
SendToHub(c) ==
    /\ rp[c] = "broadcast" /\ Broadcast(partial[c])
    /\ partial' = [partial EXCEPT ![c] = <<>>]
    /\ \/ /\ rp' = [rp EXCEPT ![c] = "read"] /\ results' = [results EXCEPT ![c] = @ + 1]
          /\ UNCHANGED exited
       \/ rp' = [rp EXCEPT ![c] = "giveUp"] /\ UNCHANGED <<results, exited>>
       \/ rp' = [rp EXCEPT ![c] = "leave"] /\ exited' = TRUE /\ UNCHANGED results
    /\ UNCHANGED <<net, writeVars, frames, readFinal, wp, todo, queued, pings>>

\* c.stop <- struct{}{}, which only writePump takes: the program ends.
GiveUp(c) ==
    /\ rp[c] = "giveUp" /\ wp[c] = "select"
    /\ exited' = TRUE
    /\ UNCHANGED <<connVars, hubVars, pumpVars>>

\* The deferred function: the hub is told, then the connection is closed.
Leave(c) ==
    /\ rp[c] = "leave" /\ rp' = [rp EXCEPT ![c] = "close"]
    /\ Unregister(c)
    /\ UNCHANGED <<connVars, wp, todo, queued, results, pings, exited>>

ReadPumpReturns(c) ==
    /\ rp[c] = "close" /\ rp' = [rp EXCEPT ![c] = "returned"]
    /\ net' = [net EXCEPT ![c] = "closed"]
    /\ UNCHANGED <<writeVars, readVars, hubVars, wp, todo, queued, results, pings, exited>>

-----------------------------------------------------------------------------
\* writePump.

\* Mutant: the connection is not closed.
WritePumpReturns_open(c) ==
    /\ wp' = [wp EXCEPT ![c] = "returned"]
    /\ UNCHANGED net

\* The deferred function.
WritePumpReturns(c) ==
    /\ wp' = [wp EXCEPT ![c] = "returned"]
    /\ net' = [net EXCEPT ![c] = "closed"]

\* A message is begun, unless prepWrite finds an earlier error.
Begin(c, msg, alone) ==
    \/ /\ writeErr[c] = "nil" /\ NextWriter(c)
       /\ todo' = [todo EXCEPT ![c] = msg] /\ queued' = [queued EXCEPT ![c] = alone]
       /\ wp' = [wp EXCEPT ![c] = "write"]
       /\ UNCHANGED net
    \/ /\ writeErr[c] # "nil" /\ WritePumpReturns(c)
       /\ UNCHANGED <<writer, todo, queued>>

\* case message, ok := <-c.send
TakeMessage(c) ==
    /\ wp[c] = "select" /\ send[c] # <<>>
    /\ send' = [send EXCEPT ![c] = Tail(@)]
    /\ Begin(c, Head(send[c]), FALSE)
    /\ UNCHANGED <<wire, writeErr, readVars, clients, hubLog, since, sendClosed, rp,
                   results, pings, exited>>

\* case msgIn := <-c.msgClIn.  The text of a result has the second and the third part
\* of bup_message, the last message taken.  When none was, or it has fewer parts,
\* the program ends with an index out of range, unless the result is a failure.
TakeResult(c) ==
    /\ wp[c] = "select" /\ results[c] > 0
    /\ results' = [results EXCEPT ![c] = @ - 1]
    /\ \/ Begin(c, <<BankResult>>, TRUE) /\ UNCHANGED exited
       \/ exited' = TRUE /\ UNCHANGED <<net, writer, todo, queued, wp>>
    /\ UNCHANGED <<wire, writeErr, readVars, hubVars, rp, pings>>

\* Write: the buffer is flushed when more than it holds is to be written.
FlushFull(c) ==
    /\ wp[c] = "write"
    /\ LET data == writer[c].buf \o todo[c] IN
       /\ Len(data) > BufSize
       /\ \E o \in write(c, Frame(writer[c].op, FALSE, SubSeq(data, 1, BufSize))) :
             /\ flushFrame(c, FALSE, SubSeq(data, 1, BufSize), o)
             /\ todo' = [todo EXCEPT ![c] = IF o.ok THEN SubSeq(data, BufSize + 1, Len(data)) ELSE <<>>]
    /\ UNCHANGED <<net, readVars, hubVars, rp, wp, queued, results, pings, exited>>

\* w.Close() with `data' in the buffer: the final frame.  An error ends writePump.
CloseWriter(c, data) ==
    /\ \E o \in write(c, Frame(writer[c].op, TRUE, data)) :
          /\ flushFrame(c, TRUE, data, o)
          /\ IF o.ok THEN wp' = [wp EXCEPT ![c] = "select"] /\ UNCHANGED net
                     ELSE WritePumpReturns(c)
    /\ todo' = [todo EXCEPT ![c] = <<>>] /\ queued' = [queued EXCEPT ![c] = FALSE]

\* When a message is in the buffer, those that wait in the channel become part of
\* it, as long as they fit; then the writer is closed.
FinishMessage(c) ==
    /\ wp[c] = "write"
    /\ LET data == writer[c].buf \o todo[c]
           waiting == IF queued[c] THEN <<>> ELSE FlattenSeq(send[c])
       IN /\ Len(data) <= BufSize
          /\ \/ /\ Len(data \o waiting) > BufSize
                /\ writer' = [writer EXCEPT ![c].buf = data]
                /\ todo' = [todo EXCEPT ![c] = waiting]
                /\ queued' = [queued EXCEPT ![c] = TRUE]
                /\ UNCHANGED <<net, wire, writeErr, wp>>
             \/ /\ Len(data \o waiting) <= BufSize
                /\ CloseWriter(c, data \o waiting)
    /\ send' = IF queued[c] THEN send ELSE [send EXCEPT ![c] = <<>>]
    /\ UNCHANGED <<readVars, clients, hubLog, since, sendClosed, rp, results, pings, exited>>

\* The hub closed the channel: a close message, and writePump returns.
TakeClosed(c) ==
    /\ wp[c] = "select" /\ send[c] = <<>> /\ c \in sendClosed
    /\ \E o \in write(c, Frame("close", TRUE, <<>>)) : WriteMessage(c, "close", o)
    /\ WritePumpReturns(c)
    /\ UNCHANGED <<readVars, hubVars, rp, todo, queued, results, pings, exited>>

\* case <-ticker.C
Ping(c) ==
    /\ wp[c] = "select" /\ pings[c] < MaxPings[c]
    /\ pings' = [pings EXCEPT ![c] = @ + 1]
    /\ \E o \in write(c, Frame("ping", TRUE, <<>>)) :
          /\ WriteMessage(c, "ping", o)
          /\ IF o.ok THEN UNCHANGED <<wp, net>> ELSE WritePumpReturns(c)
    /\ UNCHANGED <<readVars, hubVars, rp, todo, queued, results, exited>>

-----------------------------------------------------------------------------
\* The browsers, and what runs.

BrowserLeaves(c) ==
    /\ c \in Leaving /\ net[c] = "open" /\ net' = [net EXCEPT ![c] = "left"]
    /\ UNCHANGED <<writeVars, readVars, hubVars, pumpVars, exited>>

ReadPump(c) ==
    ReadFails(c) \/ SendToHub(c) \/ GiveUp(c) \/ Leave(c) \/ ReadPumpReturns(c)

WritePump(c) ==
    TakeMessage(c) \/ TakeResult(c) \/ FlushFull(c) \/ FinishMessage(c) \/ TakeClosed(c)

Next ==
    /\ ~exited
    /\ \E c \in Client :
          \/ Register(c) \/ BrowserLeaves(c)
          \/ ReadPump(c) \/ WritePump(c)
          \/ ReadFrame(c) \/ ReadTimesOut(c) \/ Ping(c)

Spec == Init /\ [][Next]_vars

\* The goroutines of every browser go on; the ticker may fire or not, a pong be late
\* or not.
FairSpec ==
    Spec /\ WF_vars(~exited /\ \E c \in Client : ReadPump(c) \/ WritePump(c))

-----------------------------------------------------------------------------
\* Types; a channel is only closed once its client is out of the hub's map, so that
\* the hub neither sends on a closed channel nor closes one twice; and no message
\* longer than the limit is put together.
TypeOK ==
    /\ net \in [Client -> {"none", "open", "left", "closed"}]
    /\ writeErr \in [Client -> {"nil", "ErrCloseSent", "failed"}]
    /\ clients \subseteq Client \ sendClosed
    /\ \A c \in Client : Len(send[c]) <= SendCap
    /\ \A c \in Client : Len(partial[c]) <= ReadLimit /\ Len(writer[c].buf) <= BufSize

\* The data frame that comes before the i-th frame.
Previous(fs, i) ==
    {j \in 1..(i - 1) : fs[j].op \in Data /\ \A k \in (j + 1)..(i - 1) : fs[k].op \notin Data}

\* On the wire to every browser, the frames of a message follow each other, with
\* control frames in between at most, and nothing comes after a close message or a
\* write that failed.
FramesInOrder ==
    \A c \in Client : \A i \in DOMAIN wire[c] :
        /\ wire[c][i].op \in Data =>
              (wire[c][i].op = "text" <=> \A j \in Previous(wire[c], i) : wire[c][j].fin)
        /\ wire[c][i].op \in {"close", "torn"} => i = Len(wire[c])

\* The units of users, without the results of the bank.
OfUsers(units) ==
    FlattenSeq([i \in DOMAIN units |-> IF units[i] = BankResult THEN <<>> ELSE <<units[i]>>])

\* What is written to a browser are the messages the hub took since it registered,
\* in their order, whole, and each once, up to where it was dropped or left.
DeliversBroadcasts ==
    \A c \in Client :
        IsPrefix(OfUsers(DataOf(wire[c])), FlattenSeq(SubSeq(hubLog, since[c] + 1, Len(hubLog))))

\* Where messages start and end in the frames of a browser, and in what the hub took
\* of it, counted in units.
Starts(fs) ==
    {Len(DataOf(SubSeq(fs, 1, j - 1))) : j \in {k \in DOMAIN fs : fs[k].op = "text"}}
Finals(fs) ==
    {Len(DataOf(SubSeq(fs, 1, j))) : j \in {k \in DOMAIN fs : fs[k].op \in Data /\ fs[k].fin}}
Heard(c, log) == FlattenSeq([i \in DOMAIN log |-> IF log[i][1][1] = c THEN log[i] ELSE <<>>])
Ends(c, log) ==
    {Len(Heard(c, SubSeq(log, 1, j))) : j \in {k \in DOMAIN log : log[k][1][1] = c}}

\* The messages of a browser reach the hub as it sent them: every one from a text
\* frame to the first final one, in order, without a gap.
BroadcastsAreMessages ==
    \A c \in Client :
        LET units == Heard(c, hubLog)
            starts == Starts(frames[c])
            finals == Finals(frames[c])
            ends == Ends(c, hubLog)
        IN /\ units = [i \in DOMAIN units |-> <<c, i>>]
           /\ \A i \in DOMAIN units :
                 /\ i \in finals <=> i \in ends
                 /\ i - 1 \in starts <=> i - 1 \in ends \cup {0}

\* When a connection is not open any more, or one of its goroutines returned, both
\* return and the hub forgets the client - unless readPump waits for ever to say that
\* no node was reached, which nobody hears after writePump returned.
DisconnectedLeaves ==
    <>[](\A c \in Client :
            net[c] \in {"left", "closed"} \/ "returned" \in {rp[c], wp[c]} =>
                \/ rp[c] = "returned" /\ wp[c] = "returned" /\ c \notin clients
                \/ rp[c] = "giveUp" /\ wp[c] = "returned"
                \/ exited)
=============================================================================
