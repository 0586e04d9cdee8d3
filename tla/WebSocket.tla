------------------------------ MODULE WebSocket ------------------------------
(***************************************************************************)
(* The server end of websocket connections (lab6/gorilla/websocket/conn.go *)
(* as the chat program uses it): messages are cut into frames through the  *)
(* write buffer and put together again from the frames of the browser.     *)
(* One goroutine writes messages, the reading one answers control frames   *)
(* between them; each frame is written under the lock c.mu, in one piece.  *)
(* A payload is a sequence of units, as large as the buffer and the read   *)
(* limit count them; compression and masks are left out.                   *)
(***************************************************************************)
EXTENDS Integers, SequencesExt

CONSTANTS
    Client,     \* the browsers
    Slow,       \* those that may not answer or read in time
    BufSize,    \* units that writeBuf holds (1024 bytes in the chat program)
    ReadLimit   \* units of the largest message (512 bytes)

ASSUME WebSocketAssumption ==
    Slow \subseteq Client /\ {BufSize, ReadLimit} \subseteq Nat \ {0}

VARIABLES
    net,        \* "none", "open", "left" by the browser, or "closed" by the server
    wire,       \* the frames written on each connection so far
    writeErr,   \* c.writeErr: "nil", "ErrCloseSent" or "failed"
    writer,     \* the open message writer: its frame type and what it buffers
    frames,     \* the frames of the browser that were read so far
    readFinal,  \* c.readFinal
    partial     \* what was read of a message (readLength is its length)

writeVars == <<wire, writeErr, writer>>
readVars == <<frames, readFinal, partial>>
connVars == <<net, writeVars, readVars>>

Data == {"text", "cont"}
Closed == [op |-> "closed", buf |-> <<>>]

newConn ==
    /\ net = [c \in Client |-> "none"]
    /\ wire = [c \in Client |-> <<>>]
    /\ writeErr = [c \in Client |-> "nil"]
    /\ writer = [c \in Client |-> Closed]
    /\ frames = [c \in Client |-> <<>>]
    /\ readFinal = [c \in Client |-> TRUE]
    /\ partial = [c \in Client |-> <<>>]

Frame(op, fin, data) == [op |-> op, fin |-> fin, data |-> data]

-----------------------------------------------------------------------------
\* Writing.

\* Mutant: an error of an earlier write is not looked at.
write_unchecked(c, frame) ==
    (IF net[c] = "open"
     THEN {[ok |-> TRUE, wire |-> Append(wire[c], frame),
            err |-> IF frame.op = "close" THEN "ErrCloseSent" ELSE writeErr[c]]}
     ELSE {[ok |-> FALSE, wire |-> wire[c], err |-> "failed"]})
    \cup
    (IF net[c] = "open" /\ c \in Slow
     THEN {[ok |-> FALSE, wire |-> Append(wire[c], Frame("torn", TRUE, <<>>)), err |-> "failed"]}
     ELSE {})

\* What may come of writing a frame.  Nothing is written after an error.  A write
\* that does not end in time may have put a part of the frame on the wire.
write(c, frame) ==
    IF writeErr[c] # "nil"
    THEN {[ok |-> FALSE, wire |-> wire[c], err |-> writeErr[c]]}
    ELSE (IF net[c] = "open"
          THEN {[ok |-> TRUE, wire |-> Append(wire[c], frame),
                 err |-> IF frame.op = "close" THEN "ErrCloseSent" ELSE "nil"]}
          ELSE {[ok |-> FALSE, wire |-> wire[c], err |-> "failed"]})
         \cup
         (IF net[c] = "open" /\ c \in Slow
          THEN {[ok |-> FALSE, wire |-> Append(wire[c], Frame("torn", TRUE, <<>>)), err |-> "failed"]}
          ELSE {})

Wrote(c, o) ==
    /\ wire' = [wire EXCEPT ![c] = o.wire]
    /\ writeErr' = [writeErr EXCEPT ![c] = o.err]

\* NextWriter, when prepWrite finds no error: no writer is open in this program.
NextWriter(c) == writer' = [writer EXCEPT ![c] = [op |-> "text", buf |-> <<>>]]

\* Mutant: the buffer keeps what was flushed.
flushFrame_keeping(c, final, data, o) ==
    /\ o \in write(c, Frame(writer[c].op, final, data))
    /\ Wrote(c, o)
    /\ writer' = [writer EXCEPT ![c] =
                    IF ~o.ok THEN @ ELSE IF final THEN Closed ELSE [op |-> "cont", buf |-> data]]

\* flushFrame(final) of the open writer with `data' in the buffer.  After an error
\* the writer stays as it is: fatal records it only when there was one before.
flushFrame(c, final, data, o) ==
    /\ o \in write(c, Frame(writer[c].op, final, data))
    /\ Wrote(c, o)
    /\ writer' = [writer EXCEPT ![c] =
                    IF ~o.ok THEN @ ELSE IF final THEN Closed ELSE [op |-> "cont", buf |-> <<>>]]

\* WriteMessage of a control message.
WriteMessage(c, op, o) ==
    /\ o \in write(c, Frame(op, TRUE, <<>>))
    /\ Wrote(c, o)
    /\ UNCHANGED writer

\* WriteControl gives up when the lock is not free in time, as the other goroutine's
\* write hangs.  Nothing is written then, and nothing is recorded.
Outcome(c, op) ==
    write(c, Frame(op, TRUE, <<>>)) \cup
        (IF c \in Slow THEN {[ok |-> TRUE, wire |-> wire[c], err |-> writeErr[c]]} ELSE {})
WriteControl(c, op, o) ==
    /\ o \in Outcome(c, op)
    /\ Wrote(c, o)
    /\ UNCHANGED writer

-----------------------------------------------------------------------------
\* Reading.

\* Mutant: a text frame may come while a message is not finished.
BreaksProtocol_lenient(c, f) == f.op = "cont" /\ readFinal[c]

\* The checks of advanceFrame on the order of frames.
BreaksProtocol(c, f) ==
    \/ f.op = "text" /\ ~readFinal[c]
    \/ f.op = "cont" /\ readFinal[c]

TooBig(c, f) == f.op \in Data /\ Len(partial[c]) + Len(f.data) > ReadLimit

\* advanceFrame on the next frame f: TRUE in `ok' when reading may go on.  A broken
\* protocol and a message that is too long are answered with a close message, as a
\* close message is; a ping is answered with a pong, and whether that could be
\* written matters unless a close message was sent before.
advanceFrame(c, f, ok) ==
    /\ frames' = [frames EXCEPT ![c] = Append(@, f)]
    /\ IF BreaksProtocol(c, f) \/ TooBig(c, f) \/ f.op = "close"
       THEN /\ \E o \in Outcome(c, "close") : WriteControl(c, "close", o)
            /\ ok = FALSE
            /\ UNCHANGED <<readFinal, partial>>
       ELSE IF f.op = "ping"
       THEN /\ \E o \in Outcome(c, "pong") :
                  /\ WriteControl(c, "pong", o)
                  /\ ok = (o.ok \/ o.err = "ErrCloseSent")
            /\ UNCHANGED <<readFinal, partial>>
       ELSE /\ ok = TRUE
            /\ IF f.op \in Data
               THEN /\ readFinal' = [readFinal EXCEPT ![c] = f.fin]
                    /\ partial' = [partial EXCEPT ![c] = @ \o f.data]
               ELSE UNCHANGED <<readFinal, partial>>
            /\ UNCHANGED writeVars
=============================================================================
