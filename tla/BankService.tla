---------------------------- MODULE BankService ----------------------------
(***************************************************************************)
(* The three nodes as one external client sees them: how each of them      *)
(* answers on a connection of the client, hands a command to its proposer  *)
(* and applies what was decided (lab6/network/server.go).  The protocol is *)
(* abstracted to one log of decided commands; MultiPaxos and Cluster model *)
(* it.  A connection is a pair of streams that ends when an end is closed. *)
(* The client may have several in succession, all under its one address.   *)
(***************************************************************************)
EXTENDS Bank, FiniteSets, SequencesExt

CONSTANTS
    N,              \* number of nodes
    MaxConns,       \* how often a dial may succeed
    MaxCrashes      \* how many nodes may crash

ASSUME ServiceAssumption ==
    N \in Nat \ {0} /\ {MaxConns, MaxCrashes} \subseteq Nat

Node == 0..(N - 1)
NoNode == N
Conn == 1..MaxConns
NoConn == 0

VARIABLES
    up,             \* the nodes that run
    pLeader,        \* p.leader of every proposer
    srvLdrIn,       \* a leader on its way from there to the server, or NoNode
    curLeader,      \* srv.curLeader of every server
    conns,          \* the connections made, with what is on its way on them
    extClAddrConn,  \* the connection each server has on record for the client
    requestsIn,     \* commands each proposer is to propose
    log,            \* decided commands, in the order of their slots
    adu,            \* how many of them each server applied
    lost            \* commands that were lost in a way the code allows

nodeVars == <<up, pLeader, srvLdrIn, curLeader>>
logVars == <<requestsIn, log, adu>>
serviceVars == <<nodeVars, conns, extClAddrConn, logVars, lost>>

ServiceInit ==
    /\ up = Node
    /\ pLeader = [n \in Node |-> N - 1]
    /\ srvLdrIn = [n \in Node |-> NoNode]
    /\ curLeader = [n \in Node |-> n]
    /\ conns = <<>> /\ extClAddrConn = [n \in Node |-> NoConn]
    /\ requestsIn = [n \in Node |-> <<>>]
    /\ log = <<>> /\ adu = [n \in Node |-> 0]
    /\ lost = {}

Cmds(vals) == {vals[i].cmd : i \in DOMAIN vals}

\* A decoder is made for every message and reads ahead: what arrived together
\* with the message it returns may be lost with the decoder.
AfterDecode(stream) == {Tail(stream), <<>>}

-----------------------------------------------------------------------------
\* The leader a node takes for the leader: the detector's news reach the proposer
\* and through srvLdrIn the server.  Only a change is news: until the first one a
\* server takes its own node for the leader.

Elect(n) ==
    /\ n \in up /\ srvLdrIn[n] = NoNode
    /\ \E l \in Node \ {pLeader[n]} :
          pLeader' = [pLeader EXCEPT ![n] = l] /\ srvLdrIn' = [srvLdrIn EXCEPT ![n] = l]
    /\ lost' = IF pLeader[n] = n THEN lost \cup Cmds(requestsIn[n]) ELSE lost
    /\ UNCHANGED <<up, curLeader, conns, extClAddrConn, logVars>>

TakeLeader(n) ==
    /\ n \in up /\ srvLdrIn[n] # NoNode
    /\ curLeader' = [curLeader EXCEPT ![n] = srvLdrIn[n]]
    /\ srvLdrIn' = [srvLdrIn EXCEPT ![n] = NoNode]
    /\ UNCHANGED <<up, pLeader, conns, extClAddrConn, logVars, lost>>

-----------------------------------------------------------------------------
\* The connections at the servers.

\* The accept of connection c, which the client has just dialled.
Accept(c, n) ==
    /\ conns' = Append(conns, [node |-> n, open |-> TRUE, srvPc |-> "recv", broken |-> FALSE,
                               toSrv |-> <<>>, toCl |-> <<>>])
    /\ extClAddrConn' = [extClAddrConn EXCEPT ![n] = c]

\* case cval := <-p.cvalIn: a proposer that does not lead drops the command.  The
\* commands in gone were lost with the decoder.
DeliverClientValue(n, val, gone) ==
    IF pLeader[n] = n
    THEN /\ requestsIn' = [requestsIn EXCEPT ![n] = Append(@, val)]
         /\ lost' = lost \cup gone
    ELSE /\ lost' = lost \cup gone \cup {val.cmd}
         /\ UNCHANGED requestsIn

Redirect(c, l) ==
    conns' = [conns EXCEPT ![c].toSrv = Tail(@), ![c].srvPc = "redirected",
                  ![c].toCl = Append(@, [MsgType |-> "REDIRECT", host |-> l])]

\* A server that leads passes a command on to its proposer.  Any other one sends a
\* redirect, for which it reads curLeader a second time, perhaps after TakeLeader,
\* and is to close the connection.
srvRecvExtClMsg(c) ==
    /\ c \in DOMAIN conns /\ conns[c].srvPc = "recv" /\ conns[c].toSrv # <<>>
    /\ LET n == conns[c].node
           stream == conns[c].toSrv
       IN \/ /\ curLeader[n] = n
             /\ \E rest \in AfterDecode(stream) :
                   /\ conns' = [conns EXCEPT ![c].toSrv = rest]
                   /\ DeliverClientValue(n, Head(stream), Cmds(Tail(stream)) \ Cmds(rest))
          \/ /\ curLeader[n] # n
             /\ \E l \in {curLeader[n], srvLdrIn[n]} \cap Node : Redirect(c, l)
             /\ UNCHANGED <<requestsIn, lost>>
    /\ UNCHANGED <<nodeVars, extClAddrConn, log, adu>>

\* The record is kept per address: the one removed may be of a later connection.
CloseConn(c) ==
    /\ conns' = [conns EXCEPT ![c].srvPc = "done", ![c].toSrv = <<>>]
    /\ extClAddrConn' = [extClAddrConn EXCEPT ![conns[c].node] = NoConn]
    /\ UNCHANGED <<nodeVars, logVars, lost>>

\* The five milliseconds after a redirect are over.
CloseRedirected(c) == c \in DOMAIN conns /\ conns[c].srvPc = "redirected" /\ CloseConn(c)

\* err == io.EOF
RecvEOF(c) ==
    /\ c \in DOMAIN conns /\ conns[c].srvPc = "recv"
    /\ ~conns[c].open /\ conns[c].toSrv = <<>>
    /\ CloseConn(c)

-----------------------------------------------------------------------------
\* Decisions.

\* The protocol decides the oldest command of a leader that has a majority.
Decide(n) ==
    /\ n \in up /\ 2 * Cardinality(up) > N
    /\ pLeader[n] = n /\ requestsIn[n] # <<>>
    /\ log' = Append(log, [Head(requestsIn[n]) EXCEPT !.by = n])
    /\ requestsIn' = [requestsIn EXCEPT ![n] = Tail(@)]
    /\ UNCHANGED <<nodeVars, conns, extClAddrConn, adu, lost>>

\* TransactionResult of the i-th decided value, with the sequence number of the
\* command (Response).
TxnResponse(i) ==
    LET res == Process(BalanceAfter([j \in 1..(i - 1) |-> log[j].Txn]), log[i].Txn)
    IN [MsgType |-> "TRANSACTION_RESULT", cmd |-> log[i].cmd, ClientSeq |-> log[i].ClientSeq,
        Balance |-> res.Balance, Failed |-> res.Failed]

\* srvSendTxnResponse: what is written to a connection the client has closed, and
\* what has no connection to go to, is lost.
srvHandleDecidedValue(n) ==
    /\ n \in up /\ adu[n] < Len(log)
    /\ adu' = [adu EXCEPT ![n] = @ + 1]
    /\ LET i == adu[n] + 1
           c == extClAddrConn[n]
           answers == curLeader[n] = n /\ c # NoConn
       IN /\ conns' = IF answers THEN [conns EXCEPT ![c].toCl = Append(@, TxnResponse(i))] ELSE conns
          /\ lost' = IF log[i].by = n /\ ~(answers /\ conns[c].open)
                     THEN lost \cup {log[i].cmd} ELSE lost
    /\ UNCHANGED <<nodeVars, extClAddrConn, requestsIn, log>>

\* A node stops and its connections end.
Crash(n) ==
    /\ n \in up /\ N - Cardinality(up) < MaxCrashes
    /\ up' = up \ {n}
    /\ conns' = [c \in DOMAIN conns |->
                   IF conns[c].node = n THEN [conns[c] EXCEPT !.srvPc = "done", !.toSrv = <<>>]
                                        ELSE conns[c]]
    /\ UNCHANGED <<pLeader, srvLdrIn, curLeader, extClAddrConn, logVars, lost>>

ServerStep ==
    \/ \E n \in Node : TakeLeader(n) \/ Decide(n) \/ srvHandleDecidedValue(n)
    \/ \E c \in Conn : srvRecvExtClMsg(c) \/ CloseRedirected(c) \/ RecvEOF(c)
=============================================================================
