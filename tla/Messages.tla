------------------------------ MODULE Messages ------------------------------
(***************************************************************************)
(* Vocabulary of lab6/multipaxos/defs.go and the network between the nodes *)
(* (lab6/network).  A message on its way is a pair <<node, message>> in    *)
(* `net'.  The two TCP connections of a pair of nodes, and the goroutine   *)
(* the server starts per incoming message (server.go:75), let messages     *)
(* overtake each other, a missing connection (client.go:80) and a fresh    *)
(* gob decoder per message lose them, and nothing repeats them: a message  *)
(* leaves `net' when its handler takes it, in any order, and one that      *)
(* stays there for ever is a lost one.  Two equal copies on their way to   *)
(* one node count as one.                                                  *)
(***************************************************************************)
EXTENDS Integers, FiniteSets

CONSTANTS
    N,          \* len(ClusterOfThree), the number of nodes
    Value,      \* the client commands
    Noop,       \* Value{Noop: true}
    MaxRound,   \* bound on the rounds a proposer starts
    MaxSlot     \* bound on the slots that are filled

ASSUME NAssumption == N \in Nat \ {0}
ASSUME BoundAssumption == MaxRound \in Nat /\ MaxRound >= N /\ MaxSlot \in Nat
ASSUME NoopAssumption == Noop \notin Value

Node     == 0 .. (N - 1)
NoRound  == -1
NoLeader == -1
Round    == 0 .. MaxRound
SlotID   == 0 .. MaxSlot
AnyValue == Value \cup {Noop}

\* (nrOfNodes / 2) + 1
quorum == (N \div 2) + 1
IsQuorum(Q) == Cardinality(Q) >= quorum

PromiseSlot == [ID : SlotID, Vrnd : Round, Vval : AnyValue]

Prepare == [type : {"PREPARE"}, From : Node, Slot : SlotID, Crnd : Round]
Promise == [type : {"PROMISE"}, To : Node, From : Node, Rnd : Round,
            Slots : SUBSET PromiseSlot]
Accept  == [type : {"ACCEPT"}, From : Node, Slot : SlotID, Rnd : Round,
            Val : AnyValue]
Learn   == [type : {"LEARN"}, From : Node, Slot : SlotID, Rnd : Round,
            Val : AnyValue]

\* Of at most one vote per slot: the value of a Go map keyed by SlotID.
PerSlot(S) == \A e, f \in S : e.ID = f.ID => e = f

-----------------------------------------------------------------------------
VARIABLES
    net,    \* what is on its way: a set of <<node, message>>
    sent    \* history: every message ever sent

netVars == <<net, sent>>

Sent(kind) == {m \in sent : m.type = kind}

Waiting(n, kind) == {m \in sent : m.type = kind /\ <<n, m>> \in net}

\* One step takes the messages in `taken' and sends each of `M' to `dests'.
Exchange(taken, dests, M) ==
    /\ net'  = (net \ taken) \cup (dests \X M)
    /\ sent' = sent \cup M

NetInit == net = {} /\ sent = {}
=============================================================================
